---------------------------- MODULE UdfBodyProofs ----------------------------
(***************************************************************************)
(* Proofs about UdfBody, for every volume and file entry: where the bytes  *)
(* of a body come from, through one or two lists of runs.                  *)
(***************************************************************************)
EXTENDS UdfFile, WellFoundedInduction, TLAPS

LEMMA LeastElement ==
    ASSUME NEW T \in SUBSET Nat, T # {}
    PROVE  \E n \in T : \A m \in T : n <= m
  <1> DEFINE R == OpToRel(<, Nat)
  <1>1. IsWellFoundedOn(R, Nat)
    BY NatLessThanWellFounded, Zenon
  <1>2. \A m, n \in Nat : m < n => <<m, n>> \in R
    BY Zenon DEF OpToRel
  <1> HIDE DEF R
  <1>3. PICK n \in T : \A m \in T : ~(<<m, n>> \in R)
    BY <1>1, WFMin
  <1>4. \A m \in T : n <= m
    <2> TAKE m \in T
    <2>1. m \in Nat /\ n \in Nat  OBVIOUS
    <2>2. ~(m < n)  BY <1>2, <1>3, <2>1
    <2> QED BY <2>1, <2>2
  <1> QED BY <1>4

(***************************************************************************)
(* Lists of runs.  Held satisfies its own definition, and each byte of a   *)
(* list has one home.                                                      *)
(***************************************************************************)
Runs(s) == Len(s) \in Nat /\ \A n \in 1..Len(s) : s[n].length \in Nat

LEMMA HeldUnfold ==
    ASSUME NEW pieces, Len(pieces) \in Nat
    PROVE  /\ Held(pieces)[0] = 0
           /\ \A n \in 1..Len(pieces) : Held(pieces)[n] = Held(pieces)[n - 1] + pieces[n].length
  <1> DEFINE Unfolds(f, k) ==
        f = [n \in 0..k |-> IF n = 0 THEN 0 ELSE f[n - 1] + pieces[n].length]
  <1>1. \A k \in Nat : \E f : Unfolds(f, k)
    <2> DEFINE T == {k \in Nat : ~\E f : Unfolds(f, k)}
    <2> SUFFICES ASSUME T # {} PROVE FALSE
      OBVIOUS
    <2>1. PICK k \in T : \A m \in T : k <= m
      <3> HIDE DEF Unfolds
      <3> QED BY LeastElement
    <2>2. CASE k = 0
      <3> DEFINE g == [n \in 0..0 |-> 0]
      <3>1. \A n \in 0..0 : g[n] = IF n = 0 THEN 0 ELSE g[n - 1] + pieces[n].length
        OBVIOUS
      <3>2. Unfolds(g, k)
        BY <2>2, <3>1
      <3> HIDE DEF Unfolds
      <3> QED BY <3>2
    <2>3. CASE k # 0
      <3>1. k - 1 \in Nat /\ k - 1 \notin T
        <4> HIDE DEF Unfolds
        <4>1. k \in Nat /\ k - 1 \in Nat
          BY <2>3
        <4>2. ~(k <= k - 1)
          BY <4>1
        <4> QED BY <2>1, <4>1, <4>2
      <3>2. PICK f : Unfolds(f, k - 1)
        <4> HIDE DEF Unfolds
        <4> QED BY <3>1
      <3> DEFINE g == [n \in 0..k |-> IF n = k THEN f[k - 1] + pieces[k].length ELSE f[n]]
      <3>3. \A n \in 0..k - 1 : g[n] = f[n]
        BY <3>1
      <3>4. \A n \in 0..k : g[n] = IF n = 0 THEN 0 ELSE g[n - 1] + pieces[n].length
        <4> TAKE n \in 0..k
        <4>1. CASE n = k
          <5>1. g[k - 1] = f[k - 1]
            BY <3>1, <3>3
          <5> QED BY <2>3, <4>1, <5>1
        <4>2. CASE n # k /\ n # 0
          <5>1. n \in 0..k - 1 /\ n - 1 \in 0..k - 1
            BY <4>2
          <5>2. f[n] = f[n - 1] + pieces[n].length
            BY <3>2, <4>2, <5>1
          <5> QED BY <3>3, <4>2, <5>1, <5>2
        <4>3. CASE n = 0 /\ n # k
          BY <3>1, <3>2, <3>3, <4>3
        <4> QED BY <4>1, <4>2, <4>3
      <3>5. Unfolds(g, k)
        BY <3>4
      <3> HIDE DEF Unfolds
      <3> QED BY <3>5
    <2> QED BY <2>2, <2>3
  <1>2. PICK f : Unfolds(f, Len(pieces))
    BY <1>1
  <1>3. Unfolds(Held(pieces), Len(pieces))
    <2>1. Held(pieces) = CHOOSE g : Unfolds(g, Len(pieces))
      BY DEF Held
    <2> HIDE DEF Unfolds
    <2> QED BY <1>2, <2>1
  <1> DEFINE F == Held(pieces)
  <1>4. \A n \in 0..Len(pieces) : F[n] = IF n = 0 THEN 0 ELSE F[n - 1] + pieces[n].length
    <2> HIDE DEF F
    <2>1. Unfolds(F, Len(pieces))
      BY <1>3 DEF F
    <2> QED BY <2>1
  <1>5. F[0] = 0 /\ \A n \in 1..Len(pieces) : F[n] = F[n - 1] + pieces[n].length
    BY <1>4
  <1> QED BY <1>5

LEMMA HeldOrder ==
    ASSUME NEW pieces, Runs(pieces)
    PROVE  /\ \A n \in 0..Len(pieces) : Held(pieces)[n] \in Nat
           /\ \A n \in 0..Len(pieces) : \A m \in 0..n : Held(pieces)[m] <= Held(pieces)[n]
  <1> DEFINE H == Held(pieces)
  <1>1. /\ H[0] = 0 /\ Len(pieces) \in Nat
        /\ \A n \in 1..Len(pieces) : H[n] = H[n - 1] + pieces[n].length
    BY HeldUnfold DEF Runs
  <1>2. \A n \in 1..Len(pieces) : pieces[n].length \in Nat
    BY DEF Runs
  <1> HIDE DEF H
  <1>3. \A n \in 0..Len(pieces) : H[n] \in Nat
    <2> DEFINE T == {n \in 0..Len(pieces) : H[n] \notin Nat}
    <2> SUFFICES ASSUME T # {} PROVE FALSE
      OBVIOUS
    <2>1. PICK n \in T : \A m \in T : n <= m
      <3>1. T \in SUBSET Nat
        OBVIOUS
      <3> QED BY <3>1, LeastElement
    <2>2. n \in 1..Len(pieces) /\ n - 1 \in 0..Len(pieces) /\ ~(n <= n - 1)
      BY <1>1
    <2>3. H[n - 1] \in Nat
      BY <2>1, <2>2
    <2>4. H[n] = H[n - 1] + pieces[n].length /\ pieces[n].length \in Nat
      BY <1>1, <1>2, <2>2
    <2>5. H[n] \in Nat
      BY <2>3, <2>4
    <2> QED BY <2>5
  <1>4. \A n \in 0..Len(pieces) : \A m \in 0..n : H[m] <= H[n]
    <2> DEFINE T == {n \in 0..Len(pieces) : \E m \in 0..n : ~(H[m] <= H[n])}
    <2> SUFFICES ASSUME T # {} PROVE FALSE
      OBVIOUS
    <2>1. PICK n \in T : \A k \in T : n <= k
      <3>1. T \in SUBSET Nat
        OBVIOUS
      <3> QED BY <3>1, LeastElement
    <2>2. PICK m \in 0..n : ~(H[m] <= H[n])
      OBVIOUS
    <2>3. n \in 0..Len(pieces) /\ m # n /\ m \in 0..n - 1 /\ n \in 1..Len(pieces)
      <3>1. n \in 0..Len(pieces) /\ H[n] \in Nat
        BY <1>3
      <3>2. m # n
        BY <2>2, <3>1
      <3> QED BY <1>1, <3>1, <3>2
    <2>4. n - 1 \in 0..Len(pieces) /\ ~(n <= n - 1)
      BY <1>1, <2>3
    <2>5. H[m] <= H[n - 1]
      BY <2>1, <2>3, <2>4
    <2>6. H[m] \in Nat /\ H[n - 1] \in Nat /\ H[n] = H[n - 1] + pieces[n].length
      BY <1>1, <1>3, <2>3, <2>4
    <2> QED BY <1>2, <2>2, <2>3, <2>5, <2>6
  <1> QED BY <1>3, <1>4 DEF H

LEMMA HeldAlike ==
    ASSUME NEW s, NEW t, Runs(s), Runs(t), NEW m \in Nat, m <= Len(s), m <= Len(t),
           \A n \in 1..m : s[n].length = t[n].length
    PROVE  \A n \in 0..m : Held(s)[n] = Held(t)[n]
  <1> DEFINE T == {n \in 0..m : Held(s)[n] # Held(t)[n]}
  <1> SUFFICES ASSUME T # {} PROVE FALSE
    OBVIOUS
  <1>1. PICK n \in T : \A k \in T : n <= k
    <2>1. T \in SUBSET Nat
      OBVIOUS
    <2> QED BY <2>1, LeastElement
  <1>2. /\ Held(s)[0] = 0 /\ Held(t)[0] = 0 /\ Len(s) \in Nat /\ Len(t) \in Nat
        /\ \A i \in 1..Len(s) : Held(s)[i] = Held(s)[i - 1] + s[i].length
        /\ \A i \in 1..Len(t) : Held(t)[i] = Held(t)[i - 1] + t[i].length
    BY HeldUnfold DEF Runs
  <1>3. n \in 1..m /\ n - 1 \in 0..m /\ ~(n <= n - 1) /\ n \in 1..Len(s) /\ n \in 1..Len(t)
    BY <1>2
  <1>4. Held(s)[n - 1] = Held(t)[n - 1]
    BY <1>1, <1>3
  <1>5. Held(s)[n] = Held(t)[n]
    BY <1>2, <1>3, <1>4
  <1> QED BY <1>5

LEMMA JoinedRuns ==
    ASSUME NEW S, NEW s \in Seq(S), NEW t \in Seq(S)
    PROVE  /\ s \o t \in Seq(S) /\ Len(s \o t) = Len(s) + Len(t)
           /\ \A i \in 1..Len(s) : (s \o t)[i] = s[i]
           /\ \A i \in 1..Len(t) : (s \o t)[Len(s) + i] = t[i]
  OBVIOUS

LEMMA HeldJoined ==
    ASSUME NEW S, \A x \in S : x.length \in Nat, NEW s \in Seq(S), NEW t \in Seq(S)
    PROVE  /\ Runs(s) /\ Runs(t) /\ Runs(s \o t)
           /\ \A n \in 0..Len(s) : Held(s \o t)[n] = Held(s)[n]
           /\ \A n \in 0..Len(t) : Held(s \o t)[Len(s) + n] = Total(s) + Held(t)[n]
  <1>1. Len(s) \in Nat /\ Len(t) \in Nat
    OBVIOUS
  <1>2. /\ s \o t \in Seq(S) /\ Len(s \o t) = Len(s) + Len(t)
        /\ \A i \in 1..Len(s) : (s \o t)[i] = s[i]
        /\ \A i \in 1..Len(t) : (s \o t)[Len(s) + i] = t[i]
    BY JoinedRuns
  <1>3. ASSUME NEW q \in Seq(S) PROVE Runs(q)
    <2>1. Len(q) \in Nat /\ \A n \in 1..Len(q) : q[n] \in S
      OBVIOUS
    <2> QED BY <2>1 DEF Runs
  <1>4. Runs(s) /\ Runs(t) /\ Runs(s \o t)
    BY <1>2, <1>3
  <1>5. PICK u : u = s \o t
    OBVIOUS
  <1>6. \A n \in 0..Len(s) : Held(u)[n] = Held(s)[n]
    <2>1. /\ Runs(u) /\ Runs(s) /\ Len(s) \in Nat /\ Len(s) <= Len(u) /\ Len(s) <= Len(s)
          /\ \A n \in 1..Len(s) : u[n].length = s[n].length
      BY <1>1, <1>2, <1>4, <1>5
    <2> QED BY <2>1, HeldAlike
  <1>7. \A n \in 0..Len(t) : Held(u)[Len(s) + n] = Held(s)[Len(s)] + Held(t)[n]
    <2> DEFINE T == {n \in 0..Len(t) : Held(u)[Len(s) + n] # Held(s)[Len(s)] + Held(t)[n]}
    <2> SUFFICES ASSUME T # {} PROVE FALSE
      OBVIOUS
    <2>1. PICK n \in T : \A k \in T : n <= k
      <3>1. T \in SUBSET Nat
        OBVIOUS
      <3> QED BY <3>1, LeastElement
    <2>2. /\ Held(t)[0] = 0
          /\ \A i \in 1..Len(t) : Held(t)[i] = Held(t)[i - 1] + t[i].length
          /\ \A i \in 1..Len(u) : Held(u)[i] = Held(u)[i - 1] + u[i].length
      BY <1>1, <1>2, <1>4, <1>5, HeldUnfold DEF Runs
    <2>3. Held(s)[Len(s)] \in Nat /\ \A i \in 0..Len(t) : Held(t)[i] \in Nat
      BY <1>1, <1>4, HeldOrder
    <2>4. n # 0
      BY <1>1, <1>6, <2>2, <2>3
    <2>5. n \in 1..Len(t) /\ n - 1 \in 0..Len(t) /\ ~(n <= n - 1)
      BY <1>1, <2>4
    <2>6. Held(u)[Len(s) + (n - 1)] = Held(s)[Len(s)] + Held(t)[n - 1]
      BY <2>1, <2>5
    <2>7. u[Len(s) + n] = t[n] /\ Len(s) + n \in 1..Len(u) /\ (Len(s) + n) - 1 = Len(s) + (n - 1)
      BY <1>1, <1>2, <1>5, <2>5
    <2>8. Held(u)[Len(s) + n] = Held(u)[Len(s) + (n - 1)] + t[n].length
      BY <2>2, <2>7
    <2>9. Held(t)[n] = Held(t)[n - 1] + t[n].length /\ t[n].length \in Nat
      BY <1>4, <2>2, <2>5 DEF Runs
    <2>10. Held(t)[n - 1] \in Nat
      BY <2>3, <2>5
    <2>11. Held(u)[Len(s) + n] = Held(s)[Len(s)] + Held(t)[n]
      <3>1. PICK hs, ht, l : hs = Held(s)[Len(s)] /\ ht = Held(t)[n - 1] /\ l = t[n].length
        OBVIOUS
      <3>2. hs \in Nat /\ ht \in Nat /\ l \in Nat
        BY <2>3, <2>9, <2>10, <3>1
      <3>3. (hs + ht) + l = hs + (ht + l)
        BY <3>2
      <3> QED BY <2>6, <2>8, <2>9, <3>1, <3>3
    <2> QED BY <2>11
  <1> QED BY <1>4, <1>5, <1>6, <1>7 DEF Total

-----------------------------------------------------------------------------
Homes(s, k) == {j \in 1..Len(s) : Held(s)[j - 1] <= k /\ k < Held(s)[j]}

HomeIn(s, k) == CHOOSE j \in Homes(s, k) : TRUE

\* The byte of the source, plus one, that byte k of a list of pieces is.
ByteIn(pieces, k) ==
    LET j == HomeIn(pieces, k)
    IN  IF pieces[j].recorded THEN pieces[j].offset + (k - Held(pieces)[j - 1]) + 1 ELSE 0

LEMMA HomeExists ==
    ASSUME NEW s, Runs(s), NEW k \in Nat, k < Total(s)
    PROVE  Homes(s, k) # {}
  <1> DEFINE T == {n \in 0..Len(s) : k < Held(s)[n]}
  <1>1. Len(s) \in Nat
    BY DEF Runs
  <1>2. T \in SUBSET Nat /\ Len(s) \in T
    BY <1>1 DEF Total
  <1>3. PICK n \in T : \A m \in T : n <= m
    <2> HIDE DEF T
    <2> QED BY <1>2, LeastElement
  <1>4. Held(s)[0] = 0
    BY <1>1, HeldUnfold
  <1>5. n \in 1..Len(s) /\ n - 1 \in 0..Len(s) /\ ~(n <= n - 1)
    BY <1>1, <1>3, <1>4
  <1>6. ~(k < Held(s)[n - 1])
    BY <1>3, <1>5
  <1>7. Held(s)[n - 1] \in Nat
    BY <1>5, HeldOrder
  <1>8. Held(s)[n - 1] <= k /\ k < Held(s)[n]
    BY <1>3, <1>6, <1>7
  <1> QED BY <1>5, <1>8 DEF Homes

LEMMA HomeIsUnique ==
    ASSUME NEW s, Runs(s), NEW k \in Nat, NEW j \in Homes(s, k)
    PROVE  HomeIn(s, k) = j /\ Homes(s, k) = {j}
  <1>1. Len(s) \in Nat
    BY DEF Runs
  <1>2. ASSUME NEW a \in 1..Len(s), NEW b \in 1..Len(s), a < b,
               k < Held(s)[a], Held(s)[b - 1] <= k
        PROVE  FALSE
    <2>1. b - 1 \in 0..Len(s) /\ a \in 0..b - 1 /\ a \in 0..Len(s)
      BY <1>1, <1>2
    <2>2. Held(s)[a] <= Held(s)[b - 1] /\ Held(s)[a] \in Nat /\ Held(s)[b - 1] \in Nat
      BY <2>1, HeldOrder
    <2> QED BY <1>2, <2>2
  <1>3. ASSUME NEW h \in Homes(s, k) PROVE h = j
    <2>1. h \in 1..Len(s) /\ Held(s)[h - 1] <= k /\ k < Held(s)[h]
      BY DEF Homes
    <2>2. j \in 1..Len(s) /\ Held(s)[j - 1] <= k /\ k < Held(s)[j]
      BY DEF Homes
    <2>3. ~(h < j) /\ ~(j < h)
      BY <1>2, <2>1, <2>2
    <2> QED BY <1>1, <2>1, <2>2, <2>3
  <1>4. Homes(s, k) = {j}
    BY <1>3
  <1> QED BY <1>4 DEF HomeIn

LEMMA ByteHere ==
    ASSUME NEW s, Runs(s), NEW k \in Nat, NEW j \in 1..Len(s),
           Held(s)[j - 1] <= k, k < Held(s)[j]
    PROVE  ByteIn(s, k) = IF s[j].recorded THEN s[j].offset + (k - Held(s)[j - 1]) + 1 ELSE 0
  <1>1. j \in Homes(s, k)
    BY DEF Homes
  <1>2. HomeIn(s, k) = j
    BY <1>1, HomeIsUnique
  <1> QED BY <1>2 DEF ByteIn

\* The reference finds a byte's run in the same place.
LEMMA HomeOfEntry ==
    ASSUME NEW e, Runs(e.descriptors), NEW k \in Nat, NEW j \in Homes(e.descriptors, k)
    PROVE  Home(e, k) = j
  <1> DEFINE s == e.descriptors
  <1>1. Len(s) \in Nat
    BY DEF Runs
  <1>2. \A i \in 1..Len(s) : Held(s)[i] = Held(s)[i - 1] + s[i].length
    BY <1>1, HeldUnfold
  <1>3. {i \in 1..Len(s) : Before(e, i) <= k /\ k < Before(e, i) + s[i].length} = Homes(s, k)
    BY <1>2 DEF Before, Homes
  <1>4. Homes(s, k) = {j}
    BY HomeIsUnique
  <1>5. j \in 1..Len(s) /\ Before(e, j) <= k /\ k < Before(e, j) + s[j].length
    BY <1>3, <1>4
  <1>6. \A i \in 1..Len(s) :
           Before(e, i) <= k /\ k < Before(e, i) + s[i].length => i = j
    BY <1>3, <1>4
  <1> QED BY <1>5, <1>6 DEF Home

Pieces == [offset : Nat, length : Nat, recorded : BOOLEAN]

LEMMA SequenceRuns ==
    ASSUME NEW S, \A x \in S : x.length \in Nat, NEW s \in Seq(S)
    PROVE  Runs(s)
  <1>1. Len(s) \in Nat /\ \A n \in 1..Len(s) : s[n] \in S
    OBVIOUS
  <1> QED BY <1>1 DEF Runs

LEMMA ByteOfJoined ==
    ASSUME NEW s \in Seq(Pieces), NEW t \in Seq(Pieces)
    PROVE  /\ Total(s) \in Nat /\ Total(t) \in Nat /\ Total(s \o t) = Total(s) + Total(t)
           /\ \A k \in Nat : k < Total(s) => ByteIn(s \o t, k) = ByteIn(s, k)
           /\ \A k \in Nat : k < Total(t) => ByteIn(s \o t, Total(s) + k) = ByteIn(t, k)
  <1>1. Len(s) \in Nat /\ Len(t) \in Nat
    OBVIOUS
  <1>2. PICK u : u = s \o t
    OBVIOUS
  <1>3. /\ Len(u) = Len(s) + Len(t)
        /\ \A i \in 1..Len(s) : u[i] = s[i]
        /\ \A i \in 1..Len(t) : u[Len(s) + i] = t[i]
    BY <1>2, JoinedRuns
  <1>4. /\ Runs(s) /\ Runs(t) /\ Runs(u)
        /\ \A n \in 0..Len(s) : Held(u)[n] = Held(s)[n]
        /\ \A n \in 0..Len(t) : Held(u)[Len(s) + n] = Total(s) + Held(t)[n]
    <2>1. \A x \in Pieces : x.length \in Nat
      BY DEF Pieces
    <2> QED BY <1>2, <2>1, HeldJoined
  <1>5. Total(s) \in Nat /\ Total(t) \in Nat
    BY <1>1, <1>4, HeldOrder DEF Total
  <1>6. Total(u) = Total(s) + Total(t)
    BY <1>1, <1>3, <1>4 DEF Total
  <1>7. ASSUME NEW k \in Nat, k < Total(s) PROVE ByteIn(u, k) = ByteIn(s, k)
    <2>1. PICK j \in Homes(s, k) : TRUE
      BY <1>4, <1>7, HomeExists
    <2>2. j \in 1..Len(s) /\ Held(s)[j - 1] <= k /\ k < Held(s)[j]
      BY DEF Homes
    <2>3. j \in 1..Len(u) /\ j - 1 \in 0..Len(s) /\ j \in 0..Len(s)
      BY <1>1, <1>3, <2>2
    <2>4. Held(u)[j - 1] = Held(s)[j - 1] /\ Held(u)[j] = Held(s)[j] /\ u[j] = s[j]
      BY <1>3, <1>4, <2>2, <2>3
    <2>5. ByteIn(s, k) = IF s[j].recorded THEN s[j].offset + (k - Held(s)[j - 1]) + 1 ELSE 0
      BY <1>4, <2>2, ByteHere
    <2>6. ByteIn(u, k) = IF u[j].recorded THEN u[j].offset + (k - Held(u)[j - 1]) + 1 ELSE 0
      BY <1>4, <2>2, <2>3, <2>4, ByteHere
    <2> QED BY <2>4, <2>5, <2>6
  <1>8. ASSUME NEW k \in Nat, k < Total(t) PROVE ByteIn(u, Total(s) + k) = ByteIn(t, k)
    <2>1. PICK j \in Homes(t, k) : TRUE
      BY <1>4, <1>8, HomeExists
    <2>2. j \in 1..Len(t) /\ Held(t)[j - 1] <= k /\ k < Held(t)[j]
      BY DEF Homes
    <2>3. j - 1 \in 0..Len(t) /\ j \in 0..Len(t)
      BY <1>1, <2>2
    <2>4. Held(t)[j - 1] \in Nat /\ Held(t)[j] \in Nat
      BY <1>4, <2>3, HeldOrder
    <2>5. PICK i : i = Len(s) + j
      OBVIOUS
    <2>6. i \in 1..Len(u) /\ i - 1 = Len(s) + (j - 1)
      BY <1>1, <1>3, <2>2, <2>5
    <2>7. /\ Held(u)[i - 1] = Total(s) + Held(t)[j - 1] /\ Held(u)[i] = Total(s) + Held(t)[j]
          /\ u[i] = t[j]
      BY <1>3, <1>4, <2>2, <2>3, <2>5, <2>6
    <2>8. ByteIn(t, k) = IF t[j].recorded THEN t[j].offset + (k - Held(t)[j - 1]) + 1 ELSE 0
      BY <1>4, <2>2, ByteHere
    <2>9. Held(u)[i - 1] <= Total(s) + k /\ Total(s) + k < Held(u)[i] /\ Total(s) + k \in Nat
      BY <1>5, <2>2, <2>4, <2>7
    <2>10. ByteIn(u, Total(s) + k)
              = IF u[i].recorded THEN u[i].offset + ((Total(s) + k) - Held(u)[i - 1]) + 1 ELSE 0
      BY <1>4, <2>6, <2>9, ByteHere
    <2>11. (Total(s) + k) - Held(u)[i - 1] = k - Held(t)[j - 1]
      BY <1>5, <2>4, <2>7
    <2> QED BY <2>7, <2>8, <2>10, <2>11
  <1> QED BY <1>2, <1>5, <1>6, <1>7, <1>8

LEMMA SinglePiece ==
    ASSUME NEW p \in Pieces
    PROVE  /\ <<p>> \in Seq(Pieces) /\ Total(<<p>>) = p.length
           /\ \A k \in Nat : k < p.length =>
                ByteIn(<<p>>, k) = IF p.recorded THEN p.offset + k + 1 ELSE 0
  <1>1. PICK s : s = <<p>>
    OBVIOUS
  <1>2. s \in Seq(Pieces) /\ Len(s) = 1 /\ s[1] = p /\ p.length \in Nat /\ p.offset \in Nat
    BY <1>1 DEF Pieces
  <1>3. Runs(s)
    BY <1>2 DEF Runs
  <1>4. Held(s)[0] = 0 /\ Held(s)[1] = Held(s)[1 - 1] + p.length
    <2>1. 1 \in 1..Len(s) /\ Len(s) \in Nat
      BY <1>2
    <2>2. Held(s)[0] = 0 /\ Held(s)[1] = Held(s)[1 - 1] + s[1].length
      BY <2>1, HeldUnfold
    <2> QED BY <1>2, <2>2
  <1>5. Held(s)[1] = p.length /\ Total(s) = p.length
    BY <1>2, <1>4 DEF Total
  <1>6. ASSUME NEW k \in Nat, k < p.length
        PROVE  ByteIn(s, k) = IF p.recorded THEN p.offset + k + 1 ELSE 0
    <2>1. 1 \in 1..Len(s) /\ Held(s)[1 - 1] <= k /\ k < Held(s)[1]
      BY <1>2, <1>4, <1>5, <1>6
    <2>2. ByteIn(s, k) = IF s[1].recorded THEN s[1].offset + (k - Held(s)[1 - 1]) + 1 ELSE 0
      BY <1>3, <2>1, ByteHere
    <2> QED BY <1>2, <1>4, <2>2
  <1> QED BY <1>1, <1>2, <1>5, <1>6

LEMMA NoPieces == <<>> \in Seq(Pieces) /\ Total(<<>>) = 0
  <1>1. Len(<<>>) = 0
    OBVIOUS
  <1> QED BY <1>1, HeldUnfold DEF Total

-----------------------------------------------------------------------------
(* The three walks along a list, unfolded as Held was. *)

LEMMA BackingUnfold ==
    ASSUME NEW backing, Len(backing) \in Nat, NEW offset, NEW length
    PROVE  /\ BackingWalk(backing, offset, length)[0] = [offset |-> offset, length |-> length, pieces |-> <<>>, status |-> "walking"]
           /\ \A n \in 1..Len(backing) :
                BackingWalk(backing, offset, length)[n] = BackingStep(BackingWalk(backing, offset, length)[n - 1], backing[n])
  <1> DEFINE Base == [offset |-> offset, length |-> length, pieces |-> <<>>, status |-> "walking"]
             Unfolds(f, k) ==
               f = [n \in 0..k |-> IF n = 0 THEN Base ELSE BackingStep(f[n - 1], backing[n])]
  <1>1. \A k \in Nat : \E f : Unfolds(f, k)
    <2> DEFINE T == {k \in Nat : ~\E f : Unfolds(f, k)}
    <2> SUFFICES ASSUME T # {} PROVE FALSE
      OBVIOUS
    <2> HIDE DEF Base
    <2>1. PICK k \in T : \A m \in T : k <= m
      <3> HIDE DEF Unfolds
      <3> QED BY LeastElement
    <2>2. CASE k = 0
      <3> DEFINE g == [n \in 0..0 |-> Base]
      <3>1. \A n \in 0..0 : g[n] = IF n = 0 THEN Base ELSE BackingStep(g[n - 1], backing[n])
        OBVIOUS
      <3>2. Unfolds(g, k)
        BY <2>2, <3>1
      <3> HIDE DEF Unfolds
      <3> QED BY <3>2
    <2>3. CASE k # 0
      <3>1. k - 1 \in Nat /\ k - 1 \notin T
        <4> HIDE DEF Unfolds
        <4>1. k \in Nat /\ k - 1 \in Nat
          BY <2>3
        <4>2. ~(k <= k - 1)
          BY <4>1
        <4> QED BY <2>1, <4>1, <4>2
      <3>2. PICK f : Unfolds(f, k - 1)
        <4> HIDE DEF Unfolds
        <4> QED BY <3>1
      <3> DEFINE g == [n \in 0..k |-> IF n = k THEN BackingStep(f[k - 1], backing[k]) ELSE f[n]]
      <3>3. \A n \in 0..k - 1 : g[n] = f[n]
        BY <3>1
      <3>4. \A n \in 0..k : g[n] = IF n = 0 THEN Base ELSE BackingStep(g[n - 1], backing[n])
        <4> TAKE n \in 0..k
        <4>1. CASE n = k
          <5>1. g[k - 1] = f[k - 1]
            BY <3>1, <3>3
          <5> QED BY <2>3, <4>1, <5>1
        <4>2. CASE n # k /\ n # 0
          <5>1. n \in 0..k - 1 /\ n - 1 \in 0..k - 1
            BY <4>2
          <5>2. f[n] = BackingStep(f[n - 1], backing[n])
            BY <3>2, <4>2, <5>1
          <5> QED BY <3>3, <4>2, <5>1, <5>2
        <4>3. CASE n = 0 /\ n # k
          BY <3>1, <3>2, <3>3, <4>3
        <4> QED BY <4>1, <4>2, <4>3
      <3>5. Unfolds(g, k)
        BY <3>4
      <3> HIDE DEF Unfolds
      <3> QED BY <3>5
    <2> QED BY <2>2, <2>3
  <1>2. PICK f : Unfolds(f, Len(backing))
    BY <1>1
  <1>3. Unfolds(BackingWalk(backing, offset, length), Len(backing))
    <2>1. BackingWalk(backing, offset, length) = CHOOSE g : Unfolds(g, Len(backing))
      BY DEF BackingWalk
    <2> HIDE DEF Unfolds
    <2> QED BY <1>2, <2>1
  <1> DEFINE F == BackingWalk(backing, offset, length)
  <1>4. \A n \in 0..Len(backing) : F[n] = IF n = 0 THEN Base ELSE BackingStep(F[n - 1], backing[n])
    <2> HIDE DEF F, Base
    <2>1. Unfolds(F, Len(backing))
      BY <1>3 DEF F
    <2> QED BY <2>1
  <1>5. F[0] = Base /\ \A n \in 1..Len(backing) : F[n] = BackingStep(F[n - 1], backing[n])
    <2> HIDE DEF F, Base
    <2> QED BY <1>4
  <1> QED BY <1>5

LEMMA TranslatedUnfold ==
    ASSUME NEW list, Len(list) \in Nat, NEW known
    PROVE  /\ Translated(known, list)[0] = Answer("done", <<>>)
           /\ \A n \in 1..Len(list) :
                Translated(known, list)[n] = Joined(Translated(known, list)[n - 1], TranslateDescriptor(known, list[n]))
  <1> DEFINE Base == Answer("done", <<>>)
             Unfolds(f, k) ==
               f = [n \in 0..k |-> IF n = 0 THEN Base ELSE Joined(f[n - 1], TranslateDescriptor(known, list[n]))]
  <1>1. \A k \in Nat : \E f : Unfolds(f, k)
    <2> DEFINE T == {k \in Nat : ~\E f : Unfolds(f, k)}
    <2> SUFFICES ASSUME T # {} PROVE FALSE
      OBVIOUS
    <2> HIDE DEF Base
    <2>1. PICK k \in T : \A m \in T : k <= m
      <3> HIDE DEF Unfolds
      <3> QED BY LeastElement
    <2>2. CASE k = 0
      <3> DEFINE g == [n \in 0..0 |-> Base]
      <3>1. \A n \in 0..0 : g[n] = IF n = 0 THEN Base ELSE Joined(g[n - 1], TranslateDescriptor(known, list[n]))
        OBVIOUS
      <3>2. Unfolds(g, k)
        BY <2>2, <3>1
      <3> HIDE DEF Unfolds
      <3> QED BY <3>2
    <2>3. CASE k # 0
      <3>1. k - 1 \in Nat /\ k - 1 \notin T
        <4> HIDE DEF Unfolds
        <4>1. k \in Nat /\ k - 1 \in Nat
          BY <2>3
        <4>2. ~(k <= k - 1)
          BY <4>1
        <4> QED BY <2>1, <4>1, <4>2
      <3>2. PICK f : Unfolds(f, k - 1)
        <4> HIDE DEF Unfolds
        <4> QED BY <3>1
      <3> DEFINE g == [n \in 0..k |-> IF n = k THEN Joined(f[k - 1], TranslateDescriptor(known, list[k])) ELSE f[n]]
      <3>3. \A n \in 0..k - 1 : g[n] = f[n]
        BY <3>1
      <3>4. \A n \in 0..k : g[n] = IF n = 0 THEN Base ELSE Joined(g[n - 1], TranslateDescriptor(known, list[n]))
        <4> TAKE n \in 0..k
        <4>1. CASE n = k
          <5>1. g[k - 1] = f[k - 1]
            BY <3>1, <3>3
          <5> QED BY <2>3, <4>1, <5>1
        <4>2. CASE n # k /\ n # 0
          <5>1. n \in 0..k - 1 /\ n - 1 \in 0..k - 1
            BY <4>2
          <5>2. f[n] = Joined(f[n - 1], TranslateDescriptor(known, list[n]))
            BY <3>2, <4>2, <5>1
          <5> QED BY <3>3, <4>2, <5>1, <5>2
        <4>3. CASE n = 0 /\ n # k
          BY <3>1, <3>2, <3>3, <4>3
        <4> QED BY <4>1, <4>2, <4>3
      <3>5. Unfolds(g, k)
        BY <3>4
      <3> HIDE DEF Unfolds
      <3> QED BY <3>5
    <2> QED BY <2>2, <2>3
  <1>2. PICK f : Unfolds(f, Len(list))
    BY <1>1
  <1>3. Unfolds(Translated(known, list), Len(list))
    <2>1. Translated(known, list) = CHOOSE g : Unfolds(g, Len(list))
      BY DEF Translated
    <2> HIDE DEF Unfolds
    <2> QED BY <1>2, <2>1
  <1> DEFINE F == Translated(known, list)
  <1>4. \A n \in 0..Len(list) : F[n] = IF n = 0 THEN Base ELSE Joined(F[n - 1], TranslateDescriptor(known, list[n]))
    <2> HIDE DEF F, Base
    <2>1. Unfolds(F, Len(list))
      BY <1>3 DEF F
    <2> QED BY <2>1
  <1>5. F[0] = Base /\ \A n \in 1..Len(list) : F[n] = Joined(F[n - 1], TranslateDescriptor(known, list[n]))
    <2> HIDE DEF F, Base
    <2> QED BY <1>4
  <1> QED BY <1>5

LEMMA LogicalUnfold ==
    ASSUME Len(input.entry.descriptors) \in Nat, NEW offset
    PROVE  /\ LogicalWalk(offset)[0] = [remaining |-> offset, block |-> -1]
           /\ \A n \in 1..Len(input.entry.descriptors) :
                LogicalWalk(offset)[n] = LogicalStep(LogicalWalk(offset)[n - 1], input.entry.descriptors[n])
  <1> DEFINE Base == [remaining |-> offset, block |-> -1]
             Unfolds(f, k) ==
               f = [n \in 0..k |-> IF n = 0 THEN Base ELSE LogicalStep(f[n - 1], input.entry.descriptors[n])]
  <1>1. \A k \in Nat : \E f : Unfolds(f, k)
    <2> DEFINE T == {k \in Nat : ~\E f : Unfolds(f, k)}
    <2> SUFFICES ASSUME T # {} PROVE FALSE
      OBVIOUS
    <2> HIDE DEF Base
    <2>1. PICK k \in T : \A m \in T : k <= m
      <3> HIDE DEF Unfolds
      <3> QED BY LeastElement
    <2>2. CASE k = 0
      <3> DEFINE g == [n \in 0..0 |-> Base]
      <3>1. \A n \in 0..0 : g[n] = IF n = 0 THEN Base ELSE LogicalStep(g[n - 1], input.entry.descriptors[n])
        OBVIOUS
      <3>2. Unfolds(g, k)
        BY <2>2, <3>1
      <3> HIDE DEF Unfolds
      <3> QED BY <3>2
    <2>3. CASE k # 0
      <3>1. k - 1 \in Nat /\ k - 1 \notin T
        <4> HIDE DEF Unfolds
        <4>1. k \in Nat /\ k - 1 \in Nat
          BY <2>3
        <4>2. ~(k <= k - 1)
          BY <4>1
        <4> QED BY <2>1, <4>1, <4>2
      <3>2. PICK f : Unfolds(f, k - 1)
        <4> HIDE DEF Unfolds
        <4> QED BY <3>1
      <3> DEFINE g == [n \in 0..k |-> IF n = k THEN LogicalStep(f[k - 1], input.entry.descriptors[k]) ELSE f[n]]
      <3>3. \A n \in 0..k - 1 : g[n] = f[n]
        BY <3>1
      <3>4. \A n \in 0..k : g[n] = IF n = 0 THEN Base ELSE LogicalStep(g[n - 1], input.entry.descriptors[n])
        <4> TAKE n \in 0..k
        <4>1. CASE n = k
          <5>1. g[k - 1] = f[k - 1]
            BY <3>1, <3>3
          <5> QED BY <2>3, <4>1, <5>1
        <4>2. CASE n # k /\ n # 0
          <5>1. n \in 0..k - 1 /\ n - 1 \in 0..k - 1
            BY <4>2
          <5>2. f[n] = LogicalStep(f[n - 1], input.entry.descriptors[n])
            BY <3>2, <4>2, <5>1
          <5> QED BY <3>3, <4>2, <5>1, <5>2
        <4>3. CASE n = 0 /\ n # k
          BY <3>1, <3>2, <3>3, <4>3
        <4> QED BY <4>1, <4>2, <4>3
      <3>5. Unfolds(g, k)
        BY <3>4
      <3> HIDE DEF Unfolds
      <3> QED BY <3>5
    <2> QED BY <2>2, <2>3
  <1>2. PICK f : Unfolds(f, Len(input.entry.descriptors))
    BY <1>1
  <1>3. Unfolds(LogicalWalk(offset), Len(input.entry.descriptors))
    <2>1. LogicalWalk(offset) = CHOOSE g : Unfolds(g, Len(input.entry.descriptors))
      BY DEF LogicalWalk
    <2> HIDE DEF Unfolds
    <2> QED BY <1>2, <2>1
  <1> DEFINE F == LogicalWalk(offset)
  <1>4. \A n \in 0..Len(input.entry.descriptors) : F[n] = IF n = 0 THEN Base ELSE LogicalStep(F[n - 1], input.entry.descriptors[n])
    <2> HIDE DEF F, Base
    <2>1. Unfolds(F, Len(input.entry.descriptors))
      BY <1>3 DEF F
    <2> QED BY <2>1
  <1>5. F[0] = Base /\ \A n \in 1..Len(input.entry.descriptors) : F[n] = LogicalStep(F[n - 1], input.entry.descriptors[n])
    <2> HIDE DEF F, Base
    <2> QED BY <1>4
  <1> QED BY <1>5

-----------------------------------------------------------------------------
(***************************************************************************)
(* A run through the metadata file.                                        *)
(***************************************************************************)
First == input.start_sector * SectorBytes
Past == (input.start_sector + input.sectors) * SectorBytes

Inside(p) == p.recorded => First <= p.offset /\ p.offset + p.length <= Past

Placed(pieces) == pieces \in Seq(Pieces) /\ \A i \in 1..Len(pieces) : Inside(pieces[i])

NoneEmpty(pieces) == \A i \in 1..Len(pieces) : pieces[i].length # 0

\* The pieces are the descriptors of a file in the physical partition, one by one.
Backs(backing, main) ==
    /\ Placed(backing)
    /\ Len(backing) = Len(main.descriptors)
    /\ \A n \in 1..Len(backing) :
          /\ backing[n].length = main.descriptors[n].length
          /\ backing[n].recorded => backing[n].offset = First + main.descriptors[n].offset

MainByte(main, byte) == PhysicalByte(LogicalByte(main, byte))

WalkState ==
    [offset : Nat, length : Nat, pieces : Seq(Pieces),
     status : {"walking", "done", "unallocated"}]

\* What is left of the run starts where the pieces taken end.
Walking(main, backing, offset, length, n, w) ==
    /\ w \in WalkState
    /\ w.status # "unallocated" =>
          /\ Placed(w.pieces)
          /\ Total(w.pieces) + w.length = length
          /\ \A k \in Nat : k < Total(w.pieces) =>
                ByteIn(w.pieces, k) = MainByte(main, offset + k)
          /\ length # 0 => NoneEmpty(w.pieces)
    /\ w.status = "done" => w.length = 0
    /\ w.status = "walking" =>
          /\ w.offset + Held(backing)[n] = offset + Total(w.pieces)
          /\ length # 0 => w.length # 0

LEMMA InputType ==
    ASSUME input \in Inputs
    PROVE  /\ input.start_sector \in Nat /\ input.sectors \in Nat /\ input.total_bytes \in Nat
           /\ input.maps \in Seq(MetadataMap) /\ Len(input.maps) <= 1
           /\ input.entry \in FileEntry
           /\ Past <= input.total_bytes /\ First \in Nat /\ Past \in Nat /\ First <= Past
  <1>1. /\ input.start_sector \in Nat /\ input.sectors \in Nat /\ input.total_bytes \in Nat
        /\ input.maps \in Seq(MetadataMap) /\ Len(input.maps) <= 1
        /\ input.entry \in FileEntry
        /\ Past <= input.total_bytes
    BY InputsAssumption DEF Past
  <1>2. SectorBytes \in Nat
    BY SectorAssumption
  <1>3. First \in Nat /\ Past \in Nat
    BY <1>1, <1>2 DEF First, Past
  <1>4. Past = First + input.sectors * SectorBytes /\ input.sectors * SectorBytes \in Nat
    BY <1>1, <1>2 DEF First, Past
  <1> QED BY <1>1, <1>3, <1>4

LEMMA TotalType ==
    ASSUME NEW s \in Seq(Pieces)
    PROVE  Runs(s) /\ Total(s) \in Nat /\ \A n \in 0..Len(s) : Held(s)[n] \in Nat
  <1>1. \A x \in Pieces : x.length \in Nat
    BY DEF Pieces
  <1>2. Runs(s)
    BY <1>1, SequenceRuns
  <1> QED BY <1>2, HeldOrder DEF Total, Runs

LEMMA DescriptorRuns ==
    ASSUME NEW e \in FileEntry
    PROVE  /\ Runs(e.descriptors) /\ e.descriptors \in Seq(Descriptor)
           /\ e.information_length \in Nat
  <1>1. e.descriptors \in Seq(Descriptor) /\ e.information_length \in Nat
    BY DEF FileEntry
  <1>2. \A x \in Descriptor : x.length \in Nat
    BY DEF Descriptor
  <1> QED BY <1>1, <1>2, SequenceRuns

\* The pieces taken and one more.
LEMMA OnePieceMore ==
    ASSUME NEW s \in Seq(Pieces), NEW p \in Pieces
    PROVE  /\ Append(s, p) \in Seq(Pieces) /\ Total(Append(s, p)) = Total(s) + p.length
           /\ Len(Append(s, p)) = Len(s) + 1
           /\ \A i \in 1..Len(s) : Append(s, p)[i] = s[i]
           /\ Append(s, p)[Len(s) + 1] = p
           /\ \A k \in Nat : k < Total(s) => ByteIn(Append(s, p), k) = ByteIn(s, k)
           /\ \A i \in Nat : i < p.length =>
                ByteIn(Append(s, p), Total(s) + i)
                    = IF p.recorded THEN p.offset + i + 1 ELSE 0
  <1>1. PICK u : u = <<p>>
    OBVIOUS
  <1>2. u \in Seq(Pieces) /\ Total(u) = p.length
        /\ \A k \in Nat : k < p.length =>
                ByteIn(u, k) = IF p.recorded THEN p.offset + k + 1 ELSE 0
    BY <1>1, SinglePiece
  <1>3. Append(s, p) = s \o u
    BY <1>1
  <1>4. /\ Total(s \o u) = Total(s) + Total(u)
        /\ \A k \in Nat : k < Total(s) => ByteIn(s \o u, k) = ByteIn(s, k)
        /\ \A k \in Nat : k < Total(u) => ByteIn(s \o u, Total(s) + k) = ByteIn(u, k)
    BY <1>2, ByteOfJoined
  <1>5. /\ Append(s, p) \in Seq(Pieces) /\ Len(Append(s, p)) = Len(s) + 1
        /\ \A i \in 1..Len(s) : Append(s, p)[i] = s[i]
        /\ Append(s, p)[Len(s) + 1] = p
    OBVIOUS
  <1>6. \A i \in Nat : i < p.length =>
                ByteIn(s \o u, Total(s) + i)
                    = IF p.recorded THEN p.offset + i + 1 ELSE 0
    BY <1>2, <1>4
  <1> QED BY <1>2, <1>3, <1>4, <1>5, <1>6

\* The byte of the metadata file that lies in its n-th descriptor.
LEMMA MainByteHere ==
    ASSUME input \in Inputs, NEW main \in FileEntry, NEW backing, Backs(backing, main),
           NEW n \in 1..Len(backing), NEW b \in Nat,
           Held(backing)[n - 1] <= b, b < Held(backing)[n], backing[n].recorded
    PROVE  MainByte(main, b) = backing[n].offset + (b - Held(backing)[n - 1]) + 1
  <1> DEFINE d == main.descriptors
  <1>1. Runs(d) /\ d \in Seq(Descriptor) /\ Len(d) \in Nat
    BY DescriptorRuns DEF Runs
  <1>2. Runs(backing) /\ Len(backing) = Len(d) /\ backing \in Seq(Pieces)
    BY TotalType DEF Backs, Placed
  <1>3. \A i \in 0..Len(d) : Held(backing)[i] = Held(d)[i]
    <2>1. \A i \in 1..Len(d) : backing[i].length = d[i].length
      BY <1>2 DEF Backs
    <2>2. PICK m : m = Len(d)
      OBVIOUS
    <2>3. m \in Nat /\ m <= Len(d) /\ m <= Len(backing)
      BY <1>1, <1>2, <2>2
    <2>4. \A i \in 0..m : Held(backing)[i] = Held(d)[i]
      <3> HIDE DEF d
      <3> QED BY <1>1, <1>2, <2>1, <2>2, <2>3, HeldAlike
    <2> QED BY <2>2, <2>4
  <1>4. n \in 1..Len(d) /\ n \in 0..Len(d) /\ n - 1 \in 0..Len(d)
    BY <1>1, <1>2
  <1>5. n \in Homes(d, b)
    BY <1>3, <1>4 DEF Homes
  <1>6. Home(main, b) = n
    BY <1>1, <1>5, HomeOfEntry
  <1>7. LogicalByte(main, b) = d[n].offset + b - Held(d)[n - 1]
    BY <1>6 DEF LogicalByte, Before
  <1>8. backing[n].offset = First + d[n].offset
    BY DEF Backs
  <1>9. d[n].offset \in Nat /\ Held(d)[n - 1] \in Nat /\ First \in Nat
    <2>1. d[n] \in Descriptor
      BY <1>1, <1>4
    <2>2. Held(d)[n - 1] \in Nat
      BY <1>1, <1>4, HeldOrder
    <2>3. d[n].offset \in Nat
      BY <2>1 DEF Descriptor
    <2> QED BY <2>2, <2>3, InputType
  <1>10. Held(backing)[n - 1] = Held(d)[n - 1]
    BY <1>3, <1>4
  <1>11. MainByte(main, b) = First + LogicalByte(main, b) + 1
    BY DEF MainByte, PhysicalByte, First
  <1> HIDE DEF d
  <1> QED BY <1>7, <1>8, <1>9, <1>10, <1>11

LEMMA PieceType ==
    ASSUME NEW backing, Placed(backing), NEW n \in 1..Len(backing)
    PROVE  /\ backing[n] \in Pieces /\ Inside(backing[n])
           /\ backing[n].offset \in Nat /\ backing[n].length \in Nat
           /\ backing[n].recorded \in BOOLEAN
  <1>1. backing[n] \in Pieces
    BY DEF Placed
  <1>2. Inside(backing[n])
    BY DEF Placed
  <1> QED BY <1>1, <1>2 DEF Pieces

LEMMA LeastTaken ==
    ASSUME NEW wl \in Nat, NEW room \in Nat, room # 0, NEW t, t = Least(wl, room)
    PROVE  /\ t \in Nat /\ t <= wl /\ t <= room /\ (t = wl \/ t = room)
           /\ wl # 0 => t # 0
  BY DEF Least

\* A piece that holds the next bytes of the run is entered.
LEMMA EnterHolds ==
    ASSUME input \in Inputs, NEW main \in FileEntry, NEW backing, Backs(backing, main),
           NEW offset \in Nat, NEW length \in Nat, NEW n \in 1..Len(backing),
           NEW w, Walking(main, backing, offset, length, n - 1, w), w.status = "walking",
           w.offset < backing[n].length, backing[n].recorded
    PROVE  Walking(main, backing, offset, length, n, BackingStep(w, backing[n]))
  <1>1. PICK p : p = backing[n]
    OBVIOUS
  <1>2. /\ p \in Pieces /\ Inside(p) /\ p.recorded /\ p.offset \in Nat /\ p.length \in Nat
        /\ First \in Nat /\ Past \in Nat /\ input.total_bytes \in Nat /\ Past <= input.total_bytes
    <2>1. Placed(backing)
      BY DEF Backs
    <2> QED BY <1>1, <2>1, PieceType, InputType
  <1>3. /\ w \in WalkState /\ w.offset \in Nat /\ w.length \in Nat /\ w.pieces \in Seq(Pieces)
        /\ Placed(w.pieces) /\ Total(w.pieces) + w.length = length
        /\ w.offset + Held(backing)[n - 1] = offset + Total(w.pieces)
        /\ length # 0 => w.length # 0 /\ NoneEmpty(w.pieces)
        /\ \A k \in Nat : k < Total(w.pieces) => ByteIn(w.pieces, k) = MainByte(main, offset + k)
    <2>1. w \in WalkState
      BY DEF Walking
    <2> QED BY <2>1 DEF Walking, WalkState
  <1>4. PICK t : t = Least(w.length, p.length - w.offset)
    OBVIOUS
  <1>5. /\ t \in Nat /\ t <= w.length /\ t <= p.length - w.offset
        /\ t = w.length \/ t = p.length - w.offset
        /\ w.length # 0 => t # 0
    <2>1. PICK wl, room : wl = w.length /\ room = p.length - w.offset
      OBVIOUS
    <2>2. wl \in Nat /\ room \in Nat /\ room # 0 /\ t = Least(wl, room)
      <3>1. PICK pl, wo : pl = p.length /\ wo = w.offset
        OBVIOUS
      <3>2. pl \in Nat /\ wo \in Nat /\ wl \in Nat
        BY <1>2, <1>3, <2>1, <3>1, Zenon
      <3>3. wo < pl
        BY <1>1, <3>1, Zenon
      <3>4. pl - wo \in Nat /\ pl - wo # 0
        BY <3>2, <3>3
      <3> QED BY <1>4, <2>1, <3>1, <3>2, <3>4, Zenon
    <2>3. /\ t \in Nat /\ t <= wl /\ t <= room /\ (t = wl \/ t = room)
          /\ wl # 0 => t # 0
      BY <2>2, LeastTaken
    <2> QED BY <2>1, <2>3, Zenon
  <1>6. PICK q : q = Piece(p.offset + w.offset, t, TRUE)
    OBVIOUS
  <1>7. /\ q \in Pieces /\ q.offset = p.offset + w.offset /\ q.length = t /\ q.recorded
        /\ Inside(q) /\ p.offset + w.offset + t <= input.total_bytes
    <2>1. q = [offset |-> p.offset + w.offset, length |-> t, recorded |-> TRUE]
      BY <1>6 DEF Piece
    <2>2. p.offset + w.offset \in Nat
      BY <1>2, <1>3
    <2>3. q \in Pieces /\ q.offset = p.offset + w.offset /\ q.length = t /\ q.recorded
      BY <1>5, <2>1, <2>2 DEF Pieces
    <2>4. First <= p.offset /\ p.offset + p.length <= Past
      BY <1>2 DEF Inside
    <2>5. First <= p.offset + w.offset /\ p.offset + w.offset + t <= Past
      <3>1. PICK po, pl, wo, f, e : po = p.offset /\ pl = p.length /\ wo = w.offset
                                   /\ f = First /\ e = Past
        OBVIOUS
      <3>2. /\ po \in Nat /\ pl \in Nat /\ wo \in Nat /\ f \in Nat /\ e \in Nat
            /\ f <= po /\ po + pl <= e
        BY <1>2, <1>3, <2>4, <3>1
      <3>3. t \in Nat /\ t <= pl - wo
        <4>1. t \in Nat /\ t <= p.length - w.offset
          BY <1>5, Zenon
        <4> QED BY <3>1, <4>1
      <3>4. f <= po + wo /\ po + wo + t <= e
        BY <3>2, <3>3
      <3> QED BY <3>1, <3>4
    <2>6. p.offset + w.offset + t <= input.total_bytes
      <3>1. PICK last, top : last = p.offset + w.offset + t /\ top = input.total_bytes
        OBVIOUS
      <3>2. last \in Nat /\ last <= Past
        BY <1>5, <2>2, <2>5, <3>1
      <3>3. Past <= top /\ Past \in Nat /\ top \in Nat
        BY <3>1, InputType
      <3>4. last <= top
        BY <3>2, <3>3
      <3> QED BY <3>1, <3>4
    <2> QED BY <2>3, <2>5, <2>6 DEF Inside
  <1>8. PICK x : x = [offset |-> 0, length |-> w.length - t, pieces |-> Append(w.pieces, q),
                      status |-> IF w.length = t THEN "done" ELSE "walking"]
    OBVIOUS
  <1>9. BackingStep(w, p) = x
    <2>1. ~(w.offset >= p.length)
      BY <1>1, <1>2, <1>3
    <2>2. ~(p.offset + w.offset + t > input.total_bytes)
      <3>1. PICK last, top : last = p.offset + w.offset + t /\ top = input.total_bytes
        OBVIOUS
      <3>2. last \in Nat
        <4>1. p.offset \in Nat /\ w.offset \in Nat /\ t \in Nat
          BY <1>2, <1>3, <1>5, Zenon
        <4> QED BY <3>1, <4>1
      <3>3. last <= top /\ top \in Nat
        BY <1>2, <1>7, <3>1
      <3>4. ~(last > top)
        BY <3>2, <3>3
      <3> QED BY <3>1, <3>4
    <2> QED BY <1>2, <1>4, <1>6, <1>8, <2>1, <2>2 DEF BackingStep, EnterPiece
  <1>10. PICK s : s = w.pieces
    OBVIOUS
  <1>11. PICK u : u = Append(s, q)
    OBVIOUS
  <1>12. /\ u \in Seq(Pieces) /\ Total(u) = Total(s) + t /\ Len(u) = Len(s) + 1
         /\ \A i \in 1..Len(s) : u[i] = s[i]
         /\ u[Len(s) + 1] = q
         /\ \A k \in Nat : k < Total(s) => ByteIn(u, k) = ByteIn(s, k)
         /\ \A i \in Nat : i < t => ByteIn(u, Total(s) + i) = q.offset + i + 1
    BY <1>3, <1>7, <1>10, <1>11, OnePieceMore
  <1>13. Total(s) \in Nat /\ Len(s) \in Nat
    BY <1>3, <1>10, TotalType
  <1>14. x \in WalkState /\ x.offset = 0 /\ x.length = w.length - t /\ x.pieces = u
         /\ x.status = IF w.length = t THEN "done" ELSE "walking"
    <2>1. w.length - t \in Nat
      BY <1>3, <1>5
    <2> QED BY <1>8, <1>10, <1>11, <1>12, <2>1 DEF WalkState
  <1>15. Placed(u)
    <2>1. ASSUME NEW i \in 1..Len(u) PROVE Inside(u[i])
      <3>1. CASE i \in 1..Len(s)
        BY <1>3, <1>10, <1>12, <3>1 DEF Placed
      <3>2. CASE i \notin 1..Len(s)
        <4>1. i = Len(s) + 1
          BY <1>12, <1>13, <3>2
        <4> QED BY <1>7, <1>12, <4>1
      <3> QED BY <3>1, <3>2
    <2> QED BY <1>12, <2>1 DEF Placed
  <1>16. length # 0 => NoneEmpty(u)
    <2> SUFFICES ASSUME length # 0, NEW i \in 1..Len(u) PROVE u[i].length # 0
      BY DEF NoneEmpty
    <2>1. CASE i \in 1..Len(s)
      BY <1>3, <1>10, <1>12, <2>1 DEF NoneEmpty
    <2>2. CASE i \notin 1..Len(s)
      <3>1. i = Len(s) + 1
        BY <1>12, <1>13, <2>2
      <3> QED BY <1>3, <1>5, <1>7, <1>12, <3>1
    <2> QED BY <2>1, <2>2
  <1>17. PICK h : h = Held(backing)[n - 1]
    OBVIOUS
  <1>18. h \in Nat /\ Held(backing)[n] = h + p.length /\ w.offset + h = offset + Total(s)
    <2>1. Runs(backing) /\ Len(backing) \in Nat
      BY TotalType DEF Backs, Placed, Runs
    <2>2. n - 1 \in 0..Len(backing)
      BY <2>1
    <2>3. Held(backing)[n - 1] \in Nat
      BY <2>1, <2>2, HeldOrder
    <2>4. Held(backing)[n] = Held(backing)[n - 1] + backing[n].length
      BY <2>1, HeldUnfold
    <2> QED BY <1>1, <1>3, <1>10, <1>17, <2>3, <2>4
  <1>19. ASSUME NEW k \in Nat, k < Total(u) PROVE ByteIn(u, k) = MainByte(main, offset + k)
    <2>1. CASE k < Total(s)
      BY <1>3, <1>10, <1>12, <2>1
    <2>2. CASE ~(k < Total(s))
      <3>1. PICK i \in Nat : k = Total(s) + i
        <4>1. k - Total(s) \in Nat /\ k = Total(s) + (k - Total(s))
          BY <1>13, <2>2
        <4> QED BY <4>1
      <3>2. i < t
        BY <1>5, <1>12, <1>13, <1>19, <3>1
      <3>3. ByteIn(u, k) = q.offset + i + 1
        BY <1>12, <3>1, <3>2
      <3>4. PICK b : b = offset + k
        OBVIOUS
      <3>5. b \in Nat /\ h <= b /\ b < h + p.length /\ b - h = w.offset + i
        <4>1. PICK pl, wo, ts : pl = p.length /\ wo = w.offset /\ ts = Total(s)
          OBVIOUS
        <4>2. pl \in Nat /\ wo \in Nat /\ ts \in Nat /\ h \in Nat /\ wo + h = offset + ts
          BY <1>2, <1>3, <1>13, <1>18, <4>1
        <4>3. t \in Nat /\ t <= pl - wo /\ i < t /\ b = offset + (ts + i)
          BY <1>5, <3>1, <3>2, <3>4, <4>1
        <4>4. b \in Nat /\ h <= b /\ b < h + pl /\ b - h = wo + i
          BY <4>2, <4>3
        <4> QED BY <4>1, <4>4
      <3>6. MainByte(main, b) = p.offset + (b - h) + 1
        <4>1. Held(backing)[n - 1] <= b /\ b < Held(backing)[n] /\ b \in Nat
          BY <1>17, <1>18, <3>5
        <4>2. MainByte(main, b) = backing[n].offset + (b - Held(backing)[n - 1]) + 1
          BY <4>1, MainByteHere
        <4> QED BY <1>1, <1>17, <4>2
      <3>7. p.offset + (b - h) + 1 = q.offset + i + 1
        <4>1. p.offset \in Nat /\ w.offset \in Nat /\ q.offset = p.offset + w.offset
          BY <1>2, <1>3, <1>7
        <4>2. b - h = w.offset + i
          BY <3>5
        <4> QED BY <4>1, <4>2
      <3> QED BY <3>3, <3>4, <3>6, <3>7
    <2> QED BY <2>1, <2>2
  <1>20. Total(u) + x.length = length
    BY <1>3, <1>5, <1>10, <1>12, <1>13, <1>14
  <1>21. x.status = "done" => x.length = 0
    BY <1>3, <1>5, <1>14
  <1>22. x.status = "walking" =>
            /\ x.offset + Held(backing)[n] = offset + Total(u)
            /\ length # 0 => x.length # 0
    <2> SUFFICES ASSUME x.status = "walking"
                 PROVE  x.offset + Held(backing)[n] = offset + Total(u) /\ x.length # 0
      OBVIOUS
    <2>1. w.length # t
      BY <1>14
    <2>2. t = p.length - w.offset /\ x.length # 0
      BY <1>3, <1>5, <1>14, <2>1
    <2>3. PICK pl, wo, ts : pl = p.length /\ wo = w.offset /\ ts = Total(s)
      OBVIOUS
    <2>4. pl \in Nat /\ wo \in Nat /\ ts \in Nat /\ h \in Nat /\ wo + h = offset + ts
      BY <1>2, <1>3, <1>13, <1>18, <2>3
    <2>5. t = pl - wo /\ Held(backing)[n] = h + pl /\ Total(u) = ts + t /\ x.offset = 0
      BY <1>12, <1>14, <1>18, <2>2, <2>3
    <2>6. 0 + (h + pl) = offset + (ts + t)
      BY <2>4, <2>5
    <2> QED BY <2>2, <2>5, <2>6
  <1> QED BY <1>1, <1>9, <1>14, <1>15, <1>16, <1>19, <1>20, <1>21, <1>22 DEF Walking

LEMMA StepHolds ==
    ASSUME input \in Inputs, NEW main \in FileEntry, NEW backing, Backs(backing, main),
           NEW offset \in Nat, NEW length \in Nat, NEW n \in 1..Len(backing),
           NEW w, Walking(main, backing, offset, length, n - 1, w)
    PROVE  Walking(main, backing, offset, length, n, BackingStep(w, backing[n]))
  <1>1. Placed(backing) /\ w \in WalkState
    BY DEF Backs, Walking
  <1>2. PICK p : p = backing[n]
    OBVIOUS
  <1>3. p.offset \in Nat /\ p.length \in Nat /\ p.recorded \in BOOLEAN
    BY <1>1, <1>2, PieceType
  <1>4. CASE w.status # "walking"
    <2>1. BackingStep(w, p) = w
      BY <1>4 DEF BackingStep, EnterPiece
    <2> QED BY <1>2, <1>4, <2>1 DEF Walking
  <1>5. CASE w.status = "walking" /\ w.offset >= p.length
    <2>1. PICK x : x = [w EXCEPT !.offset = @ - p.length]
      OBVIOUS
    <2>2. BackingStep(w, p) = x
      BY <1>5, <2>1 DEF BackingStep, EnterPiece
    <2>3. w.offset - p.length \in Nat /\ w.offset \in Nat
      BY <1>1, <1>3, <1>5 DEF WalkState
    <2>4. /\ x \in WalkState /\ x.offset = w.offset - p.length /\ x.length = w.length
          /\ x.pieces = w.pieces /\ x.status = w.status
      BY <1>1, <2>1, <2>3 DEF WalkState
    <2>5. /\ Held(backing)[n] = Held(backing)[n - 1] + p.length
          /\ Held(backing)[n - 1] \in Nat
      <3>1. Runs(backing) /\ Len(backing) \in Nat
        BY <1>1, TotalType DEF Placed, Runs
      <3>2. n - 1 \in 0..Len(backing)
        BY <3>1
      <3>3. Held(backing)[n - 1] \in Nat
        BY <3>1, <3>2, HeldOrder
      <3>4. Held(backing)[n] = Held(backing)[n - 1] + backing[n].length
        BY <3>1, HeldUnfold
      <3> QED BY <1>2, <3>3, <3>4
    <2>6. w.offset + Held(backing)[n - 1] = offset + Total(w.pieces)
      BY <1>5 DEF Walking
    <2>7. x.offset + Held(backing)[n] = offset + Total(w.pieces)
      BY <1>3, <2>3, <2>4, <2>5, <2>6
    <2> QED BY <1>2, <1>5, <2>2, <2>4, <2>7 DEF Walking
  <1>6. CASE w.status = "walking" /\ ~(w.offset >= p.length) /\ ~p.recorded
    <2>1. PICK x : x = [w EXCEPT !.status = "unallocated"]
      OBVIOUS
    <2>2. BackingStep(w, p) = x
      BY <1>6, <2>1 DEF BackingStep, EnterPiece
    <2>3. x \in WalkState /\ x.status = "unallocated"
      BY <1>1, <2>1 DEF WalkState
    <2> QED BY <1>2, <2>2, <2>3 DEF Walking
  <1>7. CASE w.status = "walking" /\ ~(w.offset >= p.length) /\ p.recorded
    <2>1. w.offset < p.length
      BY <1>1, <1>3, <1>7 DEF WalkState
    <2> QED BY <1>2, <1>7, <2>1, EnterHolds
  <1> QED BY <1>4, <1>5, <1>6, <1>7

LEMMA WalkHolds ==
    ASSUME input \in Inputs, NEW main \in FileEntry, NEW backing, Backs(backing, main),
           NEW offset \in Nat, NEW length \in Nat
    PROVE  \A n \in 0..Len(backing) :
              Walking(main, backing, offset, length, n, BackingWalk(backing, offset, length)[n])
  <1> DEFINE W == BackingWalk(backing, offset, length)
             T == {n \in 0..Len(backing) : ~Walking(main, backing, offset, length, n, W[n])}
  <1>1. Len(backing) \in Nat /\ backing \in Seq(Pieces)
    BY DEF Backs, Placed
  <1>2. /\ W[0] = [offset |-> offset, length |-> length, pieces |-> <<>>, status |-> "walking"]
        /\ \A n \in 1..Len(backing) : W[n] = BackingStep(W[n - 1], backing[n])
    BY <1>1, BackingUnfold
  <1> HIDE DEF W
  <1>3. Walking(main, backing, offset, length, 0, W[0])
    <2>1. PICK w : w = W[0]
      OBVIOUS
    <2>2. PICK s : s = <<>>
      OBVIOUS
    <2>3. s \in Seq(Pieces) /\ Total(s) = 0 /\ Len(s) = 0
      BY <2>2, NoPieces
    <2>4. /\ w.offset = offset /\ w.length = length /\ w.pieces = s /\ w.status = "walking"
          /\ w \in WalkState
      BY <1>2, <2>1, <2>2, <2>3 DEF WalkState
    <2>5. Held(backing)[0] = 0
      BY <1>1, HeldUnfold
    <2>6. Placed(s) /\ NoneEmpty(s)
      BY <2>3 DEF Placed, NoneEmpty
    <2>7. \A k \in Nat : ~(k < Total(s))
      BY <2>3
    <2>8. w.offset + Held(backing)[0] = offset + Total(s) /\ Total(s) + w.length = length
      BY <2>3, <2>4, <2>5
    <2> QED BY <2>1, <2>4, <2>6, <2>7, <2>8 DEF Walking
  <1> SUFFICES ASSUME T # {} PROVE FALSE
    BY DEF W
  <1>4. PICK n \in T : \A m \in T : n <= m
    <2>1. T \in SUBSET Nat
      OBVIOUS
    <2> HIDE DEF T
    <2> QED BY <2>1, LeastElement
  <1>5. n # 0
    BY <1>3
  <1>6. n \in 1..Len(backing) /\ n - 1 \in 0..Len(backing) /\ ~(n <= n - 1)
    BY <1>1, <1>5
  <1>7. Walking(main, backing, offset, length, n - 1, W[n - 1])
    BY <1>4, <1>6
  <1>8. Walking(main, backing, offset, length, n, BackingStep(W[n - 1], backing[n]))
    BY <1>6, <1>7, StepHolds
  <1>9. Walking(main, backing, offset, length, n, W[n])
    BY <1>2, <1>6, <1>8
  <1> QED BY <1>9

\* A run of the metadata partition is done, with the bytes the metadata file has there;
\* or it meets a piece that is not allocated; or it is empty and behind all of them.
LEMMA ThroughBackingHolds ==
    ASSUME input \in Inputs, NEW main \in FileEntry, NEW backing, Backs(backing, main),
           NEW offset \in Nat, NEW length \in Nat, offset + length <= Total(backing),
           NEW a, a = ThroughBacking(backing, offset, length)
    PROVE  /\ a.status \in {"done", "unallocated", "uncovered"}
           /\ a.status = "uncovered" => length = 0
           /\ a.status = "done" =>
                /\ Placed(a.pieces) /\ Total(a.pieces) = length
                /\ length # 0 => NoneEmpty(a.pieces)
                /\ \A k \in Nat : k < length => ByteIn(a.pieces, k) = MainByte(main, offset + k)
  <1>1. PICK w : w = BackingWalk(backing, offset, length)[Len(backing)]
    OBVIOUS
  <1>2. Len(backing) \in Nat /\ backing \in Seq(Pieces)
    BY DEF Backs, Placed
  <1>3. Walking(main, backing, offset, length, Len(backing), w)
    BY <1>1, <1>2, WalkHolds
  <1>4. w \in WalkState /\ w.offset \in Nat /\ w.length \in Nat
        /\ w.status \in {"walking", "done", "unallocated"}
    <2>1. w \in WalkState
      BY <1>3 DEF Walking
    <2> QED BY <2>1 DEF WalkState
  <1>5. a = IF w.status = "walking" THEN Answer("uncovered", <<>>) ELSE Answer(w.status, w.pieces)
    BY <1>1 DEF ThroughBacking
  <1>6. CASE w.status = "walking"
    <2>1. a.status = "uncovered"
      BY <1>5, <1>6 DEF Answer
    <2>2. length = 0
      <3> SUFFICES ASSUME length # 0 PROVE FALSE
        OBVIOUS
      <3>1. PICK wo, wl, ts, h : /\ wo = w.offset /\ wl = w.length /\ ts = Total(w.pieces)
                                 /\ h = Total(backing)
        OBVIOUS
      <3>2. wo \in Nat /\ wl \in Nat /\ wo + h = offset + ts /\ ts + wl = length /\ wl # 0
        BY <1>3, <1>4, <1>6, <3>1 DEF Walking, Total
      <3>3. ts \in Nat /\ h \in Nat /\ offset + length <= h
        <4>1. w.pieces \in Seq(Pieces)
          BY <1>3, <1>6 DEF Walking, Placed
        <4> QED BY <1>2, <3>1, <4>1, TotalType
      <3> QED BY <3>2, <3>3
    <2> QED BY <2>1, <2>2
  <1>7. CASE w.status = "done"
    <2>1. a.status = "done" /\ a.pieces = w.pieces
      BY <1>5, <1>7 DEF Answer
    <2>2. /\ Placed(w.pieces) /\ Total(w.pieces) + w.length = length /\ w.length = 0
          /\ length # 0 => NoneEmpty(w.pieces)
          /\ \A k \in Nat : k < Total(w.pieces) =>
                ByteIn(w.pieces, k) = MainByte(main, offset + k)
      BY <1>3, <1>7 DEF Walking
    <2>3. Total(w.pieces) = length
      <3>1. Total(w.pieces) \in Nat
        BY <2>2, TotalType DEF Placed
      <3> QED BY <2>2, <3>1
    <2> QED BY <2>1, <2>2, <2>3
  <1>8. CASE w.status = "unallocated"
    <2>1. a.status = "unallocated"
      BY <1>5, <1>8 DEF Answer
    <2> QED BY <2>1
  <1> QED BY <1>4, <1>6, <1>7, <1>8

-----------------------------------------------------------------------------
(***************************************************************************)
(* A descriptor, in the address spaces of the volume.                      *)
(***************************************************************************)
Metadata(space) ==
    /\ space.kind = "metadata"
    /\ input.maps # <<>>
    /\ Backs(space.backing, input.maps[1].main)
    /\ Total(space.backing) = space.blocks * SectorBytes

Known(known) ==
    /\ Len(known) \in {1, 2}
    /\ known[1] = Physical
    /\ Len(known) = 2 => Metadata(known[2])

RunByte(d, byte) ==
    IF d.type # 0 THEN 0
    ELSE IF d.reference = 0 THEN PhysicalByte(byte)
    ELSE MainByte(input.maps[1].main, byte)

\* The pieces that a descriptor is translated to are its bytes.
Right(d, pieces) ==
    /\ Placed(pieces) /\ Total(pieces) = d.length
    /\ d.length # 0 => NoneEmpty(pieces)
    /\ \A k \in Nat : k < d.length => ByteIn(pieces, k) = RunByte(d, d.offset + k)

LEMMA AnswerFields ==
    ASSUME NEW s, NEW p
    PROVE  Answer(s, p).status = s /\ Answer(s, p).pieces = p
  BY DEF Answer

LEMMA OnePieceRight ==
    ASSUME NEW d \in Descriptor, NEW p \in Pieces, Inside(p), p.length = d.length,
           \A k \in Nat : k < d.length =>
              (IF p.recorded THEN p.offset + k + 1 ELSE 0) = RunByte(d, d.offset + k)
    PROVE  Right(d, <<p>>)
  <1>1. PICK s : s = <<p>>
    OBVIOUS
  <1>2. /\ s \in Seq(Pieces) /\ Total(s) = p.length /\ Len(s) = 1 /\ s[1] = p
        /\ \A k \in Nat : k < p.length =>
                ByteIn(s, k) = IF p.recorded THEN p.offset + k + 1 ELSE 0
    BY <1>1, SinglePiece
  <1>3. \A i \in 1..Len(s) : s[i] = p
    BY <1>2
  <1>4. Placed(s) /\ (d.length # 0 => NoneEmpty(s))
    BY <1>2, <1>3 DEF Placed, NoneEmpty
  <1>5. \A k \in Nat : k < d.length => ByteIn(s, k) = RunByte(d, d.offset + k)
    BY <1>2
  <1> QED BY <1>1, <1>2, <1>4, <1>5 DEF Right

LEMMA DescriptorHolds ==
    ASSUME input \in Inputs, NEW known, Known(known), NEW d \in Descriptor,
           NEW a, a = TranslateDescriptor(known, d)
    PROVE  /\ a.status # "outside source" /\ a.status # "ok" /\ a.status # "incomplete"
           /\ a.status = "uncovered" => d.length = 0
           /\ a.status = "done" => Right(d, a.pieces) /\ d.type # 3
  <1>1. /\ d.reference \in Nat /\ d.offset \in Nat /\ d.length \in Nat /\ d.type \in 0..3
        /\ SectorBytes \in Nat /\ First \in Nat
    BY SectorAssumption, InputType DEF Descriptor
  <1>2. CASE d.type = 3
    BY <1>2 DEF TranslateDescriptor, Answer
  <1>3. CASE d.type # 3 /\ d.reference >= Len(known)
    BY <1>3 DEF TranslateDescriptor, Answer
  <1>4. CASE d.type # 3 /\ ~(d.reference >= Len(known))
    <2>1. PICK space : space = known[d.reference + 1]
      OBVIOUS
    <2>2. a = Translate(space, d.offset, d.length, d.type = 0)
      BY <1>4, <2>1 DEF TranslateDescriptor
    <2>3. \/ d.reference = 0 /\ space = Physical
          \/ Metadata(space) /\ d.reference # 0
      <3>1. Len(known) \in {1, 2} /\ known[1] = Physical /\ (Len(known) = 2 => Metadata(known[2]))
        BY DEF Known
      <3>2. PICK m : m = Len(known)
        OBVIOUS
      <3>3. PICK r : r = d.reference
        OBVIOUS
      <3>4. m \in {1, 2} /\ r \in Nat /\ r < m
        BY <1>1, <1>4, <3>1, <3>2, <3>3
      <3>5. (r = 0 /\ r + 1 = 1) \/ (r = 1 /\ r + 1 = 2 /\ m = 2)
        BY <3>4
      <3> QED BY <2>1, <3>1, <3>2, <3>3, <3>5
    <2>4. CASE d.offset + d.length > Capacity(space)
      <3>1. PICK why : why = "outside partition"
        OBVIOUS
      <3>2. a = Answer(why, <<>>)
        BY <2>2, <2>4, <3>1, Zenon DEF Translate
      <3>3. a.status = why
        BY <3>2 DEF Answer
      <3>4. /\ why # "outside source" /\ why # "ok" /\ why # "incomplete"
            /\ why # "uncovered" /\ why # "done"
        BY <3>1, Zenon
      <3> QED BY <3>3, <3>4
    <2>5. CASE ~(d.offset + d.length > Capacity(space)) /\ d.type # 0
      <3>1. PICK p : p = Piece(0, d.length, FALSE)
        OBVIOUS
      <3>2. p \in Pieces /\ p.length = d.length /\ ~p.recorded
        BY <1>1, <3>1 DEF Piece, Pieces
      <3>3. Inside(p)
        BY <3>2 DEF Inside
      <3>4. a.status = "done" /\ a.pieces = <<p>>
        <4>1. a = Answer("done", <<p>>)
          BY <2>2, <2>5, <3>1, Zenon DEF Translate
        <4> QED BY <4>1 DEF Answer
      <3>5. Right(d, <<p>>)
        <4>1. \A k \in Nat : RunByte(d, d.offset + k) = 0
          BY <2>5 DEF RunByte
        <4>2. \A k \in Nat : k < d.length =>
                (IF p.recorded THEN p.offset + k + 1 ELSE 0) = RunByte(d, d.offset + k)
          BY <3>2, <4>1
        <4> QED BY <3>2, <3>3, <4>2, OnePieceRight
      <3> QED BY <1>4, <3>4, <3>5
    <2>6. CASE ~(d.offset + d.length > Capacity(space)) /\ d.type = 0 /\ space = Physical
               /\ d.reference = 0
      <3>1. Capacity(space) = input.sectors * SectorBytes /\ space.kind = "physical"
            /\ space.start_sector = input.start_sector
        BY <2>6 DEF Capacity, Physical
      <3>2. /\ First + d.offset + d.length <= Past
            /\ Past <= input.total_bytes /\ Past \in Nat /\ input.total_bytes \in Nat
        <4>1. /\ input.sectors \in Nat /\ input.start_sector \in Nat /\ Past \in Nat
              /\ Past <= input.total_bytes /\ input.total_bytes \in Nat
          BY InputType
        <4>2. PICK c : c = input.sectors * SectorBytes
          OBVIOUS
        <4>3. c \in Nat /\ Past = First + c
          BY <1>1, <4>1, <4>2 DEF First, Past
        <4>4. d.offset + d.length <= c
          BY <1>1, <2>6, <3>1, <4>2, <4>3
        <4> QED BY <1>1, <4>1, <4>3, <4>4
      <3>3. PICK p : p = Piece(First + d.offset, d.length, TRUE)
        OBVIOUS
      <3>4. /\ p \in Pieces /\ p.length = d.length /\ p.recorded
            /\ p.offset = First + d.offset
        <4>1. First + d.offset \in Nat
          BY <1>1
        <4> QED BY <1>1, <3>3, <4>1 DEF Piece, Pieces
      <3>5. Inside(p)
        BY <1>1, <3>2, <3>4 DEF Inside
      <3>6. ~(First + d.offset + d.length > input.total_bytes)
        BY <1>1, <3>2
      <3>7. a.status = "done" /\ a.pieces = <<p>>
        <4>1. space.kind # "metadata" /\ First = space.start_sector * SectorBytes
          BY <3>1 DEF First
        <4>2. a = Answer("done", <<p>>)
          BY <2>2, <2>6, <3>3, <3>6, <4>1, Zenon DEF Translate
        <4> QED BY <4>2 DEF Answer
      <3>8. Right(d, <<p>>)
        <4>1. \A k \in Nat : RunByte(d, d.offset + k) = First + (d.offset + k) + 1
          BY <2>6 DEF RunByte, PhysicalByte, First
        <4>2. \A k \in Nat : RunByte(d, d.offset + k) = p.offset + k + 1
          BY <1>1, <3>4, <4>1
        <4>3. \A k \in Nat : k < d.length =>
                (IF p.recorded THEN p.offset + k + 1 ELSE 0) = RunByte(d, d.offset + k)
          BY <3>4, <4>2
        <4> QED BY <3>4, <3>5, <4>3, OnePieceRight
      <3> QED BY <1>4, <3>7, <3>8
    <2>7. CASE ~(d.offset + d.length > Capacity(space)) /\ d.type = 0 /\ Metadata(space)
               /\ d.reference # 0
      <3>1. PICK main : main = input.maps[1].main
        OBVIOUS
      <3>2. main \in FileEntry
        <4>1. input.maps \in Seq(MetadataMap) /\ input.maps # <<>>
          BY <2>7, InputType DEF Metadata
        <4>2. input.maps[1] \in MetadataMap
          BY <4>1
        <4> QED BY <3>1, <4>2 DEF MetadataMap
      <3>3. /\ space.kind = "metadata" /\ Backs(space.backing, main)
            /\ Total(space.backing) = Capacity(space)
        BY <2>7, <3>1 DEF Metadata, Capacity
      <3>4. a = ThroughBacking(space.backing, d.offset, d.length)
        BY <2>2, <2>7, <3>3 DEF Translate
      <3>5. d.offset + d.length <= Total(space.backing)
        <4>1. Total(space.backing) \in Nat
          BY <3>3, TotalType DEF Backs, Placed
        <4> QED BY <1>1, <2>7, <3>3, <4>1
      <3>6. /\ a.status \in {"done", "unallocated", "uncovered"}
            /\ a.status = "uncovered" => d.length = 0
            /\ a.status = "done" =>
                /\ Placed(a.pieces) /\ Total(a.pieces) = d.length
                /\ d.length # 0 => NoneEmpty(a.pieces)
                /\ \A k \in Nat : k < d.length =>
                      ByteIn(a.pieces, k) = MainByte(main, d.offset + k)
        BY <1>1, <3>2, <3>3, <3>4, <3>5, ThroughBackingHolds
      <3>7. \A k : RunByte(d, d.offset + k) = MainByte(main, d.offset + k)
        BY <2>7, <3>1 DEF RunByte
      <3> QED BY <1>4, <3>6, <3>7 DEF Right
    <2> QED BY <2>3, <2>4, <2>5, <2>6, <2>7
  <1> QED BY <1>2, <1>3, <1>4

-----------------------------------------------------------------------------
(***************************************************************************)
(* The metadata file, whose descriptors are all of the physical partition. *)
(***************************************************************************)
Follows(p, d) ==
    /\ p \in Pieces /\ Inside(p) /\ p.length = d.length
    /\ p.recorded => p.offset = First + d.offset

LEMMA PhysicalPiece ==
    ASSUME input \in Inputs, NEW d \in Descriptor,
           NEW a, a = TranslateDescriptor(<<Physical>>, d), a.status = "done"
    PROVE  \E p : Follows(p, d) /\ a.pieces = <<p>>
  <1>1. /\ d.reference \in Nat /\ d.offset \in Nat /\ d.length \in Nat /\ d.type \in 0..3
        /\ SectorBytes \in Nat /\ First \in Nat
    BY SectorAssumption, InputType DEF Descriptor
  <1>2. PICK known : known = <<Physical>>
    OBVIOUS
  <1>3. Len(known) = 1 /\ known[1] = Physical /\ known[0 + 1] = Physical
    BY <1>2
  <1>4. d.type # 3 /\ ~(d.reference >= Len(known))
    <2> SUFFICES ASSUME d.type = 3 \/ d.reference >= Len(known) PROVE FALSE
      OBVIOUS
    <2>1. PICK why : why \in {"continuation", "unknown partition"} /\ a = Answer(why, <<>>)
      <3>1. a = Answer("continuation", <<>>) \/ a = Answer("unknown partition", <<>>)
        BY <1>2, Zenon DEF TranslateDescriptor
      <3> QED BY <3>1, Zenon
    <2>2. a.status = why
      <3>1. a = Answer(why, <<>>)
        BY <2>1, Zenon
      <3> QED BY <3>1 DEF Answer
    <2>3. why # "done"
      BY <2>1, Zenon
    <2> QED BY <2>2, <2>3
  <1>5. d.reference = 0
    BY <1>1, <1>3, <1>4
  <1>6. a = Translate(Physical, d.offset, d.length, d.type = 0)
    BY <1>2, <1>3, <1>4, <1>5, Zenon DEF TranslateDescriptor
  <1>7. Capacity(Physical) = input.sectors * SectorBytes /\ Physical.kind # "metadata"
        /\ Physical.start_sector * SectorBytes = First
    BY DEF Capacity, Physical, First
  <1>8. ~(d.offset + d.length > Capacity(Physical))
    <2> SUFFICES ASSUME d.offset + d.length > Capacity(Physical) PROVE FALSE
      OBVIOUS
    <2>1. PICK why : why = "outside partition"
      OBVIOUS
    <2>2. a = Answer(why, <<>>)
      BY <1>6, <2>1, Zenon DEF Translate
    <2>3. a.status = why
      BY <2>2 DEF Answer
    <2>4. why # "done"
      BY <2>1, Zenon
    <2> QED BY <2>3, <2>4
  <1>9. CASE d.type # 0
    <2>1. PICK p : p = Piece(0, d.length, FALSE)
      OBVIOUS
    <2>2. p \in Pieces /\ p.length = d.length /\ ~p.recorded
      BY <1>1, <2>1 DEF Piece, Pieces
    <2>3. a = Answer("done", <<p>>)
      BY <1>6, <1>8, <1>9, <2>1, Zenon DEF Translate
    <2>4. a.pieces = <<p>>
      BY <2>3 DEF Answer
    <2> QED BY <2>2, <2>4 DEF Follows, Inside
  <1>10. CASE d.type = 0
    <2>1. First + d.offset + d.length <= Past
      <3>1. input.sectors \in Nat /\ input.start_sector \in Nat
        BY InputType
      <3>2. PICK c : c = input.sectors * SectorBytes
        OBVIOUS
      <3>3. c \in Nat /\ Past = First + c
        BY <1>1, <3>1, <3>2 DEF First, Past
      <3>4. d.offset + d.length <= c
        BY <1>1, <1>7, <1>8, <3>2, <3>3
      <3> QED BY <1>1, <3>3, <3>4
    <2>2. ~(First + d.offset + d.length > input.total_bytes)
      <3>1. Past <= input.total_bytes /\ Past \in Nat /\ input.total_bytes \in Nat
        BY InputType
      <3> QED BY <1>1, <2>1, <3>1
    <2>3. PICK p : p = Piece(First + d.offset, d.length, TRUE)
      OBVIOUS
    <2>4. p \in Pieces /\ p.length = d.length /\ p.recorded /\ p.offset = First + d.offset
      <3>1. First + d.offset \in Nat
        BY <1>1
      <3> QED BY <1>1, <2>3, <3>1 DEF Piece, Pieces
    <2>5. a = Answer("done", <<p>>)
      BY <1>6, <1>7, <1>8, <1>10, <2>2, <2>3, Zenon DEF Translate
    <2>6. a.pieces = <<p>>
      BY <2>5 DEF Answer
    <2>7. First <= p.offset /\ p.offset + p.length <= Past
      BY <1>1, <2>1, <2>4
    <2> QED BY <2>4, <2>6, <2>7 DEF Follows, Inside
  <1> QED BY <1>9, <1>10

LEMMA MainShape ==
    ASSUME input \in Inputs, NEW list \in Seq(Descriptor)
    PROVE  \A n \in 0..Len(list) :
              LET a == Translated(<<Physical>>, list)[n]
              IN  a.status = "done" =>
                     /\ a.pieces \in Seq(Pieces) /\ Len(a.pieces) = n
                     /\ \A i \in 1..n : Follows(a.pieces[i], list[i])
  <1> DEFINE W == Translated(<<Physical>>, list)
             Fine(n) ==
                W[n].status = "done" =>
                     /\ W[n].pieces \in Seq(Pieces) /\ Len(W[n].pieces) = n
                     /\ \A i \in 1..n : Follows(W[n].pieces[i], list[i])
             T == {n \in 0..Len(list) : ~Fine(n)}
  <1>1. Len(list) \in Nat
    OBVIOUS
  <1>2. /\ W[0] = Answer("done", <<>>)
        /\ \A n \in 1..Len(list) :
              W[n] = Joined(W[n - 1], TranslateDescriptor(<<Physical>>, list[n]))
    BY <1>1, TranslatedUnfold
  <1> SUFFICES ASSUME T # {} PROVE FALSE
    OBVIOUS
  <1> HIDE DEF W
  <1>3. PICK n \in T : \A m \in T : n <= m
    <2>1. T \in SUBSET Nat
      OBVIOUS
    <2> HIDE DEF T
    <2> QED BY <2>1, LeastElement
  <1>4. n # 0
    <2>1. PICK s : s = <<>>
      OBVIOUS
    <2>2. W[0].pieces = s /\ s \in Seq(Pieces) /\ Len(s) = 0
      BY <1>2, <2>1 DEF Answer
    <2>3. Fine(0)
      BY <2>2
    <2> QED BY <2>3
  <1>5. n \in 1..Len(list) /\ n - 1 \in 0..Len(list) /\ ~(n <= n - 1) /\ n \in Nat
    BY <1>1, <1>4
  <1>6. Fine(n - 1)
    BY <1>3, <1>5
  <1>7. PICK a, more : a = W[n - 1] /\ more = TranslateDescriptor(<<Physical>>, list[n])
    OBVIOUS
  <1>8. W[n] = Joined(a, more)
    BY <1>2, <1>5, <1>7
  <1>9. W[n].status = "done" /\ ~Fine(n)
    OBVIOUS
  <1>10. a.status = "done" /\ more.status = "done" /\ W[n].pieces = a.pieces \o more.pieces
    <2>1. a.status = "done"
      BY <1>8, <1>9 DEF Joined
    <2>2. PICK status, pieces : status = more.status /\ pieces = a.pieces \o more.pieces
      OBVIOUS
    <2>3. W[n] = Answer(status, pieces)
      BY <1>8, <2>1, <2>2, Zenon DEF Joined
    <2>4. W[n].status = status /\ W[n].pieces = pieces
      BY <2>3 DEF Answer
    <2> QED BY <1>9, <2>1, <2>2, <2>4
  <1>11. PICK s : s = a.pieces
    OBVIOUS
  <1>12. /\ s \in Seq(Pieces) /\ Len(s) = n - 1
         /\ \A i \in 1..n - 1 : Follows(s[i], list[i])
    BY <1>6, <1>7, <1>10, <1>11
  <1>13. list[n] \in Descriptor
    BY <1>5
  <1>14. PICK p : Follows(p, list[n]) /\ more.pieces = <<p>>
    BY <1>7, <1>10, <1>13, PhysicalPiece
  <1>15. PICK u : u = Append(s, p)
    OBVIOUS
  <1>16. p \in Pieces
    BY <1>14 DEF Follows
  <1>17. W[n].pieces = u
    BY <1>10, <1>11, <1>12, <1>14, <1>15, <1>16
  <1>18. /\ u \in Seq(Pieces) /\ Len(u) = n
         /\ \A i \in 1..n - 1 : u[i] = s[i]
         /\ u[n] = p
    <2>1. u \in Seq(Pieces) /\ Len(u) = Len(s) + 1 /\ u[Len(s) + 1] = p
          /\ \A i \in 1..Len(s) : u[i] = s[i]
      BY <1>12, <1>15, <1>16, OnePieceMore
    <2>2. Len(s) + 1 = n
      BY <1>5, <1>12
    <2> QED BY <1>12, <2>1, <2>2
  <1>19. ASSUME NEW i \in 1..n PROVE Follows(u[i], list[i])
    <2>1. CASE i = n
      BY <1>14, <1>18, <2>1
    <2>2. CASE i # n
      <3>1. i \in 1..n - 1
        BY <1>5, <2>2
      <3> QED BY <1>12, <1>18, <3>1
    <2> QED BY <2>1, <2>2
  <1>20. Fine(n)
    BY <1>17, <1>18, <1>19
  <1> QED BY <1>9, <1>20

\* build_address_spaces: the metadata partition is as long as its file.
LEMMA MetadataHolds ==
    ASSUME input \in Inputs, input.maps # <<>>, NEW map, map = input.maps[1],
           NEW main, main = EntryExtents(<<Physical>>, map.main), main.status = "done",
           NEW mirror, BackingValid(map, main.pieces, mirror)
    PROVE  Metadata([kind |-> "metadata", blocks |-> MetadataBlocks(map),
                     backing |-> main.pieces])
  <1>1. map \in MetadataMap
    <2>1. input.maps \in Seq(MetadataMap)
      BY InputType
    <2> QED BY <2>1
  <1>2. PICK file : file = map.main
    OBVIOUS
  <1>3. file \in FileEntry
    BY <1>1, <1>2 DEF MetadataMap
  <1>4. PICK list : list = file.descriptors
    OBVIOUS
  <1>5. list \in Seq(Descriptor) /\ Len(list) \in Nat /\ file.information_length \in Nat
    BY <1>3, <1>4 DEF FileEntry
  <1>6. PICK all : all = Translated(<<Physical>>, list)[Len(list)]
    OBVIOUS
  <1>7. main = all
    <2>1. main = IF all.status = "done" /\ Total(all.pieces) < file.information_length
                 THEN Answer("short", <<>>)
                 ELSE all
      BY <1>2, <1>4, <1>6, Zenon DEF EntryExtents
    <2>2. ~(all.status = "done" /\ Total(all.pieces) < file.information_length)
      <3> SUFFICES ASSUME all.status = "done" /\ Total(all.pieces) < file.information_length
                   PROVE  FALSE
        OBVIOUS
      <3>1. main.status = "short"
        BY <2>1 DEF Answer
      <3> QED BY <3>1
    <2> QED BY <2>1, <2>2, Zenon
  <1>8. PICK backing : backing = main.pieces
    OBVIOUS
  <1>9. /\ backing \in Seq(Pieces) /\ Len(backing) = Len(list)
        /\ \A i \in 1..Len(list) : Follows(backing[i], list[i])
    BY <1>5, <1>6, <1>7, <1>8, MainShape
  <1>10. Backs(backing, file)
    <2>1. \A i \in 1..Len(backing) : Inside(backing[i])
      BY <1>9 DEF Follows
    <2>2. \A i \in 1..Len(backing) :
             /\ backing[i].length = list[i].length
             /\ backing[i].recorded => backing[i].offset = First + list[i].offset
      BY <1>9 DEF Follows
    <2> QED BY <1>4, <1>9, <2>1, <2>2 DEF Backs, Placed
  <1>11. Total(backing) = file.information_length /\ file.information_length % SectorBytes = 0
    BY <1>2, <1>8 DEF BackingValid, FileExact
  <1>12. MetadataBlocks(map) * SectorBytes = file.information_length
    <2>1. PICK l, b : l = file.information_length /\ b = SectorBytes
      OBVIOUS
    <2>2. l \in Nat /\ b \in Nat /\ b > 0 /\ l % b = 0
      BY <1>5, <1>11, <2>1, SectorAssumption
    <2>3. l = b * (l \div b) + (l % b)
      BY <2>2
    <2>4. l \div b \in Int
      BY <2>2
    <2>5. (l \div b) * b = l
      BY <2>2, <2>3, <2>4
    <2> QED BY <1>2, <2>1, <2>5 DEF MetadataBlocks
  <1>13. PICK space : space = [kind |-> "metadata", blocks |-> MetadataBlocks(map),
                               backing |-> backing]
    OBVIOUS
  <1>14. /\ space.kind = "metadata" /\ space.blocks = MetadataBlocks(map)
         /\ space.backing = backing
    BY <1>13
  <1>15. Metadata(space)
    BY <1>2, <1>10, <1>11, <1>12, <1>14 DEF Metadata
  <1> QED BY <1>8, <1>13, <1>15

-----------------------------------------------------------------------------
(***************************************************************************)
(* The inductive invariant: what the extents hold, and the bytes read so   *)
(* far, are what the descriptors name.                                     *)
(***************************************************************************)
Covers(pieces, m) ==
    /\ Total(pieces) = Held(input.entry.descriptors)[m]
    /\ \A k \in Nat : k < Total(pieces) => ByteIn(pieces, k) = ByteOf(input.entry, k)
    /\ (\A j \in 1..Len(input.entry.descriptors) : input.entry.descriptors[j].length # 0)
          => NoneEmpty(pieces)

HasRead(pieces, n, body) ==
    /\ body \in Seq(Nat)
    /\ Len(body) = Least(input.entry.information_length, Held(pieces)[n - 1])
    /\ \A k \in 1..Len(body) : body[k] = ByteIn(pieces, k - 1)

Fits(stage_, known, pieces, n, body) ==
    /\ Placed(pieces)
    /\ n \in Nat \ {0}
    /\ stage_ = "maps" => pieces = <<>> /\ n = 1 /\ body = <<>>
    /\ stage_ \in {"entry", "body"} => Known(known)
    /\ stage_ = "entry" =>
          /\ body = <<>>
          /\ n <= Len(input.entry.descriptors) + 1
          /\ Covers(pieces, n - 1)
    /\ stage_ = "body" =>
          /\ n <= Len(pieces) + 1
          /\ Covers(pieces, Len(input.entry.descriptors))
          /\ input.entry.information_length <= Total(pieces)
          /\ HasRead(pieces, n, body)

BodyInv ==
    /\ input \in Inputs
    /\ phase \in {"maps", "entry", "body"} => result = "none"
    /\ Fits(phase, spaces, extents, next, bytes)
    /\ BodyIsExact
    /\ RefusalJustified
    /\ ReadsInsidePartition

LEMMA ByteOfHere ==
    ASSUME input \in Inputs, NEW list, list = input.entry.descriptors,
           NEW j \in 1..Len(list), NEW i \in Nat, i < list[j].length
    PROVE  ByteOf(input.entry, Held(list)[j - 1] + i) = RunByte(list[j], list[j].offset + i)
  <1>1. PICK e : e = input.entry
    OBVIOUS
  <1>2. e \in FileEntry
    BY <1>1, InputType
  <1>3. Runs(e.descriptors) /\ list \in Seq(Descriptor) /\ Runs(list)
    BY <1>1, <1>2, DescriptorRuns
  <1>4. Len(list) \in Nat /\ j - 1 \in 0..Len(list)
    BY <1>3
  <1>5. list[j] \in Descriptor
    BY <1>3
  <1>6. list[j].length \in Nat /\ list[j].offset \in Nat
    BY <1>5 DEF Descriptor
  <1>7. PICK h : h = Held(list)[j - 1]
    OBVIOUS
  <1>8. h \in Nat /\ Held(list)[j] = h + list[j].length
    BY <1>3, <1>4, <1>7, HeldOrder, HeldUnfold
  <1>9. PICK k : k = h + i
    OBVIOUS
  <1>10. k \in Nat /\ h <= k /\ k < Held(list)[j] /\ k - h = i
    BY <1>6, <1>8, <1>9
  <1>11. j \in Homes(list, k)
    BY <1>7, <1>10 DEF Homes
  <1>12. Home(e, k) = j
    BY <1>1, <1>3, <1>10, <1>11, HomeOfEntry
  <1>13. LogicalByte(e, k) = list[j].offset + k - h
    BY <1>1, <1>7, <1>12 DEF LogicalByte, Before
  <1>14. list[j].offset + k - h = list[j].offset + i
    BY <1>6, <1>8, <1>9
  <1>15. ByteOf(e, k) = RunByte(list[j], list[j].offset + i)
    <2>1. PICK d : d = list[j]
      OBVIOUS
    <2>2. PICK byte : byte = list[j].offset + i
      OBVIOUS
    <2>3. LogicalByte(e, k) = byte /\ e.descriptors[Home(e, k)] = d
      BY <1>1, <1>12, <1>13, <1>14, <2>1, <2>2
    <2>4. ByteOf(e, k) = IF d.type # 0 THEN 0
                         ELSE IF d.reference = 0 THEN PhysicalByte(byte)
                         ELSE PhysicalByte(LogicalByte(input.maps[1].main, byte))
      BY <2>3, Zenon DEF ByteOf
    <2> QED BY <2>1, <2>2, <2>4, Zenon DEF RunByte, MainByte
  <1> QED BY <1>1, <1>7, <1>9, <1>15

\* One more descriptor translated.
LEMMA CoversMore ==
    ASSUME input \in Inputs, NEW list, list = input.entry.descriptors,
           NEW m \in 1..Len(list), NEW s, Placed(s), Covers(s, m - 1),
           NEW t, Right(list[m], t)
    PROVE  Placed(s \o t) /\ Covers(s \o t, m)
  <1>1. list \in Seq(Descriptor) /\ Runs(list) /\ Len(list) \in Nat
    BY InputType, DescriptorRuns
  <1>2. list[m] \in Descriptor
    BY <1>1
  <1>3. PICK d : d = list[m]
    OBVIOUS
  <1>4. d.length \in Nat /\ d.offset \in Nat
    BY <1>2, <1>3 DEF Descriptor
  <1>5. PICK u : u = s \o t
    OBVIOUS
  <1>6. s \in Seq(Pieces) /\ t \in Seq(Pieces)
    BY DEF Right, Placed
  <1>7. /\ u \in Seq(Pieces) /\ Len(u) = Len(s) + Len(t)
        /\ \A i \in 1..Len(s) : u[i] = s[i]
        /\ \A i \in 1..Len(t) : u[Len(s) + i] = t[i]
    BY <1>5, <1>6, JoinedRuns
  <1>8. Len(s) \in Nat /\ Len(t) \in Nat
    BY <1>6
  <1>9. ASSUME NEW i \in 1..Len(u)
        PROVE  \/ i \in 1..Len(s) /\ u[i] = s[i]
               \/ i - Len(s) \in 1..Len(t) /\ u[i] = t[i - Len(s)]
    <2>1. CASE i <= Len(s)
      BY <1>7, <1>8, <2>1
    <2>2. CASE ~(i <= Len(s))
      <3>1. PICK l : l = i - Len(s)
        OBVIOUS
      <3>2. l \in 1..Len(t) /\ Len(s) + l = i
        BY <1>7, <1>8, <2>2, <3>1
      <3> QED BY <1>7, <3>1, <3>2
    <2> QED BY <2>1, <2>2
  <1>10. Placed(u)
    <2>1. \A i \in 1..Len(s) : Inside(s[i])
      BY DEF Placed
    <2>2. \A i \in 1..Len(t) : Inside(t[i])
      BY DEF Right, Placed
    <2>3. \A i \in 1..Len(u) : Inside(u[i])
      BY <1>9, <2>1, <2>2
    <2> QED BY <1>7, <2>3 DEF Placed
  <1>11. /\ Total(s) \in Nat /\ Total(t) \in Nat /\ Total(u) = Total(s) + Total(t)
         /\ \A k \in Nat : k < Total(s) => ByteIn(u, k) = ByteIn(s, k)
         /\ \A k \in Nat : k < Total(t) => ByteIn(u, Total(s) + k) = ByteIn(t, k)
    BY <1>5, <1>6, ByteOfJoined
  <1>12. PICK h : h = Held(list)[m - 1]
    OBVIOUS
  <1>13. Total(s) = h /\ Total(t) = d.length /\ Held(list)[m] = h + d.length /\ h \in Nat
    <2>1. Total(s) = h /\ Total(t) = d.length
      BY <1>3, <1>12 DEF Covers, Right
    <2>2. Held(list)[m] = h + d.length
      BY <1>1, <1>3, <1>12, HeldUnfold
    <2> QED BY <1>11, <2>1, <2>2
  <1>14. Total(u) = Held(list)[m]
    BY <1>11, <1>13
  <1>15. ASSUME NEW k \in Nat, k < Total(u) PROVE ByteIn(u, k) = ByteOf(input.entry, k)
    <2>1. CASE k < h
      BY <1>11, <1>13, <2>1 DEF Covers
    <2>2. CASE ~(k < h)
      <3>1. PICK i : i = k - h
        OBVIOUS
      <3>2. i \in Nat /\ i < d.length /\ h + i = k
        BY <1>4, <1>11, <1>13, <1>15, <2>2, <3>1
      <3>3. ByteIn(u, k) = ByteIn(t, i)
        BY <1>11, <1>13, <3>2
      <3>4. ByteIn(t, i) = RunByte(d, d.offset + i)
        BY <1>3, <3>2 DEF Right
      <3>5. ByteOf(input.entry, h + i) = RunByte(d, d.offset + i)
        BY <1>3, <1>12, <3>2, ByteOfHere
      <3> QED BY <3>2, <3>3, <3>4, <3>5
    <2> QED BY <2>1, <2>2
  <1>16. ASSUME \A j \in 1..Len(list) : list[j].length # 0 PROVE NoneEmpty(u)
    <2>1. NoneEmpty(s) /\ NoneEmpty(t)
      BY <1>3, <1>16 DEF Covers, Right
    <2>2. /\ \A i \in 1..Len(s) : s[i].length # 0
          /\ \A i \in 1..Len(t) : t[i].length # 0
      BY <2>1 DEF NoneEmpty
    <2>3. \A i \in 1..Len(u) : u[i].length # 0
      BY <1>9, <2>2
    <2> QED BY <2>3 DEF NoneEmpty
  <1> QED BY <1>5, <1>10, <1>14, <1>15, <1>16 DEF Covers

LEMMA LeastMore ==
    ASSUME NEW info \in Nat, NEW h \in Nat, NEW pl \in Nat, NEW l, l = Least(info, h),
           NEW w, w = Least(info - l, pl), w > 0
    PROVE  l = h /\ w \in Nat /\ l + w = Least(info, h + pl) /\ w <= pl
  <1>1. l = IF info <= h THEN info ELSE h
    BY DEF Least
  <1>2. w = IF info - l <= pl THEN info - l ELSE pl
    BY DEF Least
  <1>3. l = h /\ w \in Nat /\ w <= pl /\ l + w = IF info <= h + pl THEN info ELSE h + pl
    BY <1>1, <1>2
  <1> QED BY <1>3 DEF Least

LEMMA JoinedBytes ==
    ASSUME NEW s \in Seq(Nat), NEW t \in Seq(Nat), NEW u, u = s \o t
    PROVE  /\ u \in Seq(Nat) /\ Len(u) = Len(s) + Len(t)
           /\ \A i \in 1..Len(s) : u[i] = s[i]
           /\ \A i \in 1..Len(t) : u[Len(s) + i] = t[i]
  BY JoinedRuns

\* The first w bytes of a piece.
BytesOfPiece(more, piece, w) ==
    /\ more \in Seq(Nat) /\ Len(more) = w
    /\ \A i \in 1..w : more[i] = IF piece.recorded THEN piece.offset + i ELSE 0

\* One more extent read.
LEMMA HasReadMore ==
    ASSUME input \in Inputs, NEW s, s \in Seq(Pieces), NEW n \in 1..Len(s),
           NEW body, HasRead(s, n, body), NEW w,
           w = Least(input.entry.information_length - Len(body), s[n].length), w > 0,
           NEW more, BytesOfPiece(more, s[n], w)
    PROVE  HasRead(s, n + 1, body \o more)
  <1>1. PICK info : info = input.entry.information_length
    OBVIOUS
  <1>2. info \in Nat
    BY <1>1, InputType, DescriptorRuns
  <1>3. s[n] \in Pieces /\ Len(s) \in Nat
    OBVIOUS
  <1>4. PICK pl, po : pl = s[n].length /\ po = s[n].offset
    OBVIOUS
  <1>5. pl \in Nat /\ po \in Nat
    BY <1>3, <1>4 DEF Pieces
  <1>6. Runs(s) /\ \A i \in 0..Len(s) : Held(s)[i] \in Nat
    BY TotalType
  <1>7. PICK h : h = Held(s)[n - 1]
    OBVIOUS
  <1>8. h \in Nat /\ Held(s)[n] = h + pl
    <2>1. n - 1 \in 0..Len(s)
      BY <1>3
    <2> QED BY <1>3, <1>4, <1>6, <1>7, <2>1, HeldUnfold
  <1>9. PICK l : l = Len(body)
    OBVIOUS
  <1>10. body \in Seq(Nat) /\ l \in Nat /\ l = Least(info, h)
    BY <1>1, <1>7, <1>9 DEF HasRead
  <1>11. w = Least(info - l, pl)
    BY <1>1, <1>4, <1>9
  <1>12. l = h /\ w \in Nat /\ l + w = Least(info, h + pl) /\ w <= pl
    <2>1. info \in Nat /\ h \in Nat /\ pl \in Nat /\ w > 0
      BY <1>2, <1>5, <1>8, Zenon
    <2> QED BY <1>10, <1>11, <2>1, LeastMore
  <1>13. PICK u : u = body \o more
    OBVIOUS
  <1>14. /\ u \in Seq(Nat) /\ Len(u) = l + w
         /\ \A i \in 1..l : u[i] = body[i]
         /\ \A i \in 1..w : u[l + i] = more[i]
    <2>1. /\ u \in Seq(Nat) /\ Len(u) = Len(body) + Len(more)
          /\ \A i \in 1..Len(body) : u[i] = body[i]
          /\ \A i \in 1..Len(more) : u[Len(body) + i] = more[i]
      <3>1. body \in Seq(Nat) /\ more \in Seq(Nat)
        BY <1>10 DEF BytesOfPiece
      <3> QED BY <1>13, <3>1, JoinedBytes
    <2>2. Len(more) = w
      BY DEF BytesOfPiece
    <2> QED BY <1>9, <2>1, <2>2
  <1>15. ASSUME NEW k \in 1..Len(u) PROVE u[k] = ByteIn(s, k - 1)
    <2>1. CASE k <= l
      <3>1. k \in 1..l
        BY <1>10, <2>1
      <3> QED BY <1>9, <1>14, <3>1 DEF HasRead
    <2>2. CASE ~(k <= l)
      <3>1. PICK i : i = k - l
        OBVIOUS
      <3>2. i \in 1..w /\ l + i = k /\ k - 1 = h + (i - 1) /\ i - 1 \in Nat
        BY <1>10, <1>12, <1>14, <2>2, <3>1
      <3>3. u[k] = IF s[n].recorded THEN po + i ELSE 0
        BY <1>4, <1>14, <3>2 DEF BytesOfPiece
      <3>4. PICK b : b = k - 1
        OBVIOUS
      <3>5. b \in Nat /\ h <= b /\ b < h + pl /\ b - h = i - 1
        BY <1>5, <1>8, <1>12, <3>2, <3>4
      <3>6. ByteIn(s, b) = IF s[n].recorded THEN po + (b - h) + 1 ELSE 0
        BY <1>4, <1>6, <1>7, <1>8, <3>5, ByteHere
      <3>7. po + (b - h) + 1 = po + i
        BY <1>5, <3>2, <3>5
      <3> QED BY <3>3, <3>4, <3>6, <3>7
    <2> QED BY <2>1, <2>2
  <1>16. (n + 1) - 1 = n
    BY <1>3
  <1>17. Len(u) = Least(info, Held(s)[(n + 1) - 1])
    BY <1>8, <1>12, <1>14, <1>16
  <1> QED BY <1>1, <1>13, <1>14, <1>15, <1>17 DEF HasRead

-----------------------------------------------------------------------------
(***************************************************************************)
(* The invariant in the next state, from the same facts about the values   *)
(* that the variables take there.                                          *)
(***************************************************************************)
LEMMA FitsNext ==
    ASSUME input' = input, NEW p, NEW s, NEW e, NEW n, NEW b,
           p = phase', s = spaces', e = extents', n = next', b = bytes',
           Fits(p, s, e, n, b)
    PROVE  Fits(phase, spaces, extents, next, bytes)'
  <1>1. Placed(e) => Placed(extents)'
    BY DEF Placed, Inside, First, Past
  <1>2. Known(s) => Known(spaces)'
    BY DEF Known, Metadata, Backs, Placed, Inside, First, Past, Physical
  <1>3. Covers(e, n - 1) => Covers(extents, next - 1)'
    BY DEF Covers, ByteOf, LogicalByte, PhysicalByte
  <1>4. Covers(e, Len(input.entry.descriptors)) =>
            Covers(extents, Len(input.entry.descriptors))'
    BY DEF Covers, ByteOf, LogicalByte, PhysicalByte
  <1>5. HasRead(e, n, b) => HasRead(extents, next, bytes)'
    BY DEF HasRead
  <1> QED BY <1>1, <1>2, <1>3, <1>4, <1>5 DEF Fits

LEMMA NoVerdict ==
    ASSUME input' = input, result' # "ok", result' # "outside source",
           result' # "uncovered", result' # "incomplete"
    PROVE  BodyIsExact' /\ RefusalJustified'
  BY Zenon DEF BodyIsExact, RefusalJustified

LEMMA NoRead ==
    ASSUME input' = input, asked' = asked, ReadsInsidePartition
    PROVE  ReadsInsidePartition'
  BY DEF ReadsInsidePartition

LEMMA Stays ==
    ASSUME BodyInv, UNCHANGED vars
    PROVE  BodyInv'
  <1>1. /\ input' = input /\ phase' = phase /\ spaces' = spaces /\ extents' = extents
        /\ next' = next /\ bytes' = bytes /\ result' = result /\ asked' = asked
    BY DEF vars
  <1>2. input' \in Inputs /\ (phase' \in {"maps", "entry", "body"} => result' = "none")
    BY <1>1 DEF BodyInv
  <1>3. PICK p, s, e, n, b : p = phase' /\ s = spaces' /\ e = extents' /\ n = next' /\ b = bytes'
    OBVIOUS
  <1>4. Fits(p, s, e, n, b)
    <2>1. p = phase /\ s = spaces /\ e = extents /\ n = next /\ b = bytes
      BY <1>1, <1>3
    <2>2. Fits(phase, spaces, extents, next, bytes)
      BY DEF BodyInv
    <2> QED BY <2>1, <2>2
  <1>5. Fits(phase, spaces, extents, next, bytes)'
    BY <1>1, <1>3, <1>4, FitsNext
  <1>6. BodyIsExact'
    BY <1>1 DEF BodyInv, BodyIsExact, ByteOf, LogicalByte, PhysicalByte
  <1>7. RefusalJustified'
    BY <1>1 DEF BodyInv, RefusalJustified
  <1>8. ReadsInsidePartition'
    BY <1>1, NoRead DEF BodyInv
  <1> QED BY <1>2, <1>5, <1>6, <1>7, <1>8 DEF BodyInv

\* A step that returns without a verdict on the bytes.
LEMMA Refused ==
    ASSUME BodyInv, input' = input, phase' = "returned", extents' = extents,
           next' = next, asked' = asked,
           BodyIsExact', RefusalJustified'
    PROVE  BodyInv'
  <1>1. PICK p, s, e, n, b : p = phase' /\ s = spaces' /\ e = extents' /\ n = next' /\ b = bytes'
    OBVIOUS
  <1>2. Placed(extents) /\ next \in Nat \ {0} /\ input \in Inputs /\ ReadsInsidePartition
    BY DEF BodyInv, Fits
  <1>3. p # "maps" /\ p # "entry" /\ p # "body" /\ e = extents /\ n = next
    BY <1>1
  <1>4. Fits(p, s, e, n, b)
    BY <1>2, <1>3 DEF Fits
  <1>5. Fits(phase, spaces, extents, next, bytes)'
    BY <1>1, <1>4, FitsNext
  <1>6. ReadsInsidePartition'
    BY <1>2, NoRead
  <1> QED BY <1>2, <1>5, <1>6 DEF BodyInv

LEMMA InitHolds ==
    ASSUME Init PROVE BodyInv
  <1>1. PICK s : s = <<>>
    OBVIOUS
  <1>2. s \in Seq(Pieces) /\ Len(s) = 0
    BY <1>1
  <1>3. Placed(s)
    BY <1>2 DEF Placed
  <1>4. /\ input \in Inputs /\ phase = "maps" /\ extents = s /\ bytes = <<>> /\ next = 1
        /\ result = "none" /\ asked.length = 0 /\ s = <<>>
    BY <1>1 DEF Init
  <1>5. Fits(phase, spaces, extents, next, bytes)
    BY <1>3, <1>4 DEF Fits
  <1>6. BodyIsExact /\ RefusalJustified
    BY <1>4, Zenon DEF BodyIsExact, RefusalJustified
  <1>7. ReadsInsidePartition
    BY <1>4 DEF ReadsInsidePartition
  <1> QED BY <1>4, <1>5, <1>6, <1>7 DEF BodyInv

\* build_address_spaces leaves the entry to do with the spaces known.
LEMMA SpacesBuilt ==
    ASSUME BodyInv, phase = "maps", phase' = "entry", NEW s, s = spaces', Known(s),
           UNCHANGED <<input, extents, next, bytes, result, asked>>
    PROVE  BodyInv'
  <1>1. PICK p, e, n, b : p = phase' /\ e = extents' /\ n = next' /\ b = bytes'
    OBVIOUS
  <1>2. /\ input \in Inputs /\ result = "none" /\ ReadsInsidePartition
        /\ Placed(extents) /\ extents = <<>> /\ next = 1 /\ bytes = <<>>
    BY DEF BodyInv, Fits
  <1>3. PICK list : list = input.entry.descriptors
    OBVIOUS
  <1>4. Len(list) \in Nat /\ list \in Seq(Descriptor)
    BY <1>2, <1>3, InputType, DescriptorRuns
  <1>5. Placed(e) /\ e = <<>> /\ n = 1 /\ b = <<>> /\ p = "entry"
    BY <1>1, <1>2
  <1>6. Total(e) = 0 /\ NoneEmpty(e)
    <2>1. Len(e) = 0
      BY <1>5
    <2> QED BY <1>5, <2>1, NoPieces DEF NoneEmpty
  <1>7. Covers(e, n - 1)
    <2>1. n - 1 = 0 /\ Held(list)[0] = 0
      BY <1>4, <1>5, HeldUnfold
    <2>2. \A k \in Nat : ~(k < Total(e))
      BY <1>6
    <2> QED BY <1>3, <1>6, <2>1, <2>2 DEF Covers
  <1>8. n <= Len(input.entry.descriptors) + 1 /\ n \in Nat \ {0}
    BY <1>3, <1>4, <1>5
  <1>9. Fits(p, s, e, n, b)
    BY <1>5, <1>7, <1>8 DEF Fits
  <1>10. Fits(phase, spaces, extents, next, bytes)'
    BY <1>1, <1>9, FitsNext
  <1>11. BodyIsExact' /\ RefusalJustified'
    <2>1. result' = "none"
      BY <1>2
    <2>2. /\ result' # "ok" /\ result' # "outside source" /\ result' # "uncovered"
          /\ result' # "incomplete"
      BY <2>1, Zenon
    <2> QED BY <2>2, NoVerdict, Zenon
  <1>12. ReadsInsidePartition'
    BY <1>2, NoRead
  <1> QED BY <1>2, <1>10, <1>11, <1>12 DEF BodyInv

-----------------------------------------------------------------------------
(* Each action keeps the invariant. *)

LEMMA KnownPhysical ==
    ASSUME NEW s, s = <<Physical>>
    PROVE  Known(s)
  <1>1. Len(s) = 1 /\ s[1] = Physical
    OBVIOUS
  <1> QED BY <1>1 DEF Known

LEMMA KnownBoth ==
    ASSUME NEW space, Metadata(space), NEW s, s = <<Physical, space>>
    PROVE  Known(s)
  <1>1. Len(s) = 2 /\ s[1] = Physical /\ s[2] = space
    OBVIOUS
  <1> QED BY <1>1 DEF Known

LEMMA PhysicalOnlyHolds ==
    ASSUME BodyInv, PhysicalOnly PROVE BodyInv'
  <1>1. /\ phase = "maps" /\ phase' = "entry" /\ spaces' = <<Physical>>
        /\ UNCHANGED <<input, extents, next, bytes, result, asked>>
    BY DEF PhysicalOnly
  <1>2. PICK s : s = spaces'
    OBVIOUS
  <1>3. Known(s)
    BY <1>1, <1>2, KnownPhysical
  <1> QED BY <1>1, <1>2, <1>3, SpacesBuilt

LEMMA WithMetadataHolds ==
    ASSUME BodyInv, WithMetadata PROVE BodyInv'
  <1>1. phase = "maps" /\ input.maps # <<>> /\ UNCHANGED <<input, extents, next, bytes, asked>>
    BY DEF WithMetadata
  <1>2. PICK map : map = input.maps[1]
    OBVIOUS
  <1>3. PICK main, mirror : /\ main = EntryExtents(<<Physical>>, map.main)
                            /\ mirror = EntryExtents(<<Physical>>, map.mirror)
    OBVIOUS
  <1>4. PICK space : space = [kind |-> "metadata", blocks |-> MetadataBlocks(map),
                              backing |-> main.pieces]
    OBVIOUS
  <1>5. \/ /\ main.status = "done" /\ BackingValid(map, main.pieces, mirror.pieces)
           /\ spaces' = <<Physical, space>> /\ phase' = "entry" /\ result' = result
        \/ phase' = "returned" /\ result' = "metadata map"
    BY <1>2, <1>3, <1>4, Zenon DEF WithMetadata, Refuse
  <1>6. CASE /\ main.status = "done" /\ BackingValid(map, main.pieces, mirror.pieces)
             /\ spaces' = <<Physical, space>> /\ phase' = "entry" /\ result' = result
    <2>1. input \in Inputs
      BY DEF BodyInv
    <2>2. Metadata(space)
      BY <1>1, <1>2, <1>3, <1>4, <1>6, <2>1, MetadataHolds
    <2>3. PICK s : s = spaces'
      OBVIOUS
    <2>4. Known(s)
      BY <1>6, <2>2, <2>3, KnownBoth
    <2>5. UNCHANGED <<input, extents, next, bytes, result, asked>>
      BY <1>1, <1>6
    <2> QED BY <1>1, <1>6, <2>3, <2>4, <2>5, SpacesBuilt
  <1>7. CASE phase' = "returned" /\ result' = "metadata map"
    <2>1. /\ result' # "ok" /\ result' # "outside source" /\ result' # "uncovered"
          /\ result' # "incomplete"
      BY <1>7, Zenon
    <2>2. BodyIsExact' /\ RefusalJustified'
      BY <1>1, <2>1, NoVerdict, Zenon
    <2>3. /\ input' = input /\ phase' = "returned" /\ extents' = extents
          /\ next' = next /\ asked' = asked
      BY <1>1, <1>7, Zenon
    <2> QED BY <2>2, <2>3, Refused, Zenon
  <1> QED BY <1>5, <1>6, <1>7, Zenon

LEMMA TranslateNextHolds ==
    ASSUME BodyInv, TranslateNext PROVE BodyInv'
  <1>1. /\ phase = "entry" /\ next <= Len(input.entry.descriptors)
        /\ UNCHANGED <<input, spaces, bytes, asked>>
    BY DEF TranslateNext
  <1>2. /\ input \in Inputs /\ result = "none" /\ ReadsInsidePartition /\ Placed(extents)
        /\ next \in Nat \ {0} /\ Known(spaces) /\ bytes = <<>> /\ Covers(extents, next - 1)
    BY <1>1 DEF BodyInv, Fits
  <1>3. PICK list : list = input.entry.descriptors
    OBVIOUS
  <1>4. list \in Seq(Descriptor) /\ Len(list) \in Nat
    BY <1>2, <1>3, InputType, DescriptorRuns
  <1>5. PICK m : m = next
    OBVIOUS
  <1>6. m \in 1..Len(list) /\ list[m] \in Descriptor
    BY <1>1, <1>2, <1>3, <1>4, <1>5
  <1>7. PICK a : a = TranslateDescriptor(spaces, list[m])
    OBVIOUS
  <1>8. /\ a.status # "outside source" /\ a.status # "ok" /\ a.status # "incomplete"
        /\ a.status = "uncovered" => list[m].length = 0
        /\ a.status = "done" => Right(list[m], a.pieces)
    <2>1. PICK known : known = spaces
      OBVIOUS
    <2>2. Known(known)
      BY <1>2, <2>1
    <2> QED BY <1>2, <1>6, <1>7, <2>1, <2>2, DescriptorHolds
  <1>9. \/ /\ a.status = "done" /\ extents' = extents \o a.pieces /\ next' = next + 1
           /\ UNCHANGED <<phase, result>>
        \/ phase' = "returned" /\ result' = a.status /\ UNCHANGED <<extents, next>>
    BY <1>3, <1>5, <1>7, Zenon DEF TranslateNext, Refuse
  <1>10. CASE /\ a.status = "done" /\ extents' = extents \o a.pieces /\ next' = next + 1
              /\ UNCHANGED <<phase, result>>
    <2>1. PICK p, s, e, n, b : p = phase' /\ s = spaces' /\ e = extents' /\ n = next' /\ b = bytes'
      OBVIOUS
    <2>2. PICK before, more : before = extents /\ more = a.pieces
      OBVIOUS
    <2>3. Placed(before \o more) /\ Covers(before \o more, m)
      BY <1>2, <1>3, <1>5, <1>6, <1>8, <1>10, <2>2, CoversMore
    <2>4. e = before \o more /\ s = spaces /\ b = <<>> /\ p = "entry" /\ n = m + 1
      BY <1>1, <1>2, <1>5, <1>10, <2>1, <2>2
    <2>5. n \in Nat \ {0} /\ n - 1 = m /\ n <= Len(list) + 1
      BY <1>4, <1>6, <2>4
    <2>6. Placed(e) /\ Covers(e, n - 1) /\ Known(s)
      BY <1>2, <2>3, <2>4, <2>5
    <2>7. Fits(p, s, e, n, b)
      BY <1>3, <2>4, <2>5, <2>6 DEF Fits
    <2>8. Fits(phase, spaces, extents, next, bytes)'
      BY <1>1, <2>1, <2>7, FitsNext
    <2>9. result' = "none"
      BY <1>2, <1>10
    <2>10. BodyIsExact' /\ RefusalJustified'
      <3>1. /\ result' # "ok" /\ result' # "outside source" /\ result' # "uncovered"
            /\ result' # "incomplete"
        BY <2>9, Zenon
      <3> QED BY <1>1, <3>1, NoVerdict, Zenon
    <2>11. ReadsInsidePartition'
      BY <1>1, <1>2, NoRead
    <2> QED BY <1>1, <1>2, <2>8, <2>9, <2>10, <2>11 DEF BodyInv
  <1>11. CASE phase' = "returned" /\ result' = a.status /\ UNCHANGED <<extents, next>>
    <2>1. BodyIsExact'
      BY <1>8, <1>11, Zenon DEF BodyIsExact
    <2>2. RefusalJustified'
      <3>1. result' # "outside source" /\ result' # "incomplete"
        BY <1>8, <1>11, Zenon
      <3>2. result' = "uncovered" => input'.entry.descriptors[next'].length = 0
        BY <1>1, <1>3, <1>5, <1>8, <1>11
      <3> QED BY <3>1, <3>2, Zenon DEF RefusalJustified
    <2>3. /\ input' = input /\ phase' = "returned" /\ extents' = extents
          /\ next' = next /\ asked' = asked
      BY <1>1, <1>11, Zenon
    <2> QED BY <2>1, <2>2, <2>3, Refused, Zenon
  <1> QED BY <1>9, <1>10, <1>11, Zenon

LEMMA CheckCoverageHolds ==
    ASSUME BodyInv, CheckCoverage PROVE BodyInv'
  <1>1. /\ phase = "entry" /\ next > Len(input.entry.descriptors)
        /\ UNCHANGED <<input, spaces, extents, bytes, asked>>
    BY DEF CheckCoverage
  <1>2. /\ input \in Inputs /\ result = "none" /\ ReadsInsidePartition /\ Placed(extents)
        /\ next \in Nat \ {0} /\ Known(spaces) /\ bytes = <<>> /\ Covers(extents, next - 1)
        /\ next <= Len(input.entry.descriptors) + 1
    BY <1>1 DEF BodyInv, Fits
  <1>3. PICK list, info : list = input.entry.descriptors /\ info = input.entry.information_length
    OBVIOUS
  <1>4. Len(list) \in Nat /\ info \in Nat
    BY <1>2, <1>3, InputType, DescriptorRuns
  <1>5. PICK l, m : l = Len(list) /\ m = next
    OBVIOUS
  <1>6. m - 1 = l
    BY <1>1, <1>2, <1>3, <1>4, <1>5
  <1>7. Covers(extents, l)
    BY <1>2, <1>5, <1>6
  <1>8. \/ Total(extents) < info /\ phase' = "returned" /\ result' = "short" /\ UNCHANGED next
        \/ ~(Total(extents) < info) /\ phase' = "body" /\ next' = 1 /\ UNCHANGED result
    BY <1>3 DEF CheckCoverage, Refuse
  <1>9. CASE Total(extents) < info /\ phase' = "returned" /\ result' = "short" /\ UNCHANGED next
    <2>1. /\ result' # "ok" /\ result' # "outside source" /\ result' # "uncovered"
          /\ result' # "incomplete"
      BY <1>9, Zenon
    <2>2. BodyIsExact' /\ RefusalJustified'
      BY <1>1, <2>1, NoVerdict, Zenon
    <2>3. /\ input' = input /\ phase' = "returned" /\ extents' = extents
          /\ next' = next /\ asked' = asked
      BY <1>1, <1>9, Zenon
    <2> QED BY <2>2, <2>3, Refused, Zenon
  <1>10. CASE ~(Total(extents) < info) /\ phase' = "body" /\ next' = 1 /\ UNCHANGED result
    <2>1. PICK p, s, e, n, b : p = phase' /\ s = spaces' /\ e = extents' /\ n = next' /\ b = bytes'
      OBVIOUS
    <2>2. p = "body" /\ s = spaces /\ e = extents /\ n = 1 /\ b = <<>>
      BY <1>1, <1>2, <1>10, <2>1
    <2>3. Placed(e) /\ Known(s) /\ Covers(e, l) /\ ~(Total(e) < info)
      BY <1>2, <1>7, <1>10, <2>2
    <2>4. e \in Seq(Pieces) /\ Len(e) \in Nat /\ Total(e) \in Nat
      BY <2>3, TotalType DEF Placed
    <2>5. info <= Total(e) /\ n <= Len(e) + 1 /\ n \in Nat \ {0}
      BY <1>4, <2>2, <2>3, <2>4
    <2>6. HasRead(e, n, b)
      <3>1. Held(e)[0] = 0 /\ n - 1 = 0
        BY <2>2, <2>4, HeldUnfold
      <3>2. Least(info, 0) = 0
        BY <1>4 DEF Least
      <3>3. b \in Seq(Nat) /\ Len(b) = 0
        BY <2>2
      <3>4. \A k \in 1..Len(b) : b[k] = ByteIn(e, k - 1)
        BY <3>3
      <3> QED BY <1>3, <3>1, <3>2, <3>3, <3>4 DEF HasRead
    <2>7. Fits(p, s, e, n, b)
      BY <1>3, <1>5, <2>2, <2>3, <2>5, <2>6 DEF Fits
    <2>8. Fits(phase, spaces, extents, next, bytes)'
      BY <1>1, <2>1, <2>7, FitsNext
    <2>9. result' = "none"
      BY <1>2, <1>10
    <2>10. BodyIsExact' /\ RefusalJustified'
      <3>1. /\ result' # "ok" /\ result' # "outside source" /\ result' # "uncovered"
            /\ result' # "incomplete"
        BY <2>9, Zenon
      <3> QED BY <1>1, <3>1, NoVerdict, Zenon
    <2>11. ReadsInsidePartition'
      BY <1>1, <1>2, NoRead
    <2> QED BY <1>1, <1>2, <2>8, <2>9, <2>10, <2>11 DEF BodyInv
  <1> QED BY <1>8, <1>9, <1>10

\* What is known while the body is read, with values for the state.
LEMMA BodyFacts ==
    ASSUME BodyInv, phase = "body",
           NEW s, s = extents, NEW n, n = next, NEW b, b = bytes,
           NEW info, info = input.entry.information_length
    PROVE  /\ input \in Inputs /\ result = "none" /\ ReadsInsidePartition /\ Known(spaces)
           /\ Placed(s) /\ s \in Seq(Pieces) /\ Len(s) \in Nat /\ Total(s) \in Nat
           /\ n \in Nat \ {0} /\ n <= Len(s) + 1
           /\ Covers(s, Len(input.entry.descriptors))
           /\ info \in Nat /\ info <= Total(s) /\ HasRead(s, n, b)
  <1>1. Fits(phase, spaces, extents, next, bytes) /\ input \in Inputs
    BY DEF BodyInv
  <1>2. /\ Placed(s) /\ n \in Nat \ {0} /\ n <= Len(s) + 1 /\ Known(spaces)
        /\ Covers(s, Len(input.entry.descriptors)) /\ info <= Total(s) /\ HasRead(s, n, b)
    BY <1>1 DEF Fits
  <1>3. s \in Seq(Pieces) /\ Len(s) \in Nat /\ Total(s) \in Nat
    BY <1>2, TotalType DEF Placed
  <1>4. info \in Nat
    BY <1>1, InputType, DescriptorRuns
  <1>5. result = "none" /\ ReadsInsidePartition
    BY DEF BodyInv
  <1> QED BY <1>1, <1>2, <1>3, <1>4, <1>5

\* How much of a piece is wanted.
LEMMA WantedFacts ==
    ASSUME BodyInv, phase = "body", Wanted > 0,
           NEW s, s = extents, NEW n, n = next, NEW w, w = Wanted
    PROVE  /\ n \in 1..Len(s) /\ s[n] \in Pieces /\ w \in Nat /\ w > 0 /\ w <= s[n].length
           /\ w = Least(input.entry.information_length - Len(bytes), s[n].length)
  <1>1. PICK b, info : b = bytes /\ info = input.entry.information_length
    OBVIOUS
  <1>2. /\ s \in Seq(Pieces) /\ Len(s) \in Nat /\ n \in Nat \ {0} /\ info \in Nat
        /\ HasRead(s, n, b)
    BY <1>1, BodyFacts
  <1>3. ~(n > Len(s)) /\ w = Least(info - Len(b), s[n].length)
    <2>1. Wanted = IF n > Len(s) THEN 0 ELSE Least(info - Len(b), s[n].length)
      BY <1>1, Zenon DEF Wanted
    <2>2. ~(n > Len(s))
      <3> SUFFICES ASSUME n > Len(s) PROVE FALSE
        OBVIOUS
      <3>1. Wanted = 0
        BY <2>1
      <3> QED BY <3>1
    <2> QED BY <2>1, <2>2
  <1>4. n \in 1..Len(s)
    BY <1>2, <1>3
  <1>5. s[n] \in Pieces
    BY <1>2, <1>4
  <1>6. PICK pl, l : pl = s[n].length /\ l = Len(b)
    OBVIOUS
  <1>7. pl \in Nat /\ l \in Nat
    <2>1. b \in Seq(Nat)
      BY <1>2 DEF HasRead
    <2> QED BY <1>5, <1>6, <2>1 DEF Pieces
  <1>8. w = IF info - l <= pl THEN info - l ELSE pl
    BY <1>3, <1>6 DEF Least
  <1>9. w \in Nat /\ w > 0 /\ w <= pl
    BY <1>2, <1>7, <1>8
  <1> QED BY <1>1, <1>3, <1>4, <1>5, <1>6, <1>9

\* The bytes of a piece are read, or zeros stand for them.
LEMMA BodyGrows ==
    ASSUME BodyInv, phase = "body", Wanted > 0,
           NEW more, NEW s, s = extents, NEW n, n = next, BytesOfPiece(more, s[n], Wanted),
           bytes' = bytes \o more, next' = next + 1,
           UNCHANGED <<input, phase, spaces, extents, result>>, ReadsInsidePartition'
    PROVE  BodyInv'
  <1>1. PICK b, info, w : b = bytes /\ info = input.entry.information_length /\ w = Wanted
    OBVIOUS
  <1>2. /\ input \in Inputs /\ result = "none" /\ Known(spaces)
        /\ Placed(s) /\ s \in Seq(Pieces) /\ Len(s) \in Nat
        /\ Covers(s, Len(input.entry.descriptors))
        /\ info \in Nat /\ info <= Total(s) /\ HasRead(s, n, b)
    BY <1>1, BodyFacts
  <1>3. /\ n \in 1..Len(s) /\ w > 0
        /\ w = Least(input.entry.information_length - Len(b), s[n].length)
    BY <1>1, WantedFacts
  <1>4. BytesOfPiece(more, s[n], w)
    BY <1>1
  <1>5. HasRead(s, n + 1, b \o more)
    BY <1>2, <1>3, <1>4, HasReadMore
  <1>6. PICK p, k, e, m, c : p = phase' /\ k = spaces' /\ e = extents' /\ m = next' /\ c = bytes'
    OBVIOUS
  <1>7. p = "body" /\ k = spaces /\ e = s /\ m = n + 1 /\ c = b \o more
    BY <1>1, <1>6
  <1>8. m \in Nat \ {0} /\ m <= Len(e) + 1
    BY <1>2, <1>3, <1>7
  <1>9. /\ Placed(e) /\ Known(k) /\ Covers(e, Len(input.entry.descriptors))
        /\ input.entry.information_length <= Total(e) /\ HasRead(e, m, c)
    BY <1>1, <1>2, <1>5, <1>7
  <1>10. Fits(p, k, e, m, c)
    BY <1>7, <1>8, <1>9 DEF Fits
  <1>11. Fits(phase, spaces, extents, next, bytes)'
    BY <1>6, <1>10, FitsNext
  <1>12. result' = "none"
    BY <1>2
  <1>13. BodyIsExact' /\ RefusalJustified'
    <2>1. /\ result' # "ok" /\ result' # "outside source" /\ result' # "uncovered"
          /\ result' # "incomplete"
      BY <1>12, Zenon
    <2> QED BY <2>1, NoVerdict, Zenon
  <1> QED BY <1>2, <1>11, <1>12, <1>13 DEF BodyInv

LEMMA ZeroExtentHolds ==
    ASSUME BodyInv, ZeroExtent PROVE BodyInv'
  <1>1. PICK s, n, w : s = extents /\ n = next /\ w = Wanted
    OBVIOUS
  <1>2. /\ phase = "body" /\ w > 0 /\ ~s[n].recorded /\ bytes' = bytes \o [i \in 1..w |-> 0]
        /\ next' = next + 1 /\ UNCHANGED <<input, phase, spaces, extents, result, asked>>
    BY <1>1 DEF ZeroExtent
  <1>3. w \in Nat
    BY <1>1, <1>2, WantedFacts
  <1>4. PICK more : more = [i \in 1..w |-> 0]
    OBVIOUS
  <1>5. more \in Seq(Nat) /\ Len(more) = w /\ \A i \in 1..w : more[i] = 0
    BY <1>3, <1>4
  <1>6. BytesOfPiece(more, s[n], w)
    BY <1>2, <1>5 DEF BytesOfPiece
  <1>7. ReadsInsidePartition'
    BY <1>2, NoRead DEF BodyInv
  <1> QED BY <1>1, <1>2, <1>4, <1>6, <1>7, BodyGrows

LEMMA ReadExtentHolds ==
    ASSUME BodyInv, ReadExtent PROVE BodyInv'
  <1>1. PICK s, n, w : s = extents /\ n = next /\ w = Wanted
    OBVIOUS
  <1>2. PICK po, pl : po = s[n].offset /\ pl = s[n].length
    OBVIOUS
  <1>3. phase = "body" /\ w > 0 /\ s[n].recorded /\ UNCHANGED <<input, spaces, extents>>
    BY <1>1 DEF ReadExtent
  <1>4. n \in 1..Len(s) /\ s[n] \in Pieces /\ w \in Nat /\ w <= pl
    BY <1>1, <1>2, <1>3, WantedFacts
  <1>5. po \in Nat /\ pl \in Nat
    BY <1>2, <1>4 DEF Pieces
  <1>6. First <= po /\ po + pl <= Past
    <2>1. Placed(s)
      BY <1>1, <1>3, BodyFacts
    <2>2. Inside(s[n])
      BY <1>4, <2>1 DEF Placed
    <2> QED BY <1>2, <1>3, <2>2 DEF Inside
  <1>7. Past <= input.total_bytes /\ First \in Nat /\ Past \in Nat /\ input.total_bytes \in Nat
    BY InputType DEF BodyInv
  <1>8. po + w <= Past /\ ~(po + w > input.total_bytes)
    BY <1>4, <1>5, <1>6, <1>7
  <1>9. PICK more : more = [i \in 1..w |-> po + i]
    OBVIOUS
  <1>10. /\ asked' = [offset |-> po, length |-> w]
         /\ \/ bytes' = bytes \o more /\ next' = next + 1 /\ UNCHANGED <<phase, result>>
            \/ phase' = "returned" /\ result' = "read failed" /\ UNCHANGED <<next, bytes>>
    BY <1>1, <1>2, <1>8, <1>9, Zenon DEF ReadExtent, Refuse
  <1>11. ReadsInsidePartition'
    <2>1. PICK r : r = asked'
      OBVIOUS
    <2>2. r.offset = po /\ r.length = w
      BY <1>10, <2>1
    <2>3. First <= po /\ po + w <= Past
      BY <1>6, <1>8
    <2> QED BY <1>3, <2>1, <2>2, <2>3 DEF ReadsInsidePartition, First, Past
  <1>12. CASE bytes' = bytes \o more /\ next' = next + 1 /\ UNCHANGED <<phase, result>>
    <2>1. more \in Seq(Nat) /\ Len(more) = w /\ \A i \in 1..w : more[i] = po + i
      <3>1. \A i \in 1..w : po + i \in Nat
        BY <1>4, <1>5
      <3> QED BY <1>4, <1>9, <3>1
    <2>2. BytesOfPiece(more, s[n], w)
      BY <1>2, <1>3, <2>1 DEF BytesOfPiece
    <2> QED BY <1>1, <1>3, <1>11, <1>12, <2>2, BodyGrows
  <1>13. CASE phase' = "returned" /\ result' = "read failed" /\ UNCHANGED <<next, bytes>>
    <2>1. /\ result' # "ok" /\ result' # "outside source" /\ result' # "uncovered"
          /\ result' # "incomplete"
      BY <1>13, Zenon
    <2>2. BodyIsExact' /\ RefusalJustified'
      BY <1>3, <2>1, NoVerdict, Zenon
    <2>3. PICK p, k, e, m, c :
             p = phase' /\ k = spaces' /\ e = extents' /\ m = next' /\ c = bytes'
      OBVIOUS
    <2>4. p # "maps" /\ p # "entry" /\ p # "body" /\ e = s /\ m = n /\ Placed(s) /\ n \in Nat \ {0}
      BY <1>1, <1>3, <1>13, <2>3, BodyFacts
    <2>5. Fits(p, k, e, m, c)
      BY <2>4 DEF Fits
    <2>6. Fits(phase, spaces, extents, next, bytes)'
      BY <1>3, <2>3, <2>5, FitsNext
    <2> QED BY <1>3, <1>11, <1>13, <2>2, <2>6 DEF BodyInv
  <1> QED BY <1>10, <1>12, <1>13

LEMMA FinishBodyHolds ==
    ASSUME BodyInv, FinishBody PROVE BodyInv'
  <1>1. PICK s, n, b, info, list :
           /\ s = extents /\ n = next /\ b = bytes
           /\ info = input.entry.information_length /\ list = input.entry.descriptors
    OBVIOUS
  <1>2. /\ phase = "body" /\ Wanted = 0 /\ phase' = "returned"
        /\ UNCHANGED <<input, spaces, extents, next, bytes, asked>>
        /\ result' = IF Len(b) = info THEN "ok" ELSE "incomplete"
    BY <1>1 DEF FinishBody, BodyComplete
  <1>3. /\ input \in Inputs
        /\ Placed(s) /\ s \in Seq(Pieces) /\ Len(s) \in Nat /\ Total(s) \in Nat
        /\ n \in Nat \ {0} /\ n <= Len(s) + 1 /\ Covers(s, Len(list))
        /\ info \in Nat /\ info <= Total(s) /\ HasRead(s, n, b)
    BY <1>1, <1>2, BodyFacts
  <1>4. /\ b \in Seq(Nat) /\ Len(b) = Least(info, Held(s)[n - 1])
        /\ \A k \in 1..Len(b) : b[k] = ByteIn(s, k - 1)
    BY <1>1, <1>3 DEF HasRead
  <1>5. CASE Len(b) = info
    <2>1. result' = "ok"
      BY <1>2, <1>5
    <2>2. RefusalJustified'
      BY <2>1 DEF RefusalJustified
    <2>3. \A k \in 1..info : b[k] = ByteOf(input.entry, k - 1)
      <3>1. \A k \in 1..info : k - 1 \in Nat /\ k - 1 < Total(s)
        BY <1>3
      <3>2. \A k \in Nat : k < Total(s) => ByteIn(s, k) = ByteOf(input.entry, k)
        BY <1>3 DEF Covers
      <3> QED BY <1>4, <1>5, <3>1, <3>2
    <2>4. b = [k \in 1..info |-> ByteOf(input.entry, k - 1)]
      BY <1>4, <1>5, <2>3
    <2>6. bytes = [k \in 1..input.entry.information_length |-> ByteOf(input.entry, k - 1)]
      BY <1>1, <2>4, Zenon
    <2>7. BodyIsExact'
      BY <1>2, <2>6 DEF BodyIsExact, ByteOf, LogicalByte, PhysicalByte
    <2>8. /\ input' = input /\ extents' = extents /\ next' = next /\ asked' = asked
      BY <1>2, Zenon
    <2> QED BY <1>2, <2>2, <2>7, <2>8, Refused, Zenon
  <1>6. CASE Len(b) # info
    <2>1. result' = "incomplete"
      BY <1>2, <1>6
    <2>2. ~(n > Len(s))
      <3> SUFFICES ASSUME n > Len(s) PROVE FALSE
        OBVIOUS
      <3>1. n - 1 = Len(s)
        BY <1>3
      <3>2. Len(b) = Least(info, Total(s))
        BY <1>4, <3>1 DEF Total
      <3>3. Least(info, Total(s)) = info
        BY <1>3 DEF Least
      <3> QED BY <1>6, <3>2, <3>3
    <2>3. n \in 1..Len(s)
      BY <1>3, <2>2
    <2>4. s[n].length = 0
      <3>1. Least(info - Len(b), s[n].length) = 0
        BY <1>1, <1>2, <2>2, Zenon DEF Wanted
      <3>2. info - Len(b) # 0
        BY <1>3, <1>4, <1>6
      <3> QED BY <3>1, <3>2 DEF Least
    <2>5. ~NoneEmpty(s)
      BY <2>3, <2>4 DEF NoneEmpty
    <2>6. \E j \in 1..Len(list) : list[j].length = 0
      BY <1>1, <1>3, <2>5 DEF Covers
    <2>7. RefusalJustified'
      BY <1>1, <1>2, <2>1, <2>6 DEF RefusalJustified
    <2>8. BodyIsExact'
      <3>1. result' # "ok"
        BY <2>1
      <3> QED BY <3>1, Zenon DEF BodyIsExact
    <2>9. /\ input' = input /\ extents' = extents /\ next' = next /\ asked' = asked
      BY <1>2, Zenon
    <2> QED BY <1>2, <2>7, <2>8, <2>9, Refused, Zenon
  <1> QED BY <1>5, <1>6

-----------------------------------------------------------------------------
(***************************************************************************)
(* body_logical_block: the walk stops at the descriptor the byte lies in.  *)
(***************************************************************************)
LEMMA BlockType ==
    ASSUME NEW byte \in Nat
    PROVE  byte \div SectorBytes \in Nat
  <1>1. PICK b : b = SectorBytes
    OBVIOUS
  <1>2. b \in Nat /\ b > 0
    BY <1>1, SectorAssumption
  <1>3. byte \div b \in Nat
    BY <1>2
  <1> QED BY <1>1, <1>3

LEMMA LogicalWalkHolds ==
    ASSUME input \in Inputs, NEW list, list = input.entry.descriptors,
           NEW k \in Nat, NEW j \in Homes(list, k), NEW h, h = Held(list)[j - 1]
    PROVE  \A n \in 0..Len(list) :
              LogicalWalk(k)[n] =
                 IF n < j THEN [remaining |-> k - Held(list)[n], block |-> -1]
                 ELSE [remaining |-> k - h,
                       block |-> (list[j].offset + (k - h)) \div SectorBytes]
  <1>1. /\ list \in Seq(Descriptor) /\ Len(list) \in Nat /\ Runs(list)
    BY InputType, DescriptorRuns
  <1>2. j \in 1..Len(list) /\ h <= k /\ k < Held(list)[j]
    BY DEF Homes
  <1>3. /\ Held(list)[0] = 0
        /\ \A n \in 1..Len(list) : Held(list)[n] = Held(list)[n - 1] + list[n].length
        /\ \A n \in 0..Len(list) : Held(list)[n] \in Nat
        /\ \A n \in 0..Len(list) : \A m \in 0..n : Held(list)[m] <= Held(list)[n]
    BY <1>1, HeldUnfold, HeldOrder
  <1>4. list[j] \in Descriptor
    BY <1>1, <1>2
  <1>5. PICK place : place = (list[j].offset + (k - h)) \div SectorBytes
    OBVIOUS
  <1>6. place \in Nat /\ h \in Nat /\ k - h \in Nat
    <2>1. j - 1 \in 0..Len(list)
      BY <1>1, <1>2
    <2>2. h \in Nat
      BY <1>3, <2>1
    <2>3. k - h \in Nat /\ list[j].offset \in Nat
      BY <1>2, <1>4, <2>2 DEF Descriptor
    <2>4. list[j].offset + (k - h) \in Nat
      BY <2>3
    <2> QED BY <1>5, <2>2, <2>3, <2>4, BlockType
  <1> DEFINE W == LogicalWalk(k)
             There == [remaining |-> k - h, block |-> place]
             At(n) == IF n < j THEN [remaining |-> k - Held(list)[n], block |-> -1] ELSE There
             T == {n \in 0..Len(list) : W[n] # At(n)}
  <1>7. /\ W[0] = [remaining |-> k, block |-> -1]
        /\ \A n \in 1..Len(list) : W[n] = LogicalStep(W[n - 1], list[n])
    BY <1>1, LogicalUnfold
  <1> HIDE DEF W
  <1>8. ASSUME T # {} PROVE FALSE
    <2>1. PICK n \in T : \A m \in T : n <= m
      <3>1. T \in SUBSET Nat
        OBVIOUS
      <3> HIDE DEF T
      <3> QED BY <1>8, <3>1, LeastElement
    <2>2. n # 0
      <3>1. 0 < j /\ k - Held(list)[0] = k
        BY <1>2, <1>3
      <3>2. At(0) = [remaining |-> k, block |-> -1]
        BY <3>1
      <3>3. W[0] = At(0)
        BY <1>7, <3>2
      <3> QED BY <3>3
    <2>3. n \in 1..Len(list) /\ n - 1 \in 0..Len(list) /\ ~(n <= n - 1)
      BY <1>1, <2>2
    <2>4. W[n - 1] = At(n - 1)
      BY <2>1, <2>3
    <2>5. PICK w, d : w = W[n - 1] /\ d = list[n]
      OBVIOUS
    <2>6. W[n] = LogicalStep(w, d)
      BY <1>7, <2>3, <2>5
    <2>7. d.length \in Nat /\ d.offset \in Nat
      <3>1. d \in Descriptor
        BY <1>1, <2>3, <2>5
      <3> QED BY <3>1 DEF Descriptor
    <2>8. CASE n - 1 >= j
      <3>1. w = There
        BY <1>2, <2>3, <2>4, <2>5, <2>8
      <3>2. w.block >= 0
        BY <1>6, <3>1
      <3>3. LogicalStep(w, d) = w
        BY <3>2 DEF LogicalStep
      <3>4. At(n) = There
        BY <1>2, <2>3, <2>8
      <3> QED BY <2>6, <3>1, <3>3, <3>4
    <2>9. CASE n - 1 < j
      <3>1. PICK g : g = Held(list)[n - 1]
        OBVIOUS
      <3>2. g \in Nat /\ Held(list)[n] = g + d.length
        BY <1>3, <2>3, <2>5, <3>1
      <3>3. w = [remaining |-> k - g, block |-> -1]
        BY <2>4, <2>5, <2>9, <3>1
      <3>4. w.remaining = k - g /\ w.block = -1 /\ ~(w.block >= 0)
        BY <3>3
      <3>5. CASE n < j
        <4>1. Held(list)[n] <= h
          <5>1. j - 1 \in 0..Len(list) /\ n \in 0..j - 1
            BY <1>1, <1>2, <2>3, <3>5
          <5> QED BY <1>3, <5>1
        <4>2. ~(k - g < d.length) /\ (k - g) - d.length = k - Held(list)[n]
          <5>1. PICK dl, top : dl = d.length /\ top = Held(list)[n]
            OBVIOUS
          <5>2. top = g + dl /\ top <= h /\ h <= k /\ g \in Nat /\ dl \in Nat /\ h \in Nat
            BY <1>2, <1>6, <2>7, <3>2, <4>1, <5>1
          <5>3. ~(k - g < dl) /\ (k - g) - dl = k - top
            BY <5>2
          <5> QED BY <5>1, <5>3
        <4>3. LogicalStep(w, d) = [w EXCEPT !.remaining = @ - d.length]
          BY <3>4, <4>2 DEF LogicalStep
        <4>4. [w EXCEPT !.remaining = @ - d.length]
                 = [remaining |-> k - Held(list)[n], block |-> -1]
          BY <3>3, <4>2
        <4> QED BY <2>6, <3>5, <4>3, <4>4
      <3>6. CASE n = j
        <4>1. g = h /\ d = list[j]
          BY <2>5, <3>1, <3>6
        <4>2. k - g < d.length
          <5>1. PICK dl, top : dl = d.length /\ top = Held(list)[j]
            OBVIOUS
          <5>2. top = g + dl /\ k < top /\ g \in Nat /\ dl \in Nat
            BY <1>2, <2>7, <3>2, <3>6, <5>1
          <5>3. k - g < dl
            BY <5>2
          <5> QED BY <5>1, <5>3
        <4>3. LogicalStep(w, d)
                 = [w EXCEPT !.block = (d.offset + w.remaining) \div SectorBytes]
          BY <3>4, <4>2 DEF LogicalStep
        <4>4. (d.offset + w.remaining) \div SectorBytes = place
          BY <1>5, <3>4, <4>1
        <4>5. LogicalStep(w, d) = There
          BY <3>3, <4>1, <4>3, <4>4
        <4>6. At(n) = There
          BY <1>2, <3>6
        <4> QED BY <2>6, <4>5, <4>6
      <3> QED BY <1>2, <2>3, <2>9, <3>5, <3>6
    <2> QED BY <1>2, <2>3, <2>8, <2>9
  <1>9. \A n \in 0..Len(list) : W[n] = At(n)
    BY <1>8
  <1> QED BY <1>5, <1>9 DEF W

LEMMA BlockHolds ==
    ASSUME BodyInv
    PROVE  TagBlockRight
  <1> SUFFICES ASSUME NEW k \in 0..(input.entry.information_length - 1), phase = "body"
               PROVE  BodyLogicalBlock(k) = LogicalByte(input.entry, k) \div SectorBytes
    BY DEF TagBlockRight
  <1>1. PICK s, n, b, info, list, e :
           /\ s = extents /\ n = next /\ b = bytes /\ e = input.entry
           /\ info = input.entry.information_length /\ list = input.entry.descriptors
    OBVIOUS
  <1>2. /\ input \in Inputs /\ Covers(s, Len(list)) /\ info \in Nat /\ info <= Total(s)
        /\ Total(s) \in Nat
    BY <1>1, BodyFacts
  <1>3. list \in Seq(Descriptor) /\ Len(list) \in Nat /\ Runs(list) /\ e.descriptors = list
    BY <1>1, <1>2, InputType, DescriptorRuns
  <1>4. k \in Nat /\ k < Total(list)
    <2>1. Total(s) = Total(list)
      BY <1>1, <1>2 DEF Covers, Total
    <2>2. k \in Nat /\ k < info
      BY <1>1, <1>2
    <2> QED BY <1>2, <2>1, <2>2
  <1>5. PICK j \in Homes(list, k) : TRUE
    BY <1>3, <1>4, HomeExists
  <1>6. j \in 1..Len(list)
    BY DEF Homes
  <1>7. PICK h : h = Held(list)[j - 1]
    OBVIOUS
  <1>8. Home(e, k) = j
    BY <1>3, <1>4, <1>5, HomeOfEntry
  <1>9. LogicalByte(e, k) = list[j].offset + k - h
    BY <1>3, <1>7, <1>8 DEF LogicalByte, Before
  <1>10. list[j].offset + k - h = list[j].offset + (k - h)
    <2>1. list[j] \in Descriptor
      BY <1>3, <1>6
    <2>2. h \in Nat
      <3>1. j - 1 \in 0..Len(list)
        BY <1>3, <1>6
      <3> QED BY <1>3, <1>7, <3>1, HeldOrder
    <2>3. list[j].offset \in Nat
      BY <2>1 DEF Descriptor
    <2> QED BY <1>4, <2>2, <2>3
  <1>11. LogicalWalk(k)[Len(list)]
            = [remaining |-> k - h, block |-> (list[j].offset + (k - h)) \div SectorBytes]
    <2>1. PICK l : l = Len(list)
      OBVIOUS
    <2>2. l \in 0..Len(list) /\ ~(l < j)
      BY <1>3, <1>6, <2>1
    <2>3. LogicalWalk(k)[l] =
                 IF l < j THEN [remaining |-> k - Held(list)[l], block |-> -1]
                 ELSE [remaining |-> k - h,
                       block |-> (list[j].offset + (k - h)) \div SectorBytes]
      <3>1. input \in Inputs /\ list = input.entry.descriptors /\ k \in Nat
        BY <1>1, <1>2, <1>4, Zenon
      <3>2. \A i \in 0..Len(list) : LogicalWalk(k)[i] =
                 IF i < j THEN [remaining |-> k - Held(list)[i], block |-> -1]
                 ELSE [remaining |-> k - h,
                       block |-> (list[j].offset + (k - h)) \div SectorBytes]
        BY <1>5, <1>7, <3>1, LogicalWalkHolds
      <3> QED BY <2>2, <3>2, Zenon
    <2> QED BY <2>1, <2>2, <2>3
  <1>12. LogicalWalk(k)[Len(list)].block = (list[j].offset + (k - h)) \div SectorBytes
    BY <1>11
  <1>13. BodyLogicalBlock(k) = LogicalWalk(k)[Len(list)].block
    BY <1>1 DEF BodyLogicalBlock
  <1>14. LogicalByte(e, k) = list[j].offset + (k - h)
    BY <1>9, <1>10
  <1> QED BY <1>1, <1>12, <1>13, <1>14, Zenon

-----------------------------------------------------------------------------
(***************************************************************************)
(* The theorems.                                                           *)
(***************************************************************************)
LEMMA OpenHolds ==
    ASSUME BodyInv, Open PROVE BodyInv'
  <1>1. /\ phase' = "returned" /\ result' = "a file"
        /\ UNCHANGED <<input, spaces, extents, next, bytes, asked>>
    BY DEF Open, Refuse
  <1>2. /\ result' # "ok" /\ result' # "outside source" /\ result' # "uncovered"
        /\ result' # "incomplete"
    BY <1>1, Zenon
  <1>3. /\ input' = input /\ phase' = "returned" /\ extents' = extents
        /\ next' = next /\ asked' = asked
    BY <1>1, Zenon
  <1>4. BodyIsExact' /\ RefusalJustified'
    BY <1>2, <1>3, NoVerdict, Zenon
  <1> QED BY <1>3, <1>4, Refused, Zenon

\* Every state of the parser, and of the streaming call after it, satisfies the
\* invariant, whatever the volume and the file entry.
THEOREM BodyHolds == FileSpec => []BodyInv
  <1>1. FileInit => BodyInv
    BY InitHolds DEF FileInit
  <1>2. BodyInv /\ [FileNext]_allVars => BodyInv'
    <2> SUFFICES ASSUME BodyInv, [FileNext]_allVars PROVE BodyInv'
      OBVIOUS
    <2>1. CASE Body
      <3>1. CASE PhysicalOnly
        BY <3>1, PhysicalOnlyHolds
      <3>2. CASE WithMetadata
        BY <3>2, WithMetadataHolds
      <3>3. CASE TranslateNext
        BY <3>3, TranslateNextHolds
      <3>4. CASE CheckCoverage
        BY <3>4, CheckCoverageHolds
      <3>5. CASE ReadExtent
        BY <3>5, ReadExtentHolds
      <3>6. CASE ZeroExtent
        BY <3>6, ZeroExtentHolds
      <3>7. CASE FinishBody
        BY <3>7, FinishBodyHolds
      <3>8. CASE Returned
        <4>1. UNCHANGED vars
          BY <3>8, Zenon DEF Returned
        <4> QED BY <4>1, Stays
      <3> QED BY <2>1, <3>1, <3>2, <3>3, <3>4, <3>5, <3>6, <3>7, <3>8, Zenon DEF Body, Next
    <2>2. CASE Open
      BY <2>2, OpenHolds
    <2>3. CASE Stream
      <3>1. UNCHANGED vars
        BY <2>3, Zenon DEF Stream
      <3> QED BY <3>1, Stays
    <2>4. CASE UNCHANGED allVars
      <3>1. UNCHANGED vars
        BY <2>4 DEF allVars
      <3> QED BY <3>1, Stays
    <2> QED BY <2>1, <2>2, <2>3, <2>4, Zenon DEF FileNext
  <1> QED BY <1>1, <1>2, PTL DEF FileSpec

\* read_udf_directory's body is the bytes its allocation descriptors name, byte by
\* byte, through the metadata file where the partition is one (read_body and
\* translate_extent).
THEOREM BodyExact == FileSpec => []BodyIsExact
  <1>1. BodyInv => BodyIsExact
    BY DEF BodyInv
  <1> QED BY <1>1, BodyHolds, PTL

\* Every read that read_body asks of the source stays inside the partition.
THEOREM ReadsStayInside == FileSpec => []ReadsInsidePartition
  <1>1. BodyInv => ReadsInsidePartition
    BY DEF BodyInv
  <1> QED BY <1>1, BodyHolds, PTL

\* The refusals that translate_extent and read_body repeat are unreachable, or come
\* from a descriptor without bytes.
THEOREM RefusalsJustified == FileSpec => []RefusalJustified
  <1>1. BodyInv => RefusalJustified
    BY DEF BodyInv
  <1> QED BY <1>1, BodyHolds, PTL

\* body_logical_block gives the block that each byte of the body lies in.
THEOREM TagBlocksRight == FileSpec => []TagBlockRight
  <1>1. BodyInv => TagBlockRight
    BY BlockHolds
  <1> QED BY <1>1, BodyHolds, PTL

-----------------------------------------------------------------------------
(***************************************************************************)
(* The file that is streamed.  The invariant of FileStreamProofs holds of  *)
(* the call from the moment it is made, for the entry that was translated. *)
(***************************************************************************)
FP ==
    INSTANCE FileStreamProofs WITH
        Calls <- FileCalls, phase <- stage, result <- outcome, asked <- wanted

\* What the theorems of FileStreamProofs assume of the calls and the chunk.
LEMMA CallsFit ==
    /\ ChunkBytes \in Nat \ {0}
    /\ \A c \in FileCalls :
          /\ c \in FP!Call
          /\ c.entry.format = "iso" =>
                 /\ Len(c.entry.extents) = 1
                 /\ c.entry.extents[1].length = c.entry.length
                 /\ c.entry.extents[1].recorded
  BY LaterAssumption DEF FileCalls, FP!Call, FP!FileEntry, FP!Piece

LEMMA SameStep == ASSUME [File!Next]_(File!vars) PROVE [FP!Next]_(FP!vars)
  BY DEF File!Next, File!vars, File!Refuse, File!Open, File!NextExtent, File!Cancel,
         File!ChunkOutsideSource, File!ReadChunk, File!ZeroChunk, File!WriteChunk,
         File!WriteFails, File!Finish, File!Returned, File!Refused, File!Return,
         File!Streaming, File!ExtentDone, File!Polling, File!InSource, File!Advance,
         File!Covered, File!Extent, File!Logical, File!Wanted, File!Offset, File!Least,
         File!entry,
         FP!Next, FP!vars, FP!Refuse, FP!Open, FP!NextExtent, FP!Cancel,
         FP!ChunkOutsideSource, FP!ReadChunk, FP!ZeroChunk, FP!WriteChunk,
         FP!WriteFails, FP!Finish, FP!Returned, FP!Refused, FP!Return,
         FP!Streaming, FP!ExtentDone, FP!Polling, FP!InSource, FP!Advance,
         FP!Covered, FP!Extent, FP!Logical, FP!Wanted, FP!Offset, FP!Least, FP!entry

\* The pieces hold the file's bytes.
Holds(pieces) ==
    \A k \in 1..input.entry.information_length :
        ByteIn(pieces, k - 1) = ByteOf(input.entry, k - 1)

\* The streaming call that has not been made has the values it will start with.
Unopened ==
    /\ current = 1 /\ extent_completed = 0 /\ completed = 0 /\ block = <<>>
    /\ sink = <<>> /\ outcome = "none" /\ wanted = [offset |-> 0, length |-> 0]

Streamed ==
    /\ phase = "returned"
    /\ call.entry = UdfEntry
    /\ Total(extents) >= input.entry.information_length
    /\ Holds(extents)
    /\ FP!Inv /\ FP!Copied /\ FP!Ended /\ FP!Whole

FileInv == BodyInv /\ (IF stage = "uncatalogued" THEN Unopened ELSE Streamed)

LEMMA HoldsNext ==
    ASSUME UNCHANGED vars, Holds(extents), Total(extents) >= input.entry.information_length
    PROVE  /\ Holds(extents)'
           /\ (Total(extents) >= input.entry.information_length)'
           /\ UdfEntry' = UdfEntry /\ phase' = phase
  <1>1. input' = input /\ extents' = extents /\ phase' = phase
    BY DEF vars
  <1> QED BY <1>1 DEF Holds, ByteOf, LogicalByte, PhysicalByte, UdfEntry, Catalogued

\* The call that Open makes is one that FileStreamProofs speaks of.
LEMMA OpenStreams ==
    ASSUME BodyInv, Unopened, Open
    PROVE  FP!Init' /\ call'.entry = UdfEntry /\ UdfEntry' = UdfEntry
  <1>1. PICK fewer \in LaterBytes :
           /\ fewer <= input.total_bytes
           /\ call' = [entry |-> UdfEntry,
                       source_bytes |-> input.total_bytes - fewer,
                       max_output_bytes |-> input.entry.information_length]
    BY DEF Open
  <1>2. input.total_bytes - fewer \in Nat
    <2>1. PICK t : t = input.total_bytes
      OBVIOUS
    <2>2. t \in Nat /\ fewer \in Nat /\ fewer <= t
      BY <1>1, <2>1, InputType, LaterAssumption DEF BodyInv
    <2> QED BY <2>1, <2>2
  <1>3. input.entry.information_length \in Nat
    BY InputType DEF BodyInv, FileEntry
  <1>4. extents \in Seq([offset : Nat, length : Nat, recorded : BOOLEAN])
    BY DEF BodyInv, Fits, Placed, Pieces
  <1>5. UdfEntry \in [format : {"udf"}, directory : {FALSE}, multi_extent : {FALSE},
                      length : Nat,
                      extents : Seq([offset : Nat, length : Nat, recorded : BOOLEAN])]
    BY <1>3, <1>4 DEF UdfEntry, Catalogued
  <1>6. call' \in FileCalls
    BY <1>1, <1>2, <1>3, <1>5 DEF FileCalls
  <1>7. /\ stage' = "open"
        /\ UNCHANGED <<current, extent_completed, completed, block, sink, outcome, wanted>>
        /\ UNCHANGED <<input, extents>>
    BY DEF Open
  <1>8. FP!Init'
    BY <1>6, <1>7 DEF FP!Init, Unopened
  <1>9. UdfEntry' = UdfEntry
    BY <1>7 DEF UdfEntry, Catalogued
  <1> QED BY <1>1, <1>8, <1>9

LEMMA StreamStarts == FP!Init' => (FP!Inv /\ FP!Copied /\ FP!Ended /\ FP!Whole)'
  <1>1. FP!Init => FP!Inv /\ FP!Copied /\ FP!Ended /\ FP!Whole
    BY CallsFit, FP!InitInv, FP!InitCopied DEF FP!Init, FP!Ended, FP!Whole
  <1> QED BY <1>1, PTL

\* What Open finds of the body is what the file's bytes are.
LEMMA OpenHoldsBytes ==
    ASSUME BodyInv, Open
    PROVE  Holds(extents)' /\ (Total(extents) >= input.entry.information_length)'
  <1>1. phase = "body" /\ input' = input /\ extents' = extents
    BY DEF Open
  <1>2. /\ Covers(extents, Len(input.entry.descriptors))
        /\ input.entry.information_length <= Total(extents)
        /\ Placed(extents) /\ input \in Inputs
    BY <1>1 DEF BodyInv, Fits
  <1>3. input.entry.information_length \in Nat /\ Total(extents) \in Nat
    BY <1>2, InputType, TotalType DEF FileEntry, Placed
  <1>4. Holds(extents)
    <2> SUFFICES ASSUME NEW k \in 1..input.entry.information_length
                 PROVE  ByteIn(extents, k - 1) = ByteOf(input.entry, k - 1)
      BY DEF Holds
    <2>1. PICK n, t : n = input.entry.information_length /\ t = Total(extents)
      OBVIOUS
    <2>2. n \in Nat /\ t \in Nat /\ n <= t /\ k \in 1..n
      BY <1>2, <1>3, <2>1
    <2>3. k - 1 \in Nat /\ k - 1 < t
      BY <2>2
    <2> QED BY <1>2, <2>1, <2>3 DEF Covers
  <1>5. Holds(extents)'
    BY <1>1, <1>4 DEF Holds, ByteOf, LogicalByte, PhysicalByte
  <1>6. (Total(extents) >= input.entry.information_length)'
    <2>1. PICK n, t : n = input.entry.information_length /\ t = Total(extents)
      OBVIOUS
    <2>2. t >= n
      BY <1>2, <1>3, <2>1
    <2> QED BY <1>1, <2>1, <2>2
  <1> QED BY <1>5, <1>6

\* FileStream's reference for a byte of a file and this module's are one.
LEMMA SameByte ==
    ASSUME NEW pieces \in Seq(Pieces), NEW k \in Nat \ {0}, k <= Total(pieces)
    PROVE  FP!ByteAt(pieces, k) = ByteIn(pieces, k - 1)
  <1>1. Runs(pieces)
    BY SequenceRuns DEF Pieces
  <1>2. Total(pieces) \in Nat
    BY TotalType
  <1>3. k - 1 \in Nat /\ k - 1 < Total(pieces)
    BY <1>2
  <1>4. PICK j : j \in Homes(pieces, k - 1)
    BY <1>1, <1>3, HomeExists
  <1>5. j \in 1..Len(pieces) /\ Held(pieces)[j - 1] <= k - 1 /\ k - 1 < Held(pieces)[j]
    BY <1>4 DEF Homes
  <1>6. ByteIn(pieces, k - 1)
           = IF pieces[j].recorded THEN pieces[j].offset + (k - 1 - Held(pieces)[j - 1]) + 1
             ELSE 0
    BY <1>1, <1>3, <1>5, ByteHere
  <1>7. FP!Held(pieces) = Held(pieces)
    BY DEF FP!Held, Held
  <1>8. pieces \in Seq(FP!Piece)
    BY DEF FP!Piece, Pieces
  <1>9. Held(pieces)[j - 1] \in Nat /\ Held(pieces)[j] \in Nat
    <2>1. j - 1 \in 0..Len(pieces) /\ j \in 0..Len(pieces)
      BY <1>5
    <2> QED BY <1>1, <2>1, HeldOrder
  <1>10. FP!Held(pieces)[j - 1] < k /\ k <= FP!Held(pieces)[j]
    BY <1>5, <1>7, <1>9
  <1>11. FP!ByteAt(pieces, k)
            = IF pieces[j].recorded THEN pieces[j].offset + (k - Held(pieces)[j - 1]) ELSE 0
    BY <1>5, <1>7, <1>8, <1>10, CallsFit, FP!HeldBy
  <1>12. pieces[j].offset \in Nat
    <2>1. pieces[j] \in Pieces
      BY <1>5
    <2> QED BY <2>1 DEF Pieces
  <1>13. pieces[j].offset + (k - 1 - Held(pieces)[j - 1]) + 1
            = pieces[j].offset + (k - Held(pieces)[j - 1])
    <2>1. PICK o, h : o = pieces[j].offset /\ h = Held(pieces)[j - 1]
      OBVIOUS
    <2>2. o \in Nat /\ h \in Nat
      BY <1>9, <1>12, <2>1
    <2>3. o + (k - 1 - h) + 1 = o + (k - h)
      BY <2>2
    <2> QED BY <2>1, <2>3
  <1> QED BY <1>6, <1>11, <1>13

\* What the invariant says is what the property asks.
LEMMA StreamedIsTheFile ==
    ASSUME BodyInv, Streamed
    PROVE  StreamIsTheFile
  <1>1. /\ FP!entry = UdfEntry /\ FP!entry.length = input.entry.information_length
        /\ FP!entry.extents = extents
    BY DEF Streamed, FP!entry, UdfEntry, Catalogued
  <1>2. FP!TypeOK /\ FP!Counted /\ FP!ReadsInsideSource /\ FP!Delivered /\ FP!Whole
    BY DEF Streamed, FP!Inv, FP!Copied
  <1>3. Len(sink) <= input.entry.information_length
    BY <1>1, <1>2 DEF FP!Delivered
  <1>4. \A k \in 1..Len(sink) : sink[k] = ByteOf(input.entry, k - 1)
    <2> SUFFICES ASSUME NEW k \in 1..Len(sink) PROVE sink[k] = ByteOf(input.entry, k - 1)
      OBVIOUS
    <2>1. PICK n, t, l : n = input.entry.information_length /\ t = Total(extents)
                         /\ l = Len(sink)
      OBVIOUS
    <2>2. n \in Nat /\ t \in Nat /\ t >= n /\ l <= n /\ l \in Nat /\ extents \in Seq(Pieces)
      <3>1. n \in Nat /\ extents \in Seq(Pieces)
        BY <2>1, InputType DEF BodyInv, FileEntry, Fits, Placed
      <3>2. t \in Nat
        BY <2>1, <3>1, TotalType
      <3>3. l \in Nat
        BY <1>2, <2>1 DEF FP!TypeOK
      <3> QED BY <1>3, <2>1, <3>1, <3>2, <3>3 DEF Streamed
    <2>3. k \in Nat \ {0} /\ k <= t /\ k \in 1..n
      BY <2>1, <2>2
    <2>4. sink[k] = FP!FileContent[k]
      BY <1>2 DEF FP!Delivered
    <2>5. FP!FileContent[k] = FP!ByteAt(extents, k)
      BY <1>1, <2>1, <2>3 DEF FP!FileContent
    <2>6. FP!ByteAt(extents, k) = ByteIn(extents, k - 1)
      BY <2>1, <2>2, <2>3, SameByte
    <2>7. ByteIn(extents, k - 1) = ByteOf(input.entry, k - 1)
      BY <2>1, <2>3 DEF Streamed, Holds
    <2> QED BY <2>4, <2>5, <2>6, <2>7
  <1>5. outcome = "ok" => Len(sink) = input.entry.information_length
    BY <1>1, <1>2, Zenon DEF FP!Counted, FP!Whole
  <1>6. wanted.offset + wanted.length <= call.source_bytes
    BY <1>2 DEF FP!ReadsInsideSource
  <1> QED BY <1>3, <1>4, <1>5, <1>6 DEF StreamIsTheFile

\* The bytes that read_udf_file gives the caller's writer are those the file's
\* allocation descriptors name, in order, whatever the volume, however the call ends
\* and however much of the source is left by then.
THEOREM StreamedBytesRight == FileSpec => []StreamIsTheFile
  <1>1. FileInit => FileInv
    BY InitHolds DEF FileInit, FileInv, Unopened
  <1>2. FileInv /\ BodyInv' /\ [FileNext]_allVars => FileInv'
    <2> SUFFICES ASSUME FileInv, BodyInv', [FileNext]_allVars PROVE FileInv'
      OBVIOUS
    <2>1. CASE Open
      <3>1. stage = "uncatalogued" /\ Unopened /\ BodyInv
        BY <2>1, Zenon DEF Open, FileInv
      <3>2. FP!Init' /\ call'.entry = UdfEntry'
        BY <2>1, <3>1, OpenStreams
      <3>3. (FP!Inv /\ FP!Copied /\ FP!Ended /\ FP!Whole)'
        BY <3>2, StreamStarts
      <3>4. stage' # "uncatalogued" /\ phase' = "returned"
        BY <2>1 DEF Open, Refuse
      <3>5. Streamed'
        BY <2>1, <3>1, <3>2, <3>3, <3>4, OpenHoldsBytes DEF Streamed
      <3> QED BY <3>4, <3>5 DEF FileInv
    <2>2. CASE Stream \/ UNCHANGED allVars \/ (Body /\ UNCHANGED vars)
      <3>1. CASE stage = "uncatalogued"
        <4>1. UNCHANGED stream
          BY <2>2, <3>1 DEF Stream, allVars, Body
        <4> QED BY <3>1, <4>1 DEF FileInv, Unopened, stream
      <3>2. CASE stage # "uncatalogued"
        <4>1. UNCHANGED vars /\ [File!Next]_(File!vars)
          BY <2>2 DEF Stream, allVars, Body, stream, File!vars
        <4>2. [FP!Next]_(FP!vars)
          BY <4>1, SameStep
        <4>3. BodyInv /\ Streamed
          BY <3>2 DEF FileInv
        <4>4. FP!Inv'
          BY <4>2, <4>3, CallsFit, FP!InvStep DEF Streamed
        <4>5. (FP!Copied /\ FP!Ended /\ FP!Whole)'
          BY <4>2, <4>3, <4>4, CallsFit, FP!CopiedStep, FP!EndedStep, FP!WholeStep DEF Streamed
        <4>6. call' = call
          BY <4>2, CallsFit, FP!CallFixed
        <4>7. Streamed'
          BY <4>1, <4>3, <4>4, <4>5, <4>6, HoldsNext DEF Streamed
        <4>8. stage' # "uncatalogued"
          BY <3>2, <4>2
          DEF FP!Next, FP!vars, FP!Refuse, FP!Open, FP!NextExtent, FP!Cancel,
              FP!ChunkOutsideSource, FP!ReadChunk, FP!ZeroChunk, FP!WriteChunk,
              FP!WriteFails, FP!Finish, FP!Returned, FP!Return
        <4> QED BY <4>7, <4>8 DEF FileInv
      <3> QED BY <3>1, <3>2
    <2>3. CASE Body /\ ~(UNCHANGED vars)
      <3>1. UNCHANGED stream
        BY <2>3 DEF Body
      <3>2. phase # "returned"
        BY <2>3 DEF Body, Next, PhysicalOnly, WithMetadata, TranslateNext, CheckCoverage,
                    ReadExtent, ZeroExtent, FinishBody, Returned
      <3>3. stage = "uncatalogued"
        BY <3>2 DEF FileInv, Streamed
      <3> QED BY <3>1, <3>3 DEF FileInv, Unopened, stream
    <2> QED BY <2>1, <2>2, <2>3 DEF FileNext
  <1>3. FileInv => StreamIsTheFile
    BY StreamedIsTheFile DEF FileInv, StreamIsTheFile
  <1> QED BY <1>1, <1>2, <1>3, BodyHolds, PTL DEF FileSpec
=============================================================================
