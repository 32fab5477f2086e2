--------------------------- MODULE Monitor_proofs ---------------------------
(***************************************************************************)
(* The pool's lists, and what breakpoints and watchpoints do to the guest, *)
(* for a pool of any size, any guest and any user.                         *)
(***************************************************************************)
EXTENDS Monitor, SequenceTheorems, FiniteSetTheorems, WellFoundedInduction, TLAPS

-----------------------------------------------------------------------------
(* Lists.                                                                  *)

\* What holds of a record's list: it starts at first, follows the links and
\* ends with a record that links to nothing.
IsList(links, first, t) ==
  /\ t \in Seq(Numbers)
  /\ first = IF Len(t) = 0 THEN NULL ELSE t[1]
  /\ \A i \in 1 .. Len(t) : links[t[i]] = IF i = Len(t) THEN NULL ELSE t[i + 1]

\* A set of natural numbers has a least element.
LEMMA Least ==
  ASSUME NEW T \in SUBSET Nat, T # {}
  PROVE  \E m \in T : \A k \in T : m <= k
<1> DEFINE R == {ss \in Nat \X Nat : ss[1] < ss[2]}
<1>1. OpToRel(<, Nat) = R
  BY Zenon DEF OpToRel
<1>2. IsWellFoundedOn(R, Nat)
  BY <1>1, NatLessThanWellFounded
<1>3. \A m, k \in Nat : ~(<<k, m>> \in R) => m <= k
  OBVIOUS
<1> HIDE DEF R
<1>4. PICK m \in T : \A k \in T : ~(<<k, m>> \in R)
  BY <1>2, WFMin
<1>5. \A k \in T : m <= k
  BY <1>3, <1>4, Zenon
<1>6. QED
  BY <1>5

\* One row of the table Along is computed from: the records k or fewer steps on.
Row(links, f, k) ==
  [p \in Pointers |-> IF k = 0 \/ p = NULL THEN <<>> ELSE <<p>> \o f[k - 1][links[p]]]
IsTable(links, f, N) == f = [k \in 0 .. N |-> Row(links, f, k)]

\* The recursion of Along has a solution.
LEMMA TableExists ==
  ASSUME NEW links, NEW N \in Nat
  PROVE  \E f : IsTable(links, f, N)
<1> DEFINE Bad == {m \in Nat : ~\E f : IsTable(links, f, m)}
<1> SUFFICES ASSUME Bad # {}
             PROVE  FALSE
  OBVIOUS
<1>1. PICK m \in Bad : \A k \in Bad : m <= k
  <2>1. Bad \in SUBSET Nat
    OBVIOUS
  <2> HIDE DEF Bad
  <2>2. QED
    BY <2>1, Least
<1>2. CASE m = 0
  <2> DEFINE f == [k \in 0 .. 0 |-> [p \in Pointers |-> <<>>]]
  <2>1. IsTable(links, f, 0)
    BY DEF IsTable, Row
  <2>2. QED
    BY <1>1, <1>2, <2>1
<1>3. CASE m # 0
  <2>1. m - 1 \in Nat /\ ~(m <= m - 1)
    BY <1>1, <1>3
  <2>2. PICK g : IsTable(links, g, m - 1)
    BY <1>1, <2>1
  <2> DEFINE f == [k \in 0 .. m |-> Row(links, g, k)]
  <2>3. \A k \in 0 .. m - 1 : f[k] = g[k]
    BY <2>1, <2>2 DEF IsTable
  <2> HIDE DEF f
  <2>4. ASSUME NEW k \in 0 .. m
        PROVE  Row(links, f, k) = Row(links, g, k)
    <3>1. k = 0 \/ k - 1 \in 0 .. m - 1
      BY <2>1
    <3>2. k = 0 \/ f[k - 1] = g[k - 1]
      BY <2>3, <3>1
    <3>3. QED
      BY <3>2, Zenon DEF Row
  <2>5. f = [k \in 0 .. m |-> Row(links, g, k)]
    BY DEF f
  <2>6. IsTable(links, f, m)
    BY <2>4, <2>5, Zenon DEF IsTable
  <2>7. QED
    BY <1>1, <2>6
<1>4. QED
  BY <1>2, <1>3

\* Walking along a list finds its records in order, if the walk is long enough.
LEMMA TableWalks ==
  ASSUME NEW links, NEW N \in Nat, NEW f, IsTable(links, f, N), NEW k \in 0 .. N,
         NEW first, NEW t, IsList(links, first, t), Len(t) <= k
  PROVE  f[k][first] = t
<1> DEFINE Bad == {j \in 0 .. N : \E q, u : IsList(links, q, u) /\ Len(u) <= j /\ f[j][q] # u}
<1> SUFFICES ASSUME Bad # {}
             PROVE  FALSE
  OBVIOUS
<1>1. PICK m \in Bad : \A j \in Bad : m <= j
  <2>1. Bad \in SUBSET Nat
    OBVIOUS
  <2> HIDE DEF Bad
  <2>2. QED
    BY <2>1, Least
<1>2. PICK q, u : IsList(links, q, u) /\ Len(u) <= m /\ f[m][q] # u
  BY <1>1
<1>3. m \in 0 .. N /\ f[m] = Row(links, f, m)
  BY <1>1 DEF IsTable
<1>4. u \in Seq(Numbers) /\ Len(u) \in Nat
  BY <1>2 DEF IsList
<1>5. CASE Len(u) = 0
  <2>1. q = NULL /\ u = <<>>
    BY <1>2, <1>4, <1>5 DEF IsList
  <2>2. f[m][q] = <<>>
    BY <1>3, <2>1 DEF Row, Pointers
  <2>3. QED
    BY <1>2, <2>1, <2>2
<1>6. CASE Len(u) # 0
  <2>1. q = u[1] /\ q \in Numbers /\ m # 0 /\ m - 1 \in 0 .. N /\ ~(m <= m - 1)
    BY <1>2, <1>3, <1>4, <1>6 DEF IsList
  <2>2. q # NULL /\ q \in Pointers
    BY <2>1, PoolAssumption DEF Pointers, Numbers
  <2>3. f[m][q] = <<q>> \o f[m - 1][links[q]]
    BY <1>3, <2>1, <2>2 DEF Row
  <2> DEFINE v == Tail(u)
  <2>4. v \in Seq(Numbers) /\ Len(v) = Len(u) - 1 /\ \A i \in 1 .. Len(v) : v[i] = u[i + 1]
    BY <1>4, <1>6
  <2>5. IsList(links, links[q], v)
    <3>1. links[q] = IF Len(u) = 1 THEN NULL ELSE u[2]
      <4>1. 1 \in 1 .. Len(u)
        BY <1>4, <1>6
      <4>2. links[u[1]] = IF 1 = Len(u) THEN NULL ELSE u[1 + 1]
        BY <1>2, <4>1 DEF IsList
      <4>3. QED
        BY <2>1, <4>2
    <3>2. links[q] = IF Len(v) = 0 THEN NULL ELSE v[1]
      BY <1>4, <1>6, <2>4, <3>1
    <3>3. ASSUME NEW i \in 1 .. Len(v)
          PROVE  links[v[i]] = IF i = Len(v) THEN NULL ELSE v[i + 1]
      <4>1. i + 1 \in 1 .. Len(u) /\ v[i] = u[i + 1] /\ (i + 1 = Len(u) <=> i = Len(v))
        BY <1>4, <1>6, <2>4
      <4>2. links[u[i + 1]] = IF i + 1 = Len(u) THEN NULL ELSE u[i + 1 + 1]
        BY <1>2, <4>1 DEF IsList
      <4>3. i # Len(v) => i + 1 \in 1 .. Len(v)
        <5> HIDE DEF v
        <5>1. Len(v) \in Nat
          BY <2>4
        <5>2. QED
          BY <5>1
      <4>4. i # Len(v) => v[i + 1] = u[i + 1 + 1]
        BY <2>4, <4>3
      <4>5. QED
        BY <4>1, <4>2, <4>4
    <3> HIDE DEF v
    <3>4. QED
      BY <2>4, <3>2, <3>3 DEF IsList
  <2>6. u = <<q>> \o v
    BY <1>4, <1>6, <2>1
  <2> HIDE DEF v
  <2>7. f[m - 1][links[q]] = v
    <3>1. m - 1 \notin Bad
      BY <1>1, <2>1
    <3>2. Len(v) <= m - 1
      BY <1>2, <1>3, <1>4, <2>4
    <3>3. QED
      BY <2>1, <2>5, <3>1, <3>2
  <2>8. QED
    BY <1>2, <2>3, <2>6, <2>7
<1>7. QED
  BY <1>5, <1>6

\* A list without repetition is no longer than the pool, so the walk finds it.
LEMMA ListFits ==
  ASSUME NEW t \in Seq(Numbers), IsInjective(t)
  PROVE  Len(t) <= NR_BP
<1>1. NR_BP \in Nat /\ NR_BP > 0 /\ Len(t) \in Nat
  BY PoolAssumption
<1>2. t \in Injection(1 .. Len(t), Numbers)
  BY DEF IsInjective, Injection
<1>3. IsFiniteSet(Numbers) /\ Cardinality(Numbers) = NR_BP
  BY <1>1, FS_Interval DEF Numbers
<1>4. Cardinality(1 .. Len(t)) <= NR_BP
  BY <1>2, <1>3, FS_Injection
<1>5. Cardinality(1 .. Len(t)) = IF 1 > Len(t) THEN 0 ELSE Len(t) - 1 + 1
  BY <1>1, FS_Interval
<1>6. QED
  BY <1>1, <1>4, <1>5

LEMMA WalkFinds ==
  ASSUME NEW links, NEW first, NEW t, IsList(links, first, t), IsInjective(t)
  PROVE  Along(links, first) = t
<1> DEFINE N == NR_BP + 1
           F == CHOOSE f : IsTable(links, f, N)
<1>1. N \in Nat
  BY PoolAssumption
<1>2. IsTable(links, F, N)
  BY <1>1, TableExists
<1>3. Along(links, first) = F[N][first]
  BY DEF Along, IsTable, Row
<1>4. t \in Seq(Numbers) /\ Len(t) <= N
  <2>1. t \in Seq(Numbers)
    BY DEF IsList
  <2>2. Len(t) \in Nat /\ NR_BP \in Nat
    BY <2>1, PoolAssumption
  <2>3. QED
    BY <2>1, <2>2, ListFits
<1> HIDE DEF F, N
<1>5. N \in 0 .. N
  BY <1>1
<1>6. QED
  BY <1>1, <1>2, <1>3, <1>4, <1>5, TableWalks

-----------------------------------------------------------------------------
(* The pool: its two lists share no record, whatever is done to them.      *)

Lists(links, h, f, l, s) ==
  /\ links \in [Numbers -> Pointers]
  /\ IsList(links, h, l) /\ IsList(links, f, s)
  /\ IsInjective(l) /\ IsInjective(s)
  /\ \A i \in 1 .. Len(l), j \in 1 .. Len(s) : l[i] # s[j]

LEMMA NullIsNoNumber == NULL \notin Numbers /\ NULL \in Pointers /\ Numbers \subseteq Pointers
BY PoolAssumption DEF Numbers, Pointers

\* Putting a record in front of a list.
LEMMA InFront ==
  ASSUME NEW l \in Seq(Numbers), NEW f \in Numbers
  PROVE  /\ <<f>> \o l \in Seq(Numbers)
         /\ Len(<<f>> \o l) = Len(l) + 1
         /\ (<<f>> \o l)[1] = f
         /\ \A i \in 1 .. Len(l) : (<<f>> \o l)[i + 1] = l[i]
OBVIOUS

LEMMA InFrontInjective ==
  ASSUME NEW l \in Seq(Numbers), NEW f \in Numbers, IsInjective(l),
         \A i \in 1 .. Len(l) : l[i] # f
  PROVE  IsInjective(<<f>> \o l)
<1> DEFINE m == <<f>> \o l
<1>1. /\ m \in Seq(Numbers) /\ Len(m) = Len(l) + 1 /\ Len(l) \in Nat
      /\ m[1] = f /\ \A i \in 1 .. Len(l) : m[i + 1] = l[i]
  BY InFront
<1> HIDE DEF m
<1>2. ASSUME NEW i \in 1 .. Len(m), i # 1
      PROVE  i - 1 \in 1 .. Len(l) /\ m[i] = l[i - 1]
  <2>1. i - 1 \in 1 .. Len(l) /\ i = i - 1 + 1
    BY <1>1, <1>2
  <2>2. m[i - 1 + 1] = l[i - 1]
    BY <1>1, <2>1
  <2>3. QED
    BY <2>1, <2>2
<1>3. ASSUME NEW i \in 1 .. Len(m), NEW j \in 1 .. Len(m), m[i] = m[j]
      PROVE  i = j
  <2>1. CASE i = 1 \/ j = 1
    BY <1>1, <1>2, <1>3, <2>1
  <2>2. CASE i # 1 /\ j # 1
    <3>1. i - 1 = j - 1
      BY <1>1, <1>2, <1>3, <2>2 DEF IsInjective
    <3>2. QED
      BY <3>1
  <2>3. QED
    BY <2>1, <2>2
<1>4. QED
  <2>1. DOMAIN m = 1 .. Len(m)
    BY <1>1
  <2>2. IsInjective(m)
    BY <1>3, <2>1 DEF IsInjective
  <2>3. QED
    BY <2>2 DEF m

\* Links that agree on a list's records have the same list.
LEMMA Relinked ==
  ASSUME NEW links, NEW more, NEW h, NEW l, IsList(links, h, l),
         \A i \in 1 .. Len(l) : more[l[i]] = links[l[i]]
  PROVE  IsList(more, h, l)
BY DEF IsList

\* PushNew moves a record from the front of one list to the front of the other.
LEMMA PushLists ==
  ASSUME NEW links, NEW h, NEW f, NEW l, NEW s, Lists(links, h, f, l, s), f # NULL
  PROVE  /\ f \in Numbers /\ s # <<>> /\ f = Head(s)
         /\ Lists([links EXCEPT ![f] = h], f, links[f], <<f>> \o l, Tail(s))
<1> DEFINE more == [links EXCEPT ![f] = h]
           m == <<f>> \o l
           t == Tail(s)
<1>1. l \in Seq(Numbers) /\ s \in Seq(Numbers) /\ Len(l) \in Nat /\ Len(s) \in Nat
  BY DEF Lists, IsList
<1>2. Len(s) # 0 /\ f = s[1] /\ f \in Numbers /\ 1 \in 1 .. Len(s)
  BY <1>1 DEF Lists, IsList
<1>3. /\ m \in Seq(Numbers) /\ Len(m) = Len(l) + 1 /\ m[1] = f
      /\ \A i \in 1 .. Len(l) : m[i + 1] = l[i]
  BY <1>1, <1>2, InFront
<1>4. t \in Seq(Numbers) /\ Len(t) = Len(s) - 1 /\ \A i \in 1 .. Len(t) : t[i] = s[i + 1]
  BY <1>1, <1>2
<1>5. \A i \in 1 .. Len(l) : l[i] # f
  BY <1>2 DEF Lists
<1>6. \A i \in 1 .. Len(t) : i + 1 \in 1 .. Len(s) /\ i + 1 # 1
  <2> HIDE DEF t
  <2>1. QED
    BY <1>1, <1>4
<1>7. \A i \in 1 .. Len(t) : t[i] # f
  BY <1>2, <1>4, <1>6 DEF Lists, IsInjective
<1>8. h \in Pointers
  <2>1. Len(l) # 0 => l[1] \in Numbers
    BY <1>1
  <2>2. QED
    BY <2>1, NullIsNoNumber DEF Lists, IsList
<1>9. more \in [Numbers -> Pointers] /\ more[f] = h /\ \A q \in Numbers \ {f} : more[q] = links[q]
  BY <1>2, <1>8 DEF Lists
<1> HIDE DEF more, m, t
<1>10. IsList(more, f, m)
  <2>1. \A i \in 1 .. Len(l) : more[l[i]] = IF i = Len(l) THEN NULL ELSE l[i + 1]
    <3>1. \A i \in 1 .. Len(l) : l[i] \in Numbers
      BY <1>1
    <3>2. QED
      BY <1>5, <1>9, <3>1 DEF Lists, IsList
  <2>2. h = IF Len(l) = 0 THEN NULL ELSE l[1]
    BY DEF Lists, IsList
  <2>3. ASSUME NEW i \in 1 .. Len(m)
        PROVE  more[m[i]] = IF i = Len(m) THEN NULL ELSE m[i + 1]
    <3>1. CASE i = 1
      <4>1. more[m[i]] = IF Len(l) = 0 THEN NULL ELSE l[1]
        BY <1>3, <1>9, <2>2, <3>1
      <4>2. Len(l) # 0 => 1 \in 1 .. Len(l) /\ m[1 + 1] = l[1]
        BY <1>1, <1>3
      <4>3. QED
        BY <1>1, <1>3, <3>1, <4>1, <4>2
    <3>2. CASE i # 1
      <4>1. i - 1 \in 1 .. Len(l) /\ i - 1 + 1 = i /\ (i - 1 = Len(l) <=> i = Len(m))
        BY <1>1, <1>3, <3>2
      <4>2. m[i] = l[i - 1] /\ more[m[i]] = IF i - 1 = Len(l) THEN NULL ELSE l[i - 1 + 1]
        <5>1. m[i - 1 + 1] = l[i - 1]
          BY <1>3, <4>1
        <5>2. QED
          BY <2>1, <4>1, <5>1
      <4>3. i - 1 # Len(l) => i \in 1 .. Len(l)
        BY <1>1, <4>1
      <4>4. i - 1 # Len(l) => m[i + 1] = l[i]
        BY <1>3, <4>3
      <4>5. QED
        BY <4>1, <4>2, <4>4
    <3>3. QED
      BY <3>1, <3>2
  <2>4. Len(m) # 0
    BY <1>1, <1>3
  <2>5. QED
    BY <1>3, <2>3, <2>4 DEF IsList
<1>11. IsList(more, links[f], t)
  <2>1. links[f] = IF Len(t) = 0 THEN NULL ELSE t[1]
    <3>1. links[s[1]] = IF 1 = Len(s) THEN NULL ELSE s[1 + 1]
      BY <1>2 DEF Lists, IsList
    <3>2. Len(t) # 0 => 1 \in 1 .. Len(t)
      BY <1>1, <1>4
    <3>3. Len(t) # 0 => t[1] = s[1 + 1]
      BY <1>4, <3>2
    <3>4. 1 = Len(s) <=> Len(t) = 0
      BY <1>1, <1>4
    <3>5. QED
      BY <1>2, <3>1, <3>3, <3>4
  <2>2. ASSUME NEW i \in 1 .. Len(t)
        PROVE  more[t[i]] = IF i = Len(t) THEN NULL ELSE t[i + 1]
    <3>1. more[t[i]] = links[s[i + 1]]
      <4>1. t[i] \in Numbers \ {f}
        BY <1>4, <1>7
      <4>2. QED
        BY <1>4, <1>9, <4>1
    <3>2. links[s[i + 1]] = IF i + 1 = Len(s) THEN NULL ELSE s[i + 1 + 1]
      BY <1>6 DEF Lists, IsList
    <3>3. i + 1 = Len(s) <=> i = Len(t)
      BY <1>1, <1>4
    <3>4. i # Len(t) => i + 1 \in 1 .. Len(t)
      BY <1>1, <1>4
    <3>5. i # Len(t) => t[i + 1] = s[i + 1 + 1]
      BY <1>4, <3>4
    <3>6. QED
      BY <3>1, <3>2, <3>3, <3>5
  <2>3. QED
    BY <1>4, <2>1, <2>2 DEF IsList
<1>12. IsInjective(m)
  BY <1>1, <1>2, <1>5, InFrontInjective DEF Lists, m
<1>13. IsInjective(t)
  <2>1. ASSUME NEW i \in 1 .. Len(t), NEW j \in 1 .. Len(t), t[i] = t[j]
        PROVE  i = j
    <3>1. s[i + 1] = s[j + 1]
      BY <1>4, <2>1
    <3>2. i + 1 = j + 1
      BY <1>1, <1>6, <3>1 DEF Lists, IsInjective
    <3>3. QED
      BY <3>2
  <2>2. DOMAIN t = 1 .. Len(t)
    BY <1>4
  <2>3. QED
    BY <2>1, <2>2 DEF IsInjective
<1>14. ASSUME NEW i \in 1 .. Len(m), NEW j \in 1 .. Len(t)
       PROVE  m[i] # t[j]
  <2>1. CASE i = 1
    BY <1>3, <1>7, <2>1
  <2>2. CASE i # 1
    <3>1. i - 1 \in 1 .. Len(l) /\ i - 1 + 1 = i
      BY <1>1, <1>3, <2>2
    <3>2. m[i - 1 + 1] = l[i - 1]
      BY <1>3, <3>1
    <3>3. QED
      BY <1>4, <1>6, <3>1, <3>2 DEF Lists
  <2>3. QED
    BY <2>1, <2>2
<1>15. s # <<>> /\ f = Head(s)
  BY <1>1, <1>2
<1>16. QED
  BY <1>2, <1>9, <1>10, <1>11, <1>12, <1>13, <1>14, <1>15 DEF Lists, more, m, t

LEMMA Appended ==
  ASSUME NEW a \in Seq(Numbers), NEW b \in Seq(Numbers)
  PROVE  /\ a \o b \in Seq(Numbers)
         /\ Len(a \o b) = Len(a) + Len(b)
         /\ \A i \in 1 .. Len(a) : (a \o b)[i] = a[i]
         /\ \A i \in 1 .. Len(b) : (a \o b)[Len(a) + i] = b[i]
OBVIOUS

\* Removing a record from a list closes the gap.
LEMMA Removed ==
  ASSUME NEW l \in Seq(Numbers), NEW i \in 1 .. Len(l)
  PROVE  /\ RemoveAt(l, i) \in Seq(Numbers)
         /\ Len(RemoveAt(l, i)) = Len(l) - 1
         /\ \A j \in 1 .. Len(l) - 1 : RemoveAt(l, i)[j] = IF j < i THEN l[j] ELSE l[j + 1]
<1> DEFINE a == SubSeq(l, 1, i - 1)
           b == SubSeq(l, i + 1, Len(l))
<1>1. Len(l) \in Nat /\ i \in Nat /\ i >= 1 /\ i <= Len(l)
  OBVIOUS
<1>2. a \in Seq(Numbers) /\ Len(a) = i - 1 /\ \A j \in 1 .. i - 1 : a[j] = l[j]
  BY <1>1
<1>3. b \in Seq(Numbers) /\ Len(b) = Len(l) - i /\ \A j \in 1 .. Len(l) - i : b[j] = l[i + j]
  BY <1>1
<1>4. RemoveAt(l, i) = a \o b
  BY DEF RemoveAt
<1> HIDE DEF a, b
<1>5. /\ a \o b \in Seq(Numbers) /\ Len(a \o b) = i - 1 + (Len(l) - i)
      /\ \A j \in 1 .. i - 1 : (a \o b)[j] = a[j]
      /\ \A j \in 1 .. Len(l) - i : (a \o b)[i - 1 + j] = b[j]
  <2>1. /\ a \o b \in Seq(Numbers) /\ Len(a \o b) = Len(a) + Len(b)
        /\ \A j \in 1 .. Len(a) : (a \o b)[j] = a[j]
        /\ \A j \in 1 .. Len(b) : (a \o b)[Len(a) + j] = b[j]
    BY <1>2, <1>3, Appended
  <2>2. QED
    BY <1>2, <1>3, <2>1, Zenon
<1>6. ASSUME NEW j \in 1 .. Len(l) - 1, j >= i
      PROVE  (a \o b)[j] = l[j + 1]
  <2> DEFINE k == j - (i - 1)
  <2>1. k \in 1 .. Len(l) - i /\ i - 1 + k = j /\ i + k = j + 1
    BY <1>1, <1>6
  <2> HIDE DEF k
  <2>2. QED
    BY <1>3, <1>5, <2>1
<1>7. ASSUME NEW j \in 1 .. Len(l) - 1, j < i
      PROVE  (a \o b)[j] = l[j]
  <2>1. j \in 1 .. i - 1
    BY <1>1, <1>7
  <2>2. QED
    BY <1>2, <1>5, <2>1
<1>8. QED
  <2>1. ASSUME NEW j \in 1 .. Len(l) - 1
        PROVE  (a \o b)[j] = IF j < i THEN l[j] ELSE l[j + 1]
    <3>1. j \in Int /\ i \in Int /\ (j < i \/ j >= i)
      BY <1>1
    <3>2. CASE j < i
      BY <1>7, <3>2
    <3>3. CASE j >= i
      <4>1. ~(j < i)
        BY <3>1, <3>3
      <4>2. QED
        BY <1>6, <3>3, <4>1, Zenon
    <3>4. QED
      BY <3>1, <3>2, <3>3
  <2>2. Len(a \o b) = Len(l) - 1
    BY <1>1, <1>5
  <2>3. QED
    BY <1>4, <1>5, <2>1, <2>2

\* A record of the first list put in front of the second one.
LEMMA MovedLists ==
  ASSUME NEW links, NEW more, NEW h, NEW f, NEW l, NEW s, Lists(links, h, f, l, s),
         NEW i \in 1 .. Len(l), more[l[i]] = f,
         \A j \in 1 .. Len(s) : more[s[j]] = links[s[j]]
  PROVE  IsList(more, l[i], <<l[i]>> \o s)
<1> DEFINE m == <<l[i]>> \o s
           no == l[i]
<1>1. l \in Seq(Numbers) /\ s \in Seq(Numbers) /\ Len(l) \in Nat /\ Len(s) \in Nat
  BY DEF Lists, IsList
<1>2. no \in Numbers
  BY <1>1
<1>3. /\ m \in Seq(Numbers) /\ Len(m) = Len(s) + 1 /\ m[1] = no
      /\ \A j \in 1 .. Len(s) : m[j + 1] = s[j]
  BY <1>1, <1>2, InFront
<1>4. IsList(more, f, s)
  BY DEF Lists, IsList
<1>5. more[no] = f
  OBVIOUS
<1> HIDE DEF m, no
<1>6. ASSUME NEW j \in 1 .. Len(m)
      PROVE  more[m[j]] = IF j = Len(m) THEN NULL ELSE m[j + 1]
  <2>1. CASE j = 1
    <3>1. more[m[j]] = IF Len(s) = 0 THEN NULL ELSE s[1]
      BY <1>3, <1>4, <1>5, <2>1 DEF IsList
    <3>2. Len(s) # 0 => 1 \in 1 .. Len(s) /\ m[1 + 1] = s[1]
      BY <1>1, <1>3
    <3>3. QED
      BY <1>1, <1>3, <2>1, <3>1, <3>2
  <2>2. CASE j # 1
    <3>1. j - 1 \in 1 .. Len(s) /\ j - 1 + 1 = j /\ (j - 1 = Len(s) <=> j = Len(m))
      BY <1>1, <1>3, <2>2
    <3>2. m[j] = s[j - 1]
      <4>1. m[j - 1 + 1] = s[j - 1]
        BY <1>3, <3>1
      <4>2. QED
        BY <3>1, <4>1
    <3>3. more[m[j]] = IF j - 1 = Len(s) THEN NULL ELSE s[j - 1 + 1]
      BY <1>4, <3>1, <3>2 DEF IsList
    <3>4. j - 1 # Len(s) => j \in 1 .. Len(s)
      BY <1>1, <3>1
    <3>5. j - 1 # Len(s) => m[j + 1] = s[j]
      BY <1>3, <3>4
    <3>6. QED
      BY <3>1, <3>3, <3>5
  <2>3. QED
    BY <2>1, <2>2
<1>7. Len(m) # 0
  BY <1>1, <1>3
<1>8. IsList(more, no, m)
  BY <1>3, <1>6, <1>7 DEF IsList
<1>9. QED
  BY <1>8 DEF m, no

\* The record before the i-th one of a list.
LEMMA Predecessor ==
  ASSUME NEW links, NEW h, NEW l, IsList(links, h, l), IsInjective(l), NEW i \in 1 .. Len(l)
  PROVE  {q \in Range(l) : links[q] = l[i]} = {l[j] : j \in 1 .. Len(l) \cap {i - 1}}
<1>1. l \in Seq(Numbers) /\ Len(l) \in Nat /\ DOMAIN l = 1 .. Len(l)
  BY DEF IsList
<1>2. l[i] # NULL
  BY <1>1, NullIsNoNumber
<1>3. ASSUME NEW j \in 1 .. Len(l)
      PROVE  links[l[j]] = l[i] <=> j = i - 1
  <2>1. links[l[j]] = IF j = Len(l) THEN NULL ELSE l[j + 1]
    BY DEF IsList
  <2>2. CASE j = Len(l)
    BY <1>1, <1>2, <2>1, <2>2
  <2>3. CASE j # Len(l)
    <3>1. j + 1 \in 1 .. Len(l) /\ (j + 1 = i <=> j = i - 1)
      <4>1. j \in Nat /\ i \in Nat /\ 1 <= j /\ j <= Len(l) /\ Len(l) \in Nat
        BY <1>1
      <4>2. QED
        BY <2>3, <4>1
    <3>2. l[j + 1] = l[i] <=> j + 1 = i
      BY <1>1, <3>1 DEF IsInjective
    <3>3. QED
      BY <2>1, <2>3, <3>1, <3>2
  <2>4. QED
    BY <2>2, <2>3
<1>4. QED
  BY <1>1, <1>3 DEF Range

\* Delete moves a record from anywhere in one list to the front of the other.
LEMMA DeleteLists ==
  ASSUME NEW links, NEW h, NEW f, NEW l, NEW s, Lists(links, h, f, l, s),
         NEW i \in 1 .. Len(l), NEW more, NEW prev, NEW no,
         no = l[i], prev = {q \in Range(l) : links[q] = no},
         more = [q \in Numbers |-> IF q = no THEN f ELSE IF q \in prev THEN links[no] ELSE links[q]]
  PROVE  Lists(more, IF prev = {} THEN links[no] ELSE h, no, RemoveAt(l, i), <<no>> \o s)
<1> DEFINE r == RemoveAt(l, i)
           h2 == IF prev = {} THEN links[no] ELSE h
           m == <<no>> \o s
<1>1. /\ l \in Seq(Numbers) /\ s \in Seq(Numbers) /\ Len(l) \in Nat /\ Len(s) \in Nat
      /\ DOMAIN l = 1 .. Len(l) /\ i \in Nat /\ i >= 1 /\ i <= Len(l)
  BY DEF Lists, IsList
<1>2. /\ r \in Seq(Numbers) /\ Len(r) = Len(l) - 1
      /\ \A j \in 1 .. Len(l) - 1 : r[j] = IF j < i THEN l[j] ELSE l[j + 1]
  BY <1>1, Removed
<1>3. no \in Numbers
  BY <1>1
<1>4. \A j \in 1 .. Len(l), k \in 1 .. Len(l) : l[j] = l[k] => j = k
  BY <1>1 DEF Lists, IsInjective
<1>5. prev = {l[j] : j \in 1 .. Len(l) \cap {i - 1}}
  BY Predecessor DEF Lists
<1>6. \A j \in 1 .. Len(l) : (l[j] \in prev <=> j = i - 1) /\ (l[j] = no <=> j = i)
  BY <1>1, <1>4, <1>5
<1>7. prev = {} <=> i = 1
  BY <1>1, <1>5
<1>8. \A j \in 1 .. Len(l) : links[l[j]] = IF j = Len(l) THEN NULL ELSE l[j + 1]
  BY DEF Lists, IsList
<1>9. \A j \in 1 .. Len(l) :
        more[l[j]] = IF j = i THEN f ELSE IF j = i - 1 THEN links[no] ELSE links[l[j]]
  <2>1. \A j \in 1 .. Len(l) : l[j] \in Numbers
    BY <1>1
  <2>2. QED
    BY <1>6, <2>1
<1>10. \A j \in 1 .. Len(s) : s[j] \in Numbers /\ s[j] # no /\ s[j] \notin prev
  BY <1>1, <1>5 DEF Lists
<1>11. \A j \in 1 .. Len(s) : more[s[j]] = links[s[j]]
  BY <1>10
<1>12. IsList(more, no, m)
  BY <1>9, <1>11, MovedLists
<1>13. IsInjective(m)
  BY <1>1, <1>3, <1>10, InFrontInjective DEF Lists
<1>14. more \in [Numbers -> Pointers]
  <2>1. f \in Pointers
    <3>1. Len(s) # 0 => s[1] \in Numbers
      BY <1>1
    <3>2. QED
      BY <3>1, NullIsNoNumber DEF Lists, IsList
  <2>2. QED
    BY <1>3, <2>1 DEF Lists
<1>15. ASSUME NEW j \in 1 .. Len(r)
       PROVE  \/ j < i /\ j \in 1 .. Len(l) /\ j # i /\ r[j] = l[j]
              \/ j >= i /\ j + 1 \in 1 .. Len(l) /\ j + 1 # i /\ r[j] = l[j + 1]
  <2>1. j \in 1 .. Len(l) - 1 /\ j \in 1 .. Len(l) /\ j + 1 \in 1 .. Len(l)
    BY <1>1, <1>2
  <2>2. r[j] = IF j < i THEN l[j] ELSE l[j + 1]
    BY <1>2, <2>1
  <2> HIDE DEF r
  <2>3. QED
    BY <1>1, <2>1, <2>2
<1>16. m \in Seq(Numbers) /\ Len(m) = Len(s) + 1 /\ m[1] = no
       /\ \A j \in 1 .. Len(s) : m[j + 1] = s[j]
  BY <1>1, <1>3, InFront
<1> HIDE DEF r, m
<1>17. IsInjective(r)
  <2>1. ASSUME NEW j \in 1 .. Len(r), NEW k \in 1 .. Len(r), r[j] = r[k]
        PROVE  j = k
    <3>1. j \in Nat /\ k \in Nat
      BY <1>1, <1>2
    <3>2. QED
      BY <1>1, <1>4, <1>15, <2>1, <3>1
  <2>2. DOMAIN r = 1 .. Len(r)
    BY <1>2
  <2>3. QED
    BY <2>1, <2>2 DEF IsInjective
<1>18. ASSUME NEW j \in 1 .. Len(r), NEW k \in 1 .. Len(m)
       PROVE  r[j] # m[k]
  <2>1. PICK jj \in 1 .. Len(l) : jj # i /\ r[j] = l[jj]
    BY <1>15
  <2>2. CASE k = 1
    BY <1>6, <1>16, <2>1, <2>2
  <2>3. CASE k # 1
    <3>1. k - 1 \in 1 .. Len(s) /\ k - 1 + 1 = k
      BY <1>1, <1>16, <2>3
    <3>2. m[k - 1 + 1] = s[k - 1]
      BY <1>16, <3>1
    <3>3. QED
      BY <2>1, <3>1, <3>2 DEF Lists
  <2>4. QED
    BY <2>2, <2>3
<1>19. links[no] = IF i = Len(l) THEN NULL ELSE l[i + 1]
  BY <1>8
<1>20. h2 = IF Len(r) = 0 THEN NULL ELSE r[1]
  <2>1. CASE i = 1
    <3>1. h2 = IF 1 = Len(l) THEN NULL ELSE l[1 + 1]
      BY <1>7, <1>19, <2>1
    <3>2. Len(r) = 0 <=> 1 = Len(l)
      BY <1>1, <1>2
    <3>3. Len(r) # 0 => 1 \in 1 .. Len(r)
      BY <1>1, <1>2
    <3>4. Len(r) # 0 => r[1] = l[1 + 1]
      BY <1>15, <2>1, <3>3
    <3>5. QED
      BY <3>1, <3>2, <3>4
  <2>2. CASE i # 1
    <3>1. h2 = l[1]
      <4>1. h = IF Len(l) = 0 THEN NULL ELSE l[1]
        BY DEF Lists, IsList
      <4>2. Len(l) # 0
        BY <1>1
      <4>3. QED
        BY <1>7, <2>2, <4>1, <4>2
    <3>2. Len(r) # 0 /\ 1 \in 1 .. Len(r) /\ ~(1 >= i)
      BY <1>1, <1>2, <2>2
    <3>3. r[1] = l[1]
      BY <1>15, <3>2
    <3>4. QED
      BY <3>1, <3>2, <3>3
  <2>3. QED
    BY <2>1, <2>2
<1> HIDE DEF h2
<1>21. ASSUME NEW j \in 1 .. Len(r)
       PROVE  more[r[j]] = IF j = Len(r) THEN NULL ELSE r[j + 1]
  <2>1. j \in Nat /\ j >= 1 /\ j <= Len(r)
    BY <1>2
  <2>2. j # Len(r) => j + 1 \in 1 .. Len(r)
    <3>1. Len(r) \in Nat
      BY <1>2
    <3>2. QED
      BY <2>1, <3>1
  <2>3. CASE j < i
    <3>1. r[j] = l[j] /\ j \in 1 .. Len(l) /\ j # i /\ ~(j >= i)
      BY <1>1, <1>15, <2>1, <2>3
    <3>2. CASE j = i - 1
      <4>1. more[r[j]] = IF i = Len(l) THEN NULL ELSE l[i + 1]
        BY <1>9, <1>19, <3>1, <3>2
      <4>2. j + 1 = i /\ (j = Len(r) <=> i = Len(l))
        BY <1>1, <1>2, <3>2
      <4>3. j # Len(r) => r[i] = l[i + 1]
        <5>1. ~(i < i)
          BY <1>1
        <5>2. QED
          BY <1>15, <2>2, <4>2, <5>1
      <4>4. QED
        BY <4>1, <4>2, <4>3
    <3>3. CASE j # i - 1
      <4>1. more[r[j]] = links[l[j]]
        BY <1>9, <3>1, <3>3
      <4>2. links[l[j]] = IF j = Len(l) THEN NULL ELSE l[j + 1]
        BY <1>8, <3>1
      <4>3. j # Len(l) /\ j # Len(r) /\ ~(j + 1 >= i)
        <5>1. Len(r) = Len(l) - 1 /\ Len(l) \in Nat /\ i \in Nat /\ i <= Len(l)
          BY <1>1, <1>2
        <5>2. QED
          BY <2>1, <2>3, <3>3, <5>1
      <4>4. r[j + 1] = l[j + 1]
        BY <1>15, <2>2, <4>3
      <4>5. QED
        BY <4>1, <4>2, <4>3, <4>4
    <3>4. QED
      BY <3>2, <3>3
  <2>4. CASE j >= i
    <3>1. r[j] = l[j + 1] /\ j + 1 \in 1 .. Len(l) /\ j + 1 # i /\ j + 1 # i - 1
      BY <1>1, <1>15, <2>1, <2>4
    <3>2. more[r[j]] = links[l[j + 1]]
      BY <1>9, <3>1
    <3>3. links[l[j + 1]] = IF j + 1 = Len(l) THEN NULL ELSE l[j + 1 + 1]
      BY <1>8, <3>1
    <3>4. j + 1 = Len(l) <=> j = Len(r)
      BY <1>1, <1>2
    <3>5. j # Len(r) => r[j + 1] = l[j + 1 + 1]
      <4>1. ~(j + 1 < i)
        BY <1>1, <2>1, <2>4
      <4>2. QED
        BY <1>15, <2>2, <4>1
    <3>6. QED
      BY <3>2, <3>3, <3>4, <3>5
  <2>5. QED
    BY <1>1, <2>1, <2>3, <2>4
<1>22. IsList(more, h2, r)
  BY <1>2, <1>20, <1>21 DEF IsList
<1>23. Lists(more, h2, no, r, m)
  BY <1>12, <1>13, <1>14, <1>17, <1>18, <1>22 DEF Lists
<1>24. QED
  BY <1>23 DEF h2, r, m

\* DeleteAll puts one list in front of the other.
LEMMA DeleteAllLists ==
  ASSUME NEW links, NEW h, NEW f, NEW l, NEW s, Lists(links, h, f, l, s), NEW more,
         more = [q \in Numbers |-> IF l # <<>> /\ q = Last(l) THEN f ELSE links[q]]
  PROVE  Lists(more, NULL, IF l = <<>> THEN f ELSE h, <<>>, l \o s)
<1>1. l \in Seq(Numbers) /\ s \in Seq(Numbers) /\ Len(l) \in Nat /\ Len(s) \in Nat
  BY DEF Lists, IsList
<1>2. links \in [Numbers -> Pointers]
  BY DEF Lists
<1>3. IsList(more, NULL, <<>>) /\ IsInjective(<<>>)
  BY DEF IsList, IsInjective
<1>4. CASE l = <<>>
  <2>1. more = links
    BY <1>2, <1>4
  <2>2. l \o s = s
    BY <1>1, <1>4
  <2>3. QED
    BY <1>3, <1>4, <2>1, <2>2 DEF Lists
<1>5. CASE l # <<>>
  <2> DEFINE c == l \o s
             len == Len(l)
  <2>1. /\ c \in Seq(Numbers) /\ Len(c) = len + Len(s) /\ DOMAIN c = 1 .. Len(c)
        /\ \A i \in 1 .. len : c[i] = l[i]
        /\ \A i \in 1 .. Len(s) : c[len + i] = s[i]
    BY <1>1, Appended
  <2>2. len \in 1 .. len /\ len \in Nat /\ 1 \in 1 .. len /\ Last(l) = l[len]
    BY <1>1, <1>5 DEF Last
  <2>3. more \in [Numbers -> Pointers]
    <3>1. f \in Pointers
      <4>1. Len(s) # 0 => s[1] \in Numbers
        BY <1>1
      <4>2. QED
        BY <4>1, NullIsNoNumber DEF Lists, IsList
    <3>2. QED
      BY <1>2, <3>1
  <2>4. \A i \in 1 .. len : more[l[i]] = IF i = len THEN f ELSE l[i + 1]
    <3>1. \A i \in 1 .. len : l[i] \in Numbers /\ (l[i] = l[len] <=> i = len)
      BY <1>1, <2>2 DEF Lists, IsInjective
    <3>2. \A i \in 1 .. len : links[l[i]] = IF i = len THEN NULL ELSE l[i + 1]
      BY DEF Lists, IsList
    <3>3. QED
      BY <1>5, <2>2, <3>1, <3>2
  <2>5. \A i \in 1 .. Len(s) : more[s[i]] = IF i = Len(s) THEN NULL ELSE s[i + 1]
    <3>1. \A i \in 1 .. Len(s) : s[i] \in Numbers /\ s[i] # l[len]
      BY <1>1, <2>2 DEF Lists
    <3>2. \A i \in 1 .. Len(s) : links[s[i]] = IF i = Len(s) THEN NULL ELSE s[i + 1]
      BY DEF Lists, IsList
    <3>3. QED
      BY <2>2, <3>1, <3>2
  <2>6. f = IF Len(s) = 0 THEN NULL ELSE s[1]
    BY DEF Lists, IsList
  <2>7. h = l[1]
    BY <1>1, <1>5 DEF Lists, IsList
  <2>8. \A i \in 1 .. len, j \in 1 .. Len(s) : l[i] # s[j]
    BY DEF Lists
  <2>9. /\ \A i \in 1 .. len, j \in 1 .. len : l[i] = l[j] => i = j
        /\ \A i \in 1 .. Len(s), j \in 1 .. Len(s) : s[i] = s[j] => i = j
    BY <1>1 DEF Lists, IsInjective
  <2> HIDE DEF c, len
  <2>10. ASSUME NEW i \in 1 .. Len(c)
         PROVE  \/ i \in 1 .. len /\ c[i] = l[i]
                \/ \E j \in 1 .. Len(s) : i = len + j /\ c[i] = s[j]
    <3>1. i \in 1 .. len \/ (i - len \in 1 .. Len(s) /\ i = len + (i - len))
      <4>1. i \in Nat /\ 1 <= i /\ i <= len + Len(s)
        BY <1>1, <2>1, <2>2
      <4>2. QED
        BY <1>1, <2>2, <4>1
    <3>2. QED
      BY <2>1, <3>1
  <2>11. IsInjective(c)
    <3>1. ASSUME NEW i \in 1 .. Len(c), NEW j \in 1 .. Len(c), c[i] = c[j]
          PROVE  i = j
      BY <2>8, <2>9, <2>10, <3>1
    <3>2. QED
      BY <2>1, <3>1 DEF IsInjective
  <2>12. ASSUME NEW i \in 1 .. Len(c)
         PROVE  more[c[i]] = IF i = Len(c) THEN NULL ELSE c[i + 1]
    <3>1. CASE i \in 1 .. len /\ i # len
      <4>1. i + 1 \in 1 .. len /\ i # Len(c)
        BY <1>1, <2>1, <2>2, <3>1
      <4>2. QED
        BY <2>1, <2>4, <3>1, <4>1
    <3>2. CASE i = len
      <4>1. more[c[i]] = f
        BY <2>1, <2>2, <2>4, <3>2
      <4>2. i = Len(c) <=> Len(s) = 0
        BY <1>1, <2>1, <2>2, <3>2
      <4>3. Len(s) # 0 => 1 \in 1 .. Len(s)
        BY <1>1
      <4>4. Len(s) # 0 => c[i + 1] = s[1]
        BY <2>1, <3>2, <4>3
      <4>5. QED
        BY <2>6, <4>1, <4>2, <4>4
    <3>3. ASSUME NEW j \in 1 .. Len(s), i = len + j, c[i] = s[j]
          PROVE  more[c[i]] = IF i = Len(c) THEN NULL ELSE c[i + 1]
      <4>1. more[c[i]] = IF j = Len(s) THEN NULL ELSE s[j + 1]
        BY <2>5, <3>3
      <4>2. j = Len(s) <=> i = Len(c)
        <5>1. j \in Nat /\ i = len + j /\ Len(c) = len + Len(s)
          BY <2>1, <3>3
        <5>2. QED
          BY <1>1, <2>2, <5>1
      <4>3. j # Len(s) => j + 1 \in 1 .. Len(s) /\ i + 1 = len + (j + 1)
        BY <1>1, <2>2, <3>3
      <4>4. j # Len(s) => c[i + 1] = s[j + 1]
        BY <2>1, <4>3
      <4>5. QED
        BY <4>1, <4>2, <4>4
    <3>4. QED
      BY <2>10, <3>1, <3>2, <3>3
  <2>13. Len(c) # 0 /\ c[1] = h
    BY <1>1, <2>1, <2>2, <2>7
  <2>14. IsList(more, h, c)
    BY <2>1, <2>12, <2>13 DEF IsList
  <2>15. Lists(more, NULL, h, <<>>, c)
    BY <1>3, <2>3, <2>11, <2>14 DEF Lists
  <2>16. QED
    BY <1>5, <2>15 DEF c
<1>6. QED
  BY <1>4, <1>5

\* l and s are the live list and the free list; the records of l are in use.
IsPool(links, used, h, f, l, s) ==
  /\ Lists(links, h, f, l, s)
  /\ used \in [Numbers -> BOOLEAN]
  /\ \A no \in Numbers : used[no] <=> Contains(l, no)

PoolInv == \E l, s : IsPool(next, in_use, head, free_, l, s)

LEMMA PoolWalks ==
  ASSUME NEW links, NEW used, NEW h, NEW f, NEW l, NEW s, IsPool(links, used, h, f, l, s)
  PROVE  Along(links, h) = l /\ Along(links, f) = s
BY WalkFinds DEF IsPool, Lists

LEMMA PoolStarts ==
  ASSUME InitPool
  PROVE  IsPool(next, in_use, head, free_, <<>>, [i \in 1 .. NR_BP |-> i - 1])
<1> DEFINE s == [i \in 1 .. NR_BP |-> i - 1]
<1>1. NR_BP \in Nat /\ NR_BP > 0
  BY PoolAssumption
<1>2. s \in Seq(Numbers) /\ Len(s) = NR_BP /\ DOMAIN s = 1 .. NR_BP
  <2>1. s \in [1 .. NR_BP -> Numbers]
    BY <1>1 DEF Numbers
  <2>2. QED
    BY <1>1, <2>1
<1>3. \A i \in 1 .. NR_BP : s[i] = i - 1 /\ i \in Nat
  BY <1>1
<1> HIDE DEF s
<1>4. next \in [Numbers -> Pointers]
  BY <1>1 DEF InitPool, Numbers, Pointers
<1>5. ASSUME NEW i \in 1 .. Len(s)
      PROVE  next[s[i]] = IF i = Len(s) THEN NULL ELSE s[i + 1]
  <2>1. i \in 1 .. NR_BP /\ i - 1 \in Numbers
    BY <1>1, <1>2 DEF Numbers
  <2>2. next[i - 1] = IF i = NR_BP THEN NULL ELSE i
    BY <1>1, <2>1 DEF InitPool
  <2>3. i # NR_BP => i + 1 \in 1 .. NR_BP /\ s[i + 1] = i
    BY <1>1, <1>3, <2>1
  <2>4. QED
    BY <1>2, <1>3, <2>1, <2>2, <2>3
<1>6. IsList(next, free_, s)
  <2>1. free_ = s[1] /\ Len(s) # 0
    BY <1>1, <1>2, <1>3 DEF InitPool
  <2>2. QED
    BY <1>2, <1>5, <2>1 DEF IsList
<1>7. IsList(next, head, <<>>) /\ IsInjective(<<>>)
  BY DEF InitPool, IsList, IsInjective
<1>8. IsInjective(s)
  BY <1>2, <1>3 DEF IsInjective
<1>9. Lists(next, head, free_, <<>>, s)
  BY <1>4, <1>6, <1>7, <1>8 DEF Lists
<1>10. in_use \in [Numbers -> BOOLEAN] /\ \A no \in Numbers : in_use[no] <=> Contains(<<>>, no)
  BY DEF InitPool, Contains
<1>11. QED
  BY <1>9, <1>10 DEF IsPool, s

LEMMA PushNewPool ==
  ASSUME NEW l, NEW s, IsPool(next, in_use, head, free_, l, s), PushNew
  PROVE  /\ free_ \in Numbers /\ s # <<>> /\ free_ = Head(s)
         /\ IsPool(next', in_use', head', free_', <<free_>> \o l, Tail(s))
<1>1. /\ free_ \in Numbers /\ s # <<>> /\ free_ = Head(s)
      /\ Lists(next', head', free_', <<free_>> \o l, Tail(s))
  BY PushLists DEF PushNew, IsPool
<1>2. in_use' \in [Numbers -> BOOLEAN]
  BY <1>1 DEF PushNew, IsPool
<1>3. l \in Seq(Numbers)
  BY DEF IsPool, Lists, IsList
<1> DEFINE m == <<free_>> \o l
<1>4. /\ Len(m) = Len(l) + 1 /\ Len(l) \in Nat /\ m[1] = free_
      /\ \A i \in 1 .. Len(l) : m[i + 1] = l[i]
  BY <1>1, <1>3, InFront
<1> HIDE DEF m
<1>5. ASSUME NEW no
      PROVE  Contains(m, no) <=> no = free_ \/ Contains(l, no)
  <2>1. ASSUME Contains(m, no)
        PROVE  no = free_ \/ Contains(l, no)
    <3>1. PICK i \in 1 .. Len(m) : m[i] = no
      BY <2>1 DEF Contains
    <3>2. CASE i = 1
      BY <1>4, <3>1, <3>2
    <3>3. CASE i # 1
      <4>1. i - 1 \in 1 .. Len(l) /\ i - 1 + 1 = i
        BY <1>4, <3>3
      <4>2. m[i - 1 + 1] = l[i - 1]
        BY <1>4, <4>1
      <4>3. QED
        BY <3>1, <4>1, <4>2 DEF Contains
    <3>4. QED
      BY <3>2, <3>3
  <2>2. ASSUME no = free_
        PROVE  Contains(m, no)
    <3>1. 1 \in 1 .. Len(m)
      BY <1>4
    <3>2. QED
      BY <1>4, <2>2, <3>1 DEF Contains
  <2>3. ASSUME Contains(l, no)
        PROVE  Contains(m, no)
    <3>1. PICK i \in 1 .. Len(l) : l[i] = no
      BY <2>3 DEF Contains
    <3>2. i + 1 \in 1 .. Len(m)
      BY <1>4
    <3>3. QED
      BY <1>4, <3>1, <3>2 DEF Contains
  <2>4. QED
    BY <2>1, <2>2, <2>3
<1>6. ASSUME NEW no \in Numbers
      PROVE  in_use'[no] <=> Contains(m, no)
  <2>1. in_use[no] <=> Contains(l, no)
    BY DEF IsPool
  <2>2. in_use' = [in_use EXCEPT ![free_] = TRUE] /\ in_use \in [Numbers -> BOOLEAN]
    BY DEF PushNew, IsPool
  <2>3. CASE no = free_
    <3>1. in_use'[no]
      BY <2>2, <2>3
    <3>2. QED
      BY <1>5, <2>3, <3>1
  <2>4. CASE no # free_
    <3>1. in_use'[no] <=> in_use[no]
      BY <2>2, <2>4
    <3>2. QED
      BY <1>5, <2>1, <2>4, <3>1
  <2>5. QED
    BY <2>3, <2>4
<1>7. QED
  BY <1>1, <1>2, <1>6 DEF IsPool, m

LEMMA DeletePool ==
  ASSUME NEW l, NEW s, IsPool(next, in_use, head, free_, l, s), NEW no \in Numbers, Delete(no)
  PROVE  \E i \in 1 .. Len(l) :
           /\ no = l[i]
           /\ IsPool(next', in_use', head', free_', RemoveAt(l, i), <<no>> \o s)
<1>1. Walk(head) = l
  BY PoolWalks DEF Walk
<1> DEFINE prev == {q \in Range(l) : next[q] = no}
<1>2. /\ Contains(l, no)
      /\ head' = IF prev = {} THEN next[no] ELSE head
      /\ next' = Unlinked(no, prev)
      /\ in_use' = Released({no})
      /\ free_' = no
  BY <1>1 DEF Delete
<1>3. PICK i \in 1 .. Len(l) : no = l[i]
  BY <1>2 DEF Contains
<1>4. Lists(next, head, free_, l, s)
  BY DEF IsPool
<1>5. Lists(next', head', free_', RemoveAt(l, i), <<no>> \o s)
  <2>1. next' = [q \in Numbers |-> IF q = no THEN free_ ELSE IF q \in prev THEN next[no] ELSE next[q]]
    BY <1>2 DEF Unlinked
  <2>2. Lists(next', IF prev = {} THEN next[no] ELSE head, no, RemoveAt(l, i), <<no>> \o s)
    <3>1. prev = {q \in Range(l) : next[q] = no}
      OBVIOUS
    <3> HIDE DEF prev
    <3>2. QED
      BY <1>3, <1>4, <2>1, <3>1, DeleteLists
  <2>3. QED
    BY <1>2, <2>2
<1>6. l \in Seq(Numbers) /\ Len(l) \in Nat /\ DOMAIN l = 1 .. Len(l)
  BY <1>4 DEF Lists, IsList
<1> DEFINE r == RemoveAt(l, i)
<1>7. /\ r \in Seq(Numbers) /\ Len(r) = Len(l) - 1
      /\ \A j \in 1 .. Len(l) - 1 : r[j] = IF j < i THEN l[j] ELSE l[j + 1]
  BY <1>6, Removed
<1> HIDE DEF r
<1>8. \A j \in 1 .. Len(l), k \in 1 .. Len(l) : l[j] = l[k] => j = k
  BY <1>4, <1>6 DEF Lists, IsInjective
<1>9. ASSUME NEW q
      PROVE  Contains(r, q) <=> Contains(l, q) /\ q # no
  <2>1. ASSUME Contains(r, q)
        PROVE  Contains(l, q) /\ q # no
    <3>1. PICK j \in 1 .. Len(r) : r[j] = q
      BY <2>1 DEF Contains
    <3>2. j \in Nat /\ j \in 1 .. Len(l) - 1 /\ j \in 1 .. Len(l) /\ j + 1 \in 1 .. Len(l)
      BY <1>6, <1>7
    <3>3. r[j] = IF j < i THEN l[j] ELSE l[j + 1]
      BY <1>7, <3>2
    <3>4. j < i => j # i
      BY <3>2
    <3>5. ~(j < i) => j + 1 # i
      BY <3>2
    <3>6. QED
      BY <1>3, <1>8, <3>1, <3>2, <3>3, <3>4, <3>5 DEF Contains
  <2>2. ASSUME Contains(l, q), q # no
        PROVE  Contains(r, q)
    <3>1. PICK j \in 1 .. Len(l) : l[j] = q
      BY <2>2 DEF Contains
    <3>2. j # i
      BY <1>3, <2>2, <3>1
    <3>3. CASE j < i
      <4>1. j \in 1 .. Len(l) - 1 /\ j \in 1 .. Len(r)
        BY <1>6, <1>7, <3>3
      <4>2. r[j] = q
        BY <1>7, <3>1, <3>3, <4>1
      <4>3. QED
        BY <4>1, <4>2 DEF Contains
    <3>4. CASE ~(j < i)
      <4>1. j - 1 \in 1 .. Len(l) - 1 /\ j - 1 \in 1 .. Len(r) /\ ~(j - 1 < i) /\ j - 1 + 1 = j
        BY <1>6, <1>7, <3>2, <3>4
      <4>2. r[j - 1] = l[j - 1 + 1]
        BY <1>7, <4>1
      <4>3. QED
        BY <3>1, <4>1, <4>2 DEF Contains
    <3>5. QED
      BY <3>3, <3>4
  <2>3. QED
    BY <2>1, <2>2
<1>10. in_use' \in [Numbers -> BOOLEAN] /\ \A q \in Numbers : in_use'[q] <=> in_use[q] /\ q # no
  BY <1>2 DEF Released
<1>11. \A q \in Numbers : in_use'[q] <=> Contains(r, q)
  BY <1>9, <1>10 DEF IsPool
<1>12. IsPool(next', in_use', head', free_', r, <<no>> \o s)
  BY <1>5, <1>10, <1>11 DEF IsPool, r
<1>13. QED
  BY <1>3, <1>12 DEF r

LEMMA DeleteAllPool ==
  ASSUME NEW l, NEW s, IsPool(next, in_use, head, free_, l, s), DeleteAll
  PROVE  IsPool(next', in_use', head', free_', <<>>, l \o s)
<1>1. Walk(head) = l
  BY PoolWalks DEF Walk
<1>2. /\ next' = [q \in Numbers |-> IF l # <<>> /\ q = Last(l) THEN free_ ELSE next[q]]
      /\ in_use' = Released(Range(l))
      /\ free_' = IF l = <<>> THEN free_ ELSE head
      /\ head' = NULL
  BY <1>1 DEF DeleteAll
<1>3. Lists(next, head, free_, l, s)
  BY DEF IsPool
<1>4. Lists(next', head', free_', <<>>, l \o s)
  BY <1>2, <1>3, DeleteAllLists
<1>5. \A q \in Numbers : Contains(l, q) <=> q \in Range(l)
  <2>1. DOMAIN l = 1 .. Len(l)
    BY <1>3 DEF Lists, IsList
  <2>2. QED
    BY <2>1 DEF Contains, Range
<1>6. in_use' \in [Numbers -> BOOLEAN] /\ \A q \in Numbers : ~in_use'[q]
  BY <1>2, <1>5 DEF Released, IsPool
<1>7. \A q \in Numbers : ~Contains(<<>>, q)
  BY DEF Contains
<1>8. QED
  BY <1>4, <1>6, <1>7 DEF IsPool

\* Every step of the monitor leaves the pool alone or is one of the four.
LEMMA PoolSteps ==
  ASSUME [Next]_vars
  PROVE  \/ UNCHANGED poolVars
         \/ PushNew
         \/ \E no \in Numbers : Delete(no)
         \/ DeleteAll
BY DEF Next, vars, poolVars, CmdB, CmdD, CmdW, PoolExhausted, CmdDAll, CmdExec, Iterate, Leave,
       Terminated

\* The registry's view of a step.
LEMMA PoolStep ==
  ASSUME PoolInv, [Next]_vars
  PROVE  /\ PoolInv'
         /\ [Registry!Next]_(Registry!registryVars)
<1>1. PICK l, s : IsPool(next, in_use, head, free_, l, s)
  BY DEF PoolInv
<1>2. Walk(head) = l /\ Walk(free_) = s /\ l \in Seq(Numbers) /\ s \in Seq(Numbers)
  BY <1>1, PoolWalks DEF Walk, IsPool, Lists, IsList
<1>3. ASSUME NEW m, NEW t, IsPool(next', in_use', head', free_', m, t)
      PROVE  PoolInv' /\ Walk(head)' = m /\ Walk(free_)' = t
  BY <1>3, PoolWalks DEF Walk, PoolInv
<1>4. CASE UNCHANGED poolVars
  <2>1. IsPool(next', in_use', head', free_', l, s)
    BY <1>1, <1>4 DEF poolVars
  <2>2. PoolInv' /\ Walk(head)' = l /\ Walk(free_)' = s
    BY <1>3, <2>1
  <2>3. QED
    BY <1>2, <2>2 DEF Registry!registryVars
<1>5. CASE PushNew
  <2>1. /\ free_ \in Numbers /\ s # <<>> /\ free_ = Head(s)
        /\ IsPool(next', in_use', head', free_', <<free_>> \o l, Tail(s))
    BY <1>1, <1>5, PushNewPool
  <2>2. PoolInv' /\ Walk(head)' = <<free_>> \o l /\ Walk(free_)' = Tail(s)
    BY <1>3, <2>1
  <2>3. Registry!Take
    BY <1>2, <2>1, <2>2 DEF Registry!Take
  <2>4. QED
    BY <2>2, <2>3 DEF Registry!Next
<1>6. ASSUME NEW no \in Numbers, Delete(no)
      PROVE  PoolInv' /\ [Registry!Next]_(Registry!registryVars)
  <2>1. PICK i \in 1 .. Len(l) :
          /\ no = l[i]
          /\ IsPool(next', in_use', head', free_', RemoveAt(l, i), <<no>> \o s)
    BY <1>1, <1>6, DeletePool
  <2>2. PoolInv' /\ Walk(head)' = RemoveAt(l, i) /\ Walk(free_)' = <<no>> \o s
    BY <1>3, <2>1
  <2>3. i \in DOMAIN l
    BY <1>2
  <2>4. Registry!Drop(i)
    BY <1>2, <2>1, <2>2 DEF Registry!Drop, RemoveAt, Registry!RemoveAt
  <2>5. Registry!Next
    BY <1>2, <2>3, <2>4 DEF Registry!Next
  <2>6. QED
    BY <2>2, <2>5
<1>7. CASE DeleteAll
  <2>1. IsPool(next', in_use', head', free_', <<>>, l \o s)
    BY <1>1, <1>7, DeleteAllPool
  <2>2. PoolInv' /\ Walk(head)' = <<>> /\ Walk(free_)' = l \o s
    BY <1>3, <2>1
  <2>3. Registry!DropAll
    BY <1>2, <2>2 DEF Registry!DropAll
  <2>4. QED
    BY <2>2, <2>3 DEF Registry!Next
<1>8. QED
  BY <1>4, <1>5, <1>6, <1>7, PoolSteps

LEMMA PoolInit ==
  ASSUME Init
  PROVE  PoolInv /\ Walk(head) = <<>> /\ Walk(free_) = [i \in 1 .. NR_BP |-> i - 1]
BY PoolStarts, PoolWalks DEF Init, PoolInv, Walk

THEOREM PoolInvariant == Spec => []PoolInv
<1>1. Init => PoolInv
  BY PoolInit
<1>2. PoolInv /\ [Next]_vars => PoolInv'
  BY PoolStep
<1>3. QED
  BY <1>1, <1>2, PTL DEF Spec

\* Every record that is in use can be found from head, and every record on the
\* list is in use: none of breakpoint.c's asserts on in_use fails.
THEOREM RecordsInUse == Spec => []InUseAgrees
<1>1. PoolInv => InUseAgrees
  BY PoolWalks DEF PoolInv, InUseAgrees, Walk, IsPool
<1>2. QED
  BY <1>1, PoolInvariant, PTL

\* The linked lists implement the registry: they keep every record, in order.
THEOREM RegistryRefinement == Spec => RegistrySpec
<1>1. Init => Walk(head) = <<>> /\ Walk(free_) = [i \in 1 .. NR_BP |-> i - 1]
  BY PoolInit
<1>2. PoolInv /\ [Next]_vars => [Registry!Next]_(Registry!registryVars)
  BY PoolStep
<1>3. QED
  BY <1>1, <1>2, PoolInvariant, PTL DEF Spec, RegistrySpec, Registry!Spec

-----------------------------------------------------------------------------
(* The live records of one type.                                           *)

LEMMA RangeInUse ==
  ASSUME NEW links, NEW used, NEW h, NEW f, NEW l, NEW s, IsPool(links, used, h, f, l, s)
  PROVE  Range(Along(links, h)) = {no \in Numbers : used[no]}
<1>1. Along(links, h) = l
  BY PoolWalks
<1>2. l \in Seq(Numbers) /\ DOMAIN l = 1 .. Len(l)
  BY DEF IsPool, Lists, IsList
<1>3. \A no : no \in Range(l) <=> no \in Numbers /\ Contains(l, no)
  BY <1>2 DEF Range, Contains
<1>4. \A no \in Numbers : used[no] <=> Contains(l, no)
  BY DEF IsPool
<1>5. QED
  BY <1>1, <1>3, <1>4

LEMMA LiveNow ==
  ASSUME PoolInv, NEW t
  PROVE  Live(t) = {p \in Numbers : in_use[p] /\ bp[p].type = t}
<1>1. Range(Walk(head)) = {no \in Numbers : in_use[no]}
  BY RangeInUse DEF PoolInv, Walk
<1>2. QED
  BY <1>1 DEF Live

LEMMA LiveNext ==
  ASSUME PoolInv', NEW CONSTANT t
  PROVE  Live(t)' = {p \in Numbers : in_use'[p] /\ bp'[p].type = t}
<1>1. PICK l, s : IsPool(next', in_use', head', free_', l, s)
  BY DEF PoolInv
<1>2. Range(Along(next', head')) = {no \in Numbers : in_use'[no]}
  BY <1>1, RangeInUse
<1>3. Live(t)' = {p \in Range(Along(next', head')) : bp'[p].type = t}
  BY DEF Live, Walk
<1>4. QED
  BY <1>2, <1>3

\* The first of some records of the list is one of them.
LEMMA FirstIn ==
  ASSUME PoolInv, NEW t, NEW set, set \subseteq Live(t), set # {}
  PROVE  First(set) \in set
<1>1. PICK l, s : IsPool(next, in_use, head, free_, l, s)
  BY DEF PoolInv
<1>2. Walk(head) = l /\ l \in Seq(Numbers) /\ DOMAIN l = 1 .. Len(l) /\ Len(l) \in Nat
  <2>1. l \in Seq(Numbers)
    BY <1>1 DEF IsPool, Lists, IsList
  <2>2. Walk(head) = l
    BY <1>1, PoolWalks DEF Walk
  <2>3. QED
    BY <2>1, <2>2
<1> DEFINE I == {i \in DOMAIN l : l[i] \in set}
<1>3. First(set) = l[Min(I)]
  BY <1>2 DEF First
<1>4. I \in SUBSET Nat /\ I # {}
  <2>1. set \subseteq Range(l)
    BY <1>2 DEF Live
  <2>2. QED
    BY <1>2, <2>1 DEF Range
<1>5. \A i \in I : l[i] \in set
  OBVIOUS
<1> HIDE DEF I
<1>6. \E m \in I : \A k \in I : m <= k
  BY <1>4, Least
<1>7. Min(I) \in I
  BY <1>6 DEF Min
<1>8. QED
  BY <1>3, <1>5, <1>7

\* The guard of CmdB and CmdW if at most one record of the type is allowed.
LEMMA NoneYet ==
  ASSUME PoolInv, NEW t, NEW m \in Nat, m <= 1, Cardinality(Live(t)) < m
  PROVE  Live(t) = {}
<1>1. NR_BP \in Nat /\ NR_BP > 0
  BY PoolAssumption
<1>2. IsFiniteSet(Numbers)
  BY <1>1, FS_Interval DEF Numbers
<1>3. Live(t) \subseteq Numbers
  BY LiveNow
<1>4. IsFiniteSet(Live(t))
  BY <1>2, <1>3, FS_Subset
<1>5. Cardinality(Live(t)) \in Nat
  BY <1>4, FS_CardinalityType
<1>6. Cardinality(Live(t)) = 0
  BY <1>5
<1>7. QED
  BY <1>4, <1>6, FS_EmptySet

\* The pool in a step: a new record was not in use; the records in use after a
\* deletion were in use before.
LEMMA PushedRecord ==
  ASSUME PoolInv, PushNew
  PROVE  /\ free_ \in Numbers /\ ~in_use[free_]
         /\ \A p \in Numbers : in_use'[p] <=> in_use[p] \/ p = free_
<1>1. PICK l, s : IsPool(next, in_use, head, free_, l, s)
  BY DEF PoolInv
<1>2. free_ \in Numbers
  BY <1>1, PushNewPool
<1>3. in_use \in [Numbers -> BOOLEAN]
  BY <1>1 DEF IsPool
<1>4. ~Contains(l, free_)
  <2>1. s \in Seq(Numbers) /\ Len(s) \in Nat /\ free_ = IF Len(s) = 0 THEN NULL ELSE s[1]
    BY <1>1 DEF IsPool, Lists, IsList
  <2>2. free_ # NULL
    BY DEF PushNew
  <2>3. 1 \in 1 .. Len(s) /\ free_ = s[1]
    BY <2>1, <2>2
  <2>4. \A i \in 1 .. Len(l) : l[i] # s[1]
    BY <1>1, <2>3 DEF IsPool, Lists
  <2>5. QED
    BY <2>3, <2>4 DEF Contains
<1>5. ~in_use[free_]
  BY <1>1, <1>2, <1>4 DEF IsPool
<1>6. in_use' = [in_use EXCEPT ![free_] = TRUE]
  BY DEF PushNew
<1>7. ASSUME NEW p \in Numbers
      PROVE  in_use'[p] <=> in_use[p] \/ p = free_
  <2>1. CASE p = free_
    <3>1. in_use'[p] = TRUE
      BY <1>2, <1>3, <1>6, <2>1
    <3>2. QED
      BY <2>1, <3>1
  <2>2. CASE p # free_
    <3>1. in_use'[p] = in_use[p]
      BY <1>3, <1>6, <2>2
    <3>2. QED
      BY <2>2, <3>1
  <2>3. QED
    BY <2>1, <2>2
<1>8. QED
  BY <1>2, <1>5, <1>7

LEMMA DeletedRecords ==
  ASSUME NEW p \in Numbers, in_use'[p], DeleteAll \/ \E no \in Numbers : Delete(no)
  PROVE  in_use[p]
BY DEF DeleteAll, Delete, Released

-----------------------------------------------------------------------------
(* What the breakpoints and the watchpoints leave intact.                  *)

Records ==
  [type : {"BREAKPOINT", "WATCHPOINT"}, addr : Addresses, ori_byte : Opcodes, old_val : {0, 1}]

TypeInv ==
  /\ use \in Uses
  /\ bp \in [Numbers -> Records]
  /\ mem \in [Addresses -> Opcodes]
  /\ eip \in Addresses /\ x \in {0, 1} /\ n \in Int /\ rerun \in BOOLEAN

\* exec() re-executes at its first instruction.
RerunInv == rerun => at = "exec" /\ n # 0 /\ nemu_state = "RUN"

\* Memory holds the guest's byte or INT3, and INT3 only where the user may set a
\* breakpoint; so does the byte a breakpoint has saved.
ByteInv ==
  /\ \A a \in Addresses : mem[a] # Text[a] => mem[a] = INT3 /\ a \in use.breakAddresses
  /\ \A p \in Live("BREAKPOINT") :
       /\ bp[p].addr \in use.breakAddresses
       /\ bp[p].ori_byte \in {Text[bp[p].addr], INT3}

\* An INT3 in place of the guest's byte has a breakpoint.
CoverInv == NoDeletion => \A a \in Addresses : mem[a] # Text[a] => a \in BpAddrs

\* Before an instruction is executed for the second time the code is the
\* guest's, and its breakpoint is still there.
AloneInv ==
  OneBreakpoint =>
    /\ \A p, q \in Live("BREAKPOINT") : p = q
    /\ ~BreaksItself =>
         /\ \A p \in Live("BREAKPOINT") : bp[p].ori_byte = Text[bp[p].addr]
         /\ nemu_state = "BREAK" \/ rerun =>
              Live("BREAKPOINT") # {} /\ \A a \in Addresses : mem[a] = Text[a]

\* A watchpoint knows the value, at any time.
WatchInv ==
  OneWatchpoint => \A p, q \in Live("WATCHPOINT") : p = q /\ bp[p].old_val = x

\* A breakpoint is armed unless the one instruction that leaves a breakpoint is
\* to be executed first.
ArmInv ==
  OneWatchpoint /\ use.steps = {-1} =>
    /\ at = "exec" => n = -1
    /\ \/ rerun \/ nemu_state = "BREAK"
       \/ \A a \in BpAddrs : mem[a] = INT3

MonInv ==
  /\ PoolInv /\ TypeInv /\ RerunInv /\ ByteInv
  /\ CoverInv /\ AloneInv /\ WatchInv /\ ArmInv

LEMMA UseFacts ==
  ASSUME use \in Uses
  PROVE  /\ Addresses \subseteq Nat /\ 0 \in Addresses
         /\ Text \in [Addresses -> Opcodes]
         /\ \A a \in Addresses : a + 1 \in Addresses \/ (Text[a] = "jmp" /\ a \notin use.breakAddresses)
         /\ use.steps \subseteq {-1} \cup (Nat \ {0})
         /\ use.breakAddresses \subseteq Addresses
         /\ use.maxBreakpoints \in Nat /\ use.maxWatchpoints \in Nat
BY UseAssumption DEF Addresses, Text

LEMMA SameUse ==
  ASSUME UNCHANGED use
  PROVE  /\ Text' = Text /\ Addresses' = Addresses /\ Records' = Records
         /\ NoDeletion' <=> NoDeletion
         /\ OneBreakpoint' <=> OneBreakpoint
         /\ OneWatchpoint' <=> OneWatchpoint
         /\ BreaksItself' <=> BreaksItself
BY DEF Text, Addresses, Records, NoDeletion, OneBreakpoint, OneWatchpoint, BreaksItself

-----------------------------------------------------------------------------
(* The steps that leave the live records alone.                            *)

LEMMA SameLive ==
  ASSUME PoolInv, PoolInv', UNCHANGED in_use, NEW CONSTANT t,
         \A p \in Numbers : bp'[p].type = bp[p].type
  PROVE  Live(t)' = Live(t)
<1>1. Live(t) = {p \in Numbers : in_use[p] /\ bp[p].type = t}
  BY LiveNow
<1>2. Live(t)' = {p \in Numbers : in_use'[p] /\ bp'[p].type = t}
  BY LiveNext
<1>3. QED
  BY <1>1, <1>2

LEMMA SamePool ==
  ASSUME PoolInv, UNCHANGED poolVars
  PROVE  PoolInv'
BY DEF PoolInv, poolVars

LEMMA MonInit == Init => MonInv
<1> SUFFICES ASSUME Init
             PROVE  MonInv
  OBVIOUS
<1>1. PoolInv /\ Walk(head) = <<>>
  BY PoolInit
<1>2. \A t : Live(t) = {}
  BY <1>1 DEF Live, Range
<1>3. TypeInv
  <2>1. use \in Uses /\ 0 \in Addresses
    BY UseFacts DEF Init
  <2>2. NoRecord \in Records
    BY <2>1 DEF NoRecord, Records, Opcodes
  <2>3. Text \in [Addresses -> Opcodes]
    BY <2>1, UseFacts
  <2>4. bp \in [Numbers -> Records]
    BY <2>2 DEF Init
  <2>5. mem \in [Addresses -> Opcodes] /\ eip \in Addresses /\ rerun \in BOOLEAN
    BY <2>1, <2>3 DEF Init
  <2>6. QED
    BY <2>1, <2>4, <2>5 DEF Init, TypeInv
<1>4. mem = Text /\ nemu_state = "READY" /\ rerun = FALSE /\ at = "ui"
  BY DEF Init
<1>5. RerunInv /\ ByteInv /\ CoverInv /\ AloneInv /\ WatchInv
  BY <1>2, <1>4 DEF RerunInv, ByteInv, CoverInv, AloneInv, WatchInv
<1>6. ArmInv
  BY <1>2, <1>4 DEF ArmInv, BpAddrs
<1>7. QED
  BY <1>1, <1>3, <1>5, <1>6 DEF MonInv

\* PoolExhausted, CmdExec, Leave and Terminated do not touch the records or the
\* guest.
LEMMA QuietSteps ==
  ASSUME MonInv, PoolExhausted \/ CmdExec \/ Leave \/ Terminated \/ UNCHANGED vars
  PROVE  MonInv'
<1>1. UNCHANGED <<poolVars, use, bp, mem, eip, x>>
  BY DEF PoolExhausted, CmdExec, Leave, Terminated, vars, poolVars
<1>2. PoolInv'
  BY <1>1, SamePool DEF MonInv
<1>3. Live("BREAKPOINT")' = Live("BREAKPOINT") /\ Live("WATCHPOINT")' = Live("WATCHPOINT")
  BY <1>1, <1>2, SameLive DEF MonInv, poolVars
<1>4. /\ Text' = Text /\ Addresses' = Addresses /\ Records' = Records
      /\ NoDeletion' <=> NoDeletion
      /\ OneBreakpoint' <=> OneBreakpoint
      /\ OneWatchpoint' <=> OneWatchpoint
      /\ BreaksItself' <=> BreaksItself
  BY <1>1, SameUse
<1>5. BpAddrs' = BpAddrs
  BY <1>1, <1>3 DEF BpAddrs
<1>6. n' \in Int /\ rerun' \in BOOLEAN
  <2>1. use.steps \subseteq {-1} \cup (Nat \ {0}) /\ n \in Int /\ rerun \in BOOLEAN
    BY UseFacts DEF MonInv, TypeInv
  <2>2. CASE CmdExec
    <3>1. n' \in use.steps /\ rerun' = (nemu_state = "BREAK")
      BY <2>2 DEF CmdExec
    <3>2. QED
      BY <2>1, <3>1
  <2>3. CASE UNCHANGED <<n, rerun>>
    BY <2>1, <2>3
  <2>4. QED
    BY <2>2, <2>3 DEF PoolExhausted, Leave, Terminated, vars
<1>7. TypeInv'
  BY <1>1, <1>4, <1>6 DEF MonInv, TypeInv
<1>8. RerunInv'
  <2>1. CASE CmdExec
    <3>1. n' # 0
      <4>1. n' \in use.steps /\ use.steps \subseteq {-1} \cup (Nat \ {0})
        BY <2>1, UseFacts DEF CmdExec, MonInv, TypeInv
      <4>2. QED
        BY <4>1
    <3>2. QED
      BY <2>1, <3>1 DEF CmdExec, RerunInv
  <2>2. CASE PoolExhausted \/ Leave \/ Terminated \/ UNCHANGED vars
    BY <2>2 DEF MonInv, RerunInv, PoolExhausted, Leave, Terminated, vars
  <2>3. QED
    BY <2>1, <2>2
<1>9. ByteInv'
  BY <1>1, <1>3, <1>4 DEF MonInv, ByteInv
<1>10. CoverInv'
  BY <1>1, <1>4, <1>5 DEF MonInv, CoverInv
<1>11. AloneInv'
  <2>1. nemu_state' = "BREAK" \/ rerun' => nemu_state = "BREAK" \/ rerun
    BY DEF PoolExhausted, CmdExec, Leave, Terminated, vars
  <2>2. QED
    BY <1>1, <1>3, <1>4, <2>1 DEF MonInv, AloneInv
<1>12. WatchInv'
  BY <1>1, <1>3, <1>4 DEF MonInv, WatchInv
<1>13. ArmInv'
  <2> SUFFICES ASSUME OneWatchpoint, use.steps = {-1}
               PROVE  /\ at' = "exec" => n' = -1
                      /\ \/ rerun' \/ nemu_state' = "BREAK"
                         \/ \A a \in BpAddrs : mem[a] = INT3
    BY <1>1, <1>4, <1>5 DEF ArmInv
  <2>1. /\ at = "exec" => n = -1
        /\ rerun \/ nemu_state = "BREAK" \/ \A a \in BpAddrs : mem[a] = INT3
    BY DEF MonInv, ArmInv
  <2>2. CASE CmdExec
    BY <2>1, <2>2 DEF CmdExec, MonInv, RerunInv
  <2>3. CASE Leave
    BY <2>1, <2>3 DEF Leave
  <2>4. CASE PoolExhausted \/ Terminated \/ UNCHANGED vars
    BY <2>1, <2>4 DEF PoolExhausted, Terminated, vars
  <2>5. QED
    BY <2>2, <2>3, <2>4
<1>14. QED
  BY <1>2, <1>7, <1>8, <1>9, <1>10, <1>11, <1>12, <1>13 DEF MonInv

-----------------------------------------------------------------------------
(* The commands that change the live records.                              *)

LEMMA DropSteps ==
  ASSUME MonInv, CmdDAll \/ \E no \in Numbers : CmdD(no)
  PROVE  MonInv'
<1>1. UNCHANGED <<use, bp, mem, eip, x, nemu_state, n, rerun, at>> /\ ~NoDeletion
  BY DEF CmdDAll, CmdD, NoDeletion
<1>2. DeleteAll \/ \E no \in Numbers : Delete(no)
  BY DEF CmdDAll, CmdD
<1>3. PoolInv'
  <2>1. Next
    BY DEF Next
  <2>2. QED
    BY <2>1, PoolStep DEF MonInv
<1>4. ASSUME NEW CONSTANT t
      PROVE  Live(t)' \subseteq Live(t)
  <2>1. Live(t) = {p \in Numbers : in_use[p] /\ bp[p].type = t}
    BY LiveNow DEF MonInv
  <2>2. Live(t)' = {p \in Numbers : in_use'[p] /\ bp'[p].type = t}
    BY <1>3, LiveNext
  <2>3. \A p \in Numbers : in_use'[p] => in_use[p]
    BY <1>2, DeletedRecords
  <2>4. QED
    BY <1>1, <2>1, <2>2, <2>3
<1>5. Live("BREAKPOINT")' \subseteq Live("BREAKPOINT") /\ Live("WATCHPOINT")' \subseteq Live("WATCHPOINT")
  BY <1>4
<1>6. /\ Text' = Text /\ Addresses' = Addresses /\ Records' = Records
      /\ ~NoDeletion' /\ ~OneBreakpoint'
      /\ OneWatchpoint' <=> OneWatchpoint
  BY <1>1, SameUse DEF OneBreakpoint
<1>7. BpAddrs' \subseteq BpAddrs
  BY <1>1, <1>5 DEF BpAddrs
<1>8. TypeInv' /\ RerunInv'
  BY <1>1, <1>6 DEF MonInv, TypeInv, RerunInv
<1>9. ByteInv'
  BY <1>1, <1>5, <1>6 DEF MonInv, ByteInv
<1>10. CoverInv' /\ AloneInv'
  BY <1>6 DEF CoverInv, AloneInv
<1>11. WatchInv'
  BY <1>1, <1>5, <1>6 DEF MonInv, WatchInv
<1>12. ArmInv'
  BY <1>1, <1>6, <1>7 DEF MonInv, ArmInv
<1>13. QED
  BY <1>3, <1>8, <1>9, <1>10, <1>11, <1>12 DEF MonInv

\* A new record of one type, which the next list of that type has in addition.
LEMMA NewRecord ==
  ASSUME MonInv, PushNew, PoolInv', NEW CONSTANT t, NEW r, bp' = [bp EXCEPT ![free_] = r]
  PROVE  /\ free_ \in Numbers /\ free_ \notin Live(t) /\ bp'[free_] = r
         /\ \A p \in Live(t) : bp'[p] = bp[p]
         /\ Live(t)' = Live(t) \cup (IF r.type = t THEN {free_} ELSE {})
<1>1. /\ free_ \in Numbers /\ ~in_use[free_]
      /\ \A p \in Numbers : in_use'[p] <=> in_use[p] \/ p = free_
  BY PushedRecord DEF MonInv
<1>2. Live(t) = {p \in Numbers : in_use[p] /\ bp[p].type = t}
  BY LiveNow DEF MonInv
<1>3. Live(t)' = {p \in Numbers : in_use'[p] /\ bp'[p].type = t}
  BY LiveNext
<1>4. bp'[free_] = r /\ \A p \in Numbers : p # free_ => bp'[p] = bp[p]
  BY <1>1 DEF MonInv, TypeInv
<1>5. ASSUME NEW p \in Numbers
      PROVE  p \in Live(t)' <=> p \in Live(t) \/ (r.type = t /\ p = free_)
  BY <1>1, <1>2, <1>3, <1>4
<1>6. Live(t) \subseteq Numbers /\ Live(t)' \subseteq Numbers
  BY <1>2, <1>3
<1>7. Live(t)' = Live(t) \cup (IF r.type = t THEN {free_} ELSE {})
  BY <1>1, <1>5, <1>6
<1>8. QED
  BY <1>1, <1>2, <1>4, <1>7

LEMMA CmdBStep ==
  ASSUME MonInv, NEW a \in use.breakAddresses, CmdB(a)
  PROVE  MonInv'
<1> DEFINE r == NewBreakpoint(a)
<1>1. /\ at = "ui" /\ PushNew /\ bp' = [bp EXCEPT ![free_] = r]
      /\ mem' = [mem EXCEPT ![a] = INT3]
      /\ UNCHANGED <<use, eip, x, nemu_state, n, rerun, at>>
  BY DEF CmdB
<1>2. PoolInv'
  <2>1. Next
    BY DEF Next
  <2>2. QED
    BY <2>1, PoolStep DEF MonInv
<1>3. /\ Text' = Text /\ Addresses' = Addresses /\ Records' = Records
      /\ NoDeletion' <=> NoDeletion
      /\ OneBreakpoint' <=> OneBreakpoint
      /\ OneWatchpoint' <=> OneWatchpoint
      /\ BreaksItself' <=> BreaksItself
  BY <1>1, SameUse
<1>4. a \in Addresses /\ mem[a] \in Opcodes /\ mem \in [Addresses -> Opcodes] /\ Addresses \subseteq Nat
  BY UseFacts DEF MonInv, TypeInv
<1>5. /\ r \in Records /\ r.type = "BREAKPOINT" /\ r.addr = a /\ r.ori_byte = mem[a]
  BY <1>4 DEF NewBreakpoint, Records
<1> HIDE DEF r
<1>6. /\ free_ \in Numbers /\ free_ \notin Live("BREAKPOINT") /\ bp'[free_] = r
      /\ \A p \in Live("BREAKPOINT") : bp'[p] = bp[p]
      /\ Live("BREAKPOINT")' = Live("BREAKPOINT") \cup {free_}
  <2>1. Live("BREAKPOINT")' = Live("BREAKPOINT") \cup (IF r.type = "BREAKPOINT" THEN {free_} ELSE {})
    BY <1>1, <1>2, NewRecord
  <2>2. QED
    BY <1>1, <1>2, <1>5, <2>1, NewRecord
<1>7. /\ \A p \in Live("WATCHPOINT") : bp'[p] = bp[p]
      /\ Live("WATCHPOINT")' = Live("WATCHPOINT")
  <2>1. Live("WATCHPOINT")' = Live("WATCHPOINT") \cup (IF r.type = "WATCHPOINT" THEN {free_} ELSE {})
    BY <1>1, <1>2, NewRecord
  <2>2. QED
    BY <1>1, <1>2, <1>5, <2>1, NewRecord
<1>8. BpAddrs' = BpAddrs \cup {a}
  BY <1>5, <1>6 DEF BpAddrs
<1>9. \A c \in Addresses : mem'[c] = IF c = a THEN INT3 ELSE mem[c]
  BY <1>1, <1>4
<1>10. TypeInv'
  <2>1. bp' \in [Numbers -> Records]
    BY <1>1, <1>5, <1>6 DEF MonInv, TypeInv
  <2>2. mem' \in [Addresses -> Opcodes]
    BY <1>1, <1>4 DEF Opcodes
  <2>3. QED
    BY <1>1, <1>3, <2>1, <2>2 DEF MonInv, TypeInv
<1>11. RerunInv'
  BY <1>1 DEF MonInv, RerunInv
<1>12. ByteInv'
  <2>1. \A c \in Addresses : mem'[c] # Text[c] => mem'[c] = INT3 /\ c \in use.breakAddresses
    BY <1>9 DEF MonInv, ByteInv
  <2>2. ASSUME NEW p \in Live("BREAKPOINT")'
        PROVE  bp'[p].addr \in use.breakAddresses /\ bp'[p].ori_byte \in {Text[bp'[p].addr], INT3}
    <3>1. CASE p = free_
      BY <1>4, <1>5, <1>6, <3>1 DEF MonInv, ByteInv
    <3>2. CASE p # free_
      BY <1>6, <2>2, <3>2 DEF MonInv, ByteInv
    <3>3. QED
      BY <3>1, <3>2
  <2>3. QED
    BY <1>1, <1>3, <2>1, <2>2 DEF ByteInv
<1>13. CoverInv'
  BY <1>3, <1>8, <1>9 DEF MonInv, CoverInv
<1>14. ASSUME OneBreakpoint
       PROVE  Live("BREAKPOINT") = {}
  <2>1. use.maxBreakpoints \in Nat /\ use.maxBreakpoints <= 1
    BY <1>14, UseFacts DEF MonInv, TypeInv, OneBreakpoint
  <2>2. QED
    BY <2>1, NoneYet DEF MonInv, CmdB
<1>15. AloneInv'
  <2> SUFFICES ASSUME OneBreakpoint
               PROVE  /\ \A p, q \in Live("BREAKPOINT")' : p = q
                      /\ ~BreaksItself =>
                           /\ \A p \in Live("BREAKPOINT")' : bp'[p].ori_byte = Text[bp'[p].addr]
                           /\ ~(nemu_state' = "BREAK" \/ rerun')
    BY <1>3 DEF AloneInv
  <2>1. Live("BREAKPOINT")' = {free_} /\ BpAddrs = {}
    BY <1>6, <1>14 DEF BpAddrs
  <2>2. mem[a] = Text[a]
    BY <1>4, <2>1 DEF MonInv, CoverInv, OneBreakpoint
  <2>3. ~BreaksItself => ~(nemu_state = "BREAK" \/ rerun)
    BY <1>14 DEF MonInv, AloneInv
  <2>4. QED
    BY <1>1, <1>5, <1>6, <2>1, <2>2, <2>3
<1>16. WatchInv'
  BY <1>1, <1>3, <1>7 DEF MonInv, WatchInv
<1>17. ArmInv'
  <2>1. \A c \in BpAddrs' : c \in BpAddrs \/ c = a
    BY <1>8
  <2>2. BpAddrs \subseteq Addresses
    BY <1>4, UseFacts DEF MonInv, TypeInv, ByteInv, BpAddrs
  <2>3. (\A c \in BpAddrs : mem[c] = INT3) => \A c \in BpAddrs' : mem'[c] = INT3
    BY <1>4, <1>9, <2>1, <2>2
  <2>4. QED
    BY <1>1, <1>3, <2>3 DEF MonInv, ArmInv
<1>18. QED
  BY <1>2, <1>10, <1>11, <1>12, <1>13, <1>15, <1>16, <1>17 DEF MonInv

LEMMA CmdWStep ==
  ASSUME MonInv, CmdW
  PROVE  MonInv'
<1> DEFINE r == [type |-> "WATCHPOINT", addr |-> 0, ori_byte |-> "nop", old_val |-> x]
<1>1. /\ PushNew /\ bp' = [bp EXCEPT ![free_] = r]
      /\ UNCHANGED <<use, mem, eip, x, nemu_state, n, rerun, at>>
  BY DEF CmdW
<1>2. PoolInv'
  <2>1. Next
    BY DEF Next
  <2>2. QED
    BY <2>1, PoolStep DEF MonInv
<1>3. /\ Text' = Text /\ Addresses' = Addresses /\ Records' = Records
      /\ NoDeletion' <=> NoDeletion
      /\ OneBreakpoint' <=> OneBreakpoint
      /\ OneWatchpoint' <=> OneWatchpoint
      /\ BreaksItself' <=> BreaksItself
  BY <1>1, SameUse
<1>4. r \in Records /\ r.type = "WATCHPOINT" /\ r.old_val = x
  BY UseFacts DEF MonInv, TypeInv, Records, Opcodes
<1> HIDE DEF r
<1>5. /\ free_ \in Numbers /\ free_ \notin Live("WATCHPOINT") /\ bp'[free_] = r
      /\ Live("WATCHPOINT")' = Live("WATCHPOINT") \cup {free_}
  <2>1. Live("WATCHPOINT")' = Live("WATCHPOINT") \cup (IF r.type = "WATCHPOINT" THEN {free_} ELSE {})
    BY <1>1, <1>2, NewRecord
  <2>2. QED
    BY <1>1, <1>2, <1>4, <2>1, NewRecord
<1>6. /\ \A p \in Live("BREAKPOINT") : bp'[p] = bp[p]
      /\ Live("BREAKPOINT")' = Live("BREAKPOINT")
  <2>1. Live("BREAKPOINT")' = Live("BREAKPOINT") \cup (IF r.type = "BREAKPOINT" THEN {free_} ELSE {})
    BY <1>1, <1>2, NewRecord
  <2>2. QED
    BY <1>1, <1>2, <1>4, <2>1, NewRecord
<1>7. BpAddrs' = BpAddrs
  BY <1>6 DEF BpAddrs
<1>8. TypeInv'
  <2>1. bp' \in [Numbers -> Records]
    BY <1>1, <1>4, <1>5 DEF MonInv, TypeInv
  <2>2. QED
    BY <1>1, <1>3, <2>1 DEF MonInv, TypeInv
<1>9. RerunInv'
  BY <1>1 DEF MonInv, RerunInv
<1>10. ByteInv'
  BY <1>1, <1>3, <1>6 DEF MonInv, ByteInv
<1>11. CoverInv'
  BY <1>1, <1>3, <1>7 DEF MonInv, CoverInv
<1>12. AloneInv'
  BY <1>1, <1>3, <1>6 DEF MonInv, AloneInv
<1>13. WatchInv'
  <2> SUFFICES ASSUME OneWatchpoint
               PROVE  \A p, q \in Live("WATCHPOINT")' : p = q /\ bp'[p].old_val = x
    BY <1>1, <1>3 DEF WatchInv
  <2>1. use.maxWatchpoints \in Nat /\ use.maxWatchpoints <= 1
    BY UseFacts DEF MonInv, TypeInv, OneWatchpoint
  <2>2. Live("WATCHPOINT") = {}
    BY <2>1, NoneYet DEF MonInv, CmdW
  <2>3. QED
    BY <1>4, <1>5, <2>2
<1>14. ArmInv'
  BY <1>1, <1>3, <1>7 DEF MonInv, ArmInv
<1>15. QED
  BY <1>2, <1>8, <1>9, <1>10, <1>11, <1>12, <1>13, <1>14 DEF MonInv

-----------------------------------------------------------------------------
(* One iteration of exec()'s loop.                                         *)

\* The breakpoints as resume_breakpoints leaves them.
LEMMA Resumed ==
  ASSUME MonInv
  PROVE  /\ ResumedBp \in [Numbers -> Records]
         /\ \A p \in Numbers : /\ ResumedBp[p].type = bp[p].type
                               /\ ResumedBp[p].addr = bp[p].addr
                               /\ ResumedBp[p].old_val = bp[p].old_val
         /\ \A p \in Live("BREAKPOINT") : ResumedBp[p].ori_byte \in {Text[bp[p].addr], INT3}
         /\ \A p \in Live("BREAKPOINT") : Live("BREAKPOINT") = {p} => ResumedBp[p].ori_byte = mem[bp[p].addr]
         /\ ResumedMem \in [Addresses -> Opcodes]
         /\ \A a \in Addresses : ResumedMem[a] = IF a \in BpAddrs THEN INT3 ELSE mem[a]
<1>1. bp \in [Numbers -> Records] /\ mem \in [Addresses -> Opcodes] /\ INT3 \in Opcodes
  BY DEF MonInv, TypeInv, Opcodes
<1>2. Live("BREAKPOINT") \subseteq Numbers
  BY LiveNow DEF MonInv
<1>3. ASSUME NEW p \in Live("BREAKPOINT")
      PROVE  /\ bp[p].addr \in Addresses /\ Saved(p) \in {mem[bp[p].addr], INT3}
             /\ Saved(p) \in Opcodes /\ Saved(p) \in {Text[bp[p].addr], INT3}
  <2>1. bp[p].addr \in Addresses
    BY <1>1, <1>2 DEF Records
  <2>2. Saved(p) \in {mem[bp[p].addr], INT3}
    BY DEF Saved
  <2>3. mem[bp[p].addr] \in {Text[bp[p].addr], INT3}
    BY <2>1 DEF MonInv, ByteInv
  <2>4. QED
    BY <1>1, <2>1, <2>2, <2>3
<1>4. ASSUME NEW p \in Numbers
      PROVE  /\ ResumedBp[p] \in Records
             /\ ResumedBp[p].type = bp[p].type
             /\ ResumedBp[p].addr = bp[p].addr
             /\ ResumedBp[p].old_val = bp[p].old_val
             /\ p \in Live("BREAKPOINT") => ResumedBp[p].ori_byte = Saved(p)
  <2>1. bp[p] \in Records
    BY <1>1
  <2>2. CASE p \in Live("BREAKPOINT")
    <3>1. ResumedBp[p] = [bp[p] EXCEPT !.ori_byte = Saved(p)]
      BY <2>2 DEF ResumedBp
    <3>2. Saved(p) \in Opcodes
      BY <1>3, <2>2
    <3>3. QED
      BY <2>1, <3>1, <3>2 DEF Records
  <2>3. CASE p \notin Live("BREAKPOINT")
    BY <2>1, <2>3 DEF ResumedBp
  <2>4. QED
    BY <2>2, <2>3
<1>5. ResumedBp \in [Numbers -> Records]
  BY <1>4 DEF ResumedBp
<1>6. ASSUME NEW p \in Live("BREAKPOINT"), Live("BREAKPOINT") = {p}
      PROVE  Saved(p) = mem[bp[p].addr]
  <2> DEFINE sharers == {q \in Live("BREAKPOINT") : bp[q].addr = bp[p].addr}
  <2>1. sharers = {p}
    BY <1>6
  <2>2. First(sharers) = p
    <3>1. First(sharers) \in sharers
      <4>1. sharers \subseteq Live("BREAKPOINT") /\ sharers # {}
        BY <2>1
      <4> HIDE DEF sharers
      <4>2. QED
        BY <4>1, FirstIn DEF MonInv
    <3>2. QED
      BY <2>1, <3>1
  <2>3. Saved(p) = IF p = First(sharers) THEN mem[bp[p].addr] ELSE INT3
    BY DEF Saved
  <2>4. QED
    BY <2>2, <2>3
<1>7. /\ ResumedMem \in [Addresses -> Opcodes]
      /\ \A a \in Addresses : ResumedMem[a] = IF a \in BpAddrs THEN INT3 ELSE mem[a]
  BY <1>1 DEF ResumedMem
<1>8. QED
  BY <1>2, <1>3, <1>4, <1>5, <1>6, <1>7

\* What one iteration does: bps and code are the breakpoints and the memory
\* after the instruction and, if it was re-executed, resume_breakpoints.
Iterated(bps, code) ==
  /\ bps \in [Numbers -> Records] /\ code \in [Addresses -> Opcodes]
  /\ \A p \in Numbers : /\ bps[p].type = bp[p].type
                        /\ bps[p].addr = bp[p].addr
                        /\ bps[p].old_val = bp[p].old_val
  /\ \A p \in Live("BREAKPOINT") : bps[p].ori_byte \in {Text[bp[p].addr], INT3}
  /\ IF rerun
     THEN \A p \in Live("BREAKPOINT") :
            Live("BREAKPOINT") = {p} => bps[p].ori_byte = mem[bp[p].addr]
     ELSE bps = bp
  /\ \A a \in Addresses : code[a] = IF rerun /\ a \in BpAddrs THEN INT3 ELSE mem[a]

Stops(bps, code) ==
  /\ mem[eip] = INT3 /\ eip' = eip /\ x' = x
  /\ \E p \in Live("BREAKPOINT") :
       /\ bp[p].addr = eip
       /\ mem' = [code EXCEPT ![eip] = bps[p].ori_byte]

Passes(code) ==
  /\ mem[eip] = INT3 => eip \notin BpAddrs
  /\ mem' = code
  /\ eip' = IF mem[eip] = "jmp" \/ (mem[eip] = "jx" /\ x = 1) THEN 0 ELSE eip + 1
  /\ x' = IF mem[eip] = "inc" THEN 1 - x ELSE x

Notices(bps) ==
  /\ nemu_state' = "READY"
  /\ \E p \in Live("WATCHPOINT") : bp[p].old_val # x' /\ bp' = [bps EXCEPT ![p].old_val = x']

NoticesNot(bps) ==
  /\ bp' = bps
  /\ \A p \in Live("WATCHPOINT") : bp[p].old_val = x'
  /\ nemu_state' = CASE mem[eip] = INT3 -> "BREAK" [] mem[eip] = "trap" -> "STOP" [] OTHER -> "RUN"

LEMMA IterateEffect ==
  ASSUME MonInv, Iterate
  PROVE  \E bps, code :
           /\ Iterated(bps, code)
           /\ Stops(bps, code) \/ Passes(code)
           /\ Notices(bps) \/ NoticesNot(bps)
<1> DEFINE done == Executed
           bps  == IF rerun THEN ResumedBp ELSE bp
           code == IF rerun THEN ResumedMem ELSE mem
           stop == IF done.state = "BREAK" THEN Found(done.eip - 1) ELSE {}
           hit  == Hit(done.x)
           op   == mem[eip]
<1>1. /\ at = "exec" /\ n # 0 /\ nemu_state = "RUN"
      /\ x' = done.x
      /\ IF stop # {}
         THEN /\ eip' = Rewind(done.eip)
              /\ mem' = [code EXCEPT ![bps[First(stop)].addr] = bps[First(stop)].ori_byte]
         ELSE eip' = done.eip /\ mem' = code
      /\ IF hit # {}
         THEN bp' = Noted(bps, First(hit), done.x) /\ nemu_state' = "READY"
         ELSE bp' = bps /\ nemu_state' = done.state
  BY DEF Iterate
<1>2. /\ done.eip = IF op = "jmp" \/ (op = "jx" /\ x = 1) THEN 0 ELSE eip + 1
      /\ done.x = IF op = "inc" THEN 1 - x ELSE x
      /\ done.state = CASE op = INT3 -> "BREAK" [] op = "trap" -> "STOP" [] OTHER -> "RUN"
  BY <1>1 DEF Executed
<1>3. Iterated(bps, code)
  <2>1. CASE rerun
    BY <2>1, Resumed DEF Iterated
  <2>2. CASE ~rerun
    BY <2>2 DEF Iterated, MonInv, TypeInv, ByteInv
  <2>3. QED
    BY <2>1, <2>2
<1>4. eip \in Nat
  BY UseFacts DEF MonInv, TypeInv
<1>5. op = INT3 <=> done.state = "BREAK"
  <2>1. CASE op = INT3
    BY <1>2, <2>1 DEF INT3
  <2>2. CASE op # INT3 /\ op = "trap"
    BY <1>2, <2>2
  <2>3. CASE op # INT3 /\ op # "trap"
    BY <1>2, <2>3
  <2>4. QED
    BY <2>1, <2>2, <2>3
<1>6. op = INT3 => done.eip = eip + 1 /\ done.x = x
  BY <1>2 DEF INT3
<1> HIDE DEF done, bps, code
<1>7. Live("BREAKPOINT") \subseteq Numbers /\ Live("WATCHPOINT") \subseteq Numbers
  BY LiveNow DEF MonInv
<1>8. Stops(bps, code) \/ Passes(code)
  <2>1. CASE stop # {}
    <3>1. op = INT3
      BY <1>5, <2>1
    <3>2. done.eip - 1 = eip
      BY <1>4, <1>6, <3>1
    <3>3. stop = {p \in Live("BREAKPOINT") : bp[p].addr = eip}
      BY <1>5, <3>1, <3>2 DEF Found
    <3> HIDE DEF stop
    <3>4. First(stop) \in stop
      <4>1. stop \subseteq Live("BREAKPOINT")
        BY <3>3
      <4>2. QED
        BY <2>1, <4>1, FirstIn DEF MonInv
    <3>5. First(stop) \in Live("BREAKPOINT") /\ bp[First(stop)].addr = eip
      BY <3>3, <3>4
    <3>6. bps[First(stop)].addr = eip
      BY <1>3, <1>7, <3>5 DEF Iterated
    <3>7. eip' = eip /\ mem' = [code EXCEPT ![eip] = bps[First(stop)].ori_byte]
      BY <1>1, <2>1, <3>2, <3>6 DEF Rewind
    <3>8. x' = x
      BY <1>1, <1>6, <3>1
    <3>9. QED
      BY <3>1, <3>5, <3>7, <3>8 DEF Stops
  <2>2. CASE stop = {}
    <3>1. op = INT3 => eip \notin BpAddrs
      <4>1. op = INT3 => Found(eip) = {}
        <5>1. op = INT3 => done.eip - 1 = eip
          BY <1>4, <1>6
        <5>2. QED
          BY <1>5, <2>2, <5>1
      <4>2. QED
        BY <4>1 DEF Found, BpAddrs
    <3>2. QED
      BY <1>1, <1>2, <2>2, <3>1 DEF Passes
  <2>3. QED
    BY <2>1, <2>2
<1>9. Notices(bps) \/ NoticesNot(bps)
  <2>1. hit = {p \in Live("WATCHPOINT") : bp[p].old_val # x'}
    BY <1>1 DEF Hit
  <2> HIDE DEF hit
  <2>2. CASE hit # {}
    <3>1. First(hit) \in hit
      <4>1. hit \subseteq Live("WATCHPOINT")
        BY <2>1
      <4>2. QED
        BY <2>2, <4>1, FirstIn DEF MonInv
    <3>2. bp' = [bps EXCEPT ![First(hit)].old_val = x'] /\ nemu_state' = "READY"
      BY <1>1, <2>2 DEF Noted
    <3>3. QED
      BY <2>1, <3>1, <3>2 DEF Notices
  <2>3. CASE hit = {}
    BY <1>1, <1>2, <2>1, <2>3 DEF NoticesNot
  <2>4. QED
    BY <2>2, <2>3
<1>10. QED
  BY <1>3, <1>8, <1>9

LEMMA IterateStep ==
  ASSUME MonInv, Iterate
  PROVE  MonInv'
<1>1. /\ at = "exec" /\ n # 0 /\ nemu_state = "RUN"
      /\ n' = (IF n = -1 THEN n ELSE n - 1) /\ ~rerun' /\ rerun' \in BOOLEAN
      /\ UNCHANGED <<poolVars, use, at>>
  BY DEF Iterate
<1>2. PICK bps, code :
        /\ Iterated(bps, code)
        /\ Stops(bps, code) \/ Passes(code)
        /\ Notices(bps) \/ NoticesNot(bps)
  BY IterateEffect
<1>3. PoolInv'
  BY <1>1, SamePool DEF MonInv
<1>4. /\ Text' = Text /\ Addresses' = Addresses /\ Records' = Records
      /\ NoDeletion' <=> NoDeletion
      /\ OneBreakpoint' <=> OneBreakpoint
      /\ OneWatchpoint' <=> OneWatchpoint
      /\ BreaksItself' <=> BreaksItself
  BY <1>1, SameUse
<1>5. Live("BREAKPOINT") \subseteq Numbers /\ Live("WATCHPOINT") \subseteq Numbers
  BY LiveNow DEF MonInv
<1>6. x' \in {0, 1}
  BY <1>2 DEF Stops, Passes, MonInv, TypeInv
<1>7. /\ bp' \in [Numbers -> Records]
      /\ \A p \in Numbers : /\ bp'[p].type = bp[p].type
                            /\ bp'[p].addr = bp[p].addr
                            /\ bp'[p].ori_byte = bps[p].ori_byte
  <2>1. bps \in [Numbers -> Records]
    BY <1>2 DEF Iterated
  <2>2. \A p \in Numbers : bps[p].type = bp[p].type /\ bps[p].addr = bp[p].addr
    BY <1>2 DEF Iterated
  <2>3. CASE NoticesNot(bps)
    BY <2>1, <2>2, <2>3 DEF NoticesNot
  <2>4. ASSUME NEW q \in Live("WATCHPOINT"), bp' = [bps EXCEPT ![q].old_val = x']
        PROVE  /\ bp' \in [Numbers -> Records]
               /\ \A p \in Numbers : /\ bp'[p].type = bps[p].type
                                     /\ bp'[p].addr = bps[p].addr
                                     /\ bp'[p].ori_byte = bps[p].ori_byte
    <3>1. bp' = [bps EXCEPT ![q] = [bps[q] EXCEPT !.old_val = x']] /\ q \in Numbers
      BY <1>5, <2>4
    <3>2. bps[q] \in Records
      BY <2>1, <3>1
    <3>3. [bps[q] EXCEPT !.old_val = x'] \in Records
      BY <1>6, <3>2 DEF Records
    <3>4. bp' \in [Numbers -> Records]
      BY <2>1, <3>1, <3>3
    <3>5. bp'[q] = [bps[q] EXCEPT !.old_val = x'] /\ \A p \in Numbers : p # q => bp'[p] = bps[p]
      BY <2>1, <3>1
    <3>6. bp'[q].type = bps[q].type /\ bp'[q].addr = bps[q].addr /\ bp'[q].ori_byte = bps[q].ori_byte
      BY <3>2, <3>5 DEF Records
    <3>7. QED
      BY <3>4, <3>5, <3>6
  <2>5. QED
    BY <1>2, <2>2, <2>3, <2>4 DEF Notices
<1>8. Live("BREAKPOINT")' = Live("BREAKPOINT") /\ Live("WATCHPOINT")' = Live("WATCHPOINT")
  BY <1>1, <1>3, <1>7, SameLive DEF MonInv, poolVars
<1>9. BpAddrs' = BpAddrs
  <2>1. \A p \in Live("BREAKPOINT") : bp'[p].addr = bp[p].addr
    BY <1>5, <1>7
  <2>2. QED
    BY <1>8, <2>1 DEF BpAddrs
<1>10. BpAddrs \subseteq use.breakAddresses /\ use.breakAddresses \subseteq Addresses
  BY UseFacts DEF MonInv, TypeInv, ByteInv, BpAddrs
<1>11. eip \in Addresses /\ eip \in Nat /\ mem[eip] \in Opcodes
  BY UseFacts DEF MonInv, TypeInv
<1>12. /\ \A a \in Addresses : code[a] = IF rerun /\ a \in BpAddrs THEN INT3 ELSE mem[a]
       /\ \A p \in Live("BREAKPOINT") : bps[p].ori_byte \in {Text[bp[p].addr], INT3}
       /\ code \in [Addresses -> Opcodes]
  BY <1>2 DEF Iterated
<1>13. ASSUME Stops(bps, code)
       PROVE  \E p \in Live("BREAKPOINT") :
                /\ bp[p].addr = eip /\ eip \in BpAddrs
                /\ mem' \in [Addresses -> Opcodes]
                /\ mem'[eip] = bps[p].ori_byte
                /\ \A a \in Addresses : a # eip => mem'[a] = code[a]
  <2>1. PICK p \in Live("BREAKPOINT") : bp[p].addr = eip /\ mem' = [code EXCEPT ![eip] = bps[p].ori_byte]
    BY <1>13 DEF Stops
  <2>2. bps[p].ori_byte \in Opcodes
    BY <1>2, <1>5 DEF Iterated, Records
  <2>3. QED
    BY <1>11, <1>12, <2>1, <2>2 DEF BpAddrs
<1>14. TypeInv'
  <2>1. mem' \in [Addresses -> Opcodes]
    BY <1>2, <1>12, <1>13 DEF Passes
  <2>2. eip' \in Addresses
    <3>1. CASE Stops(bps, code)
      BY <1>11, <3>1 DEF Stops
    <3>2. CASE Passes(code)
      <4>1. 0 \in Addresses
        BY UseFacts DEF MonInv, TypeInv
      <4>2. CASE mem[eip] = "jmp"
        BY <3>2, <4>1, <4>2 DEF Passes
      <4>3. CASE mem[eip] # "jmp"
        <5>1. mem[eip] = Text[eip] \/ eip \in use.breakAddresses
          BY <1>11 DEF MonInv, ByteInv
        <5>2. eip + 1 \in Addresses
          BY <1>11, <4>3, <5>1, UseFacts DEF MonInv, TypeInv
        <5>3. QED
          BY <3>2, <4>1, <5>2 DEF Passes
      <4>4. QED
        BY <4>2, <4>3
    <3>3. QED
      BY <1>2, <3>1, <3>2
  <2>3. n' \in Int
    BY <1>1 DEF MonInv, TypeInv
  <2>4. use \in Uses
    BY DEF MonInv, TypeInv
  <2>5. QED
    BY <1>1, <1>4, <1>6, <1>7, <2>1, <2>2, <2>3, <2>4 DEF TypeInv
<1>15. RerunInv'
  BY <1>1 DEF RerunInv
<1>16. ByteInv'
  <2>1. \A a \in Addresses : code[a] # Text[a] => code[a] = INT3 /\ a \in use.breakAddresses
    BY <1>10, <1>12 DEF MonInv, ByteInv
  <2>2. \A a \in Addresses : mem'[a] # Text[a] => mem'[a] = INT3 /\ a \in use.breakAddresses
    <3>1. CASE Stops(bps, code)
      <4>1. PICK p \in Live("BREAKPOINT") :
              /\ bp[p].addr = eip /\ eip \in BpAddrs
              /\ mem'[eip] = bps[p].ori_byte
              /\ \A a \in Addresses : a # eip => mem'[a] = code[a]
        BY <1>13, <3>1
      <4>2. mem'[eip] \in {Text[eip], INT3}
        BY <1>12, <4>1
      <4>3. QED
        BY <1>10, <2>1, <4>1, <4>2
    <3>2. CASE Passes(code)
      BY <2>1, <3>2 DEF Passes
    <3>3. QED
      BY <1>2, <3>1, <3>2
  <2>3. ASSUME NEW p \in Live("BREAKPOINT")
        PROVE  bp'[p].addr \in use.breakAddresses /\ bp'[p].ori_byte \in {Text[bp'[p].addr], INT3}
    <3>1. bp'[p].addr = bp[p].addr /\ bp'[p].ori_byte = bps[p].ori_byte
      BY <1>5, <1>7
    <3>2. QED
      BY <1>12, <3>1 DEF MonInv, ByteInv
  <2>4. QED
    BY <1>1, <1>4, <1>8, <2>2, <2>3 DEF ByteInv
<1>17. CoverInv'
  <2> SUFFICES ASSUME NoDeletion
               PROVE  \A a \in Addresses : mem'[a] # Text[a] => a \in BpAddrs
    BY <1>4, <1>9 DEF CoverInv
  <2>1. \A a \in Addresses : code[a] # Text[a] => a \in BpAddrs
    BY <1>12 DEF MonInv, CoverInv
  <2>2. CASE Stops(bps, code)
    BY <1>13, <2>1, <2>2
  <2>3. CASE Passes(code)
    BY <2>1, <2>3 DEF Passes
  <2>4. QED
    BY <1>2, <2>2, <2>3
<1>18. AloneInv'
  <2> SUFFICES ASSUME OneBreakpoint
               PROVE  /\ \A p, q \in Live("BREAKPOINT") : p = q
                      /\ ~BreaksItself =>
                           /\ \A p \in Live("BREAKPOINT") : bp'[p].ori_byte = Text[bp'[p].addr]
                           /\ nemu_state' = "BREAK" =>
                                Live("BREAKPOINT") # {} /\ \A a \in Addresses : mem'[a] = Text[a]
    BY <1>1, <1>4, <1>8 DEF AloneInv
  <2>1. \A p, q \in Live("BREAKPOINT") : p = q
    BY DEF MonInv, AloneInv
  <2>2. ASSUME ~BreaksItself, NEW p \in Live("BREAKPOINT")
        PROVE  bps[p].ori_byte = Text[bp[p].addr]
    <3>1. CASE rerun
      <4>1. Live("BREAKPOINT") = {p}
        BY <2>1
      <4>2. bps[p].ori_byte = mem[bp[p].addr]
        BY <1>2, <3>1, <4>1 DEF Iterated
      <4>3. bp[p].addr \in Addresses
        BY <1>10 DEF BpAddrs
      <4>4. QED
        BY <2>2, <3>1, <4>2, <4>3 DEF MonInv, AloneInv
    <3>2. CASE ~rerun
      BY <1>2, <2>2, <3>2 DEF Iterated, MonInv, AloneInv
    <3>3. QED
      BY <3>1, <3>2
  <2>3. ASSUME ~BreaksItself, nemu_state' = "BREAK"
        PROVE  Live("BREAKPOINT") # {} /\ \A a \in Addresses : mem'[a] = Text[a]
    <3>1. NoticesNot(bps) /\ mem[eip] = INT3
      <4>1. NoticesNot(bps)
        BY <1>2, <2>3 DEF Notices
      <4>2. mem[eip] = INT3 \/ (mem[eip] # INT3 /\ mem[eip] = "trap")
              \/ (mem[eip] # INT3 /\ mem[eip] # "trap")
        OBVIOUS
      <4>3. QED
        BY <2>3, <4>1, <4>2 DEF NoticesNot
    <3>2. eip \in BpAddrs
      BY <1>11, <2>3, <3>1 DEF MonInv, CoverInv, OneBreakpoint, BreaksItself
    <3>3. Stops(bps, code)
      BY <1>2, <3>1, <3>2 DEF Passes
    <3>4. PICK p \in Live("BREAKPOINT") :
            /\ bp[p].addr = eip
            /\ mem'[eip] = bps[p].ori_byte
            /\ \A a \in Addresses : a # eip => mem'[a] = code[a]
      BY <1>13, <3>3
    <3>5. \A a \in Addresses : a # eip => a \notin BpAddrs
      BY <2>1, <3>4 DEF BpAddrs
    <3>6. \A a \in Addresses : a # eip => mem'[a] = Text[a]
      BY <1>12, <3>4, <3>5 DEF MonInv, CoverInv, OneBreakpoint
    <3>7. mem'[eip] = Text[eip]
      BY <2>2, <2>3, <3>4
    <3>8. QED
      BY <3>4, <3>6, <3>7
  <2>4. \A p \in Live("BREAKPOINT") : bp'[p].addr = bp[p].addr /\ bp'[p].ori_byte = bps[p].ori_byte
    BY <1>5, <1>7
  <2>5. QED
    BY <2>1, <2>2, <2>3, <2>4
<1>19. WatchInv'
  <2> SUFFICES ASSUME OneWatchpoint
               PROVE  \A p, q \in Live("WATCHPOINT") : p = q /\ bp'[p].old_val = x'
    BY <1>4, <1>8 DEF WatchInv
  <2>1. \A p, q \in Live("WATCHPOINT") : p = q
    BY DEF MonInv, WatchInv
  <2>2. ASSUME NEW p \in Live("WATCHPOINT")
        PROVE  bp'[p].old_val = x'
    <3>1. CASE NoticesNot(bps)
      BY <1>2, <1>5, <3>1 DEF NoticesNot, Iterated
    <3>2. CASE Notices(bps)
      <4>1. PICK q \in Live("WATCHPOINT") : bp' = [bps EXCEPT ![q].old_val = x']
        BY <3>2 DEF Notices
      <4>2. q = p /\ p \in Numbers
        BY <1>5, <2>1
      <4>3. bps \in [Numbers -> Records] /\ bps[p] \in Records
        BY <1>2, <4>2 DEF Iterated
      <4>4. bp'[p] = [bps[p] EXCEPT !.old_val = x']
        BY <4>1, <4>2, <4>3
      <4>5. QED
        BY <4>3, <4>4 DEF Records
    <3>3. QED
      BY <1>2, <3>1, <3>2
  <2>3. QED
    BY <2>1, <2>2
<1>20. ArmInv'
  <2> SUFFICES ASSUME OneWatchpoint, use.steps = {-1}
               PROVE  /\ at' = "exec" => n' = -1
                      /\ nemu_state' = "BREAK" \/ \A a \in BpAddrs : mem'[a] = INT3
    BY <1>1, <1>4, <1>9 DEF ArmInv
  <2>1. n = -1 /\ (rerun \/ \A a \in BpAddrs : mem[a] = INT3)
    BY <1>1 DEF MonInv, ArmInv
  <2>2. CASE Stops(bps, code)
    <3>1. ~Notices(bps)
      BY <2>2 DEF Notices, Stops, MonInv, WatchInv
    <3>2. nemu_state' = "BREAK"
      BY <1>2, <2>2, <3>1 DEF NoticesNot, Stops, INT3
    <3>3. QED
      BY <1>1, <2>1, <3>2
  <2>3. CASE Passes(code)
    <3>1. \A a \in BpAddrs : code[a] = INT3
      BY <1>10, <1>12, <2>1
    <3>2. QED
      BY <1>1, <2>1, <2>3, <3>1 DEF Passes
  <2>4. QED
    BY <1>2, <2>2, <2>3
<1>21. QED
  BY <1>3, <1>14, <1>15, <1>16, <1>17, <1>18, <1>19, <1>20 DEF MonInv

-----------------------------------------------------------------------------
(* The theorems.                                                           *)

LEMMA MonStep ==
  ASSUME MonInv, [Next]_vars
  PROVE  MonInv'
<1>1. CASE PoolExhausted \/ CmdExec \/ Leave \/ Terminated \/ UNCHANGED vars
  BY <1>1, QuietSteps
<1>2. CASE CmdDAll \/ \E no \in Numbers : CmdD(no)
  BY <1>2, DropSteps
<1>3. CASE \E a \in use.breakAddresses : CmdB(a)
  BY <1>3, CmdBStep
<1>4. CASE CmdW
  BY <1>4, CmdWStep
<1>5. CASE Iterate
  BY <1>5, IterateStep
<1>6. QED
  BY <1>1, <1>2, <1>3, <1>4, <1>5 DEF Next

THEOREM MonInvariant == Spec => []MonInv
<1>1. MonInv /\ [Next]_vars => MonInv'
  BY MonStep
<1>2. QED
  BY <1>1, MonInit, PTL DEF Spec

\* With one breakpoint the guest's code is intact but for the INT3 of that
\* breakpoint, whose record holds the byte that belongs there.
THEOREM CodeStaysIntact == Spec => []CodeIntact
<1>1. MonInv => CodeIntact
  <2> SUFFICES ASSUME MonInv, OneBreakpoint, ~BreaksItself, NEW a \in Addresses, mem[a] # Text[a]
               PROVE  mem[a] = INT3 /\ \E p \in Live("BREAKPOINT") :
                                          bp[p].addr = a /\ bp[p].ori_byte = Text[a]
    BY DEF CodeIntact
  <2>1. mem[a] = INT3 /\ a \in BpAddrs
    BY DEF MonInv, ByteInv, CoverInv, OneBreakpoint
  <2>2. PICK p \in Live("BREAKPOINT") : bp[p].addr = a
    BY <2>1 DEF BpAddrs
  <2>3. QED
    BY <2>1, <2>2 DEF MonInv, AloneInv
<1>2. QED
  BY <1>1, MonInvariant, PTL

\* No breakpoint is passed over: all of them, however many there are, and
\* whichever are deleted, are armed while c runs the guest.
THEOREM BreakpointsArmed == Spec => []ArmedWhileRunning
<1>1. MonInv => ArmedWhileRunning
  BY DEF MonInv, ArmInv, ArmedWhileRunning
<1>2. QED
  BY <1>1, MonInvariant, PTL

\* The guest never runs on with a watched value that has changed.
THEOREM ChangesNoticed == Spec => []NoMissedChange
<1>1. MonInv => NoMissedChange
  BY DEF MonInv, WatchInv, NoMissedChange
<1>2. QED
  BY <1>1, MonInvariant, PTL

\* Only an iteration changes eip or x.
LEMMA CommandsKeepGuest ==
  ASSUME [Next]_vars, ~Iterate
  PROVE  eip' = eip /\ x' = x
BY DEF Next, vars, CmdB, CmdD, CmdW, PoolExhausted, CmdDAll, CmdExec, Leave, Terminated

\* Without deletions the guest computes what it computes without a monitor,
\* with any number of breakpoints, even on the same address.
THEOREM GuestRunsUnaware == Spec => GuestUnaware
<1>1. ASSUME MonInv, [Next]_vars
      PROVE  [NoDeletion => Guest!Execute]_<<eip, x>>
  <2> SUFFICES ASSUME NoDeletion, ~(eip' = eip /\ x' = x)
               PROVE  Guest!Execute
    OBVIOUS
  <2>1. Iterate
    BY <1>1, CommandsKeepGuest
  <2>2. PICK bps, code : Stops(bps, code) \/ Passes(code)
    BY <1>1, <2>1, IterateEffect
  <2>3. Passes(code)
    BY <2>2 DEF Stops
  <2>4. mem[eip] = Text[eip]
    BY <1>1, <2>3 DEF MonInv, TypeInv, ByteInv, CoverInv, Passes
  <2>5. Text' = Text
    BY <2>1, SameUse DEF Iterate
  <2>6. QED
    BY <2>3, <2>4, <2>5 DEF Passes, Guest!Execute
<1>2. QED
  BY <1>1, MonInvariant, PTL DEF Spec, GuestUnaware

\* A guest that traps ends the run.
THEOREM TrapEndsTheRun == Spec => TrapStops
<1>1. ASSUME MonInv, [Next]_vars
      PROVE  [NoDeletion /\ OneWatchpoint /\ Text[eip] = "trap" /\ eip' = eip + 1
                => nemu_state' = "STOP"]_vars
  <2> SUFFICES ASSUME NoDeletion, OneWatchpoint, Text[eip] = "trap", eip' = eip + 1
               PROVE  nemu_state' = "STOP"
    OBVIOUS
  <2>1. eip \in Addresses /\ eip \in Nat /\ eip' # eip
    BY <1>1, UseFacts DEF MonInv, TypeInv
  <2>2. Iterate
    BY <1>1, <2>1, CommandsKeepGuest
  <2>3. PICK bps, code :
          /\ Stops(bps, code) \/ Passes(code)
          /\ Notices(bps) \/ NoticesNot(bps)
    BY <1>1, <2>2, IterateEffect
  <2>4. Passes(code)
    BY <2>1, <2>3 DEF Stops
  <2>5. mem[eip] = "trap"
    BY <1>1, <2>1, <2>4 DEF MonInv, ByteInv, CoverInv, Passes
  <2>6. x' = x
    BY <2>4, <2>5 DEF Passes
  <2>7. NoticesNot(bps)
    BY <1>1, <2>3, <2>6 DEF Notices, MonInv, WatchInv
  <2>8. QED
    BY <2>5, <2>7 DEF NoticesNot, INT3
<1>2. QED
  BY <1>1, MonInvariant, PTL DEF Spec, TrapStops
=============================================================================
