------------------------ MODULE MatchmakerQueueProofs ------------------------
(***************************************************************************)
(* Proofs about MatchmakerQueue for any users, modes and sizes of matches,    *)
(* any unit of the clock and any number of entries, ticks and restarts.       *)
(***************************************************************************)
EXTENDS MatchmakerQueue, FiniteSetTheorems, WellFoundedInduction, SequenceTheorems, TLAPS

LEMMA LessIs == OpToRel(<, Nat) = {s \in Nat \X Nat : s[1] < s[2]}
  BY Zenon DEF OpToRel

(* Every non-empty set of naturals has a least element.                        *)
LEMMA Least ==
  ASSUME NEW T \in SUBSET Nat, T # {}
  PROVE  \E x \in T : \A y \in T : x <= y
<1> DEFINE R == {s \in Nat \X Nat : s[1] < s[2]}
<1>1. IsWellFoundedOn(R, Nat)
  BY NatLessThanWellFounded, LessIs, Zenon
<1>2. PICK x \in T : \A y \in T : ~(<<y, x>> \in R)
  BY <1>1, WFMin, Zenon
<1>3. ASSUME NEW y \in T PROVE x <= y
  <2>1. <<y, x>> \notin R
    BY <1>2
  <2> QED
    BY <2>1
<1> QED
  BY <1>3

(* A set that holds the successor of each of its elements below n, and 0,      *)
(* holds all of 0..n: what induction there is without an operator parameter.    *)
LEMMA UpTo ==
  ASSUME NEW n \in Nat, NEW T, 0 \in T, \A i \in 0..(n - 1) : i \in T => i + 1 \in T
  PROVE  \A i \in 0..n : i \in T
<1> SUFFICES ASSUME {i \in 0..n : i \notin T} # {} PROVE FALSE
  OBVIOUS
<1>1. PICK x \in {i \in 0..n : i \notin T} : \A y \in {i \in 0..n : i \notin T} : x <= y
  <2>1. {i \in 0..n : i \notin T} \in SUBSET Nat
    OBVIOUS
  <2> QED
    BY <2>1, Least
<1>2. x # 0 /\ x - 1 \in 0..(n - 1) /\ x - 1 \in 0..n
  BY <1>1
<1>3. x - 1 \in T
  BY <1>1, <1>2
<1>4. (x - 1) + 1 = x
  BY <1>1
<1> QED
  BY <1>1, <1>2, <1>3, <1>4

-----------------------------------------------------------------------------
(* What Remaining keeps of the first n entries of q.                          *)
Kept(q, P, n, f) ==
    f = [i \in 0..n |-> IF i = 0 THEN <<>>
                        ELSE IF q[i].id \in P THEN f[i - 1] ELSE Append(f[i - 1], q[i])]

LEMMA KeptExists ==
  ASSUME NEW q, NEW P, NEW n \in Nat
  PROVE  \E f : Kept(q, P, n, f)
<1> DEFINE T == {i \in Nat : \E f : Kept(q, P, i, f)}
<1>1. 0 \in T
  <2> DEFINE g == [i \in 0..0 |-> <<>>]
  <2>1. Kept(q, P, 0, g)
    BY DEF Kept
  <2> QED
    BY <2>1
<1>2. ASSUME NEW i \in 0..(n - 1), i \in T PROVE i + 1 \in T
  <2>1. PICK f : Kept(q, P, i, f)
    BY <1>2
  <2> DEFINE last == IF q[i + 1].id \in P THEN f[i] ELSE Append(f[i], q[i + 1])
  <2> DEFINE g == [j \in 0..(i + 1) |-> IF j = i + 1 THEN last ELSE f[j]]
  <2>2. g[i + 1] = last /\ \A j \in 0..i : g[j] = f[j]
    OBVIOUS
  <2>3. \A j \in 0..(i + 1) : g[j] = IF j = 0 THEN <<>>
                        ELSE IF q[j].id \in P THEN g[j - 1] ELSE Append(g[j - 1], q[j])
    <3> SUFFICES ASSUME NEW j \in 0..(i + 1)
                 PROVE  g[j] = IF j = 0 THEN <<>>
                        ELSE IF q[j].id \in P THEN g[j - 1] ELSE Append(g[j - 1], q[j])
      OBVIOUS
    <3> HIDE DEF g
    <3>1. CASE j = i + 1
      <4>1. j # 0 /\ j - 1 = i /\ g[i] = f[i]
        BY <2>2, <3>1
      <4> QED
        BY <2>2, <3>1, <4>1
    <3>2. CASE j \in 0..i
      <4>1. f[j] = IF j = 0 THEN <<>>
                        ELSE IF q[j].id \in P THEN f[j - 1] ELSE Append(f[j - 1], q[j])
        BY <2>1, <3>2 DEF Kept
      <4>2. g[j] = f[j] /\ (j # 0 => g[j - 1] = f[j - 1])
        BY <2>2, <3>2
      <4> QED
        BY <4>1, <4>2
    <3> QED
      BY <3>1, <3>2
  <2>4. g = [j \in 0..(i + 1) |-> g[j]]
    OBVIOUS
  <2> HIDE DEF g
  <2>5. Kept(q, P, i + 1, g)
    BY <2>3, <2>4 DEF Kept
  <2> QED
    BY <2>5
<1> HIDE DEF T
<1>3. n \in T
  BY <1>1, <1>2, UpTo
<1> QED
  BY <1>3 DEF T

(* pos says where each entry of r stands among the first n of q: nothing else   *)
(* than the entries of P is missing, and the order is the same.                *)
Picks(q, r, pos, n, P) ==
    /\ \A k, l \in 1..Len(r) : k < l => pos[k] < pos[l]
    /\ \A k \in 1..Len(r) : pos[k] \in 1..n /\ r[k] = q[pos[k]] /\ q[pos[k]].id \notin P
    /\ \A j \in 1..n : q[j].id \notin P => \E k \in 1..Len(r) : pos[k] = j

LEMMA PicksNext ==
  ASSUME NEW S, NEW q \in Seq(S), NEW P, NEW n \in Nat, n + 1 <= Len(q), NEW r \in Seq(S),
         NEW pos, Picks(q, r, pos, n, P), q[n + 1].id \notin P
  PROVE  /\ Append(r, q[n + 1]) \in Seq(S)
         /\ \E p : Picks(q, Append(r, q[n + 1]), p, n + 1, P)
<1> DEFINE r2 == Append(r, q[n + 1])
<1> DEFINE p == [k \in 1..(Len(r) + 1) |-> IF k = Len(r) + 1 THEN n + 1 ELSE pos[k]]
<1>1. q[n + 1] \in S
  OBVIOUS
<1>2. /\ r2 \in Seq(S) /\ Len(r2) = Len(r) + 1 /\ Len(r) \in Nat
      /\ r2[Len(r) + 1] = q[n + 1] /\ \A k \in 1..Len(r) : r2[k] = r[k]
  BY <1>1
<1>3. p[Len(r) + 1] = n + 1 /\ \A k \in 1..Len(r) : p[k] = pos[k]
  BY <1>2
<1> HIDE DEF r2, p
<1>4. \A k \in 1..Len(r2) : k = Len(r) + 1 \/ k \in 1..Len(r)
  BY <1>2
<1>5. \A k \in 1..Len(r) : pos[k] \in 1..n
  BY DEF Picks
<1>6. \A k, l \in 1..Len(r2) : k < l => p[k] < p[l]
  <2> SUFFICES ASSUME NEW k \in 1..Len(r2), NEW l \in 1..Len(r2), k < l PROVE p[k] < p[l]
    OBVIOUS
  <2>1. k \in 1..Len(r)
    BY <1>2, <1>4
  <2>2. CASE l = Len(r) + 1
    BY <1>3, <1>5, <2>1, <2>2
  <2>3. CASE l \in 1..Len(r)
    BY <1>3, <2>1, <2>3 DEF Picks
  <2> QED
    BY <1>4, <2>2, <2>3
<1>7. \A k \in 1..Len(r2) : p[k] \in 1..(n + 1) /\ r2[k] = q[p[k]] /\ q[p[k]].id \notin P
  <2> SUFFICES ASSUME NEW k \in 1..Len(r2)
               PROVE  p[k] \in 1..(n + 1) /\ r2[k] = q[p[k]] /\ q[p[k]].id \notin P
    OBVIOUS
  <2>1. CASE k = Len(r) + 1
    BY <1>2, <1>3, <2>1
  <2>2. CASE k \in 1..Len(r)
    <3>1. pos[k] \in 1..n /\ r[k] = q[pos[k]] /\ q[pos[k]].id \notin P
      BY <2>2 DEF Picks
    <3> QED
      BY <1>2, <1>3, <2>2, <3>1
  <2> QED
    BY <1>4, <2>1, <2>2
<1>8. \A j \in 1..(n + 1) : q[j].id \notin P => \E k \in 1..Len(r2) : p[k] = j
  <2> SUFFICES ASSUME NEW j \in 1..(n + 1), q[j].id \notin P
               PROVE  \E k \in 1..Len(r2) : p[k] = j
    OBVIOUS
  <2>1. CASE j = n + 1
    BY <1>2, <1>3, <2>1
  <2>2. CASE j \in 1..n
    <3>1. PICK k \in 1..Len(r) : pos[k] = j
      BY <2>2 DEF Picks
    <3> QED
      BY <1>2, <1>3, <3>1
  <2> QED
    BY <2>1, <2>2
<1>9. Picks(q, r2, p, n + 1, P)
  BY <1>6, <1>7, <1>8 DEF Picks
<1> QED
  BY <1>2, <1>9 DEF r2

LEMMA RemainingIs ==
  ASSUME NEW S, NEW q \in Seq(S), NEW P
  PROVE  LET r == Remaining(q, P)
         IN  r \in Seq(S) /\ \E pos : Picks(q, r, pos, Len(q), P)
<1> DEFINE f == CHOOSE g : Kept(q, P, Len(q), g)
<1>0. Len(q) \in Nat
  OBVIOUS
<1>1. Kept(q, P, Len(q), f)
  <2>1. \E g : Kept(q, P, Len(q), g)
    BY <1>0, KeptExists
  <2> QED
    BY <2>1
<1>2. Remaining(q, P) = f[Len(q)]
  BY Zenon DEF Remaining, Kept
<1> HIDE DEF f
<1> DEFINE T == {i \in 0..Len(q) : f[i] \in Seq(S) /\ \E pos : Picks(q, f[i], pos, i, P)}
<1>3. 0 \in T
  <2>1. f[0] = <<>>
    BY <1>1 DEF Kept
  <2>2. Picks(q, f[0], <<>>, 0, P) /\ f[0] \in Seq(S)
    BY <2>1 DEF Picks
  <2> QED
    BY <2>2
<1>4. ASSUME NEW i \in 0..(Len(q) - 1), i \in T PROVE i + 1 \in T
  <2>1. f[i + 1] = IF q[i + 1].id \in P THEN f[i] ELSE Append(f[i], q[i + 1])
    <3>1. i + 1 \in 0..Len(q) /\ i + 1 # 0 /\ (i + 1) - 1 = i
      BY <1>0
    <3>2. \A j \in 0..Len(q) : f[j] = IF j = 0 THEN <<>>
                        ELSE IF q[j].id \in P THEN f[j - 1] ELSE Append(f[j - 1], q[j])
      BY <1>1 DEF Kept
    <3> QED
      BY <3>1, <3>2
  <2>2. PICK pos : f[i] \in Seq(S) /\ Picks(q, f[i], pos, i, P)
    BY <1>4
  <2>5. i \in Nat /\ i + 1 <= Len(q) /\ i + 1 \in 0..Len(q)
    BY <1>0
  <2>3. CASE q[i + 1].id \in P
    <3>1. Picks(q, f[i], pos, i + 1, P)
      BY <2>2, <2>3 DEF Picks
    <3> QED
      BY <2>1, <2>2, <2>3, <2>5, <3>1
  <2>4. CASE q[i + 1].id \notin P
    <3>1. /\ Append(f[i], q[i + 1]) \in Seq(S)
          /\ \E p : Picks(q, Append(f[i], q[i + 1]), p, i + 1, P)
      BY <2>2, <2>4, <2>5, PicksNext
    <3> QED
      BY <2>1, <2>4, <2>5, <3>1
  <2> QED
    BY <2>3, <2>4
<1> HIDE DEF T
<1>5. Len(q) \in T
  <2>1. \A i \in 0..(Len(q) - 1) : i \in T => i + 1 \in T
    BY <1>4
  <2>2. \A i \in 0..Len(q) : i \in T
    BY <1>0, <1>3, <2>1, UpTo
  <2> QED
    BY <1>0, <2>2
<1> QED
  BY <1>2, <1>5 DEF T

-----------------------------------------------------------------------------
Named(E, m) == {e.id : e \in {x \in E : m \in x.modes}}
OneEach(E) == \A e, f \in E : e.id = f.id => e = f
Distinct(q) == \A i, j \in DOMAIN q : q[i].id = q[j].id => i = j
Sorted(q) == \A i, j \in DOMAIN q : i < j => q[i].time <= q[j].time

LEMMA EntryFinite ==
  ASSUME NEW S, NEW q \in Seq(S)
  PROVE  IsFiniteSet(Entry(q)) /\ Entry(q) \subseteq S
<1> DEFINE f == [i \in 1..Len(q) |-> q[i]]
<1>1. DOMAIN q = 1..Len(q) /\ Len(q) \in Nat
  OBVIOUS
<1>2. f \in Surjection(1..Len(q), Entry(q))
  BY <1>1 DEF Surjection, Entry
<1>3. IsFiniteSet(1..Len(q))
  BY <1>1, FS_Interval
<1>4. IsFiniteSet(Entry(q))
  BY <1>2, <1>3, FS_Surjection
<1>5. \A i \in 1..Len(q) : q[i] \in S
  OBVIOUS
<1> QED
  BY <1>1, <1>4, <1>5 DEF Entry

LEMMA NamedFinite ==
  ASSUME NEW E, IsFiniteSet(E), NEW m
  PROVE  IsFiniteSet(Named(E, m)) /\ Cardinality(Named(E, m)) \in Nat
<1> DEFINE D == {x \in E : m \in x.modes}
<1> DEFINE f == [x \in D |-> x.id]
<1>1. IsFiniteSet(D)
  BY FS_Subset
<1>2. f \in Surjection(D, Named(E, m))
  BY DEF Surjection, Named
<1>3. IsFiniteSet(Named(E, m))
  BY <1>1, <1>2, FS_Surjection
<1> QED
  BY <1>3, FS_CardinalityType

LEMMA NamedAdd ==
  ASSUME NEW E, IsFiniteSet(E), NEW e, e.id \notin {x.id : x \in E}, NEW m
  PROVE  Cardinality(Named(E \union {e}, m))
           = IF m \in e.modes THEN Cardinality(Named(E, m)) + 1 ELSE Cardinality(Named(E, m))
<1>1. CASE m \in e.modes
  <2>1. Named(E \union {e}, m) = Named(E, m) \union {e.id}
    BY <1>1 DEF Named
  <2>2. e.id \notin Named(E, m)
    BY DEF Named
  <2> QED
    BY <1>1, <2>1, <2>2, NamedFinite, FS_AddElement
<1>2. CASE m \notin e.modes
  <2>1. Named(E \union {e}, m) = Named(E, m)
    BY <1>2 DEF Named
  <2> QED
    BY <1>2, <2>1
<1> QED
  BY <1>1, <1>2

Holding(D, m) == {e \in D : m \in e.modes}

LEMMA NamedDrop ==
  ASSUME NEW E, IsFiniteSet(E), OneEach(E), NEW D \in SUBSET E, NEW m
  PROVE  /\ Cardinality(Holding(D, m)) \in Nat
         /\ Cardinality(Named(E, m)) \in Nat
         /\ Cardinality(Named(E \ D, m))
              = Cardinality(Named(E, m)) - Cardinality(Holding(D, m))
         /\ Cardinality(Named(E, m)) - Cardinality(Holding(D, m)) \in Nat
<1> DEFINE L == {e \in D : m \in e.modes}
<1> DEFINE f == [e \in L |-> e.id]
<1>1. IsFiniteSet(D) /\ IsFiniteSet(L) /\ IsFiniteSet(E \ D)
  <2>1. IsFiniteSet(D) /\ IsFiniteSet(E \ D)
    BY FS_Subset
  <2> QED
    BY <2>1, FS_Subset
<1>2. f \in Bijection(L, Named(D, m))
  <2>1. f \in Surjection(L, Named(D, m))
    BY DEF Surjection, Named
  <2>2. \A x, y \in L : f[x] = f[y] => x = y
    BY DEF OneEach
  <2> QED
    BY <2>1, <2>2 DEF Bijection, Injection, IsInjective, Surjection
<1>3. Cardinality(L) = Cardinality(Named(D, m)) /\ Cardinality(L) \in Nat
  BY <1>1, <1>2, FS_Bijection, FS_CardinalityType DEF ExistsBijection
<1>4. Named(E, m) = Named(E \ D, m) \union Named(D, m)
  BY DEF Named
<1>5. Named(E \ D, m) \cap Named(D, m) = {}
  BY DEF Named, OneEach
<1>6. /\ IsFiniteSet(Named(E \ D, m)) /\ Cardinality(Named(E \ D, m)) \in Nat
      /\ IsFiniteSet(Named(D, m)) /\ Cardinality(Named(E, m)) \in Nat
  BY <1>1, NamedFinite
<1>7. Cardinality(Named(E, m))
        = Cardinality(Named(E \ D, m)) + Cardinality(Named(D, m)) - Cardinality({})
  BY <1>4, <1>5, <1>6, FS_Union
<1> HIDE DEF f, L
<1>8. Cardinality(Named(E \ D, m)) = Cardinality(Named(E, m)) - Cardinality(L)
  BY <1>3, <1>6, <1>7, FS_EmptySet
<1> QED
  BY <1>3, <1>6, <1>8 DEF L, Holding

(* What holds of a queue of which Picks kept some entries.                     *)
LEMMA PickedKeeps ==
  ASSUME NEW S, NEW q \in Seq(S), NEW r \in Seq(S), NEW P, NEW pos, Picks(q, r, pos, Len(q), P)
  PROVE  /\ Entry(r) = {e \in Entry(q) : e.id \notin P}
         /\ Distinct(q) => Distinct(r)
         /\ Sorted(q) => Sorted(r)
         /\ \A i, j \in DOMAIN r : i < j =>
              \E k, l \in DOMAIN q : k < l /\ q[k] = r[i] /\ q[l] = r[j]
<1>1. DOMAIN q = 1..Len(q) /\ DOMAIN r = 1..Len(r) /\ Len(q) \in Nat /\ Len(r) \in Nat
  OBVIOUS
<1>2. \A i \in DOMAIN r : pos[i] \in DOMAIN q /\ r[i] = q[pos[i]] /\ q[pos[i]].id \notin P
  BY <1>1 DEF Picks
<1>3. \A i, j \in DOMAIN r : i < j => pos[i] < pos[j]
  BY <1>1 DEF Picks
<1>4. \A j \in DOMAIN q : q[j].id \notin P => \E i \in DOMAIN r : pos[i] = j
  BY <1>1 DEF Picks
<1>5. Entry(r) = {e \in Entry(q) : e.id \notin P}
  BY <1>2, <1>4 DEF Entry
<1>6. Distinct(q) => Distinct(r)
  <2> SUFFICES ASSUME Distinct(q), NEW i \in DOMAIN r, NEW j \in DOMAIN r, r[i].id = r[j].id
               PROVE  i = j
    BY DEF Distinct
  <2>1. pos[i] = pos[j]
    BY <1>2 DEF Distinct
  <2>2. i \in Nat /\ j \in Nat /\ pos[i] \in Nat /\ pos[j] \in Nat
    BY <1>1, <1>2
  <2> QED
    BY <1>3, <2>1, <2>2
<1>7. Sorted(q) => Sorted(r)
  BY <1>2, <1>3 DEF Sorted
<1>8. \A i, j \in DOMAIN r : i < j =>
        \E k, l \in DOMAIN q : k < l /\ q[k] = r[i] /\ q[l] = r[j]
  BY <1>2, <1>3
<1> QED
  BY <1>5, <1>6, <1>7, <1>8

(* e is at i in r, and around it is q.                                         *)
Inserted(q, i, e, r) ==
    /\ i \in 1..(Len(q) + 1)
    /\ Len(r) = Len(q) + 1
    /\ \A j \in 1..Len(r) : r[j] = IF j < i THEN q[j] ELSE IF j = i THEN e ELSE q[j - 1]

LEMMA InsertedIs ==
  ASSUME NEW S, NEW q \in Seq(S), NEW e \in S, NEW i \in 1..(Len(q) + 1)
  PROVE  LET r == SubSeq(q, 1, i - 1) \o <<e>> \o SubSeq(q, i, Len(q))
         IN  r \in Seq(S) /\ Inserted(q, i, e, r)
<1> DEFINE a == SubSeq(q, 1, i - 1)
<1> DEFINE b == SubSeq(q, i, Len(q))
<1> DEFINE c == a \o <<e>>
<1>1. Len(q) \in Nat /\ i \in Nat
  OBVIOUS
<1>2. a \in Seq(S) /\ Len(a) = i - 1 /\ \A j \in 1..(i - 1) : a[j] = q[j]
  OBVIOUS
<1>3. b \in Seq(S) /\ Len(b) = Len(q) - i + 1 /\ \A j \in 1..(Len(q) - i + 1) : b[j] = q[i + j - 1]
  OBVIOUS
<1> HIDE DEF a, b
<1>4. c \in Seq(S) /\ Len(c) = i /\ c[i] = e /\ \A j \in 1..(i - 1) : c[j] = a[j]
  BY <1>2
<1> DEFINE r == c \o b
<1> HIDE DEF c
<1>5. /\ r \in Seq(S) /\ Len(r) = Len(q) + 1
      /\ \A j \in 1..i : r[j] = c[j]
      /\ \A j \in (i + 1)..(Len(q) + 1) : r[j] = b[j - i]
  BY <1>1, <1>3, <1>4
<1>6. \A j \in 1..Len(r) : r[j] = IF j < i THEN q[j] ELSE IF j = i THEN e ELSE q[j - 1]
  <2> HIDE DEF r
  <2> SUFFICES ASSUME NEW j \in 1..Len(r)
               PROVE  r[j] = IF j < i THEN q[j] ELSE IF j = i THEN e ELSE q[j - 1]
    OBVIOUS
  <2>1. CASE j < i
    BY <1>1, <1>2, <1>4, <1>5, <2>1
  <2>2. CASE j = i
    BY <1>1, <1>4, <1>5, <2>2
  <2>3. CASE j > i
    <3>1. j - i \in 1..(Len(q) - i + 1) /\ i + (j - i) - 1 = j - 1 /\ j \in (i + 1)..(Len(q) + 1)
      BY <1>1, <1>5, <2>3
    <3> QED
      BY <1>3, <1>5, <2>3, <3>1
  <2> QED
    BY <1>1, <2>1, <2>2, <2>3
<1> QED
  BY <1>5, <1>6 DEF Inserted, a, b, c

LEMMA AppendedIs ==
  ASSUME NEW S, NEW q \in Seq(S), NEW e \in S
  PROVE  Append(q, e) \in Seq(S) /\ Inserted(q, Len(q) + 1, e, Append(q, e))
  BY DEF Inserted

LEMMA InsertedKeeps ==
  ASSUME NEW S, NEW q \in Seq(S), NEW r \in Seq(S), NEW i, NEW e, Inserted(q, i, e, r)
  PROVE  /\ Entry(r) = Entry(q) \union {e}
         /\ Distinct(q) /\ e.id \notin {x.id : x \in Entry(q)} => Distinct(r)
<1>1. DOMAIN q = 1..Len(q) /\ DOMAIN r = 1..(Len(q) + 1) /\ Len(q) \in Nat /\ i \in 1..(Len(q) + 1)
  BY DEF Inserted
<1> DEFINE from(j) == IF j < i THEN j ELSE j - 1
<1>2. \A j \in DOMAIN r : j # i => from(j) \in DOMAIN q /\ r[j] = q[from(j)]
  BY <1>1 DEF Inserted
<1>3. r[i] = e
  BY <1>1 DEF Inserted
<1>4. \A j \in DOMAIN q : \E k \in DOMAIN r : k # i /\ from(k) = j
  <2> SUFFICES ASSUME NEW j \in DOMAIN q PROVE \E k \in DOMAIN r : k # i /\ from(k) = j
    OBVIOUS
  <2>1. CASE j < i
    BY <1>1, <2>1
  <2>2. CASE ~(j < i)
    <3>1. j + 1 \in DOMAIN r /\ j + 1 # i /\ from(j + 1) = j
      BY <1>1, <2>2
    <3> QED
      BY <3>1
  <2> QED
    BY <2>1, <2>2
<1>5. \A j, k \in DOMAIN r : j # i /\ k # i /\ from(j) = from(k) => j = k
  BY <1>1
<1> HIDE DEF from
<1>6. Entry(r) = Entry(q) \union {e}
  <2>1. i \in DOMAIN r
    BY <1>1
  <2> QED
    BY <1>2, <1>3, <1>4, <2>1 DEF Entry
<1>7. ASSUME Distinct(q), e.id \notin {x.id : x \in Entry(q)} PROVE Distinct(r)
  <2> SUFFICES ASSUME NEW j \in DOMAIN r, NEW k \in DOMAIN r, r[j].id = r[k].id PROVE j = k
    BY DEF Distinct
  <2>1. \A l \in DOMAIN q : q[l].id # e.id
    BY <1>7 DEF Entry
  <2>2. (j = i) <=> (k = i)
    BY <1>2, <1>3, <2>1
  <2> QED
    BY <1>2, <1>5, <1>7, <2>2 DEF Distinct
<1> QED
  BY <1>6, <1>7

-----------------------------------------------------------------------------
LEMMA RemovedIs ==
  ASSUME NEW S, NEW q \in Seq(S), NEW i \in DOMAIN q, Distinct(q)
  PROVE  LET r == SubSeq(q, 1, i - 1) \o SubSeq(q, i + 1, Len(q))
         IN  r \in Seq(S) /\ \E pos : Picks(q, r, pos, Len(q), {q[i].id})
<1> DEFINE a == SubSeq(q, 1, i - 1)
<1> DEFINE b == SubSeq(q, i + 1, Len(q))
<1>1. Len(q) \in Nat /\ i \in Nat /\ i \in 1..Len(q) /\ DOMAIN q = 1..Len(q)
  OBVIOUS
<1>2. a \in Seq(S) /\ Len(a) = i - 1 /\ \A j \in 1..(i - 1) : a[j] = q[j]
  OBVIOUS
<1>3. b \in Seq(S) /\ Len(b) = Len(q) - i /\ \A j \in 1..(Len(q) - i) : b[j] = q[i + j]
  OBVIOUS
<1> HIDE DEF a, b
<1> DEFINE r == a \o b
<1>4. /\ r \in Seq(S) /\ Len(r) = Len(q) - 1
      /\ \A j \in 1..(i - 1) : r[j] = a[j]
      /\ \A j \in i..(Len(q) - 1) : r[j] = b[j - (i - 1)]
  <2>1. /\ r \in Seq(S) /\ Len(r) = Len(a) + Len(b)
        /\ \A j \in 1..Len(a) : r[j] = a[j]
        /\ \A j \in (Len(a) + 1)..(Len(a) + Len(b)) : r[j] = b[j - Len(a)]
    <3>1. \A u, v \in Seq(S) :
            /\ u \o v \in Seq(S) /\ Len(u \o v) = Len(u) + Len(v)
            /\ \A j \in 1..Len(u) : (u \o v)[j] = u[j]
            /\ \A j \in (Len(u) + 1)..(Len(u) + Len(v)) : (u \o v)[j] = v[j - Len(u)]
      OBVIOUS
    <3> QED
      BY <1>2, <1>3, <3>1
  <2> HIDE DEF r
  <2>2. \A j \in i..(Len(q) - 1) : j \in (Len(a) + 1)..(Len(a) + Len(b))
    BY <1>1, <1>2, <1>3
  <2> QED
    BY <1>1, <1>2, <1>3, <2>1, <2>2
<1> HIDE DEF r
<1> DEFINE pos == [k \in 1..(Len(q) - 1) |-> IF k < i THEN k ELSE k + 1]
<1>5. \A k \in 1..Len(r) : r[k] = q[pos[k]] /\ pos[k] \in 1..Len(q) /\ pos[k] # i
  <2> SUFFICES ASSUME NEW k \in 1..Len(r)
               PROVE  r[k] = q[pos[k]] /\ pos[k] \in 1..Len(q) /\ pos[k] # i
    OBVIOUS
  <2>1. CASE k < i
    BY <1>1, <1>2, <1>4, <2>1
  <2>2. CASE k >= i
    <3>1. k - (i - 1) \in 1..(Len(q) - i) /\ i + (k - (i - 1)) = k + 1 /\ k \in i..(Len(q) - 1)
      BY <1>1, <1>4, <2>2
    <3>2. r[k] = q[k + 1]
      BY <1>3, <1>4, <3>1
    <3>3. pos[k] = k + 1
      BY <2>2, <3>1
    <3> QED
      BY <1>1, <3>1, <3>2, <3>3
  <2> QED
    BY <1>1, <2>1, <2>2
<1>6. \A k, l \in 1..Len(r) : k < l => pos[k] < pos[l]
  BY <1>1, <1>4
<1>7. \A j \in 1..Len(q) : j # i => \E k \in 1..Len(r) : pos[k] = j
  <2> SUFFICES ASSUME NEW j \in 1..Len(q), j # i PROVE \E k \in 1..Len(r) : pos[k] = j
    OBVIOUS
  <2>1. CASE j < i
    <3>1. j \in 1..Len(r) /\ pos[j] = j
      BY <1>1, <1>4, <2>1
    <3> QED
      BY <3>1
  <2>2. CASE j > i
    <3>1. j - 1 \in 1..Len(r) /\ pos[j - 1] = j
      BY <1>1, <1>4, <2>2
    <3> QED
      BY <3>1
  <2>3. j < i \/ j > i
    BY <1>1
  <2> QED
    BY <2>1, <2>2, <2>3
<1> HIDE DEF pos
<1>8. Picks(q, r, pos, Len(q), {q[i].id})
  <2>1. \A j \in 1..Len(q) : q[j].id = q[i].id => j = i
    BY <1>1 DEF Distinct
  <2>2. \A j \in 1..Len(q) : q[j].id \notin {q[i].id} <=> j # i
    BY <2>1
  <2> QED
    BY <1>5, <1>6, <1>7, <2>2 DEF Picks
<1> QED
  BY <1>4, <1>8 DEF r, a, b

-----------------------------------------------------------------------------
(* What I and s say about the entries of q: CountsAgree.                       *)
Counted(q, I, s) ==
    /\ I = {x.id : x \in Entry(q)}
    /\ Distinct(q)
    /\ \A m \in Modes : s[m] = Cardinality(Named(Entry(q), m))

LEMMA CountsAre ==
  /\ CountsAgree <=> Counted(queue, ids, sizes)
  /\ CountsAgree' <=> Counted(queue', ids', sizes')
<1>1. /\ {queue[i].id : i \in DOMAIN queue} = {x.id : x \in Entry(queue)}
      /\ \A m : InMode(m) = Named(Entry(queue), m)
  BY DEF Entry, Named, InMode
<1>2. /\ {queue'[i].id : i \in DOMAIN queue'} = {x.id : x \in Entry(queue')}
      /\ \A m : InMode(m)' = Named(Entry(queue'), m)
  BY DEF Entry, Named, InMode
<1>3. CountsAgree <=> Counted(queue, ids, sizes)
  BY <1>1 DEF CountsAgree, Counted, Distinct
<1>4. CountsAgree' <=> Counted(queue', ids', sizes')
  BY <1>2 DEF CountsAgree, Counted, Distinct
<1> QED
  BY <1>3, <1>4

(* The inductive invariant: the counts agree, the queue is sorted and of this   *)
(* process, no window and no ticket lies in the future, and no size is above    *)
(* the peak of its window.                                                     *)
PeakCovers == \A m \in Modes : sizes[m] <= peak[m]
TicketsPast ==
    \A tk \in tickets : /\ tk.process <= process
                        /\ tk.process = process => start + tk.ms * Grain <= now
IInv ==
    /\ TypeOK /\ CountsAgree /\ QueueSorted
    /\ PeakCovers /\ TicketsPast /\ windowStart <= now /\ start <= now

LEMMA OneEachIs ==
  ASSUME NEW q, Distinct(q)
  PROVE  OneEach(Entry(q))
  BY DEF Distinct, OneEach, Entry

(* A player enters the queue.                                                  *)
LEMMA CountInKeeps ==
  ASSUME IInv, NEW id \in Ids, NEW M \in ModeSets, NEW t \in start..now, NEW i,
         CountIn(id, M), queue' \in Seq(Entries),
         Inserted(queue, i, [id |-> id, time |-> t, modes |-> M], queue'),
         \A j \in 1..(i - 1) : queue[j].time <= t, \A j \in i..Len(queue) : queue[j].time >= t
  PROVE  IInv'
<1> DEFINE e == [id |-> id, time |-> t, modes |-> M]
<1>1. /\ queue \in Seq(Entries) /\ now \in Nat /\ start \in Nat /\ t \in Nat
      /\ Counted(queue, ids, sizes) /\ sizes \in [Modes -> Nat] /\ peak \in [Modes -> Nat]
  BY ClockAssumption, CountsAre DEF IInv, TypeOK, Times
<1>2. e.id = id /\ e.modes = M /\ e.time = t
  OBVIOUS
<1>3. /\ Entry(queue') = Entry(queue) \union {e}
      /\ Distinct(queue') /\ e.id \notin {x.id : x \in Entry(queue)}
  <2>1. Distinct(queue) /\ e.id \notin {x.id : x \in Entry(queue)}
    BY <1>1, <1>2 DEF CountIn, MayJoin, Counted
  <2> HIDE DEF e
  <2>2. Inserted(queue, i, e, queue')
    BY DEF e
  <2>3. \A q, r \in Seq(Entries) : Inserted(q, i, e, r) =>
          /\ Entry(r) = Entry(q) \union {e}
          /\ Distinct(q) /\ e.id \notin {x.id : x \in Entry(q)} => Distinct(r)
    BY InsertedKeeps
  <2> QED
    BY <1>1, <2>1, <2>2, <2>3
<1> HIDE DEF e
<1>4. \A m \in Modes : sizes'[m] = Cardinality(Named(Entry(queue'), m))
  <2> SUFFICES ASSUME NEW m \in Modes PROVE sizes'[m] = Cardinality(Named(Entry(queue'), m))
    OBVIOUS
  <2>1. IsFiniteSet(Entry(queue))
    BY <1>1, EntryFinite
  <2>2. Cardinality(Named(Entry(queue'), m))
           = IF m \in M THEN Cardinality(Named(Entry(queue), m)) + 1
             ELSE Cardinality(Named(Entry(queue), m))
    <3> DEFINE E == Entry(queue)
    <3>1. IsFiniteSet(E) /\ e.id \notin {x.id : x \in E} /\ Entry(queue') = E \union {e}
      BY <1>3, <2>1
    <3> HIDE DEF E
    <3>2. Cardinality(Named(E \union {e}, m))
            = IF m \in e.modes THEN Cardinality(Named(E, m)) + 1 ELSE Cardinality(Named(E, m))
      BY <3>1, NamedAdd, ZenonT(60)
    <3> QED
      BY <1>2, <3>1, <3>2 DEF E
  <2>3. sizes'[m] = IF m \in M THEN sizes[m] + 1 ELSE sizes[m]
    BY DEF CountIn
  <2> QED
    BY <1>1, <2>2, <2>3 DEF Counted
<1>5. ids' = {x.id : x \in Entry(queue')}
  BY <1>1, <1>2, <1>3 DEF CountIn, Counted
<1>6. CountsAgree'
  BY <1>3, <1>4, <1>5, CountsAre DEF Counted
<1>7. PeakCovers' /\ peak' \in [Modes -> Nat] /\ sizes' \in [Modes -> Nat]
  BY <1>1 DEF CountIn, PeakCovers, IInv
<1>8. QueueSorted'
  <2>1. /\ i \in 1..(Len(queue) + 1) /\ DOMAIN queue' = 1..(Len(queue) + 1)
        /\ DOMAIN queue = 1..Len(queue) /\ Len(queue) \in Nat
        /\ \A j \in DOMAIN queue' :
              queue'[j] = IF j < i THEN queue[j] ELSE IF j = i THEN e ELSE queue[j - 1]
    BY <1>1 DEF Inserted, e
  <2>2. \A j \in DOMAIN queue : queue[j].time \in start..now
    BY DEF IInv, QueueSorted
  <2>3. \A j \in DOMAIN queue' : queue'[j].time \in start..now
    <3> SUFFICES ASSUME NEW j \in DOMAIN queue' PROVE queue'[j].time \in start..now
      OBVIOUS
    <3>1. CASE j < i
      BY <2>1, <2>2, <3>1
    <3>2. CASE j = i
      BY <1>2, <2>1, <3>2
    <3>3. CASE j > i
      <4>1. j - 1 \in DOMAIN queue
        BY <2>1, <3>3
      <4> QED
        BY <2>1, <2>2, <3>3, <4>1
    <3> QED
      BY <2>1, <3>1, <3>2, <3>3
  <2>4. \A j, k \in DOMAIN queue' : j < k => queue'[j].time <= queue'[k].time
    <3> SUFFICES ASSUME NEW j \in DOMAIN queue', NEW k \in DOMAIN queue', j < k
                 PROVE  queue'[j].time <= queue'[k].time
      OBVIOUS
    <3>1. \A a, b \in DOMAIN queue : a < b => queue[a].time <= queue[b].time
      BY DEF IInv, QueueSorted
    <3>2. CASE k < i
      BY <2>1, <3>1, <3>2
    <3>3. CASE k = i
      BY <1>2, <2>1, <3>3
    <3>4. CASE j < i /\ k > i
      <4>1. j \in DOMAIN queue /\ k - 1 \in DOMAIN queue /\ j <= k - 1
        BY <2>1, <3>4
      <4>2. queue[j].time <= t /\ t <= queue[k - 1].time
        BY <2>1, <3>4
      <4> QED
        <5>1. queue'[j] = queue[j] /\ queue'[k] = queue[k - 1]
          BY <2>1, <3>4
        <5>2. queue[j].time \in Nat /\ queue[k - 1].time \in Nat
          BY <1>1, <2>2, <4>1
        <5> QED
          BY <1>1, <4>2, <5>1, <5>2
    <3>5. CASE j = i /\ k > i
      BY <1>2, <2>1, <3>5
    <3>6. CASE j > i
      <4>1. j - 1 \in DOMAIN queue /\ k - 1 \in DOMAIN queue /\ j - 1 < k - 1
        BY <2>1, <3>6
      <4> QED
        BY <2>1, <3>1, <3>6, <4>1
    <3> QED
      BY <2>1, <3>2, <3>3, <3>4, <3>5, <3>6
  <2>5. start' = start /\ now' = now
    BY DEF CountIn
  <2> QED
    BY <2>3, <2>4, <2>5 DEF QueueSorted
<1>9. TypeOK'
  BY <1>7 DEF CountIn, TypeOK, IInv
<1> QED
  BY <1>6, <1>7, <1>8, <1>9 DEF IInv, CountIn, TicketsPast

LEMMA InsertKeeps ==
  ASSUME IInv, NEW id \in Ids, NEW M \in ModeSets, Insert(id, M)
  PROVE  IInv'
<1> DEFINE e == [id |-> id, time |-> now, modes |-> M]
<1>1. queue \in Seq(Entries) /\ now \in start..now /\ now \in Times /\ Len(queue) \in Nat
  BY ClockAssumption DEF IInv, TypeOK, Times
<1>2. e \in Entries
  BY <1>1 DEF Entries
<1>3. queue' \in Seq(Entries) /\ Inserted(queue, Len(queue) + 1, e, queue')
  <2> HIDE DEF e
  <2>1. queue' = Append(queue, e)
    BY DEF Insert, e
  <2> QED
    BY <1>1, <1>2, <2>1, AppendedIs
<1>4. /\ \A j \in 1..((Len(queue) + 1) - 1) : queue[j].time <= now
      /\ \A j \in (Len(queue) + 1)..Len(queue) : queue[j].time >= now
  BY <1>1 DEF IInv, QueueSorted
<1> QED
  BY <1>1, <1>3, <1>4, CountInKeeps DEF Insert

LEMMA RequeueKeeps ==
  ASSUME IInv, NEW tk \in tickets, Requeue(tk)
  PROVE  IInv'
<1> DEFINE t == start + tk.ms * Grain
<1> DEFINE e == [id |-> tk.id, time |-> t, modes |-> tk.modes]
<1>1. /\ queue \in Seq(Entries) /\ now \in Times /\ Len(queue) \in Nat /\ start \in Nat /\ now \in Nat
      /\ tk.id \in Ids /\ tk.modes \in ModeSets /\ tk.ms \in Nat
  BY ClockAssumption DEF IInv, TypeOK, Times, Tickets
<1>2. t \in start..now /\ t \in Times
  <2>1. t <= now
    BY DEF IInv, TicketsPast, Requeue, Valid
  <2>2. tk.ms * Grain \in Nat
    BY <1>1, ClockAssumption
  <2> DEFINE x == tk.ms * Grain
  <2>3. t = start + x
    OBVIOUS
  <2> HIDE DEF t, x
  <2>4. x \in Nat
    BY <2>2 DEF x
  <2> QED
    BY <1>1, <2>1, <2>3, <2>4, ClockAssumption DEF Times
<1>3. e \in Entries
  BY <1>1, <1>2 DEF Entries
<1>4. CountIn(tk.id, tk.modes)
  BY DEF Requeue
<1>5. PICK i \in Positions(t) :
        queue' = SubSeq(queue, 1, i - 1) \o <<e>> \o SubSeq(queue, i, Len(queue))
  BY DEF Requeue
<1> HIDE DEF t
<1>6. /\ i \in 1..(Len(queue) + 1)
      /\ \A j \in 1..(i - 1) : queue[j].time <= t
      /\ \A j \in i..Len(queue) : queue[j].time >= t
  BY DEF Positions
<1>7. queue' \in Seq(Entries) /\ Inserted(queue, i, e, queue')
  <2> HIDE DEF e
  <2> QED
    BY <1>1, <1>3, <1>5, <1>6, InsertedIs
<1> QED
  BY <1>1, <1>2, <1>4, <1>6, <1>7, CountInKeeps

-----------------------------------------------------------------------------
(* A step that keeps some entries of the queue, and sizes that count those.     *)
LEMMA KeptCounts ==
  ASSUME IInv, NEW P, NEW pos, queue' \in Seq(Entries),
         Picks(queue, queue', pos, Len(queue), P),
         ids' = ids \ P,
         NEW D, D = {e \in Entry(queue) : e.id \in P},
         sizes' = [m \in Modes |-> sizes[m] - Cardinality({e \in D : m \in e.modes})],
         UNCHANGED <<now, start>>
  PROVE  /\ CountsAgree' /\ QueueSorted' /\ Entry(queue') = {e \in Entry(queue) : e.id \in ids'}
         /\ sizes' \in [Modes -> Nat] /\ \A m \in Modes : sizes'[m] <= sizes[m]
<1> DEFINE E == Entry(queue)
<1>1. /\ queue \in Seq(Entries) /\ Counted(queue, ids, sizes) /\ sizes \in [Modes -> Nat]
  BY CountsAre DEF IInv, TypeOK
<1>2. /\ Entry(queue') = {e \in E : e.id \notin P}
      /\ Distinct(queue) => Distinct(queue')
      /\ Sorted(queue) => Sorted(queue')
  BY <1>1, PickedKeeps
<1>3. Entry(queue') = E \ D /\ D \in SUBSET E
  BY <1>2
<1>4. IsFiniteSet(E) /\ OneEach(E)
  BY <1>1, EntryFinite, OneEachIs DEF Counted
<1>5. E = {e \in E : TRUE} /\ ids = {x.id : x \in E}
  BY <1>1 DEF Counted
<1>6. \A m \in Modes : sizes[m] = Cardinality(Named(E, m))
  BY <1>1 DEF Counted
<1>7. ids' = {x.id : x \in Entry(queue')}
  BY <1>2, <1>5
<1>8. Entry(queue') = {e \in E : e.id \in ids'}
  BY <1>2, <1>5
<1>9. \A m \in Modes : /\ sizes'[m] = Cardinality(Named(Entry(queue'), m))
                       /\ sizes'[m] \in Nat /\ sizes'[m] <= sizes[m]
  <2> SUFFICES ASSUME NEW m \in Modes
               PROVE  /\ sizes'[m] = Cardinality(Named(Entry(queue'), m))
                      /\ sizes'[m] \in Nat /\ sizes'[m] <= sizes[m]
    OBVIOUS
  <2> DEFINE k == Cardinality(Holding(D, m))
  <2>1. sizes'[m] = sizes[m] - k
    BY DEF Holding
  <2> HIDE DEF E
  <2>2. /\ k \in Nat /\ Cardinality(Named(E, m)) \in Nat
        /\ Cardinality(Named(E \ D, m)) = Cardinality(Named(E, m)) - k
        /\ Cardinality(Named(E, m)) - k \in Nat
    <3>1. IsFiniteSet(E) /\ OneEach(E) /\ D \in SUBSET E
      BY <1>3, <1>4
    <3> QED
      BY <3>1, NamedDrop
  <2> HIDE DEF k
  <2>3. sizes[m] = Cardinality(Named(E, m)) /\ Entry(queue') = E \ D
    BY <1>3, <1>6
  <2>4. sizes'[m] = Cardinality(Named(Entry(queue'), m))
    BY <2>1, <2>2, <2>3
  <2>5. sizes'[m] \in Nat /\ sizes'[m] <= sizes[m]
    <3>1. \A a, b \in Nat : a - b \in Nat => a - b <= a
      OBVIOUS
    <3> QED
      BY <2>1, <2>2, <2>3, <3>1
  <2> QED
    BY <2>4, <2>5
<1>10. sizes' = [m \in Modes |-> sizes'[m]]
  OBVIOUS
<1>11. CountsAgree'
  BY <1>1, <1>2, <1>7, <1>9, CountsAre DEF Counted
<1>12. QueueSorted'
  <2>1. Sorted(queue) /\ \A e \in E : e.time \in start..now
    BY DEF IInv, QueueSorted, Sorted, Entry
  <2>2. Sorted(queue') /\ \A e \in Entry(queue') : e.time \in start..now
    BY <1>2, <2>1
  <2> QED
    BY <2>2 DEF QueueSorted, Sorted, Entry
<1> HIDE DEF E
<1> QED
  BY <1>8, <1>9, <1>10, <1>11, <1>12 DEF E

LEMMA RemoveKeeps ==
  ASSUME IInv, NEW id \in Ids, Remove(id)
  PROVE  IInv'
<1>1. PICK i \in DOMAIN queue :
        /\ queue[i].id = id
        /\ queue' = SubSeq(queue, 1, i - 1) \o SubSeq(queue, i + 1, Len(queue))
        /\ ids' = ids \ {id}
        /\ sizes' = [m \in Modes |-> IF m \in CountedModes(queue[i])
                                       THEN sizes[m] - 1 ELSE sizes[m]]
        /\ UNCHANGED <<now, start, process, population, tickets, formed, entered>>
  BY DEF Remove
<1>2. queue \in Seq(Entries) /\ Counted(queue, ids, sizes) /\ sizes \in [Modes -> Nat]
  BY CountsAre DEF IInv, TypeOK
<1>3. queue' \in Seq(Entries) /\ \E pos : Picks(queue, queue', pos, Len(queue), {id})
  BY <1>1, <1>2, RemovedIs DEF Counted
<1> DEFINE D == {e \in Entry(queue) : e.id \in {id}}
<1>4. D = {queue[i]}
  BY <1>1, <1>2 DEF Counted, Distinct, Entry
<1>5. \A m \in Modes : sizes'[m] = sizes[m] - Cardinality({e \in D : m \in e.modes})
  <2> SUFFICES ASSUME NEW m \in Modes
               PROVE  sizes'[m] = sizes[m] - Cardinality({e \in D : m \in e.modes})
    OBVIOUS
  <2>1. CASE m \in queue[i].modes
    <3>1. {e \in D : m \in e.modes} = {queue[i]}
      BY <1>4, <2>1
    <3>2. Cardinality({queue[i]}) = 1
      BY FS_Singleton
    <3> QED
      BY <1>1, <2>1, <3>1, <3>2 DEF CountedModes
  <2>2. CASE m \notin queue[i].modes
    <3>1. {e \in D : m \in e.modes} = {}
      BY <1>4, <2>2
    <3>2. Cardinality({}) = 0
      BY FS_EmptySet
    <3>3. sizes'[m] = sizes[m]
      BY <1>1, <2>2 DEF CountedModes
    <3>4. sizes[m] \in Nat
      BY <1>2
    <3>5. sizes[m] - 0 = sizes[m]
      BY <3>4
    <3> QED
      BY <3>1, <3>2, <3>3, <3>5
  <2> QED
    BY <2>1, <2>2
<1> HIDE DEF D
<1>6. sizes' = [m \in Modes |-> sizes[m] - Cardinality({e \in D : m \in e.modes})]
  <2>1. sizes' = [m \in Modes |-> sizes'[m]]
    BY <1>1
  <2> QED
    BY <1>5, <2>1
<1>7. /\ CountsAgree' /\ QueueSorted'
      /\ sizes' \in [Modes -> Nat] /\ \A m \in Modes : sizes'[m] <= sizes[m]
  <2>1. D = {e \in Entry(queue) : e.id \in {id}}
    BY DEF D
  <2>2. ids' = ids \ {id} /\ UNCHANGED <<now, start>>
    BY <1>1
  <2> QED
    BY <1>3, <1>6, <2>1, <2>2, KeptCounts
<1>8. PeakCovers'
  BY <1>1, <1>2, <1>7 DEF PeakCovers, IInv, TypeOK, population
<1>9. TypeOK'
  BY <1>1, <1>3, <1>7 DEF TypeOK, IInv, population
<1> QED
  BY <1>1, <1>7, <1>8, <1>9 DEF IInv, TicketsPast, population

-----------------------------------------------------------------------------
LEMMA DivBelow ==
  ASSUME NEW x \in Nat, NEW g \in Nat \ {0}
  PROVE  x \div g \in Nat /\ (x \div g) * g \in Nat /\ (x \div g) * g <= x
  OBVIOUS

(* A search tick does not move the clock of a window into the future, and the   *)
(* peak stays above the sizes before the tick.                                 *)
LEMMA FoldKeeps ==
  ASSUME IInv, FoldWindows
  PROVE  /\ windowStart' \in Times /\ windowStart' <= now /\ peak' \in [Modes -> Nat]
         /\ seeded' \subseteq Modes /\ \A m \in Modes : sizes[m] <= peak'[m]
         /\ windowStart' = windowStart => peak' = peak
<1> DEFINE passed == (now - windowStart) \div Window
<1> DEFINE x == passed * Window
<1>1. /\ now \in Nat /\ windowStart \in Nat /\ windowStart <= now /\ now <= MaxTime
      /\ sizes \in [Modes -> Nat] /\ peak \in [Modes -> Nat] /\ seeded \subseteq Modes
      /\ \A m \in Modes : sizes[m] <= peak[m]
  BY ClockAssumption DEF IInv, TypeOK, Times, PeakCovers
<1>2. now - windowStart \in Nat
  BY <1>1
<1>3. passed \in Nat /\ x \in Nat /\ x <= now - windowStart /\ (passed > 0 => x > 0)
  <2>1. passed \in Nat /\ x \in Nat /\ x <= now - windowStart
    BY <1>2, DivBelow, ClockAssumption
  <2> HIDE DEF passed
  <2>2. passed > 0 => x > 0
    BY <2>1, ClockAssumption
  <2> QED
    BY <2>1, <2>2
<1>4. CASE passed = 0 /\ UNCHANGED population
  BY <1>1, <1>4, ClockAssumption DEF population, Times
<1>5. CASE passed > 0 /\ windowStart' = windowStart + x /\ peak' = [m \in Modes |-> LivePeak(m)]
           /\ seeded' = seeded \union {m \in Modes : peak[m] > 0}
  <2> HIDE DEF x, passed
  <2>1. windowStart' \in Times /\ windowStart' <= now /\ windowStart' # windowStart
    BY <1>1, <1>3, <1>5, ClockAssumption DEF Times
  <2> QED
    BY <1>1, <1>5, <2>1 DEF LivePeak
<1> QED
  BY <1>4, <1>5 DEF FoldWindows

LEMMA TickKeeps ==
  ASSUME IInv, NEW cands \in Proposals, Tick(cands)
  PROVE  /\ IInv'
         /\ \A c \in formed' : c.ids \subseteq InMode(c.mode)
         /\ \A c, d \in formed' : c # d => c.ids \cap d.ids = {}
         /\ ids' = ids \ UNION {c.ids : c \in formed'}
         /\ Entry(queue') = {e \in Entry(queue) : e.id \in ids'}
         /\ \A i, j \in DOMAIN queue' : i < j =>
               \E k, l \in DOMAIN queue : k < l /\ queue[k] = queue'[i] /\ queue[l] = queue'[j]
<1>1. PICK kept \in SUBSET DOMAIN cands :
         LET claimed == UNION {cands[i].ids : i \in kept}
             leaving == {e \in {queue[i] : i \in DOMAIN queue} : e.id \in claimed}
         IN  /\ Claims(cands, kept)
             /\ formed' = {cands[i] : i \in kept}
             /\ queue' = Remaining(queue, claimed)
             /\ ids' = ids \ claimed
             /\ sizes' = [m \in Modes |->
                            sizes[m] - Cardinality({e \in leaving : m \in e.modes})]
             /\ tickets' = tickets \union {TicketOf(e) : e \in leaving}
  BY DEF Tick
<1> DEFINE P == UNION {cands[i].ids : i \in kept}
<1> DEFINE D == {e \in Entry(queue) : e.id \in P}
<1>2. /\ Claims(cands, kept) /\ formed' = {cands[i] : i \in kept}
      /\ queue' = Remaining(queue, P) /\ ids' = ids \ P
      /\ sizes' = [m \in Modes |-> sizes[m] - Cardinality({e \in D : m \in e.modes})]
      /\ tickets' = tickets \union {TicketOf(e) : e \in D}
  BY <1>1 DEF Entry
<1>3. FoldWindows /\ Proposable(cands) /\ UNCHANGED <<now, start, process, entered>>
  BY DEF Tick
<1>4. queue \in Seq(Entries) /\ D \subseteq Entries /\ sizes \in [Modes -> Nat]
  BY EntryFinite DEF IInv, TypeOK
<1>5. P = UNION {c.ids : c \in formed'}
  BY <1>2
<1>6. formed' \subseteq Candidates
  <2>1. \A i \in DOMAIN cands : cands[i] \in Candidates
    BY DEF Proposals
  <2> QED
    BY <1>2, <2>1
<1> HIDE DEF P
<1>7. PICK pos : queue' \in Seq(Entries) /\ Picks(queue, queue', pos, Len(queue), P)
  BY <1>2, <1>4, RemainingIs
<1>8. \A i, j \in DOMAIN queue' : i < j =>
               \E k, l \in DOMAIN queue : k < l /\ queue[k] = queue'[i] /\ queue[l] = queue'[j]
  BY <1>4, <1>7, PickedKeeps
<1>9. D = {e \in Entry(queue) : e.id \in P}
  OBVIOUS
<1> HIDE DEF D
<1>10. /\ CountsAgree' /\ QueueSorted' /\ Entry(queue') = {e \in Entry(queue) : e.id \in ids'}
       /\ sizes' \in [Modes -> Nat] /\ \A m \in Modes : sizes'[m] <= sizes[m]
  BY <1>2, <1>3, <1>7, <1>9, KeptCounts
<1>11. \A c \in formed' : c.ids \subseteq InMode(c.mode)
  BY <1>2, <1>3 DEF Proposable
<1>12. \A c, d \in formed' : c # d => c.ids \cap d.ids = {}
  <2> SUFFICES ASSUME NEW i \in kept, NEW j \in kept, cands[i] # cands[j]
               PROVE  cands[i].ids \cap cands[j].ids = {}
    BY <1>2
  <2>1. i \in Int /\ j \in Int /\ i \in DOMAIN cands /\ j \in DOMAIN cands
    BY DEF Proposals
  <2>2. i < j \/ j < i
    BY <2>1
  <2> QED
    BY <1>2, <2>1, <2>2 DEF Claims
<1>13. /\ windowStart' \in Times /\ windowStart' <= now /\ peak' \in [Modes -> Nat]
       /\ seeded' \subseteq Modes /\ \A m \in Modes : sizes[m] <= peak'[m]
  BY <1>3, FoldKeeps
<1>14. PeakCovers'
  BY <1>4, <1>10, <1>13 DEF PeakCovers
<1>15. \A e \in D : TicketOf(e) \in Tickets /\ TicketOf(e).process = process
                    /\ start + TicketOf(e).ms * Grain <= now
  <2> SUFFICES ASSUME NEW e \in D
               PROVE  TicketOf(e) \in Tickets /\ TicketOf(e).process = process
                      /\ start + TicketOf(e).ms * Grain <= now
    OBVIOUS
  <2>1. e \in Entries /\ e \in Entry(queue)
    BY <1>4, <1>9
  <2>2. e.time \in start..now /\ start \in Nat /\ now \in Nat /\ process \in Nat
    BY <2>1, ClockAssumption DEF IInv, QueueSorted, Entry, TypeOK, Times
  <2>3. e.time - start \in Nat
    BY <2>2
  <2> DEFINE ms == (e.time - start) \div Grain
  <2> DEFINE x == ms * Grain
  <2>4. ms \in Nat /\ x \in Nat /\ x <= e.time - start
    BY <2>3, DivBelow, ClockAssumption
  <2>5. TicketOf(e) = [id |-> e.id, ms |-> ms, modes |-> e.modes, process |-> process]
    BY DEF TicketOf
  <2> HIDE DEF ms
  <2>6. TicketOf(e).ms * Grain = x
    BY <2>5
  <2> HIDE DEF x
  <2>7. TicketOf(e) \in Tickets /\ TicketOf(e).process = process
    BY <2>1, <2>2, <2>4, <2>5 DEF Entries, Tickets
  <2>8. start + x <= now
    BY <2>2, <2>4
  <2> QED
    BY <2>6, <2>7, <2>8
<1>16. TicketsPast' /\ tickets' \subseteq Tickets
  <2> SUFFICES ASSUME NEW tk \in tickets'
               PROVE  /\ tk \in Tickets /\ tk.process <= process
                      /\ tk.process = process => start + tk.ms * Grain <= now
    BY <1>3 DEF TicketsPast
  <2>1. CASE tk \in tickets
    BY <2>1 DEF IInv, TypeOK, TicketsPast
  <2>2. CASE tk \notin tickets
    <3>1. PICK e \in D : tk = TicketOf(e)
      BY <1>2, <2>2
    <3>2. process \in Nat
      BY DEF IInv, TypeOK
    <3> QED
      BY <1>15, <3>1, <3>2
  <2> QED
    BY <2>1, <2>2
<1>17. ids' \subseteq Ids
  BY <1>2 DEF IInv, TypeOK
<1>18. TypeOK'
  BY <1>3, <1>6, <1>7, <1>10, <1>13, <1>16, <1>17 DEF TypeOK, IInv
<1>19. IInv'
  BY <1>3, <1>10, <1>13, <1>14, <1>16, <1>18 DEF IInv
<1> QED
  BY <1>2, <1>5, <1>8, <1>10, <1>11, <1>12, <1>19

LEMMA AdvanceKeeps ==
  ASSUME IInv, Advance
  PROVE  IInv'
<1>1. /\ now \in Nat /\ now' = now + 1 /\ now' \in Times /\ start \in Nat /\ windowStart \in Nat
      /\ UNCHANGED <<start, process, queue, ids, sizes, peak, windowStart, seeded, tickets,
                     formed, entered>>
  BY ClockAssumption DEF IInv, TypeOK, Times, Advance, population
<1>2. TypeOK' /\ windowStart' <= now' /\ start' <= now'
  BY <1>1 DEF TypeOK, IInv
<1>3. CountsAgree' /\ PeakCovers'
  BY <1>1 DEF IInv, CountsAgree, InMode, PeakCovers
<1>4. QueueSorted'
  BY <1>1 DEF IInv, QueueSorted
<1>5. TicketsPast'
  <2> SUFFICES ASSUME NEW tk \in tickets, tk.process = process
               PROVE  start + tk.ms * Grain <= now + 1
    BY <1>1 DEF TicketsPast, IInv
  <2> DEFINE x == tk.ms * Grain
  <2>1. start + x <= now /\ x \in Nat
    BY ClockAssumption DEF IInv, TicketsPast, TypeOK, Tickets
  <2> HIDE DEF x
  <2>2. start + x <= now + 1
    BY <1>1, <2>1
  <2> QED
    BY <2>2 DEF x
<1> QED
  BY <1>2, <1>3, <1>4, <1>5 DEF IInv

LEMMA EmptyCounts ==
  ASSUME NEW s, s = [m \in Modes |-> 0]
  PROVE  Counted(<<>>, {}, s)
<1>1. Entry(<<>>) = {} /\ Distinct(<<>>)
  BY DEF Entry, Distinct
<1>2. \A m : Named({}, m) = {}
  BY DEF Named
<1> QED
  BY <1>1, <1>2, FS_EmptySet DEF Counted

LEMMA RestartKeeps ==
  ASSUME IInv, Restart
  PROVE  IInv'
<1>1. /\ now \in Times /\ now \in Nat /\ process \in Nat
      /\ process' = process + 1 /\ start' = now /\ windowStart' = now
      /\ queue' = <<>> /\ ids' = {} /\ formed' = {} /\ seeded' = {}
      /\ sizes' = [m \in Modes |-> 0] /\ peak' = [m \in Modes |-> 0]
      /\ UNCHANGED <<now, tickets, entered>>
  BY ClockAssumption DEF IInv, TypeOK, Times, Restart
<1>2. CountsAgree'
  BY <1>1, EmptyCounts, CountsAre
<1>3. QueueSorted'
  BY <1>1 DEF QueueSorted
<1>4. PeakCovers' /\ TypeOK'
  BY <1>1 DEF PeakCovers, TypeOK, IInv
<1>5. TicketsPast'
  <2> SUFFICES ASSUME NEW tk \in tickets PROVE tk.process <= process + 1 /\ tk.process # process + 1
    BY <1>1 DEF TicketsPast
  <2>1. tk.process \in Nat /\ tk.process <= process
    BY DEF IInv, TypeOK, Tickets, TicketsPast
  <2> QED
    BY <1>1, <2>1
<1> QED
  BY <1>1, <1>2, <1>3, <1>4, <1>5 DEF IInv

LEMMA InitHolds == Init => IInv
<1> SUFFICES ASSUME Init PROVE IInv
  OBVIOUS
<1>1. CountsAgree
  BY EmptyCounts, CountsAre DEF Init
<1>2. QueueSorted /\ PeakCovers /\ TicketsPast /\ windowStart <= now /\ start <= now
  BY DEF Init, QueueSorted, PeakCovers, TicketsPast
<1>3. TypeOK
  BY ClockAssumption DEF Init, TypeOK, Times
<1> QED
  BY <1>1, <1>2, <1>3 DEF IInv

LEMMA NextKeeps == IInv /\ [Next]_vars => IInv'
<1> SUFFICES ASSUME IInv, [Next]_vars PROVE IInv'
  OBVIOUS
<1>1. ASSUME NEW id \in Ids, NEW M \in ModeSets, Insert(id, M) PROVE IInv'
  BY <1>1, InsertKeeps
<1>2. ASSUME NEW tk \in tickets, Requeue(tk) PROVE IInv'
  BY <1>2, RequeueKeeps
<1>3. ASSUME NEW id \in Ids, Remove(id) PROVE IInv'
  BY <1>3, RemoveKeeps
<1>4. ASSUME NEW cands \in Proposals, Tick(cands) PROVE IInv'
  BY <1>4, TickKeeps
<1>5. CASE Advance
  BY <1>5, AdvanceKeeps
<1>6. CASE Restart
  BY <1>6, RestartKeeps
<1>7. CASE UNCHANGED vars
  BY <1>7 DEF vars, population, IInv, TypeOK, CountsAgree, InMode, QueueSorted, PeakCovers,
                TicketsPast
<1> QED
  BY <1>1, <1>2, <1>3, <1>4, <1>5, <1>6, <1>7 DEF Next

(* The inductive invariant of the queue in server-rs holds for any users, modes,  *)
(* sizes of matches, clocks and numbers of restarts.                          *)
THEOREM Invariant == Spec => []IInv
<1> QED
  BY InitHolds, NextKeeps, PTL DEF Spec

(* The queue holds entries, the sizes are naturals (no usize underflows), and   *)
(* every match has as many players as its mode asks for.                       *)
THEOREM TypeCorrect == Spec => []TypeOK
<1>1. IInv => TypeOK
  BY DEF IInv
<1> QED
  BY <1>1, Invariant, PTL

(* queued_player_ids and queue_sizes agree with the queue through inserts,       *)
(* requeues, cancels and search ticks, and nobody is queued twice.              *)
THEOREM CountsHold == Spec => []CountsAgree
<1>1. IInv => CountsAgree
  BY DEF IInv
<1> QED
  BY <1>1, Invariant, PTL

(* requeue_player's binary search always runs on a sorted queue, and a queue_time *)
(* read back from a ticket lies neither before the process nor in the future.    *)
THEOREM StaysSorted == Spec => []QueueSorted
<1>1. IInv => QueueSorted
  BY DEF IInv
<1> QED
  BY <1>1, Invariant, PTL

(* No size of a mode escapes the peak of its window.                            *)
THEOREM PeaksCover == Spec => PeakCoversWindow
<1> DEFINE Covers == \A m \in Modes : /\ peak'[m] >= sizes'[m]
                                      /\ windowStart' = windowStart /\ process' = process
                                           => peak'[m] >= peak[m]
<1>1. ASSUME IInv, [Next]_vars PROVE Covers
  <2>1. IInv'
    BY <1>1, NextKeeps
  <2>2. \A m \in Modes : peak'[m] >= sizes'[m]
    BY <2>1 DEF IInv, PeakCovers, TypeOK
  <2>3. peak \in [Modes -> Nat] /\ sizes \in [Modes -> Nat]
    BY <1>1 DEF IInv, TypeOK
  <2>4. \A m \in Modes : windowStart' = windowStart /\ process' = process => peak'[m] >= peak[m]
    <3> SUFFICES ASSUME NEW m \in Modes, windowStart' = windowStart, process' = process
                 PROVE  peak'[m] >= peak[m]
      OBVIOUS
    <3>1. ASSUME NEW id, NEW M, CountIn(id, M) PROVE peak'[m] >= peak[m]
      BY <2>3, <3>1 DEF CountIn
    <3>2. ASSUME NEW id, Remove(id) PROVE peak'[m] >= peak[m]
      BY <2>3, <3>2 DEF Remove, population
    <3>3. ASSUME NEW cands \in Proposals, Tick(cands) PROVE peak'[m] >= peak[m]
      <4>1. FoldWindows
        BY <3>3 DEF Tick
      <4>2. peak' = peak
        BY <1>1, <4>1, FoldKeeps
      <4> QED
        BY <2>3, <4>2
    <3>4. CASE Advance \/ UNCHANGED vars
      BY <2>3, <3>4 DEF Advance, vars, population
    <3>5. CASE Restart
      BY <1>1, <3>5 DEF Restart, IInv, TypeOK
    <3> QED
      BY <1>1, <3>1, <3>2, <3>3, <3>4, <3>5 DEF Next, Insert, Requeue
  <2> QED
    BY <2>2, <2>4
<1>2. IInv /\ [Next]_vars => [Covers]_vars
  BY <1>1
<1> QED
  BY <1>2, Invariant, PTL DEF Spec, PeakCoversWindow

(* A search tick takes whoever it matches out of the queue into one match, and   *)
(* leaves the others as they were.                                             *)
THEOREM TicksConserve == Spec => TickConserves
<1> DEFINE Conserves ==
       formed' # formed /\ process' = process =>
         /\ \A c \in formed' : c.ids \subseteq InMode(c.mode)
         /\ \A c, d \in formed' : c # d => c.ids \cap d.ids = {}
         /\ ids' = ids \ UNION {c.ids : c \in formed'}
         /\ Entry(queue') = {e \in Entry(queue) : e.id \in ids'}
         /\ \A i, j \in DOMAIN queue' : i < j =>
               \E k, l \in DOMAIN queue :
                  k < l /\ queue[k] = queue'[i] /\ queue[l] = queue'[j]
<1>1. ASSUME IInv, Next PROVE Conserves
  <2>1. ASSUME NEW cands \in Proposals, Tick(cands) PROVE Conserves
    BY <1>1, <2>1, TickKeeps
  <2>2. CASE formed' = formed
    BY <2>2
  <2>3. CASE Restart
    BY <1>1, <2>3 DEF Restart, IInv, TypeOK
  <2> HIDE DEF Conserves
  <2> QED
    BY <1>1, <2>1, <2>2, <2>3 DEF Next, Insert, Requeue, CountIn, Remove, Advance
<1>2. IInv /\ [Next]_vars => [Conserves]_vars
  BY <1>1
<1> QED
  BY <1>2, Invariant, PTL DEF Spec, TickConserves
=============================================================================
