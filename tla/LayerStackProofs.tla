-------------------------- MODULE LayerStackProofs --------------------------
(***************************************************************************)
(* The properties of LayerStack for any composition of layers, ids, labels   *)
(* and bounds, through crashes and failing writes: OpensAgain, ViewsExact,     *)
(* GhostsOnlyFromCutDeletes, AnswersStand and ImplementsEdgeSet.              *)
(*                                                                           *)
(* Lemmas about counting, buckets, columns and the fold over the live records  *)
(* come first.  Core says what the operation under way, the files and the      *)
(* inner layers hold of each other; the others rest on it.  EdgesOk relates    *)
(* blob, log and memory of a label, Answering the slots to the records         *)
(* allowed, and OuterOk the outer layers to the records before or after the    *)
(* operation under way.                                                      *)
(***************************************************************************)
EXTENDS LayerStack, TLAPS, FiniteSetTheorems, FunctionTheorems, SequenceTheorems

------------------------------------------------------------------------------
(* Types                                                                   *)

Writes  == {"insert", "replace", "delete"}
Entries == [kind : {"item"}, ids : Edges] \cup [kind : {"tombstone"}, ids : {{x} : x \in Ids \cup FarIds}]
Ops     == [kind : {"none", "link", "compact", "create", "open"} \cup Writes,
            step : {"", "slot", "outside", "manifest", "append", "fold", "files"},
            id : Ids \cup {NoLabel}, old : Records \cup {Absent}, new : Records \cup {Absent},
            todo : SUBSET Labels, label : Labels \cup {NoLabel}, edge : Edges \cup {{}}]
Buckets == [Keys -> Seq(Ids)]
Columns == [cache : Seq(Vals), at : [Ids -> Nat]]
Inners  == [buckets : Buckets, scanned : Columns]
Outers  == [children : Buckets, names : Buckets, order : SUBSET (Keys \X Ids)]

\* Each record has a place in the column, and no one else.
ColumnOf(recs, col) ==
  /\ \A x \in Ids : recs[x] # Absent <=> col.at[x] # 0
  /\ \A x \in Ids : col.at[x] # 0 => col.at[x] \in DOMAIN col.cache
  /\ \A x, y \in Ids : col.at[x] # 0 /\ col.at[x] = col.at[y] => x = y
  /\ \A p \in DOMAIN col.cache : \E x \in Ids : col.at[x] = p

------------------------------------------------------------------------------
(* Numbers and orders                                                      *)

\* A set of numbers that is not empty has a smallest one.
LEMMA SmallestOf ==
  ASSUME NEW T \in SUBSET Nat, T # {}
  PROVE  \E m \in T : \A k \in T : m <= k
  <1>. DEFINE R == OpToRel(<, Nat)
  <1>1. IsWellFoundedOn(R, Nat)
    BY NatLessThanWellFounded
  <1>2. \A x, y \in Nat : <<x, y>> \in R <=> x < y
    BY DEF OpToRel
  <1>. HIDE DEF R
  <1>3. PICK m \in T : \A y \in T : ~ (<<y, m>> \in R)
    BY <1>1, WFMin
  <1>4. ASSUME NEW k \in T PROVE m <= k
    <2>1. k \in Nat /\ m \in Nat
      OBVIOUS
    <2>2. ~(k < m)
      BY <1>2, <1>3, <2>1
    <2>. QED
      BY <2>1, <2>2
  <1>. QED
    BY <1>4

\* And a greatest, if they are bounded.
LEMMA GreatestOf ==
  ASSUME NEW n \in Nat, NEW T \in SUBSET (0 .. n), T # {}
  PROVE  \E m \in T : \A k \in T : k <= m
  <1>. DEFINE U == {n - i : i \in T}
  <1>1. U \in SUBSET Nat /\ U # {}
    <2>1. \A i \in T : i \in Int /\ 0 <= i /\ i <= n
      OBVIOUS
    <2>2. \A i \in T : n - i \in Nat
      BY <2>1
    <2>. QED
      BY <2>2
  <1>2. PICK u \in U : \A k \in U : u <= k
    BY <1>1, SmallestOf
  <1>3. PICK m \in T : u = n - m
    OBVIOUS
  <1>4. ASSUME NEW k \in T PROVE k <= m
    <2>1. n - k \in U
      OBVIOUS
    <2>2. n - m <= n - k
      BY <1>2, <1>3, <2>1
    <2>3. k \in Nat /\ m \in Nat
      OBVIOUS
    <2>. QED
      BY <2>2, <2>3
  <1>. QED
    BY <1>4

\* What holds of 0 and passes from each number to the next holds of all up to a bound.
LEMMA UpTo ==
  ASSUME NEW n \in Nat, NEW P, 0 \in P, \A i \in 1 .. n : i - 1 \in P => i \in P
  PROVE  \A i \in 0 .. n : i \in P
  <1>. DEFINE T == {i \in 0 .. n : i \notin P}
  <1>1. CASE T = {}
    BY <1>1
  <1>2. CASE T # {}
    <2>1. T \in SUBSET Nat
      OBVIOUS
    <2>2. PICK m \in T : \A k \in T : m <= k
      BY <1>2, <2>1, SmallestOf
    <2>3. m \in 0 .. n /\ m # 0 /\ m \notin P
      OBVIOUS
    <2>4. m \in 1 .. n /\ m - 1 \in 0 .. n
      BY <2>3
    <2>5. m - 1 \notin T
      BY <2>2, <2>4
    <2>. QED
      BY <2>3, <2>4, <2>5
  <1>. QED
    BY <1>1, <1>2

\* s has each member of S at one place.
Passes(s, S) ==
  /\ s \in [1 .. Cardinality(S) -> S]
  /\ \A i, j \in 1 .. Cardinality(S) : s[i] = s[j] => i = j
  /\ \A x \in S : \E i \in 1 .. Cardinality(S) : s[i] = x

LEMMA InjectionPasses ==
  ASSUME NEW S, IsFiniteSet(S), NEW s \in [1 .. Cardinality(S) -> S],
         \A i, j \in 1 .. Cardinality(S) : s[i] = s[j] => i = j
  PROVE  Passes(s, S)
  <1>. DEFINE n == Cardinality(S)
  <1>1. n \in Nat /\ IsFiniteSet(1 .. n) /\ Cardinality(1 .. n) = n
    BY FS_CardinalityType, FS_Interval
  <1>2. s \in Injection(1 .. n, S)
    BY Fun_IsInj
  <1>3. s \in Surjection(1 .. n, S)
    BY <1>1, <1>2, FS_Injection
  <1>. QED
    BY <1>3 DEF Passes, Surjection

\* SetToSeq and Ascending do that.
LEMMA SetToSeqPasses ==
  ASSUME NEW S, IsFiniteSet(S)
  PROVE  Cardinality(S) \in Nat /\ Passes(SetToSeq(S), S)
  <1>. DEFINE n == Cardinality(S)
              s == SetToSeq(S)
  <1>1. n \in Nat /\ ExistsBijection(1 .. n, S)
    BY FS_CardinalityType
  <1>2. \E f \in [1 .. n -> S] : IsInjective(f)
    BY <1>1 DEF ExistsBijection, Bijection, Injection
  <1>3. s \in [1 .. n -> S] /\ IsInjective(s)
    BY <1>2 DEF SetToSeq
  <1>. HIDE DEF s
  <1>4. \A i, j \in 1 .. n : s[i] = s[j] => i = j
    BY <1>3 DEF IsInjective
  <1>5. Passes(s, S)
    BY <1>3, <1>4, InjectionPasses
  <1>. QED
    BY <1>1, <1>5 DEF s

LEMMA AscendingPasses ==
  ASSUME NEW S \in SUBSET Nat, IsFiniteSet(S)
  PROVE  Cardinality(S) \in Nat /\ Passes(Ascending(S), S)
  <1>. DEFINE n == Cardinality(S)
              below(x) == {y \in S : y <= x}
              rank == [x \in S |-> Cardinality(below(x))]
  <1>1. n \in Nat /\ IsFiniteSet(1 .. n) /\ Cardinality(1 .. n) = n
    BY FS_CardinalityType, FS_Interval
  <1>2. \A x \in S : IsFiniteSet(below(x)) /\ Cardinality(below(x)) \in 1 .. n
    <2>. SUFFICES ASSUME NEW x \in S PROVE IsFiniteSet(below(x)) /\ Cardinality(below(x)) \in 1 .. n
      OBVIOUS
    <2>. DEFINE B == below(x)
    <2>1. B \in SUBSET S /\ B # {}
      OBVIOUS
    <2>. HIDE DEF B
    <2>2. IsFiniteSet(B) /\ Cardinality(B) <= n
      BY <2>1, FS_Subset
    <2>3. Cardinality(B) \in Nat /\ Cardinality(B) # 0
      BY <2>1, <2>2, FS_CardinalityType, FS_EmptySet
    <2>. QED
      BY <1>1, <2>2, <2>3 DEF B
  <1>3. rank \in [S -> 1 .. n]
    BY <1>2
  <1>4. \A x, y \in S : x < y => rank[x] < rank[y]
    <2>. SUFFICES ASSUME NEW x \in S, NEW y \in S, x < y PROVE rank[x] < rank[y]
      OBVIOUS
    <2>. DEFINE B == below(x)
                C == below(y)
    <2>1. B \in SUBSET C /\ y \in C /\ y \notin B
      <3>1. x \in Nat /\ y \in Nat /\ y <= y /\ ~(y <= x)
        OBVIOUS
      <3>2. \A z \in S : z \in Nat /\ (z <= x => z <= y)
        OBVIOUS
      <3>. QED
        BY <3>1, <3>2
    <2>2. IsFiniteSet(C) /\ Cardinality(C) \in 1 .. n /\ Cardinality(B) \in 1 .. n
      BY <1>2
    <2>3. rank[x] = Cardinality(B) /\ rank[y] = Cardinality(C)
      OBVIOUS
    <2>. HIDE DEF B, C, rank
    <2>4. Cardinality(B) <= Cardinality(C) /\ Cardinality(B) # Cardinality(C)
      BY <2>1, <2>2, FS_Subset
    <2>. HIDE DEF n
    <2>5. Cardinality(C) \in Nat /\ Cardinality(B) \in Nat
      BY <1>1, <2>2
    <2>. QED
      BY <2>3, <2>4, <2>5
  <1>. HIDE DEF rank
  <1>5. \A x, y \in S : rank[x] = rank[y] => x = y
    <2>. SUFFICES ASSUME NEW x \in S, NEW y \in S, rank[x] = rank[y] PROVE x = y
      OBVIOUS
    <2>1. rank[x] \in Nat /\ ~(rank[x] < rank[y]) /\ ~(rank[y] < rank[x])
      BY <1>1, <1>3
    <2>2. x \in Nat /\ y \in Nat /\ ~(x < y) /\ ~(y < x)
      BY <1>4, <2>1
    <2>. QED
      BY <2>2
  <1>6. \A k \in 1 .. n : \E x \in S : rank[x] = k
    <2>1. rank \in Injection(S, 1 .. n)
      BY <1>3, <1>5, Fun_IsInj
    <2>2. rank \in Surjection(S, 1 .. n)
      BY <1>1, <2>1, FS_Injection
    <2>. QED
      BY <2>2 DEF Surjection
  <1>. DEFINE s == [k \in 1 .. n |-> CHOOSE x \in S : rank[x] = k]
  <1>7. \A k \in 1 .. n : s[k] \in S /\ rank[s[k]] = k
    BY <1>6
  <1>8. s \in [1 .. n -> S]
    BY <1>7
  <1>. HIDE DEF s
  <1>9. \A i, j \in 1 .. n : i < j => s[i] < s[j]
    <2>. SUFFICES ASSUME NEW i \in 1 .. n, NEW j \in 1 .. n, i < j PROVE s[i] < s[j]
      OBVIOUS
    <2>1. PICK x \in S : x = s[i] /\ rank[x] = i
      BY <1>7
    <2>2. PICK y \in S : y = s[j] /\ rank[y] = j
      BY <1>7
    <2>3. i \in Nat /\ j \in Nat /\ x \in Nat /\ y \in Nat
      BY <1>1
    <2>4. ~(y < x) /\ y # x
      BY <1>4, <2>1, <2>2, <2>3
    <2>. QED
      BY <2>1, <2>2, <2>3, <2>4
  <1>. DEFINE a == Ascending(S)
  <1>10. a \in [1 .. n -> S] /\ \A i, j \in DOMAIN a : i < j => a[i] < a[j]
    <2>1. \E f \in [1 .. n -> S] : \A i, j \in DOMAIN f : i < j => f[i] < f[j]
      BY <1>8, <1>9
    <2>. QED
      BY <2>1 DEF Ascending
  <1>. HIDE DEF a
  <1>11. \A i, j \in 1 .. n : a[i] = a[j] => i = j
    <2>. SUFFICES ASSUME NEW i \in 1 .. n, NEW j \in 1 .. n, a[i] = a[j] PROVE i = j
      OBVIOUS
    <2>1. ~(i < j) /\ ~(j < i)
      <3>1. \A x \in S : ~(x < x)
        OBVIOUS
      <3>. QED
        BY <1>10, <3>1
    <2>. QED
      BY <1>1, <2>1
  <1>12. Passes(a, S)
    BY <1>10, <1>11, InjectionPasses
  <1>. QED
    BY <1>1, <1>12 DEF a

------------------------------------------------------------------------------
(* Buckets                                                                 *)

LEMMA AppendLists ==
  ASSUME NEW s \in Seq(Ids), NEW S, Lists(s, S), NEW x \in Ids, x \notin S
  PROVE  Append(s, x) \in Seq(Ids) /\ Lists(Append(s, x), S \cup {x})
  <1>. DEFINE t == Append(s, x)
              n == Len(s)
  <1>1. n \in Nat /\ DOMAIN s = 1 .. n /\ t \in Seq(Ids) /\ DOMAIN t = 1 .. n + 1
    OBVIOUS
  <1>2. t[n + 1] = x /\ \A i \in 1 .. n : t[i] = s[i] /\ i \in 1 .. n + 1
    OBVIOUS
  <1>3. \A i \in 1 .. n + 1 : i = n + 1 \/ i \in 1 .. n
    BY <1>1
  <1>4. /\ \A i \in 1 .. n : s[i] \in S
        /\ \A y \in S : \E i \in 1 .. n : s[i] = y
        /\ \A i, j \in 1 .. n : s[i] = s[j] => i = j
    BY <1>1 DEF Lists, ToSet, IsInjective
  <1>. HIDE DEF t, n
  <1>5. n + 1 \in 1 .. n + 1
    BY <1>1
  <1>6. ToSet(t) = S \cup {x}
    <2>1. \A i \in DOMAIN t : t[i] \in S \cup {x}
      BY <1>1, <1>2, <1>3, <1>4
    <2>2. \A y \in S \cup {x} : \E i \in DOMAIN t : t[i] = y
      BY <1>1, <1>2, <1>4, <1>5
    <2>. QED
      BY <2>1, <2>2 DEF ToSet
  <1>7. IsInjective(t)
    <2>. SUFFICES ASSUME NEW i \in 1 .. n + 1, NEW j \in 1 .. n + 1, t[i] = t[j] PROVE i = j
      BY <1>1 DEF IsInjective
    <2>. QED
      BY <1>2, <1>3, <1>4
  <1>. QED
    BY <1>1, <1>6, <1>7 DEF Lists, t

LEMMA WithoutLists ==
  ASSUME NEW s \in Seq(Ids), NEW x
  PROVE  /\ Without(s, x) \in Seq(Ids)
         /\ \A S : Lists(s, S) => Lists(Without(s, x), S \ {x})
  <1>. DEFINE D == {i \in DOMAIN s : s[i] # x}
              m == Cardinality(D)
              at == Ascending(D)
              t == [i \in DOMAIN at |-> s[at[i]]]
  <1>1. Len(s) \in Nat /\ DOMAIN s = 1 .. Len(s) /\ \A i \in DOMAIN s : s[i] \in Ids
    OBVIOUS
  <1>2. D \in SUBSET Nat /\ IsFiniteSet(D)
    <2>1. IsFiniteSet(DOMAIN s)
      BY <1>1, FS_Interval
    <2>. QED
      BY <1>1, <2>1, FS_Subset
  <1>3. m \in Nat /\ Passes(at, D)
    BY <1>2, AscendingPasses
  <1>4. Without(s, x) = t
    BY DEF Without
  <1>. HIDE DEF at, m
  <1>5. /\ at \in [1 .. m -> D] /\ \A i, j \in 1 .. m : at[i] = at[j] => i = j
        /\ \A k \in D : \E i \in 1 .. m : at[i] = k
    BY <1>3 DEF Passes, m
  <1>6. \A i \in 1 .. m : at[i] \in DOMAIN s /\ s[at[i]] # x /\ t[i] = s[at[i]]
    BY <1>5
  <1>7. t \in [1 .. m -> Ids]
    BY <1>1, <1>5, <1>6
  <1>8. t \in Seq(Ids) /\ DOMAIN t = 1 .. m
    BY <1>3, <1>7
  <1>9. ASSUME NEW S, Lists(s, S) PROVE Lists(t, S \ {x})
    <2>1. /\ \A i \in DOMAIN s : s[i] \in S
          /\ \A y \in S : \E i \in DOMAIN s : s[i] = y
          /\ \A i, j \in DOMAIN s : s[i] = s[j] => i = j
      BY <1>9 DEF Lists, ToSet, IsInjective
    <2>2. \A i \in DOMAIN t : t[i] \in S \ {x}
      BY <1>6, <1>8, <2>1
    <2>3. ASSUME NEW y \in S \ {x} PROVE \E i \in DOMAIN t : t[i] = y
      <3>1. PICK k \in D : s[k] = y
        BY <2>1
      <3>. QED
        BY <1>5, <1>6, <1>8, <3>1
    <2>4. \A i, j \in DOMAIN t : t[i] = t[j] => i = j
      BY <1>5, <1>6, <1>8, <2>1
    <2>. HIDE DEF t
    <2>5. ToSet(t) = S \ {x}
      BY <2>2, <2>3 DEF ToSet
    <2>. QED
      BY <2>4, <2>5 DEF Lists, IsInjective
  <1>. QED
    BY <1>4, <1>8, <1>9

\* Each bucket of b lists the ids that A has under its key.
Listed(b, A) == \A k \in Keys : Lists(b[k], A[k])

\* Where x goes from, and where to.
Filed(A, x, losing, gaining) ==
  [k \in Keys |-> IF k \in losing THEN A[k] \ {x} ELSE IF k \in gaining THEN A[k] \cup {x} ELSE A[k]]

LEMMA MovedLists ==
  ASSUME NEW b \in Buckets, NEW x \in Ids, NEW losing, NEW gaining
  PROVE  /\ Moved(b, x, losing, gaining) \in Buckets
         /\ \A A : Listed(b, A) /\ (\A k \in Keys \cap gaining : k \notin losing => x \notin A[k]) =>
                   Listed(Moved(b, x, losing, gaining), Filed(A, x, losing, gaining))
  <1>. DEFINE c == Moved(b, x, losing, gaining)
  <1>1. \A k \in Keys : b[k] \in Seq(Ids) /\ c[k] = IF k \in losing THEN Without(b[k], x)
                                  ELSE IF k \in gaining THEN Append(b[k], x) ELSE b[k]
    BY DEF Moved, Buckets
  <1>2. \A k \in Keys : c[k] \in Seq(Ids)
    <2>. SUFFICES ASSUME NEW k \in Keys PROVE c[k] \in Seq(Ids)
      OBVIOUS
    <2>1. Without(b[k], x) \in Seq(Ids)
      BY <1>1, WithoutLists
    <2>2. Append(b[k], x) \in Seq(Ids)
      BY <1>1
    <2>. HIDE DEF c
    <2>. QED
      BY <1>1, <2>1, <2>2
  <1>3. c \in Buckets
    BY <1>2 DEF Moved, Buckets
  <1>. HIDE DEF c
  <1>4. ASSUME NEW A, Listed(b, A), \A k \in Keys \cap gaining : k \notin losing => x \notin A[k],
               NEW k \in Keys
        PROVE  Lists(c[k], Filed(A, x, losing, gaining)[k])
    <2>1. b[k] \in Seq(Ids) /\ Lists(b[k], A[k])
      BY <1>1, <1>4 DEF Listed
    <2>2. CASE k \in losing
      BY <1>1, <2>1, <2>2, WithoutLists DEF Filed
    <2>3. CASE k \notin losing /\ k \in gaining
      BY <1>1, <1>4, <2>1, <2>3, AppendLists DEF Filed
    <2>4. CASE k \notin losing /\ k \notin gaining
      BY <1>1, <2>1, <2>4 DEF Filed
    <2>. QED
      BY <2>2, <2>3, <2>4
  <1>5. \A A : Listed(b, A) /\ (\A k \in Keys \cap gaining : k \notin losing => x \notin A[k]) =>
                 Listed(c, Filed(A, x, losing, gaining))
    BY <1>4 DEF Listed
  <1>. QED
    BY <1>3, <1>5 DEF c

------------------------------------------------------------------------------
(* Constants and records                                                   *)

LEMMA Parameters ==
  /\ IsFiniteSet(Ids) /\ Ids \cap FarIds = {} /\ MaxLog \in Nat
  /\ Absent \notin Records /\ NoLabel \notin Labels
  /\ \A s \in Stacks :
       /\ s.labels \subseteq Labels /\ s.named \subseteq Labels /\ s.foreign \subseteq Labels
       /\ s.ids \subseteq Ids /\ s.records \subseteq Records /\ s.files \in BOOLEAN
       /\ "scanned" \in s.layers => ~s.files /\ "mmap_scanned" \notin s.layers
       /\ "indexed" \in s.layers => ~s.files
  <1>1. \A s \in Stacks : IsStack(s) /\ s.labels \subseteq Labels
    BY StackAssumption DEF Labels
  <1>2. \A s \in Stacks :
          /\ s.named \subseteq Labels /\ s.foreign \subseteq Labels
          /\ s.ids \subseteq Ids /\ s.records \subseteq Records /\ s.files \in BOOLEAN
    BY <1>1 DEF IsStack
  <1>3. ASSUME NEW s \in Stacks
        PROVE  /\ "scanned" \in s.layers => ~s.files /\ "mmap_scanned" \notin s.layers
               /\ "indexed" \in s.layers => ~s.files
    <2>1. s.layers \cap {"indexed", "scanned"} # {} => ~s.files /\ "mmap_scanned" \notin s.layers
      BY <1>1 DEF IsStack
    <2>. QED
      BY <2>1
  <1>. QED
    BY <1>1, <1>2, <1>3, StackAssumption, ValueAssumption

LEMMA RecordFacts ==
  /\ \A r \in Records : r.key \in Keys /\ r.val \in Vals /\ r.val \in Keys /\ r # Absent
  /\ \A r \in Records, v \in Vals :
       LET s == [r EXCEPT !.val = v] IN s \in Records /\ s.key = r.key /\ s.val = v
  /\ \A r \in Records, s \in Records : r.key = s.key /\ r.val = s.val => r = s
  <1>1. \A r \in Records : r.key \in Keys /\ r.val \in Vals
    BY DEF Records
  <1>2. \A v \in Vals : v \in Keys
    BY DEF Vals, Keys
  <1>. QED
    BY <1>1, <1>2, Parameters DEF Records

\* An edge has two ends.
LEMMA PairIsEdge ==
  ASSUME NEW x \in Ids \cup FarIds, NEW y \in Ids \cup FarIds, x # y
  PROVE  {x, y} \in Edges
  <1>1. IsFiniteSet({x}) /\ Cardinality({x}) = 1
    BY FS_Singleton
  <1>2. Cardinality({x} \cup {y}) = 2
    BY <1>1, FS_AddElement
  <1>3. {x, y} = {x} \cup {y}
    OBVIOUS
  <1>. QED
    BY <1>2, <1>3 DEF Edges

------------------------------------------------------------------------------
(* Scanned                                                                 *)

LEMMA ScannedFacts ==
  ASSUME NEW c \in Columns, NEW recs \in [Ids -> Records \cup {Absent}], ColumnOf(recs, c),
         NEW x \in Ids, NEW r \in Records \cup {Absent}
  PROVE  LET d == ScannedStep(c, x, r) IN
         /\ d \in Columns /\ ColumnOf([recs EXCEPT ![x] = r], d)
         /\ r # Absent => d.cache[d.at[x]] = r.val
         /\ \A y \in Ids : y # x /\ c.at[y] # 0 => d.cache[d.at[y]] = c.cache[c.at[y]]
  <1>. DEFINE d == ScannedStep(c, x, r)
              p == c.at[x]
              last == Len(c.cache)
              to == [recs EXCEPT ![x] = r]
              Good(e) == /\ e \in Columns /\ ColumnOf(to, e)
                         /\ r # Absent => e.cache[e.at[x]] = r.val
                         /\ \A y \in Ids : y # x /\ c.at[y] # 0 => e.cache[e.at[y]] = c.cache[c.at[y]]
  <1>1. /\ c.cache \in Seq(Vals) /\ c.at \in [Ids -> Nat] /\ last \in Nat /\ DOMAIN c.cache = 1 .. last
        /\ p \in Nat
    BY DEF Columns
  <1>2. /\ \A y \in Ids : recs[y] # Absent <=> c.at[y] # 0
        /\ \A y \in Ids : c.at[y] # 0 => c.at[y] \in 1 .. last
        /\ \A y, z \in Ids : c.at[y] # 0 /\ c.at[y] = c.at[z] => y = z
        /\ \A q \in 1 .. last : \E y \in Ids : c.at[y] = q
    BY <1>1 DEF ColumnOf
  <1>3. to[x] = r /\ \A y \in Ids : y # x => to[y] = recs[y]
    OBVIOUS
  <1>. HIDE DEF to
  <1>4. ASSUME r # Absent /\ p = 0 PROVE Good(d)
    <2>. DEFINE cc == Append(c.cache, r.val)
                aa == [c.at EXCEPT ![x] = last + 1]
    <2>1. d = [cache |-> cc, at |-> aa]
      BY <1>4 DEF ScannedStep
    <2>. HIDE DEF d
    <2>2. r.val \in Vals /\ last + 1 \in Nat
      BY <1>1, <1>4, RecordFacts
    <2>3. /\ cc \in Seq(Vals) /\ DOMAIN cc = 1 .. last + 1 /\ cc[last + 1] = r.val
          /\ \A i \in 1 .. last : cc[i] = c.cache[i]
      BY <1>1, <2>2
    <2>4. aa \in [Ids -> Nat] /\ aa[x] = last + 1 /\ \A y \in Ids : y # x => aa[y] = c.at[y]
      BY <1>1, <2>2
    <2>. HIDE DEF cc, aa
    <2>5. d.cache = cc /\ d.at = aa /\ d \in Columns
      BY <2>1, <2>3, <2>4 DEF Columns
    <2>6. \A i \in 1 .. last + 1 : i = last + 1 \/ i \in 1 .. last
      BY <1>1
    <2>7. \A i \in 1 .. last : i \in 1 .. last + 1 /\ i # last + 1
      BY <1>1
    <2>8. last + 1 # 0 /\ last + 1 \in 1 .. last + 1
      BY <1>1
    <2>9. ColumnOf(to, d)
      <3>1. \A y \in Ids : to[y] # Absent <=> aa[y] # 0
        BY <1>2, <1>3, <1>4, <2>4, <2>8
      <3>2. \A y \in Ids : aa[y] # 0 => aa[y] \in DOMAIN cc
        BY <1>2, <2>3, <2>4, <2>7, <2>8
      <3>3. \A y, z \in Ids : aa[y] # 0 /\ aa[y] = aa[z] => y = z
        BY <1>2, <2>4, <2>7
      <3>4. \A q \in DOMAIN cc : \E y \in Ids : aa[y] = q
        <4>. SUFFICES ASSUME NEW q \in 1 .. last + 1 PROVE \E y \in Ids : aa[y] = q
          BY <2>3
        <4>1. CASE q = last + 1
          BY <2>4, <4>1
        <4>2. CASE q \in 1 .. last
          <5>1. PICK y \in Ids : c.at[y] = q
            BY <1>2, <4>2
          <5>2. y # x
            BY <1>1, <1>4, <4>2, <5>1
          <5>. QED
            BY <2>4, <5>1, <5>2
        <4>. QED
          BY <2>6, <4>1, <4>2
      <3>. QED
        BY <2>5, <3>1, <3>2, <3>3, <3>4 DEF ColumnOf
    <2>. QED
      BY <1>2, <2>3, <2>4, <2>5, <2>9
  <1>5. ASSUME r # Absent /\ p # 0 PROVE Good(d)
    <2>. DEFINE cc == [c.cache EXCEPT ![p] = r.val]
    <2>1. d = [c EXCEPT !.cache[p] = r.val]
      BY <1>5 DEF ScannedStep
    <2>. HIDE DEF d
    <2>2. p \in 1 .. last /\ r.val \in Vals
      BY <1>2, <1>5, RecordFacts
    <2>3. cc \in Seq(Vals) /\ DOMAIN cc = 1 .. last /\ cc[p] = r.val /\ \A i \in 1 .. last : i # p => cc[i] = c.cache[i]
      BY <1>1, <2>2
    <2>4. d.cache = cc /\ d.at = c.at /\ d \in Columns
      BY <2>1, <2>3 DEF Columns
    <2>. HIDE DEF cc
    <2>5. ColumnOf(to, d)
      BY <1>2, <1>3, <1>5, <2>3, <2>4 DEF ColumnOf
    <2>. QED
      BY <1>2, <1>5, <2>3, <2>4, <2>5
  <1>6. ASSUME r = Absent /\ p # 0 PROVE Good(d)
    <2>. DEFINE moved == [c.cache EXCEPT ![p] = c.cache[last]]
                cc == Front(moved)
                aa == [y \in Ids |-> IF y = x THEN 0 ELSE IF c.at[y] = last THEN p ELSE c.at[y]]
    <2>1. d = [cache |-> cc, at |-> aa]
      BY <1>6 DEF ScannedStep
    <2>. HIDE DEF d
    <2>2. p \in 1 .. last /\ last \in 1 .. last /\ last - 1 \in Nat
      BY <1>1, <1>2, <1>6
    <2>3. moved \in Seq(Vals) /\ Len(moved) = last
          /\ \A i \in 1 .. last : moved[i] = IF i = p THEN c.cache[last] ELSE c.cache[i]
      BY <1>1, <2>2
    <2>. HIDE DEF moved
    <2>4. cc \in Seq(Vals) /\ DOMAIN cc = 1 .. last - 1
          /\ \A i \in 1 .. last - 1 : cc[i] = IF i = p THEN c.cache[last] ELSE c.cache[i]
      <3>1. \A i \in 1 .. last - 1 : i \in 1 .. last
        BY <2>2
      <3>2. \A i \in 1 .. last - 1 : moved[i] \in Vals
        BY <2>3, <3>1
      <3>3. cc = SubSeq(moved, 1, last - 1)
        BY <2>3 DEF Front
      <3>4. 1 \in Int /\ last - 1 \in Int /\ (last - 1) - 1 + 1 = last - 1
        BY <2>2
      <3>5. cc \in Seq(Vals) /\ Len(cc) = (IF 1 <= last - 1 THEN (last - 1) - 1 + 1 ELSE 0)
            /\ \A i \in 1 .. (last - 1) - 1 + 1 : cc[i] = moved[1 + i - 1]
        BY <3>2, <3>3, <3>4, SubSeqProperties
      <3>. HIDE DEF cc
      <3>6. Len(cc) = last - 1
        BY <2>2, <3>5
      <3>7. \A i \in 1 .. last - 1 : 1 + i - 1 = i
        BY <2>2
      <3>. QED
        BY <2>3, <3>1, <3>4, <3>5, <3>6, <3>7
    <2>5. aa[x] = 0 /\ \A y \in Ids : y # x => aa[y] = IF c.at[y] = last THEN p ELSE c.at[y]
      OBVIOUS
    <2>6. aa \in [Ids -> Nat]
      BY <1>1
    <2>. HIDE DEF aa, cc
    <2>7. d.cache = cc /\ d.at = aa /\ d \in Columns
      BY <2>1, <2>4, <2>6 DEF Columns
    <2>8. ASSUME NEW y \in Ids, y # x, c.at[y] # 0
          PROVE  aa[y] # 0 /\ aa[y] \in 1 .. last - 1 /\ cc[aa[y]] = c.cache[c.at[y]]
      <3>1. c.at[y] \in 1 .. last /\ c.at[y] # p
        BY <1>2, <2>8
      <3>2. CASE c.at[y] = last
        <4>1. aa[y] = p /\ p \in 1 .. last - 1
          BY <1>1, <2>2, <2>5, <2>8, <3>1, <3>2
        <4>. QED
          BY <2>4, <3>2, <4>1
      <3>3. CASE c.at[y] # last
        <4>1. aa[y] = c.at[y] /\ c.at[y] \in 1 .. last - 1
          BY <1>1, <2>2, <2>5, <2>8, <3>1, <3>3
        <4>. QED
          BY <2>4, <3>1, <4>1
      <3>. QED
        BY <3>2, <3>3
    <2>9. ColumnOf(to, d)
      <3>0. \A y \in Ids : y # x /\ c.at[y] = 0 => aa[y] = 0
        BY <2>2, <2>5
      <3>1. \A y \in Ids : to[y] # Absent <=> aa[y] # 0
        BY <1>2, <1>3, <1>6, <2>5, <2>8, <3>0
      <3>2. \A y \in Ids : aa[y] # 0 => aa[y] \in DOMAIN cc
        BY <2>4, <2>5, <2>8, <3>0
      <3>3. ASSUME NEW y \in Ids, NEW z \in Ids, aa[y] # 0, aa[y] = aa[z] PROVE y = z
        <4>1. y # x /\ z # x /\ c.at[y] # 0 /\ c.at[z] # 0
          BY <2>5, <3>0, <3>3
        <4>2. c.at[y] # p /\ c.at[z] # p
          BY <1>2, <4>1
        <4>3. c.at[y] = c.at[z]
          BY <2>5, <3>3, <4>1, <4>2
        <4>. QED
          BY <1>2, <4>1, <4>3
      <3>4. ASSUME NEW q \in 1 .. last - 1 PROVE \E y \in Ids : aa[y] = q
        <4>0. q \in 1 .. last /\ q # last /\ last # 0
          BY <2>2
        <4>1. CASE q = p
          <5>1. PICK y \in Ids : c.at[y] = last
            BY <1>2, <2>2
          <5>2. y # x
            BY <4>0, <4>1, <5>1
          <5>. QED
            BY <2>5, <4>1, <5>1, <5>2
        <4>2. CASE q # p
          <5>1. PICK y \in Ids : c.at[y] = q
            BY <1>2, <4>0
          <5>2. y # x
            BY <4>2, <5>1
          <5>. QED
            BY <2>5, <4>0, <5>1, <5>2
        <4>. QED
          BY <4>1, <4>2
      <3>5. \A q \in DOMAIN cc : \E y \in Ids : aa[y] = q
        BY <2>4, <3>4
      <3>. QED
        BY <2>7, <3>1, <3>2, <3>3, <3>5 DEF ColumnOf
    <2>. QED
      BY <1>6, <2>7, <2>8, <2>9
  <1>7. ASSUME r = Absent /\ p = 0 PROVE Good(d)
    <2>1. d = c
      BY <1>7 DEF ScannedStep
    <2>2. ColumnOf(to, c)
      BY <1>1, <1>2, <1>3, <1>7 DEF ColumnOf
    <2>. QED
      BY <1>7, <2>1, <2>2
  <1>8. Good(d)
    <2>. HIDE DEF Good, d
    <2>. QED
      BY <1>4, <1>5, <1>6, <1>7
  <1>. QED
    BY <1>8 DEF to

------------------------------------------------------------------------------
(* Indexes, lists and orders by key                                        *)

MaybeRecords == Records \cup {Absent}
Maps == [Ids -> MaybeRecords]

\* f: the keys of each id.
KeyedBy(f) == [k \in Keys |-> {y \in Ids : k \in f[y]}]

\* x leaves some keys and joins others, and f becomes g.
Refiles(f, x, losing, gaining, g) ==
  /\ Filed(KeyedBy(f), x, losing, gaining) = KeyedBy(g)
  /\ \A k \in Keys \cap gaining : x \notin KeyedBy(f)[k]

Rekeys(f, x, to, losing, gaining, g) ==
  /\ f \in [Ids -> SUBSET Keys] /\ x \in Ids /\ to \in SUBSET Keys
  /\ losing = f[x] \ to /\ gaining \cap Keys = to \ f[x] /\ g = [f EXCEPT ![x] = to]

LEMMA FiledIs ==
  ASSUME NEW f, NEW x, NEW to, NEW losing, NEW gaining, NEW g,
         Rekeys(f, x, to, losing, gaining, g)
  PROVE  Refiles(f, x, losing, gaining, g)
  <1>. DEFINE A == KeyedBy(f)
              B == KeyedBy(g)
  <1>0. /\ f \in [Ids -> SUBSET Keys] /\ x \in Ids /\ to \in SUBSET Keys
        /\ losing = f[x] \ to /\ gaining \cap Keys = to \ f[x] /\ g = [f EXCEPT ![x] = to]
    BY DEF Rekeys
  <1>1. g[x] = to /\ \A y \in Ids : y # x => g[y] = f[y]
    BY <1>0
  <1>2. \A k \in Keys : /\ k \in gaining <=> k \in to /\ k \notin f[x]
                        /\ k \in losing <=> k \in f[x] /\ k \notin to
    BY <1>0
  <1>3. \A k \in Keys : A[k] = {y \in Ids : k \in f[y]} /\ B[k] = {y \in Ids : k \in g[y]}
    BY DEF KeyedBy
  <1>. HIDE DEF A, B
  <1>4. ASSUME NEW k \in Keys
        PROVE  B[k] = IF k \in losing THEN A[k] \ {x} ELSE IF k \in gaining THEN A[k] \cup {x} ELSE A[k]
    <2>1. CASE k \in losing
      <3>1. k \notin to
        BY <1>2, <2>1
      <3>2. B[k] = A[k] \ {x}
        BY <1>0, <1>1, <1>3, <3>1
      <3>. QED
        BY <2>1, <3>2
    <2>2. CASE k \notin losing /\ k \in gaining
      <3>1. k \in to
        BY <1>2, <2>2
      <3>2. B[k] = A[k] \cup {x}
        BY <1>0, <1>1, <1>3, <3>1
      <3>. QED
        BY <2>2, <3>2
    <2>3. CASE k \notin losing /\ k \notin gaining
      <3>1. k \in to <=> k \in f[x]
        BY <1>2, <2>3
      <3>2. \A y \in Ids : k \in g[y] <=> k \in f[y]
        BY <1>1, <3>1
      <3>3. B[k] = A[k]
        BY <1>3, <3>2
      <3>. QED
        BY <2>3, <3>3
    <2>. QED
      BY <2>1, <2>2, <2>3
  <1>5. Filed(A, x, losing, gaining) = B
    <2>1. B = [k \in Keys |-> B[k]]
      BY DEF B, KeyedBy
    <2>. QED
      BY <1>4, <2>1 DEF Filed
  <1>. QED
    BY <1>0, <1>2, <1>3, <1>5 DEF A, B, Refiles

IndexedBy(b, m)  == \A k \in Keys : Lists(b[k], {y \in Ids : k \in IndexedKeys(m[y])})
ReversedBy(b, m) == \A k \in Keys : Lists(b[k], {y \in Ids : k \in ReversedKeys(m[y])})
NamedBy(b, m)    == \A k \in Keys : Lists(b[k], {y \in Ids : k \in NameKeys(m[y])})
OrderedBy(o, m)  == o = UNION {OrderPairs(y, m[y]) : y \in Ids}

LEMMA KeysOfRecords ==
  \A r \in MaybeRecords :
    /\ IndexedKeys(r) \in SUBSET Keys /\ ReversedKeys(r) \in SUBSET Keys /\ NameKeys(r) \in SUBSET Keys
    /\ \A x \in Ids : OrderPairs(x, r) \in SUBSET (Keys \X Ids)
  <1>1. \A k \in Keys : (k + 1) % 3 \in Keys
    BY DEF Keys
  <1>. QED
    BY <1>1, RecordFacts DEF MaybeRecords, IndexedKeys, ReversedKeys, NameKeys, OrderPairs

LEMMA IndexedFacts ==
  ASSUME NEW b \in Buckets, NEW x \in Ids, NEW old \in MaybeRecords, NEW new \in MaybeRecords
  PROVE  /\ IndexedStep(b, x, old, new) \in Buckets
         /\ \A m \in Maps : IndexedBy(b, m) /\ IndexedKeys(m[x]) = IndexedKeys(old) =>
                            IndexedBy(IndexedStep(b, x, old, new), [m EXCEPT ![x] = new])
  <1>. DEFINE losing == IndexedKeys(old) \ IndexedKeys(new)
              gaining == IndexedKeys(new) \ IndexedKeys(old)
              c == Moved(b, x, losing, gaining)
  <1>1. IndexedStep(b, x, old, new) = c
    BY DEF IndexedStep
  <1>2. c \in Buckets
    BY MovedLists
  <1>3. ASSUME NEW m \in Maps, IndexedBy(b, m), IndexedKeys(m[x]) = IndexedKeys(old)
        PROVE  IndexedBy(c, [m EXCEPT ![x] = new])
    <2>. DEFINE f == [y \in Ids |-> IndexedKeys(m[y])]
                g == [f EXCEPT ![x] = IndexedKeys(new)]
                n == [m EXCEPT ![x] = new]
    <2>1. f \in [Ids -> SUBSET Keys] /\ IndexedKeys(new) \in SUBSET Keys /\ f[x] = IndexedKeys(old)
      BY <1>3, KeysOfRecords DEF Maps
    <2>2. Listed(b, KeyedBy(f))
      BY <1>3 DEF IndexedBy, Listed, KeyedBy
    <2>3. \A y \in Ids : g[y] = IndexedKeys(n[y])
      BY DEF Maps
    <2>. HIDE DEF f
    <2>4. Refiles(f, x, losing, gaining, g)
      <3>1. PICK to \in SUBSET Keys : to = IndexedKeys(new)
        BY <2>1
      <3>2. Rekeys(f, x, to, losing, gaining, g)
        BY <2>1, <3>1 DEF Rekeys
      <3>. HIDE DEF losing, gaining, g
      <3>. QED
        BY <3>2, FiledIs
    <2>. HIDE DEF losing, gaining, g, n
    <2>5. Listed(c, KeyedBy(g))
      BY <2>2, <2>4, MovedLists DEF Refiles
    <2>. QED
      BY <2>3, <2>5 DEF IndexedBy, Listed, KeyedBy, n
  <1>. QED
    BY <1>1, <1>2, <1>3

LEMMA ReversedFacts ==
  ASSUME NEW b \in Buckets, NEW x \in Ids, NEW old \in MaybeRecords, NEW new \in MaybeRecords
  PROVE  /\ ReversedStep(b, x, old, new) \in Buckets
         /\ \A m \in Maps : ReversedBy(b, m) /\ m[x] = old =>
                            ReversedBy(ReversedStep(b, x, old, new), [m EXCEPT ![x] = new])
  <1>. DEFINE losing == ReversedKeys(old) \ ReversedKeys(new)
              gaining == ReversedKeys(new) \ ReversedKeys(old)
              c == Moved(b, x, losing, gaining)
  <1>1. ReversedStep(b, x, old, new) = c
    BY DEF ReversedStep
  <1>2. c \in Buckets
    BY MovedLists
  <1>3. ASSUME NEW m \in Maps, ReversedBy(b, m), m[x] = old
        PROVE  ReversedBy(c, [m EXCEPT ![x] = new])
    <2>. DEFINE f == [y \in Ids |-> ReversedKeys(m[y])]
                g == [f EXCEPT ![x] = ReversedKeys(new)]
                n == [m EXCEPT ![x] = new]
    <2>1. f \in [Ids -> SUBSET Keys] /\ ReversedKeys(new) \in SUBSET Keys /\ f[x] = ReversedKeys(old)
      BY <1>3, KeysOfRecords DEF Maps
    <2>2. Listed(b, KeyedBy(f))
      BY <1>3 DEF ReversedBy, Listed, KeyedBy
    <2>3. \A y \in Ids : g[y] = ReversedKeys(n[y])
      BY DEF Maps
    <2>. HIDE DEF f
    <2>4. Refiles(f, x, losing, gaining, g)
      <3>1. PICK to \in SUBSET Keys : to = ReversedKeys(new)
        BY <2>1
      <3>2. Rekeys(f, x, to, losing, gaining, g)
        BY <2>1, <3>1 DEF Rekeys
      <3>. HIDE DEF losing, gaining, g
      <3>. QED
        BY <3>2, FiledIs
    <2>. HIDE DEF losing, gaining, g, n
    <2>5. Listed(c, KeyedBy(g))
      BY <2>2, <2>4, MovedLists DEF Refiles
    <2>. QED
      BY <2>3, <2>5 DEF ReversedBy, Listed, KeyedBy, n
  <1>. QED
    BY <1>1, <1>2, <1>3

LEMMA NamesFacts ==
  ASSUME NEW b \in Buckets, NEW x \in Ids, NEW old \in MaybeRecords, NEW new \in MaybeRecords
  PROVE  /\ NamesStep(b, x, old, new) \in Buckets
         /\ \A m \in Maps : NamedBy(b, m) /\ m[x] = old =>
                            NamedBy(NamesStep(b, x, old, new), [m EXCEPT ![x] = new])
  <1>. DEFINE losing == NameKeys(old) \ NameKeys(new)
              gaining == {k \in NameKeys(new) : ~Contains(b[k], x)}
              c == Moved(b, x, losing, gaining)
  <1>1. NamesStep(b, x, old, new) = c
    BY DEF NamesStep
  <1>2. c \in Buckets
    BY MovedLists
  <1>3. ASSUME NEW m \in Maps, NamedBy(b, m), m[x] = old
        PROVE  NamedBy(c, [m EXCEPT ![x] = new])
    <2>. DEFINE f == [y \in Ids |-> NameKeys(m[y])]
                g == [f EXCEPT ![x] = NameKeys(new)]
                n == [m EXCEPT ![x] = new]
    <2>1. f \in [Ids -> SUBSET Keys] /\ NameKeys(new) \in SUBSET Keys /\ f[x] = NameKeys(old)
      BY <1>3, KeysOfRecords DEF Maps
    <2>2. Listed(b, KeyedBy(f))
      BY <1>3 DEF NamedBy, Listed, KeyedBy
    <2>3. \A y \in Ids : g[y] = NameKeys(n[y])
      BY DEF Maps
    <2>a. ASSUME NEW k \in Keys PROVE Contains(b[k], x) <=> k \in f[x]
      <3>1. b[k] \in Seq(Ids) /\ ToSet(b[k]) = {y \in Ids : k \in f[y]}
        BY <2>2 DEF Listed, KeyedBy, Lists, Buckets
      <3>2. Contains(b[k], x) <=> x \in ToSet(b[k])
        BY <3>1 DEF Contains, ToSet
      <3>. HIDE DEF f
      <3>. QED
        BY <3>1, <3>2
    <2>. HIDE DEF f
    <2>4. Refiles(f, x, losing, gaining, g)
      <3>1. PICK to \in SUBSET Keys : to = NameKeys(new)
        BY <2>1
      <3>2. Rekeys(f, x, to, losing, gaining, g)
        BY <2>1, <2>a, <3>1 DEF Rekeys
      <3>. HIDE DEF losing, gaining, g
      <3>. QED
        BY <3>2, FiledIs
    <2>. HIDE DEF losing, gaining, g, n
    <2>5. Listed(c, KeyedBy(g))
      BY <2>2, <2>4, MovedLists DEF Refiles
    <2>. QED
      BY <2>3, <2>5 DEF NamedBy, Listed, KeyedBy, n
  <1>. QED
    BY <1>1, <1>2, <1>3

LEMMA OrderedFacts ==
  ASSUME NEW o \in SUBSET (Keys \X Ids), NEW x \in Ids, NEW old \in MaybeRecords, NEW new \in MaybeRecords
  PROVE  /\ OrderedStep(o, x, old, new) \in SUBSET (Keys \X Ids)
         /\ \A m \in Maps : OrderedBy(o, m) /\ m[x] = old =>
                            OrderedBy(OrderedStep(o, x, old, new), [m EXCEPT ![x] = new])
  <1>1. OrderedStep(o, x, old, new) \in SUBSET (Keys \X Ids)
    BY KeysOfRecords DEF OrderedStep
  <1>2. ASSUME NEW m \in Maps, OrderedBy(o, m), m[x] = old
        PROVE  OrderedBy(OrderedStep(o, x, old, new), [m EXCEPT ![x] = new])
    <2>. DEFINE n == [m EXCEPT ![x] = new]
    <2>1. n[x] = new /\ \A y \in Ids : y # x => n[y] = m[y]
      BY DEF Maps
    <2>. HIDE DEF n
    <2>2. \A y \in Ids : \A r : \A p \in OrderPairs(y, r) : p[2] = y
      BY DEF OrderPairs
    <2>3. UNION {OrderPairs(y, n[y]) : y \in Ids} = (o \ OrderPairs(x, old)) \cup OrderPairs(x, new)
      <3>1. ASSUME NEW p, p \in UNION {OrderPairs(y, n[y]) : y \in Ids}
            PROVE  p \in (o \ OrderPairs(x, old)) \cup OrderPairs(x, new)
        <4>1. PICK y \in Ids : p \in OrderPairs(y, n[y])
          BY <3>1
        <4>2. CASE y = x
          BY <2>1, <4>1, <4>2
        <4>3. CASE y # x
          <5>1. p \in OrderPairs(y, m[y])
            BY <2>1, <4>1, <4>3
          <5>2. p \in o
            BY <1>2, <5>1 DEF OrderedBy
          <5>3. p \notin OrderPairs(x, old)
            BY <2>2, <4>3, <5>1
          <5>. QED
            BY <5>2, <5>3
        <4>. QED
          BY <4>2, <4>3
      <3>2. ASSUME NEW p \in (o \ OrderPairs(x, old)) \cup OrderPairs(x, new)
            PROVE  p \in UNION {OrderPairs(y, n[y]) : y \in Ids}
        <4>1. CASE p \in OrderPairs(x, new)
          BY <2>1, <4>1
        <4>2. CASE p \in o \ OrderPairs(x, old)
          <5>1. PICK y \in Ids : p \in OrderPairs(y, m[y])
            BY <1>2, <4>2 DEF OrderedBy
          <5>2. y # x
            BY <1>2, <4>2, <5>1
          <5>. QED
            BY <2>1, <5>1, <5>2
        <4>. QED
          BY <4>1, <4>2
      <3>. QED
        BY <3>1, <3>2
    <2>. QED
      BY <2>3 DEF OrderedBy, OrderedStep, n
  <1>. QED
    BY <1>1, <1>2

------------------------------------------------------------------------------
(* What holds of the state, layer by layer                                 *)

Typed ==
  /\ stack \in Stacks /\ created \in BOOLEAN /\ failed \in BOOLEAN
  /\ base \in [Ids -> Records \cup {Absent}]
  /\ slots \in Seq(Slots) \cup {NoFile}
  /\ blob \in [Labels -> (SUBSET Edges) \cup {NoFile}]
  /\ log \in [Labels -> Seq(Entries)] /\ \A l \in Labels : Len(log[l]) <= MaxLog
  /\ manifest \in SUBSET Labels
  /\ inner \in Inners /\ position \in [Ids -> Nat] /\ outer \in Outers
  /\ edges \in [Labels -> (SUBSET Edges) \cup {NoLabel}]
  /\ phase \in {"creating", "open", "down", "opening", "refused"} /\ op \in Ops
  /\ cut \in SUBSET Ids /\ doubt \in SUBSET (Labels \X Edges)
  /\ allowed \in [Ids -> SUBSET (Records \cup {Absent})]

Known == stack.named \cup manifest

\* The operation under way fits the phase.
Staged ==
  /\ op.kind = "none" => op = NoOp
  /\ op.kind = "create" <=> phase = "creating"
  /\ op.kind = "open" <=> phase = "opening"
  /\ op.kind \in Writes \cup {"link", "compact"} => phase = "open"
  /\ op.kind \in Writes <=> op.step \in {"slot", "outside"}
  /\ op.kind = "link" <=> op.step \in {"manifest", "append"}
  /\ op.kind \in {"compact", "open"} <=> op.step = "fold"
  /\ op.kind = "create" <=> op.step = "files"
  /\ ~stack.files => phase \in {"creating", "open"} \/ ~created
  /\ ~created => phase = "down"

\* What the operation under way holds of the state is still so.
WriteHolds ==
  op.kind \in Writes =>
    /\ op.id \in Ids /\ op.new = base[op.id]
    /\ op.kind = "insert" <=> op.old = Absent
    /\ op.kind = "delete" <=> op.new = Absent
    /\ op.kind # "delete" => op.todo = {}
    /\ op.step = "slot" => Has("mmap_scanned")
    /\ \A l \in op.todo : edges[l] # NoLabel /\ Room(l)

LinkHolds ==
  /\ op.kind = "link" => op.label \in Labels /\ op.edge \in Edges /\ op.edge \cap Ids \subseteq Live
  /\ op.step = "manifest" => blob[op.label] # NoFile /\ edges[op.label] = NoLabel
  /\ op.step = "append" => edges[op.label] # NoLabel

FoldHolds ==
  /\ op.kind = "create" => op.todo \subseteq stack.named
  /\ op.kind = "open" => op.todo \subseteq Known /\ (op.label # NoLabel => op.label \in Known)
  /\ op.kind = "compact" =>
       /\ \A l \in op.todo : edges[l] # NoLabel
       /\ op.label # NoLabel => edges[op.label] # NoLabel
  /\ op.step = "fold" /\ op.label # NoLabel => op.label \notin op.todo /\ blob[op.label] # NoFile

\* Before its files are there, a stack is as it was made.
Blank ==
  phase = "creating" \/ ~created =>
    /\ manifest = {} /\ outer = NoOuter /\ doubt = {}
    /\ \A x \in Ids : base[x] = Absent /\ allowed[x] = {Absent}
    /\ \A l \in Labels : log[l] = <<>> /\ blob[l] \in {NoFile, {}}
    /\ phase = "creating" => \A l \in stack.named \ op.todo : blob[l] # NoFile

FilesThere ==
  /\ \A l \in Labels \ Known : log[l] = <<>> /\ blob[l] \in {NoFile, {}}
  /\ phase \in {"open", "opening"} => \A l \in Known : blob[l] # NoFile

\* The labels whose edges are in memory.
Loaded ==
  IF phase = "open" THEN Known
  ELSE IF phase = "opening" THEN Known \ (op.todo \cup {op.label}) ELSE {}

InMemory == \A l \in Labels : edges[l] # NoLabel <=> l \in Loaded

\* The last committed slot of an id.
Rows(sl, x) == {p \in DOMAIN sl : sl[p].id = x /\ sl[p].live}
LastRow(sl, x, p) == p \in Rows(sl, x) /\ \A q \in Rows(sl, x) : q <= p

SlotsOk ==
  /\ ~Has("mmap_scanned") => slots = NoFile /\ \A x \in Ids : position[x] = 0
  /\ Has("mmap_scanned") /\ phase \in {"open", "opening"} => slots # NoFile
  /\ phase \notin {"open", "opening"} => \A x \in Ids : position[x] = 0
  /\ \A x \in Ids :
       /\ position[x] # 0 => LastRow(slots, x, position[x])
       /\ position[x] # 0 /\ base[x] = Absent => op.kind = "delete" /\ op.step = "slot" /\ op.id = x
       /\ Has("mmap_scanned") /\ phase = "opening" /\ base[x] # Absent => position[x] # 0
       /\ Has("mmap_scanned") /\ phase = "open" /\ ~failed /\ base[x] # Absent /\ position[x] = 0 =>
            op.kind = "insert" /\ op.step = "slot" /\ op.id = x
  /\ op.kind = "insert" /\ op.step = "slot" => position[op.id] = 0
  /\ op.kind \in {"insert", "replace"} /\ op.step = "outside" /\ Has("mmap_scanned") =>
       position[op.id] # 0 /\ slots[position[op.id]].val = op.new.val

InnerOk ==
  /\ Has("scanned") => ColumnOf(base, inner.scanned)
  /\ Has("indexed") => IndexedBy(inner.buckets, base)

Core == /\ Typed /\ Staged /\ WriteHolds /\ LinkHolds /\ FoldHolds /\ Blank /\ FilesThere
        /\ InMemory /\ SlotsOk /\ InnerOk

LEMMA NoOpFacts ==
  /\ NoOp \in Ops /\ NoOp.kind = "none" /\ NoOp.step = "" /\ NoOp.todo = {} /\ NoOp.label = NoLabel
  /\ NoOp.old = Absent /\ NoOp.new = Absent
  BY DEF NoOp, Ops

\* What a reader gets is the record beneath, the scannable field apart.
LEMMA GetFacts ==
  ASSUME Core, NEW x \in Ids
  PROVE  /\ base[x] \in MaybeRecords /\ Get(x) \in MaybeRecords
         /\ Get(x) = Absent <=> base[x] = Absent
         /\ base[x] # Absent => Get(x) \in Records /\ base[x] \in Records /\ Get(x).key = base[x].key
         /\ IndexedKeys(Get(x)) = IndexedKeys(base[x])
         /\ position[x] # 0 => /\ slots \in Seq(Slots) /\ position[x] \in DOMAIN slots
                               /\ slots[position[x]] \in Slots
  <1>1. base[x] \in MaybeRecords /\ position[x] \in Nat
    BY DEF Core, Typed, MaybeRecords
  <1>2. position[x] # 0 => /\ slots \in Seq(Slots) /\ position[x] \in DOMAIN slots
                           /\ slots[position[x]] \in Slots
    <2>. SUFFICES ASSUME position[x] # 0 PROVE /\ slots \in Seq(Slots) /\ position[x] \in DOMAIN slots
                                              /\ slots[position[x]] \in Slots
      OBVIOUS
    <2>1. slots # NoFile /\ LastRow(slots, x, position[x])
      BY DEF Core, SlotsOk
    <2>2. slots \in Seq(Slots)
      BY <2>1 DEF Core, Typed
    <2>3. position[x] \in DOMAIN slots
      BY <2>1 DEF LastRow, Rows
    <2>. QED
      BY <2>2, <2>3
  <1>3. CASE base[x] = Absent
    BY <1>1, <1>2, <1>3 DEF Get, MaybeRecords
  <1>4. CASE base[x] # Absent
    <2>1. base[x] \in Records
      BY <1>1, <1>4 DEF MaybeRecords
    <2>2. PICK v \in Vals : Get(x) = base[x] \/ Get(x) = [base[x] EXCEPT !.val = v]
      <3>1. CASE Has("scanned") /\ inner.scanned.at[x] # 0
        <4>1. inner.scanned \in Columns /\ ColumnOf(base, inner.scanned)
          BY <3>1 DEF Core, Typed, Inners, InnerOk
        <4>2. inner.scanned.at[x] \in DOMAIN inner.scanned.cache
          BY <3>1, <4>1 DEF ColumnOf
        <4>3. inner.scanned.cache[inner.scanned.at[x]] \in Vals
          BY <4>1, <4>2 DEF Columns
        <4>. QED
          BY <1>4, <3>1, <4>3 DEF Get
      <3>2. CASE ~(Has("scanned") /\ inner.scanned.at[x] # 0) /\ Has("mmap_scanned") /\ position[x] # 0
        <4>1. slots[position[x]].val \in Vals
          BY <1>2, <3>2 DEF Slots
        <4>. QED
          BY <1>4, <3>2, <4>1 DEF Get
      <3>3. CASE ~(Has("scanned") /\ inner.scanned.at[x] # 0) /\ ~(Has("mmap_scanned") /\ position[x] # 0)
        <4>1. Get(x) = base[x] /\ 0 \in Vals
          BY <1>4, <3>3 DEF Get, Vals
        <4>. QED
          BY <4>1
      <3>. QED
        BY <3>1, <3>2, <3>3
    <2>3. Get(x) \in Records /\ Get(x).key = base[x].key
      <3>1. [base[x] EXCEPT !.val = v] \in Records /\ [base[x] EXCEPT !.val = v].key = base[x].key
        BY <2>1 DEF Records
      <3>. QED
        BY <2>1, <2>2, <3>1
    <2>. QED
      BY <1>2, <1>4, <2>1, <2>3, RecordFacts DEF IndexedKeys, MaybeRecords
  <1>. QED
    BY <1>3, <1>4

------------------------------------------------------------------------------
(* The steps, those that do the same together                              *)

Starts(kind, x, r, todo) ==
  /\ phase = "open" /\ op = NoOp /\ op.kind = "none" /\ op.step = ""
  /\ x \in Ids /\ r \in MaybeRecords /\ kind \in Writes /\ todo \in SUBSET Labels
  /\ kind = "insert" <=> base[x] = Absent
  /\ kind = "delete" <=> r = Absent
  /\ todo = IF kind = "delete" THEN Linked(x) ELSE {}
  /\ \A l \in todo : edges[l] # NoLabel /\ Touching(x, edges[l]) # {} /\ Room(l)
  /\ base' = [base EXCEPT ![x] = r] /\ inner' = InnerStep(x, Get(x), r)
  /\ op' \in Ops /\ op'.kind = kind /\ op'.id = x /\ op'.old = Get(x) /\ op'.new = r /\ op'.todo = todo
  /\ op'.step = IF Has("mmap_scanned") THEN "slot" ELSE "outside"
  /\ allowed' = [allowed EXCEPT ![x] = IF r = Absent THEN {Absent} ELSE Unsettled(x, r)]
  /\ stack' = stack /\ created' = created /\ slots' = slots /\ blob' = blob /\ log' = log
  /\ manifest' = manifest /\ position' = position /\ edges' = edges /\ outer' = outer
  /\ phase' = phase /\ failed' = failed /\ cut' = cut /\ doubt' = doubt

Updates(x, v) == x \in Ids /\ v \in Vals /\ op.kind = "none" /\ op.step = "" /\ Update(x, v)

Appends(l, e) ==
  /\ phase = "open" /\ op.kind \in {"none", "link"} /\ op.step \in {"", "append"}
  /\ l \in Labels /\ e \in Edges /\ e \cap Ids \subseteq Live
  /\ edges[l] # NoLabel /\ AppendEdge(l, e, edges[l])

NewLabel(l, e) ==
  /\ phase = "open" /\ op.kind = "none" /\ op.step = ""
  /\ l \in Labels /\ e \in Edges /\ e \cap Ids \subseteq Live /\ edges[l] = NoLabel
  /\ blob' = [blob EXCEPT ![l] = {}]
  /\ op' \in Ops /\ op'.kind = "link" /\ op'.step = "manifest" /\ op'.label = l /\ op'.edge = e
  /\ UNCHANGED <<stack, base, created, slots, manifest, log, memory, phase, history>>

\* An operation is given up, or done, and leaves everything as it is.
Ends ==
  /\ op.kind \in {"link", "compact"} /\ op' = NoOp
  /\ UNCHANGED <<stack, disk, memory, phase, history>>

Detaches(l, x) == /\ l \in Labels /\ x \in FarIds /\ op.kind = "none" /\ op.step = ""
                  /\ Detach(l, x)

Compacts ==
  /\ Compact /\ op.kind = "none" /\ op.step = ""
  /\ op' \in Ops /\ op'.kind = "compact" /\ op'.step = "fold" /\ op'.label = NoLabel
  /\ op'.todo = {l \in Labels : edges[l] # NoLabel}

Creates ==
  /\ Create
  /\ op' \in Ops /\ op'.kind = "create" /\ op'.step = "files" /\ op'.todo = stack.named

Opens ==
  /\ Open
  /\ op' \in Ops /\ op'.kind = "open" /\ op'.step = "fold" /\ op'.label = NoLabel
  /\ op'.todo = stack.named \cup manifest

LEMMA StepCases ==
  ASSUME Core, Next
  PROVE  \/ \E kind, x, r, todo : Starts(kind, x, r, todo)
         \/ \E x, v : Updates(x, v)
         \/ SlotStep \/ SlotFails \/ Finish
         \/ \E l \in Labels : DropEdges(l) \/ DropFails(l)
         \/ \E l, e : Appends(l, e) \/ NewLabel(l, e)
         \/ LinkManifest \/ Ends
         \/ \E l, x : Detaches(l, x)
         \/ Compacts \/ ClearLog \/ \E l \in Labels : WriteBlob(l) \/ CreateLabel(l)
         \/ Creates \/ CreateEnds \/ Opens \/ OpenRefused \/ OpenEnds \/ Crash
  <1>. DEFINE Goal ==
         \/ \E kind, x, r, todo : Starts(kind, x, r, todo)
         \/ \E x, v : Updates(x, v)
         \/ SlotStep \/ SlotFails \/ Finish
         \/ \E l \in Labels : DropEdges(l) \/ DropFails(l)
         \/ \E l, e : Appends(l, e) \/ NewLabel(l, e)
         \/ LinkManifest \/ Ends
         \/ \E l, x : Detaches(l, x)
         \/ Compacts \/ ClearLog \/ \E l \in Labels : WriteBlob(l) \/ CreateLabel(l)
         \/ Creates \/ CreateEnds \/ Opens \/ OpenRefused \/ OpenEnds \/ Crash
  <1>1. /\ stack \in Stacks /\ op \in Ops
        /\ stack.ids \subseteq Ids /\ stack.records \subseteq Records /\ stack.labels \subseteq Labels
        /\ stack.named \subseteq Labels /\ stack.foreign \subseteq Labels /\ manifest \subseteq Labels
    BY Parameters DEF Core, Typed
  <1>2. Idle => phase = "open" /\ op = NoOp /\ op.kind = "none" /\ op.step = ""
    BY NoOpFacts DEF Idle
  <1>3. ASSUME NEW kind \in Writes, NEW x \in Ids, NEW r \in MaybeRecords, Idle,
               Write(kind, x, r, IF kind = "delete" THEN Linked(x) ELSE {}),
               kind = "insert" <=> base[x] = Absent, kind = "delete" <=> r = Absent,
               kind = "delete" => \A l \in Linked(x) : Room(l)
        PROVE  Goal
    <2>. DEFINE todo == IF kind = "delete" THEN Linked(x) ELSE {}
    <2>1. todo \in SUBSET Labels /\ \A l \in todo : edges[l] # NoLabel /\ Touching(x, edges[l]) # {} /\ Room(l)
      BY <1>3 DEF Linked
    <2>2. PICK o, t : o = op' /\ t = todo /\ t \in SUBSET Labels
      BY <2>1
    <2>3. PICK g \in MaybeRecords, s \in {"slot", "outside"} :
             g = Get(x) /\ s = IF Has("mmap_scanned") THEN "slot" ELSE "outside"
      BY GetFacts
    <2>4. o = [NoOp EXCEPT !.kind = kind, !.id = x, !.old = g, !.new = r, !.todo = t, !.step = s]
      BY <1>3, <2>2, <2>3 DEF Write
    <2>5. /\ o \in Ops /\ o.kind = kind /\ o.id = x /\ o.old = g /\ o.new = r /\ o.todo = t
          /\ o.step = s
      <3>1. o = [kind |-> kind, step |-> s, id |-> x, old |-> g, new |-> r, todo |-> t, label |-> NoLabel, edge |-> {}]
        BY ONLY <2>4 DEF NoOp
      <3>2. o \in Ops
        BY ONLY <3>1, <2>2, <2>3, kind \in Writes, x \in Ids, r \in MaybeRecords DEF Ops, MaybeRecords, Writes
      <3>. QED
        BY ONLY <3>1, <3>2
    <2>. HIDE DEF todo
    <2>6. Starts(kind, x, r, todo)
      <3>1. todo = IF kind = "delete" THEN Linked(x) ELSE {}
        BY DEF todo
      <3>. QED
        BY <1>2, <1>3, <2>1, <2>2, <2>3, <2>5, <3>1 DEF Starts, Write
    <2>. QED
      BY <2>6
  <1>4. ASSUME NEW x \in stack.ids, NEW r \in stack.records, Insert(x, r) \/ Replace(x, r) PROVE Goal
    <2>1. x \in Ids /\ r \in Records /\ r \in MaybeRecords /\ r # Absent
      BY <1>1, <1>4, RecordFacts DEF MaybeRecords
    <2>2. PICK kind \in {"insert", "replace"} :
            Idle /\ Write(kind, x, r, {}) /\ (kind = "insert" <=> base[x] = Absent)
      BY <1>4 DEF Insert, Replace
    <2>3. kind \in Writes /\ kind # "delete"
      BY <2>2 DEF Writes
    <2>4. Write(kind, x, r, IF kind = "delete" THEN Linked(x) ELSE {})
      BY <2>2, <2>3
    <2>5. /\ Idle
          /\ kind = "insert" <=> base[x] = Absent
          /\ kind = "delete" <=> r = Absent
          /\ kind = "delete" => \A l \in Linked(x) : Room(l)
      BY <2>1, <2>2, <2>3
    <2>. HIDE DEF Goal
    <2>. QED
      BY <1>3, <2>1, <2>3, <2>4, <2>5
  <1>5. ASSUME NEW x \in stack.ids, Delete(x) PROVE Goal
    <2>1. /\ x \in Ids /\ Idle /\ Write("delete", x, Absent, Linked(x)) /\ Absent \in MaybeRecords
          /\ base[x] # Absent /\ \A l \in Linked(x) : Room(l)
      BY <1>1, <1>5 DEF Delete, MaybeRecords
    <2>2. "delete" \in Writes /\ (IF "delete" = "delete" THEN Linked(x) ELSE {}) = Linked(x)
      BY DEF Writes
    <2>. HIDE DEF Goal
    <2>. QED
      BY <1>3, <2>1, <2>2
  <1>6. ASSUME NEW x \in stack.ids, NEW v \in {r.val : r \in stack.records}, Update(x, v) PROVE Goal
    <2>1. x \in Ids /\ v \in Vals
      BY <1>1, <1>6, RecordFacts
    <2>2. Updates(x, v)
      BY <1>2, <1>6, <2>1 DEF Updates, Update
    <2>. QED
      BY <2>2
  <1>7. ASSUME NEW l \in Labels, NEW x \in Ids, NEW y \in Ids \cup FarIds, Linkable(l, x, y)
        PROVE  {x, y} \in Edges /\ {x, y} \cap Ids \subseteq Live
    <2>1. {x, y} \in Edges
      BY <1>7, PairIsEdge DEF Linkable
    <2>2. x \in Live /\ (y \in Ids => y \in Live)
      BY <1>7, Parameters DEF Linkable, Live
    <2>. QED
      BY <2>1, <2>2
  <1>8. ASSUME NEW l \in Labels, NEW x \in Ids, NEW y \in Ids \cup FarIds, Link(l, x, y) PROVE Goal
    <2>1. Appends(l, {x, y})
      BY <1>2, <1>7, <1>8 DEF Link, Appends
    <2>. QED
      BY <2>1
  <1>9. ASSUME NEW l \in Labels, NEW x \in Ids, NEW y \in Ids \cup FarIds, LinkNewLabel(l, x, y) PROVE Goal
    <2>0. PICK e : e = {x, y} /\ e \in Edges /\ e \cap Ids \subseteq Live
      BY <1>7, <1>9 DEF LinkNewLabel
    <2>1. PICK o : o = op'
      OBVIOUS
    <2>2. o = [NoOp EXCEPT !.kind = "link", !.step = "manifest", !.label = l, !.edge = e]
      BY <1>9, <2>0, <2>1 DEF LinkNewLabel
    <2>3. o \in Ops /\ o.kind = "link" /\ o.step = "manifest" /\ o.label = l /\ o.edge = e
      BY ONLY <2>0, <2>2, NoOpFacts, l \in Labels DEF Ops
    <2>4. NewLabel(l, e)
      BY <1>2, <1>9, <2>0, <2>1, <2>3 DEF LinkNewLabel, NewLabel
    <2>. QED
      BY <2>4
  <1>10. ASSUME LinkAppend PROVE Goal
    <2>1. Appends(op.label, op.edge)
      BY <1>10 DEF LinkAppend, Appends, Core, Staged, LinkHolds
    <2>. QED
      BY <2>1
  <1>11. ASSUME LinkFails \/ CompactEnds PROVE Goal
    <2>1. Ends
      BY <1>11 DEF LinkFails, CompactEnds, Ends
    <2>. QED
      BY <2>1
  <1>12. ASSUME NEW l \in Labels, NEW x \in FarIds, Detach(l, x) PROVE Goal
    <2>1. Detaches(l, x)
      BY <1>2, <1>12 DEF Detach, Detaches
    <2>. QED
      BY <2>1
  <1>13. ASSUME Compact PROVE Goal
    <2>1. PICK o, t : o = op' /\ t = {l \in Labels : edges[l] # NoLabel}
      OBVIOUS
    <2>2. o = [NoOp EXCEPT !.kind = "compact", !.step = "fold", !.todo = t]
      BY <1>13, <2>1 DEF Compact
    <2>3. o \in Ops /\ o.kind = "compact" /\ o.step = "fold" /\ o.todo = t /\ o.label = NoLabel
      <3>1. t \in SUBSET Labels
        BY <2>1
      <3>. QED
        BY ONLY <2>2, <3>1, NoOpFacts DEF Ops
    <2>4. Idle
      BY <1>13 DEF Compact
    <2>5. Compacts
      BY <1>2, <1>13, <2>1, <2>3, <2>4 DEF Compacts
    <2>. QED
      BY <2>5
  <1>14. ASSUME Create PROVE Goal
    <2>1. PICK o : o = op'
      OBVIOUS
    <2>2. PICK t : t = stack.named /\ t \in SUBSET Labels
      BY <1>1
    <2>3. o = [NoOp EXCEPT !.kind = "create", !.step = "files", !.todo = t]
      BY <1>14, <2>1, <2>2 DEF Create
    <2>4. o \in Ops /\ o.kind = "create" /\ o.step = "files" /\ o.todo = t
      BY ONLY <2>2, <2>3, NoOpFacts DEF Ops
    <2>5. Creates
      BY <1>14, <2>1, <2>2, <2>4 DEF Creates
    <2>. QED
      BY <2>5
  <1>15. ASSUME Open PROVE Goal
    <2>1. PICK o : o = op'
      OBVIOUS
    <2>2. PICK t : t = stack.named \cup manifest /\ t \in SUBSET Labels
      BY <1>1
    <2>3. o = [NoOp EXCEPT !.kind = "open", !.step = "fold", !.todo = t]
      BY <1>15, <2>1, <2>2 DEF Open
    <2>4. o \in Ops /\ o.kind = "open" /\ o.step = "fold" /\ o.todo = t /\ o.label = NoLabel
      BY ONLY <2>2, <2>3, NoOpFacts DEF Ops
    <2>5. Opens
      BY <1>15, <2>1, <2>2, <2>4 DEF Opens
    <2>. QED
      BY <2>5
  <1>16. ASSUME \/ SlotStep \/ SlotFails \/ Finish \/ LinkManifest \/ ClearLog
               \/ (\E l \in Labels : DropEdges(l) \/ DropFails(l)) \/ (\E l \in Labels : WriteBlob(l) \/ CreateLabel(l))
               \/ CreateEnds \/ OpenRefused \/ OpenEnds \/ Crash
         PROVE Goal
    BY <1>16
  <1>17. Goal
    <2>. HIDE DEF Goal
    <2>1. CASE \E x \in stack.ids : \/ \E r \in stack.records : Insert(x, r) \/ Replace(x, r)
                                   \/ Delete(x)
                                   \/ \E v \in {r.val : r \in stack.records} : Update(x, v)
      <3>1. PICK x \in stack.ids : \/ \E r \in stack.records : Insert(x, r) \/ Replace(x, r)
                                  \/ Delete(x)
                                  \/ \E v \in {r.val : r \in stack.records} : Update(x, v)
        BY <2>1
      <3>. QED
        BY <1>4, <1>5, <1>6, <3>1, Zenon
    <2>2. CASE \E l \in Labels, x \in Ids, y \in Ids \cup FarIds : Link(l, x, y) \/ LinkNewLabel(l, x, y)
      BY <1>8, <1>9, <2>2, Zenon
    <2>3. CASE \/ LinkAppend \/ LinkFails \/ Compact \/ CompactEnds \/ Create \/ Open
              \/ \E l \in Labels, x \in FarIds : Detach(l, x)
      BY <1>10, <1>11, <1>12, <1>13, <1>14, <1>15, <2>3
    <2>4. CASE \/ SlotStep \/ SlotFails \/ Finish \/ LinkManifest \/ ClearLog
              \/ (\E l \in Labels : DropEdges(l) \/ DropFails(l)) \/ (\E l \in Labels : WriteBlob(l) \/ CreateLabel(l))
              \/ CreateEnds \/ OpenRefused \/ OpenEnds \/ Crash
      BY <1>16, <2>4
    <2>. QED
      BY <2>1, <2>2, <2>3, <2>4 DEF Next
  <1>. QED
    BY <1>17

Iterations(n, X, x0, step) == {g \in [0 .. n -> X] : g[0] = x0 /\ \A i \in 1 .. n : g[i] = step[i][g[i - 1]]}

\* Steps from a set into itself can be taken one after the other.
LEMMA Iterates ==
  ASSUME NEW n \in Nat, NEW X, NEW x0 \in X, NEW step \in [1 .. n -> [X -> X]]
  PROVE  Iterations(n, X, x0, step) # {}
  <1>. DEFINE Good(m, g) == g \in [0 .. m -> X] /\ g[0] = x0 /\ \A i \in 1 .. m : g[i] = step[i][g[i - 1]]
              P == {m \in 0 .. n : \E g : Good(m, g)}
  <1>1. 0 \in P
    <2>1. Good(0, [i \in 0 .. 0 |-> x0])
      OBVIOUS
    <2>2. \E g : Good(0, g)
      BY <2>1
    <2>. HIDE DEF Good
    <2>. QED
      BY <2>2
  <1>2. ASSUME NEW m \in 1 .. n, m - 1 \in P PROVE m \in P
    <2>1. PICK g : Good(m - 1, g)
      BY <1>2
    <2>. DEFINE h == [i \in 0 .. m |-> IF i = m THEN step[m][g[m - 1]] ELSE g[i]]
    <2>2. \A i \in 0 .. m : i # m => i \in 0 .. (m - 1)
      OBVIOUS
    <2>3. m - 1 \in 0 .. (m - 1) /\ 0 \in 0 .. m /\ 0 # m
      OBVIOUS
    <2>4. step[m][g[m - 1]] \in X
      BY <2>1, <2>3
    <2>5. h \in [0 .. m -> X]
      BY <2>1, <2>2, <2>4
    <2>6. h[0] = x0
      BY <2>1, <2>3
    <2>7. ASSUME NEW i \in 1 .. m PROVE h[i] = step[i][h[i - 1]]
      <3>1. i \in 0 .. m /\ i - 1 \in 0 .. m /\ i - 1 # m
        OBVIOUS
      <3>2. h[i - 1] = g[i - 1]
        BY <3>1
      <3>3. CASE i = m
        BY <3>1, <3>2, <3>3
      <3>4. CASE i # m
        <4>1. i \in 1 .. (m - 1)
          BY <3>4
        <4>. QED
          BY <2>1, <3>1, <3>2, <3>4, <4>1
      <3>. QED
        BY <3>3, <3>4
    <2>. HIDE DEF h
    <2>8. Good(m, h)
      BY <2>5, <2>6, <2>7
    <2>. QED
      BY <2>8
  <1>. HIDE DEF P
  <1>3. n \in P
    <2>1. \A i \in 1 .. n : i - 1 \in P => i \in P
      BY <1>2
    <2>2. \A i \in 0 .. n : i \in P
      BY <1>1, <2>1, UpTo
    <2>. QED
      BY <2>2
  <1>. QED
    BY <1>3 DEF P, Iterations

------------------------------------------------------------------------------
(* The layers in memory, after one write and after all                      *)

OuterExact(o, m) ==
  /\ Has("reversed") => ReversedBy(o.children, m)
  /\ Has("names") => NamedBy(o.names, m)
  /\ Has("ordered") \/ Has("rekeyed") => OrderedBy(o.order, m)

LEMMA OuterStepFacts ==
  ASSUME NEW o \in Outers, NEW x \in Ids, NEW old \in MaybeRecords, NEW new \in MaybeRecords
  PROVE  /\ OuterStep(o, x, old, new) \in Outers
         /\ \A m \in Maps : OuterExact(o, m) /\ m[x] = old =>
                            OuterExact(OuterStep(o, x, old, new), [m EXCEPT ![x] = new])
  <1>1. o.children \in Buckets /\ o.names \in Buckets /\ o.order \in SUBSET (Keys \X Ids)
    BY DEF Outers
  <1>. DEFINE d == OuterStep(o, x, old, new)
  <1>2. /\ d.children = IF Has("reversed") THEN ReversedStep(o.children, x, old, new) ELSE o.children
        /\ d.names = IF Has("names") THEN NamesStep(o.names, x, old, new) ELSE o.names
        /\ d.order = IF Has("ordered") \/ Has("rekeyed") THEN OrderedStep(o.order, x, old, new) ELSE o.order
        /\ d = [children |-> d.children, names |-> d.names, order |-> d.order]
    BY DEF OuterStep
  <1>. HIDE DEF d
  <1>3. d \in Outers
    <2>1. d.children \in Buckets
      BY <1>1, <1>2, ReversedFacts
    <2>2. d.names \in Buckets
      BY <1>1, <1>2, NamesFacts
    <2>3. d.order \in SUBSET (Keys \X Ids)
      <3>1. PICK p \in SUBSET (Keys \X Ids) : p = o.order
        BY <1>1
      <3>2. OrderedStep(p, x, old, new) \in SUBSET (Keys \X Ids)
        BY OrderedFacts, Zenon
      <3>. QED
        BY <1>2, <3>1, <3>2
    <2>. QED
      BY <1>2, <2>1, <2>2, <2>3 DEF Outers
  <1>4. ASSUME NEW m \in Maps, OuterExact(o, m), m[x] = old PROVE OuterExact(d, [m EXCEPT ![x] = new])
    <2>. DEFINE to == [m EXCEPT ![x] = new]
    <2>. HIDE DEF to
    <2>1. Has("reversed") => ReversedBy(d.children, to)
      BY <1>1, <1>2, <1>4, ReversedFacts DEF OuterExact, to
    <2>2. Has("names") => NamedBy(d.names, to)
      BY <1>1, <1>2, <1>4, NamesFacts DEF OuterExact, to
    <2>3. Has("ordered") \/ Has("rekeyed") => OrderedBy(d.order, to)
      BY <1>1, <1>2, <1>4, OrderedFacts DEF OuterExact, to
    <2>. QED
      BY <2>1, <2>2, <2>3 DEF OuterExact, to
  <1>. QED
    BY <1>3, <1>4 DEF d

LEMMA InnerStepFacts ==
  ASSUME Core, NEW x \in Ids, NEW r \in MaybeRecords
  PROVE  LET d == InnerStep(x, Get(x), r) IN
         /\ d \in Inners
         /\ Has("indexed") => IndexedBy(d.buckets, [base EXCEPT ![x] = r])
         /\ Has("scanned") => /\ ColumnOf([base EXCEPT ![x] = r], d.scanned)
                              /\ r # Absent => d.scanned.cache[d.scanned.at[x]] = r.val
                              /\ \A y \in Ids : y # x /\ inner.scanned.at[y] # 0 =>
                                   d.scanned.cache[d.scanned.at[y]] = inner.scanned.cache[inner.scanned.at[y]]
  <1>. DEFINE d == InnerStep(x, Get(x), r)
              to == [base EXCEPT ![x] = r]
  <1>1. /\ inner.buckets \in Buckets /\ inner.scanned \in Columns /\ base \in Maps
        /\ base \in [Ids -> Records \cup {Absent}]
    BY DEF Core, Typed, Inners, Maps, MaybeRecords
  <1>2. /\ d.buckets = IF Has("indexed") THEN IndexedStep(inner.buckets, x, Get(x), r) ELSE inner.buckets
        /\ d.scanned = IF Has("scanned") THEN ScannedStep(inner.scanned, x, r) ELSE inner.scanned
        /\ d = [buckets |-> d.buckets, scanned |-> d.scanned]
    BY DEF InnerStep
  <1>3. Get(x) \in MaybeRecords /\ IndexedKeys(base[x]) = IndexedKeys(Get(x))
    BY GetFacts
  <1>. HIDE DEF d, to
  <1>4. d.buckets \in Buckets /\ (Has("indexed") => IndexedBy(d.buckets, to))
    <2>1. IndexedStep(inner.buckets, x, Get(x), r) \in Buckets
      BY <1>1, <1>3, IndexedFacts
    <2>2. ASSUME Has("indexed") PROVE IndexedBy(d.buckets, to)
      <3>1. IndexedBy(inner.buckets, base)
        BY <2>2 DEF Core, InnerOk
      <3>2. PICK g \in MaybeRecords : g = Get(x)
        BY <1>3
      <3>3. IndexedBy(IndexedStep(inner.buckets, x, g, r), to)
        BY <1>1, <1>3, <3>1, <3>2, IndexedFacts DEF to
      <3>. QED
        BY <1>2, <2>2, <3>2, <3>3
    <2>. QED
      BY <1>1, <1>2, <2>1, <2>2
  <1>. DEFINE Good(e) == /\ e \in Columns /\ ColumnOf(to, e)
                         /\ r # Absent => e.cache[e.at[x]] = r.val
                         /\ \A y \in Ids : y # x /\ inner.scanned.at[y] # 0 =>
                              e.cache[e.at[y]] = inner.scanned.cache[inner.scanned.at[y]]
  <1>5. Has("scanned") => Good(d.scanned)
    <2>. SUFFICES ASSUME Has("scanned") PROVE Good(d.scanned)
      OBVIOUS
    <2>1. ColumnOf(base, inner.scanned)
      BY DEF Core, InnerOk
    <2>2. Good(ScannedStep(inner.scanned, x, r))
      BY <1>1, <2>1, ScannedFacts DEF to, MaybeRecords
    <2>. QED
      BY <1>2, <2>2
  <1>6. d.scanned \in Columns
    BY <1>1, <1>2, <1>5
  <1>7. d \in Inners
    BY <1>2, <1>4, <1>6 DEF Inners
  <1>. QED
    BY <1>4, <1>5, <1>7 DEF d, to

LEMMA EmptyFacts ==
  /\ NoInner \in Inners /\ NoOuter \in Outers
  /\ \A m \in Maps : (\A x \in Ids : m[x] = Absent) =>
       /\ ColumnOf(m, NoInner.scanned) /\ IndexedBy(NoInner.buckets, m) /\ OuterExact(NoOuter, m)
  <1>1. NoBuckets \in Buckets /\ \A k \in Keys : NoBuckets[k] = <<>>
    BY DEF NoBuckets, Buckets
  <1>2. Lists(<<>>, {})
    BY DEF Lists, ToSet, IsInjective
  <1>3. NoInner \in Inners /\ NoOuter \in Outers
    BY <1>1 DEF NoInner, NoOuter, Inners, Outers, Columns
  <1>4. ASSUME NEW m \in Maps, \A x \in Ids : m[x] = Absent
        PROVE  ColumnOf(m, NoInner.scanned) /\ IndexedBy(NoInner.buckets, m) /\ OuterExact(NoOuter, m)
    <2>1. ColumnOf(m, NoInner.scanned)
      BY <1>4 DEF ColumnOf, NoInner
    <2>2. \A k \in Keys : /\ {y \in Ids : k \in IndexedKeys(m[y])} = {}
                          /\ {y \in Ids : k \in ReversedKeys(m[y])} = {}
                          /\ {y \in Ids : k \in NameKeys(m[y])} = {}
      BY <1>4 DEF IndexedKeys, ReversedKeys, NameKeys
    <2>3. IndexedBy(NoInner.buckets, m) /\ ReversedBy(NoOuter.children, m) /\ NamedBy(NoOuter.names, m)
      BY <1>1, <1>2, <2>2 DEF IndexedBy, ReversedBy, NamedBy, NoInner, NoOuter
    <2>4. OrderedBy(NoOuter.order, m)
      BY <1>4 DEF OrderedBy, OrderPairs, NoOuter
    <2>. QED
      BY <2>1, <2>3, <2>4 DEF OuterExact
  <1>. QED
    BY <1>3, <1>4

LEMMA RebuiltFacts ==
  ASSUME Core
  PROVE  Rebuilt \in Outers /\ OuterExact(Rebuilt, [x \in Ids |-> Get(x)])
  <1>. DEFINE listed == SetToSeq(Live)
              n == Len(listed)
              step == [i \in 1 .. n |-> [o \in Outers |-> OuterStep(o, listed[i], Absent, Get(listed[i]))]]
              upto(i) == [x \in Ids |-> IF \E j \in 1 .. i : listed[j] = x THEN Get(x) ELSE Absent]
  <1>1. Live \in SUBSET Ids /\ IsFiniteSet(Live)
    BY Parameters, FS_Subset DEF Live
  <1>2. Cardinality(Live) \in Nat /\ Passes(listed, Live)
    BY <1>1, SetToSeqPasses
  <1>3. /\ n \in Nat /\ n = Cardinality(Live)
        /\ \A i \in 1 .. n : listed[i] \in Live
        /\ \A i, j \in 1 .. n : listed[i] = listed[j] => i = j
        /\ \A x \in Live : \E i \in 1 .. n : listed[i] = x
    <2>. HIDE DEF listed
    <2>1. listed \in Seq(Live) /\ Len(listed) = Cardinality(Live)
      BY <1>2 DEF Passes
    <2>. QED
      BY <1>2, <2>1 DEF Passes
  <1>4. \A x \in Ids : Get(x) \in MaybeRecords
    BY GetFacts
  <1>5. Absent \in MaybeRecords /\ \A i \in 1 .. n : listed[i] \in Ids /\ Get(listed[i]) \in MaybeRecords
    BY <1>1, <1>3, <1>4 DEF MaybeRecords
  <1>6. \A i \in Nat : upto(i) \in Maps
    BY <1>4, <1>5 DEF Maps
  <1>. HIDE DEF listed, n
  <1>7. step \in [1 .. n -> [Outers -> Outers]]
    <2>1. ASSUME NEW i \in 1 .. n, NEW o \in Outers PROVE OuterStep(o, listed[i], Absent, Get(listed[i])) \in Outers
      BY <1>5, OuterStepFacts
    <2>. QED
      BY <2>1
  <1>8. \A i \in 1 .. n, o \in Outers : step[i][o] = OuterStep(o, listed[i], Absent, Get(listed[i]))
    OBVIOUS
  <1>. HIDE DEF step
  <1>9. PICK g \in [0 .. n -> Outers] : g[0] = NoOuter /\ \A i \in 1 .. n : g[i] = step[i][g[i - 1]]
    <2>1. PICK m \in Nat, f \in Outers : m = n /\ f = NoOuter
      BY <1>3, EmptyFacts
    <2>2. PICK s : s = step
      OBVIOUS
    <2>3. s \in [1 .. m -> [Outers -> Outers]]
      BY <1>7, <2>1, <2>2
    <2>4. Iterations(m, Outers, f, s) # {}
      BY <2>3, Iterates
    <2>. QED
      BY <2>1, <2>2, <2>4 DEF Iterations
  <1>10. \A i \in 1 .. n : /\ i - 1 \in 0 .. n
                           /\ g[i] = OuterStep(g[i - 1], listed[i], Absent, Get(listed[i]))
    BY <1>3, <1>8, <1>9
  <1>11. g = [i \in 0 .. n |-> IF i = 0 THEN NoOuter
                               ELSE OuterStep(g[i - 1], listed[i], Absent, Get(listed[i]))]
    <2>1. \A i \in 0 .. n : i = 0 \/ i \in 1 .. n
      BY <1>3
    <2>. QED
      BY <1>9, <1>10, <2>1
  <1>12. PICK h : /\ Rebuilt = h[n]
                  /\ h = [i \in 0 .. n |-> IF i = 0 THEN NoOuter
                                           ELSE OuterStep(h[i - 1], listed[i], Absent, Get(listed[i]))]
    <2>. DEFINE built[i \in 0 .. Len(SetToSeq(Live))] ==
                  IF i = 0 THEN NoOuter
                  ELSE OuterStep(built[i - 1], SetToSeq(Live)[i], Absent, Get(SetToSeq(Live)[i]))
                ch == CHOOSE h : h = [i \in 0 .. Len(SetToSeq(Live)) |->
                        IF i = 0 THEN NoOuter
                        ELSE OuterStep(h[i - 1], SetToSeq(Live)[i], Absent, Get(SetToSeq(Live)[i]))]
    <2>1. Rebuilt = built[Len(SetToSeq(Live))]
      BY DEF Rebuilt
    <2>2. built = ch
      OBVIOUS
    <2>3. ch = [i \in 0 .. Len(SetToSeq(Live)) |->
                  IF i = 0 THEN NoOuter
                  ELSE OuterStep(ch[i - 1], SetToSeq(Live)[i], Absent, Get(SetToSeq(Live)[i]))]
      BY <1>11, Zenon DEF n, listed
    <2>. HIDE DEF built, ch
    <2>. QED
      BY <2>1, <2>2, <2>3 DEF n, listed
  <1>. DEFINE P == {i \in 0 .. n : h[i] \in Outers /\ OuterExact(h[i], upto(i))}
  <1>13. 0 \in P
    <2>1. 0 \in 0 .. n /\ h[0] = NoOuter
      BY <1>3, <1>12
    <2>2. \A x \in Ids : upto(0)[x] = Absent
      OBVIOUS
    <2>3. PICK m \in Maps : m = upto(0)
      BY <1>6
    <2>4. OuterExact(NoOuter, m)
      BY <2>2, <2>3, EmptyFacts
    <2>. QED
      BY <2>1, <2>3, <2>4, EmptyFacts
  <1>14. ASSUME NEW i \in 1 .. n, i - 1 \in P PROVE i \in P
    <2>1. i \in 0 .. n /\ i # 0 /\ i \in Nat /\ i - 1 \in Nat
      BY <1>3
    <2>2. PICK x \in Ids, r \in MaybeRecords, o \in Outers :
             x = listed[i] /\ r = Get(x) /\ o = h[i - 1]
      BY <1>4, <1>5, <1>14
    <2>3. h[i] = OuterStep(o, x, Absent, r)
      BY <1>12, <2>1, <2>2
    <2>4. PICK m \in Maps : m = upto(i - 1)
      BY <1>6, <2>1
    <2>5. m[x] = Absent
      <3>1. \A j \in 1 .. i - 1 : j \in 1 .. n /\ j # i
        BY <1>3, <2>1
      <3>2. \A j \in 1 .. i - 1 : listed[j] # x
        BY <1>3, <2>2, <3>1
      <3>. QED
        BY <2>4, <3>2
    <2>6. [m EXCEPT ![x] = r] = upto(i)
      <3>1. \A j \in 1 .. i : j = i \/ j \in 1 .. i - 1
        BY <2>1
      <3>2. \A j \in 1 .. i - 1 : j \in 1 .. i
        BY <2>1
      <3>3. i \in 1 .. i
        BY <2>1
      <3>4. ASSUME NEW y \in Ids PROVE [m EXCEPT ![x] = r][y] = upto(i)[y]
        <4>1. CASE y = x
          BY <2>2, <2>4, <3>3, <4>1 DEF Maps
        <4>2. CASE y # x
          <5>1. (\E j \in 1 .. i : listed[j] = y) <=> (\E j \in 1 .. i - 1 : listed[j] = y)
            BY <2>2, <3>1, <3>2, <4>2
          <5>. QED
            BY <2>4, <4>2, <5>1 DEF Maps
        <4>. QED
          BY <4>1, <4>2
      <3>. QED
        BY <3>4 DEF Maps
    <2>7. OuterExact(o, m)
      BY <1>14, <2>2, <2>4
    <2>8. OuterStep(o, x, Absent, r) \in Outers /\ OuterExact(OuterStep(o, x, Absent, r), [m EXCEPT ![x] = r])
      BY <1>5, <2>5, <2>7, OuterStepFacts
    <2>. QED
      BY <2>1, <2>3, <2>6, <2>8
  <1>15. n \in P
    <2>. HIDE DEF P
    <2>1. \A i \in 1 .. n : i - 1 \in P => i \in P
      BY <1>14
    <2>2. \A i \in 0 .. n : i \in P
      BY <1>3, <1>13, <2>1, UpTo
    <2>. QED
      BY <1>3, <2>2
  <1>16. upto(n) = [x \in Ids |-> Get(x)]
    <2>1. ASSUME NEW x \in Ids PROVE upto(n)[x] = Get(x)
      <3>1. CASE x \in Live
        BY <1>3, <3>1
      <3>2. CASE x \notin Live
        BY <3>2, GetFacts DEF Live
      <3>. QED
        BY <3>1, <3>2
    <2>. QED
      BY <2>1
  <1>. QED
    BY <1>12, <1>15, <1>16

------------------------------------------------------------------------------
(* Slots                                                                   *)

\* What an opening would find.
Found(x) ==
  IF base[x] = Absent \/ slots = NoFile THEN base[x]
  ELSE IF Committed(x) = {} THEN base[x]
  ELSE [base[x] EXCEPT !.val = slots[SlotOf(x)].val]

LEMMA SlotFacts ==
  ASSUME NEW sl \in Seq(Slots), NEW x \in Ids, NEW v \in Vals
  PROVE  LET t == Append(sl, Slot(x, v))  n == Len(sl) + 1 IN
         /\ t \in Seq(Slots) /\ LastRow(t, x, n) /\ n \in Nat /\ n # 0 /\ t[n] = Slot(x, v)
         /\ \A y \in Ids : y # x => Rows(t, y) = Rows(sl, y)
         /\ \A p \in DOMAIN sl : t[p] = sl[p]
  <1>. DEFINE t == Append(sl, Slot(x, v))
              n == Len(sl) + 1
  <1>1. Slot(x, v) \in Slots /\ Slot(x, v).id = x /\ Slot(x, v).live
    BY DEF Slot, Slots
  <1>2. /\ t \in Seq(Slots) /\ DOMAIN t = 1 .. n /\ DOMAIN sl = 1 .. Len(sl) /\ n \in Nat /\ n # 0
        /\ t[n] = Slot(x, v) /\ \A p \in 1 .. Len(sl) : t[p] = sl[p]
    BY <1>1
  <1>3. \A p \in 1 .. n : p <= n /\ (p = n \/ p \in 1 .. Len(sl))
    BY <1>2
  <1>4. n \in 1 .. n /\ \A p \in 1 .. Len(sl) : p \in 1 .. n
    BY <1>2
  <1>. HIDE DEF t, n
  <1>5. LastRow(t, x, n)
    BY <1>1, <1>2, <1>3, <1>4 DEF LastRow, Rows
  <1>6. \A y \in Ids : y # x => Rows(t, y) = Rows(sl, y)
    BY <1>1, <1>2, <1>3, <1>4 DEF Rows
  <1>. QED
    BY <1>2, <1>5, <1>6 DEF t, n

\* A slot's value rewritten, or its mark cleared.
LEMMA SlotChanged ==
  ASSUME NEW sl \in Seq(Slots), NEW p \in DOMAIN sl, NEW v \in Vals
  PROVE  /\ LET t == [sl EXCEPT ![p].val = v] IN
              /\ t \in Seq(Slots) /\ \A y \in Ids : Rows(t, y) = Rows(sl, y)
              /\ t[p].val = v /\ \A q \in DOMAIN sl : q # p => t[q] = sl[q]
         /\ LET t == [sl EXCEPT ![p].live = FALSE] IN
              /\ t \in Seq(Slots) /\ \A y \in Ids : Rows(t, y) = Rows(sl, y) \ {p}
              /\ \A q \in DOMAIN sl : q # p => t[q] = sl[q]
  <1>1. PICK w : w = [sl[p] EXCEPT !.val = v]
    OBVIOUS
  <1>2. PICK d : d = [sl[p] EXCEPT !.live = FALSE]
    OBVIOUS
  <1>3. sl[p] \in Slots /\ DOMAIN sl = 1 .. Len(sl)
    OBVIOUS
  <1>4. /\ w \in Slots /\ w.val = v /\ w.id = sl[p].id /\ w.live = sl[p].live
        /\ d \in Slots /\ d.id = sl[p].id /\ d.live = FALSE
    BY <1>1, <1>2, <1>3 DEF Slots
  <1>. DEFINE t == [sl EXCEPT ![p].val = v]
              u == [sl EXCEPT ![p].live = FALSE]
  <1>5. t \in Seq(Slots) /\ DOMAIN t = DOMAIN sl /\ t[p] = w /\ \A q \in DOMAIN sl : q # p => t[q] = sl[q]
    BY <1>1, <1>4
  <1>6. u \in Seq(Slots) /\ DOMAIN u = DOMAIN sl /\ u[p] = d /\ \A q \in DOMAIN sl : q # p => u[q] = sl[q]
    BY <1>2, <1>4
  <1>. HIDE DEF t, u
  <1>7. ASSUME NEW y \in Ids PROVE Rows(t, y) = Rows(sl, y) /\ Rows(u, y) = Rows(sl, y) \ {p}
    BY <1>4, <1>5, <1>6 DEF Rows
  <1>. QED
    BY <1>4, <1>5, <1>6, <1>7 DEF t, u

LEMMA SlotOfFacts ==
  ASSUME slots \in Seq(Slots), NEW x \in Ids
  PROVE  /\ Committed(x) = Rows(slots, x)
         /\ Rows(slots, x) = {} => SlotOf(x) = 0
         /\ Rows(slots, x) # {} => SlotOf(x) # 0 /\ SlotOf(x) \in Nat /\ LastRow(slots, x, SlotOf(x))
         /\ \A p : LastRow(slots, x, p) => SlotOf(x) = p
  <1>1. Committed(x) = Rows(slots, x)
    BY DEF Committed, Rows
  <1>2. Rows(slots, x) \in SUBSET (0 .. Len(slots)) /\ Len(slots) \in Nat
    BY DEF Rows
  <1>3. \A p \in Rows(slots, x) : p # 0 /\ p \in Nat
    BY DEF Rows
  <1>4. ASSUME Rows(slots, x) # {} PROVE SlotOf(x) # 0 /\ SlotOf(x) \in Nat /\ LastRow(slots, x, SlotOf(x))
    <2>1. PICK p \in Rows(slots, x) : \A q \in Rows(slots, x) : q <= p
      BY <1>2, <1>4, GreatestOf
    <2>2. SlotOf(x) \in Rows(slots, x) /\ \A q \in Rows(slots, x) : q <= SlotOf(x)
      BY <1>1, <1>4, <2>1 DEF SlotOf
    <2>. QED
      BY <1>3, <2>2 DEF LastRow
  <1>5. ASSUME NEW p, LastRow(slots, x, p) PROVE SlotOf(x) = p
    <2>1. p \in Rows(slots, x) /\ LastRow(slots, x, SlotOf(x))
      BY <1>4, <1>5 DEF LastRow
    <2>2. p <= SlotOf(x) /\ SlotOf(x) <= p /\ p \in Nat /\ SlotOf(x) \in Nat
      BY <1>3, <1>5, <2>1 DEF LastRow
    <2>. QED
      BY <2>2
  <1>. QED
    BY <1>1, <1>4, <1>5 DEF SlotOf

LEMMA CompactFacts ==
  ASSUME Core, Compact, Has("mmap_scanned")
  PROVE  /\ slots' \in Seq(Slots) /\ position' \in [Ids -> Nat]
         /\ \A x \in Ids :
              /\ position[x] = 0 => position'[x] = 0 /\ Rows(slots', x) = {}
              /\ position[x] # 0 => /\ position'[x] # 0 /\ LastRow(slots', x, position'[x])
                                    /\ slots'[position'[x]] = slots[position[x]]
  <1>. DEFINE held == {p \in DOMAIN slots : position[slots[p].id] = p}
              kept == Ascending(held)
              n == Cardinality(held)
  <1>1. slots \in Seq(Slots) /\ position \in [Ids -> Nat] /\ DOMAIN slots = 1 .. Len(slots) /\ Len(slots) \in Nat
    BY DEF Core, Typed, SlotsOk, Compact, Idle
  <1>2. held \in SUBSET Nat /\ IsFiniteSet(held)
    <2>1. held \in SUBSET (1 .. Len(slots)) /\ IsFiniteSet(1 .. Len(slots))
      BY <1>1, FS_Interval
    <2>. QED
      BY <1>1, <2>1, FS_Subset
  <1>3. n \in Nat /\ Passes(kept, held)
    BY <1>2, AscendingPasses
  <1>. HIDE DEF kept
  <1>4. /\ DOMAIN kept = 1 .. n
        /\ \A i \in 1 .. n : kept[i] \in DOMAIN slots /\ kept[i] # 0 /\ position[slots[kept[i]].id] = kept[i]
        /\ \A i, j \in 1 .. n : kept[i] = kept[j] => i = j
        /\ \A p \in held : \E i \in 1 .. n : kept[i] = p
    <2>1. /\ DOMAIN kept = 1 .. n /\ \A i \in 1 .. n : kept[i] \in held
          /\ \A i, j \in 1 .. n : kept[i] = kept[j] => i = j
          /\ \A p \in held : \E i \in 1 .. n : kept[i] = p
      <3>. HIDE DEF held
      <3>. QED
        BY <1>3 DEF Passes
    <2>2. \A p \in held : p \in DOMAIN slots /\ p # 0 /\ position[slots[p].id] = p
      BY <1>1
    <2>. HIDE DEF held, n
    <2>. QED
      BY <2>1, <2>2
  <1>5. /\ slots' = [i \in 1 .. n |-> slots[kept[i]]]
        /\ position' = [x \in Ids |-> IF position[x] = 0 THEN 0
                                      ELSE CHOOSE i \in 1 .. n : kept[i] = position[x]]
    <2>1. /\ slots' = [i \in DOMAIN kept |-> slots[kept[i]]]
          /\ position' = [x \in Ids |-> IF position[x] = 0 THEN 0
                                        ELSE CHOOSE i \in DOMAIN kept : kept[i] = position[x]]
      BY DEF Compact, kept
    <2>. HIDE DEF n
    <2>. QED
      BY <1>4, <2>1
  <1>. HIDE DEF n
  <1>6. PICK t : t = [i \in 1 .. n |-> slots[kept[i]]]
    OBVIOUS
  <1>7. t \in Seq(Slots) /\ DOMAIN t = 1 .. n /\ \A i \in 1 .. n : t[i] = slots[kept[i]] /\ t[i] \in Slots
    <2>1. \A i \in 1 .. n : slots[kept[i]] \in Slots
      BY <1>1, <1>4
    <2>2. t \in [1 .. n -> Slots]
      BY <1>6, <2>1
    <2>. QED
      BY <1>3, <1>6, <2>1, <2>2
  <1>8. ASSUME NEW x \in Ids, NEW i \in Rows(t, x) PROVE i \in 1 .. n /\ kept[i] = position[x] /\ position[x] # 0
    <2>1. i \in 1 .. n /\ slots[kept[i]].id = x
      BY <1>7 DEF Rows
    <2>. QED
      BY <1>4, <2>1
  <1>9. ASSUME NEW x \in Ids, position[x] # 0
        PROVE  /\ position'[x] \in 1 .. n /\ kept[position'[x]] = position[x]
               /\ LastRow(t, x, position'[x]) /\ t[position'[x]] = slots[position[x]]
    <2>1. position[x] \in DOMAIN slots /\ slots[position[x]].id = x /\ slots[position[x]].live
      BY <1>9 DEF Core, SlotsOk, LastRow, Rows
    <2>2. position[x] \in held
      BY <2>1
    <2>3. PICK i \in 1 .. n : kept[i] = position[x]
      BY <1>4, <2>2
    <2>4. position'[x] = CHOOSE j \in 1 .. n : kept[j] = position[x]
      BY <1>5, <1>9
    <2>5. position'[x] \in 1 .. n /\ kept[position'[x]] = position[x]
      BY <2>3, <2>4
    <2>6. t[position'[x]] = slots[position[x]]
      BY <1>7, <2>5
    <2>7. position'[x] \in Rows(t, x)
      BY <1>7, <2>1, <2>5, <2>6 DEF Rows
    <2>8. ASSUME NEW q \in Rows(t, x) PROVE q <= position'[x]
      <3>1. q = position'[x] /\ q \in Nat
        BY <1>3, <1>4, <1>8, <2>5
      <3>. QED
        BY <3>1
    <2>. QED
      BY <2>5, <2>6, <2>7, <2>8 DEF LastRow
  <1>10. position' \in [Ids -> Nat]
    <2>1. \A i \in 1 .. n : i \in Nat
      BY <1>3
    <2>2. \A x \in Ids : position'[x] \in Nat
      BY <1>5, <1>9, <2>1
    <2>. QED
      BY <1>5, <2>2
  <1>11. ASSUME NEW x \in Ids, position[x] = 0 PROVE position'[x] = 0 /\ Rows(t, x) = {}
    BY <1>5, <1>8, <1>11
  <1>12. \A i \in 1 .. n : i # 0
    BY <1>3
  <1>. QED
    BY <1>5, <1>6, <1>7, <1>9, <1>10, <1>11, <1>12

LEMMA ReopenedFacts ==
  ASSUME Core, Opens, Has("mmap_scanned")
  PROVE  /\ slots \in Seq(Slots) /\ slots' \in Seq(Slots) /\ position' \in [Ids -> Nat]
         /\ \A x \in Ids :
              /\ base[x] = Absent => position'[x] = 0
              /\ base[x] # Absent => /\ position'[x] # 0 /\ LastRow(slots', x, position'[x])
                                     /\ slots'[position'[x]].val = Found(x).val
  <1>. DEFINE lacking == {x \in Live : SlotOf(x) = 0}
              added == SetToSeq(lacking)
              n == Cardinality(lacking)
              more == [i \in DOMAIN added |-> Slot(added[i], base[added[i]].val)]
  <1>1. slots \in Seq(Slots) /\ base \in [Ids -> Records \cup {Absent}]
    BY DEF Core, Typed, Opens, Open, Refused
  <1>2. Live \in SUBSET Ids /\ lacking \in SUBSET Ids /\ IsFiniteSet(lacking)
    BY Parameters, FS_Subset DEF Live
  <1>3. n \in Nat /\ Passes(added, lacking)
    BY <1>2, SetToSeqPasses
  <1>4. /\ slots' = slots \o more
        /\ position' = [x \in Ids |-> IF x \notin Live THEN 0
                          ELSE IF SlotOf(x) # 0 THEN SlotOf(x)
                          ELSE Len(slots) + CHOOSE i \in DOMAIN added : added[i] = x]
    BY DEF Opens, Open, SlotsReopened
  <1>. HIDE DEF added
  <1>5. /\ DOMAIN added = 1 .. n /\ \A i \in 1 .. n : added[i] \in lacking
        /\ \A i, j \in 1 .. n : added[i] = added[j] => i = j
        /\ \A x \in lacking : \E i \in 1 .. n : added[i] = x
    BY <1>3 DEF Passes
  <1>6. \A i \in 1 .. n : added[i] \in Ids /\ base[added[i]] \in Records
    BY <1>1, <1>2, <1>5 DEF Live
  <1>7. \A x \in Ids, v \in Vals : Slot(x, v) \in Slots /\ Slot(x, v).id = x /\ Slot(x, v).live /\ Slot(x, v).val = v
    BY DEF Slot, Slots
  <1>8. \A i \in 1 .. n : more[i] \in Slots /\ more[i] = Slot(added[i], base[added[i]].val)
    BY <1>5, <1>6, <1>7, RecordFacts
  <1>. HIDE DEF lacking, n
  <1>9. more \in Seq(Slots) /\ Len(more) = n
    <2>1. more \in [1 .. n -> Slots]
      BY <1>5, <1>8
    <2>. QED
      BY <1>3, <2>1
  <1>. HIDE DEF more
  <1>10. PICK t, m, w : t = slots \o more /\ m = Len(slots) /\ w = m + n
    OBVIOUS
  <1>11. /\ t \in Seq(Slots) /\ m \in Nat /\ w \in Nat /\ DOMAIN t = 1 .. w /\ DOMAIN slots = 1 .. m
         /\ \A p \in 1 .. m : t[p] = slots[p]
         /\ \A i \in 1 .. n : t[m + i] = more[i]
    <2>1. DOMAIN more = 1 .. n
      BY <1>9
    <2>. QED
      BY <1>1, <1>3, <1>9, <1>10, <2>1
  <1>12. \A p \in 1 .. w : \/ p \in 1 .. m
                           \/ \E i \in 1 .. n : p = m + i
    <2>. SUFFICES ASSUME NEW p \in 1 .. w, p \notin 1 .. m PROVE \E i \in 1 .. n : p = m + i
      OBVIOUS
    <2>1. p - m \in 1 .. n /\ p = m + (p - m)
      BY <1>3, <1>10, <1>11
    <2>. QED
      BY <2>1
  <1>13. \A p \in 1 .. m : p \in 1 .. w
    BY <1>3, <1>10, <1>11
  <1>14. \A i \in 1 .. n : m + i \in 1 .. w /\ m + i # 0 /\ m + i \in Nat
    BY <1>3, <1>10, <1>11
  <1>15. ASSUME NEW x \in Ids, x \notin lacking PROVE Rows(t, x) = Rows(slots, x)
    <2>1. \A i \in 1 .. n : t[m + i].id # x
      BY <1>5, <1>6, <1>7, <1>8, <1>11, <1>15, RecordFacts
    <2>. QED
      BY <1>11, <1>12, <1>13, <2>1 DEF Rows
  <1>16. ASSUME NEW x \in Ids, base[x] # Absent, SlotOf(x) # 0
         PROVE  /\ position'[x] = SlotOf(x) /\ SlotOf(x) \in Nat /\ LastRow(t, x, SlotOf(x))
                /\ t[SlotOf(x)].val = Found(x).val
    <2>1. x \in Live /\ x \notin lacking
      BY <1>16 DEF Live, lacking
    <2>2. position'[x] = SlotOf(x)
      BY <1>4, <1>16, <2>1
    <2>3. Committed(x) # {} /\ SlotOf(x) \in Nat /\ LastRow(slots, x, SlotOf(x))
      BY <1>1, <1>16, SlotOfFacts
    <2>4. LastRow(t, x, SlotOf(x))
      BY <1>15, <2>1, <2>3 DEF LastRow
    <2>5. SlotOf(x) \in 1 .. m
      BY <1>11, <2>3 DEF LastRow, Rows
    <2>6. slots # NoFile
      BY <1>1, ValueAssumption
    <2>7. PICK b \in Records, v \in Vals : b = base[x] /\ v = slots[SlotOf(x)].val
      <3>1. slots[SlotOf(x)] \in Slots
        BY <1>1, <1>11, <2>5
      <3>. QED
        BY <1>1, <1>16, <3>1 DEF Slots
    <2>8. Found(x) = [b EXCEPT !.val = v]
      BY <1>16, <2>3, <2>6, <2>7 DEF Found
    <2>9. Found(x).val = v
      BY <2>7, <2>8 DEF Records
    <2>. QED
      BY <1>11, <2>2, <2>3, <2>4, <2>5, <2>7, <2>9
  <1>17. ASSUME NEW x \in Ids, base[x] # Absent, SlotOf(x) = 0
         PROVE  /\ position'[x] # 0 /\ position'[x] \in Nat /\ LastRow(t, x, position'[x])
                /\ t[position'[x]].val = Found(x).val
    <2>1. x \in Live /\ x \in lacking
      BY <1>17 DEF Live, lacking
    <2>2. Rows(slots, x) = {} /\ Committed(x) = {}
      BY <1>1, <1>17, SlotOfFacts
    <2>3. PICK i \in 1 .. n : added[i] = x
      BY <1>5, <2>1
    <2>4. (CHOOSE j \in 1 .. n : added[j] = x) = i
      BY <1>5, <2>3
    <2>5. position'[x] = m + i
      BY <1>4, <1>5, <1>10, <1>17, <2>1, <2>4
    <2>6. t[m + i] = Slot(x, base[x].val) /\ base[x].val \in Vals
      BY <1>6, <1>8, <1>11, <2>3, RecordFacts
    <2>7. m + i \in Rows(t, x)
      BY <1>7, <1>11, <1>14, <2>6 DEF Rows
    <2>8. ASSUME NEW q \in Rows(t, x) PROVE q = m + i
      <3>1. q \in 1 .. w /\ t[q].id = x /\ t[q].live
        BY <1>11 DEF Rows
      <3>2. q \notin 1 .. m
        BY <1>11, <2>2, <3>1 DEF Rows
      <3>3. PICK j \in 1 .. n : q = m + j
        BY <1>12, <3>1, <3>2
      <3>4. t[q].id = added[j]
        BY <1>6, <1>7, <1>8, <1>11, <3>3, RecordFacts
      <3>. QED
        BY <1>5, <2>3, <3>1, <3>3, <3>4
    <2>9. Found(x) = base[x]
      BY <2>2 DEF Found
    <2>10. m + i <= m + i
      BY <1>11
    <2>. QED
      BY <1>7, <1>14, <2>5, <2>6, <2>7, <2>8, <2>9, <2>10 DEF LastRow
  <1>18. \A x \in Ids : base[x] = Absent => position'[x] = 0
    BY <1>4 DEF Live
  <1>19. position' \in [Ids -> Nat]
    <2>1. \A x \in Ids : position'[x] \in Nat
      BY <1>16, <1>17, <1>18
    <2>. QED
      BY <1>4, <2>1
  <1>. QED
    BY <1>1, <1>4, <1>10, <1>11, <1>16, <1>17, <1>18, <1>19

------------------------------------------------------------------------------
(* Core is inductive                                                       *)

LEMMA EntryFacts ==
  /\ \A e \in Edges : Item(e) \in Entries
  /\ \A x \in Ids \cup FarIds : Tombstone(x) \in Entries
  BY DEF Item, Tombstone, Entries

Logs == {g \in [Labels -> Seq(Entries)] : \A l \in Labels : Len(g[l]) <= MaxLog}

LEMMA LogGrows ==
  ASSUME NEW g \in Logs, NEW l \in Labels, NEW entry \in Entries, Len(g[l]) < MaxLog
  PROVE  [g EXCEPT ![l] = Append(@, entry)] \in Logs /\ [g EXCEPT ![l] = <<>>] \in Logs
  <1>1. g \in [Labels -> Seq(Entries)] /\ \A k \in Labels : Len(g[k]) <= MaxLog /\ Len(g[k]) \in Nat
    BY DEF Logs
  <1>2. Append(g[l], entry) \in Seq(Entries) /\ Len(Append(g[l], entry)) = Len(g[l]) + 1
    BY <1>1
  <1>3. MaxLog \in Nat
    BY Parameters
  <1>4. Len(g[l]) + 1 <= MaxLog /\ Len(<<>>) <= MaxLog
    BY <1>1, <1>3
  <1>5. PICK s \in Seq(Entries) : s = Append(g[l], entry) /\ Len(s) <= MaxLog
    BY <1>2, <1>4
  <1>6. PICK h, c : h = [g EXCEPT ![l] = s] /\ c = [g EXCEPT ![l] = <<>>]
    OBVIOUS
  <1>7. /\ h \in [Labels -> Seq(Entries)] /\ \A k \in Labels : h[k] = IF k = l THEN s ELSE g[k]
        /\ c \in [Labels -> Seq(Entries)] /\ \A k \in Labels : c[k] = IF k = l THEN <<>> ELSE g[k]
    BY <1>1, <1>6
  <1>8. \A k \in Labels : Len(h[k]) <= MaxLog /\ Len(c[k]) <= MaxLog
    BY <1>1, <1>4, <1>5, <1>7
  <1>. QED
    BY <1>5, <1>6, <1>7, <1>8 DEF Logs

LEMMA LogClears ==
  ASSUME NEW g \in Logs, NEW l \in Labels
  PROVE  [g EXCEPT ![l] = <<>>] \in Logs
  <1>1. Len(<<>>) <= MaxLog
    BY Parameters
  <1>. QED
    BY <1>1 DEF Logs

LEMMA MergeEdges ==
  /\ \A E, entries : Merge(E, entries) \in SUBSET Edges
  /\ \A l \in Labels : Durable(l) \in SUBSET Edges
  BY DEF Merge, Durable

LEMMA TypedStep ==
  ASSUME Core, Next
  PROVE  Typed'
  <1>. DEFINE Rest == /\ stack' \in Stacks /\ created' \in BOOLEAN /\ failed' \in BOOLEAN
                      /\ manifest' \in SUBSET Labels
                      /\ phase' \in {"creating", "open", "down", "opening", "refused"}
                      /\ cut' \in SUBSET Ids
              Records1 == base' \in [Ids -> Records \cup {Absent}] /\ inner' \in Inners /\ outer' \in Outers
                          /\ allowed' \in [Ids -> SUBSET (Records \cup {Absent})]
              Slots1 == slots' \in Seq(Slots) \cup {NoFile} /\ position' \in [Ids -> Nat]
              Edges1 == /\ blob' \in [Labels -> (SUBSET Edges) \cup {NoFile}] /\ log' \in Logs
                        /\ edges' \in [Labels -> (SUBSET Edges) \cup {NoLabel}]
                        /\ doubt' \in SUBSET (Labels \X Edges)
              Op1 == op' \in Ops
  <1>0. Rest /\ Records1 /\ Slots1 /\ Edges1 /\ Op1 => Typed'
    BY DEF Typed, Logs
  <1>t. /\ stack \in Stacks /\ created \in BOOLEAN /\ failed \in BOOLEAN
        /\ base \in [Ids -> Records \cup {Absent}]
        /\ slots \in Seq(Slots) \cup {NoFile}
        /\ blob \in [Labels -> (SUBSET Edges) \cup {NoFile}]
        /\ log \in Logs
        /\ manifest \in SUBSET Labels
        /\ inner \in Inners /\ position \in [Ids -> Nat] /\ outer \in Outers
        /\ edges \in [Labels -> (SUBSET Edges) \cup {NoLabel}]
        /\ phase \in {"creating", "open", "down", "opening", "refused"} /\ op \in Ops
        /\ cut \in SUBSET Ids /\ doubt \in SUBSET (Labels \X Edges)
        /\ allowed \in [Ids -> SUBSET (Records \cup {Absent})]
    BY DEF Core, Typed, Logs
  <1>u. /\ stack.named \subseteq Labels /\ NoOp \in Ops /\ NoOuter \in Outers /\ NoInner \in Inners
        /\ Leaving \subseteq Ids /\ {} \in SUBSET Edges
    <2>1. Leaving \subseteq Ids
      BY DEF Leaving, Core, WriteHolds, Writes
    <2>. QED
      BY <1>t, <2>1, Parameters, NoOpFacts, EmptyFacts
  <1>1. ASSUME NEW kind, NEW x, NEW r, NEW todo, Starts(kind, x, r, todo) PROVE Typed'
    <2>1. Unsettled(x, r) \subseteq Records \cup {Absent} \/ r = Absent
      <3>. SUFFICES ASSUME r # Absent PROVE Unsettled(x, r) \subseteq Records \cup {Absent}
        OBVIOUS
      <3>1. r \in Records
        BY <1>1 DEF Starts, MaybeRecords
      <3>2. CASE slots = NoFile
        BY <3>1, <3>2 DEF Unsettled
      <3>3. CASE slots # NoFile
        <4>0. \A p \in Committed(x) : slots[p] \in Slots
          BY <1>t, <3>3 DEF Committed
        <4>1. \A p \in Committed(x) : slots[p].val \in Vals
          BY <4>0 DEF Slots
        <4>2. \A p \in Committed(x) : [r EXCEPT !.val = slots[p].val] \in Records
          BY <3>1, <4>1 DEF Records
        <4>. QED
          BY <3>1, <4>2 DEF Unsettled
      <3>. QED
        BY <3>2, <3>3
    <2>2. InnerStep(x, Get(x), r) \in Inners
      BY <1>1, InnerStepFacts DEF Starts
    <2>. QED
      BY <1>0, <1>1, <1>t, <2>1, <2>2 DEF Starts, MaybeRecords
  <1>2. ASSUME NEW x, NEW v, Updates(x, v) PROVE Typed'
    <2>0. x \in Ids /\ v \in Vals /\ base[x] # Absent /\ Get(x) \in Records /\ base[x] \in Records
      BY <1>2, GetFacts DEF Updates, Update
    <2>1. PICK b, g \in Records : b = base[x] /\ g = Get(x)
      BY <2>0
    <2>2. PICK new \in Records : new = [g EXCEPT !.val = v]
      BY <2>0, <2>1, RecordFacts
    <2>3. [b EXCEPT !.val = v] \in Records
      BY <2>0, <2>1 DEF Records
    <2>4. Slots1
      <3>1. CASE Has("mmap_scanned")
        <4>1. /\ position[x] # 0 /\ slots' = [slots EXCEPT ![position[x]].val = v] /\ position' = position
          BY <1>2, <3>1 DEF Updates, Update
        <4>2. slots \in Seq(Slots) /\ position[x] \in DOMAIN slots
          BY <2>0, <4>1, GetFacts
        <4>. QED
          BY <1>t, <2>0, <4>1, <4>2, SlotChanged
      <3>2. CASE ~Has("mmap_scanned")
        BY <1>2, <1>t, <3>2 DEF Updates, Update
      <3>. QED
        BY <3>1, <3>2
    <2>5. inner' \in Inners
      <3>1. CASE Has("scanned") /\ ~Has("mmap_scanned")
        <4>1. inner' = [inner EXCEPT !.scanned = ScannedStep(inner.scanned, x, new)]
          BY <1>2, <2>1, <2>2, <3>1 DEF Updates, Update
        <4>2. inner.scanned \in Columns /\ ColumnOf(base, inner.scanned) /\ new \in Records \cup {Absent}
          BY <1>t, <3>1 DEF Inners, Core, InnerOk
        <4>3. ScannedStep(inner.scanned, x, new) \in Columns
          BY <1>t, <2>0, <4>2, ScannedFacts
        <4>. QED
          BY <1>t, <4>1, <4>3 DEF Inners
      <3>2. CASE ~(Has("scanned") /\ ~Has("mmap_scanned"))
        BY <1>2, <1>t, <3>2 DEF Updates, Update
      <3>. QED
        BY <3>1, <3>2
    <2>6. outer' \in Outers
      <3>1. outer' = IF Has("rekeyed") THEN [outer EXCEPT !.order = OrderedStep(outer.order, x, g, new)] ELSE outer
        BY <1>2, <2>1, <2>2 DEF Updates, Update
      <3>2. PICK o \in SUBSET (Keys \X Ids) : o = outer.order
        BY <1>t DEF Outers
      <3>3. g \in MaybeRecords /\ new \in MaybeRecords
        BY <2>1, <2>2 DEF MaybeRecords
      <3>4. OrderedStep(o, x, g, new) \in SUBSET (Keys \X Ids)
        BY <2>0, <3>3, OrderedFacts
      <3>. QED
        BY <1>t, <3>1, <3>2, <3>4 DEF Outers
    <2>7. Records1
      BY <1>2, <1>t, <2>0, <2>1, <2>2, <2>3, <2>5, <2>6 DEF Updates, Update
    <2>. QED
      BY <1>0, <1>2, <1>t, <2>4, <2>7 DEF Updates, Update
  <1>3. ASSUME SlotStep PROVE Typed'
    <2>0. /\ op.id \in Ids /\ Has("mmap_scanned") /\ op.new \in Records \cup {Absent} /\ op.kind \in Writes
          /\ phase = "open" /\ slots \in Seq(Slots)
          /\ op.kind \in {"insert", "replace"} => op.new.val \in Vals
      <3>1. op.kind \in Writes /\ op.step = "slot"
        BY <1>3 DEF SlotStep, Core, Staged
      <3>2. op.new \in Records \cup {Absent} /\ (op.kind = "delete" <=> op.new = Absent)
        BY <1>t, <3>1 DEF Ops, Core, WriteHolds
      <3>3. op.kind \in {"insert", "replace"} => op.new.val \in Vals
        BY <3>2, RecordFacts
      <3>. QED
        BY <1>t, <3>1, <3>2, <3>3 DEF Core, WriteHolds, Staged, SlotsOk
    <2>1. PICK x \in Ids : x = op.id
      BY <2>0
    <2>2. Slots1
      <3>1. CASE op.kind = "insert"
        <4>1. PICK v \in Vals : v = op.new.val
          BY <2>0, <3>1
        <4>2. slots' = Append(slots, Slot(x, v)) /\ position' = [position EXCEPT ![x] = Len(slots) + 1]
          BY <1>3, <2>1, <3>1, <4>1 DEF SlotStep
        <4>3. Append(slots, Slot(x, v)) \in Seq(Slots) /\ Len(slots) + 1 \in Nat
          BY <2>0, SlotFacts
        <4>. QED
          BY <1>t, <4>2, <4>3
      <3>2. CASE op.kind = "replace"
        <4>1. PICK v \in Vals : v = op.new.val
          BY <2>0, <3>2
        <4>2. position[x] # 0 /\ slots' = [slots EXCEPT ![position[x]].val = v] /\ position' = position
          BY <1>3, <2>1, <3>2, <4>1 DEF SlotStep
        <4>3. position[x] \in DOMAIN slots
          BY <4>2, GetFacts
        <4>. QED
          BY <1>t, <2>0, <4>2, <4>3, SlotChanged
      <3>3. CASE op.kind = "delete"
        <4>1. /\ slots' = IF position[x] = 0 THEN slots ELSE [slots EXCEPT ![position[x]].live = FALSE]
              /\ position' = [position EXCEPT ![x] = 0]
          BY <1>3, <2>1, <3>3 DEF SlotStep
        <4>2. position[x] # 0 => position[x] \in DOMAIN slots
          BY GetFacts
        <4>3. 0 \in Vals
          BY DEF Vals
        <4>4. position[x] # 0 => [slots EXCEPT ![position[x]].live = FALSE] \in Seq(Slots)
          BY <2>0, <4>2, <4>3, SlotChanged
        <4>. QED
          BY <1>t, <2>0, <4>1, <4>4
      <3>. QED
        BY <1>3, <3>1, <3>2, <3>3 DEF SlotStep
    <2>3. Op1
      BY <1>3, <1>t DEF SlotStep, Ops
    <2>. QED
      BY <1>0, <1>3, <1>t, <2>2, <2>3 DEF SlotStep, history
  <1>4. ASSUME SlotFails PROVE Typed'
    BY <1>0, <1>4, <1>t, <1>u DEF SlotFails, StopHere, memory
  <1>5. ASSUME Finish PROVE Typed'
    <2>1. op.kind \in Writes
      BY <1>5 DEF Finish, Core, Staged
    <2>2. op.id \in Ids /\ op.old \in MaybeRecords /\ op.new \in MaybeRecords
      BY <1>t, <2>1 DEF Ops, Core, WriteHolds, MaybeRecords
    <2>3. OuterStep(outer, op.id, op.old, op.new) \in Outers
      BY <1>t, <2>2, OuterStepFacts
    <2>. QED
      BY <1>0, <1>5, <1>t, <1>u, <2>2, <2>3 DEF Finish, disk, MaybeRecords
  <1>6. ASSUME NEW l \in Labels, DropEdges(l) PROVE Typed'
    <2>1. op.id \in Ids /\ edges[l] # NoLabel /\ Room(l)
      BY <1>6 DEF DropEdges, Core, WriteHolds, Writes
    <2>2. log' \in Logs
      BY <1>6, <1>t, <2>1, EntryFacts, LogGrows DEF DropEdges, Room
    <2>3. edges' \in [Labels -> (SUBSET Edges) \cup {NoLabel}]
      <3>1. edges[l] \ Touching(op.id, edges[l]) \in SUBSET Edges
        BY <1>t, <2>1
      <3>. QED
        BY <1>6, <1>t, <3>1 DEF DropEdges
    <2>4. Op1
      BY <1>6, <1>t DEF DropEdges, Ops
    <2>. QED
      BY <1>0, <1>6, <1>t, <2>2, <2>3, <2>4 DEF DropEdges
  <1>7. ASSUME NEW l \in Labels, DropFails(l) PROVE Typed'
    <2>1. op.id \in Ids /\ edges[l] \in SUBSET Edges /\ Room(l)
      BY <1>7, <1>t DEF DropFails, Core, WriteHolds, Writes
    <2>2. log' \in Logs
      <3>1. [log EXCEPT ![l] = Append(log[l], Tombstone(op.id))] \in Logs
        BY <1>t, <2>1, EntryFacts, LogGrows DEF Room
      <3>. QED
        BY <1>7, <1>t, <3>1 DEF DropFails
    <2>3. doubt' \in SUBSET (Labels \X Edges)
      BY <1>7, <1>t, <2>1 DEF DropFails, Touching
    <2>. QED
      BY <1>0, <1>7, <1>t, <1>u, <2>2, <2>3 DEF DropFails, StopHere, memory
  <1>8. ASSUME NEW l, NEW e, Appends(l, e) PROVE Typed'
    <2>1. l \in Labels /\ e \in Edges /\ edges[l] \in SUBSET Edges /\ Room(l) /\ edges[l] \cup {e} \in SUBSET Edges
      BY <1>8, <1>t DEF Appends, AppendEdge
    <2>2. log' \in Logs
      <3>1. [log EXCEPT ![l] = Append(log[l], Item(e))] \in Logs
        BY <1>t, <2>1, EntryFacts, LogGrows DEF Room
      <3>. QED
        BY <1>8, <3>1 DEF Appends, AppendEdge
    <2>3. edges' \in [Labels -> (SUBSET Edges) \cup {NoLabel}] /\ doubt' \in SUBSET (Labels \X Edges)
      <3>1. /\ [edges EXCEPT ![l] = edges[l] \cup {e}] \in [Labels -> (SUBSET Edges) \cup {NoLabel}]
            /\ doubt \ {<<l, e>>} \in SUBSET (Labels \X Edges) /\ doubt \cup {<<l, e>>} \in SUBSET (Labels \X Edges)
        BY <1>t, <2>1
      <3>2. /\ edges' = edges \/ edges' = [edges EXCEPT ![l] = edges[l] \cup {e}]
            /\ doubt' = doubt \ {<<l, e>>} \/ doubt' = doubt \cup {<<l, e>>}
        BY <1>8 DEF Appends, AppendEdge
      <3>. QED
        BY <1>t, <3>1, <3>2
    <2>. QED
      BY <1>0, <1>8, <1>t, <1>u, <2>2, <2>3 DEF Appends, AppendEdge
  <1>9. ASSUME NEW l, NEW e, NewLabel(l, e) PROVE Typed'
    BY <1>0, <1>9, <1>t DEF NewLabel, memory, history
  <1>10. ASSUME LinkManifest PROVE Typed'
    <2>1. op.label \in Labels
      BY <1>10 DEF LinkManifest, Core, Staged, LinkHolds
    <2>2. Op1
      BY <1>10, <1>t DEF LinkManifest, Ops
    <2>. QED
      BY <1>0, <1>10, <1>t, <2>1, <2>2 DEF LinkManifest, history
  <1>11. ASSUME Ends PROVE Typed'
    BY <1>0, <1>11, <1>t, <1>u DEF Ends, disk, memory, history
  <1>12. ASSUME NEW l, NEW x, Detaches(l, x) PROVE Typed'
    <2>1. l \in Labels /\ x \in FarIds /\ edges[l] \in SUBSET Edges /\ Room(l)
      BY <1>12, <1>t DEF Detaches, Detach
    <2>2. log' \in Logs
      BY <1>12, <1>t, <2>1, EntryFacts, LogGrows DEF Detaches, Detach, Room
    <2>3. edges' \in [Labels -> (SUBSET Edges) \cup {NoLabel}] /\ doubt' \in SUBSET (Labels \X Edges)
      <3>1. edges[l] \ Touching(x, edges[l]) \in SUBSET Edges /\ {l} \X Touching(x, edges[l]) \in SUBSET (Labels \X Edges)
        BY <2>1 DEF Touching
      <3>. QED
        BY <1>12, <1>t, <2>1, <3>1 DEF Detaches, Detach
    <2>. QED
      BY <1>0, <1>12, <1>t, <2>2, <2>3 DEF Detaches, Detach
  <1>13. ASSUME Compacts PROVE Typed'
    <2>1. Slots1
      BY <1>13, <1>t, CompactFacts DEF Compacts, Compact
    <2>. QED
      BY <1>0, <1>13, <1>t, <2>1 DEF Compacts, Compact, history
  <1>14. ASSUME ClearLog PROVE Typed'
    <2>1. op.label \in Labels /\ blob[op.label] # NoFile
      BY <1>14, <1>t DEF ClearLog, Core, FoldHolds, Ops
    <2>2. Op1
      BY <1>14, <1>t DEF ClearLog, Ops
    <2>3. log' \in Logs
      BY <1>14, <1>t, <2>1, LogClears DEF ClearLog
    <2>. QED
      BY <1>0, <1>14, <1>t, <2>1, <2>2, <2>3 DEF ClearLog, history
  <1>15. ASSUME NEW l \in Labels, WriteBlob(l) PROVE Typed'
    <2>1. Op1
      BY <1>15, <1>t DEF WriteBlob, Ops
    <2>2. (IF op.kind = "open" THEN Durable(l) ELSE edges[l]) \in SUBSET Edges
      <3>1. op.kind # "open" => op.kind = "compact" /\ edges[l] # NoLabel
        BY <1>15 DEF WriteBlob, Core, Staged, FoldHolds
      <3>. QED
        BY <1>t, <3>1, MergeEdges
    <2>. QED
      BY <1>0, <1>15, <1>t, <2>1, <2>2 DEF WriteBlob, memory, history
  <1>16. ASSUME NEW l \in Labels, CreateLabel(l) PROVE Typed'
    <2>1. Op1
      BY <1>16, <1>t DEF CreateLabel, Ops
    <2>2. log' \in Logs
      BY <1>16, <1>t, LogClears DEF CreateLabel
    <2>. QED
      BY <1>0, <1>16, <1>t, <2>1, <2>2 DEF CreateLabel, memory, history
  <1>17. ASSUME Creates PROVE Typed'
    BY <1>0, <1>17, <1>t DEF Creates, Create, memory, history
  <1>18. ASSUME CreateEnds PROVE Typed'
    BY <1>0, <1>18, <1>t, <1>u DEF CreateEnds, history
  <1>19. ASSUME Opens PROVE Typed'
    <2>1. Slots1
      BY <1>19, <1>t, ReopenedFacts DEF Opens, Open, SlotsReopened
    <2>. QED
      BY <1>0, <1>19, <1>t, <2>1 DEF Opens, Open, history
  <1>20. ASSUME OpenRefused PROVE Typed'
    BY <1>0, <1>20, <1>t DEF OpenRefused, disk, memory, history
  <1>21. ASSUME OpenEnds PROVE Typed'
    BY <1>0, <1>21, <1>t, <1>u, RebuiltFacts DEF OpenEnds
  <1>22. ASSUME Crash PROVE Typed'
    BY <1>0, <1>22, <1>t, <1>u DEF Crash, disk
  <1>. QED
    BY <1>1, <1>2, <1>3, <1>4, <1>5, <1>6, <1>7, <1>8, <1>9, <1>10, <1>11, <1>12, <1>13, <1>14, <1>15,
       <1>16, <1>17, <1>18, <1>19, <1>20, <1>21, <1>22, StepCases

LEMMA StagedStep ==
  ASSUME Core, Next
  PROVE  Staged'
  <1>t. op \in Ops /\ Staged
    BY DEF Core, Typed
  <1>n. NoOp.kind = "none" /\ NoOp.step = ""
    BY NoOpFacts
  <1>1. ASSUME NEW kind, NEW x, NEW r, NEW todo, Starts(kind, x, r, todo) PROVE Staged'
    BY <1>1, <1>t, <1>n DEF Starts, Staged, Ops, Writes
  <1>2. ASSUME NEW x, NEW v, Updates(x, v) PROVE Staged'
    BY <1>2, <1>t, <1>n DEF Updates, Update, Staged, Ops, Writes
  <1>3. ASSUME SlotStep PROVE Staged'
    BY <1>3, <1>t, <1>n DEF SlotStep, history, Staged, Ops, Writes
  <1>4. ASSUME SlotFails PROVE Staged'
    BY <1>4, <1>t, <1>n DEF SlotFails, StopHere, memory, Staged, Ops, Writes
  <1>5. ASSUME Finish PROVE Staged'
    BY <1>5, <1>t, <1>n DEF Finish, disk, Staged, Ops, Writes
  <1>6. ASSUME NEW l \in Labels, DropEdges(l) PROVE Staged'
    BY <1>6, <1>t, <1>n DEF DropEdges, Staged, Ops, Writes
  <1>7. ASSUME NEW l \in Labels, DropFails(l) PROVE Staged'
    BY <1>7, <1>t, <1>n DEF DropFails, StopHere, memory, Staged, Ops, Writes
  <1>8. ASSUME NEW l, NEW e, Appends(l, e) PROVE Staged'
    BY <1>8, <1>t, <1>n DEF Appends, AppendEdge, Staged, Ops, Writes
  <1>9. ASSUME NEW l, NEW e, NewLabel(l, e) PROVE Staged'
    BY <1>9, <1>t, <1>n DEF NewLabel, memory, history, Staged, Ops, Writes
  <1>10. ASSUME LinkManifest PROVE Staged'
    BY <1>10, <1>t, <1>n DEF LinkManifest, history, Staged, Ops, Writes
  <1>11. ASSUME Ends PROVE Staged'
    BY <1>11, <1>t, <1>n DEF Ends, disk, memory, history, Staged, Ops, Writes
  <1>12. ASSUME NEW l, NEW x, Detaches(l, x) PROVE Staged'
    BY <1>12, <1>t, <1>n DEF Detaches, Detach, Staged, Ops, Writes
  <1>13. ASSUME Compacts PROVE Staged'
    BY <1>13, <1>t, <1>n DEF Compacts, Compact, history, Staged, Ops, Writes, Idle
  <1>14. ASSUME ClearLog PROVE Staged'
    BY <1>14, <1>t, <1>n DEF ClearLog, history, Staged, Ops, Writes
  <1>15. ASSUME NEW l \in Labels, WriteBlob(l) PROVE Staged'
    BY <1>15, <1>t, <1>n DEF WriteBlob, memory, history, Staged, Ops, Writes
  <1>16. ASSUME NEW l \in Labels, CreateLabel(l) PROVE Staged'
    BY <1>16, <1>t, <1>n DEF CreateLabel, memory, history, Staged, Ops, Writes
  <1>17. ASSUME Creates PROVE Staged'
    BY <1>17, <1>t, <1>n DEF Creates, Create, memory, history, Staged, Ops, Writes
  <1>18. ASSUME CreateEnds PROVE Staged'
    BY <1>18, <1>t, <1>n DEF CreateEnds, history, Staged, Ops, Writes
  <1>19. ASSUME Opens PROVE Staged'
    BY <1>19, <1>t, <1>n DEF Opens, Open, history, Staged, Ops, Writes
  <1>20. ASSUME OpenRefused PROVE Staged'
    BY <1>20, <1>t, <1>n DEF OpenRefused, disk, memory, history, Staged, Ops, Writes
  <1>21. ASSUME OpenEnds PROVE Staged'
    BY <1>21, <1>t, <1>n DEF OpenEnds, Staged, Ops, Writes
  <1>22. ASSUME Crash PROVE Staged'
    BY <1>22, <1>t, <1>n DEF Crash, disk, Staged, Ops, Writes
  <1>. QED
    BY <1>1, <1>2, <1>3, <1>4, <1>5, <1>6, <1>7, <1>8, <1>9, <1>10, <1>11, <1>12, <1>13, <1>14, <1>15,
       <1>16, <1>17, <1>18, <1>19, <1>20, <1>21, <1>22, StepCases

LEMMA WriteStep ==
  ASSUME Core, Next
  PROVE  WriteHolds'
  <1>t. op \in Ops /\ Staged /\ WriteHolds /\ base \in [Ids -> Records \cup {Absent}] /\ log \in Logs
    BY DEF Core, Typed, Logs
  <1>n. NoOp.kind = "none" /\ NoOp.kind \notin Writes
    BY NoOpFacts DEF Writes
  <1>1. ASSUME NEW kind, NEW x, NEW r, NEW todo, Starts(kind, x, r, todo) PROVE WriteHolds'
    <2>1. /\ x \in Ids
          /\ Get(x) = Absent <=> base[x] = Absent
      BY <1>1, GetFacts DEF Starts
    <2>2. base'[x] = r
      BY <1>1, <1>t DEF Starts
    <2>3. \A l \in todo : edges'[l] # NoLabel /\ Room(l)'
      BY <1>1 DEF Starts, Room
    <2>. QED
      BY <1>1, <2>1, <2>2, <2>3 DEF Starts, WriteHolds, Has
  <1>2. ASSUME NEW x, NEW v, Updates(x, v) PROVE WriteHolds'
    BY <1>2, <1>t, <1>n DEF Updates, Update, Staged, WriteHolds, Ops, Writes, Room
  <1>3. ASSUME SlotStep PROVE WriteHolds'
    BY <1>3, <1>t, <1>n DEF SlotStep, history, Staged, WriteHolds, Ops, Writes, Room
  <1>4. ASSUME SlotFails PROVE WriteHolds'
    BY <1>4, <1>t, <1>n DEF SlotFails, StopHere, memory, Staged, WriteHolds, Ops, Writes, Room
  <1>5. ASSUME Finish PROVE WriteHolds'
    BY <1>5, <1>t, <1>n DEF Finish, disk, Staged, WriteHolds, Ops, Writes, Room
  <1>6. ASSUME NEW l \in Labels, DropEdges(l) PROVE WriteHolds'
    <2>1. /\ op'.todo = op.todo \ {l} /\ op'.kind = op.kind /\ op'.id = op.id /\ op'.old = op.old
          /\ op'.new = op.new /\ op'.step = op.step /\ op.kind = "delete"
      BY <1>6, <1>t DEF DropEdges, Ops
    <2>2. \A k \in op.todo \ {l} : edges'[k] # NoLabel /\ Room(k)'
      <3>1. \A k \in op.todo : k \in Labels /\ edges[k] # NoLabel /\ Room(k)
        BY <1>6, <1>t DEF DropEdges, WriteHolds, Ops, Writes
      <3>2. \A k \in Labels \ {l} : edges'[k] = edges[k] /\ log'[k] = log[k]
        BY <1>6, <1>t DEF DropEdges, Logs, Core, Typed
      <3>. QED
        BY <3>1, <3>2 DEF Room
    <2>. QED
      BY <1>6, <1>t, <2>1, <2>2 DEF DropEdges, WriteHolds, Has
  <1>7. ASSUME NEW l \in Labels, DropFails(l) PROVE WriteHolds'
    BY <1>7, <1>t, <1>n DEF DropFails, StopHere, memory, Staged, WriteHolds, Ops, Writes, Room
  <1>8. ASSUME NEW l, NEW e, Appends(l, e) PROVE WriteHolds'
    BY <1>8, <1>t, <1>n DEF Appends, AppendEdge, Staged, WriteHolds, Ops, Writes, Room
  <1>9. ASSUME NEW l, NEW e, NewLabel(l, e) PROVE WriteHolds'
    BY <1>9, <1>t, <1>n DEF NewLabel, memory, history, Staged, WriteHolds, Ops, Writes, Room
  <1>10. ASSUME LinkManifest PROVE WriteHolds'
    BY <1>10, <1>t, <1>n DEF LinkManifest, history, Staged, WriteHolds, Ops, Writes, Room
  <1>11. ASSUME Ends PROVE WriteHolds'
    BY <1>11, <1>t, <1>n DEF Ends, disk, memory, history, Staged, WriteHolds, Ops, Writes, Room
  <1>12. ASSUME NEW l, NEW x, Detaches(l, x) PROVE WriteHolds'
    BY <1>12, <1>t, <1>n DEF Detaches, Detach, Staged, WriteHolds, Ops, Writes, Room
  <1>13. ASSUME Compacts PROVE WriteHolds'
    BY <1>13, <1>t, <1>n DEF Compacts, Compact, history, Staged, WriteHolds, Ops, Writes, Room
  <1>14. ASSUME ClearLog PROVE WriteHolds'
    BY <1>14, <1>t, <1>n DEF ClearLog, history, Staged, WriteHolds, Ops, Writes, Room
  <1>15. ASSUME NEW l \in Labels, WriteBlob(l) PROVE WriteHolds'
    BY <1>15, <1>t, <1>n DEF WriteBlob, memory, history, Staged, WriteHolds, Ops, Writes, Room
  <1>16. ASSUME NEW l \in Labels, CreateLabel(l) PROVE WriteHolds'
    BY <1>16, <1>t, <1>n DEF CreateLabel, memory, history, Staged, WriteHolds, Ops, Writes, Room
  <1>17. ASSUME Creates PROVE WriteHolds'
    BY <1>17, <1>t, <1>n DEF Creates, Create, memory, history, Staged, WriteHolds, Ops, Writes, Room
  <1>18. ASSUME CreateEnds PROVE WriteHolds'
    BY <1>18, <1>t, <1>n DEF CreateEnds, history, Staged, WriteHolds, Ops, Writes, Room
  <1>19. ASSUME Opens PROVE WriteHolds'
    BY <1>19, <1>t, <1>n DEF Opens, Open, history, Staged, WriteHolds, Ops, Writes, Room
  <1>20. ASSUME OpenRefused PROVE WriteHolds'
    BY <1>20, <1>t, <1>n DEF OpenRefused, disk, memory, history, Staged, WriteHolds, Ops, Writes, Room
  <1>21. ASSUME OpenEnds PROVE WriteHolds'
    BY <1>21, <1>t, <1>n DEF OpenEnds, Staged, WriteHolds, Ops, Writes, Room
  <1>22. ASSUME Crash PROVE WriteHolds'
    BY <1>22, <1>t, <1>n DEF Crash, disk, Staged, WriteHolds, Ops, Writes, Room
  <1>. QED
    BY <1>1, <1>2, <1>3, <1>4, <1>5, <1>6, <1>7, <1>8, <1>9, <1>10, <1>11, <1>12, <1>13, <1>14, <1>15,
       <1>16, <1>17, <1>18, <1>19, <1>20, <1>21, <1>22, StepCases

LEMMA LinkStep ==
  ASSUME Core, Next
  PROVE  LinkHolds'
  <1>t. op \in Ops /\ Staged /\ LinkHolds /\ edges \in [Labels -> (SUBSET Edges) \cup {NoLabel}]
    BY DEF Core, Typed
  <1>n. NoOp.kind = "none" /\ NoOp.step = ""
    BY NoOpFacts
  <1>1. ASSUME NEW kind, NEW x, NEW r, NEW todo, Starts(kind, x, r, todo) PROVE LinkHolds'
    BY <1>1, <1>t, <1>n DEF Starts, Staged, LinkHolds, Ops, Writes
  <1>2. ASSUME NEW x, NEW v, Updates(x, v) PROVE LinkHolds'
    BY <1>2, <1>t, <1>n DEF Updates, Update, Staged, LinkHolds, Ops, Writes
  <1>3. ASSUME SlotStep PROVE LinkHolds'
    BY <1>3, <1>t, <1>n DEF SlotStep, history, Staged, LinkHolds, Ops, Writes
  <1>4. ASSUME SlotFails PROVE LinkHolds'
    BY <1>4, <1>t, <1>n DEF SlotFails, StopHere, memory, Staged, LinkHolds, Ops, Writes
  <1>5. ASSUME Finish PROVE LinkHolds'
    BY <1>5, <1>t, <1>n DEF Finish, disk, Staged, LinkHolds, Ops, Writes
  <1>6. ASSUME NEW l \in Labels, DropEdges(l) PROVE LinkHolds'
    BY <1>6, <1>t, <1>n DEF DropEdges, Staged, LinkHolds, Ops, Writes
  <1>7. ASSUME NEW l \in Labels, DropFails(l) PROVE LinkHolds'
    BY <1>7, <1>t, <1>n DEF DropFails, StopHere, memory, Staged, LinkHolds, Ops, Writes
  <1>8. ASSUME NEW l, NEW e, Appends(l, e) PROVE LinkHolds'
    BY <1>8, <1>t, <1>n DEF Appends, AppendEdge, Staged, LinkHolds, Ops, Writes
  <1>9. ASSUME NEW l, NEW e, NewLabel(l, e) PROVE LinkHolds'
    <2>1. blob'[l] # NoFile
      BY <1>9, ValueAssumption DEF NewLabel, Core, Typed
    <2>. QED
      BY <1>9, <2>1 DEF NewLabel, memory, history, LinkHolds, Live
  <1>10. ASSUME LinkManifest PROVE LinkHolds'
    <2>1. /\ op.kind = "link" /\ op'.step = "append" /\ op'.kind = "link" /\ op'.label = op.label
          /\ op'.edge = op.edge /\ op.label \in Labels
      BY <1>10, <1>t DEF LinkManifest, Ops, Staged, LinkHolds
    <2>2. edges'[op.label] # NoLabel
      BY <1>10, <1>t, <2>1, ValueAssumption DEF LinkManifest
    <2>. QED
      BY <1>10, <1>t, <2>1, <2>2 DEF LinkManifest, history, LinkHolds, Live
  <1>11. ASSUME Ends PROVE LinkHolds'
    BY <1>11, <1>t, <1>n DEF Ends, disk, memory, history, Staged, LinkHolds, Ops, Writes
  <1>12. ASSUME NEW l, NEW x, Detaches(l, x) PROVE LinkHolds'
    BY <1>12, <1>t, <1>n DEF Detaches, Detach, Staged, LinkHolds, Ops, Writes
  <1>13. ASSUME Compacts PROVE LinkHolds'
    BY <1>13, <1>t, <1>n DEF Compacts, Compact, history, Staged, LinkHolds, Ops, Writes
  <1>14. ASSUME ClearLog PROVE LinkHolds'
    BY <1>14, <1>t, <1>n DEF ClearLog, history, Staged, LinkHolds, Ops, Writes
  <1>15. ASSUME NEW l \in Labels, WriteBlob(l) PROVE LinkHolds'
    BY <1>15, <1>t, <1>n DEF WriteBlob, memory, history, Staged, LinkHolds, Ops, Writes
  <1>16. ASSUME NEW l \in Labels, CreateLabel(l) PROVE LinkHolds'
    BY <1>16, <1>t, <1>n DEF CreateLabel, memory, history, Staged, LinkHolds, Ops, Writes
  <1>17. ASSUME Creates PROVE LinkHolds'
    BY <1>17, <1>t, <1>n DEF Creates, Create, memory, history, Staged, LinkHolds, Ops, Writes
  <1>18. ASSUME CreateEnds PROVE LinkHolds'
    BY <1>18, <1>t, <1>n DEF CreateEnds, history, Staged, LinkHolds, Ops, Writes
  <1>19. ASSUME Opens PROVE LinkHolds'
    BY <1>19, <1>t, <1>n DEF Opens, Open, history, Staged, LinkHolds, Ops, Writes
  <1>20. ASSUME OpenRefused PROVE LinkHolds'
    BY <1>20, <1>t, <1>n DEF OpenRefused, disk, memory, history, Staged, LinkHolds, Ops, Writes
  <1>21. ASSUME OpenEnds PROVE LinkHolds'
    BY <1>21, <1>t, <1>n DEF OpenEnds, Staged, LinkHolds, Ops, Writes
  <1>22. ASSUME Crash PROVE LinkHolds'
    BY <1>22, <1>t, <1>n DEF Crash, disk, Staged, LinkHolds, Ops, Writes
  <1>. QED
    BY <1>1, <1>2, <1>3, <1>4, <1>5, <1>6, <1>7, <1>8, <1>9, <1>10, <1>11, <1>12, <1>13, <1>14, <1>15,
       <1>16, <1>17, <1>18, <1>19, <1>20, <1>21, <1>22, StepCases

LEMMA FoldStep ==
  ASSUME Core, Next
  PROVE  FoldHolds'
  <1>t. op \in Ops /\ Staged /\ FoldHolds /\ edges \in [Labels -> (SUBSET Edges) \cup {NoLabel}]
    BY DEF Core, Typed
  <1>n. NoOp.kind = "none" /\ NoOp.step = ""
    BY NoOpFacts
  <1>1. ASSUME NEW kind, NEW x, NEW r, NEW todo, Starts(kind, x, r, todo) PROVE FoldHolds'
    BY <1>1, <1>t, <1>n DEF Starts, Staged, FoldHolds, Ops, Writes
  <1>2. ASSUME NEW x, NEW v, Updates(x, v) PROVE FoldHolds'
    BY <1>2, <1>t, <1>n DEF Updates, Update, Staged, FoldHolds, Ops, Writes
  <1>3. ASSUME SlotStep PROVE FoldHolds'
    BY <1>3, <1>t, <1>n DEF SlotStep, history, Staged, FoldHolds, Ops, Writes
  <1>4. ASSUME SlotFails PROVE FoldHolds'
    BY <1>4, <1>t, <1>n DEF SlotFails, StopHere, memory, Staged, FoldHolds, Ops, Writes
  <1>5. ASSUME Finish PROVE FoldHolds'
    BY <1>5, <1>t, <1>n DEF Finish, disk, Staged, FoldHolds, Ops, Writes
  <1>6. ASSUME NEW l \in Labels, DropEdges(l) PROVE FoldHolds'
    BY <1>6, <1>t, <1>n DEF DropEdges, Staged, FoldHolds, Ops, Writes
  <1>7. ASSUME NEW l \in Labels, DropFails(l) PROVE FoldHolds'
    BY <1>7, <1>t, <1>n DEF DropFails, StopHere, memory, Staged, FoldHolds, Ops, Writes
  <1>8. ASSUME NEW l, NEW e, Appends(l, e) PROVE FoldHolds'
    BY <1>8, <1>t, <1>n DEF Appends, AppendEdge, Staged, FoldHolds, Ops, Writes
  <1>9. ASSUME NEW l, NEW e, NewLabel(l, e) PROVE FoldHolds'
    BY <1>9, <1>t, <1>n DEF NewLabel, memory, history, Staged, FoldHolds, Ops, Writes
  <1>10. ASSUME LinkManifest PROVE FoldHolds'
    BY <1>10, <1>t, <1>n DEF LinkManifest, history, Staged, FoldHolds, Ops, Writes
  <1>11. ASSUME Ends PROVE FoldHolds'
    BY <1>11, <1>t, <1>n DEF Ends, disk, memory, history, Staged, FoldHolds, Ops, Writes
  <1>12. ASSUME NEW l, NEW x, Detaches(l, x) PROVE FoldHolds'
    BY <1>12, <1>t, <1>n DEF Detaches, Detach, Staged, FoldHolds, Ops, Writes
  <1>13. ASSUME Compacts PROVE FoldHolds'
    BY <1>13, <1>t, <1>n DEF Compacts, Compact, history, Staged, FoldHolds, Ops, Writes
  <1>14. ASSUME ClearLog PROVE FoldHolds'
    <2>1. /\ op.label \in Labels /\ blob[op.label] \in SUBSET Edges
          /\ op'.label = NoLabel /\ op'.kind = op.kind /\ op'.step = op.step /\ op'.todo = op.todo
      BY <1>14, <1>t DEF ClearLog, FoldHolds, Core, Typed, Ops
    <2>2. \A l \in op.todo : l \in Labels /\ (edges[l] # NoLabel => edges'[l] # NoLabel)
      BY <1>14, <1>t, <2>1, ValueAssumption DEF ClearLog, Ops
    <2>. QED
      BY <1>14, <1>t, <2>1, <2>2 DEF ClearLog, history, Staged, FoldHolds, Known
  <1>15. ASSUME NEW l \in Labels, WriteBlob(l) PROVE FoldHolds'
    <2>1. op'.label = l /\ op'.kind = op.kind /\ op'.step = op.step /\ op'.todo = op.todo \ {l} /\ l \in op.todo
      BY <1>15, <1>t DEF WriteBlob, Ops
    <2>2. blob'[l] # NoFile
      <3>1. op.kind # "open" => op.kind = "compact" /\ edges[l] # NoLabel
        BY <1>15, <1>t DEF WriteBlob, Staged, FoldHolds
      <3>2. blob \in [Labels -> (SUBSET Edges) \cup {NoFile}]
        BY DEF Core, Typed
      <3>3. (IF op.kind = "open" THEN Durable(l) ELSE edges[l]) \in SUBSET Edges
        BY <1>t, <3>1, MergeEdges
      <3>. QED
        BY <1>15, <3>2, <3>3, ValueAssumption DEF WriteBlob
    <2>. QED
      BY <1>15, <1>t, <2>1, <2>2 DEF WriteBlob, memory, history, Staged, FoldHolds, Known
  <1>16. ASSUME NEW l \in Labels, CreateLabel(l) PROVE FoldHolds'
    BY <1>16, <1>t, <1>n DEF CreateLabel, memory, history, Staged, FoldHolds, Ops, Writes
  <1>17. ASSUME Creates PROVE FoldHolds'
    BY <1>17, <1>t, <1>n DEF Creates, Create, memory, history, Staged, FoldHolds, Ops, Writes
  <1>18. ASSUME CreateEnds PROVE FoldHolds'
    BY <1>18, <1>t, <1>n DEF CreateEnds, history, Staged, FoldHolds, Ops, Writes
  <1>19. ASSUME Opens PROVE FoldHolds'
    BY <1>19, <1>t, <1>n DEF Opens, Open, history, Staged, FoldHolds, Ops, Writes, Known
  <1>20. ASSUME OpenRefused PROVE FoldHolds'
    BY <1>20, <1>t, <1>n DEF OpenRefused, disk, memory, history, Staged, FoldHolds, Ops, Writes
  <1>21. ASSUME OpenEnds PROVE FoldHolds'
    BY <1>21, <1>t, <1>n DEF OpenEnds, Staged, FoldHolds, Ops, Writes
  <1>22. ASSUME Crash PROVE FoldHolds'
    BY <1>22, <1>t, <1>n DEF Crash, disk, Staged, FoldHolds, Ops, Writes
  <1>. QED
    BY <1>1, <1>2, <1>3, <1>4, <1>5, <1>6, <1>7, <1>8, <1>9, <1>10, <1>11, <1>12, <1>13, <1>14, <1>15,
       <1>16, <1>17, <1>18, <1>19, <1>20, <1>21, <1>22, StepCases

LEMMA KnownLabels ==
  ASSUME Core
  PROVE  /\ Known \in SUBSET Labels /\ Known = stack.named \cup manifest
         /\ phase = "open" => \A l \in Labels : edges[l] # NoLabel <=> l \in Known
         /\ op.step = "fold" => op.todo \subseteq Known /\ (op.label # NoLabel => op.label \in Known)
         /\ \A l \in Labels : edges[l] # NoLabel => l \in Known /\ edges[l] \in SUBSET Edges
  <1>1. stack.named \in SUBSET Labels /\ op \in Ops /\ edges \in [Labels -> (SUBSET Edges) \cup {NoLabel}]
    BY Parameters DEF Core, Typed
  <1>2. \A l \in Labels : edges[l] # NoLabel <=> l \in Loaded
    BY DEF Core, InMemory
  <1>3. phase = "open" => \A l \in Labels : edges[l] # NoLabel <=> l \in Known
    BY <1>2 DEF Loaded
  <1>4. Loaded \subseteq Known
    BY DEF Loaded
  <1>5. op.step = "fold" => op.todo \subseteq Known /\ (op.label # NoLabel => op.label \in Known)
    <2>. SUFFICES ASSUME op.step = "fold" PROVE op.todo \subseteq Known /\ (op.label # NoLabel => op.label \in Known)
      OBVIOUS
    <2>1. CASE op.kind = "open"
      BY <2>1 DEF Core, FoldHolds
    <2>2. CASE op.kind = "compact"
      <3>1. \A l \in op.todo : l \in Labels /\ edges[l] # NoLabel
        BY <1>1, <2>2 DEF Core, FoldHolds, Ops
      <3>2. op.label # NoLabel => op.label \in Labels /\ edges[op.label] # NoLabel
        BY <1>1, <2>2 DEF Core, FoldHolds, Ops
      <3>. QED
        BY <1>2, <1>4, <3>1, <3>2
    <2>. QED
      BY <2>1, <2>2 DEF Core, Staged
  <1>. QED
    BY <1>1, <1>2, <1>3, <1>4, <1>5 DEF Known, Core, Typed

LEMMA BlankStep ==
  ASSUME Core, Next
  PROVE  Blank'
  <1>t. op \in Ops /\ Staged /\ Blank /\ blob \in [Labels -> (SUBSET Edges) \cup {NoFile}] /\ log \in Logs
    BY DEF Core, Typed, Logs
  <1>b. phase' # "creating" /\ created' => Blank'
    BY DEF Blank
  <1>c. phase # "creating" /\ phase # "down" => created
    BY <1>t DEF Staged
  <1>1. ASSUME NEW kind, NEW x, NEW r, NEW todo, Starts(kind, x, r, todo) PROVE Blank'
    BY <1>1, <1>t, <1>b, <1>c DEF Starts, Staged, Writes
  <1>2. ASSUME NEW x, NEW v, Updates(x, v) PROVE Blank'
    BY <1>2, <1>t, <1>b, <1>c DEF Updates, Update, Staged, Writes, Idle
  <1>3. ASSUME SlotStep PROVE Blank'
    BY <1>3, <1>t, <1>b, <1>c DEF SlotStep, history, Staged, Writes, Ops
  <1>4. ASSUME SlotFails PROVE Blank'
    BY <1>4, <1>t, <1>b, <1>c DEF SlotFails, StopHere, memory, Staged, Writes
  <1>5. ASSUME Finish PROVE Blank'
    BY <1>5, <1>t, <1>b, <1>c DEF Finish, disk, Staged, Writes
  <1>6. ASSUME NEW l \in Labels, DropEdges(l) PROVE Blank'
    BY <1>6, <1>t, <1>b, <1>c DEF DropEdges, Staged, Writes
  <1>7. ASSUME NEW l \in Labels, DropFails(l) PROVE Blank'
    BY <1>7, <1>t, <1>b, <1>c DEF DropFails, StopHere, memory, Staged, Writes
  <1>8. ASSUME NEW l, NEW e, Appends(l, e) PROVE Blank'
    BY <1>8, <1>t, <1>b, <1>c DEF Appends, AppendEdge, Staged, Writes
  <1>9. ASSUME NEW l, NEW e, NewLabel(l, e) PROVE Blank'
    BY <1>9, <1>t, <1>b, <1>c DEF NewLabel, memory, history, Staged, Writes
  <1>10. ASSUME LinkManifest PROVE Blank'
    BY <1>10, <1>t, <1>b, <1>c DEF LinkManifest, history, Staged, Writes
  <1>11. ASSUME Ends PROVE Blank'
    BY <1>11, <1>t, <1>b, <1>c DEF Ends, disk, memory, history, Staged, Writes
  <1>12. ASSUME NEW l, NEW x, Detaches(l, x) PROVE Blank'
    BY <1>12, <1>t, <1>b, <1>c DEF Detaches, Detach, Staged, Writes, Idle
  <1>13. ASSUME Compacts PROVE Blank'
    BY <1>13, <1>t, <1>b, <1>c DEF Compacts, Compact, history, Staged, Writes, Idle
  <1>14. ASSUME ClearLog PROVE Blank'
    BY <1>14, <1>t, <1>b, <1>c DEF ClearLog, history, Staged, Writes
  <1>15. ASSUME NEW l \in Labels, WriteBlob(l) PROVE Blank'
    BY <1>15, <1>t, <1>b, <1>c DEF WriteBlob, memory, history, Staged, Writes
  <1>16. ASSUME NEW l \in Labels, CreateLabel(l) PROVE Blank'
    <2>1. /\ phase = "creating" /\ created /\ op'.todo = op.todo \ {l}
          /\ log' = [log EXCEPT ![l] = <<>>] /\ blob' = [blob EXCEPT ![l] = {}]
          /\ UNCHANGED <<stack, base, created, slots, manifest, memory, phase, history>>
      BY <1>16, <1>t DEF CreateLabel, Staged, Ops
    <2>2. \A k \in Labels : log'[k] = <<>> /\ blob'[k] \in {NoFile, {}} /\ (k # l => blob'[k] = blob[k])
      BY <1>t, <2>1 DEF Blank, Logs
    <2>3. blob'[l] # NoFile /\ stack.named \subseteq Labels
      BY <1>t, <2>1, ValueAssumption, Parameters DEF Core, Typed
    <2>. QED
      BY <1>t, <2>1, <2>2, <2>3 DEF Blank, memory, history
  <1>17. ASSUME Creates PROVE Blank'
    <2>1. /\ phase' = "creating" /\ op'.todo = stack.named /\ phase = "down" /\ ~created
          /\ UNCHANGED <<stack, base, slots, blob, log, manifest, memory, history>>
      BY <1>17 DEF Creates, Create
    <2>. QED
      BY <1>t, <2>1 DEF Blank, memory, history
  <1>18. ASSUME CreateEnds PROVE Blank'
    BY <1>18, <1>t, <1>b, <1>c DEF CreateEnds, history, Staged, Writes
  <1>19. ASSUME Opens PROVE Blank'
    BY <1>19, <1>t, <1>b, <1>c DEF Opens, Open, history, Staged, Writes
  <1>20. ASSUME OpenRefused PROVE Blank'
    BY <1>20, <1>t, <1>b, <1>c DEF OpenRefused, disk, memory, history, Staged, Writes, Blank
  <1>21. ASSUME OpenEnds PROVE Blank'
    BY <1>21, <1>t, <1>b, <1>c DEF OpenEnds, Staged, Writes
  <1>22. ASSUME Crash PROVE Blank'
    BY <1>22, <1>t, <1>b, <1>c DEF Crash, disk, Staged, Writes
  <1>. QED
    BY <1>1, <1>2, <1>3, <1>4, <1>5, <1>6, <1>7, <1>8, <1>9, <1>10, <1>11, <1>12, <1>13, <1>14, <1>15,
       <1>16, <1>17, <1>18, <1>19, <1>20, <1>21, <1>22, StepCases

LEMMA FilesStep ==
  ASSUME Core, Next
  PROVE  FilesThere'
  <1>t. /\ op \in Ops /\ Staged /\ FilesThere /\ FoldHolds
        /\ blob \in [Labels -> (SUBSET Edges) \cup {NoFile}] /\ log \in Logs
        /\ stack.named \in SUBSET Labels /\ manifest \in SUBSET Labels
    BY Parameters DEF Core, Typed, Logs
  <1>k. /\ \A l \in Labels : edges[l] # NoLabel => l \in Known
        /\ op.step = "fold" => op.todo \subseteq Known /\ (op.label # NoLabel => op.label \in Known)
    BY KnownLabels
  <1>1. ASSUME NEW kind, NEW x, NEW r, NEW todo, Starts(kind, x, r, todo) PROVE FilesThere'
    BY <1>1, <1>t, <1>k DEF Starts, FilesThere, Known
  <1>2. ASSUME NEW x, NEW v, Updates(x, v) PROVE FilesThere'
    BY <1>2, <1>t, <1>k DEF Updates, Update, FilesThere, Known
  <1>3. ASSUME SlotStep PROVE FilesThere'
    BY <1>3, <1>t, <1>k DEF SlotStep, history, FilesThere, Known
  <1>4. ASSUME SlotFails PROVE FilesThere'
    BY <1>4, <1>t, <1>k DEF SlotFails, StopHere, memory, FilesThere, Known
  <1>5. ASSUME Finish PROVE FilesThere'
    BY <1>5, <1>t, <1>k DEF Finish, disk, FilesThere, Known
  <1>6. ASSUME NEW l \in Labels, DropEdges(l) PROVE FilesThere'
    BY <1>6, <1>t, <1>k DEF DropEdges, FilesThere, Known, Core, WriteHolds, Writes
  <1>7. ASSUME NEW l \in Labels, DropFails(l) PROVE FilesThere'
    <2>1. l \in Known
      BY <1>7, <1>t, <1>k DEF DropFails, Core, WriteHolds, Writes
    <2>2. \A k \in Labels : k # l => log'[k] = log[k]
      BY <1>7, <1>t DEF DropFails, Logs
    <2>. QED
      BY <1>7, <1>t, <2>1, <2>2 DEF DropFails, StopHere, memory, FilesThere, Known
  <1>8. ASSUME NEW l, NEW e, Appends(l, e) PROVE FilesThere'
    BY <1>8, <1>t, <1>k DEF Appends, AppendEdge, FilesThere, Known, Logs
  <1>9. ASSUME NEW l, NEW e, NewLabel(l, e) PROVE FilesThere'
    <2>1. blob' = [blob EXCEPT ![l] = {}] /\ l \in Labels /\ log' = log /\ stack' = stack /\ manifest' = manifest /\ phase' = phase
      BY <1>9 DEF NewLabel
    <2>2. \A k \in Labels : blob'[k] = IF k = l THEN {} ELSE blob[k]
      BY <1>t, <2>1
    <2>3. {} # NoFile
      BY ValueAssumption
    <2>. QED
      BY <1>t, <2>1, <2>2, <2>3 DEF FilesThere, Known
  <1>10. ASSUME LinkManifest PROVE FilesThere'
    BY <1>10, <1>t, <1>k DEF LinkManifest, history, FilesThere, Known, Core, LinkHolds, Staged
  <1>11. ASSUME Ends PROVE FilesThere'
    BY <1>11, <1>t, <1>k DEF Ends, disk, memory, history, FilesThere, Known
  <1>12. ASSUME NEW l, NEW x, Detaches(l, x) PROVE FilesThere'
    BY <1>12, <1>t, <1>k DEF Detaches, Detach, FilesThere, Known, Logs
  <1>13. ASSUME Compacts PROVE FilesThere'
    BY <1>13, <1>t, <1>k DEF Compacts, Compact, history, FilesThere, Known
  <1>14. ASSUME ClearLog PROVE FilesThere'
    BY <1>14, <1>t, <1>k DEF ClearLog, history, FilesThere, Known, Staged, Logs
  <1>15. ASSUME NEW l \in Labels, WriteBlob(l) PROVE FilesThere'
    <2>1. l \in Known
      BY <1>15, <1>k DEF WriteBlob
    <2>2. blob'[l] # NoFile
      <3>1. op.kind # "open" => op.kind = "compact" /\ edges[l] # NoLabel
        BY <1>15, <1>t DEF WriteBlob, Staged, FoldHolds
      <3>2. edges \in [Labels -> (SUBSET Edges) \cup {NoLabel}]
        BY DEF Core, Typed
      <3>3. (IF op.kind = "open" THEN Durable(l) ELSE edges[l]) \in SUBSET Edges
        BY <3>1, <3>2, MergeEdges
      <3>. QED
        BY <1>15, <1>t, <3>3, ValueAssumption DEF WriteBlob
    <2>3. \A k \in Labels : k # l => blob'[k] = blob[k]
      BY <1>15, <1>t DEF WriteBlob
    <2>. QED
      BY <1>15, <1>t, <2>1, <2>2, <2>3 DEF WriteBlob, memory, history, FilesThere, Known
  <1>16. ASSUME NEW l \in Labels, CreateLabel(l) PROVE FilesThere'
    <2>1. phase = "creating" /\ Blank
      BY <1>16, <1>t DEF CreateLabel, Staged, Core
    <2>2. \A k \in Labels : log'[k] = <<>> /\ blob'[k] \in {NoFile, {}}
      BY <1>16, <1>t, <2>1 DEF CreateLabel, Blank, Logs
    <2>. QED
      BY <1>16, <1>t, <2>1, <2>2 DEF CreateLabel, FilesThere, memory, history
  <1>17. ASSUME Creates PROVE FilesThere'
    BY <1>17, <1>t, <1>k DEF Creates, Create, memory, history, FilesThere, Known
  <1>18. ASSUME CreateEnds PROVE FilesThere'
    <2>1. phase = "creating" /\ Blank /\ op.todo = {}
      BY <1>18, <1>t DEF CreateEnds, Staged, Core
    <2>2. /\ Known' \in SUBSET Labels /\ Known' \subseteq stack.named
          /\ \A k \in Labels : log'[k] = <<>> /\ blob'[k] \in {NoFile, {}}
          /\ \A k \in stack.named : blob'[k] # NoFile
      BY <1>18, <1>t, <2>1 DEF CreateEnds, Blank, Known
    <2>. QED
      BY <2>2 DEF FilesThere
  <1>19. ASSUME Opens PROVE FilesThere'
    BY <1>19, <1>t, <1>k DEF Opens, Open, history, FilesThere, Known, Refused
  <1>20. ASSUME OpenRefused PROVE FilesThere'
    BY <1>20, <1>t, <1>k DEF OpenRefused, disk, memory, history, FilesThere, Known
  <1>21. ASSUME OpenEnds PROVE FilesThere'
    BY <1>21, <1>t, <1>k DEF OpenEnds, FilesThere, Known, Staged
  <1>22. ASSUME Crash PROVE FilesThere'
    BY <1>22, <1>t, <1>k DEF Crash, disk, FilesThere, Known
  <1>. QED
    BY <1>1, <1>2, <1>3, <1>4, <1>5, <1>6, <1>7, <1>8, <1>9, <1>10, <1>11, <1>12, <1>13, <1>14, <1>15,
       <1>16, <1>17, <1>18, <1>19, <1>20, <1>21, <1>22, StepCases

LEMMA MemoryStep ==
  ASSUME Core, Next
  PROVE  InMemory'
  <1>t. /\ op \in Ops /\ Staged /\ InMemory /\ FoldHolds
        /\ edges \in [Labels -> (SUBSET Edges) \cup {NoLabel}]
        /\ stack.named \in SUBSET Labels /\ manifest \in SUBSET Labels
    BY Parameters DEF Core, Typed
  <1>v. \A E \in SUBSET Edges : E # NoLabel
    BY ValueAssumption
  <1>1. ASSUME NEW kind, NEW x, NEW r, NEW todo, Starts(kind, x, r, todo) PROVE InMemory'
    BY <1>1, <1>t, <1>v DEF Starts, InMemory, Loaded, Known
  <1>2. ASSUME NEW x, NEW v, Updates(x, v) PROVE InMemory'
    BY <1>2, <1>t, <1>v DEF Updates, Update, InMemory, Loaded, Known
  <1>3. ASSUME SlotStep PROVE InMemory'
    BY <1>3, <1>t, <1>v DEF SlotStep, history, InMemory, Loaded, Known, Staged
  <1>4. ASSUME SlotFails PROVE InMemory'
    BY <1>4, <1>t, <1>v DEF SlotFails, StopHere, memory, InMemory, Loaded, Known, Staged, Writes
  <1>5. ASSUME Finish PROVE InMemory'
    BY <1>5, <1>t, <1>v DEF Finish, disk, InMemory, Loaded, Known, Staged, Writes
  <1>6. ASSUME NEW l \in Labels, DropEdges(l) PROVE InMemory'
    <2>1. phase = "open" /\ l \in op.todo /\ edges[l] # NoLabel /\ edges[l] \ Touching(op.id, edges[l]) \in SUBSET Edges
      BY <1>6, <1>t DEF DropEdges, Staged, Writes, Core, WriteHolds
    <2>. QED
      BY <1>6, <1>t, <1>v, <2>1 DEF DropEdges, InMemory, Loaded, Known
  <1>7. ASSUME NEW l \in Labels, DropFails(l) PROVE InMemory'
    BY <1>7, <1>t, <1>v DEF DropFails, StopHere, memory, InMemory, Loaded, Known, Staged, Writes
  <1>8. ASSUME NEW l, NEW e, Appends(l, e) PROVE InMemory'
    <2>1. edges[l] # NoLabel /\ edges[l] \cup {e} \in SUBSET Edges /\ l \in Labels
      BY <1>8, <1>t DEF Appends
    <2>. QED
      BY <1>8, <1>t, <1>v, <2>1 DEF Appends, AppendEdge, InMemory, Loaded, Known
  <1>9. ASSUME NEW l, NEW e, NewLabel(l, e) PROVE InMemory'
    BY <1>9, <1>t, <1>v DEF NewLabel, memory, history, InMemory, Loaded, Known
  <1>10. ASSUME LinkManifest PROVE InMemory'
    <2>1. phase = "open" /\ op.label \in Labels /\ {} \in SUBSET Edges
      BY <1>10, <1>t DEF LinkManifest, Staged, Core, LinkHolds
    <2>2. \A l \in Labels : edges'[l] = IF l = op.label THEN {} ELSE edges[l]
      BY <1>10, <1>t DEF LinkManifest
    <2>3. Known' = Known \cup {op.label} /\ phase' = "open"
      BY <1>10, <2>1 DEF LinkManifest, history, Known
    <2>. QED
      BY <1>t, <1>v, <2>1, <2>2, <2>3 DEF InMemory, Loaded
  <1>11. ASSUME Ends PROVE InMemory'
    BY <1>11, <1>t, <1>v DEF Ends, disk, memory, history, InMemory, Loaded, Known, Staged, Writes
  <1>12. ASSUME NEW l, NEW x, Detaches(l, x) PROVE InMemory'
    <2>1. edges[l] # NoLabel /\ edges[l] \ Touching(x, edges[l]) \in SUBSET Edges /\ l \in Labels
      BY <1>12, <1>t DEF Detaches, Detach
    <2>. QED
      BY <1>12, <1>t, <1>v, <2>1 DEF Detaches, Detach, InMemory, Loaded, Known
  <1>13. ASSUME Compacts PROVE InMemory'
    BY <1>13, <1>t, <1>v DEF Compacts, Compact, history, InMemory, Loaded, Known, Idle
  <1>14. ASSUME ClearLog PROVE InMemory'
    <2>1. op.label \in Labels /\ blob[op.label] \in SUBSET Edges /\ op.label \notin op.todo /\ op.label \in Known
      BY <1>14, <1>t, KnownLabels DEF ClearLog, FoldHolds, Core, Typed, Ops
    <2>2. op'.label = NoLabel /\ op'.kind = op.kind /\ op'.todo = op.todo /\ phase' = phase /\ Known' = Known
      BY <1>14, <1>t DEF ClearLog, history, Ops, Known
    <2>3. \A l \in Labels : edges'[l] = IF l = op.label THEN blob[op.label] ELSE edges[l]
      BY <1>14, <1>t, <2>1 DEF ClearLog
    <2>4. phase \in {"open", "opening"} /\ NoLabel \notin Labels
      BY <1>14, <1>t, Parameters DEF ClearLog, Staged
    <2>5. Loaded' = Loaded \cup {op.label}
      BY <1>t, <2>1, <2>2, <2>4 DEF Loaded, Known
    <2>. QED
      BY <1>t, <1>v, <2>1, <2>3, <2>5 DEF InMemory
  <1>15. ASSUME NEW l \in Labels, WriteBlob(l) PROVE InMemory'
    <2>1. op'.label = l /\ op'.kind = op.kind /\ op'.todo = op.todo \ {l} /\ l \in op.todo /\ op.label = NoLabel
      BY <1>15, <1>t DEF WriteBlob, Ops
    <2>2. op.todo \subseteq Labels /\ NoLabel \notin Labels
      BY <1>t, Parameters DEF Ops
    <2>a. Known' = Known /\ phase' = phase /\ Known \subseteq Labels
      BY <1>15, <1>t DEF WriteBlob, Known
    <2>b. Known \ (op'.todo \cup {op'.label}) = Known \ (op.todo \cup {op.label})
      BY <2>1, <2>2, <2>a
    <2>3. Loaded' = Loaded
      BY <2>a, <2>b DEF Loaded
    <2>. QED
      BY <1>15, <1>t, <2>3 DEF WriteBlob, InMemory, memory
  <1>16. ASSUME NEW l \in Labels, CreateLabel(l) PROVE InMemory'
    BY <1>16, <1>t, <1>v DEF CreateLabel, memory, history, InMemory, Loaded, Known, Staged, Ops
  <1>17. ASSUME Creates PROVE InMemory'
    BY <1>17, <1>t, <1>v DEF Creates, Create, memory, history, InMemory, Loaded, Known
  <1>18. ASSUME CreateEnds PROVE InMemory'
    <2>1. \A l \in Labels : edges'[l] = IF l \in stack.named THEN {} ELSE NoLabel
      BY <1>18 DEF CreateEnds
    <2>2. phase = "creating" /\ manifest = {}
      BY <1>18, <1>t DEF CreateEnds, Staged, Core, Blank
    <2>3. Loaded' = stack.named
      BY <1>18, <2>2 DEF CreateEnds, Loaded, Known
    <2>. QED
      BY <1>v, <2>1, <2>3 DEF InMemory
  <1>19. ASSUME Opens PROVE InMemory'
    <2>1. Loaded = {} /\ Loaded' = {}
      <3>1. NoLabel \notin Labels /\ op'.todo = Known /\ Known' = Known /\ phase' = "opening" /\ phase \in {"down", "refused"}
        BY <1>19, Parameters DEF Opens, Open, Known
      <3>. QED
        BY <3>1 DEF Loaded
    <2>. QED
      BY <1>19, <1>t, <2>1 DEF Opens, Open, InMemory
  <1>20. ASSUME OpenRefused PROVE InMemory'
    BY <1>20, <1>t, <1>v DEF OpenRefused, disk, memory, history, InMemory, Loaded, Known
  <1>21. ASSUME OpenEnds PROVE InMemory'
    <2>1. phase = "opening" /\ phase' = "open" /\ op.todo = {} /\ op.label = NoLabel /\ Known' = Known
      BY <1>21, <1>t DEF OpenEnds, Staged, Known
    <2>2. Loaded' = Loaded
      BY <1>t, <2>1, Parameters DEF Loaded, Known
    <2>. QED
      BY <1>21, <1>t, <2>2 DEF OpenEnds, InMemory
  <1>22. ASSUME Crash PROVE InMemory'
    BY <1>22, <1>t, <1>v DEF Crash, disk, InMemory, Loaded, Known
  <1>. QED
    BY <1>1, <1>2, <1>3, <1>4, <1>5, <1>6, <1>7, <1>8, <1>9, <1>10, <1>11, <1>12, <1>13, <1>14, <1>15,
       <1>16, <1>17, <1>18, <1>19, <1>20, <1>21, <1>22, StepCases

LEMMA SlotRevalued ==
  ASSUME slots \in Seq(Slots), NEW x, position[x] \in DOMAIN slots, NEW v \in Vals,
         slots' = [slots EXCEPT ![position[x]].val = v]
  PROVE  /\ slots' \in Seq(Slots) /\ slots'[position[x]].val = v
         /\ \A y \in Ids : Rows(slots', y) = Rows(slots, y)
         /\ \A q \in DOMAIN slots : q # position[x] => slots'[q] = slots[q]
  <1>1. PICK sl, p : sl = slots /\ p = position[x]
    OBVIOUS
  <1>2. sl \in Seq(Slots) /\ p \in DOMAIN sl
    BY <1>1
  <1>. DEFINE t == [sl EXCEPT ![p].val = v]
  <1>a. t \in Seq(Slots)
    BY <1>2, SlotChanged
  <1>b. \A y \in Ids : Rows(t, y) = Rows(sl, y)
    <2>1. DOMAIN t = DOMAIN sl /\ \A q \in DOMAIN sl : t[q].id = sl[q].id /\ t[q].live = sl[q].live
      <3>1. PICK w : w = [sl[p] EXCEPT !.val = v]
        OBVIOUS
      <3>2. w.id = sl[p].id /\ w.live = sl[p].live
        BY <1>2, <3>1 DEF Slots
      <3>3. t[p] = w /\ DOMAIN t = DOMAIN sl /\ \A q \in DOMAIN sl : q # p => t[q] = sl[q]
        BY <1>2, <3>1
      <3>. QED
        BY <3>2, <3>3
    <2>. HIDE DEF t
    <2>. QED
      BY <2>1 DEF Rows
  <1>c. t[p].val = v
    BY <1>2, SlotChanged
  <1>d. \A q \in DOMAIN sl : q # p => t[q] = sl[q]
    BY <1>2
  <1>4. /\ t \in Seq(Slots) /\ \A y \in Ids : Rows(t, y) = Rows(sl, y)
        /\ t[p].val = v /\ \A q \in DOMAIN sl : q # p => t[q] = sl[q]
    BY <1>a, <1>b, <1>c, <1>d
  <1>5. slots' = t
    BY <1>1
  <1>. QED
    BY <1>1, <1>4, <1>5, Zenon

LEMMA SlotRetired ==
  ASSUME slots \in Seq(Slots), NEW x, position[x] \in DOMAIN slots,
         slots' = [slots EXCEPT ![position[x]].live = FALSE]
  PROVE  /\ slots' \in Seq(Slots)
         /\ \A y \in Ids : Rows(slots', y) = Rows(slots, y) \ {position[x]}
         /\ \A q \in DOMAIN slots : q # position[x] => slots'[q] = slots[q]
  <1>1. PICK sl, p : sl = slots /\ p = position[x]
    OBVIOUS
  <1>2. sl \in Seq(Slots) /\ p \in DOMAIN sl /\ 0 \in Vals
    BY <1>1 DEF Vals
  <1>3. PICK t : t = [sl EXCEPT ![p].live = FALSE]
    OBVIOUS
  <1>4. /\ t \in Seq(Slots) /\ \A y \in Ids : Rows(t, y) = Rows(sl, y) \ {p}
        /\ \A q \in DOMAIN sl : q # p => t[q] = sl[q]
    BY <1>2, <1>3, SlotChanged
  <1>5. slots' = t
    BY <1>1, <1>3
  <1>. QED
    BY <1>1, <1>4, <1>5, Zenon

LEMMA SlotsStep ==
  ASSUME Core, Next
  PROVE  SlotsOk'
  <1>t. /\ op \in Ops /\ Staged /\ WriteHolds /\ SlotsOk /\ stack' = stack
        /\ base \in [Ids -> Records \cup {Absent}] /\ position \in [Ids -> Nat]
    <2>1. stack' = stack
      <3>1. \A x, r, v : Insert(x, r) \/ Replace(x, r) \/ Delete(x) \/ Update(x, v) => stack' = stack
        BY ONLY TRUE DEF Insert, Replace, Delete, Write, Update
      <3>2. SlotStep \/ SlotFails \/ Finish \/ (\E l \in Labels : DropEdges(l) \/ DropFails(l)) => stack' = stack
        BY ONLY TRUE DEF SlotStep, SlotFails, StopHere, Finish, DropEdges, DropFails
      <3>3. \A l, x, y : Link(l, x, y) \/ LinkNewLabel(l, x, y) \/ Detach(l, x) => stack' = stack
        BY ONLY TRUE DEF Link, AppendEdge, LinkNewLabel, Detach
      <3>6. LinkManifest \/ LinkAppend \/ LinkFails => stack' = stack
        BY ONLY TRUE DEF LinkAppend, AppendEdge, LinkManifest, LinkFails
      <3>4. Compact \/ CompactEnds \/ ClearLog \/ (\E l : WriteBlob(l) \/ CreateLabel(l)) => stack' = stack
        BY ONLY TRUE DEF Compact, CompactEnds, ClearLog, WriteBlob, CreateLabel
      <3>5. Create \/ CreateEnds \/ Open \/ OpenRefused \/ OpenEnds \/ Crash => stack' = stack
        BY ONLY TRUE DEF Create, CreateEnds, Open, OpenRefused, OpenEnds, Crash
      <3>. QED
        BY ONLY Next, <3>1, <3>2, <3>3, <3>4, <3>5, <3>6 DEF Next
    <2>. QED
      BY <2>1 DEF Core, Typed
  <1>n. NoOp.kind = "none" /\ NoOp.step = ""
    BY NoOpFacts
  <1>. DEFINE Frame == /\ slots' = slots /\ position' = position /\ base' = base
                       /\ \/ phase' = phase
                          \/ /\ phase \notin {"open", "opening"}
                             /\ phase' \notin {"open", "opening"}
                       /\ ~failed' => ~failed
                       /\ op.step # "slot" /\ op'.step # "slot" /\ op'.kind \notin {"insert", "replace"}
  <1>f. ASSUME Frame PROVE SlotsOk'
    <2>1. \A x \in Ids : position[x] # 0 => base[x] # Absent
      BY <1>t, <1>f DEF SlotsOk
    <2>2. Has("mmap_scanned") /\ phase = "open" /\ ~failed => \A x \in Ids : base[x] # Absent => position[x] # 0
      BY <1>t, <1>f DEF SlotsOk
    <2>. QED
      BY <1>t, <1>f, <2>1, <2>2 DEF SlotsOk, Has
  <1>. HIDE DEF Frame
  <1>1. ASSUME NEW kind, NEW x, NEW r, NEW todo, Starts(kind, x, r, todo) PROVE SlotsOk'
    <2>0. phase = "open" /\ phase' = "open" /\ op.kind = "none" /\ op.step = ""
      BY <1>1 DEF Starts
    <2>1. x \in Ids /\ base'[x] = r /\ \A y \in Ids : y # x => base'[y] = base[y]
      BY <1>1, <1>t DEF Starts
    <2>2. \A y \in Ids : position[y] # 0 => base[y] # Absent
      BY <1>t, <2>0 DEF SlotsOk
    <2>3. Has("mmap_scanned") /\ ~failed => \A y \in Ids : base[y] # Absent => position[y] # 0
      BY <1>t, <2>0 DEF SlotsOk
    <2>. QED
      BY <1>1, <1>t, <2>0, <2>1, <2>2, <2>3 DEF Starts, SlotsOk, Has
  <1>2. ASSUME NEW x, NEW v, Updates(x, v) PROVE SlotsOk'
    <2>0. /\ phase = "open" /\ phase' = "open" /\ op.kind = "none" /\ op.step = "" /\ op' = op /\ failed' = failed
          /\ x \in Ids /\ v \in Vals /\ base[x] # Absent /\ position' = position
      BY <1>2 DEF Updates, Update, Idle
    <2>1. \A y \in Ids : base'[y] = Absent <=> base[y] = Absent
      <3>1. [base[x] EXCEPT !.val = v] \in Records /\ base[x] \in Records
        BY <1>t, <2>0 DEF Records
      <3>2. base' = base \/ base' = [base EXCEPT ![x].val = v]
        BY <1>2 DEF Updates, Update
      <3>3. \A y \in Ids : base'[y] = base[y] \/ (y = x /\ base'[y] = [base[x] EXCEPT !.val = v])
        BY <1>t, <3>2
      <3>. QED
        BY <2>0, <3>1, <3>3, RecordFacts
    <2>2. slots' = NoFile <=> slots = NoFile
      <3>1. CASE Has("mmap_scanned")
        <4>1. position[x] # 0 /\ slots' = [slots EXCEPT ![position[x]].val = v]
          BY <1>2, <3>1 DEF Updates, Update
        <4>2. PICK sl, p : sl \in Seq(Slots) /\ p \in DOMAIN sl /\ sl = slots /\ p = position[x]
          BY <2>0, <4>1, GetFacts
        <4>3. slots' \in Seq(Slots)
          BY <2>0, <4>1, <4>2, SlotChanged
        <4>. QED
          BY <4>2, <4>3, ValueAssumption
      <3>2. CASE ~Has("mmap_scanned")
        BY <1>2, <3>2 DEF Updates, Update
      <3>. QED
        BY <3>1, <3>2
    <2>3. \A y \in Ids : \A p : LastRow(slots, y, p) => LastRow(slots', y, p)
      <3>1. CASE Has("mmap_scanned")
        <4>1. position[x] # 0 /\ slots' = [slots EXCEPT ![position[x]].val = v]
          BY <1>2, <3>1 DEF Updates, Update
        <4>a. slots \in Seq(Slots) /\ position[x] \in DOMAIN slots
          BY <2>0, <4>1, GetFacts
        <4>2. \A y \in Ids : Rows(slots', y) = Rows(slots, y)
          BY <2>0, <4>1, <4>a, SlotRevalued
        <4>. QED
          BY <4>2 DEF LastRow
      <3>2. CASE ~Has("mmap_scanned")
        BY <1>2, <3>2 DEF Updates, Update
      <3>. QED
        BY <3>1, <3>2
    <2>. QED
      BY <1>t, <2>0, <2>1, <2>2, <2>3 DEF SlotsOk, Has
  <1>3. ASSUME SlotStep PROVE SlotsOk'
    <2>0. /\ phase = "open" /\ phase' = "open" /\ op.kind \in Writes /\ Has("mmap_scanned") /\ op.step = "slot"
          /\ op'.kind = op.kind /\ op'.step = "outside" /\ op'.id = op.id /\ op'.new = op.new
          /\ op.id \in Ids /\ failed' = failed /\ base' = base /\ op.new = base[op.id]
          /\ (op.kind = "delete" <=> op.new = Absent)
      BY <1>3, <1>t DEF SlotStep, Staged, WriteHolds, Ops, history
    <2>1. slots \in Seq(Slots)
      BY <2>0 DEF Core, Typed, SlotsOk
    <2>2. PICK x \in Ids : x = op.id
      BY <2>0
    <2>3. \A y \in Ids : y # x => (position[y] # 0 <=> base[y] # Absent) \/ (position[y] = 0 /\ failed)
      BY <1>t, <2>0, <2>2 DEF SlotsOk
    <2>4. \A y \in Ids : position[y] # 0 => LastRow(slots, y, position[y]) /\ position[y] \in DOMAIN slots
      BY <1>t, GetFacts DEF SlotsOk
    <2>5. /\ slots' \in Seq(Slots)
          /\ \A y \in Ids : y # x => position'[y] = position[y]
                                     /\ (position[y] # 0 => LastRow(slots', y, position[y]))
          /\ op.kind = "delete" => position'[x] = 0
          /\ op.kind # "delete" => position'[x] # 0 /\ LastRow(slots', x, position'[x])
                                   /\ slots'[position'[x]].val = op.new.val
      <3>1. CASE op.kind = "insert"
        <4>1. PICK v, n : v \in Vals /\ v = op.new.val /\ n = Len(slots) + 1
          BY <1>t, <2>0, <2>2, <3>1, RecordFacts
        <4>2. slots' = Append(slots, Slot(x, v)) /\ position' = [position EXCEPT ![x] = n]
          BY <1>3, <2>2, <3>1, <4>1 DEF SlotStep
        <4>3. /\ slots' \in Seq(Slots) /\ LastRow(slots', x, n) /\ n # 0 /\ slots'[n] = Slot(x, v)
              /\ \A y \in Ids : y # x => Rows(slots', y) = Rows(slots, y)
          BY <2>1, <4>1, <4>2, SlotFacts
        <4>4. Slot(x, v).val = v
          BY DEF Slot
        <4>. QED
          BY <1>t, <2>4, <3>1, <4>1, <4>2, <4>3, <4>4 DEF LastRow
      <3>2. CASE op.kind = "replace"
        <4>1. PICK v \in Vals : v = op.new.val
          BY <1>t, <2>0, <2>2, <3>2, RecordFacts
        <4>2. position[x] # 0 /\ slots' = [slots EXCEPT ![position[x]].val = v] /\ position' = position
          BY <1>3, <2>2, <3>2, <4>1 DEF SlotStep
        <4>a. slots \in Seq(Slots) /\ position[x] \in DOMAIN slots
          BY <2>1, <2>4, <4>2
        <4>3. slots' \in Seq(Slots) /\ slots'[position[x]].val = v /\ \A y \in Ids : Rows(slots', y) = Rows(slots, y)
          BY <4>1, <4>2, <4>a, SlotRevalued
        <4>. QED
          BY <1>t, <2>4, <3>2, <4>1, <4>2, <4>3 DEF LastRow
      <3>3. CASE op.kind = "delete"
        <4>1. /\ slots' = IF position[x] = 0 THEN slots ELSE [slots EXCEPT ![position[x]].live = FALSE]
              /\ position' = [position EXCEPT ![x] = 0]
          BY <1>3, <2>2, <3>3 DEF SlotStep
        <4>2. 0 \in Vals
          BY DEF Vals
        <4>3. /\ slots' \in Seq(Slots)
              /\ \/ \A y \in Ids : Rows(slots', y) = Rows(slots, y)
                 \/ position[x] # 0 /\ \A y \in Ids : Rows(slots', y) = Rows(slots, y) \ {position[x]}
          <5>1. CASE position[x] = 0
            BY <2>1, <4>1, <5>1
          <5>2. CASE position[x] # 0
            <6>1. position[x] \in DOMAIN slots /\ slots' = [slots EXCEPT ![position[x]].live = FALSE]
              BY <2>1, <2>4, <4>1, <5>2
            <6>. QED
              BY <2>1, <5>2, <6>1, SlotRetired
          <5>. QED
            BY <5>1, <5>2
        <4>4. \A y \in Ids : y # x /\ position[x] # 0 => position[x] \notin Rows(slots, y)
          BY <2>4 DEF LastRow, Rows
        <4>. QED
          BY <1>t, <2>4, <3>3, <4>1, <4>3, <4>4 DEF LastRow
      <3>. QED
        BY <2>0, <3>1, <3>2, <3>3 DEF Writes
    <2>6. slots' # NoFile
      BY <2>5, ValueAssumption
    <2>. QED
      BY <1>t, <2>0, <2>2, <2>3, <2>5, <2>6 DEF SlotsOk, Has
  <1>4. ASSUME SlotFails PROVE SlotsOk'
    <2>1. op.step = "slot" /\ op.kind # "delete" /\ op.kind \in Writes /\ phase = "open"
      BY <1>4, <1>t DEF SlotFails, Staged, Writes
    <2>. QED
      BY <1>4, <1>t, <1>n, <2>1 DEF SlotFails, StopHere, memory, SlotsOk, Has
  <1>5. ASSUME Finish PROVE SlotsOk'
    <2>1. op'.kind = "none" /\ op'.step = "" /\ op.step = "outside"
      BY <1>5, <1>n DEF Finish
    <2>. QED
      BY <1>5, <1>f, <2>1 DEF Finish, disk, Frame
  <1>6. ASSUME NEW l \in Labels, DropEdges(l) PROVE SlotsOk'
    <2>1. op'.kind = "delete" /\ op'.step = "outside" /\ op.step = "outside"
      BY <1>6, <1>t DEF DropEdges, Ops
    <2>. QED
      BY <1>6, <1>f, <2>1 DEF DropEdges, Frame
  <1>7. ASSUME NEW l \in Labels, DropFails(l) PROVE SlotsOk'
    <2>1. op'.kind = "none" /\ op'.step = "" /\ op.step = "outside" /\ op.kind = "delete"
      BY <1>7, <1>n DEF DropFails, StopHere
    <2>. QED
      BY <1>7, <1>t, <2>1 DEF DropFails, StopHere, memory, SlotsOk, Has
  <1>8. ASSUME NEW l, NEW e, Appends(l, e) PROVE SlotsOk'
    <2>1. op'.kind = "none" /\ op'.step = "" /\ op.step \in {"", "append"} /\ op.kind \in {"none", "link"}
      BY <1>8, <1>n DEF Appends, AppendEdge
    <2>a. slots' = slots /\ position' = position /\ base' = base /\ phase' = phase
      BY <1>8 DEF Appends, AppendEdge
    <2>b. failed' = failed \/ ~failed
      BY <1>8 DEF Appends, AppendEdge
    <2>2. ~failed' => ~failed
      BY <2>b
    <2>. QED
      BY <1>f, <2>1, <2>a, <2>2 DEF Frame
  <1>9. ASSUME NEW l, NEW e, NewLabel(l, e) PROVE SlotsOk'
    BY <1>9, <1>f DEF NewLabel, memory, history, Frame
  <1>10. ASSUME LinkManifest PROVE SlotsOk'
    <2>1. op'.kind = "link" /\ op'.step = "append"
      BY <1>10, <1>t DEF LinkManifest, Ops, Staged
    <2>. QED
      BY <1>10, <1>f, <2>1 DEF LinkManifest, history, Frame
  <1>11. ASSUME Ends PROVE SlotsOk'
    BY <1>11, <1>f, <1>n, <1>t DEF Ends, disk, memory, history, Frame, Staged
  <1>12. ASSUME NEW l, NEW x, Detaches(l, x) PROVE SlotsOk'
    <2>1. /\ slots' = slots /\ position' = position /\ base' = base /\ phase' = phase /\ op' = op
          /\ op.kind = "none" /\ op.step = ""
      BY <1>12 DEF Detaches, Detach
    <2>b. failed' = failed \/ ~failed
      BY <1>12 DEF Detaches, Detach
    <2>2. ~failed' => ~failed
      BY <2>b
    <2>. QED
      BY <1>f, <2>1, <2>2 DEF Frame
  <1>13. ASSUME Compacts PROVE SlotsOk'
    <2>0. /\ phase = "open" /\ phase' = "open" /\ op.kind = "none" /\ op.step = ""
          /\ op'.kind = "compact" /\ op'.step = "fold" /\ base' = base /\ failed' = failed
      BY <1>13 DEF Compacts, Compact, Idle, history
    <2>1. CASE Has("mmap_scanned")
      <3>1. /\ slots' \in Seq(Slots)
            /\ \A x \in Ids : /\ position[x] = 0 <=> position'[x] = 0
                              /\ position[x] # 0 => LastRow(slots', x, position'[x])
        BY <1>13, <2>1, CompactFacts DEF Compacts
      <3>2. slots' # NoFile
        BY <3>1, ValueAssumption
      <3>. QED
        BY <1>t, <2>0, <2>1, <3>1, <3>2 DEF SlotsOk, Has
    <2>2. CASE ~Has("mmap_scanned")
      <3>1. slots' = slots /\ position' = position
        BY <1>13, <2>2 DEF Compacts, Compact
      <3>. QED
        BY <1>f, <2>0, <3>1 DEF Frame
    <2>. QED
      BY <2>1, <2>2
  <1>14. ASSUME ClearLog PROVE SlotsOk'
    <2>1. op'.kind = op.kind /\ op'.step = "fold" /\ op.step = "fold" /\ op.kind \in {"compact", "open"}
      BY <1>14, <1>t DEF ClearLog, Ops, Staged
    <2>. QED
      BY <1>14, <1>f, <2>1 DEF ClearLog, history, Frame
  <1>15. ASSUME NEW l \in Labels, WriteBlob(l) PROVE SlotsOk'
    <2>1. op'.kind = op.kind /\ op'.step = "fold" /\ op.step = "fold" /\ op.kind \in {"compact", "open"}
      BY <1>15, <1>t DEF WriteBlob, Ops, Staged
    <2>. QED
      BY <1>15, <1>f, <2>1 DEF WriteBlob, memory, history, Frame
  <1>16. ASSUME NEW l \in Labels, CreateLabel(l) PROVE SlotsOk'
    <2>1. op'.kind = "create" /\ op'.step = "files" /\ op.step = "files"
      BY <1>16, <1>t DEF CreateLabel, Ops, Staged
    <2>. QED
      BY <1>16, <1>f, <2>1 DEF CreateLabel, memory, history, Frame
  <1>17. ASSUME Creates PROVE SlotsOk'
    <2>1. op.step # "slot" /\ phase = "down" /\ phase' = "creating" /\ op'.kind = "create" /\ op'.step = "files"
      BY <1>17, <1>t DEF Creates, Create, Staged, Writes
    <2>. QED
      BY <1>17, <1>f, <2>1 DEF Creates, Create, memory, history, Frame
  <1>18. ASSUME CreateEnds PROVE SlotsOk'
    <2>1. /\ phase = "creating" /\ phase' = "open" /\ op'.kind = "none" /\ op'.step = ""
          /\ base' = base /\ position' = position /\ slots' = IF Has("mmap_scanned") THEN <<>> ELSE slots
          /\ \A x \in Ids : base[x] = Absent /\ position[x] = 0
      BY <1>18, <1>t, <1>n DEF CreateEnds, Staged, Core, Blank, SlotsOk
    <2>2. <<>> # NoFile
      <3>1. <<>> \in Seq(Slots)
        OBVIOUS
      <3>. QED
        BY <3>1, ValueAssumption
    <2>. QED
      BY <1>t, <2>1, <2>2 DEF SlotsOk, Has
  <1>19. ASSUME Opens PROVE SlotsOk'
    <2>0. /\ phase' = "opening" /\ op'.kind = "open" /\ op'.step = "fold" /\ base' = base
          /\ phase \in {"down", "refused"}
      BY <1>19 DEF Opens, Open
    <2>1. CASE Has("mmap_scanned")
      <3>1. /\ slots' \in Seq(Slots)
            /\ \A x \in Ids : /\ base[x] = Absent => position'[x] = 0
                              /\ base[x] # Absent => position'[x] # 0 /\ LastRow(slots', x, position'[x])
        BY <1>19, <2>1, ReopenedFacts
      <3>2. slots' # NoFile
        BY <3>1, ValueAssumption
      <3>. QED
        BY <1>t, <2>0, <2>1, <3>1, <3>2 DEF SlotsOk, Has
    <2>2. CASE ~Has("mmap_scanned")
      <3>1. slots' = slots /\ position' = position
        BY <1>19, <2>2 DEF Opens, Open, SlotsReopened
      <3>. QED
        BY <1>t, <2>0, <2>2, <3>1 DEF SlotsOk, Has
    <2>. QED
      BY <2>1, <2>2
  <1>20. ASSUME OpenRefused PROVE SlotsOk'
    <2>1. op'.kind = op.kind /\ op'.step = op.step /\ op.kind \notin Writes /\ op.step # "slot"
      BY <1>20, <1>t DEF OpenRefused, Staged, Writes
    <2>. QED
      BY <1>20, <1>f, <2>1 DEF OpenRefused, disk, memory, history, Frame, Writes
  <1>21. ASSUME OpenEnds PROVE SlotsOk'
    <2>1. /\ phase = "opening" /\ phase' = "open" /\ op'.kind = "none" /\ op'.step = "" /\ op.kind = "open"
          /\ base' = base /\ position' = position /\ slots' = slots
      BY <1>21, <1>t, <1>n DEF OpenEnds, Staged
    <2>. QED
      BY <1>t, <2>1 DEF SlotsOk, Has
  <1>22. ASSUME Crash PROVE SlotsOk'
    <2>1. /\ phase' = "down" /\ op'.kind = "none" /\ op'.step = "" /\ slots' = slots
          /\ \A x \in Ids : position'[x] = 0
      BY <1>22, <1>n DEF Crash, disk
    <2>. QED
      BY <1>t, <2>1 DEF SlotsOk, Has
  <1>. QED
    BY <1>1, <1>2, <1>3, <1>4, <1>5, <1>6, <1>7, <1>8, <1>9, <1>10, <1>11, <1>12, <1>13, <1>14, <1>15,
       <1>16, <1>17, <1>18, <1>19, <1>20, <1>21, <1>22, StepCases

LEMMA InnerKept ==
  ASSUME Core, Next
  PROVE  InnerOk'
  <1>t. Staged /\ InnerOk /\ stack \in Stacks
    BY DEF Core, Typed
  <1>f. stack' = stack /\ base' = base /\ inner' = inner => InnerOk'
    BY <1>t DEF InnerOk, Has
  <1>1. ASSUME NEW kind, NEW x, NEW r, NEW todo, Starts(kind, x, r, todo) PROVE InnerOk'
    <2>1. /\ Has("indexed") => IndexedBy(inner'.buckets, base')
          /\ Has("scanned") => ColumnOf(base', inner'.scanned)
      BY <1>1, InnerStepFacts DEF Starts
    <2>. QED
      BY <1>1, <2>1 DEF Starts, InnerOk, Has
  <1>2. ASSUME NEW x, NEW v, Updates(x, v) PROVE InnerOk'
    <2>0. x \in Ids /\ v \in Vals /\ base[x] # Absent /\ stack' = stack
      BY <1>2 DEF Updates, Update
    <2>1. PICK g \in Records, b \in Records : g = Get(x) /\ b = base[x]
      BY <2>0, GetFacts
    <2>2. PICK new \in Records : new = [g EXCEPT !.val = v]
      BY <2>0, <2>1, RecordFacts
    <2>3. CASE Has("mmap_scanned")
      BY <1>2, <1>f, <2>0, <2>3 DEF Updates, Update
    <2>4. CASE ~Has("mmap_scanned") /\ Has("scanned")
      <3>1. inner' = [inner EXCEPT !.scanned = ScannedStep(inner.scanned, x, new)] /\ base' = base
        BY <1>2, <2>1, <2>2, <2>4 DEF Updates, Update
      <3>2. /\ inner.scanned \in Columns /\ ColumnOf(base, inner.scanned) /\ new \in Records \cup {Absent}
            /\ base \in [Ids -> Records \cup {Absent}] /\ inner \in Inners
        BY <1>t, <2>4 DEF Inners, InnerOk, Core, Typed
      <3>3. PICK d \in Columns : d = ScannedStep(inner.scanned, x, new) /\ ColumnOf([base EXCEPT ![x] = new], d)
        BY <2>0, <3>2, ScannedFacts
      <3>4. inner'.scanned = d /\ inner'.buckets = inner.buckets
        BY <3>1, <3>2, <3>3 DEF Inners
      <3>5. \A y \in Ids : [base EXCEPT ![x] = new][y] = Absent <=> base[y] = Absent
        BY <2>0, <2>2, <3>2, RecordFacts
      <3>6. ColumnOf(base, d)
        BY <3>3, <3>5 DEF ColumnOf
      <3>. QED
        BY <1>t, <2>0, <3>1, <3>4, <3>6 DEF InnerOk, Has
    <2>5. CASE ~Has("mmap_scanned") /\ ~Has("scanned")
      <3>1. inner' = inner /\ base' = [base EXCEPT ![x].val = v]
        BY <1>2, <2>5 DEF Updates, Update
      <3>2. base \in [Ids -> Records \cup {Absent}]
        BY DEF Core, Typed
      <3>a. [b EXCEPT !.val = v] \in Records /\ [b EXCEPT !.val = v].key = b.key
        BY <2>0, <2>1 DEF Records
      <3>3. PICK n \in Records : n = [b EXCEPT !.val = v] /\ n.key = b.key
        BY <3>a
      <3>4. \A y \in Ids : IF y = x THEN base'[y] = n ELSE base'[y] = base[y]
        BY <2>0, <2>1, <3>1, <3>2, <3>3
      <3>5. \A y \in Ids : IndexedKeys(base'[y]) = IndexedKeys(base[y])
        BY <2>0, <2>1, <3>3, <3>4, RecordFacts DEF IndexedKeys
      <3>6. Has("indexed") => IndexedBy(inner.buckets, base')
        <4>1. \A k \in Keys : {y \in Ids : k \in IndexedKeys(base'[y])} = {y \in Ids : k \in IndexedKeys(base[y])}
          BY <3>5
        <4>. QED
          BY <1>t, <4>1 DEF InnerOk, IndexedBy
      <3>. QED
        BY <1>t, <2>0, <2>5, <3>1, <3>6 DEF InnerOk, Has
    <2>. QED
      BY <2>3, <2>4, <2>5
  <1>3. ASSUME SlotStep PROVE InnerOk'
    BY <1>3, <1>f DEF SlotStep, history, InnerOk, Has
  <1>4. ASSUME SlotFails PROVE InnerOk'
    BY <1>4, <1>f DEF SlotFails, StopHere, memory, InnerOk, Has
  <1>5. ASSUME Finish PROVE InnerOk'
    BY <1>5, <1>f DEF Finish, disk, InnerOk, Has
  <1>6. ASSUME NEW l \in Labels, DropEdges(l) PROVE InnerOk'
    BY <1>6, <1>f DEF DropEdges, InnerOk, Has
  <1>7. ASSUME NEW l \in Labels, DropFails(l) PROVE InnerOk'
    BY <1>7, <1>f DEF DropFails, StopHere, memory, InnerOk, Has
  <1>8. ASSUME NEW l, NEW e, Appends(l, e) PROVE InnerOk'
    BY <1>8, <1>f DEF Appends, AppendEdge, InnerOk, Has
  <1>9. ASSUME NEW l, NEW e, NewLabel(l, e) PROVE InnerOk'
    BY <1>9, <1>f DEF NewLabel, memory, history, InnerOk, Has
  <1>10. ASSUME LinkManifest PROVE InnerOk'
    BY <1>10, <1>f DEF LinkManifest, history, InnerOk, Has
  <1>11. ASSUME Ends PROVE InnerOk'
    BY <1>11, <1>f DEF Ends, disk, memory, history, InnerOk, Has
  <1>12. ASSUME NEW l, NEW x, Detaches(l, x) PROVE InnerOk'
    BY <1>12, <1>f DEF Detaches, Detach, InnerOk, Has
  <1>13. ASSUME Compacts PROVE InnerOk'
    BY <1>13, <1>f DEF Compacts, Compact, history, InnerOk, Has
  <1>14. ASSUME ClearLog PROVE InnerOk'
    BY <1>14, <1>f DEF ClearLog, history, InnerOk, Has
  <1>15. ASSUME NEW l \in Labels, WriteBlob(l) PROVE InnerOk'
    BY <1>15, <1>f DEF WriteBlob, memory, history, InnerOk, Has
  <1>16. ASSUME NEW l \in Labels, CreateLabel(l) PROVE InnerOk'
    BY <1>16, <1>f DEF CreateLabel, memory, history, InnerOk, Has
  <1>17. ASSUME Creates PROVE InnerOk'
    BY <1>17, <1>f DEF Creates, Create, memory, history, InnerOk, Has
  <1>18. ASSUME CreateEnds PROVE InnerOk'
    BY <1>18, <1>f DEF CreateEnds, history, InnerOk, Has
  <1>19. ASSUME Opens PROVE InnerOk'
    BY <1>19, <1>f DEF Opens, Open, history, InnerOk, Has
  <1>20. ASSUME OpenRefused PROVE InnerOk'
    BY <1>20, <1>f DEF OpenRefused, disk, memory, history, InnerOk, Has
  <1>21. ASSUME OpenEnds PROVE InnerOk'
    BY <1>21, <1>f DEF OpenEnds, InnerOk, Has
  <1>22. ASSUME Crash PROVE InnerOk'
    <2>1. stack.files /\ stack' = stack
      BY <1>22 DEF Crash
    <2>. QED
      BY <1>t, <2>1, Parameters DEF InnerOk, Has
  <1>. QED
    BY <1>1, <1>2, <1>3, <1>4, <1>5, <1>6, <1>7, <1>8, <1>9, <1>10, <1>11, <1>12, <1>13, <1>14, <1>15,
       <1>16, <1>17, <1>18, <1>19, <1>20, <1>21, <1>22, StepCases

LEMMA CoreInit == Init => Core
  <1>. SUFFICES ASSUME Init PROVE Core
    OBVIOUS
  <1>1. /\ stack \in Stacks /\ base = [x \in Ids |-> Absent] /\ created = FALSE /\ slots = NoFile
        /\ blob = [l \in Labels |-> NoFile] /\ log = [l \in Labels |-> <<>>] /\ manifest = {}
        /\ inner = NoInner /\ position = [x \in Ids |-> 0]
        /\ edges = [l \in Labels |-> NoLabel] /\ outer = NoOuter
        /\ phase = "down" /\ op = NoOp
        /\ failed = FALSE /\ cut = {} /\ doubt = {} /\ allowed = [x \in Ids |-> {Absent}]
    BY DEF Init
  <1>2. op \in Ops /\ op.kind = "none" /\ op.step = "" /\ inner \in Inners /\ outer \in Outers
    BY <1>1, NoOpFacts, EmptyFacts
  <1>3. Len(<<>>) <= MaxLog
    BY Parameters
  <1>4. base \in Maps
    BY <1>1 DEF Maps, MaybeRecords
  <1>5. Typed
    <2>1. /\ base \in [Ids -> Records \cup {Absent}] /\ blob \in [Labels -> (SUBSET Edges) \cup {NoFile}]
          /\ edges \in [Labels -> (SUBSET Edges) \cup {NoLabel}] /\ position \in [Ids -> Nat]
          /\ allowed \in [Ids -> SUBSET (Records \cup {Absent})]
      BY <1>1
    <2>2. log \in [Labels -> Seq(Entries)] /\ \A l \in Labels : Len(log[l]) <= MaxLog
      BY <1>1, <1>3
    <2>. QED
      BY <1>1, <1>2, <2>1, <2>2 DEF Typed
  <1>6. Staged /\ WriteHolds /\ LinkHolds /\ FoldHolds /\ Blank
    BY <1>1, <1>2 DEF Staged, WriteHolds, LinkHolds, FoldHolds, Blank, Writes
  <1>7. FilesThere /\ InMemory
    BY <1>1 DEF FilesThere, InMemory, Loaded
  <1>8. SlotsOk
    BY <1>1, <1>2 DEF SlotsOk
  <1>9. InnerOk
    BY <1>1, <1>4, EmptyFacts DEF InnerOk
  <1>. QED
    BY <1>5, <1>6, <1>7, <1>8, <1>9 DEF Core

LEMMA CoreStep == Core /\ [Next]_vars => Core'
  <1>1. ASSUME Core, Next PROVE Core'
    BY <1>1, TypedStep, StagedStep, WriteStep, LinkStep, FoldStep, BlankStep, FilesStep, MemoryStep,
       SlotsStep, InnerKept DEF Core
  <1>2. ASSUME Core, UNCHANGED vars PROVE Core'
    <2>1. UNCHANGED <<stack, base, created, slots, blob, log, manifest, inner, position, edges, outer, phase, op,
                      failed, cut, doubt, allowed>>
      BY <1>2 DEF vars, disk, memory, history
    <2>a. Typed'
      BY <1>2, <2>1 DEF Core, Typed
    <2>b. Staged'
      BY <1>2, <2>1 DEF Core, Staged
    <2>c. WriteHolds'
      BY <1>2, <2>1 DEF Core, WriteHolds, Room, Has
    <2>d. LinkHolds'
      BY <1>2, <2>1 DEF Core, LinkHolds, Live
    <2>e. FoldHolds'
      BY <1>2, <2>1 DEF Core, FoldHolds, Known
    <2>2. Typed' /\ Staged' /\ WriteHolds' /\ LinkHolds' /\ FoldHolds' /\ Blank'
      BY <1>2, <2>1, <2>a, <2>b, <2>c, <2>d, <2>e DEF Core, Blank
    <2>3. FilesThere' /\ InMemory' /\ SlotsOk' /\ InnerOk'
      BY <1>2, <2>1 DEF Core, FilesThere, Known, InMemory, Loaded, SlotsOk, InnerOk, Has
    <2>. QED
      BY <2>2, <2>3 DEF Core
  <1>. QED
    BY <1>1, <1>2

\* What the operation under way, the files, the edges in memory, the slots and the inner
\* layers hold of each other, through every step of every operation, failure and crash.
THEOREM CoreHolds == Spec => []Core
  <1>. QED
    BY CoreInit, CoreStep, PTL DEF Spec

------------------------------------------------------------------------------
(* Edge logs                                                               *)

\* An entry appended decides for the edges it is about; what a log says of an edge it
\* says over any blob that agrees.
LEMMA MergeFacts ==
  ASSUME NEW E \in SUBSET Edges, NEW s \in Seq(Entries), NEW e \in Edges
  PROVE  /\ e \in Merge(E, <<>>) <=> e \in E
         /\ \A entry \in Entries :
              e \in Merge(E, Append(s, entry)) <=> IF About(e, entry) THEN entry.kind = "item" ELSE e \in Merge(E, s)
         /\ \A D \in SUBSET Edges :
              /\ (e \in D <=> e \in Merge(E, s)) => (e \in Merge(D, s) <=> e \in D)
              /\ e \in Merge(D, s) => e \in D \/ e \in Merge(E, s)
  <1>. DEFINE of(t) == {i \in DOMAIN t : About(e, t[i])}
              last(T) == CHOOSE i \in T : \A j \in T : j <= i
  <1>1. ASSUME NEW D \in SUBSET Edges, NEW t
        PROVE  e \in Merge(D, t) <=> IF of(t) = {} THEN e \in D ELSE t[last(of(t))].kind = "item"
    BY DEF Merge
  <1>2. of(<<>>) = {}
    OBVIOUS
  <1>3. ASSUME NEW entry \in Entries
        PROVE  e \in Merge(E, Append(s, entry)) <=> IF About(e, entry) THEN entry.kind = "item" ELSE e \in Merge(E, s)
    <2>. DEFINE t == Append(s, entry)
                n == Len(s)
    <2>1. /\ n \in Nat /\ DOMAIN s = 1 .. n /\ DOMAIN t = 1 .. n + 1 /\ t[n + 1] = entry
          /\ \A i \in 1 .. n : t[i] = s[i] /\ i \in 1 .. n + 1 /\ i # n + 1
          /\ \A i \in 1 .. n + 1 : i = n + 1 \/ i \in 1 .. n
      OBVIOUS
    <2>. HIDE DEF t, n
    <2>2. CASE About(e, entry)
      <3>1. n + 1 \in of(t) /\ \A j \in of(t) : j <= n + 1
        BY <2>1, <2>2
      <3>2. last(of(t)) = n + 1
        <4>1. last(of(t)) \in of(t) /\ \A j \in of(t) : j <= last(of(t))
          BY <3>1
        <4>2. n + 1 <= last(of(t)) /\ last(of(t)) <= n + 1 /\ last(of(t)) \in Nat
          BY <2>1, <3>1, <4>1
        <4>. HIDE DEF last
        <4>. QED
          BY <2>1, <4>2
      <3>. HIDE DEF last, of
      <3>3. of(t) # {}
        BY <3>1
      <3>. QED
        BY <1>1, <2>1, <2>2, <3>2, <3>3 DEF t
    <2>3. CASE ~About(e, entry)
      <3>1. of(t) = of(s)
        BY <2>1, <2>3
      <3>2. of(s) # {} => t[last(of(s))] = s[last(of(s))]
        <4>. SUFFICES ASSUME of(s) # {} PROVE t[last(of(s))] = s[last(of(s))]
          OBVIOUS
        <4>1. of(s) \in SUBSET (0 .. n)
          BY <2>1
        <4>2. PICK m \in of(s) : \A j \in of(s) : j <= m
          BY <2>1, <4>1, GreatestOf
        <4>3. last(of(s)) \in of(s)
          BY <4>2
        <4>. QED
          BY <2>1, <4>3
      <3>. HIDE DEF last, of
      <3>. QED
        BY <1>1, <2>3, <3>1, <3>2 DEF t
    <2>. QED
      BY <2>2, <2>3
  <1>4. ASSUME NEW D \in SUBSET Edges
        PROVE  /\ (e \in D <=> e \in Merge(E, s)) => (e \in Merge(D, s) <=> e \in D)
               /\ e \in Merge(D, s) => e \in D \/ e \in Merge(E, s)
    <2>. HIDE DEF of, last
    <2>. QED
      BY <1>1
  <1>5. e \in Merge(E, <<>>) <=> e \in E
    <2>. HIDE DEF of, last
    <2>. QED
      BY <1>1, <1>2
  <1>. QED
    BY <1>3, <1>4, <1>5

LEMMA MergeSets ==
  ASSUME NEW E \in SUBSET Edges, NEW s \in Seq(Entries)
  PROVE  /\ Merge(E, <<>>) = E /\ Merge(Merge(E, s), s) = Merge(E, s)
         /\ \A e \in Edges : Merge(E, Append(s, Item(e))) = Merge(E, s) \cup {e}
         /\ \A x \in Ids \cup FarIds : Merge(E, Append(s, Tombstone(x))) = Merge(E, s) \ Touching(x, Edges)
  <1>1. /\ Merge(E, s) \in SUBSET Edges /\ Merge(E, <<>>) \in SUBSET Edges
        /\ \A t : Merge(E, t) \in SUBSET Edges /\ Merge(Merge(E, s), t) \in SUBSET Edges
    BY DEF Merge
  <1>2. Merge(E, <<>>) = E
    <2>1. \A g \in Edges : g \in Merge(E, <<>>) <=> g \in E
      BY ONLY E \in SUBSET Edges, s \in Seq(Entries), MergeFacts
    <2>. QED
      BY <1>1, <2>1
  <1>a. ASSUME NEW g \in Edges, NEW entry \in Entries
        PROVE  g \in Merge(E, Append(s, entry)) <=> IF About(g, entry) THEN entry.kind = "item" ELSE g \in Merge(E, s)
    BY ONLY E \in SUBSET Edges, s \in Seq(Entries), g \in Edges, entry \in Entries, MergeFacts
  <1>3. Merge(Merge(E, s), s) = Merge(E, s)
    <2>1. PICK M \in SUBSET Edges : M = Merge(E, s)
      BY <1>1
    <2>2. \A e \in Edges : e \in Merge(M, s) <=> e \in M
      BY <2>1, MergeFacts
    <2>3. Merge(M, s) \in SUBSET Edges
      BY <1>1, <2>1
    <2>. QED
      BY <2>1, <2>2, <2>3
  <1>4. ASSUME NEW e \in Edges PROVE Merge(E, Append(s, Item(e))) = Merge(E, s) \cup {e}
    <2>1. Item(e) \in Entries /\ Item(e).kind = "item" /\ \A g : About(g, Item(e)) <=> g = e
      BY EntryFacts DEF Item, About
    <2>2. \A g \in Edges : g \in Merge(E, Append(s, Item(e))) <=> g = e \/ g \in Merge(E, s)
      BY <2>1, <1>a
    <2>. QED
      BY <1>1, <2>2
  <1>5. ASSUME NEW x \in Ids \cup FarIds
        PROVE  Merge(E, Append(s, Tombstone(x))) = Merge(E, s) \ Touching(x, Edges)
    <2>1. Tombstone(x) \in Entries /\ Tombstone(x).kind # "item" /\ \A g : About(g, Tombstone(x)) <=> x \in g
      BY EntryFacts DEF Tombstone, About
    <2>2. \A g \in Edges : g \in Merge(E, Append(s, Tombstone(x))) <=> x \notin g /\ g \in Merge(E, s)
      BY <2>1, <1>a
    <2>. QED
      BY <1>1, <2>2 DEF Touching
  <1>. QED
    BY <1>2, <1>3, <1>4, <1>5

\* What is durable under the labels in use.
LEMMA DurableFacts ==
  ASSUME Core, NEW l \in Labels
  PROVE  /\ Durable(l) \in SUBSET Edges /\ log[l] \in Seq(Entries)
         /\ l \notin Known => Durable(l) = {}
         /\ edges[l] # NoLabel => /\ l \in Known /\ blob[l] \in SUBSET Edges /\ edges[l] \in SUBSET Edges
                                  /\ Durable(l) = Merge(blob[l], log[l])
         /\ blob[l] \in SUBSET Edges => Durable(l) = Merge(blob[l], log[l])
  <1>1. /\ blob[l] \in (SUBSET Edges) \cup {NoFile} /\ log[l] \in Seq(Entries)
        /\ edges[l] \in (SUBSET Edges) \cup {NoLabel}
    BY DEF Core, Typed
  <1>2. blob[l] \in SUBSET Edges => Durable(l) = Merge(blob[l], log[l])
    BY ValueAssumption DEF Durable
  <1>3. ASSUME l \notin Known PROVE Durable(l) = {}
    <2>1. log[l] = <<>> /\ blob[l] \in {NoFile, {}}
      BY <1>3 DEF Core, FilesThere
    <2>2. Merge({}, <<>>) = {}
      <3>1. {} \in SUBSET Edges /\ <<>> \in Seq(Entries)
        OBVIOUS
      <3>. QED
        BY <3>1, MergeSets
    <2>. QED
      BY <2>1, <2>2 DEF Durable
  <1>4. ASSUME edges[l] # NoLabel PROVE l \in Known /\ blob[l] \in SUBSET Edges /\ edges[l] \in SUBSET Edges
    <2>1. l \in Loaded /\ phase \in {"open", "opening"}
      BY <1>4 DEF Core, InMemory, Loaded
    <2>2. l \in Known /\ blob[l] # NoFile
      BY <2>1 DEF Loaded, Core, FilesThere
    <2>. QED
      BY <1>1, <1>4, <2>2
  <1>. QED
    BY <1>1, <1>2, <1>3, <1>4, MergeEdges

\* What an entry appended to the log of a label in use does to what is durable.
LEMMA DurableLinked ==
  ASSUME Core, NEW l \in Labels, edges[l] # NoLabel, blob' = blob,
         NEW e \in Edges, log' = [log EXCEPT ![l] = Append(log[l], Item(e))]
  PROVE  \A k \in Labels : Durable(k)' = IF k = l THEN Durable(k) \cup {e} ELSE Durable(k)
  <1>1. /\ log'[l] = Append(log[l], Item(e))
        /\ \A k \in Labels : k # l => log'[k] = log[k]
    BY DEF Core, Typed
  <1>2. blob[l] \in SUBSET Edges /\ blob[l] # NoFile /\ Durable(l) = Merge(blob[l], log[l]) /\ log[l] \in Seq(Entries)
    BY DurableFacts, ValueAssumption
  <1>3. PICK B \in SUBSET Edges, s \in Seq(Entries) : B = blob[l] /\ s = log[l]
    BY <1>2
  <1>4. Merge(B, Append(s, Item(e))) = Merge(B, s) \cup {e}
    BY ONLY B \in SUBSET Edges, s \in Seq(Entries), e \in Edges, MergeSets
  <1>5. Durable(l)' = Merge(B, Append(s, Item(e)))
    BY <1>1, <1>2, <1>3 DEF Durable
  <1>6. \A k \in Labels : k # l => Durable(k)' = Durable(k)
    BY <1>1 DEF Durable
  <1>. QED
    BY <1>2, <1>3, <1>4, <1>5, <1>6

LEMMA DurableDropped ==
  ASSUME Core, NEW l \in Labels, edges[l] # NoLabel, blob' = blob,
         NEW x \in Ids \cup FarIds, log' = [log EXCEPT ![l] = Append(log[l], Tombstone(x))]
  PROVE  \A k \in Labels : Durable(k)' = IF k = l THEN Durable(k) \ Touching(x, Edges) ELSE Durable(k)
  <1>1. /\ log'[l] = Append(log[l], Tombstone(x))
        /\ \A k \in Labels : k # l => log'[k] = log[k]
    BY DEF Core, Typed
  <1>2. blob[l] \in SUBSET Edges /\ blob[l] # NoFile /\ Durable(l) = Merge(blob[l], log[l]) /\ log[l] \in Seq(Entries)
    BY DurableFacts, ValueAssumption
  <1>3. PICK B \in SUBSET Edges, s \in Seq(Entries) : B = blob[l] /\ s = log[l]
    BY <1>2
  <1>4. Merge(B, Append(s, Tombstone(x))) = Merge(B, s) \ Touching(x, Edges)
    <2>1. \A y \in Ids \cup FarIds : Merge(B, Append(s, Tombstone(y))) = Merge(B, s) \ Touching(y, Edges)
      BY MergeSets
    <2>. QED
      BY <2>1
  <1>5. Durable(l)' = Merge(B, Append(s, Tombstone(x)))
    BY <1>1, <1>2, <1>3 DEF Durable
  <1>6. \A k \in Labels : k # l => Durable(k)' = Durable(k)
    BY <1>1 DEF Durable
  <1>. QED
    BY <1>2, <1>3, <1>4, <1>5, <1>6

\* A fold writes a blob under its log, and then clears the log.
LEMMA DurableFolded ==
  ASSUME Core, NEW l \in Labels
  PROVE  /\ WriteBlob(l) => /\ \A k \in Labels : k # l => Durable(k)' = Durable(k)
                            /\ \A k \in Labels : k # l => blob'[k] = blob[k]
                            /\ op.kind = "open" => Durable(l)' = Durable(l) /\ blob'[l] = Durable(l)
                            /\ op.kind # "open" => blob'[l] = edges[l] /\ Durable(l)' = Merge(edges[l], log[l])
         /\ ClearLog /\ l = op.label => /\ \A k \in Labels : k # l => Durable(k)' = Durable(k)
                                        /\ Durable(l)' = blob[l] /\ blob[l] \in SUBSET Edges
  <1>1. ASSUME WriteBlob(l)
        PROVE  /\ \A k \in Labels : k # l => Durable(k)' = Durable(k) /\ blob'[k] = blob[k]
               /\ op.kind = "open" => Durable(l)' = Durable(l) /\ blob'[l] = Durable(l)
               /\ op.kind # "open" => blob'[l] = edges[l] /\ Durable(l)' = Merge(edges[l], log[l])
    <2>1. /\ log' = log /\ \A k \in Labels : k # l => blob'[k] = blob[k]
          /\ blob'[l] = IF op.kind = "open" THEN Durable(l) ELSE edges[l]
      BY <1>1 DEF WriteBlob, Core, Typed
    <2>2. \A k \in Labels : k # l => Durable(k)' = Durable(k)
      BY <2>1 DEF Durable
    <2>3. ASSUME op.kind = "open" PROVE Durable(l)' = Durable(l)
      <3>1. blob[l] # NoFile /\ blob[l] \in SUBSET Edges
        <4>1. phase = "opening" /\ l \in Known
          BY <1>1, <2>3 DEF WriteBlob, Core, Staged, FoldHolds
        <4>. QED
          BY <4>1 DEF Core, FilesThere, Typed
      <3>2. Durable(l) = Merge(blob[l], log[l]) /\ Durable(l) \in SUBSET Edges /\ log[l] \in Seq(Entries)
        BY <3>1, DurableFacts
      <3>3. Durable(l)' = Merge(Durable(l), log[l])
        BY <2>1, <2>3, <3>2, ValueAssumption DEF Durable
      <3>4. PICK B \in SUBSET Edges, s \in Seq(Entries) : B = blob[l] /\ s = log[l]
        BY <3>1, <3>2
      <3>5. Merge(Merge(B, s), s) = Merge(B, s)
        BY MergeSets
      <3>. QED
        BY <3>2, <3>3, <3>4, <3>5
    <2>4. ASSUME op.kind # "open" PROVE Durable(l)' = Merge(edges[l], log[l])
      <3>1. edges[l] # NoLabel
        BY <1>1, <2>4 DEF WriteBlob, Core, Staged, FoldHolds
      <3>2. edges[l] # NoFile
        BY <3>1, DurableFacts, ValueAssumption
      <3>. QED
        BY <2>1, <2>4, <3>2 DEF Durable
    <2>. QED
      BY <2>1, <2>2, <2>3, <2>4
  <1>2. ASSUME ClearLog, l = op.label
        PROVE  /\ \A k \in Labels : k # l => Durable(k)' = Durable(k)
               /\ Durable(l)' = blob[l] /\ blob[l] \in SUBSET Edges
    <2>1. blob[l] # NoFile
      BY <1>2 DEF ClearLog, Core, FoldHolds, Typed, Ops
    <2>3. blob' = blob /\ log'[l] = <<>> /\ \A k \in Labels : k # l => log'[k] = log[k]
      BY <1>2 DEF ClearLog, Core, Typed
    <2>4. blob[l] \in SUBSET Edges
      BY <2>1 DEF Core, Typed
    <2>5. Durable(l)' = blob[l]
      <3>1. <<>> \in Seq(Entries)
        OBVIOUS
      <3>2. Merge(blob[l], <<>>) = blob[l]
        BY <2>4, <3>1, MergeSets
      <3>. QED
        BY <2>1, <2>3, <3>2 DEF Durable
    <2>6. \A k \in Labels : k # l => Durable(k)' = Durable(k)
      BY <2>3 DEF Durable
    <2>. QED
      BY <2>4, <2>5, <2>6
  <1>. QED
    BY <1>1, <1>2

------------------------------------------------------------------------------
(* Memory, disk and the edges in doubt                                     *)

\* Memory has the edges an opening would find, save those in doubt.
Agreeing ==
  phase = "open" =>
    \A l \in Known : \A e \in Edges : <<l, e>> \notin doubt => (e \in edges[l] <=> e \in Durable(l))

Refolding ==
  /\ phase = "opening" =>
       /\ \A l \in Loaded : edges[l] = blob[l] /\ log[l] = <<>>
       /\ \A l \in Labels : l = op.label => Durable(l) = blob[l]
  /\ op.kind = "compact" => \A l \in Labels : l = op.label => blob[l] = edges[l]

\* A deletion has to do with the labels under which memory has edges of the id.
Dropping ==
  op.kind = "delete" =>
    /\ \A l \in op.todo : Touching(op.id, edges[l]) # {}
    /\ ~failed => \A l \in Known \ op.todo : Touching(op.id, edges[l]) = {}

EdgesOk == Agreeing /\ Refolding /\ Dropping /\ (~failed => doubt = {})

LEMMA EdgesStep ==
  ASSUME Core, EdgesOk, Next
  PROVE  EdgesOk'
  <1>t. /\ op \in Ops /\ Staged /\ edges \in [Labels -> (SUBSET Edges) \cup {NoLabel}]
        /\ Known \in SUBSET Labels /\ doubt \in SUBSET (Labels \X Edges)
    BY Parameters DEF Core, Typed, Known
  <1>n. NoOp.kind = "none" /\ NoOp.step = "" /\ NoOp.label = NoLabel /\ NoOp.todo = {} /\ NoLabel \notin Labels
    BY NoOpFacts, Parameters
  <1>m. phase = "open" => /\ \A l \in Labels : edges[l] # NoLabel <=> l \in Known
                          /\ \A l \in Known : edges[l] \in SUBSET Edges
    BY <1>t DEF Core, InMemory, Loaded
  <1>. DEFINE Stays == /\ stack' = stack /\ manifest' = manifest /\ edges' = edges /\ blob' = blob /\ log' = log
              Frame == /\ Stays /\ doubt' = doubt /\ (~failed' => ~failed)
                       /\ phase' = "open" => phase = "open"
                       /\ phase' # "opening"
                       /\ op'.kind # "delete" /\ (op'.kind = "compact" => op'.label = NoLabel)
  <1>s. ASSUME Stays PROVE Known' = Known /\ \A l \in Labels : Durable(l)' = Durable(l)
    BY <1>s DEF Known, Durable
  <1>f. ASSUME Frame PROVE EdgesOk'
    <2>1. Agreeing'
      BY <1>f, <1>s, <1>t DEF EdgesOk, Agreeing
    <2>2. Refolding' /\ Dropping'
      BY <1>f, <1>n DEF Refolding, Dropping
    <2>. QED
      BY <1>f, <2>1, <2>2 DEF EdgesOk
  <1>. HIDE DEF Frame, Stays
  <1>1. ASSUME NEW kind, NEW x, NEW r, NEW todo, Starts(kind, x, r, todo) PROVE EdgesOk'
    <2>0. /\ Stays /\ doubt' = doubt /\ failed' = failed /\ phase = "open" /\ phase' = "open"
          /\ op'.kind = kind /\ op'.id = x /\ op'.todo = todo /\ op'.kind \in Writes
          /\ todo = IF kind = "delete" THEN Linked(x) ELSE {}
          /\ edges' = edges
      BY <1>1 DEF Starts, Stays
    <2>1. Agreeing'
      BY <2>0, <1>s, <1>t DEF EdgesOk, Agreeing
    <2>2. Refolding'
      BY <2>0 DEF Refolding, Writes
    <2>3. Dropping'
      <3>1. ASSUME kind = "delete" PROVE /\ \A l \in todo : Touching(x, edges[l]) # {}
                                         /\ \A l \in Known \ todo : Touching(x, edges[l]) = {}
        BY <1>t, <1>m, <2>0, <3>1 DEF Linked
      <3>. QED
        BY <1>s, <2>0, <3>1 DEF Dropping
    <2>. QED
      BY <2>0, <2>1, <2>2, <2>3 DEF EdgesOk
  <1>2. ASSUME NEW x, NEW v, Updates(x, v) PROVE EdgesOk'
    <2>. QED
      BY <1>2, <1>f, <1>n DEF Updates, Update, Idle, Frame, Stays
  <1>3. ASSUME SlotStep PROVE EdgesOk'
    <2>0. /\ Stays /\ doubt' = doubt /\ failed' = failed /\ phase = "open" /\ phase' = "open"
          /\ op'.kind = op.kind /\ op'.id = op.id /\ op'.todo = op.todo /\ op.kind \in Writes
          /\ edges' = edges
      BY <1>3, <1>t DEF SlotStep, history, Stays, Staged, Ops
    <2>1. Agreeing'
      BY <2>0, <1>s, <1>t DEF EdgesOk, Agreeing
    <2>2. Refolding'
      BY <2>0 DEF Refolding, Writes
    <2>3. Dropping'
      BY <1>s, <2>0 DEF EdgesOk, Dropping
    <2>. QED
      BY <2>0, <2>1, <2>2, <2>3 DEF EdgesOk
  <1>4. ASSUME SlotFails PROVE EdgesOk'
    <2>1. phase = "open" /\ failed' = TRUE
      BY <1>4, <1>t DEF SlotFails, StopHere, Staged
    <2>. QED
      BY <1>4, <1>f, <1>n, <2>1 DEF SlotFails, StopHere, memory, Frame, Stays
  <1>5. ASSUME Finish PROVE EdgesOk'
    <2>1. phase = "open"
      BY <1>5, <1>t DEF Finish, Staged
    <2>. QED
      BY <1>5, <1>f, <1>n, <2>1 DEF Finish, disk, Frame, Stays
  <1>6. ASSUME NEW l \in Labels, DropEdges(l) PROVE EdgesOk'
    <2>0. /\ phase = "open" /\ phase' = "open" /\ op.kind = "delete" /\ op'.kind = "delete" /\ op'.id = op.id
          /\ op'.todo = op.todo \ {l} /\ l \in op.todo /\ op.id \in Ids /\ edges[l] # NoLabel
          /\ blob' = blob /\ Known' = Known /\ failed' = failed
          /\ doubt' = doubt \ ({l} \X Touching(op.id, Edges))
          /\ log' = [log EXCEPT ![l] = Append(log[l], Tombstone(op.id))]
          /\ edges' = [edges EXCEPT ![l] = edges[l] \ Touching(op.id, edges[l])]
      BY <1>6, <1>t DEF DropEdges, Core, Staged, WriteHolds, Ops, Writes, Known
    <2>1. PICK x \in Ids : x = op.id
      BY <2>0
    <2>2. \A k \in Labels : Durable(k)' = IF k = l THEN Durable(k) \ Touching(x, Edges) ELSE Durable(k)
      BY <2>0, <2>1, DurableDropped
    <2>3. \A k \in Labels : edges'[k] = IF k = l THEN edges[k] \ Touching(x, edges[k]) ELSE edges[k]
      BY <1>t, <2>0, <2>1
    <2>4. Agreeing'
      <3>1. ASSUME NEW k \in Known, NEW e \in Edges, <<k, e>> \notin doubt' PROVE e \in edges'[k] <=> e \in Durable(k)'
        <4>1. k = l /\ x \in e => e \notin edges'[k] /\ e \notin Durable(k)'
          BY <1>t, <2>2, <2>3 DEF Touching
        <4>2. ~(k = l /\ x \in e) => <<k, e>> \notin doubt
          BY <2>0, <2>1, <3>1 DEF Touching
        <4>3. ~(k = l /\ x \in e) => (e \in edges'[k] <=> e \in edges[k]) /\ (e \in Durable(k)' <=> e \in Durable(k))
          BY <1>t, <2>2, <2>3 DEF Touching
        <4>. QED
          BY <2>0, <4>1, <4>2, <4>3 DEF EdgesOk, Agreeing
      <3>. QED
        BY <2>0, <3>1 DEF Agreeing
    <2>5. Refolding'
      BY <2>0 DEF Refolding
    <2>6. Dropping'
      <3>1. \A k \in op.todo \ {l} : Touching(x, edges'[k]) # {}
        BY <1>t, <2>0, <2>1, <2>3 DEF EdgesOk, Dropping, Ops
      <3>2. ~failed => \A k \in Known \ (op.todo \ {l}) : Touching(x, edges'[k]) = {}
        <4>1. Touching(x, edges'[l]) = {}
          BY <2>3 DEF Touching
        <4>. QED
          BY <1>t, <2>0, <2>1, <2>3, <4>1 DEF EdgesOk, Dropping
      <3>. QED
        BY <2>0, <2>1, <3>1, <3>2 DEF Dropping
    <2>7. ~failed' => doubt' = {}
      BY <2>0 DEF EdgesOk
    <2>. QED
      BY <2>4, <2>5, <2>6, <2>7 DEF EdgesOk
  <1>7. ASSUME NEW l \in Labels, DropFails(l) PROVE EdgesOk'
    <2>0. /\ phase = "open" /\ phase' = "open" /\ op'.kind = "none" /\ op.kind = "delete"
          /\ l \in op.todo /\ op.id \in Ids /\ edges[l] # NoLabel
          /\ blob' = blob /\ Known' = Known /\ failed' = TRUE /\ edges' = edges
          /\ \/ log' = log /\ doubt' = doubt
             \/ /\ log' = [log EXCEPT ![l] = Append(log[l], Tombstone(op.id))]
                /\ doubt' = doubt \cup ({l} \X Touching(op.id, edges[l]))
      BY <1>7, <1>t, <1>n DEF DropFails, StopHere, memory, Core, Staged, WriteHolds, Ops, Writes, Known
    <2>1. PICK x \in Ids : x = op.id
      BY <2>0
    <2>2. Agreeing'
      <3>1. CASE log' = log /\ doubt' = doubt
        <4>1. \A k \in Labels : Durable(k)' = Durable(k)
          BY <2>0, <3>1 DEF Durable
        <4>. QED
          BY <1>t, <2>0, <3>1, <4>1 DEF EdgesOk, Agreeing
      <3>2. CASE /\ log' = [log EXCEPT ![l] = Append(log[l], Tombstone(op.id))]
                 /\ doubt' = doubt \cup ({l} \X Touching(op.id, edges[l]))
        <4>1. \A k \in Labels : Durable(k)' = IF k = l THEN Durable(k) \ Touching(x, Edges) ELSE Durable(k)
          BY <2>0, <2>1, <3>2, DurableDropped
        <4>2. ASSUME NEW k \in Known, NEW e \in Edges, <<k, e>> \notin doubt' PROVE e \in edges[k] <=> e \in Durable(k)'
          <5>1. <<k, e>> \notin doubt /\ (k = l /\ x \in e => e \notin edges[k])
            BY <2>1, <3>2, <4>2 DEF Touching
          <5>2. e \in edges[k] <=> e \in Durable(k)
            BY <2>0, <5>1 DEF EdgesOk, Agreeing
          <5>. QED
            BY <1>t, <4>1, <5>1, <5>2 DEF Touching
        <4>. QED
          BY <2>0, <4>2 DEF Agreeing
      <3>. QED
        BY <2>0, <3>1, <3>2
    <2>. QED
      BY <2>0, <2>2 DEF EdgesOk, Refolding, Dropping
  <1>8. ASSUME NEW l, NEW e, Appends(l, e) PROVE EdgesOk'
    <2>0. /\ phase = "open" /\ phase' = "open" /\ op'.kind = "none" /\ op'.label = NoLabel
          /\ l \in Labels /\ e \in Edges /\ edges[l] # NoLabel
          /\ blob' = blob /\ Known' = Known
          /\ log' = [log EXCEPT ![l] = Append(log[l], Item(e))]
          /\ \/ /\ edges' = [edges EXCEPT ![l] = edges[l] \cup {e}] /\ failed' = failed
                /\ doubt' = doubt \ {<<l, e>>}
             \/ edges' = edges /\ failed' = TRUE /\ doubt' = doubt \cup {<<l, e>>}
      BY <1>8, <1>n DEF Appends, AppendEdge, Known
    <2>1. \A k \in Labels : Durable(k)' = IF k = l THEN Durable(k) \cup {e} ELSE Durable(k)
      BY <2>0, DurableLinked
    <2>2. ASSUME NEW k \in Known, NEW g \in Edges, <<k, g>> \notin doubt' PROVE g \in edges'[k] <=> g \in Durable(k)'
      <3>1. k = l /\ g = e => g \in edges'[k] /\ g \in Durable(k)'
        BY <1>t, <2>0, <2>1, <2>2
      <3>2. ~(k = l /\ g = e) => /\ <<k, g>> \notin doubt
                                 /\ g \in edges'[k] <=> g \in edges[k]
                                 /\ g \in Durable(k)' <=> g \in Durable(k)
        BY <1>t, <2>0, <2>1, <2>2
      <3>. QED
        BY <2>0, <3>1, <3>2 DEF EdgesOk, Agreeing
    <2>3. Agreeing'
      BY <2>0, <2>2 DEF Agreeing
    <2>4. ~failed' => doubt' = {}
      <3>1. (failed' = failed /\ doubt' = doubt \ {<<l, e>>}) \/ failed' = TRUE
        BY <2>0
      <3>. QED
        BY <3>1 DEF EdgesOk
    <2>. QED
      BY <2>0, <2>3, <2>4 DEF EdgesOk, Refolding, Dropping
  <1>9. ASSUME NEW l, NEW e, NewLabel(l, e) PROVE EdgesOk'
    <2>0. /\ phase = "open" /\ phase' = "open" /\ op'.kind = "link" /\ l \in Labels /\ l \notin Known
          /\ blob' = [blob EXCEPT ![l] = {}] /\ log' = log /\ edges' = edges /\ doubt' = doubt
          /\ failed' = failed /\ Known' = Known
      BY <1>9, <1>m DEF NewLabel, memory, history, Known
    <2>1. \A k \in Known : blob'[k] = blob[k]
      BY <1>t, <2>0 DEF Core, Typed
    <2>2. \A k \in Known : Durable(k)' = Durable(k)
      BY <2>0, <2>1 DEF Durable
    <2>. QED
      BY <2>0, <2>2 DEF EdgesOk, Agreeing, Refolding, Dropping
  <1>10. ASSUME LinkManifest PROVE EdgesOk'
    <2>0. /\ phase = "open" /\ phase' = "open" /\ op'.kind = "link" /\ op.label \in Labels /\ op.label \notin Known
          /\ blob' = blob /\ log' = log /\ edges' = [edges EXCEPT ![op.label] = {}] /\ doubt' = doubt
          /\ failed' = failed /\ Known' = Known \cup {op.label}
      BY <1>10, <1>m, <1>t DEF LinkManifest, history, Known, Staged, Core, LinkHolds, Ops
    <2>1. \A k \in Labels : Durable(k)' = Durable(k)
      BY <2>0 DEF Durable
    <2>2. PICK m \in Labels : m = op.label
      BY <2>0
    <2>3. Durable(m) = {} /\ edges'[m] = {} /\ \A k \in Known : edges'[k] = edges[k]
      BY <1>t, <2>0, <2>2, DurableFacts
    <2>4. Agreeing'
      <3>1. ASSUME NEW k \in Known \cup {m}, NEW e \in Edges, <<k, e>> \notin doubt
            PROVE  e \in edges'[k] <=> e \in Durable(k)'
        BY <1>t, <2>0, <2>1, <2>3, <3>1 DEF EdgesOk, Agreeing
      <3>. QED
        BY <2>0, <2>2, <3>1 DEF Agreeing
    <2>. QED
      BY <2>0, <2>4 DEF EdgesOk, Refolding, Dropping
  <1>11. ASSUME Ends PROVE EdgesOk'
    <2>1. phase' = phase /\ phase = "open" /\ op'.kind = "none"
      BY <1>11, <1>n, <1>t DEF Ends, disk, memory, history, Staged, Writes
    <2>. QED
      BY <1>11, <1>f, <2>1 DEF Ends, disk, memory, history, Frame, Stays
  <1>12. ASSUME NEW l, NEW x, Detaches(l, x) PROVE EdgesOk'
    <2>0. /\ phase = "open" /\ phase' = "open" /\ op'.kind = "none"
          /\ l \in Labels /\ x \in Ids \cup FarIds /\ edges[l] # NoLabel
          /\ blob' = blob /\ Known' = Known
          /\ log' = [log EXCEPT ![l] = Append(log[l], Tombstone(x))]
          /\ \/ /\ edges' = [edges EXCEPT ![l] = edges[l] \ Touching(x, edges[l])] /\ failed' = failed
                /\ doubt' = doubt \ ({l} \X Touching(x, Edges))
             \/ edges' = edges /\ failed' = TRUE /\ doubt' = doubt \cup ({l} \X Touching(x, edges[l]))
      BY <1>12, <1>n DEF Detaches, Detach, Known, Idle
    <2>1. \A k \in Labels : Durable(k)' = IF k = l THEN Durable(k) \ Touching(x, Edges) ELSE Durable(k)
      BY <2>0, DurableDropped
    <2>2. ASSUME NEW k \in Known, NEW g \in Edges, <<k, g>> \notin doubt' PROVE g \in edges'[k] <=> g \in Durable(k)'
      <3>1. k = l /\ x \in g => g \notin edges'[k] /\ g \notin Durable(k)'
        BY <1>t, <2>0, <2>1, <2>2 DEF Touching
      <3>2. ~(k = l /\ x \in g) => /\ <<k, g>> \notin doubt
                                   /\ g \in edges'[k] <=> g \in edges[k]
                                   /\ g \in Durable(k)' <=> g \in Durable(k)
        BY <1>t, <2>0, <2>1, <2>2 DEF Touching
      <3>. QED
        BY <2>0, <3>1, <3>2 DEF EdgesOk, Agreeing
    <2>3. Agreeing'
      BY <2>0, <2>2 DEF Agreeing
    <2>4. ~failed' => doubt' = {}
      <3>1. (failed' = failed /\ doubt' = doubt \ ({l} \X Touching(x, Edges))) \/ failed' = TRUE
        BY <2>0
      <3>. QED
        BY <3>1 DEF EdgesOk
    <2>. QED
      BY <2>0, <2>3, <2>4 DEF EdgesOk, Refolding, Dropping
  <1>13. ASSUME Compacts PROVE EdgesOk'
    <2>1. phase' = phase /\ phase = "open"
      BY <1>13 DEF Compacts, Compact, Idle
    <2>. QED
      BY <1>13, <1>f, <2>1 DEF Compacts, Compact, history, Frame, Stays
  <1>14. ASSUME ClearLog PROVE EdgesOk'
    <2>0. /\ op.kind \in {"compact", "open"} /\ op'.kind = op.kind /\ op'.label = NoLabel /\ op'.todo = op.todo
          /\ phase' = phase /\ failed' = failed /\ doubt' = doubt /\ blob' = blob /\ Known' = Known
          /\ op.label \in Labels /\ op.step = "fold" /\ op.label \notin op.todo
      BY <1>14, <1>t, <1>n DEF ClearLog, history, Known, Staged, Ops, Core, FoldHolds
    <2>1. PICK m \in Labels : m = op.label
      BY <2>0
    <2>2. /\ \A k \in Labels : k # m => Durable(k)' = Durable(k) /\ edges'[k] = edges[k] /\ log'[k] = log[k]
          /\ Durable(m)' = blob[m] /\ edges'[m] = blob[m] /\ log'[m] = <<>>
      BY <1>14, <1>t, <2>1, DurableFolded DEF ClearLog, Core, Typed
    <2>3. Agreeing'
      <3>1. ASSUME phase = "open", NEW k \in Known, NEW e \in Edges, <<k, e>> \notin doubt
            PROVE  e \in edges'[k] <=> e \in Durable(k)'
        BY <1>t, <2>2, <3>1 DEF EdgesOk, Agreeing
      <3>. QED
        BY <2>0, <3>1 DEF Agreeing
    <2>4. Refolding'
      <3>1. ASSUME phase = "opening"
            PROVE  /\ \A l \in Known \ (op.todo \cup {NoLabel}) : edges'[l] = blob[l] /\ log'[l] = <<>>
        <4>1. \A l \in Known \ (op.todo \cup {m}) : edges[l] = blob[l] /\ log[l] = <<>>
          BY <2>1, <3>1 DEF EdgesOk, Refolding, Loaded
        <4>. QED
          BY <1>t, <2>2, <4>1
      <3>. QED
        BY <1>n, <2>0, <3>1 DEF Refolding, Loaded
    <2>5. Dropping'
      BY <2>0 DEF Dropping
    <2>. QED
      BY <2>0, <2>3, <2>4, <2>5 DEF EdgesOk
  <1>15. ASSUME NEW l \in Labels, WriteBlob(l) PROVE EdgesOk'
    <2>0. /\ op.kind \in {"compact", "open"} /\ op'.kind = op.kind /\ op'.label = l /\ op'.todo = op.todo \ {l}
          /\ phase' = phase /\ failed' = failed /\ doubt' = doubt /\ log' = log /\ edges' = edges /\ Known' = Known
          /\ op.label = NoLabel /\ l \in op.todo /\ op.step = "fold"
      BY <1>15, <1>t, <1>n DEF WriteBlob, memory, history, Known, Staged, Ops
    <2>1. /\ \A k \in Labels : k # l => Durable(k)' = Durable(k) /\ blob'[k] = blob[k]
          /\ op.kind = "open" => Durable(l)' = Durable(l) /\ blob'[l] = Durable(l)
          /\ op.kind = "compact" => blob'[l] = edges[l] /\ Durable(l)' = Merge(edges[l], log[l])
      BY <1>15, DurableFolded
    <2>2. Agreeing'
      <3>1. ASSUME phase = "open", NEW k \in Known, NEW e \in Edges, <<k, e>> \notin doubt
            PROVE  e \in edges[k] <=> e \in Durable(k)'
        <4>1. e \in edges[k] <=> e \in Durable(k)
          BY <3>1 DEF EdgesOk, Agreeing
        <4>2. CASE k # l
          BY <1>t, <2>1, <4>1, <4>2
        <4>3. CASE k = l
          <5>1. op.kind = "compact"
            BY <2>0, <3>1, <1>t DEF Staged
          <5>2. PICK B \in SUBSET Edges, D \in SUBSET Edges, s \in Seq(Entries) :
                  B = blob[l] /\ D = edges[l] /\ s = log[l] /\ Durable(l) = Merge(B, s)
            BY <1>m, <3>1, <4>3, DurableFacts
          <5>3. (e \in D <=> e \in Merge(B, s)) => (e \in Merge(D, s) <=> e \in D)
            BY MergeFacts
          <5>. QED
            BY <2>1, <4>1, <4>3, <5>1, <5>2, <5>3
        <4>. QED
          BY <4>2, <4>3
      <3>. QED
        BY <2>0, <3>1 DEF Agreeing
    <2>3. Refolding'
      <3>1. ASSUME phase = "opening"
            PROVE  /\ \A k \in Known \ ((op.todo \ {l}) \cup {l}) : edges[k] = blob'[k] /\ log[k] = <<>>
                   /\ Durable(l)' = blob'[l]
        <4>1. \A k \in Known \ (op.todo \cup {NoLabel}) : edges[k] = blob[k] /\ log[k] = <<>>
          BY <2>0, <3>1 DEF EdgesOk, Refolding, Loaded
        <4>2. op.kind = "open"
          BY <1>t, <3>1 DEF Staged
        <4>. QED
          BY <1>t, <1>n, <2>0, <2>1, <4>1, <4>2
      <3>. QED
        BY <2>0, <2>1, <3>1 DEF Refolding, Loaded
    <2>4. Dropping'
      BY <2>0 DEF Dropping
    <2>. QED
      BY <2>0, <2>2, <2>3, <2>4 DEF EdgesOk
  <1>16. ASSUME NEW l \in Labels, CreateLabel(l) PROVE EdgesOk'
    <2>1. phase = "creating" /\ phase' = "creating" /\ op'.kind = "create" /\ doubt' = {}
      BY <1>16, <1>t DEF CreateLabel, memory, history, Staged, Ops, Core, Blank
    <2>. QED
      BY <2>1 DEF EdgesOk, Agreeing, Refolding, Dropping
  <1>17. ASSUME Creates PROVE EdgesOk'
    <2>1. phase' = "creating" /\ op'.kind = "create" /\ doubt' = {}
      BY <1>17 DEF Creates, Create, history, Core, Blank
    <2>. QED
      BY <2>1 DEF EdgesOk, Agreeing, Refolding, Dropping
  <1>18. ASSUME CreateEnds PROVE EdgesOk'
    <2>0. /\ phase = "creating" /\ phase' = "open" /\ op'.kind = "none" /\ doubt' = {} /\ blob' = blob /\ log' = log
          /\ \A l \in Labels : Durable(l) = {}
          /\ Known' = stack.named /\ stack.named \in SUBSET Labels
          /\ \A l \in stack.named : edges'[l] = {}
      <3>1. phase = "creating" /\ doubt = {} /\ manifest = {} /\ \A l \in Labels : log[l] = <<>> /\ blob[l] \in {NoFile, {}}
        BY <1>18, <1>t DEF CreateEnds, Staged, Core, Blank
      <3>2. Known' = stack.named /\ stack.named \in SUBSET Labels
        BY <1>18, <3>1, Parameters DEF CreateEnds, Known, Core, Typed
      <3>3. Merge({}, <<>>) = {}
        <4>1. {} \in SUBSET Edges /\ <<>> \in Seq(Entries)
          OBVIOUS
        <4>. QED
          BY <4>1, MergeSets
      <3>4. \A l \in Labels : Durable(l) = {}
        BY <3>1, <3>3 DEF Durable
      <3>. QED
        BY <1>18, <1>n, <3>1, <3>2, <3>4 DEF CreateEnds, history
    <2>1. \A l \in Labels : Durable(l)' = {}
      BY <2>0 DEF Durable
    <2>. QED
      BY <2>0, <2>1 DEF EdgesOk, Agreeing, Refolding, Dropping
  <1>19. ASSUME Opens PROVE EdgesOk'
    <2>1. /\ phase' = "opening" /\ op'.kind = "open" /\ op'.label = NoLabel /\ op'.todo = Known
          /\ Known' = Known /\ failed' = failed /\ doubt' = doubt
      BY <1>19 DEF Opens, Open, history, Known
    <2>2. Loaded' = {}
      BY <2>1 DEF Loaded
    <2>. QED
      BY <1>n, <2>1, <2>2 DEF EdgesOk, Agreeing, Refolding, Dropping
  <1>20. ASSUME OpenRefused PROVE EdgesOk'
    <2>1. phase' = "refused" /\ op' = op /\ op.kind \notin Writes \cup {"compact"} /\ doubt' = doubt /\ failed' = failed
      BY <1>20, <1>t DEF OpenRefused, history, Staged
    <2>. QED
      BY <2>1 DEF EdgesOk, Agreeing, Refolding, Dropping, Writes
  <1>21. ASSUME OpenEnds PROVE EdgesOk'
    <2>0. /\ phase = "opening" /\ phase' = "open" /\ op'.kind = "none" /\ doubt' = {} /\ edges' = edges
          /\ blob' = blob /\ log' = log /\ Known' = Known /\ Loaded = Known
      <3>1. phase = "opening" /\ op.todo = {} /\ op.label = NoLabel
        BY <1>21, <1>t DEF OpenEnds, Staged
      <3>2. Known' = Known
        BY <1>21 DEF OpenEnds, Known
      <3>3. Loaded = Known
        BY <1>t, <1>n, <3>1 DEF Loaded
      <3>. QED
        BY <1>21, <1>n, <3>1, <3>2, <3>3 DEF OpenEnds
    <2>1. \A l \in Known : edges[l] = Durable(l)
      <3>1. ASSUME NEW l \in Known PROVE edges[l] = Durable(l)
        <4>1. l \in Labels /\ edges[l] = blob[l] /\ log[l] = <<>> /\ edges[l] # NoLabel
          BY <1>t, <2>0, <3>1 DEF EdgesOk, Refolding, Core, InMemory
        <4>2. PICK B \in SUBSET Edges, s \in Seq(Entries) : B = blob[l] /\ s = <<>> /\ Durable(l) = Merge(B, s)
          BY <4>1, DurableFacts
        <4>3. Merge(B, <<>>) = B
          BY <4>2, MergeSets
        <4>. QED
          BY <4>1, <4>2, <4>3
      <3>. QED
        BY <3>1
    <2>2. \A l \in Labels : Durable(l)' = Durable(l)
      BY <2>0 DEF Durable
    <2>3. Agreeing'
      BY <1>t, <2>0, <2>1, <2>2 DEF Agreeing
    <2>. QED
      BY <2>0, <2>3 DEF EdgesOk, Refolding, Dropping
  <1>22. ASSUME Crash PROVE EdgesOk'
    <2>1. phase' = "down" /\ op'.kind = "none" /\ doubt' = doubt /\ failed' = failed
      BY <1>22, <1>n DEF Crash
    <2>. QED
      BY <2>1 DEF EdgesOk, Agreeing, Refolding, Dropping
  <1>. QED
    BY <1>1, <1>2, <1>3, <1>4, <1>5, <1>6, <1>7, <1>8, <1>9, <1>10, <1>11, <1>12, <1>13, <1>14, <1>15,
       <1>16, <1>17, <1>18, <1>19, <1>20, <1>21, <1>22, StepCases

LEMMA EdgesInit == Init => EdgesOk
  <1>1. Init => phase = "down" /\ op.kind = "none" /\ doubt = {}
    BY NoOpFacts DEF Init
  <1>. QED
    BY <1>1 DEF EdgesOk, Agreeing, Refolding, Dropping

\* As long as no operation has stopped half way, what memory does not have the disk has not.
LEMMA NoneTouching ==
  ASSUME Core, EdgesOk, phase = "open", ~failed, NEW l \in Labels, NEW x,
         edges[l] # NoLabel => Touching(x, edges[l]) = {}
  PROVE  \A e \in Durable(l) : x \notin e
  <1>. SUFFICES ASSUME NEW e \in Durable(l) PROVE x \notin e
    OBVIOUS
  <1>1. e \in Edges /\ l \in Known
    BY DurableFacts
  <1>2. edges[l] # NoLabel
    BY <1>1 DEF Core, InMemory, Loaded
  <1>3. e \in edges[l]
    BY <1>1 DEF EdgesOk, Agreeing
  <1>. QED
    BY <1>2, <1>3 DEF Touching

May == Live \cup cut \cup Leaving

GhostsOk ==
  /\ GhostsOnlyFromCutDeletes
  /\ \A l \in Loaded : \A e \in edges[l] : e \cap Ids \subseteq May

LEMMA GhostsInit == Init => GhostsOk
  <1>. SUFFICES ASSUME Init PROVE GhostsOk
    OBVIOUS
  <1>1. \A l \in Labels : Durable(l) = {}
    BY DEF Init, Durable
  <1>2. Loaded = {}
    BY DEF Init, Loaded
  <1>. QED
    BY <1>1, <1>2 DEF GhostsOk, GhostsOnlyFromCutDeletes

LEMMA GhostsStep ==
  ASSUME Core, EdgesOk, GhostsOk, Next
  PROVE  GhostsOk'
  <1>t. /\ op \in Ops /\ Staged /\ edges \in [Labels -> (SUBSET Edges) \cup {NoLabel}]
        /\ Known \in SUBSET Labels
    BY Parameters DEF Core, Typed, Known
  <1>n. NoOp.kind = "none" /\ NoOp.step = "" /\ NoOp.label = NoLabel /\ NoOp.todo = {} /\ NoLabel \notin Labels
    BY NoOpFacts, Parameters
  <1>m. phase = "open" => \A l \in Labels : edges[l] # NoLabel <=> l \in Known
    BY <1>t DEF Core, InMemory, Loaded
  <1>g. /\ \A l \in Labels : \A e \in Durable(l) : e \cap Ids \subseteq May
        /\ \A l \in Loaded : \A e \in edges[l] : e \cap Ids \subseteq May
    BY DEF GhostsOk, GhostsOnlyFromCutDeletes, May
  <1>. DEFINE Good(e) == e \cap Ids \subseteq May'
              Stays == /\ stack' = stack /\ manifest' = manifest /\ edges' = edges /\ blob' = blob /\ log' = log
                       /\ phase' = phase /\ phase # "opening"
  <1>f. ASSUME \A l \in Labels : \A e \in Durable(l)' : Good(e),
               \A l \in Loaded' : \A e \in edges'[l] : Good(e)
        PROVE  GhostsOk'
    BY <1>f DEF GhostsOk, GhostsOnlyFromCutDeletes, May
  <1>s. ASSUME Stays PROVE Known' = Known /\ Loaded' = Loaded /\ \A l \in Labels : Durable(l)' = Durable(l)
    BY <1>s DEF Known, Durable, Loaded
  <1>k. ASSUME Stays, May \subseteq May' PROVE GhostsOk'
    BY <1>k, <1>s, <1>g, <1>f
  <1>. HIDE DEF Stays
  <1>1. ASSUME NEW kind, NEW x, NEW r, NEW todo, Starts(kind, x, r, todo) PROVE GhostsOk'
    <2>0. /\ Stays /\ edges' = edges /\ phase = "open" /\ cut' = cut /\ failed' = failed /\ base' = [base EXCEPT ![x] = r] /\ x \in Ids
          /\ op.kind = "none" /\ op'.kind = kind /\ op'.id = x /\ op'.todo = todo
          /\ (kind = "delete" <=> r = Absent) /\ todo = IF kind = "delete" THEN Linked(x) ELSE {}
      BY <1>1 DEF Starts, Stays
    <2>1. \A y \in Ids : y # x => (y \in Live' <=> y \in Live)
      BY <2>0 DEF Live, Core, Typed
    <2>2. x \in Live' <=> r # Absent
      BY <2>0 DEF Live, Core, Typed
    <2>3. Leaving = {} /\ May \subseteq Ids
      BY <2>0 DEF Leaving, May, Live, Core, Typed
    <2>4. CASE x \in May'
      <3>1. May \subseteq May'
        BY <2>0, <2>1, <2>3, <2>4 DEF May
      <3>. QED
        BY <1>k, <2>0, <3>1
    <2>5. CASE x \notin May'
      <3>1. kind = "delete" /\ ~failed /\ Linked(x) = {}
        BY <2>0, <2>2, <2>5 DEF May, Leaving
      <3>2. \A l \in Labels : edges[l] # NoLabel => Touching(x, edges[l]) = {}
        BY <3>1 DEF Linked
      <3>3. \A l \in Labels : \A e \in Durable(l) : x \notin e
        BY <2>0, <3>1, <3>2, NoneTouching
      <3>4. \A l \in Loaded : \A e \in edges[l] : x \notin e
        BY <1>m, <1>t, <2>0, <3>2 DEF Touching, Loaded
      <3>5. \A y \in May : y # x => y \in May'
        BY <2>0, <2>1, <2>3 DEF May
      <3>6. \A e : e \cap Ids \subseteq May /\ x \notin e => Good(e)
        BY <3>5
      <3>. QED
        BY <1>f, <1>g, <1>s, <2>0, <3>3, <3>4, <3>6
    <2>. QED
      BY <2>4, <2>5
  <1>2. ASSUME NEW x, NEW v, Updates(x, v) PROVE GhostsOk'
    <2>0. /\ Stays /\ op' = op /\ failed' = failed /\ cut' = cut
      BY <1>2, <1>t DEF Updates, Update, Idle, Stays
    <2>1. Live' = Live
      <3>1. x \in Ids /\ v \in Vals /\ base[x] \in Records /\ base \in [Ids -> Records \cup {Absent}]
        BY <1>2 DEF Updates, Update, Core, Typed
      <3>2. [base[x] EXCEPT !.val = v] \in Records
        BY <3>1 DEF Records
      <3>3. base' = base \/ base' = [base EXCEPT ![x].val = v]
        BY <1>2 DEF Updates, Update
      <3>4. \A y \in Ids : base'[y] = base[y] \/ (y = x /\ base'[y] = [base[x] EXCEPT !.val = v])
        BY <3>1, <3>3
      <3>. QED
        BY <3>1, <3>2, <3>4, RecordFacts DEF Live
    <2>2. May' = May
      BY <2>0, <2>1 DEF May, Leaving
    <2>. QED
      BY <1>k, <2>0, <2>2
  <1>3. ASSUME SlotStep PROVE GhostsOk'
    <2>0. /\ Stays /\ op'.kind = op.kind /\ op'.id = op.id /\ op'.todo = op.todo /\ failed' = failed /\ cut' = cut /\ base' = base
      BY <1>3, <1>t DEF SlotStep, history, Stays, Ops, Staged, Writes
    <2>2. May' = May
      BY <2>0 DEF May, Leaving, Live
    <2>. QED
      BY <1>k, <2>0, <2>2
  <1>4. ASSUME SlotFails PROVE GhostsOk'
    <2>0. /\ Stays /\ op.kind # "delete" /\ op'.kind = "none" /\ cut' = cut /\ base' = base
      BY <1>4, <1>t, <1>n DEF SlotFails, StopHere, memory, Stays, Staged, Writes
    <2>2. May' = May
      BY <2>0 DEF May, Leaving, Live
    <2>. QED
      BY <1>k, <2>0, <2>2
  <1>5. ASSUME Finish PROVE GhostsOk'
    <2>0. /\ Stays /\ edges' = edges /\ phase = "open" /\ op'.kind = "none" /\ base' = base /\ op.kind \in Writes /\ op.todo = {}
          /\ cut' = IF op.kind # "delete" THEN cut ELSE (cut \ {op.id}) \cup Leaving
      BY <1>5, <1>t, <1>n DEF Finish, disk, Stays, Staged
    <2>1. Live' = Live /\ Leaving' = {}
      BY <2>0 DEF Live, Leaving
    <2>2. CASE op.kind # "delete" \/ failed
      <3>1. May \subseteq May'
        BY <2>0, <2>1, <2>2 DEF May, Leaving
      <3>. QED
        BY <1>k, <2>0, <3>1
    <2>3. CASE op.kind = "delete" /\ ~failed
      <3>0. PICK x : x = op.id
        OBVIOUS
      <3>1. \A l \in Known : Touching(x, edges[l]) = {}
        BY <2>0, <2>3, <3>0 DEF EdgesOk, Dropping
      <3>2. \A l \in Labels : edges[l] # NoLabel => Touching(x, edges[l]) = {}
        BY <1>m, <2>0, <3>1
      <3>3. \A l \in Labels : \A e \in Durable(l) : x \notin e
        BY <2>0, <2>3, <3>2, NoneTouching
      <3>4. \A l \in Loaded : \A e \in edges[l] : x \notin e
        BY <2>0, <3>1 DEF Touching, Loaded
      <3>5. \A y \in May : y # x => y \in May'
        BY <2>0, <2>1, <2>3, <3>0 DEF May, Leaving
      <3>6. \A e : e \cap Ids \subseteq May /\ x \notin e => Good(e)
        BY <3>5
      <3>. QED
        BY <1>f, <1>g, <1>s, <2>0, <3>3, <3>4, <3>6
    <2>. QED
      BY <2>2, <2>3
  <1>6. ASSUME NEW l \in Labels, DropEdges(l) PROVE GhostsOk'
    <2>0. /\ phase = "open" /\ phase' = "open" /\ op.kind = "delete" /\ op'.kind = "delete" /\ op'.id = op.id
          /\ op'.todo = op.todo \ {l} /\ l \in op.todo /\ op.id \in Ids /\ edges[l] # NoLabel
          /\ blob' = blob /\ Known' = Known /\ failed' = failed /\ cut' = cut /\ base' = base
          /\ log' = [log EXCEPT ![l] = Append(log[l], Tombstone(op.id))]
          /\ edges' = [edges EXCEPT ![l] = edges[l] \ Touching(op.id, edges[l])]
      BY <1>6, <1>t DEF DropEdges, Core, Staged, WriteHolds, Ops, Writes, Known
    <2>1. PICK x \in Ids : x = op.id
      BY <2>0
    <2>2. \A k \in Labels : Durable(k)' = IF k = l THEN Durable(k) \ Touching(x, Edges) ELSE Durable(k)
      BY <2>0, <2>1, DurableDropped
    <2>3. \A k \in Labels : edges'[k] = IF k = l THEN edges[k] \ Touching(x, edges[k]) ELSE edges[k]
      BY <1>t, <2>0, <2>1
    <2>4. Loaded' = Known /\ Loaded = Known /\ Live' = Live
      BY <2>0 DEF Loaded, Live
    <2>5. \A k \in Labels : (\A e \in Durable(k)' : e \in Durable(k)) /\ (\A e \in edges'[k] : k \in Known => e \in edges[k])
      BY <2>2, <2>3
    <2>6. CASE x \in May'
      <3>1. May \subseteq May'
        BY <2>0, <2>1, <2>4, <2>6 DEF May, Leaving
      <3>. QED
        BY <1>f, <1>g, <1>t, <2>4, <2>5, <3>1
    <2>7. CASE x \notin May'
      <3>1. ~failed /\ op.todo = {l}
        BY <2>0, <2>1, <2>7 DEF May, Leaving
      <3>2. \A k \in Labels : k # l /\ edges[k] # NoLabel => Touching(x, edges[k]) = {}
        BY <1>m, <2>0, <2>1, <3>1 DEF EdgesOk, Dropping
      <3>3. \A k \in Labels : \A e \in Durable(k)' : x \notin e
        <4>1. \A k \in Labels : k # l => \A e \in Durable(k) : x \notin e
          BY <2>0, <3>1, <3>2, NoneTouching
        <4>2. \A e \in Durable(l)' : x \notin e
          BY <2>2, MergeEdges DEF Touching
        <4>. QED
          BY <2>2, <4>1, <4>2
      <3>4. \A k \in Known : \A e \in edges'[k] : x \notin e
        BY <1>t, <1>m, <2>0, <2>3, <3>2 DEF Touching
      <3>5. \A y \in May : y # x => y \in May'
        BY <2>0, <2>1, <2>4 DEF May, Leaving
      <3>6. \A e : e \cap Ids \subseteq May /\ x \notin e => Good(e)
        BY <3>5
      <3>. QED
        BY <1>f, <1>g, <1>t, <2>4, <2>5, <3>3, <3>4, <3>6
    <2>. QED
      BY <2>6, <2>7
  <1>7. ASSUME NEW l \in Labels, DropFails(l) PROVE GhostsOk'
    <2>0. /\ phase = "open" /\ phase' = "open" /\ op'.kind = "none" /\ op.kind = "delete"
          /\ l \in op.todo /\ op.id \in Ids /\ edges[l] # NoLabel
          /\ blob' = blob /\ Known' = Known /\ edges' = edges /\ base' = base
          /\ \/ log' = log
             \/ log' = [log EXCEPT ![l] = Append(log[l], Tombstone(op.id))]
          /\ cut' = cut \cup Leaving
      BY <1>7, <1>t, <1>n DEF DropFails, StopHere, memory, Core, Staged, WriteHolds, Ops, Writes, Known
    <2>1. PICK x \in Ids : x = op.id
      BY <2>0
    <2>2. \A k \in Labels : \A e \in Durable(k)' : e \in Durable(k)
      <3>1. CASE log' = log
        BY <2>0, <3>1 DEF Durable
      <3>2. CASE log' = [log EXCEPT ![l] = Append(log[l], Tombstone(op.id))]
        BY <2>0, <2>1, <3>2, DurableDropped
      <3>. QED
        BY <2>0, <3>1, <3>2
    <2>3. May \subseteq May' /\ Loaded' = Loaded
      BY <2>0 DEF May, Live, Loaded
    <2>. QED
      BY <1>f, <1>g, <2>0, <2>2, <2>3
  <1>8. ASSUME NEW l, NEW e, Appends(l, e) PROVE GhostsOk'
    <2>0. /\ phase = "open" /\ phase' = "open" /\ op.kind # "delete"
          /\ l \in Labels /\ e \in Edges /\ e \cap Ids \subseteq Live /\ edges[l] # NoLabel
          /\ blob' = blob /\ Known' = Known /\ cut' = cut /\ base' = base
          /\ log' = [log EXCEPT ![l] = Append(log[l], Item(e))]
          /\ edges' = edges \/ edges' = [edges EXCEPT ![l] = edges[l] \cup {e}]
      BY <1>8, <1>n DEF Appends, AppendEdge, Known
    <2>1. \A k \in Labels : Durable(k)' = IF k = l THEN Durable(k) \cup {e} ELSE Durable(k)
      BY <2>0, DurableLinked
    <2>2. \A k \in Labels : \A g \in edges'[k] : g \in edges[k] \/ g = e
      BY <1>t, <2>0
    <2>3. May \subseteq May' /\ Loaded' = Loaded /\ Good(e)
      BY <2>0 DEF May, Leaving, Live, Loaded
    <2>4. Loaded \subseteq Labels
      BY <1>t DEF Loaded
    <2>. QED
      BY <1>f, <1>g, <2>1, <2>2, <2>3, <2>4
  <1>9. ASSUME NEW l, NEW e, NewLabel(l, e) PROVE GhostsOk'
    <2>0. /\ phase = "open" /\ phase' = "open" /\ op'.kind = "link" /\ l \in Labels
          /\ blob' = [blob EXCEPT ![l] = {}] /\ log' = log /\ edges' = edges /\ op.kind = "none"
          /\ Known' = Known /\ base' = base /\ cut' = cut /\ l \notin Known
      BY <1>9, <1>m DEF NewLabel, memory, history, Known
    <2>1. \A k \in Labels : \A g \in Durable(k)' : g \in Durable(k)
      <3>1. \A k \in Labels : k # l => Durable(k)' = Durable(k)
        BY <2>0 DEF Durable, Core, Typed
      <3>2. Durable(l)' = {}
        <4>1. log[l] = <<>> /\ blob'[l] = {}
          BY <2>0 DEF Core, FilesThere, Typed
        <4>2. {} \in SUBSET Edges /\ <<>> \in Seq(Entries)
          OBVIOUS
        <4>3. Merge({}, <<>>) = {}
          BY <4>2, MergeSets
        <4>. QED
          BY <2>0, <4>1, <4>3 DEF Durable
      <3>. QED
        BY <3>1, <3>2
    <2>2. May' = May /\ Loaded' = Loaded
      BY <2>0 DEF May, Leaving, Live, Loaded
    <2>. QED
      BY <1>f, <1>g, <2>0, <2>1, <2>2
  <1>10. ASSUME LinkManifest PROVE GhostsOk'
    <2>0. /\ phase = "open" /\ phase' = "open" /\ op'.kind = "link" /\ op.label \in Labels
          /\ blob' = blob /\ log' = log /\ edges' = [edges EXCEPT ![op.label] = {}] /\ op.kind = "link"
          /\ Known' = Known \cup {op.label} /\ base' = base /\ cut' = cut
      BY <1>10, <1>t DEF LinkManifest, history, Known, Staged, Core, LinkHolds, Ops
    <2>1. \A k \in Labels : Durable(k)' = Durable(k)
      BY <2>0 DEF Durable
    <2>2. May' = May /\ Loaded' = Known \cup {op.label} /\ Loaded = Known
      BY <2>0 DEF May, Leaving, Live, Loaded
    <2>3. \A k \in Known \cup {op.label} : \A e \in edges'[k] : k \in Known /\ e \in edges[k]
      BY <1>t, <2>0
    <2>. QED
      BY <1>f, <1>g, <2>1, <2>2, <2>3
  <1>11. ASSUME Ends PROVE GhostsOk'
    <2>1. /\ Stays /\ op'.kind = "none" /\ op.kind # "delete" /\ cut' = cut /\ base' = base
      BY <1>11, <1>n, <1>t DEF Ends, disk, memory, history, Staged, Writes, Stays
    <2>2. May' = May
      BY <2>1 DEF May, Leaving, Live
    <2>. QED
      BY <1>k, <2>1, <2>2
  <1>12. ASSUME NEW l, NEW x, Detaches(l, x) PROVE GhostsOk'
    <2>0. /\ phase = "open" /\ phase' = "open" /\ op' = op /\ op.kind = "none"
          /\ l \in Labels /\ x \in Ids \cup FarIds /\ edges[l] # NoLabel
          /\ blob' = blob /\ Known' = Known /\ cut' = cut /\ base' = base
          /\ log' = [log EXCEPT ![l] = Append(log[l], Tombstone(x))]
          /\ edges' = edges \/ edges' = [edges EXCEPT ![l] = edges[l] \ Touching(x, edges[l])]
      BY <1>12, <1>n DEF Detaches, Detach, Known, Idle
    <2>1. \A k \in Labels : Durable(k)' = IF k = l THEN Durable(k) \ Touching(x, Edges) ELSE Durable(k)
      BY <2>0, DurableDropped
    <2>2. \A k \in Labels : \A g \in edges'[k] : g \in edges[k]
      BY <1>t, <2>0
    <2>3. May' = May /\ Loaded' = Loaded /\ Loaded \subseteq Labels
      BY <1>t, <2>0 DEF May, Leaving, Live, Loaded
    <2>. QED
      BY <1>f, <1>g, <2>1, <2>2, <2>3
  <1>13. ASSUME Compacts PROVE GhostsOk'
    <2>1. /\ Stays /\ op'.kind = "compact" /\ op.kind = "none" /\ cut' = cut /\ base' = base
      BY <1>13 DEF Compacts, Compact, Idle, history, Stays
    <2>2. May' = May
      BY <2>1 DEF May, Leaving, Live
    <2>. QED
      BY <1>k, <2>1, <2>2
  <1>14. ASSUME ClearLog PROVE GhostsOk'
    <2>0. /\ op.kind \in {"compact", "open"} /\ op'.kind = op.kind /\ op'.label = NoLabel /\ op'.todo = op.todo
          /\ phase' = phase /\ Known' = Known /\ base' = base /\ cut' = cut
          /\ op.label \in Labels
      BY <1>14, <1>t, <1>n DEF ClearLog, history, Known, Staged, Ops, Core, FoldHolds
    <2>1. PICK m \in Labels : m = op.label
      BY <2>0
    <2>2. /\ \A k \in Labels : k # m => Durable(k)' = Durable(k) /\ edges'[k] = edges[k]
          /\ Durable(m)' = blob[m] /\ edges'[m] = blob[m]
      BY <1>14, <1>t, <2>1, DurableFolded DEF ClearLog
    <2>3. \A e \in blob[m] : e \in Durable(m) \/ (m \in Loaded /\ e \in edges[m])
      <3>1. CASE op.kind = "open"
        BY <1>t, <2>1, <3>1 DEF EdgesOk, Refolding, Staged
      <3>2. CASE op.kind = "compact"
        <4>1. m \in Loaded
          BY <1>m, <1>t, <1>n, <2>1, <3>2 DEF Loaded, Staged, Core, FoldHolds
        <4>. QED
          BY <2>1, <3>2, <4>1 DEF EdgesOk, Refolding
      <3>. QED
        BY <2>0, <3>1, <3>2
    <2>4. May' = May
      BY <2>0 DEF May, Leaving, Live
    <2>5. Loaded' \subseteq Loaded \cup {m} /\ Loaded' \subseteq Labels
      BY <1>t, <1>n, <2>0, <2>1 DEF Loaded
    <2>. QED
      BY <1>f, <1>g, <2>2, <2>3, <2>4, <2>5
  <1>15. ASSUME NEW l \in Labels, WriteBlob(l) PROVE GhostsOk'
    <2>0. /\ op.kind \in {"compact", "open"} /\ op'.kind = op.kind /\ op'.label = l /\ op'.todo = op.todo \ {l}
          /\ phase' = phase /\ edges' = edges /\ Known' = Known /\ base' = base /\ cut' = cut
          /\ op.label = NoLabel /\ l \in op.todo
      BY <1>15, <1>t, <1>n DEF WriteBlob, memory, history, Known, Staged, Ops
    <2>1. /\ \A k \in Labels : k # l => Durable(k)' = Durable(k)
          /\ op.kind = "open" => Durable(l)' = Durable(l)
          /\ op.kind = "compact" => Durable(l)' = Merge(edges[l], log[l])
      BY <1>15, DurableFolded
    <2>2. \A e \in Durable(l)' : e \in Durable(l) \/ (l \in Loaded /\ e \in edges[l])
      <3>1. CASE op.kind = "compact"
        <4>1. edges[l] # NoLabel /\ l \in Loaded
          BY <1>m, <1>t, <2>0, <3>1 DEF Loaded, Staged, Core, FoldHolds
        <4>2. PICK B \in SUBSET Edges, D \in SUBSET Edges, s \in Seq(Entries) :
                B = blob[l] /\ D = edges[l] /\ s = log[l] /\ Durable(l) = Merge(B, s)
          BY <4>1, DurableFacts
        <4>3. \A e \in Edges : e \in Merge(D, s) => e \in D \/ e \in Merge(B, s)
          BY MergeFacts
        <4>4. Merge(D, s) \in SUBSET Edges
          BY MergeEdges
        <4>. QED
          BY <2>1, <3>1, <4>1, <4>2, <4>3, <4>4
      <3>. QED
        BY <2>0, <2>1, <3>1
    <2>3. May' = May /\ Loaded' = Loaded
      BY <1>t, <1>n, <2>0 DEF May, Leaving, Live, Loaded
    <2>. QED
      BY <1>f, <1>g, <2>0, <2>1, <2>2, <2>3
  <1>16. ASSUME NEW l \in Labels, CreateLabel(l) PROVE GhostsOk'
    <2>0. /\ phase' = phase /\ phase = "creating" /\ op.kind = "create" /\ op'.kind = "create"
          /\ log' = [log EXCEPT ![l] = <<>>] /\ blob' = [blob EXCEPT ![l] = {}] /\ base' = base /\ cut' = cut
      BY <1>16, <1>t DEF CreateLabel, memory, history, Staged, Ops
    <2>1. \A k \in Labels : \A e \in Durable(k)' : e \in Durable(k)
      <3>1. \A k \in Labels : k # l => Durable(k)' = Durable(k)
        BY <2>0 DEF Durable, Core, Typed
      <3>2. Durable(l)' = {}
        <4>1. log'[l] = <<>> /\ blob'[l] = {}
          BY <2>0 DEF Core, Typed
        <4>2. {} \in SUBSET Edges /\ <<>> \in Seq(Entries)
          OBVIOUS
        <4>3. Merge({}, <<>>) = {}
          BY <4>2, MergeSets
        <4>. QED
          BY <4>1, <4>3 DEF Durable
      <3>. QED
        BY <3>1, <3>2
    <2>2. May' = May /\ Loaded' = {}
      BY <2>0 DEF May, Leaving, Live, Loaded
    <2>. QED
      BY <1>f, <1>g, <2>1, <2>2
  <1>17. ASSUME Creates PROVE GhostsOk'
    <2>0. /\ phase = "down" /\ phase' = "creating" /\ op'.kind = "create" /\ base' = base /\ cut' = cut
          /\ blob' = blob /\ log' = log /\ op.kind # "delete"
      BY <1>17, <1>t DEF Creates, Create, memory, history, Staged, Writes
    <2>1. \A k \in Labels : Durable(k)' = Durable(k)
      BY <2>0 DEF Durable
    <2>2. May' = May /\ Loaded' = {}
      BY <2>0 DEF May, Leaving, Live, Loaded
    <2>. QED
      BY <1>f, <1>g, <2>1, <2>2
  <1>18. ASSUME CreateEnds PROVE GhostsOk'
    <2>0. /\ phase = "creating" /\ phase' = "open" /\ op'.kind = "none" /\ op.kind = "create" /\ base' = base /\ cut' = cut
          /\ blob' = blob /\ log' = log /\ manifest = {} /\ stack' = stack /\ manifest' \in {manifest, stack.named}
          /\ edges' = [l \in Labels |-> IF l \in stack.named THEN {} ELSE NoLabel]
      BY <1>18, <1>t, <1>n DEF CreateEnds, history, Staged, Core, Blank
    <2>1. \A k \in Labels : Durable(k)' = Durable(k)
      BY <2>0 DEF Durable
    <2>2. May' = May /\ Loaded' = stack.named /\ stack.named \in SUBSET Labels
      BY <1>t, <2>0 DEF May, Leaving, Live, Loaded, Known
    <2>3. \A l \in stack.named : edges'[l] = {}
      BY <2>0, <2>2
    <2>. QED
      BY <1>f, <1>g, <2>1, <2>2, <2>3
  <1>19. ASSUME Opens PROVE GhostsOk'
    <2>0. /\ phase' = "opening" /\ op'.kind = "open" /\ op'.label = NoLabel /\ op'.todo = Known /\ op.kind # "delete"
          /\ Known' = Known /\ base' = base /\ cut' = cut /\ blob' = blob /\ log' = log
      BY <1>19, <1>t DEF Opens, Open, history, Known, Staged, Writes
    <2>1. \A k \in Labels : Durable(k)' = Durable(k)
      BY <2>0 DEF Durable
    <2>2. May' = May /\ Loaded' = {}
      BY <2>0 DEF May, Leaving, Live, Loaded
    <2>. QED
      BY <1>f, <1>g, <2>1, <2>2
  <1>20. ASSUME OpenRefused PROVE GhostsOk'
    <2>0. /\ phase' = "refused" /\ op' = op /\ failed' = failed
          /\ base' = base /\ cut' = cut /\ blob' = blob /\ log' = log
      BY <1>20 DEF OpenRefused, history, disk
    <2>1. \A k \in Labels : Durable(k)' = Durable(k)
      BY <2>0 DEF Durable
    <2>2. May' = May /\ Loaded' = {}
      BY <2>0 DEF May, Leaving, Live, Loaded
    <2>. QED
      BY <1>f, <1>g, <2>1, <2>2
  <1>21. ASSUME OpenEnds PROVE GhostsOk'
    <2>0. /\ phase = "opening" /\ phase' = "open" /\ op'.kind = "none" /\ op.kind = "open" /\ edges' = edges
          /\ blob' = blob /\ log' = log /\ Known' = Known /\ base' = base /\ cut' = cut /\ Loaded = Known
      <3>1. phase = "opening" /\ op.todo = {} /\ op.label = NoLabel
        BY <1>21, <1>t DEF OpenEnds, Staged
      <3>2. Known' = Known
        BY <1>21 DEF OpenEnds, Known
      <3>3. Loaded = Known
        BY <1>t, <1>n, <3>1 DEF Loaded
      <3>. QED
        BY <1>21, <1>n, <3>1, <3>2, <3>3 DEF OpenEnds
    <2>1. \A k \in Labels : Durable(k)' = Durable(k)
      BY <2>0 DEF Durable
    <2>2. May' = May /\ Loaded' = Loaded
      BY <2>0 DEF May, Leaving, Live, Loaded
    <2>. QED
      BY <1>f, <1>g, <2>0, <2>1, <2>2
  <1>22. ASSUME Crash PROVE GhostsOk'
    <2>0. phase' = "down" /\ op'.kind = "none" /\ cut' = cut \cup Leaving /\ base' = base /\ blob' = blob /\ log' = log
      BY <1>22, <1>n DEF Crash, disk
    <2>1. \A k \in Labels : Durable(k)' = Durable(k)
      BY <2>0 DEF Durable
    <2>2. May \subseteq May' /\ Loaded' = {}
      BY <2>0 DEF May, Leaving, Live, Loaded
    <2>. QED
      BY <1>f, <1>g, <2>1, <2>2
  <1>. QED
    BY <1>1, <1>2, <1>3, <1>4, <1>5, <1>6, <1>7, <1>8, <1>9, <1>10, <1>11, <1>12, <1>13, <1>14, <1>15,
       <1>16, <1>17, <1>18, <1>19, <1>20, <1>21, <1>22, StepCases

LEMMA EdgesHold == Spec => [](Core /\ EdgesOk /\ GhostsOk)
  <1>. DEFINE Inv == Core /\ EdgesOk /\ GhostsOk
  <1>1. Init => Inv
    BY CoreInit, EdgesInit, GhostsInit
  <1>2. ASSUME Inv, [Next]_vars PROVE Inv'
    <2>1. CASE Next
      BY <1>2, <2>1, CoreStep, EdgesStep, GhostsStep
    <2>2. CASE UNCHANGED vars
      <3>1. UNCHANGED <<stack, base, created, slots, blob, log, manifest, inner, position, edges, outer, phase, op,
                        failed, cut, doubt, allowed>>
        BY <2>2 DEF vars, disk, memory, history
      <3>2. Core'
        BY <1>2, CoreStep
      <3>3. /\ Known' = Known /\ Loaded' = Loaded /\ Live' = Live /\ Leaving' = Leaving
            /\ \A l \in Labels : Durable(l)' = Durable(l)
        BY <3>1 DEF Known, Loaded, Live, Leaving, Durable
      <3>a. Agreeing'
        <4>1. Known \subseteq Labels
          BY <1>2, Parameters DEF Core, Typed, Known
        <4>. QED
          BY <1>2, <3>1, <3>3, <4>1 DEF EdgesOk, Agreeing
      <3>b. Refolding'
        BY <1>2, <3>1, <3>3 DEF EdgesOk, Refolding
      <3>4. EdgesOk'
        BY <1>2, <3>1, <3>3, <3>a, <3>b DEF EdgesOk, Dropping
      <3>5. GhostsOk'
        BY <1>2, <3>1, <3>3 DEF GhostsOk, GhostsOnlyFromCutDeletes, May
      <3>. QED
        BY <3>2, <3>4, <3>5
    <2>. QED
      BY <1>2, <2>1, <2>2
  <1>. QED
    BY <1>1, <1>2, PTL DEF Spec

\* Wherever a crash falls on an open stack, its files open again (LNK-FR-005): a label
\* has its blob before the manifest names it, and the slot file is never taken away.
THEOREM FilesOpenAgain == Spec => []OpensAgain
  <1>1. Core => OpensAgain
    BY DEF Core, FilesThere, Known, SlotsOk, OpensAgain, Refused
  <1>. QED
    BY <1>1, CoreHolds, PTL

\* The edges of a record that is not there were left by a deletion cut short, or made after an
\* operation that stopped half way (DEL-FR-004): delete leaves none of its own behind.
THEOREM GhostsExplained == Spec => []GhostsOnlyFromCutDeletes
  <1>1. GhostsOk => GhostsOnlyFromCutDeletes
    BY DEF GhostsOk
  <1>. QED
    BY <1>1, EdgesHold, PTL

------------------------------------------------------------------------------
(* The relation layers do what EdgeSet promises                            *)

LEMMA RefinesInit == Init => Abstract!Init
  <1>. SUFFICES ASSUME Init PROVE Abstract!Init
    OBVIOUS
  <1>1. Live = {} /\ doubt = {} /\ \A l \in Labels : Durable(l) = {}
    BY DEF Init, Live, Durable
  <1>. QED
    BY <1>1 DEF Abstract!Init

LEMMA RefinesStep ==
  ASSUME Core, EdgesOk, Next
  PROVE  Abstract!Next \/ UNCHANGED Abstract!vars
  <1>. DEFINE Goal == Abstract!Next \/ UNCHANGED Abstract!vars
              D == [l \in Labels |-> Durable(l)]
  <1>t. /\ op \in Ops /\ Staged /\ edges \in [Labels -> (SUBSET Edges) \cup {NoLabel}]
        /\ Known \in SUBSET Labels /\ doubt \in SUBSET (Labels \X Edges)
    BY Parameters DEF Core, Typed, Known
  <1>n. NoOp.kind = "none" /\ NoOp.step = ""
    BY NoOpFacts
  <1>m. /\ phase = "open" => \A l \in Labels : edges[l] # NoLabel <=> l \in Known
        /\ phase = "open" /\ ~failed => \A l \in Known : edges[l] = Durable(l)
    <2>1. phase = "open" => \A l \in Labels : edges[l] # NoLabel <=> l \in Known
      BY <1>t DEF Core, InMemory, Loaded
    <2>2. ASSUME phase = "open", ~failed, NEW l \in Known PROVE edges[l] = Durable(l)
      <3>1. \A e \in Edges : e \in edges[l] <=> e \in Durable(l)
        BY <2>2 DEF EdgesOk, Agreeing
      <3>2. edges[l] \in SUBSET Edges /\ Durable(l) \in SUBSET Edges
        BY <1>t, <2>1, <2>2, MergeEdges
      <3>. QED
        BY <3>1, <3>2
    <2>. QED
      BY <2>1, <2>2
  <1>u. ASSUME Live' = Live, doubt' = doubt, \A l \in Labels : Durable(l)' = Durable(l) PROVE Goal
    BY <1>u DEF Abstract!vars
  <1>b. ASSUME Live' = Live, doubt' = doubt, blob' = blob, log' = log PROVE Goal
    <2>1. \A l \in Labels : Durable(l)' = Durable(l)
      BY <1>b DEF Durable
    <2>. QED
      BY <1>b, <1>u, <2>1
  <1>e. ASSUME NEW l \in Labels, NEW E, Durable(l)' = E, \A k \in Labels : k # l => Durable(k)' = Durable(k)
        PROVE  D' = [D EXCEPT ![l] = E]
    BY <1>e
  <1>d. ASSUME NEW l \in Labels, NEW x, x \in UNION Edges, x \notin Live, Live' = Live,
               \A k \in Labels : Durable(k)' = IF k = l THEN Durable(k) \ Touching(x, Edges) ELSE Durable(k),
               \/ doubt' = doubt \ ({l} \X Touching(x, Edges))
               \/ doubt' = doubt \cup ({l} \X Touching(x, Durable(l)))
        PROVE  Goal
    <2>1. Durable(l) \ Touching(x, Edges) = Durable(l) \ Abstract!Touching(x, Durable(l))
      BY MergeEdges DEF Touching, Abstract!Touching
    <2>2. D' = [D EXCEPT ![l] = D[l] \ Abstract!Touching(x, D[l])]
      BY <1>d, <1>e, <2>1
    <2>3. doubt' \in {doubt \ ({l} \X Abstract!Touching(x, Edges)), doubt \cup ({l} \X Abstract!Touching(x, D[l]))}
      BY <1>d DEF Touching, Abstract!Touching
    <2>4. Abstract!Drop(l, x)
      BY <1>d, <2>2, <2>3 DEF Abstract!Drop
    <2>. QED
      BY <1>d, <2>4 DEF Abstract!Next
  <1>s. ASSUME NEW l \in Labels, Live' = Live, doubt' = doubt, \A k \in Labels : k # l => Durable(k)' = Durable(k),
               Durable(l)' \in SUBSET Edges,
               \A e \in Edges : <<l, e>> \notin doubt => (e \in Durable(l)' <=> e \in Durable(l))
        PROVE  Goal
    <2>. DEFINE E == Durable(l)' \cap Abstract!Doubtful(l)
    <2>1. Durable(l)' = (Durable(l) \ Abstract!Doubtful(l)) \cup E
      BY <1>s, MergeEdges DEF Abstract!Doubtful
    <2>2. D' = [D EXCEPT ![l] = (D[l] \ Abstract!Doubtful(l)) \cup E]
      BY <1>e, <1>s, <2>1
    <2>3. E \in SUBSET Abstract!Doubtful(l)
      OBVIOUS
    <2>. HIDE DEF E
    <2>4. Abstract!Settle(l)
      BY <1>s, <2>2, <2>3 DEF Abstract!Settle
    <2>. QED
      BY <2>4 DEF Abstract!Next
  <1>. HIDE DEF Goal
  <1>1. ASSUME NEW kind, NEW x, NEW r, NEW todo, Starts(kind, x, r, todo) PROVE Goal
    <2>1. blob' = blob /\ log' = log /\ doubt' = doubt /\ x \in Ids /\ base' = [base EXCEPT ![x] = r]
      BY <1>1 DEF Starts
    <2>2. Live' \in {Live \cup {x}, Live \ {x}}
      <3>1. \A y \in Ids : base'[y] = IF y = x THEN r ELSE base[y]
        BY <2>1 DEF Core, Typed
      <3>2. CASE r = Absent
        BY <3>1, <3>2 DEF Live
      <3>3. CASE r # Absent
        BY <2>1, <3>1, <3>3 DEF Live
      <3>. QED
        BY <3>2, <3>3
    <2>3. D' = D
      BY <2>1 DEF Durable
    <2>4. Abstract!Write(x)
      BY <2>1, <2>2, <2>3 DEF Abstract!Write
    <2>. QED
      BY <2>1, <2>4 DEF Abstract!Next, Goal
  <1>2. ASSUME NEW x, NEW v, Updates(x, v) PROVE Goal
    <2>0. blob' = blob /\ log' = log /\ doubt' = doubt
      BY <1>2 DEF Updates, Update
    <2>1. Live' = Live
      <3>1. x \in Ids /\ v \in Vals /\ base[x] \in Records /\ base \in [Ids -> Records \cup {Absent}]
        BY <1>2 DEF Updates, Update, Core, Typed
      <3>2. [base[x] EXCEPT !.val = v] \in Records
        BY <3>1 DEF Records
      <3>3. base' = base \/ base' = [base EXCEPT ![x].val = v]
        BY <1>2 DEF Updates, Update
      <3>4. \A y \in Ids : base'[y] = base[y] \/ (y = x /\ base'[y] = [base[x] EXCEPT !.val = v])
        BY <3>1, <3>3
      <3>. QED
        BY <3>1, <3>2, <3>4, RecordFacts DEF Live
    <2>. QED
      BY <1>b, <2>0, <2>1
  <1>3. ASSUME SlotStep PROVE Goal
    <2>1. Live' = Live /\ doubt' = doubt /\ blob' = blob /\ log' = log
      BY <1>3 DEF SlotStep, history, Live
    <2>. QED
      BY <1>b, <2>1
  <1>4. ASSUME SlotFails PROVE Goal
    <2>1. Live' = Live /\ doubt' = doubt /\ blob' = blob /\ log' = log
      BY <1>4 DEF SlotFails, StopHere, Live
    <2>. QED
      BY <1>b, <2>1
  <1>5. ASSUME Finish PROVE Goal
    <2>1. Live' = Live /\ doubt' = doubt /\ blob' = blob /\ log' = log
      BY <1>5 DEF Finish, disk, Live
    <2>. QED
      BY <1>b, <2>1
  <1>6. ASSUME NEW l \in Labels, DropEdges(l) PROVE Goal
    <2>0. /\ op.kind = "delete" /\ l \in op.todo /\ op.id \in Ids /\ edges[l] # NoLabel /\ phase = "open"
          /\ blob' = blob /\ base' = base /\ doubt' = doubt \ ({l} \X Touching(op.id, Edges))
          /\ log' = [log EXCEPT ![l] = Append(log[l], Tombstone(op.id))] /\ base[op.id] = Absent
          /\ Touching(op.id, edges[l]) # {}
      BY <1>6, <1>t DEF DropEdges, Core, Staged, WriteHolds, Ops, Writes, EdgesOk, Dropping
    <2>1. PICK x \in Ids : x = op.id
      BY <2>0
    <2>2. \A k \in Labels : Durable(k)' = IF k = l THEN Durable(k) \ Touching(x, Edges) ELSE Durable(k)
      BY <2>0, <2>1, DurableDropped
    <2>3. x \in UNION Edges
      BY <1>t, <2>0, <2>1 DEF Touching
    <2>4. x \notin Live /\ Live' = Live
      BY <2>0, <2>1 DEF Live
    <2>. QED
      BY <1>d, <2>0, <2>1, <2>2, <2>3, <2>4
  <1>7. ASSUME NEW l \in Labels, DropFails(l) PROVE Goal
    <2>0. /\ op.kind = "delete" /\ l \in op.todo /\ op.id \in Ids /\ edges[l] # NoLabel /\ phase = "open" /\ ~failed
          /\ blob' = blob /\ base' = base
          /\ \/ log' = log /\ doubt' = doubt
             \/ /\ log' = [log EXCEPT ![l] = Append(log[l], Tombstone(op.id))]
                /\ doubt' = doubt \cup ({l} \X Touching(op.id, edges[l]))
          /\ base[op.id] = Absent
          /\ Touching(op.id, edges[l]) # {}
      BY <1>7, <1>t DEF DropFails, StopHere, Core, Staged, WriteHolds, Ops, Writes, EdgesOk, Dropping
    <2>1. PICK x \in Ids : x = op.id
      BY <2>0
    <2>2. CASE log' = log /\ doubt' = doubt
      BY <1>b, <2>0, <2>2 DEF Live
    <2>3. CASE /\ log' = [log EXCEPT ![l] = Append(log[l], Tombstone(op.id))]
               /\ doubt' = doubt \cup ({l} \X Touching(op.id, edges[l]))
      <3>2. \A k \in Labels : Durable(k)' = IF k = l THEN Durable(k) \ Touching(x, Edges) ELSE Durable(k)
        BY <2>0, <2>1, <2>3, DurableDropped
      <3>3. x \in UNION Edges
        BY <1>t, <2>0, <2>1 DEF Touching
      <3>4. x \notin Live /\ Live' = Live
        BY <2>0, <2>1 DEF Live
      <3>5. edges[l] = Durable(l)
        BY <1>m, <2>0
      <3>6. doubt' = doubt \cup ({l} \X Touching(x, Durable(l)))
        BY <2>1, <2>3, <3>5
      <3>. QED
        BY <1>d, <3>2, <3>3, <3>4, <3>6
    <2>. QED
      BY <2>0, <2>2, <2>3
  <1>8. ASSUME NEW l, NEW e, Appends(l, e) PROVE Goal
    <2>0. /\ l \in Labels /\ e \in Edges /\ e \cap Ids \subseteq Live /\ edges[l] # NoLabel
          /\ blob' = blob /\ base' = base
          /\ log' = [log EXCEPT ![l] = Append(log[l], Item(e))]
          /\ doubt' \in {doubt \ {<<l, e>>}, doubt \cup {<<l, e>>}}
      BY <1>8 DEF Appends, AppendEdge
    <2>1. \A k \in Labels : Durable(k)' = IF k = l THEN Durable(k) \cup {e} ELSE Durable(k)
      BY <2>0, DurableLinked
    <2>2. D' = [D EXCEPT ![l] = D[l] \cup {e}]
      BY <1>e, <2>0, <2>1
    <2>3. Live' = Live
      BY <2>0 DEF Live
    <2>4. Abstract!Link(l, e)
      BY <2>0, <2>2, <2>3 DEF Abstract!Link
    <2>. QED
      BY <2>0, <2>4 DEF Abstract!Next, Goal
  <1>9. ASSUME NEW l, NEW e, NewLabel(l, e) PROVE Goal
    <2>0. /\ phase = "open" /\ l \in Labels /\ l \notin Known
          /\ blob' = [blob EXCEPT ![l] = {}] /\ log' = log /\ doubt' = doubt /\ base' = base
      BY <1>9, <1>m DEF NewLabel, memory, history
    <2>1. \A k \in Labels : k # l => Durable(k)' = Durable(k)
      BY <2>0 DEF Durable, Core, Typed
    <2>2. Durable(l)' = {}
      <4>1. log[l] = <<>> /\ blob'[l] = {}
        BY <2>0 DEF Core, FilesThere, Typed
      <4>2. {} \in SUBSET Edges /\ <<>> \in Seq(Entries)
        OBVIOUS
      <4>3. Merge({}, <<>>) = {}
        BY <4>2, MergeSets
      <4>. QED
        BY <2>0, <4>1, <4>3 DEF Durable
    <2>3. Durable(l) = {}
      BY <2>0, DurableFacts
    <2>4. Live' = Live
      BY <2>0 DEF Live
    <2>. QED
      BY <1>u, <2>0, <2>1, <2>2, <2>3, <2>4
  <1>10. ASSUME LinkManifest PROVE Goal
    <2>1. Live' = Live /\ doubt' = doubt /\ blob' = blob /\ log' = log
      BY <1>10 DEF LinkManifest, history, Live
    <2>. QED
      BY <1>b, <2>1
  <1>11. ASSUME Ends PROVE Goal
    <2>1. Live' = Live /\ doubt' = doubt /\ blob' = blob /\ log' = log
      BY <1>11 DEF Ends, disk, memory, history, Live
    <2>. QED
      BY <1>b, <2>1
  <1>12. ASSUME NEW l, NEW x, Detaches(l, x) PROVE Goal
    <2>0. /\ phase = "open" /\ l \in Labels /\ x \in Ids \cup FarIds /\ x \in FarIds /\ edges[l] # NoLabel
          /\ blob' = blob /\ base' = base /\ Touching(x, edges[l]) # {}
          /\ log' = [log EXCEPT ![l] = Append(log[l], Tombstone(x))]
          /\ \/ doubt' = doubt \ ({l} \X Touching(x, Edges))
             \/ ~failed /\ doubt' = doubt \cup ({l} \X Touching(x, edges[l]))
      BY <1>12, <1>n DEF Detaches, Detach, Idle
    <2>1. \A k \in Labels : Durable(k)' = IF k = l THEN Durable(k) \ Touching(x, Edges) ELSE Durable(k)
      BY <2>0, DurableDropped
    <2>2. x \in UNION Edges
      BY <1>t, <2>0 DEF Touching
    <2>3. x \notin Live /\ Live' = Live
      BY <2>0, Parameters DEF Live
    <2>4. \/ doubt' = doubt \ ({l} \X Touching(x, Edges))
          \/ doubt' = doubt \cup ({l} \X Touching(x, Durable(l)))
      BY <1>m, <2>0
    <2>. QED
      BY <1>d, <2>0, <2>1, <2>2, <2>3, <2>4
  <1>13. ASSUME Compacts PROVE Goal
    <2>1. Live' = Live /\ doubt' = doubt /\ blob' = blob /\ log' = log
      BY <1>13 DEF Compacts, Compact, history, Live
    <2>. QED
      BY <1>b, <2>1
  <1>14. ASSUME ClearLog PROVE Goal
    <2>0. op.kind \in {"compact", "open"} /\ Live' = Live /\ doubt' = doubt /\ op.label \in Labels
      BY <1>14, <1>t, <1>n DEF ClearLog, history, Live, Staged, Ops
    <2>1. PICK m \in Labels : m = op.label
      BY <2>0
    <2>2. /\ \A k \in Labels : k # m => Durable(k)' = Durable(k)
          /\ Durable(m)' = blob[m] /\ blob[m] \in SUBSET Edges
      BY <1>14, <2>1, DurableFolded
    <2>3. \A e \in Edges : <<m, e>> \notin doubt => (e \in Durable(m)' <=> e \in Durable(m))
      <3>1. CASE op.kind = "open"
        BY <1>t, <2>1, <2>2, <3>1 DEF EdgesOk, Refolding, Staged
      <3>2. CASE op.kind = "compact"
        <4>1. phase = "open" /\ m \in Known /\ blob[m] = edges[m]
          BY <1>m, <1>t, <2>1, <3>2, Parameters DEF Staged, Core, FoldHolds, EdgesOk, Refolding
        <4>. QED
          BY <2>2, <4>1 DEF EdgesOk, Agreeing
      <3>. QED
        BY <2>0, <3>1, <3>2
    <2>. QED
      BY <1>s, <2>0, <2>2, <2>3
  <1>15. ASSUME NEW l \in Labels, WriteBlob(l) PROVE Goal
    <2>0. op.kind \in {"compact", "open"} /\ Live' = Live /\ doubt' = doubt /\ l \in op.todo
      BY <1>15, <1>t DEF WriteBlob, memory, history, Live, Staged
    <2>1. /\ \A k \in Labels : k # l => Durable(k)' = Durable(k)
          /\ op.kind = "open" => Durable(l)' = Durable(l)
          /\ op.kind = "compact" => Durable(l)' = Merge(edges[l], log[l])
      BY <1>15, DurableFolded
    <2>2. \A e \in Edges : <<l, e>> \notin doubt => (e \in Durable(l)' <=> e \in Durable(l))
      <3>1. CASE op.kind = "open"
        BY <2>1, <3>1
      <3>2. CASE op.kind = "compact"
        <4>1. phase = "open" /\ l \in Known /\ edges[l] # NoLabel
          BY <1>m, <1>t, <2>0, <3>2 DEF Staged, Core, FoldHolds
        <4>2. PICK B \in SUBSET Edges, E \in SUBSET Edges, s \in Seq(Entries) :
                B = blob[l] /\ E = edges[l] /\ s = log[l] /\ Durable(l) = Merge(B, s)
          BY <4>1, DurableFacts
        <4>3. ASSUME NEW e \in Edges, <<l, e>> \notin doubt PROVE e \in Durable(l)' <=> e \in Durable(l)
          <5>1. e \in E <=> e \in Merge(B, s)
            BY <4>1, <4>2, <4>3 DEF EdgesOk, Agreeing
          <5>2. e \in Merge(E, s) <=> e \in E
            BY <5>1, MergeFacts
          <5>. QED
            BY <2>1, <3>2, <4>2, <5>1, <5>2
        <4>. QED
          BY <4>3
      <3>. QED
        BY <2>0, <3>1, <3>2
    <2>3. Durable(l)' \in SUBSET Edges
      <3>1. Durable(l) \in SUBSET Edges /\ Merge(edges[l], log[l]) \in SUBSET Edges
        BY MergeEdges
      <3>. QED
        BY <2>0, <2>1, <3>1
    <2>. QED
      BY <1>s, <2>0, <2>1, <2>2, <2>3
  <1>16. ASSUME NEW l \in Labels, CreateLabel(l) PROVE Goal
    <2>0. /\ phase = "creating" /\ doubt' = doubt
          /\ log' = [log EXCEPT ![l] = <<>>] /\ blob' = [blob EXCEPT ![l] = {}] /\ base' = base
      BY <1>16, <1>t DEF CreateLabel, memory, history, Staged, Ops
    <2>1. \A k \in Labels : k # l => Durable(k)' = Durable(k)
      BY <2>0 DEF Durable, Core, Typed
    <2>2. Durable(l)' = {} /\ Durable(l) = {}
      <4>1. log'[l] = <<>> /\ blob'[l] = {} /\ log[l] = <<>> /\ blob[l] \in {NoFile, {}}
        BY <2>0 DEF Core, Typed, Blank
      <4>2. {} \in SUBSET Edges /\ <<>> \in Seq(Entries)
        OBVIOUS
      <4>3. Merge({}, <<>>) = {}
        BY <4>2, MergeSets
      <4>. QED
        BY <4>1, <4>3 DEF Durable
    <2>3. Live' = Live
      BY <2>0 DEF Live
    <2>. QED
      BY <1>u, <2>0, <2>1, <2>2, <2>3
  <1>17. ASSUME Creates PROVE Goal
    <2>1. Live' = Live /\ doubt' = doubt /\ blob' = blob /\ log' = log
      BY <1>17 DEF Creates, Create, history, Live
    <2>. QED
      BY <1>b, <2>1
  <1>18. ASSUME CreateEnds PROVE Goal
    <2>1. Live' = Live /\ doubt' = doubt /\ blob' = blob /\ log' = log
      BY <1>18 DEF CreateEnds, history, Live
    <2>. QED
      BY <1>b, <2>1
  <1>19. ASSUME Opens PROVE Goal
    <2>1. Live' = Live /\ doubt' = doubt /\ blob' = blob /\ log' = log
      BY <1>19 DEF Opens, Open, history, Live
    <2>. QED
      BY <1>b, <2>1
  <1>20. ASSUME OpenRefused PROVE Goal
    <2>1. Live' = Live /\ doubt' = doubt /\ blob' = blob /\ log' = log
      BY <1>20 DEF OpenRefused, disk, history, Live
    <2>. QED
      BY <1>b, <2>1
  <1>21. ASSUME OpenEnds PROVE Goal
    <2>1. Live' = Live /\ doubt' = {} /\ blob' = blob /\ log' = log
      BY <1>21 DEF OpenEnds, Live
    <2>2. D' = D
      BY <2>1 DEF Durable
    <2>3. Abstract!Open
      BY <2>1, <2>2 DEF Abstract!Open
    <2>. QED
      BY <2>3 DEF Abstract!Next, Goal
  <1>22. ASSUME Crash PROVE Goal
    <2>1. Live' = Live /\ doubt' = doubt /\ blob' = blob /\ log' = log
      BY <1>22 DEF Crash, disk, Live
    <2>. QED
      BY <1>b, <2>1
  <1>. QED
    BY <1>1, <1>2, <1>3, <1>4, <1>5, <1>6, <1>7, <1>8, <1>9, <1>10, <1>11, <1>12, <1>13, <1>14, <1>15,
       <1>16, <1>17, <1>18, <1>19, <1>20, <1>21, <1>22, StepCases DEF Goal

\* Under each label the edges are what links, deletions and detachings make of them, for any
\* composition of layers; crashes, openings and compactions decide only what is in doubt.
THEOREM LayersKeepEdges == Spec => ImplementsEdgeSet
  <1>1. Core /\ EdgesOk /\ [Next]_vars => [Abstract!Next]_(Abstract!vars)
    <2>. SUFFICES ASSUME Core, EdgesOk, [Next]_vars PROVE [Abstract!Next]_(Abstract!vars)
      OBVIOUS
    <2>1. CASE Next
      BY <2>1, RefinesStep
    <2>2. CASE UNCHANGED vars
      <3>1. base' = base /\ blob' = blob /\ log' = log /\ doubt' = doubt
        BY <2>2 DEF vars, disk, history
      <3>2. UNCHANGED Abstract!vars
        BY <3>1 DEF Abstract!vars, Live, Durable
      <3>. QED
        BY <3>2
    <2>. QED
      BY <2>1, <2>2
  <1>. QED
    BY <1>1, RefinesInit, EdgesHold, PTL DEF Spec, ImplementsEdgeSet, Abstract!Spec
------------------------------------------------------------------------------
(* What readers find                                                       *)

\* How a record is put together in memory, and what an opening would make of it.
Read ==
  \A x \in Ids : base[x] # Absent =>
    /\ Has("scanned") => Get(x) = [base[x] EXCEPT !.val = inner.scanned.cache[inner.scanned.at[x]]]
    /\ ~Has("scanned") => /\ position[x] # 0 => Get(x) = [base[x] EXCEPT !.val = slots[position[x]].val] /\ Found(x) = Get(x)
                          /\ position[x] = 0 => Get(x) = base[x]
    /\ slots = NoFile => Found(x) = base[x]
    /\ slots # NoFile => \A p : LastRow(slots, x, p) => Found(x) = [base[x] EXCEPT !.val = slots[p].val]
    /\ slots # NoFile /\ Rows(slots, x) = {} => Found(x) = base[x]

CoreReads == Core => Read

LEMMA ReadFacts == CoreReads
  <1>. SUFFICES ASSUME Core, NEW x \in Ids, base[x] # Absent
                PROVE  /\ Has("scanned") => Get(x) = [base[x] EXCEPT !.val = inner.scanned.cache[inner.scanned.at[x]]]
                       /\ ~Has("scanned") => /\ position[x] # 0 => Get(x) = [base[x] EXCEPT !.val = slots[position[x]].val] /\ Found(x) = Get(x)
                                             /\ position[x] = 0 => Get(x) = base[x]
                       /\ slots = NoFile => Found(x) = base[x]
                       /\ slots # NoFile => \A p : LastRow(slots, x, p) => Found(x) = [base[x] EXCEPT !.val = slots[p].val]
                       /\ slots # NoFile /\ Rows(slots, x) = {} => Found(x) = base[x]
    BY DEF CoreReads, Read
  <1>1. ASSUME Has("scanned") PROVE Get(x) = [base[x] EXCEPT !.val = inner.scanned.cache[inner.scanned.at[x]]]
    <2>1. inner.scanned.at[x] # 0
      BY <1>1 DEF Core, InnerOk, ColumnOf
    <2>. QED
      BY <1>1, <2>1 DEF Get
  <1>2. ASSUME slots # NoFile
        PROVE  /\ \A p : LastRow(slots, x, p) => Found(x) = [base[x] EXCEPT !.val = slots[p].val]
               /\ Rows(slots, x) = {} => Found(x) = base[x]
    <2>1. slots \in Seq(Slots)
      BY <1>2 DEF Core, Typed
    <2>2. Committed(x) = Rows(slots, x) /\ \A p : LastRow(slots, x, p) => SlotOf(x) = p
      BY <2>1, SlotOfFacts
    <2>3. ASSUME NEW p, LastRow(slots, x, p) PROVE Found(x) = [base[x] EXCEPT !.val = slots[p].val]
      <3>1. Rows(slots, x) # {} /\ SlotOf(x) = p
        BY <2>2, <2>3 DEF LastRow
      <3>. QED
        BY <1>2, <2>2, <3>1 DEF Found
    <2>. QED
      BY <2>2, <2>3 DEF Found
  <1>3. ASSUME ~Has("scanned"), position[x] # 0
        PROVE  Get(x) = [base[x] EXCEPT !.val = slots[position[x]].val] /\ Found(x) = Get(x)
    <2>1. Has("mmap_scanned") /\ LastRow(slots, x, position[x]) /\ slots # NoFile
      BY <1>3, ValueAssumption, GetFacts DEF Core, SlotsOk
    <2>2. Get(x) = [base[x] EXCEPT !.val = slots[position[x]].val]
      BY <1>3, <2>1 DEF Get
    <2>. QED
      BY <1>2, <2>1, <2>2
  <1>4. ~Has("scanned") /\ position[x] = 0 => Get(x) = base[x]
    BY DEF Get
  <1>5. slots = NoFile => Found(x) = base[x]
    BY DEF Found
  <1>. QED
    BY <1>1, <1>2, <1>3, <1>4, <1>5


\* The finer sets of answers: what memory gives and what an opening would find.
Answering ==
  /\ \A x \in Ids : /\ ~Has("scanned") => Found(x) \in allowed[x]
                    /\ phase \in {"open", "opening"} => Get(x) \in allowed[x]
  /\ op.kind \in Writes => op.new \in allowed[op.id]
  /\ op.step = "outside" => Get(op.id) = op.new

LEMMA Patched ==
  /\ \A r \in Records : [r EXCEPT !.val = r.val] = r
  /\ \A r \in Records : \A u \in Vals : \A v \in Vals : [[r EXCEPT !.val = u] EXCEPT !.val = v] = [r EXCEPT !.val = v]
  <1>1. ASSUME NEW r \in Records PROVE [r EXCEPT !.val = r.val] = r
    BY DEF Records
  <1>2. ASSUME NEW r \in Records, NEW u \in Vals, NEW v \in Vals
        PROVE  [[r EXCEPT !.val = u] EXCEPT !.val = v] = [r EXCEPT !.val = v]
    BY DEF Records
  <1>. QED
    BY <1>1, <1>2

LEMMA AnswersInit == Init => Answering
  <1>. SUFFICES ASSUME Init PROVE Answering
    OBVIOUS
  <1>1. op.kind = "none" /\ op.step = "" /\ "none" \notin Writes
    BY NoOpFacts DEF Init, Writes
  <1>2. \A x \in Ids : Found(x) = Absent /\ allowed[x] = {Absent}
    BY DEF Init, Found
  <1>. QED
    BY <1>1, <1>2 DEF Init, Answering

\* What each kind of operation does to what is read, in memory and on file.
LEMMA ReadsStep ==
  ASSUME Core, Next
  PROVE  /\ \A kind, x, r, todo : Starts(kind, x, r, todo) =>
              /\ \A y \in Ids : y # x => Get(y)' = Get(y) /\ Found(y)' = Found(y)
              /\ Get(x)' \in allowed'[x] /\ Found(x)' \in allowed'[x] /\ r \in allowed'[x]
              /\ ~Has("mmap_scanned") => Get(x)' = r
         /\ \A x, v : Updates(x, v) =>
              /\ Get(x)' = [Get(x) EXCEPT !.val = v]
              /\ ~Has("scanned") => Found(x)' = [Get(x) EXCEPT !.val = v]
              /\ \A y \in Ids : y # x => Get(y)' = Get(y) /\ (~Has("scanned") => Found(y)' = Found(y))
         /\ SlotStep =>
              \A y \in Ids : /\ y = op.id => Get(y)' = op.new /\ Found(y)' = op.new
                             /\ y # op.id => Get(y)' = Get(y) /\ Found(y)' = Found(y)
         /\ Compacts => \A x \in Ids : Get(x)' = Get(x) /\ (Has("mmap_scanned") => Found(x)' = Get(x))
  <1>t. /\ op \in Ops /\ Staged /\ base \in [Ids -> Records \cup {Absent}] /\ stack \in Stacks
        /\ allowed \in [Ids -> SUBSET (Records \cup {Absent})] /\ position \in [Ids -> Nat]
        /\ slots # NoFile => slots \in Seq(Slots)
        /\ \A x \in Ids : base[x] # Absent => base[x] \in Records
    BY DEF Core, Typed
  <1>n. NoOp.kind = "none" /\ NoOp.step = "" /\ "none" \notin Writes
    BY NoOpFacts DEF Writes
  <1>c. Core'
    BY CoreStep
  <1>r. Read /\ Read'
    <2>1. CoreReads /\ CoreReads'
      BY ReadFacts, PTL
    <2>. QED
      BY <1>c, <2>1 DEF CoreReads
  <1>a. \A x \in Ids : /\ base[x] = Absent => Get(x) = Absent /\ Found(x) = Absent
                       /\ base'[x] = Absent => Get(x)' = Absent /\ Found(x)' = Absent
    BY DEF Get, Found
  <1>l. Has("scanned") => ~Has("mmap_scanned") /\ ~stack.files
    BY <1>t, Parameters DEF Has
  <1>h. stack' = stack => \A layer : Has(layer)' = Has(layer)
    BY DEF Has
  <1>p. ASSUME NEW y \in Ids, base[y] # Absent
        PROVE  /\ Has("scanned") => Get(y) = [base[y] EXCEPT !.val = inner.scanned.cache[inner.scanned.at[y]]]
               /\ ~Has("scanned") /\ position[y] # 0 => /\ Get(y) = [base[y] EXCEPT !.val = slots[position[y]].val]
                                                       /\ Found(y) = Get(y)
               /\ ~Has("scanned") /\ position[y] = 0 => Get(y) = base[y]
               /\ slots = NoFile => Found(y) = base[y]
               /\ slots # NoFile => \A p : LastRow(slots, y, p) => Found(y) = [base[y] EXCEPT !.val = slots[p].val]
               /\ slots # NoFile /\ Rows(slots, y) = {} => Found(y) = base[y]
    BY <1>p, <1>r DEF Read
  <1>q. ASSUME NEW y \in Ids, base'[y] # Absent, stack' = stack
        PROVE  /\ Has("scanned") => Get(y)' = [base'[y] EXCEPT !.val = inner'.scanned.cache[inner'.scanned.at[y]]]
               /\ ~Has("scanned") /\ position'[y] # 0 => /\ Get(y)' = [base'[y] EXCEPT !.val = slots'[position'[y]].val]
                                                        /\ Found(y)' = Get(y)'
               /\ ~Has("scanned") /\ position'[y] = 0 => Get(y)' = base'[y]
               /\ slots' = NoFile => Found(y)' = base'[y]
               /\ slots' # NoFile => \A p : LastRow(slots', y, p) => Found(y)' = [base'[y] EXCEPT !.val = slots'[p].val]
               /\ slots' # NoFile /\ Rows(slots', y) = {} => Found(y)' = base'[y]
    BY <1>q, <1>r, <1>h DEF Read
  <1>w. op.kind \in Writes => /\ phase = "open" /\ op.id \in Ids /\ op.new = base[op.id]
                              /\ op.kind = "delete" <=> op.new = Absent
    BY <1>t DEF Core, WriteHolds, Staged
  <1>1. ASSUME NEW kind, NEW x, NEW r, NEW todo, Starts(kind, x, r, todo)
        PROVE  /\ \A y \in Ids : y # x => Get(y)' = Get(y) /\ Found(y)' = Found(y)
               /\ Get(x)' \in allowed'[x] /\ Found(x)' \in allowed'[x] /\ r \in allowed'[x]
               /\ ~Has("mmap_scanned") => Get(x)' = r
    <2>0. /\ stack' = stack /\ slots' = slots /\ position' = position /\ phase = "open" /\ phase' = "open"
          /\ x \in Ids /\ r \in MaybeRecords /\ base' = [base EXCEPT ![x] = r]
          /\ allowed' = [allowed EXCEPT ![x] = IF r = Absent THEN {Absent} ELSE Unsettled(x, r)]
          /\ op'.new = r /\ op'.id = x /\ op'.step = IF Has("mmap_scanned") THEN "slot" ELSE "outside"
          /\ inner' = InnerStep(x, Get(x), r)
      BY <1>1 DEF Starts
    <2>1. \A layer : Has(layer)' = Has(layer)
      BY <1>h, <2>0
    <2>2. base'[x] = r /\ \A y \in Ids : y # x => base'[y] = base[y]
      BY <1>t, <2>0
    <2>3. Has("scanned") => /\ r # Absent => inner'.scanned.cache[inner'.scanned.at[x]] = r.val
                            /\ \A y \in Ids : y # x /\ inner.scanned.at[y] # 0 =>
                                 inner'.scanned.cache[inner'.scanned.at[y]] = inner.scanned.cache[inner.scanned.at[y]]
      BY <2>0, InnerStepFacts
    <2>4. ASSUME NEW y \in Ids, y # x PROVE Get(y)' = Get(y) /\ Found(y)' = Found(y)
      <3>1. Found(y)' = Found(y)
        BY <2>0, <2>2, <2>4 DEF Found, SlotOf, Committed
      <3>2. CASE base[y] = Absent
        BY <1>a, <2>2, <2>4, <3>1, <3>2
      <3>3. CASE base[y] # Absent /\ Has("scanned")
        <4>1. inner.scanned.at[y] # 0
          BY <3>3 DEF Core, InnerOk, ColumnOf
        <4>. QED
          BY <1>r, <2>1, <2>2, <2>3, <2>4, <3>1, <3>3, <4>1 DEF Read
      <3>4. CASE base[y] # Absent /\ ~Has("scanned")
        BY <1>r, <2>0, <2>1, <2>2, <2>4, <3>1, <3>4 DEF Read
      <3>. QED
        BY <3>2, <3>3, <3>4
    <2>5. /\ Get(x)' \in allowed'[x] /\ Found(x)' \in allowed'[x] /\ r \in allowed'[x]
          /\ ~Has("mmap_scanned") => Get(x)' = r
      <3>1. CASE r = Absent
        BY <1>a, <1>t, <2>0, <2>2, <3>1
      <3>2. CASE r # Absent
        <4>1. r \in Records /\ allowed'[x] = Unsettled(x, r) /\ [r EXCEPT !.val = r.val] = r
          BY <1>t, <2>0, <3>2, Patched DEF MaybeRecords
        <4>2. r \in Unsettled(x, r)
          BY DEF Unsettled
        <4>3. \A p \in Rows(slots, x) : slots # NoFile => [r EXCEPT !.val = slots[p].val] \in Unsettled(x, r)
          BY DEF Unsettled, Rows, Committed
        <4>4. Found(x)' \in Unsettled(x, r)
          <5>1. CASE slots = NoFile \/ Committed(x) = {}
            BY <2>0, <2>2, <4>2, <5>1 DEF Found, Committed
          <5>2. CASE slots # NoFile /\ Committed(x) # {}
            <6>1. SlotOf(x) \in Committed(x)
              <7>1. slots \in Seq(Slots)
                BY <1>t, <5>2
              <7>2. Committed(x) = Rows(slots, x) /\ \E p : LastRow(slots, x, p) /\ SlotOf(x) = p
                BY <2>0, <5>2, <7>1, SlotOfFacts
              <7>. QED
                BY <7>2 DEF LastRow
            <6>2. Found(x)' = [r EXCEPT !.val = slots[SlotOf(x)].val]
              BY <2>0, <2>2, <3>2, <5>2 DEF Found, Committed, SlotOf
            <6>. QED
              BY <5>2, <6>1, <6>2 DEF Unsettled
          <5>. QED
            BY <5>1, <5>2
        <4>5. CASE Has("scanned")
          <5>0. Get(x)' = [base'[x] EXCEPT !.val = inner'.scanned.cache[inner'.scanned.at[x]]]
            BY <1>q, <2>0, <2>2, <3>2, <4>5
          <5>1. Get(x)' = r
            BY <2>2, <2>3, <3>2, <4>1, <4>5, <5>0
          <5>. QED
            BY <4>1, <4>2, <4>4, <5>1
        <4>6. CASE ~Has("scanned") /\ position[x] = 0
          <5>1. Get(x)' = r
            BY <1>r, <2>0, <2>1, <2>2, <3>2, <4>6 DEF Read
          <5>. QED
            BY <4>1, <4>2, <4>4, <5>1
        <4>7. CASE ~Has("scanned") /\ position[x] # 0
          <5>1. Get(x)' = [r EXCEPT !.val = slots[position[x]].val]
            BY <1>r, <2>0, <2>1, <2>2, <3>2, <4>7 DEF Read
          <5>2. Has("mmap_scanned") /\ position[x] \in Rows(slots, x) /\ slots # NoFile
            <6>1. Has("mmap_scanned") /\ LastRow(slots, x, position[x])
              BY <2>0, <4>7 DEF Core, SlotsOk
            <6>2. slots # NoFile
              BY <2>0, <6>1 DEF Core, SlotsOk
            <6>. QED
              BY <6>1, <6>2 DEF LastRow
          <5>. QED
            BY <4>1, <4>2, <4>3, <4>4, <5>1, <5>2
        <4>. QED
          BY <4>5, <4>6, <4>7
      <3>. QED
        BY <3>1, <3>2
    <2>. QED
      BY <2>4, <2>5
  <1>2. ASSUME NEW x, NEW v, Updates(x, v)
        PROVE  /\ Get(x)' = [Get(x) EXCEPT !.val = v]
               /\ ~Has("scanned") => Found(x)' = [Get(x) EXCEPT !.val = v]
               /\ \A y \in Ids : y # x => Get(y)' = Get(y) /\ (~Has("scanned") => Found(y)' = Found(y))
    <2>0. /\ phase = "open" /\ phase' = "open" /\ op.kind = "none" /\ op.step = "" /\ op' = op
          /\ stack' = stack /\ x \in Ids /\ v \in Vals /\ base[x] \in Records /\ base[x] # Absent /\ position' = position
          /\ allowed' = [allowed EXCEPT ![x] = {[Get(x) EXCEPT !.val = v]}]
      BY <1>2, <1>t DEF Updates, Update, Idle
    <2>1. \A layer : Has(layer)' = Has(layer)
      BY <1>h, <2>0
    <2>2. PICK b \in Records, g \in Records : b = base[x] /\ g = Get(x) /\ g.key = b.key
      BY <2>0, GetFacts
    <2>3. PICK new \in Records : new = [g EXCEPT !.val = v] /\ new = [b EXCEPT !.val = v] /\ new.val = v
      <3>1. /\ [g EXCEPT !.val = v] \in Records /\ [b EXCEPT !.val = v] \in Records
            /\ [g EXCEPT !.val = v].key = g.key /\ [b EXCEPT !.val = v].key = b.key
            /\ [g EXCEPT !.val = v].val = v /\ [b EXCEPT !.val = v].val = v
        BY <2>0, RecordFacts
      <3>2. [g EXCEPT !.val = v] = [b EXCEPT !.val = v]
        BY <2>2, <3>1 DEF Records
      <3>. QED
        BY <3>1, <3>2
    <2>4. /\ Get(x)' = new /\ (~Has("scanned") => Found(x)' = new)
          /\ \A y \in Ids : y # x => Get(y)' = Get(y) /\ (~Has("scanned") => Found(y)' = Found(y))
      <3>1. CASE Has("mmap_scanned")
        <4>1. position[x] # 0 /\ slots' = [slots EXCEPT ![position[x]].val = v] /\ base' = base /\ inner' = inner
          BY <1>2, <3>1 DEF Updates, Update
        <4>2. slots \in Seq(Slots) /\ position[x] \in DOMAIN slots /\ LastRow(slots, x, position[x])
          BY <2>0, <4>1, GetFacts DEF Core, SlotsOk
        <4>3. /\ slots' \in Seq(Slots) /\ slots'[position[x]].val = v
              /\ \A y \in Ids : Rows(slots', y) = Rows(slots, y)
              /\ \A q \in DOMAIN slots : q # position[x] => slots'[q] = slots[q]
          BY <2>0, <4>1, <4>2, SlotRevalued
        <4>4. slots # NoFile /\ slots' # NoFile
          BY <4>2, <4>3, ValueAssumption
        <4>5. Get(x)' = new /\ Found(x)' = new
          <5>1. /\ Get(x)' = [base'[x] EXCEPT !.val = slots'[position'[x]].val] /\ Found(x)' = Get(x)'
                /\ base'[x] = b /\ slots'[position'[x]].val = v
            BY <1>l, <1>q, <2>0, <2>2, <3>1, <4>1, <4>3
          <5>. QED
            BY <2>3, <5>1
        <4>6. ASSUME NEW y \in Ids, y # x PROVE Get(y)' = Get(y) /\ Found(y)' = Found(y)
          <5>1. CASE base[y] = Absent
            BY <1>a, <4>1, <5>1
          <5>2. CASE base[y] # Absent /\ Rows(slots, y) = {}
            <6>1. position[y] = 0
              BY <5>2 DEF Core, SlotsOk, LastRow
            <6>. QED
              BY <1>l, <1>p, <1>q, <2>0, <3>1, <4>1, <4>3, <4>4, <5>2, <6>1
          <5>3. CASE base[y] # Absent /\ Rows(slots, y) # {}
            <6>1. PICK p : p = SlotOf(y) /\ LastRow(slots, y, p)
              BY <4>2, <5>3, SlotOfFacts
            <6>2. p \in DOMAIN slots /\ p # position[x]
              BY <4>2, <4>6, <6>1 DEF LastRow, Rows
            <6>3. LastRow(slots', y, p) /\ slots'[p] = slots[p]
              BY <4>3, <6>1, <6>2 DEF LastRow
            <6>4. Found(y)' = Found(y)
              <7>1. Found(y) = [base[y] EXCEPT !.val = slots[p].val]
                BY <1>p, <4>4, <5>3, <6>1
              <7>2. Found(y)' = [base'[y] EXCEPT !.val = slots'[p].val]
                BY <1>q, <2>0, <4>1, <4>4, <5>3, <6>3
              <7>. QED
                BY <4>1, <6>3, <7>1, <7>2
            <6>5. Get(y)' = Get(y)
              BY <1>l, <1>p, <1>q, <2>0, <3>1, <4>1, <5>3, <6>4
            <6>. QED
              BY <6>4, <6>5
          <5>. QED
            BY <5>1, <5>2, <5>3
        <4>. QED
          BY <4>5, <4>6
      <3>2. CASE Has("scanned")
        <4>1. /\ inner' = [inner EXCEPT !.scanned = ScannedStep(inner.scanned, x, new)] /\ base' = base
              /\ slots' = slots
          BY <1>2, <1>l, <2>2, <2>3, <3>2 DEF Updates, Update
        <4>2. /\ inner.scanned \in Columns /\ ColumnOf(base, inner.scanned) /\ new \in Records \cup {Absent}
              /\ inner \in Inners /\ new # Absent
          BY <3>2, RecordFacts DEF Inners, InnerOk, Core, Typed
        <4>3. PICK c, d : c \in Columns /\ c = inner.scanned /\ d = ScannedStep(c, x, new)
          BY <4>2
        <4>4. /\ d.cache[d.at[x]] = new.val
              /\ \A y \in Ids : y # x /\ c.at[y] # 0 => d.cache[d.at[y]] = c.cache[c.at[y]]
          BY <1>t, <2>0, <4>2, <4>3, ScannedFacts
        <4>5. inner'.scanned = d
          BY <4>1, <4>2, <4>3 DEF Inners
        <4>6. Get(x)' = new
          <5>1. Get(x)' = [base'[x] EXCEPT !.val = inner'.scanned.cache[inner'.scanned.at[x]]] /\ base'[x] = b
            BY <1>q, <2>0, <2>2, <3>2, <4>1
          <5>2. inner'.scanned.cache[inner'.scanned.at[x]] = v
            BY <2>3, <4>4, <4>5
          <5>. QED
            BY <2>3, <5>1, <5>2
        <4>7. ASSUME NEW y \in Ids, y # x PROVE Get(y)' = Get(y)
          <5>1. CASE base[y] = Absent
            BY <1>a, <4>1, <5>1
          <5>2. CASE base[y] # Absent
            <6>1. c.at[y] # 0
              BY <4>2, <4>3, <5>2 DEF ColumnOf
            <6>2. base'[y] = base[y] /\ base'[y] # Absent
              BY <4>1, <5>2
            <6>3. Get(y) = [base[y] EXCEPT !.val = c.cache[c.at[y]]]
              BY <1>p, <3>2, <4>3, <5>2
            <6>4. Get(y)' = [base[y] EXCEPT !.val = d.cache[d.at[y]]]
              BY <1>q, <2>0, <3>2, <4>5, <6>2
            <6>. QED
              BY <4>4, <4>7, <6>1, <6>3, <6>4
          <5>. QED
            BY <5>1, <5>2
        <4>. QED
          BY <3>2, <4>6, <4>7
      <3>3. CASE ~Has("mmap_scanned") /\ ~Has("scanned")
        <4>1. base' = [base EXCEPT ![x].val = v] /\ inner' = inner /\ slots' = slots
          BY <1>2, <3>3 DEF Updates, Update
        <4>2. base'[x] = new /\ \A y \in Ids : y # x => base'[y] = base[y]
          BY <1>t, <2>0, <2>2, <2>3, <4>1
        <4>3. slots = NoFile /\ \A y \in Ids : position[y] = 0
          BY <3>3 DEF Core, SlotsOk
        <4>4. new # Absent
          BY RecordFacts
        <4>5. Get(x)' = new /\ Found(x)' = new
          BY <1>q, <2>0, <3>3, <4>2, <4>3, <4>4, <4>1
        <4>6. ASSUME NEW y \in Ids, y # x PROVE Get(y)' = Get(y) /\ Found(y)' = Found(y)
          <5>1. CASE base[y] = Absent
            BY <1>a, <4>2, <4>6, <5>1
          <5>2. CASE base[y] # Absent
            <6>1. base'[y] = base[y] /\ base'[y] # Absent /\ slots' = NoFile /\ position'[y] = 0
              BY <2>0, <4>1, <4>2, <4>3, <4>6, <5>2
            <6>2. Get(y) = base[y] /\ Found(y) = base[y]
              BY <1>p, <3>3, <4>3, <5>2
            <6>3. Get(y)' = base'[y] /\ Found(y)' = base'[y]
              BY <1>q, <2>0, <3>3, <6>1
            <6>. QED
              BY <6>1, <6>2, <6>3
          <5>. QED
            BY <5>1, <5>2
        <4>. QED
          BY <4>5, <4>6
      <3>. QED
        BY <3>1, <3>2, <3>3
    <2>. QED
      BY <2>2, <2>3, <2>4
  <1>3. ASSUME SlotStep
        PROVE  \A y \in Ids : /\ y = op.id => Get(y)' = op.new /\ Found(y)' = op.new
                              /\ y # op.id => Get(y)' = Get(y) /\ Found(y)' = Found(y)
    <2>0. /\ stack' = stack /\ base' = base /\ allowed' = allowed /\ phase = "open" /\ phase' = "open" /\ op.kind \in Writes
          /\ op'.id = op.id /\ op'.new = op.new /\ op.step = "slot" /\ op'.kind = op.kind /\ op'.step = "outside"
          /\ Has("mmap_scanned") /\ ~Has("scanned") /\ op.id \in Ids /\ op.new = base[op.id]
          /\ (op.kind = "delete" <=> op.new = Absent)
      BY <1>3, <1>t, <1>l, <1>w DEF SlotStep, history, Staged, Ops, Core, WriteHolds
    <2>1. \A layer : Has(layer)' = Has(layer)
      BY <1>h, <2>0
    <2>2. PICK x \in Ids : x = op.id
      BY <2>0
    <2>3. slots \in Seq(Slots) /\ slots # NoFile
      BY <1>t, <2>0 DEF Core, SlotsOk
    <2>4. \A y \in Ids : position[y] # 0 => LastRow(slots, y, position[y]) /\ position[y] \in DOMAIN slots
      BY GetFacts DEF Core, SlotsOk
    <2>5. SlotsOk' /\ slots' # NoFile
      BY <1>c, <2>0, <2>1 DEF Core, SlotsOk
    <2>6. Get(x)' = op.new /\ Found(x)' = op.new
      <3>1. CASE op.new = Absent
        BY <1>a, <2>0, <2>2, <3>1
      <3>2. CASE op.new # Absent
        <4>1. op.kind \in {"insert", "replace"} /\ base[x] \in Records /\ base[x] # Absent
          BY <1>t, <2>0, <2>2, <3>2 DEF Writes
        <4>2. position'[x] # 0 /\ slots'[position'[x]].val = base[x].val
          BY <2>0, <2>1, <2>2, <2>5, <4>1 DEF SlotsOk
        <4>3. [base[x] EXCEPT !.val = base[x].val] = base[x]
          BY <4>1, Patched
        <4>. QED
          BY <1>r, <2>0, <2>1, <2>2, <4>1, <4>2, <4>3 DEF Read
      <3>. QED
        BY <3>1, <3>2
    <2>7. ASSUME NEW y \in Ids, y # x PROVE Get(y)' = Get(y) /\ Found(y)' = Found(y)
      <3>0. position'[y] = position[y] /\ Rows(slots', y) = Rows(slots, y) /\ \A p \in Rows(slots, y) : slots'[p] = slots[p]
        <4>1. CASE op.kind = "insert"
          <5>1. PICK v, n : v \in Vals /\ v = op.new.val /\ n = Len(slots) + 1
            BY <1>t, <2>0, <2>2, <4>1, RecordFacts
          <5>2. slots' = Append(slots, Slot(x, v)) /\ position' = [position EXCEPT ![x] = n]
            BY <1>3, <2>2, <4>1, <5>1 DEF SlotStep
          <5>3. /\ \A z \in Ids : z # x => Rows(slots', z) = Rows(slots, z)
                /\ \A p \in DOMAIN slots : slots'[p] = slots[p]
            <6>1. PICK sl \in Seq(Slots) : sl = slots
              BY <2>3
            <6>2. /\ \A z \in Ids : z # x => Rows(Append(sl, Slot(x, v)), z) = Rows(sl, z)
                  /\ \A p \in DOMAIN sl : Append(sl, Slot(x, v))[p] = sl[p]
              BY ONLY <5>1, sl \in Seq(Slots), x \in Ids, SlotFacts
            <6>. QED
              BY <5>2, <6>1, <6>2
          <5>. QED
            BY <1>t, <2>7, <5>2, <5>3 DEF Rows
        <4>2. CASE op.kind = "replace"
          <5>1. PICK v \in Vals : v = op.new.val
            BY <1>t, <2>0, <2>2, <4>2, RecordFacts
          <5>2. position[x] # 0 /\ slots' = [slots EXCEPT ![position[x]].val = v] /\ position' = position
            BY <1>3, <2>2, <4>2, <5>1 DEF SlotStep
          <5>3. /\ \A z \in Ids : Rows(slots', z) = Rows(slots, z)
                /\ \A q \in DOMAIN slots : q # position[x] => slots'[q] = slots[q]
            BY <2>3, <2>4, <5>2, SlotRevalued
          <5>4. \A p \in Rows(slots, y) : p # position[x] /\ p \in DOMAIN slots
            BY <2>4, <2>7, <5>2 DEF LastRow, Rows
          <5>. QED
            BY <5>2, <5>3, <5>4
        <4>3. CASE op.kind = "delete"
          <5>1. /\ slots' = IF position[x] = 0 THEN slots ELSE [slots EXCEPT ![position[x]].live = FALSE]
                /\ position' = [position EXCEPT ![x] = 0]
            BY <1>3, <2>2, <4>3 DEF SlotStep
          <5>2. CASE position[x] = 0
            BY <1>t, <2>7, <5>1, <5>2
          <5>3. CASE position[x] # 0
            <6>1. /\ \A z \in Ids : Rows(slots', z) = Rows(slots, z) \ {position[x]}
                  /\ \A q \in DOMAIN slots : q # position[x] => slots'[q] = slots[q]
              BY <2>3, <2>4, <5>1, <5>3, SlotRetired
            <6>2. \A p \in Rows(slots, y) : p # position[x] /\ p \in DOMAIN slots
              BY <2>4, <2>7, <5>3 DEF LastRow, Rows
            <6>3. position'[y] = position[y]
              BY <1>t, <2>7, <5>1
            <6>4. Rows(slots', y) = Rows(slots, y)
              BY <6>1, <6>2
            <6>. QED
              BY <6>1, <6>2, <6>3, <6>4
          <5>. QED
            BY <5>2, <5>3
        <4>. QED
          BY <2>0, <4>1, <4>2, <4>3 DEF Writes
      <3>1. CASE base[y] = Absent
        BY <1>a, <2>0, <3>1
      <3>2. CASE base[y] # Absent /\ Rows(slots, y) = {}
        <4>1. position[y] = 0
          BY <2>4, <3>2 DEF LastRow
        <4>. QED
          BY <1>r, <2>0, <2>1, <2>3, <2>5, <3>0, <3>2, <4>1 DEF Read
      <3>3. CASE base[y] # Absent /\ Rows(slots, y) # {}
        <4>1. PICK p : p = SlotOf(y) /\ LastRow(slots, y, p)
          BY <2>3, <3>3, SlotOfFacts
        <4>2. LastRow(slots', y, p) /\ slots'[p] = slots[p]
          BY <3>0, <4>1 DEF LastRow
        <4>3. Found(y)' = Found(y)
          BY <1>r, <2>0, <2>3, <2>5, <3>3, <4>1, <4>2 DEF Read
        <4>4. Get(y)' = Get(y)
          BY <1>r, <2>0, <2>1, <3>0, <3>3, <4>3 DEF Read
        <4>. QED
          BY <4>3, <4>4
      <3>. QED
        BY <3>1, <3>2, <3>3
    <2>. QED
      BY <2>2, <2>6, <2>7
  <1>4. ASSUME Compacts
        PROVE  \A x \in Ids : Get(x)' = Get(x) /\ (Has("mmap_scanned") => Found(x)' = Get(x))
    <2>0. stack' = stack /\ base' = base /\ inner' = inner
      BY <1>4 DEF Compacts, Compact, Idle, history
    <2>1. \A layer : Has(layer)' = Has(layer)
      BY <1>h, <2>0
    <2>2. CASE ~Has("mmap_scanned")
      <3>1. slots' = slots /\ position' = position
        BY <1>4, <2>2 DEF Compacts, Compact
      <3>2. ASSUME NEW x \in Ids PROVE Get(x)' = Get(x)
        BY <2>0, <2>1, <3>1 DEF Get
      <3>. QED
        BY <2>2, <3>2
    <2>3. CASE Has("mmap_scanned")
      <3>1. /\ slots' \in Seq(Slots)
            /\ \A x \in Ids :
                 /\ position[x] = 0 => position'[x] = 0 /\ Rows(slots', x) = {}
                 /\ position[x] # 0 => /\ position'[x] # 0 /\ LastRow(slots', x, position'[x])
                                       /\ slots'[position'[x]] = slots[position[x]]
        BY <1>4, <2>3, CompactFacts DEF Compacts
      <3>2. slots' # NoFile /\ ~Has("scanned")
        BY <1>l, <2>3, <3>1, ValueAssumption
      <3>3. ASSUME NEW x \in Ids PROVE Get(x)' = Get(x) /\ Found(x)' = Get(x)
        <4>1. CASE base[x] = Absent
          BY <1>a, <2>0, <4>1
        <4>2. CASE base[x] # Absent /\ position[x] = 0
          BY <1>r, <2>0, <2>1, <3>1, <3>2, <4>2 DEF Read
        <4>3. CASE base[x] # Absent /\ position[x] # 0
          BY <1>r, <2>0, <2>1, <3>1, <3>2, <4>3 DEF Read
        <4>. QED
          BY <4>1, <4>2, <4>3
      <3>. QED
        BY <3>3
    <2>. QED
      BY <2>2, <2>3
  <1>. QED
    BY <1>1, <1>2, <1>3, <1>4

LEMMA AnswersStep ==
  ASSUME Core, Answering, Next
  PROVE  Answering'
  <1>t. /\ op \in Ops /\ Staged /\ base \in [Ids -> Records \cup {Absent}] /\ stack \in Stacks
        /\ allowed \in [Ids -> SUBSET (Records \cup {Absent})] /\ position \in [Ids -> Nat]
        /\ slots # NoFile => slots \in Seq(Slots)
        /\ \A x \in Ids : base[x] # Absent => base[x] \in Records
    BY DEF Core, Typed
  <1>n. NoOp.kind = "none" /\ NoOp.step = "" /\ "none" \notin Writes
    BY NoOpFacts DEF Writes
  <1>c. Core'
    BY CoreStep
  <1>r. Read /\ Read'
    <2>1. CoreReads /\ CoreReads'
      BY ReadFacts, PTL
    <2>. QED
      BY <1>c, <2>1 DEF CoreReads
  <1>a. \A x \in Ids : /\ base[x] = Absent => Get(x) = Absent /\ Found(x) = Absent
                       /\ base'[x] = Absent => Get(x)' = Absent /\ Found(x)' = Absent
    BY DEF Get, Found
  <1>l. Has("scanned") => ~Has("mmap_scanned") /\ ~stack.files
    BY <1>t, Parameters DEF Has
  <1>. DEFINE Still == /\ stack' = stack /\ base' = base /\ inner' = inner /\ position' = position /\ slots' = slots
              Frame == /\ Still /\ allowed' = allowed
                       /\ phase' \in {"open", "opening"} => phase \in {"open", "opening"}
                       /\ op'.kind \in Writes => op.kind \in Writes /\ op'.id = op.id /\ op'.new = op.new
                       /\ op'.step = "outside" => op.step = "outside" /\ op'.id = op.id /\ op'.new = op.new
  <1>s. ASSUME Still PROVE \A x \in Ids : Get(x)' = Get(x) /\ Found(x)' = Found(x)
    BY <1>s DEF Get, Found, Has, SlotOf, Committed
  <1>h. stack' = stack => \A layer : Has(layer)' = Has(layer)
    BY DEF Has
  <1>f. ASSUME Frame PROVE Answering'
    BY <1>f, <1>s, <1>h, <1>t DEF Answering, Core, WriteHolds, Staged
  <1>w. op.kind \in Writes => /\ phase = "open" /\ op.id \in Ids /\ op.new = base[op.id]
                              /\ op.kind = "delete" <=> op.new = Absent
    BY <1>t DEF Core, WriteHolds, Staged
  <1>. HIDE DEF Frame, Still
  <1>1. ASSUME NEW kind, NEW x, NEW r, NEW todo, Starts(kind, x, r, todo) PROVE Answering'
    <2>0. /\ stack' = stack /\ slots' = slots /\ position' = position /\ phase = "open" /\ phase' = "open"
          /\ x \in Ids /\ r \in MaybeRecords /\ base' = [base EXCEPT ![x] = r]
          /\ allowed' = [allowed EXCEPT ![x] = IF r = Absent THEN {Absent} ELSE Unsettled(x, r)]
          /\ op'.new = r /\ op'.id = x /\ op'.step = IF Has("mmap_scanned") THEN "slot" ELSE "outside"
          /\ inner' = InnerStep(x, Get(x), r)
      BY <1>1 DEF Starts
    <2>1. \A layer : Has(layer)' = Has(layer)
      BY <1>h, <2>0
    <2>4. \A y \in Ids : y # x => Get(y)' = Get(y) /\ Found(y)' = Found(y)
      BY <1>1, ReadsStep
    <2>5. /\ Get(x)' \in allowed'[x] /\ Found(x)' \in allowed'[x] /\ r \in allowed'[x]
          /\ ~Has("mmap_scanned") => Get(x)' = r
      BY <1>1, ReadsStep
    <2>6. \A y \in Ids : y # x => allowed'[y] = allowed[y]
      BY <1>t, <2>0
    <2>7. \A y \in Ids : (~Has("scanned") => Found(y)' \in allowed'[y]) /\ Get(y)' \in allowed'[y]
      BY <2>0, <2>4, <2>5, <2>6 DEF Answering
    <2>. QED
      BY <2>0, <2>1, <2>5, <2>7 DEF Answering
  <1>2. ASSUME NEW x, NEW v, Updates(x, v) PROVE Answering'
    <2>0. /\ phase = "open" /\ phase' = "open" /\ op.kind = "none" /\ op.step = "" /\ op' = op
          /\ stack' = stack /\ x \in Ids /\ v \in Vals /\ base[x] \in Records /\ base[x] # Absent /\ position' = position
          /\ allowed' = [allowed EXCEPT ![x] = {[Get(x) EXCEPT !.val = v]}]
      BY <1>2, <1>t DEF Updates, Update, Idle
    <2>1. \A layer : Has(layer)' = Has(layer)
      BY <1>h, <2>0
    <2>4. /\ Get(x)' = [Get(x) EXCEPT !.val = v]
          /\ ~Has("scanned") => Found(x)' = [Get(x) EXCEPT !.val = v]
          /\ \A y \in Ids : y # x => Get(y)' = Get(y) /\ (~Has("scanned") => Found(y)' = Found(y))
      BY <1>2, ReadsStep
    <2>5. allowed'[x] = {[Get(x) EXCEPT !.val = v]} /\ \A y \in Ids : y # x => allowed'[y] = allowed[y]
      BY <1>t, <2>0
    <2>6. \A y \in Ids : (~Has("scanned") => Found(y)' \in allowed'[y]) /\ Get(y)' \in allowed'[y]
      BY <2>0, <2>4, <2>5 DEF Answering
    <2>. QED
      BY <1>n, <2>0, <2>1, <2>6 DEF Answering
  <1>3. ASSUME SlotStep PROVE Answering'
    <2>0. /\ stack' = stack /\ base' = base /\ allowed' = allowed /\ phase = "open" /\ phase' = "open" /\ op.kind \in Writes
          /\ op'.id = op.id /\ op'.new = op.new /\ op.step = "slot" /\ op'.kind = op.kind /\ op'.step = "outside"
          /\ Has("mmap_scanned") /\ ~Has("scanned") /\ op.id \in Ids /\ op.new = base[op.id]
          /\ (op.kind = "delete" <=> op.new = Absent)
      BY <1>3, <1>t, <1>l, <1>w DEF SlotStep, history, Staged, Ops, Core, WriteHolds
    <2>1. \A layer : Has(layer)' = Has(layer)
      BY <1>h, <2>0
    <2>2. PICK x \in Ids : x = op.id
      BY <2>0
    <2>6. Get(x)' = op.new /\ Found(x)' = op.new
      BY <1>3, <2>2, ReadsStep
    <2>7. ASSUME NEW y \in Ids, y # x PROVE Get(y)' = Get(y) /\ Found(y)' = Found(y)
      BY <1>3, <2>2, <2>7, ReadsStep
    <2>8. \A y \in Ids : Found(y)' \in allowed[y] /\ Get(y)' \in allowed[y]
      BY <2>0, <2>2, <2>6, <2>7 DEF Answering
    <2>. QED
      BY <2>0, <2>1, <2>2, <2>6, <2>8 DEF Answering
  <1>4. ASSUME SlotFails PROVE Answering'
    <2>1. Frame
      BY <1>4, <1>t, <1>n DEF SlotFails, StopHere, memory, Still, Frame, Staged, Ops, Writes
    <2>. QED
      BY <1>f, <2>1
  <1>5. ASSUME Finish PROVE Answering'
    <2>0. /\ Still /\ stack' = stack /\ phase = "open" /\ op.kind \in Writes /\ op.step = "outside" /\ op'.kind = "none" /\ op'.step = ""
          /\ allowed' = [allowed EXCEPT ![op.id] = {op.new}]
      BY <1>5, <1>t, <1>n DEF Finish, disk, Staged, Still
    <2>1. PICK x \in Ids : x = op.id
      BY <1>w, <2>0
    <2>2. Get(x) = op.new
      BY <2>0, <2>1 DEF Answering
    <2>3. ~Has("scanned") => Found(x) = op.new
      <3>. SUFFICES ASSUME ~Has("scanned") PROVE Found(x) = op.new
        OBVIOUS
      <3>1. CASE op.new = Absent
        BY <1>a, <1>w, <2>0, <2>1, <3>1
      <3>2. CASE op.new # Absent /\ Has("mmap_scanned")
        <4>1. position[x] # 0 /\ base[x] # Absent
          BY <1>w, <2>0, <2>1, <3>2 DEF Core, SlotsOk, Writes
        <4>. QED
          BY <1>r, <2>2, <4>1 DEF Read
      <3>3. CASE op.new # Absent /\ ~Has("mmap_scanned")
        <4>1. slots = NoFile /\ base[x] # Absent /\ op.new = base[x]
          BY <1>w, <2>0, <2>1, <3>3 DEF Core, SlotsOk
        <4>. QED
          BY <1>r, <4>1 DEF Read
      <3>. QED
        BY <3>1, <3>2, <3>3
    <2>4. allowed'[x] = {op.new} /\ \A y \in Ids : y # x => allowed'[y] = allowed[y]
      BY <1>t, <2>0, <2>1
    <2>5. \A y \in Ids : (~Has("scanned") => Found(y)' \in allowed'[y]) /\ Get(y)' \in allowed'[y]
      BY <1>s, <2>0, <2>2, <2>3, <2>4 DEF Answering
    <2>. QED
      BY <1>h, <1>n, <2>0, <2>5 DEF Answering
  <1>6. ASSUME NEW l \in Labels, DropEdges(l) PROVE Answering'
    <2>1. Frame
      BY <1>6, <1>t, <1>n DEF DropEdges, Still, Frame, Staged, Ops, Writes
    <2>. QED
      BY <1>f, <2>1
  <1>7. ASSUME NEW l \in Labels, DropFails(l) PROVE Answering'
    <2>1. Frame
      BY <1>7, <1>t, <1>n DEF DropFails, StopHere, memory, Still, Frame, Staged, Ops, Writes
    <2>. QED
      BY <1>f, <2>1
  <1>8. ASSUME NEW l, NEW e, Appends(l, e) PROVE Answering'
    <2>1. Frame
      BY <1>8, <1>t, <1>n DEF Appends, AppendEdge, Still, Frame, Staged, Ops, Writes
    <2>. QED
      BY <1>f, <2>1
  <1>9. ASSUME NEW l, NEW e, NewLabel(l, e) PROVE Answering'
    <2>1. Frame
      BY <1>9, <1>t, <1>n DEF NewLabel, memory, history, Still, Frame, Staged, Ops, Writes
    <2>. QED
      BY <1>f, <2>1
  <1>10. ASSUME LinkManifest PROVE Answering'
    <2>1. Frame
      BY <1>10, <1>t, <1>n DEF LinkManifest, history, Still, Frame, Staged, Ops, Writes
    <2>. QED
      BY <1>f, <2>1
  <1>11. ASSUME Ends PROVE Answering'
    <2>1. Frame
      BY <1>11, <1>t, <1>n DEF Ends, disk, memory, history, Still, Frame, Staged, Ops, Writes
    <2>. QED
      BY <1>f, <2>1
  <1>12. ASSUME NEW l, NEW x, Detaches(l, x) PROVE Answering'
    <2>1. Frame
      BY <1>12, <1>t, <1>n DEF Detaches, Detach, Still, Frame, Staged, Ops, Writes
    <2>. QED
      BY <1>f, <2>1
  <1>13. ASSUME Compacts PROVE Answering'
    <2>0. /\ stack' = stack /\ base' = base /\ inner' = inner /\ allowed' = allowed /\ op'.kind = "compact" /\ op'.step = "fold"
          /\ phase = "open" /\ phase' = "open"
      BY <1>13 DEF Compacts, Compact, Idle, history
    <2>1. \A layer : Has(layer)' = Has(layer)
      BY <1>h, <2>0
    <2>2. CASE ~Has("mmap_scanned")
      <3>1. Frame
        BY <1>13, <2>0, <2>2 DEF Compacts, Compact, Frame, Still, Writes
      <3>. QED
        BY <1>f, <3>1
    <2>3. CASE Has("mmap_scanned")
      <3>1. ~Has("scanned") /\ \A x \in Ids : Get(x)' = Get(x) /\ Found(x)' = Get(x)
        BY <1>l, <1>13, <2>3, ReadsStep
      <3>. QED
        BY <2>0, <2>1, <3>1 DEF Answering, Writes
    <2>. QED
      BY <2>2, <2>3
  <1>14. ASSUME ClearLog PROVE Answering'
    <2>1. Frame
      BY <1>14, <1>t, <1>n DEF ClearLog, history, Still, Frame, Staged, Ops, Writes
    <2>. QED
      BY <1>f, <2>1
  <1>15. ASSUME NEW l \in Labels, WriteBlob(l) PROVE Answering'
    <2>1. Frame
      BY <1>15, <1>t, <1>n DEF WriteBlob, memory, history, Still, Frame, Staged, Ops, Writes
    <2>. QED
      BY <1>f, <2>1
  <1>16. ASSUME NEW l \in Labels, CreateLabel(l) PROVE Answering'
    <2>1. Frame
      BY <1>16, <1>t, <1>n DEF CreateLabel, memory, history, Still, Frame, Staged, Ops, Writes
    <2>. QED
      BY <1>f, <2>1
  <1>17. ASSUME Creates PROVE Answering'
    <2>1. Frame
      BY <1>17, <1>t, <1>n DEF Creates, Create, memory, history, Still, Frame, Staged, Ops, Writes
    <2>. QED
      BY <1>f, <2>1
  <1>18. ASSUME CreateEnds PROVE Answering'
    <2>0. /\ base' = base /\ allowed' = allowed /\ op'.kind = "none" /\ op'.step = ""
          /\ \A x \in Ids : base[x] = Absent /\ allowed[x] = {Absent}
      BY <1>18, <1>t, <1>n DEF CreateEnds, history, Staged, Core, Blank
    <2>1. \A x \in Ids : Get(x)' = Absent /\ Found(x)' = Absent
      BY <1>a, <2>0
    <2>. QED
      BY <1>n, <2>0, <2>1 DEF Answering
  <1>19. ASSUME Opens PROVE Answering'
    <2>0. /\ stack' = stack /\ base' = base /\ allowed' = allowed /\ op'.kind = "open" /\ op'.step = "fold"
          /\ phase \in {"down", "refused"} /\ created /\ phase' = "opening"
      BY <1>19 DEF Opens, Open, history
    <2>1. \A layer : Has(layer)' = Has(layer)
      BY <1>h, <2>0
    <2>2. ~Has("scanned")
      BY <1>l, <1>t, <2>0 DEF Staged
    <2>3. ASSUME NEW x \in Ids PROVE Get(x)' = Found(x) /\ Found(x)' = Found(x)
      <3>1. CASE base[x] = Absent
        BY <1>a, <2>0, <3>1
      <3>2. CASE base[x] # Absent /\ Has("mmap_scanned")
        <4>1. /\ slots \in Seq(Slots) /\ slots' \in Seq(Slots)
              /\ position'[x] # 0 /\ slots'[position'[x]].val = Found(x).val
          BY <1>19, <3>2, ReopenedFacts
        <4>2. Get(x)' = [base[x] EXCEPT !.val = Found(x).val] /\ Found(x)' = Get(x)'
          BY <1>r, <2>0, <2>1, <2>2, <3>2, <4>1 DEF Read
        <4>3. PICK b \in Records, v \in Vals : b = base[x] /\ (Found(x) = b \/ Found(x) = [b EXCEPT !.val = v])
          <5>1. base[x] \in Records /\ 0 \in Vals
            BY <1>t, <3>2 DEF Vals
          <5>2. ASSUME NEW p, LastRow(slots, x, p) PROVE slots[p].val \in Vals
            <6>1. p \in DOMAIN slots
              BY <5>2 DEF LastRow, Rows
            <6>2. slots[p] \in Slots
              BY <4>1, <6>1
            <6>. QED
              BY <6>2 DEF Slots
          <5>3. slots # NoFile
            BY <4>1, ValueAssumption
          <5>4. CASE Rows(slots, x) = {}
            BY <1>r, <3>2, <5>1, <5>3, <5>4 DEF Read
          <5>5. CASE Rows(slots, x) # {}
            <6>1. PICK p : p = SlotOf(x) /\ LastRow(slots, x, p)
              BY <4>1, <5>5, SlotOfFacts
            <6>. QED
              BY <1>r, <3>2, <5>1, <5>2, <5>3, <5>5, <6>1 DEF Read
          <5>. QED
            BY <5>4, <5>5
        <4>4. [b EXCEPT !.val = Found(x).val] = Found(x)
          <5>1. CASE Found(x) = b
            BY <5>1, Patched
          <5>2. CASE Found(x) = [b EXCEPT !.val = v]
            BY <5>2, RecordFacts
          <5>. QED
            BY <4>3, <5>1, <5>2
        <4>. QED
          BY <4>2, <4>3, <4>4
      <3>3. CASE base[x] # Absent /\ ~Has("mmap_scanned")
        <4>1. slots' = slots /\ position' = position /\ slots = NoFile /\ position[x] = 0
          BY <1>19, <3>3 DEF Opens, Open, SlotsReopened, Core, SlotsOk
        <4>. QED
          BY <1>r, <2>0, <2>1, <2>2, <3>3, <4>1 DEF Read
      <3>. QED
        BY <3>1, <3>2, <3>3
    <2>. QED
      BY <2>0, <2>1, <2>2, <2>3 DEF Answering, Writes
  <1>20. ASSUME OpenRefused PROVE Answering'
    <2>1. Frame
      BY <1>20, <1>t, <1>n DEF OpenRefused, disk, memory, history, Still, Frame, Staged, Ops, Writes
    <2>. QED
      BY <1>f, <2>1
  <1>21. ASSUME OpenEnds PROVE Answering'
    <2>1. Frame
      BY <1>21, <1>t, <1>n DEF OpenEnds, Still, Frame, Staged, Ops, Writes
    <2>. QED
      BY <1>f, <2>1
  <1>22. ASSUME Crash PROVE Answering'
    <2>0. /\ stack' = stack /\ base' = base /\ slots' = slots /\ allowed' = allowed /\ phase' = "down"
          /\ op'.kind = "none" /\ op'.step = ""
      BY <1>22, <1>n DEF Crash, disk
    <2>1. ASSUME NEW x \in Ids PROVE SlotOf(x)' = SlotOf(x) /\ Committed(x)' = Committed(x)
      <3>1. Committed(x)' = Committed(x)
        BY <2>0 DEF Committed
      <3>. QED
        BY <3>1 DEF SlotOf
    <2>2. \A x \in Ids : Found(x)' = Found(x)
      BY <2>0, <2>1 DEF Found
    <2>. QED
      BY <1>h, <1>n, <2>0, <2>2 DEF Answering
  <1>. QED
    BY <1>1, <1>2, <1>3, <1>4, <1>5, <1>6, <1>7, <1>8, <1>9, <1>10, <1>11, <1>12, <1>13, <1>14, <1>15,
       <1>16, <1>17, <1>18, <1>19, <1>20, <1>21, <1>22, StepCases

LEMMA AnswersHold == Spec => []Answering
  <1>1. Core /\ Answering /\ [Next]_vars => Answering'
    <2>. SUFFICES ASSUME Core, Answering, [Next]_vars PROVE Answering'
      OBVIOUS
    <2>1. CASE Next
      BY <2>1, AnswersStep
    <2>2. CASE UNCHANGED vars
      <3>1. UNCHANGED <<stack, base, slots, inner, position, phase, op, allowed>>
        BY <2>2 DEF vars, disk, memory, history
      <3>2. \A x : Get(x)' = Get(x) /\ Found(x)' = Found(x)
        BY <3>1 DEF Get, Found, Has, SlotOf, Committed
      <3>. QED
        BY <3>1, <3>2 DEF Answering, Has
    <2>. QED
      BY <2>1, <2>2
  <1>. QED
    BY <1>1, AnswersInit, CoreHolds, PTL DEF Spec

\* A reader finds of every record what the last operation on it left, or, if that was cut
\* short, one of the records its crash may leave (INS-FR-005, REP-FR-004).
THEOREM AnswersWereLeft == Spec => []AnswersStand
  <1>1. Answering => AnswersStand
    BY DEF Answering, AnswersStand, Idle
  <1>. QED
    BY <1>1, AnswersHold, PTL
------------------------------------------------------------------------------
(* The layers outside                                                      *)

\* What the layers outside have of each record: an operation under way reaches them last.
Seen == [x \in Ids |-> IF op.kind \in Writes /\ x = op.id THEN op.old ELSE Get(x)]

OuterOk == phase = "open" /\ ~failed => OuterExact(outer, Seen)

LEMMA SeenIsMap == Core => Seen \in Maps
  <1>. SUFFICES ASSUME Core PROVE Seen \in Maps
    OBVIOUS
  <1>1. op.old \in MaybeRecords
    BY DEF Core, Typed, Ops, MaybeRecords
  <1>2. \A x \in Ids : Get(x) \in MaybeRecords
    BY GetFacts
  <1>. QED
    BY <1>1, <1>2 DEF Seen, Maps

\* Records that differ in their values are listed alike, unless an order goes by the value.
LEMMA SameKeys ==
  ASSUME NEW m \in Maps, NEW x \in Ids, NEW r \in Records, NEW s \in Records, m[x] = r, r.key = s.key
  PROVE  LET n == [m EXCEPT ![x] = s] IN
         /\ \A b : (ReversedBy(b, m) => ReversedBy(b, n)) /\ (NamedBy(b, m) => NamedBy(b, n))
         /\ ~Has("rekeyed") => \A o : OrderedBy(o, m) => OrderedBy(o, n)
  <1>. DEFINE n == [m EXCEPT ![x] = s]
  <1>1. n[x] = s /\ \A y \in Ids : y # x => n[y] = m[y]
    BY DEF Maps
  <1>. HIDE DEF n
  <1>2. r # Absent /\ s # Absent
    BY RecordFacts
  <1>3. ReversedKeys(r) = ReversedKeys(s) /\ NameKeys(r) = NameKeys(s)
    BY <1>2 DEF ReversedKeys, IndexedKeys, NameKeys
  <1>4. \A y \in Ids : ReversedKeys(n[y]) = ReversedKeys(m[y]) /\ NameKeys(n[y]) = NameKeys(m[y])
    BY <1>1, <1>3
  <1>5. ASSUME NEW b PROVE (ReversedBy(b, m) => ReversedBy(b, n)) /\ (NamedBy(b, m) => NamedBy(b, n))
    <2>1. ASSUME NEW k \in Keys
          PROVE  /\ {y \in Ids : k \in ReversedKeys(n[y])} = {y \in Ids : k \in ReversedKeys(m[y])}
                 /\ {y \in Ids : k \in NameKeys(n[y])} = {y \in Ids : k \in NameKeys(m[y])}
      BY <1>4
    <2>. QED
      BY <2>1 DEF ReversedBy, NamedBy
  <1>6. ASSUME ~Has("rekeyed"), NEW o, OrderedBy(o, m) PROVE OrderedBy(o, n)
    <2>1. OrderPairs(x, s) = OrderPairs(x, r)
      BY <1>2, <1>6 DEF OrderPairs
    <2>2. \A y \in Ids : OrderPairs(y, n[y]) = OrderPairs(y, m[y])
      BY <1>1, <2>1
    <2>3. UNION {OrderPairs(y, n[y]) : y \in Ids} = UNION {OrderPairs(y, m[y]) : y \in Ids}
      BY <2>2
    <2>. QED
      BY <1>6, <2>3 DEF OrderedBy
  <1>. QED
    BY <1>5, <1>6 DEF n

LEMMA OuterInit == Init => OuterOk
  BY DEF Init, OuterOk

LEMMA OuterOkStep ==
  ASSUME Core, Answering, OuterOk, Next
  PROVE  OuterOk'
  <1>t. /\ op \in Ops /\ Staged /\ base \in Maps /\ outer \in Outers /\ Seen \in Maps
        /\ \A x \in Ids : Get(x) \in MaybeRecords /\ (base[x] # Absent => Get(x) \in Records)
    BY SeenIsMap, GetFacts DEF Core, Typed, Maps, MaybeRecords
  <1>n. NoOp.kind \notin Writes
    BY NoOpFacts DEF Writes
  <1>o. op.kind \notin Writes => Seen = [x \in Ids |-> Get(x)]
    BY DEF Seen
  <1>e. ASSUME NEW m, NEW o, OuterExact(o, m), stack' = stack, outer' = o, Seen' = m
        PROVE  OuterExact(outer, Seen)'
    <2>1. \A layer : Has(layer)' = Has(layer)
      BY <1>e DEF Has
    <2>2. ASSUME NEW b, ReversedBy(b, m), NEW c, c = b PROVE ReversedBy(c, Seen')
      BY <1>e, <2>2
    <2>. QED
      BY <1>e, <2>1 DEF OuterExact, ReversedBy, NamedBy, OrderedBy, OrderPairs
  <1>. DEFINE Same == stack' = stack /\ phase = "open" /\ (~failed' => ~failed) /\ outer' = outer /\ Seen' = Seen
  <1>s. ASSUME Same PROVE OuterOk'
    BY <1>e, <1>s DEF OuterOk
  <1>. DEFINE Still == /\ stack' = stack /\ base' = base /\ inner' = inner /\ position' = position /\ slots' = slots
              Frame == /\ Still /\ stack' = stack /\ outer' = outer /\ (~failed' => ~failed)
                       /\ phase' = "open" => phase = "open"
                       /\ op'.kind \in Writes <=> op.kind \in Writes
                       /\ op.kind \in Writes => op'.id = op.id /\ op'.old = op.old
  <1>g. ASSUME Still PROVE \A x : Get(x)' = Get(x)
    BY <1>g DEF Get, Has
  <1>. HIDE DEF Still
  <1>f. ASSUME Frame PROVE OuterOk'
    <2>. SUFFICES ASSUME phase' = "open" PROVE OuterOk'
      BY DEF OuterOk
    <2>1. Seen' = Seen
      BY <1>f, <1>g DEF Seen
    <2>2. Same
      BY <1>f, <2>1
    <2>. HIDE DEF Same
    <2>. QED
      BY <1>s, <2>2
  <1>. HIDE DEF Frame, Same
  <1>1. ASSUME NEW kind, NEW x, NEW r, NEW todo, Starts(kind, x, r, todo) PROVE OuterOk'
    <2>1. /\ stack' = stack /\ outer' = outer /\ failed' = failed /\ phase = "open" /\ op.kind \notin Writes
          /\ x \in Ids /\ op'.kind \in Writes /\ op'.id = x /\ op'.old = Get(x)
      BY <1>1, <1>n DEF Starts
    <2>2. \A y \in Ids : y # x => Get(y)' = Get(y)
      BY <1>1, ReadsStep
    <2>3. Seen' = Seen
      BY <1>o, <2>1, <2>2 DEF Seen
    <2>4. Same
      BY <2>1, <2>3 DEF Same
    <2>. QED
      BY <1>s, <2>4
  <1>2. ASSUME NEW x, NEW v, Updates(x, v) PROVE OuterOk'
    <2>1. /\ stack' = stack /\ failed' = failed /\ phase = "open" /\ phase' = "open" /\ op' = op /\ op.kind \notin Writes
          /\ x \in Ids /\ v \in Vals /\ base[x] # Absent
          /\ outer' = IF Has("rekeyed")
                      THEN [outer EXCEPT !.order = OrderedStep(outer.order, x, Get(x), [Get(x) EXCEPT !.val = v])] ELSE outer
      BY <1>2, <1>n DEF Updates, Update, Idle
    <2>2. PICK r \in Records, s \in Records : r = Get(x) /\ s = [Get(x) EXCEPT !.val = v] /\ r.key = s.key
      <3>1. PICK r \in Records : r = Get(x)
        BY <1>t, <2>1
      <3>2. PICK s : s = [r EXCEPT !.val = v]
        OBVIOUS
      <3>3. s \in Records /\ s.key = r.key
        BY <2>1, <3>2, RecordFacts
      <3>. QED
        BY <3>1, <3>2, <3>3
    <2>3. Get(x)' = s /\ \A y \in Ids : y # x => Get(y)' = Get(y)
      BY <1>2, <2>2, ReadsStep
    <2>4. PICK m, n : m \in Maps /\ m = Seen /\ n = [m EXCEPT ![x] = s] /\ m[x] = r
      BY <1>o, <1>t, <2>1, <2>2
    <2>5. Seen' = n
      <3>1. Seen' = [y \in Ids |-> Get(y)']
        BY <2>1 DEF Seen
      <3>2. n \in [Ids -> MaybeRecords] /\ n[x] = s /\ \A y \in Ids : y # x => n[y] = Get(y)
        BY <1>o, <2>1, <2>4 DEF Maps, MaybeRecords
      <3>3. \A y \in Ids : n[y] = Get(y)'
        BY <2>3, <3>2
      <3>. QED
        BY <3>1, <3>2, <3>3
    <2>. SUFFICES ASSUME ~failed PROVE OuterExact(outer, Seen)'
      BY <2>1 DEF OuterOk
    <2>6. OuterExact(outer, m)
      BY <2>1, <2>4 DEF OuterOk
    <2>7. OuterExact(outer', n)
      <3>1. CASE ~Has("rekeyed")
        <4>1. outer' = outer
          BY <2>1, <3>1
        <4>. QED
          BY <2>2, <2>4, <2>6, <3>1, <4>1, <2>1, SameKeys DEF OuterExact
      <3>2. CASE Has("rekeyed")
        <4>1. PICK o \in SUBSET (Keys \X Ids) : o = outer.order /\ OrderedBy(o, m)
          BY <1>t, <2>6, <3>2 DEF Outers, OuterExact
        <4>2. r \in MaybeRecords /\ s \in MaybeRecords
          BY <2>2 DEF MaybeRecords
        <4>3. OrderedBy(OrderedStep(o, x, r, s), n)
          BY <2>1, <2>4, <4>1, <4>2, OrderedFacts
        <4>4. /\ outer'.order = OrderedStep(o, x, r, s) /\ outer'.children = outer.children
              /\ outer'.names = outer.names
          BY <1>t, <2>1, <2>2, <3>2, <4>1 DEF Outers
        <4>5. /\ \A b : (ReversedBy(b, m) => ReversedBy(b, n)) /\ (NamedBy(b, m) => NamedBy(b, n))
          BY <2>1, <2>2, <2>4, SameKeys
        <4>. QED
          BY <2>6, <4>3, <4>4, <4>5 DEF OuterExact
      <3>. QED
        BY <3>1, <3>2
    <2>. QED
      BY <1>e, <2>1, <2>5, <2>7
  <1>3. ASSUME SlotStep PROVE OuterOk'
    <2>1. /\ stack' = stack /\ outer' = outer /\ failed' = failed /\ phase = "open" /\ op.kind \in Writes
          /\ op'.kind = op.kind /\ op'.id = op.id /\ op'.old = op.old
      BY <1>3, <1>t DEF SlotStep, history, Staged, Ops
    <2>2. \A y \in Ids : y # op.id => Get(y)' = Get(y)
      BY <1>3, ReadsStep
    <2>3. Seen' = Seen
      BY <2>1, <2>2 DEF Seen
    <2>4. Same
      BY <2>1, <2>3 DEF Same
    <2>. QED
      BY <1>s, <2>4
  <1>4. ASSUME SlotFails \/ \E l \in Labels : DropFails(l) PROVE OuterOk'
    <2>1. failed'
      BY <1>4 DEF SlotFails, DropFails, StopHere
    <2>. QED
      BY <2>1 DEF OuterOk
  <1>5. ASSUME Finish PROVE OuterOk'
    <2>0. Still /\ stack' = stack
      BY <1>5 DEF Finish, Still, disk
    <2>1. /\ stack' = stack /\ phase = "open" /\ phase' = phase /\ failed' = failed /\ op.kind \in Writes
          /\ op.id \in Ids /\ op'.kind \notin Writes /\ Get(op.id) = op.new
          /\ outer' = OuterStep(outer, op.id, op.old, op.new)
      BY <1>5, <1>n, <1>t DEF Finish, Staged, Core, WriteHolds, Answering
    <2>2. PICK x \in Ids, old \in MaybeRecords, new \in MaybeRecords : x = op.id /\ old = op.old /\ new = op.new
      BY <1>t, <2>1 DEF Ops, MaybeRecords
    <2>a. Seen \in Maps /\ Seen[x] = old
      BY <1>t, <2>1, <2>2 DEF Seen
    <2>3. PICK m, n : m \in Maps /\ m = Seen /\ n = [m EXCEPT ![x] = new] /\ m[x] = old
      BY <2>a
    <2>4. Seen' = n
      <3>1. Seen' = [y \in Ids |-> Get(y)]
        BY <1>g, <2>0, <2>1 DEF Seen
      <3>2. \A y \in Ids : y # x => m[y] = Get(y)
        BY <2>2, <2>3 DEF Seen
      <3>3. n \in [Ids -> MaybeRecords] /\ n[x] = new /\ \A y \in Ids : y # x => n[y] = Get(y)
        BY <2>3, <3>2 DEF Maps
      <3>4. \A y \in Ids : n[y] = Get(y)
        BY <2>1, <2>2, <3>3
      <3>. QED
        BY <3>1, <3>3, <3>4
    <2>5. ~failed => OuterExact(OuterStep(outer, x, old, new), n)
      BY <1>t, <2>1, <2>3, OuterStepFacts DEF OuterOk
    <2>. QED
      BY <1>e, <2>1, <2>2, <2>4, <2>5 DEF OuterOk
  <1>6. ASSUME NEW l \in Labels, DropEdges(l) PROVE OuterOk'
    <2>1. Frame
      BY <1>6, <1>n, <1>t DEF DropEdges, Frame, Still, Staged, Ops, Writes
    <2>. QED
      BY <1>f, <2>1
  <1>8. ASSUME NEW l, NEW e, Appends(l, e) PROVE OuterOk'
    <2>1. ~failed' => ~failed
      BY <1>8 DEF Appends, AppendEdge
    <2>2. Still /\ stack' = stack /\ outer' = outer /\ phase' = phase /\ op.kind \notin Writes /\ op'.kind \notin Writes
      BY <1>8, <1>n DEF Appends, AppendEdge, Still, Writes
    <2>3. Frame
      BY <2>1, <2>2 DEF Frame
    <2>. QED
      BY <1>f, <2>3
  <1>9. ASSUME NEW l, NEW e, NewLabel(l, e) PROVE OuterOk'
    <2>1. Frame
      BY <1>9, <1>n, <1>t DEF NewLabel, memory, history, Frame, Still, Staged, Ops, Writes
    <2>. QED
      BY <1>f, <2>1
  <1>10. ASSUME LinkManifest PROVE OuterOk'
    <2>1. Frame
      BY <1>10, <1>n, <1>t DEF LinkManifest, history, Frame, Still, Staged, Ops, Writes
    <2>. QED
      BY <1>f, <2>1
  <1>11. ASSUME Ends PROVE OuterOk'
    <2>1. Frame
      BY <1>11, <1>n, <1>t DEF Ends, disk, memory, history, Frame, Still, Staged, Ops, Writes
    <2>. QED
      BY <1>f, <2>1
  <1>12. ASSUME NEW l, NEW x, Detaches(l, x) PROVE OuterOk'
    <2>1. ~failed' => ~failed
      BY <1>12 DEF Detaches, Detach
    <2>2. Still /\ stack' = stack /\ outer' = outer /\ phase' = phase /\ op.kind \notin Writes /\ op'.kind \notin Writes
      BY <1>12, <1>n DEF Detaches, Detach, Still, Writes
    <2>3. Frame
      BY <2>1, <2>2 DEF Frame
    <2>. QED
      BY <1>f, <2>3
  <1>14. ASSUME ClearLog PROVE OuterOk'
    <2>1. Frame
      BY <1>14, <1>n, <1>t DEF ClearLog, history, Frame, Still, Staged, Ops, Writes
    <2>. QED
      BY <1>f, <2>1
  <1>15. ASSUME NEW l \in Labels, WriteBlob(l) PROVE OuterOk'
    <2>1. Frame
      BY <1>15, <1>n, <1>t DEF WriteBlob, memory, history, Frame, Still, Staged, Ops, Writes
    <2>. QED
      BY <1>f, <2>1
  <1>16. ASSUME NEW l \in Labels, CreateLabel(l) PROVE OuterOk'
    <2>1. Frame
      BY <1>16, <1>n, <1>t DEF CreateLabel, memory, history, Frame, Still, Staged, Ops, Writes
    <2>. QED
      BY <1>f, <2>1
  <1>13. ASSUME Compacts PROVE OuterOk'
    <2>1. /\ stack' = stack /\ outer' = outer /\ failed' = failed /\ phase = "open" /\ op.kind \notin Writes
          /\ op'.kind \notin Writes
      BY <1>13 DEF Compacts, Compact, history, Idle, Writes
    <2>2. \A y \in Ids : Get(y)' = Get(y)
      BY <1>13, ReadsStep
    <2>3. Seen' = Seen
      BY <2>1, <2>2 DEF Seen
    <2>4. Same
      BY <2>1, <2>3 DEF Same
    <2>. QED
      BY <1>s, <2>4
  <1>17. ASSUME Creates \/ Opens \/ OpenRefused \/ Crash PROVE OuterOk'
    <2>1. phase' # "open"
      BY <1>17 DEF Creates, Create, Opens, Open, OpenRefused, Crash
    <2>. QED
      BY <2>1 DEF OuterOk
  <1>18. ASSUME CreateEnds PROVE OuterOk'
    <2>1. /\ stack' = stack /\ base' = base /\ outer' = outer /\ outer = NoOuter /\ op'.kind \notin Writes
          /\ \A x \in Ids : base[x] = Absent
      BY <1>18, <1>n, <1>t DEF CreateEnds, Staged, Core, Blank
    <2>2. \A x \in Ids : Get(x)' = Absent
      BY <2>1 DEF Get
    <2>3. PICK m : m = [x \in Ids |-> Absent]
      OBVIOUS
    <2>4. Seen' = m
      BY <2>1, <2>2, <2>3 DEF Seen
    <2>5. OuterExact(NoOuter, m)
      BY <2>3, EmptyFacts DEF Maps, MaybeRecords
    <2>. QED
      BY <1>e, <2>1, <2>4, <2>5 DEF OuterOk
  <1>19. ASSUME OpenEnds PROVE OuterOk'
    <2>1. stack' = stack /\ Still /\ outer' = Rebuilt /\ op'.kind \notin Writes
      BY <1>19, <1>n DEF OpenEnds, Still
    <2>2. PICK m : m = [x \in Ids |-> Get(x)]
      OBVIOUS
    <2>3. Seen' = m
      BY <1>g, <2>1, <2>2 DEF Seen
    <2>4. OuterExact(Rebuilt, m)
      BY <2>2, RebuiltFacts
    <2>. QED
      BY <1>e, <2>1, <2>3, <2>4 DEF OuterOk
  <1>. QED
    BY <1>1, <1>2, <1>3, <1>4, <1>5, <1>6, <1>8, <1>9, <1>10, <1>11, <1>12, <1>13, <1>14, <1>15,
       <1>16, <1>17, <1>18, <1>19, StepCases

LEMMA OuterHolds == Spec => []OuterOk
  <1>1. Core /\ Answering /\ OuterOk /\ [Next]_vars => OuterOk'
    <2>. SUFFICES ASSUME Core, Answering, OuterOk, [Next]_vars PROVE OuterOk'
      OBVIOUS
    <2>1. CASE Next
      BY <2>1, OuterOkStep
    <2>2. CASE UNCHANGED vars
      <3>1. UNCHANGED <<stack, base, slots, inner, position, outer, phase, op, failed>>
        BY <2>2 DEF vars, disk, memory, history
      <3>2. \A x : Get(x)' = Get(x)
        BY <3>1 DEF Get, Has
      <3>3. Seen' = Seen
        BY <3>1, <3>2 DEF Seen
      <3>. QED
        BY <3>1, <3>3 DEF OuterOk, OuterExact, ReversedBy, NamedBy, OrderedBy, OrderPairs, Has
    <2>. QED
      BY <2>1, <2>2
  <1>. QED
    BY <1>1, OuterInit, CoreHolds, AnswersHold, PTL DEF Spec
------------------------------------------------------------------------------
(* What every layer shows between operations                               *)

\* A column with one place for each member of X, and its count of each value.
Places(X, D, at, col, val) ==
  /\ at \in [X -> D] /\ \A x, y \in X : at[x] = at[y] => x = y
  /\ \A d \in D : \E x \in X : at[x] = d
  /\ \A x \in X : col[at[x]] = val[x]
Counts(X, D, col, val) ==
  \A v : Cardinality({d \in D : col[d] = v}) = Cardinality({x \in X : val[x] = v})

LEMMA ColumnCounts ==
  ASSUME NEW X, IsFiniteSet(X), NEW D, NEW at, NEW col, NEW val, Places(X, D, at, col, val)
  PROVE  Counts(X, D, col, val)
  <1>. SUFFICES ASSUME NEW v PROVE Cardinality({d \in D : col[d] = v}) = Cardinality({x \in X : val[x] = v})
    BY DEF Counts
  <1>. DEFINE S == {x \in X : val[x] = v}
              T == {d \in D : col[d] = v}
              f == [x \in S |-> at[x]]
  <1>1. IsFiniteSet(S)
    BY FS_Subset
  <1>2. f \in [S -> T] /\ (\A a, b \in S : f[a] = f[b] => a = b) /\ \A t \in T : \E s \in S : f[s] = t
    BY DEF Places
  <1>3. ExistsBijection(S, T)
    <2>. HIDE DEF S, T, f
    <2>1. f \in Bijection(S, T)
      BY <1>2, Fun_IsBij
    <2>. QED
      BY <2>1, Fun_ExistsBij
  <1>. HIDE DEF S, T
  <1>4. Cardinality(T) = Cardinality(S)
    BY <1>1, <1>3, FS_Bijection
  <1>. QED
    BY <1>4 DEF S, T

LEMMA ColumnFacts ==
  ASSUME Core, Idle, ~failed
  PROVE  ColumnExact
  <1>. SUFFICES ASSUME Has("scanned") \/ Has("mmap_scanned")
                PROVE  \A v \in Vals : Cardinality({i \in DOMAIN Scan : Scan[i] = v})
                                     = Cardinality({x \in Live : Get(x).val = v})
    BY DEF ColumnExact
  <1>. DEFINE val == [x \in Live |-> Get(x).val]
  <1>1. Live \in SUBSET Ids /\ IsFiniteSet(Live) /\ \A x \in Live : base[x] # Absent /\ base[x] \in Records
    BY Parameters, FS_Subset DEF Live, Core, Typed
  <1>2. \A v : {x \in Live : val[x] = v} = {x \in Live : Get(x).val = v}
    OBVIOUS
  <1>3. stack \in Stacks /\ op.kind = "none" /\ op.step = "" /\ phase = "open" /\ Read
    BY NoOpFacts, ReadFacts DEF Idle, Core, Typed, CoreReads
  <1>4. \A r \in Records, v \in Vals : [r EXCEPT !.val = v].val = v
    BY RecordFacts
  <1>5. CASE Has("scanned")
    <2>1. PICK c \in Columns : c = inner.scanned /\ ColumnOf(base, c)
      BY <1>5 DEF Core, Typed, Inners, InnerOk
    <2>2. Scan = c.cache
      BY <1>5, <2>1 DEF Scan
    <2>. DEFINE at == [x \in Live |-> c.at[x]]
    <2>3. at \in [Live -> DOMAIN c.cache] /\ \A x, y \in Live : at[x] = at[y] => x = y
      BY <1>1, <2>1 DEF ColumnOf
    <2>4. ASSUME NEW d \in DOMAIN c.cache PROVE \E x \in Live : at[x] = d
      <3>1. PICK x \in Ids : c.at[x] = d
        BY <2>1 DEF ColumnOf
      <3>2. d # 0
        BY DEF Columns
      <3>3. x \in Live
        BY <2>1, <3>1, <3>2 DEF ColumnOf, Live
      <3>. QED
        BY <3>1, <3>3
    <2>5. \A x \in Live : c.cache[at[x]] = val[x]
      <3>. SUFFICES ASSUME NEW x \in Live PROVE c.cache[at[x]] = val[x]
        OBVIOUS
      <3>1. Get(x) = [base[x] EXCEPT !.val = c.cache[c.at[x]]]
        BY <1>1, <1>3, <1>5, <2>1 DEF Read
      <3>2. c.cache[c.at[x]] \in Vals
        BY <1>1, <2>1 DEF ColumnOf, Columns
      <3>. QED
        BY <1>1, <1>4, <3>1, <3>2
    <2>. HIDE DEF at, val
    <2>6. Counts(Live, DOMAIN c.cache, c.cache, val)
      BY <1>1, <2>3, <2>4, <2>5, ColumnCounts DEF Places
    <2>. QED
      BY <1>2, <2>2, <2>6 DEF Counts
  <1>6. CASE ~Has("scanned") /\ Has("mmap_scanned")
    <2>1. slots \in Seq(Slots) /\ Len(slots) \in Nat /\ DOMAIN slots = 1 .. Len(slots)
      <3>1. slots \in Seq(Slots)
        BY <1>3, <1>6 DEF Core, Typed, SlotsOk
      <3>. QED
        BY <3>1
    <2>2. \A x \in Ids : position[x] # 0 <=> x \in Live
      BY <1>3, <1>6 DEF Core, SlotsOk, Live
    <2>3. Slotted = Live
      BY <1>1, <2>2 DEF Slotted
    <2>4. \A x \in Live : position[x] \in 1 .. Len(slots) /\ slots[position[x]].id = x
      BY <1>1, <2>1, <2>2 DEF Core, SlotsOk, LastRow, Rows
    <2>5. ASSUME NEW x \in Live PROVE slots[position[x]].val = val[x]
      <3>1. Get(x) = [base[x] EXCEPT !.val = slots[position[x]].val]
        BY <1>1, <1>3, <1>6, <2>2 DEF Read
      <3>2. slots[position[x]] \in Slots
        BY <2>1, <2>4
      <3>3. slots[position[x]].val \in Vals
        BY <3>2 DEF Slots
      <3>4. [base[x] EXCEPT !.val = slots[position[x]].val].val = slots[position[x]].val
        BY <1>1, <1>4, <3>3
      <3>. QED
        BY <3>1, <3>4
    <2>. DEFINE where == [x \in Live |-> position[x]]
    <2>6. where \in [Live -> 1 .. Len(slots)] /\ \A x, y \in Live : where[x] = where[y] => x = y
      BY <2>4
    <2>7. CASE Len(slots) = Cardinality(Live)
      <3>. DEFINE col == [p \in DOMAIN slots |-> slots[p].val]
      <3>1. Scan = col
        BY <1>6, <2>3, <2>7 DEF Scan
      <3>2. \A d \in 1 .. Len(slots) : \E x \in Live : where[x] = d
        <4>. HIDE DEF where
        <4>1. where \in Injection(Live, 1 .. Len(slots))
          BY <2>6, Fun_IsInj
        <4>2. IsFiniteSet(1 .. Len(slots)) /\ Cardinality(1 .. Len(slots)) = Len(slots)
          BY <2>1, FS_Interval
        <4>3. where \in Surjection(Live, 1 .. Len(slots))
          BY <2>7, <4>1, <4>2, FS_Injection
        <4>. QED
          BY <4>3 DEF Surjection
      <3>3. \A x \in Live : col[where[x]] = val[x]
        BY <2>1, <2>4, <2>5
      <3>4. DOMAIN col = 1 .. Len(slots)
        BY <2>1
      <3>. HIDE DEF where, val, col
      <3>5. Counts(Live, 1 .. Len(slots), col, val)
        BY <1>1, <2>6, <3>2, <3>3, ColumnCounts DEF Places
      <3>6. \A v : {i \in DOMAIN Scan : Scan[i] = v} = {d \in 1 .. Len(slots) : col[d] = v}
        BY <3>1, <3>4
      <3>. QED
        BY <1>2, <3>5, <3>6 DEF Counts
    <2>8. CASE Len(slots) # Cardinality(Live)
      <3>. DEFINE S == {position[x] : x \in Live}
                  at == Ascending(S)
                  n == Cardinality(S)
                  col == [i \in DOMAIN at |-> slots[at[i]].val]
                  place == [x \in Live |-> CHOOSE i \in 1 .. n : at[i] = position[x]]
      <3>1. Scan = col
        BY <1>6, <2>3, <2>8 DEF Scan
      <3>2. S \in SUBSET Nat /\ \A p \in S : p \in 1 .. Len(slots)
        BY <2>1, <2>4
      <3>3. IsFiniteSet(S) 
        <4>1. S \in SUBSET (1 .. Len(slots)) /\ IsFiniteSet(1 .. Len(slots))
          BY <2>1, <3>2, FS_Interval
        <4>. HIDE DEF S
        <4>. QED
          BY <4>1, FS_Subset
      <3>4. n \in Nat /\ at \in [1 .. n -> S] /\ (\A i, j \in 1 .. n : at[i] = at[j] => i = j)
            /\ \A p \in S : \E i \in 1 .. n : at[i] = p
        <4>. HIDE DEF S
        <4>. QED
          BY <3>2, <3>3, AscendingPasses DEF Passes
      <3>. HIDE DEF at, n
      <3>5. \A x \in Live : place[x] \in 1 .. n /\ at[place[x]] = position[x]
        BY <3>4
      <3>6. place \in [Live -> 1 .. n]
        BY <3>5
      <3>7. \A x, y \in Live : place[x] = place[y] => x = y
        <4>. HIDE DEF place
        <4>. QED
          BY <2>4, <3>5
      <3>8. ASSUME NEW d \in 1 .. n PROVE \E x \in Live : place[x] = d
        <4>1. PICK x \in Live : at[d] = position[x]
          BY <3>4
        <4>. HIDE DEF place
        <4>. QED
          BY <3>4, <3>5, <4>1
      <3>9. DOMAIN col = 1 .. n /\ \A x \in Live : col[place[x]] = val[x]
        <4>. HIDE DEF place
        <4>. QED
          BY <2>5, <3>4, <3>5
      <3>. HIDE DEF place, col, val
      <3>10. Counts(Live, 1 .. n, col, val)
        BY <1>1, <3>6, <3>7, <3>8, <3>9, ColumnCounts DEF Places
      <3>11. \A v : {i \in DOMAIN Scan : Scan[i] = v} = {d \in 1 .. n : col[d] = v}
        BY <3>1, <3>9
      <3>. QED
        BY <1>2, <3>10, <3>11 DEF Counts
    <2>. QED
      BY <2>7, <2>8
  <1>. QED
    BY <1>5, <1>6

LEMMA ViewsFacts ==
  ASSUME Core, EdgesOk, OuterOk
  PROVE  ViewsExact
  <1>1. TypeOK
    BY DEF Core, Typed, TypeOK
  <1>. SUFFICES ASSUME Idle, ~failed
                PROVE  /\ \A k \in Keys :
                            /\ Has("indexed") => Lists(inner.buckets[k], Under(k, IndexedKeys))
                            /\ Has("reversed") => Lists(outer.children[k], Under(k, ReversedKeys))
                            /\ Has("names") => Lists(outer.names[k], Under(k, NameKeys))
                       /\ Has("ordered") \/ Has("rekeyed") =>
                            outer.order = UNION {OrderPairs(x, Get(x)) : x \in Live}
                       /\ ColumnExact
                       /\ \A l \in Labels : edges[l] # NoLabel => edges[l] = Durable(l)
    BY <1>1 DEF ViewsExact
  <1>2. phase = "open" /\ op.kind = "none" /\ op.kind \notin Writes
    BY NoOpFacts DEF Idle, Writes
  <1>3. PICK m \in Maps : m = [x \in Ids |-> Get(x)] /\ OuterExact(outer, m)
    <2>1. Seen = [x \in Ids |-> Get(x)]
      BY <1>2 DEF Seen
    <2>. QED
      BY <1>2, <2>1, SeenIsMap DEF OuterOk
  <1>4. \A x \in Ids : /\ m[x] = Get(x) /\ IndexedKeys(Get(x)) = IndexedKeys(base[x])
                       /\ x \notin Live => Get(x) = Absent
    BY <1>3, GetFacts DEF Live
  <1>5. \A x \in Ids : x \notin Live => /\ IndexedKeys(Get(x)) = {} /\ ReversedKeys(Get(x)) = {}
                                        /\ NameKeys(Get(x)) = {} /\ OrderPairs(x, Get(x)) = {}
    BY <1>4 DEF IndexedKeys, ReversedKeys, NameKeys, OrderPairs
  <1>6. ASSUME NEW k \in Keys
        PROVE  /\ Has("indexed") => Lists(inner.buckets[k], Under(k, IndexedKeys))
               /\ Has("reversed") => Lists(outer.children[k], Under(k, ReversedKeys))
               /\ Has("names") => Lists(outer.names[k], Under(k, NameKeys))
    <2>1. /\ Under(k, IndexedKeys) = {y \in Ids : k \in IndexedKeys(base[y])}
          /\ Under(k, ReversedKeys) = {y \in Ids : k \in ReversedKeys(m[y])}
          /\ Under(k, NameKeys) = {y \in Ids : k \in NameKeys(m[y])}
      BY <1>4, <1>5 DEF Under, Live
    <2>. QED
      BY <1>3, <2>1 DEF OuterExact, ReversedBy, NamedBy, IndexedBy, Core, InnerOk
  <1>7. Has("ordered") \/ Has("rekeyed") => outer.order = UNION {OrderPairs(x, Get(x)) : x \in Live}
    <2>1. UNION {OrderPairs(x, m[x]) : x \in Ids} = UNION {OrderPairs(x, Get(x)) : x \in Live}
      BY <1>4, <1>5 DEF Live
    <2>. QED
      BY <1>3, <2>1 DEF OuterExact, OrderedBy
  <1>8. ASSUME NEW l \in Labels, edges[l] # NoLabel PROVE edges[l] = Durable(l)
    <2>1. l \in Known
      BY <1>2, <1>8 DEF Core, InMemory, Loaded
    <2>2. \A e \in Edges : e \in edges[l] <=> e \in Durable(l)
      BY <1>2, <2>1 DEF EdgesOk, Agreeing
    <2>3. edges[l] \in SUBSET Edges /\ Durable(l) \in SUBSET Edges
      BY <1>8, MergeEdges DEF Core, Typed
    <2>. QED
      BY <2>2, <2>3
  <1>9. ColumnExact
    BY ColumnFacts
  <1>. QED
    BY <1>6, <1>7, <1>8, <1>9

\* Between operations every index, name list, order, column and adjacency shows the records
\* and the edges there are and nothing else, as long as no operation stopped half way.
THEOREM LayersExact == Spec => []ViewsExact
  <1>1. Core /\ EdgesOk /\ OuterOk => ViewsExact
    BY ViewsFacts
  <1>. QED
    BY <1>1, EdgesHold, OuterHolds, PTL
==============================================================================
