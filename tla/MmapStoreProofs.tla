--------------------------- MODULE MmapStoreProofs ---------------------------
(***************************************************************************)
(* The memory-mapped store, for any ids, operations, I/O errors and crashes. *)
(* First that maps and files agree: each record is at its own slot, which    *)
(* open would find, and in its own bucket, but for what failed appends and   *)
(* compactions have put out of step.  Then, in the second part, that readers *)
(* find what the answers promised, before and after crashes.                 *)
(***************************************************************************)
EXTENDS MmapStore, TLAPS, FiniteSetTheorems, FunctionTheorems, SequenceTheorems

------------------------------------------------------------------------------
(* Numbers and orders                                                      *)

\* A set of numbers that is not empty has a smallest one.
LEMMA SmallestOf ==
  ASSUME NEW T \in SUBSET Nat, T # {}
  PROVE  \E m \in T : \A k \in T : m <= k
  <1>. DEFINE R == OpToRel(<, Nat)
  <1>1. IsWellFoundedOn(R, Nat)
    BY NatLessThanWellFounded
  <1>2. \A x, y \in Nat : <<x, y>> \in R <=> x < y
    BY DEF OpToRel
  <1>. HIDE DEF R
  <1>3. PICK m \in T : \A y \in T : ~ (<<y, m>> \in R)
    BY <1>1, WFMin
  <1>4. ASSUME NEW k \in T PROVE m <= k
    <2>1. k \in Nat /\ m \in Nat
      OBVIOUS
    <2>2. ~(k < m)
      BY <1>2, <1>3, <2>1
    <2>. QED
      BY <2>1, <2>2
  <1>. QED
    BY <1>4

\* And a greatest, if they are bounded.
LEMMA GreatestOf ==
  ASSUME NEW n \in Nat, NEW T \in SUBSET (0 .. n), T # {}
  PROVE  \E m \in T : \A k \in T : k <= m
  <1>. DEFINE U == {n - i : i \in T}
  <1>1. U \in SUBSET Nat /\ U # {}
    <2>1. \A i \in T : i \in Int /\ 0 <= i /\ i <= n
      OBVIOUS
    <2>2. \A i \in T : n - i \in Nat
      BY <2>1
    <2>. QED
      BY <2>2
  <1>2. PICK u \in U : \A k \in U : u <= k
    BY <1>1, SmallestOf
  <1>3. PICK m \in T : u = n - m
    OBVIOUS
  <1>4. ASSUME NEW k \in T PROVE k <= m
    <2>1. n - k \in U
      OBVIOUS
    <2>2. n - m <= n - k
      BY <1>2, <1>3, <2>1
    <2>3. k \in Nat /\ m \in Nat
      OBVIOUS
    <2>. QED
      BY <2>2, <2>3
  <1>. QED
    BY <1>4


\* SetToSeq passes each member of a finite set once.
LEMMA ListedFacts ==
  ASSUME NEW S, IsFiniteSet(S)
  PROVE  Cardinality(S) \in Nat /\ SetToSeq(S) \in Bijection(1 .. Cardinality(S), S)
  <1>. DEFINE n == Cardinality(S)
              s == SetToSeq(S)
  <1>1. n \in Nat /\ ExistsBijection(1 .. n, S)
    BY FS_CardinalityType
  <1>2. \E f \in [1 .. n -> S] : IsInjective(f)
    BY <1>1 DEF ExistsBijection, Bijection, Injection
  <1>3. s \in [1 .. n -> S] /\ IsInjective(s)
    BY <1>2 DEF SetToSeq
  <1>. HIDE DEF s
  <1>4. s \in Injection(1 .. n, S)
    BY <1>3 DEF Injection
  <1>5. s \in Surjection(1 .. n, S)
    <2>1. IsFiniteSet(1 .. n) /\ Cardinality(1 .. n) = n
      BY <1>1, FS_Interval
    <2>. QED
      BY <1>4, <2>1, FS_Injection
  <1>. QED
    BY <1>1, <1>4, <1>5 DEF Bijection, s

\* Ordered passes each member of a finite set once, too, whatever the keys.
LEMMA OrderedFacts ==
  ASSUME NEW S, IsFiniteSet(S), NEW key, \A x \in S : key[x] \in Nat
  PROVE  /\ Cardinality(S) \in Nat
         /\ Ordered(S, key) \in Bijection(1 .. Cardinality(S), S)
         /\ \A i, j \in DOMAIN Ordered(S, key) : i < j => key[Ordered(S, key)[i]] <= key[Ordered(S, key)[j]]
  <1>. DEFINE n == Cardinality(S)
  <1>1. n \in Nat /\ IsFiniteSet(1 .. n) /\ Cardinality(1 .. n) = n
    BY FS_CardinalityType, FS_Interval
  <1>2. PICK num \in [S -> Nat] : \A x, y \in S : num[x] = num[y] => x = y
    <2>1. PICK l \in [1 .. n -> S] : \A x \in S : \E i \in 1 .. n : l[i] = x
      BY ListedFacts DEF Bijection, Surjection
    <2>. DEFINE at == [x \in S |-> CHOOSE i \in 1 .. n : l[i] = x]
    <2>2. \A x \in S : at[x] \in 1 .. n /\ l[at[x]] = x
      BY <2>1
    <2>3. \A i \in 1 .. n : i \in Nat
      BY <1>1
    <2>4. at \in [S -> Nat]
      BY <2>2, <2>3
    <2>5. \A x, y \in S : at[x] = at[y] => x = y
      BY <2>2
    <2>. QED
      BY <2>4, <2>5
  <1>. DEFINE upTo(y, x) == key[y] < key[x] \/ (key[y] = key[x] /\ num[y] <= num[x])
              below(x) == {y \in S : upTo(y, x)}
              rank == [x \in S |-> Cardinality(below(x))]
  <1>3. \A x, y, z \in S : upTo(x, y) /\ upTo(y, z) => upTo(x, z)
    BY <1>2
  <1>4. \A x, y \in S : upTo(x, y) /\ upTo(y, x) => x = y
    BY <1>2
  <1>5. \A x, y \in S : upTo(x, y) \/ upTo(y, x)
    BY <1>2
  <1>6. \A x, y \in S : upTo(x, y) => key[x] <= key[y]
    OBVIOUS
  <1>. HIDE DEF upTo
  <1>7. \A x \in S : IsFiniteSet(below(x)) /\ Cardinality(below(x)) \in 1 .. n
    <2>. SUFFICES ASSUME NEW x \in S PROVE IsFiniteSet(below(x)) /\ Cardinality(below(x)) \in 1 .. n
      OBVIOUS
    <2>. DEFINE B == below(x)
    <2>1. B \in SUBSET S /\ B # {}
      BY <1>5
    <2>. HIDE DEF B
    <2>2. IsFiniteSet(B) /\ Cardinality(B) <= n
      BY <2>1, FS_Subset
    <2>3. Cardinality(B) \in Nat /\ Cardinality(B) # 0
      BY <2>1, <2>2, FS_CardinalityType, FS_EmptySet
    <2>. QED
      BY <1>1, <2>2, <2>3 DEF B
  <1>8. \A x, y \in S : upTo(x, y) /\ x # y => rank[x] < rank[y]
    <2>. SUFFICES ASSUME NEW x \in S, NEW y \in S, upTo(x, y), x # y PROVE rank[x] < rank[y]
      OBVIOUS
    <2>. DEFINE B == below(x)
                C == below(y)
    <2>1. B \in SUBSET C /\ y \in C /\ y \notin B
      BY <1>3, <1>4, <1>5
    <2>2. IsFiniteSet(C) /\ Cardinality(C) \in 1 .. n /\ Cardinality(B) \in 1 .. n
      BY <1>7
    <2>3. rank[x] = Cardinality(B) /\ rank[y] = Cardinality(C)
      OBVIOUS
    <2>. HIDE DEF B, C, rank
    <2>4. Cardinality(B) <= Cardinality(C) /\ Cardinality(B) # Cardinality(C)
      BY <2>1, <2>2, FS_Subset
    <2>5. \A k \in 1 .. n : k \in Nat
      BY <1>1
    <2>. HIDE DEF n
    <2>6. Cardinality(C) \in Nat /\ Cardinality(B) \in Nat
      BY <2>2, <2>5
    <2>. QED
      BY <2>3, <2>4, <2>6
  <1>9. rank \in [S -> 1 .. n]
    BY <1>7
  <1>. HIDE DEF rank, below
  <1>10. \A x, y \in S : rank[x] = rank[y] => x = y
    <2>. SUFFICES ASSUME NEW x \in S, NEW y \in S, rank[x] = rank[y] PROVE x = y
      OBVIOUS
    <2>1. rank[x] \in Nat /\ ~(rank[x] < rank[y]) /\ ~(rank[y] < rank[x])
      BY <1>1, <1>9
    <2>. QED
      BY <1>5, <1>8, <2>1
  <1>11. rank \in Injection(S, 1 .. n)
    BY <1>9, <1>10, Fun_IsInj
  <1>12. \A k \in 1 .. n : \E x \in S : rank[x] = k
    <2>1. rank \in Surjection(S, 1 .. n)
      BY <1>1, <1>11, FS_Injection
    <2>. QED
      BY <2>1 DEF Surjection
  <1>. DEFINE s == [k \in 1 .. n |-> CHOOSE x \in S : rank[x] = k]
  <1>13. \A k \in 1 .. n : s[k] \in S /\ rank[s[k]] = k
    BY <1>12
  <1>14. s \in [1 .. n -> S] /\ \A i, j \in 1 .. n : s[i] = s[j] => i = j
    BY <1>13
  <1>. HIDE DEF s
  <1>15. \A i, j \in 1 .. n : i < j => key[s[i]] <= key[s[j]]
    <2>. SUFFICES ASSUME NEW i \in 1 .. n, NEW j \in 1 .. n, i < j PROVE key[s[i]] <= key[s[j]]
      OBVIOUS
    <2>1. PICK x \in S, y \in S : x = s[i] /\ y = s[j] /\ rank[x] = i /\ rank[y] = j
      BY <1>13
    <2>2. i \in Nat /\ j \in Nat
      BY <1>1
    <2>3. ~(upTo(y, x) /\ y # x) /\ y # x
      BY <1>8, <2>1, <2>2
    <2>4. upTo(x, y)
      BY <1>5, <2>3
    <2>. QED
      BY <1>6, <2>1, <2>4
  <1>. DEFINE a == Ordered(S, key)
  <1>16. a \in [1 .. n -> S] /\ IsInjective(a) /\ \A i, j \in DOMAIN a : i < j => key[a[i]] <= key[a[j]]
    <2>1. \E f \in [1 .. n -> S] : IsInjective(f) /\ \A i, j \in DOMAIN f : i < j => key[f[i]] <= key[f[j]]
      BY <1>14, <1>15 DEF IsInjective
    <2>. QED
      BY <2>1 DEF Ordered
  <1>. HIDE DEF a
  <1>17. a \in Injection(1 .. n, S)
    BY <1>16 DEF Injection
  <1>18. a \in Surjection(1 .. n, S)
    BY <1>1, <1>17, FS_Injection
  <1>. QED
    BY <1>1, <1>16, <1>17, <1>18 DEF Bijection, a

------------------------------------------------------------------------------
(* Sequences that list a set                                               *)

\* s passes each member of S once.
Lists(s, S) ==
  /\ s \in Seq(S) /\ IsInjective(s)
  /\ \A x \in S : \E i \in DOMAIN s : s[i] = x

\* Such a sequence is as long as the set is large.
LEMMA ListsCount ==
  ASSUME NEW S, NEW s, Lists(s, S)
  PROVE  Range(s) = S /\ Len(s) = Cardinality(Range(s))
  <1>1. s \in [1 .. Len(s) -> S] /\ Len(s) \in Nat /\ DOMAIN s = 1 .. Len(s)
    BY DEF Lists
  <1>2. Range(s) = S
    BY <1>1 DEF Lists, Range
  <1>. DEFINE n == Len(s)
  <1>3. s \in Bijection(1 .. n, S)
    BY <1>1 DEF Lists, Bijection, Injection, Surjection
  <1>4. IsFiniteSet(1 .. n) /\ Cardinality(1 .. n) = n
    <2>1. n \in Nat
      BY <1>1
    <2>. HIDE DEF n
    <2>. QED
      BY <2>1, FS_Interval
  <1>5. Cardinality(S) = n
    BY <1>3, <1>4, FS_Bijection DEF ExistsBijection
  <1>. QED
    BY <1>2, <1>5

\* A bijection from 1 .. n is a list.
LEMMA BijectionLists ==
  ASSUME NEW S, NEW n \in Nat, NEW s \in Bijection(1 .. n, S)
  PROVE  Lists(s, S)
  <1>1. s \in [1 .. n -> S] /\ \A x \in S : \E i \in 1 .. n : s[i] = x
    BY DEF Bijection, Injection, Surjection
  <1>2. IsInjective(s)
    BY DEF Bijection, Injection
  <1>3. s \in Seq(S)
    BY <1>1
  <1>. QED
    BY <1>1, <1>2, <1>3 DEF Lists

\* SetToSeq is one.
LEMMA SetToSeqLists ==
  ASSUME NEW S, IsFiniteSet(S)
  PROVE  Lists(SetToSeq(S), S)
  BY ListedFacts, BijectionLists

LEMMA AppendLists ==
  ASSUME NEW S, NEW s, Lists(s, S), NEW x, x \notin S
  PROVE  Lists(Append(s, x), S \cup {x})
  <1>. DEFINE t == Append(s, x)
              n == Len(s)
  <1>1. s \in Seq(S) /\ n \in Nat /\ DOMAIN s = 1 .. n /\ \A i \in 1 .. n : s[i] \in S
    BY DEF Lists
  <1>2. s \in Seq(S \cup {x})
    BY <1>1
  <1>3. t \in Seq(S \cup {x}) /\ DOMAIN t = 1 .. n + 1 /\ t[n + 1] = x /\ \A i \in 1 .. n : t[i] = s[i]
    BY <1>1, <1>2
  <1>. HIDE DEF t
  <1>4. IsInjective(t)
    <2>. SUFFICES ASSUME NEW i \in 1 .. n + 1, NEW j \in 1 .. n + 1, t[i] = t[j] PROVE i = j
      BY <1>3 DEF IsInjective
    <2>1. \A k \in 1 .. n + 1 : k = n + 1 \/ k \in 1 .. n
      BY <1>1
    <2>2. \A k, l \in 1 .. n : s[k] = s[l] => k = l
      BY <1>1 DEF Lists, IsInjective
    <2>. QED
      BY <1>1, <1>3, <2>1, <2>2
  <1>5. \A y \in S \cup {x} : \E i \in 1 .. n + 1 : t[i] = y
    <2>1. \A i \in 1 .. n : i \in 1 .. n + 1
      BY <1>1
    <2>2. n + 1 \in 1 .. n + 1
      BY <1>1
    <2>3. \A y \in S : \E i \in 1 .. n : s[i] = y
      BY <1>1 DEF Lists
    <2>. QED
      BY <1>3, <2>1, <2>2, <2>3
  <1>. QED
    BY <1>3, <1>4, <1>5 DEF Lists, t

\* Without takes one member off the list.
LEMMA WithoutLists ==
  ASSUME NEW S, NEW s, Lists(s, S), NEW x
  PROVE  Lists(Without(s, x), S \ {x})
  <1>. DEFINE D == {i \in DOMAIN s : s[i] # x}
              key == [i \in D |-> i]
              at == Ordered(D, key)
              m == Cardinality(D)
              t == [i \in DOMAIN at |-> s[at[i]]]
  <1>1. s \in Seq(S) /\ Len(s) \in Nat /\ DOMAIN s = 1 .. Len(s) /\ \A i \in DOMAIN s : s[i] \in S
    BY DEF Lists
  <1>2. IsFiniteSet(D)
    <2>1. IsFiniteSet(DOMAIN s)
      BY <1>1, FS_Interval
    <2>. QED
      BY <2>1, FS_Subset
  <1>3. \A i \in D : key[i] \in Nat
    BY <1>1
  <1>. HIDE DEF key
  <1>4. m \in Nat /\ at \in Bijection(1 .. m, D)
    BY <1>2, <1>3, OrderedFacts
  <1>5. Without(s, x) = t
    BY DEF Without, key
  <1>. HIDE DEF at, m
  <1>6. /\ at \in [1 .. m -> D] /\ \A i, j \in 1 .. m : at[i] = at[j] => i = j
        /\ \A k \in D : \E i \in 1 .. m : at[i] = k
    BY <1>4 DEF Bijection, Injection, Surjection, IsInjective
  <1>7. DOMAIN at = 1 .. m
    BY <1>6
  <1>8. \A i \in 1 .. m : at[i] \in DOMAIN s /\ s[at[i]] # x /\ t[i] = s[at[i]]
    BY <1>6, <1>7
  <1>9. t \in [1 .. m -> S \ {x}]
    BY <1>1, <1>7, <1>8
  <1>10. t \in Seq(S \ {x}) /\ DOMAIN t = 1 .. m
    BY <1>4, <1>9
  <1>11. IsInjective(t)
    BY <1>6, <1>8, <1>10 DEF Lists, IsInjective
  <1>12. \A y \in S \ {x} : \E i \in 1 .. m : t[i] = y
    <2>. SUFFICES ASSUME NEW y \in S \ {x} PROVE \E i \in 1 .. m : t[i] = y
      OBVIOUS
    <2>1. PICK k \in DOMAIN s : s[k] = y
      BY DEF Lists
    <2>2. k \in D
      BY <2>1
    <2>. QED
      BY <1>6, <1>8, <2>1, <2>2
  <1>. QED
    BY <1>5, <1>10, <1>11, <1>12 DEF Lists

------------------------------------------------------------------------------
(* The slot file and the log                                               *)


Entries  == [kind : {"item"}, id : Ids, body : 1 .. MaxVersion]
              \cup [kind : {"tombstone"}, id : Ids, body : {0}]
              \cup [kind : {"junk"}, id : Ids, body : 0 .. MaxVersion]
Stored   == {NoRec} \cup [body : 1 .. MaxVersion, scan : 1 .. MaxVersion]

\* Committed and SlotOf of a slot file s.
CommittedIn(s, x) == {p \in DOMAIN s : s[p].id = x /\ s[p].committed}
SlotIn(s, x) == IF CommittedIn(s, x) = {} THEN 0
                ELSE CHOOSE p \in CommittedIn(s, x) : \A q \in CommittedIn(s, x) : q <= p

LEMMA SlotInFacts ==
  ASSUME NEW s \in Seq(Slots), NEW x
  PROVE  /\ \A q \in CommittedIn(s, x) : q \in 1 .. Len(s) /\ q \in Nat /\ s[q].id = x /\ s[q].committed
         /\ CommittedIn(s, x) # {} => /\ SlotIn(s, x) \in CommittedIn(s, x)
                                      /\ \A q \in CommittedIn(s, x) : q <= SlotIn(s, x)
         /\ SlotIn(s, x) \in Nat
  <1>1. Len(s) \in Nat /\ DOMAIN s = 1 .. Len(s)
    OBVIOUS
  <1>2. \A q \in CommittedIn(s, x) : q \in 1 .. Len(s) /\ q \in Nat /\ s[q].id = x /\ s[q].committed
    BY <1>1 DEF CommittedIn
  <1>3. CommittedIn(s, x) \in SUBSET (0 .. Len(s))
    BY <1>1, <1>2
  <1>4. CommittedIn(s, x) # {} => \E p \in CommittedIn(s, x) : \A q \in CommittedIn(s, x) : q <= p
    BY <1>1, <1>3, GreatestOf
  <1>5. CommittedIn(s, x) # {} => /\ SlotIn(s, x) \in CommittedIn(s, x)
                                  /\ \A q \in CommittedIn(s, x) : q <= SlotIn(s, x)
    BY <1>4 DEF SlotIn
  <1>6. CommittedIn(s, x) = {} => SlotIn(s, x) = 0
    BY DEF SlotIn
  <1>. QED
    BY <1>2, <1>5, <1>6

\* The last committed slot is the only one that can be SlotIn.
LEMMA SlotInIs ==
  ASSUME NEW s \in Seq(Slots), NEW x, NEW p \in CommittedIn(s, x),
         \A q \in CommittedIn(s, x) : q <= p
  PROVE  SlotIn(s, x) = p
  <1>1. SlotIn(s, x) \in CommittedIn(s, x) /\ \A q \in CommittedIn(s, x) : q <= SlotIn(s, x) /\ q \in Nat
    BY SlotInFacts
  <1>. QED
    BY <1>1

\* Slots that keep their ids and markers are found as before.
LEMMA SlotInSame ==
  ASSUME NEW s, NEW t, NEW x, CommittedIn(s, x) = CommittedIn(t, x)
  PROVE  SlotIn(s, x) = SlotIn(t, x)
  BY DEF SlotIn

\* What merge_log makes of a log: records, the same for a second fold of the
\* same log, and the blob's own for an empty one.
LastOf(l, x) ==
  LET of == {i \in DOMAIN l : l[i].id = x /\ l[i].kind # "junk"}
  IN CHOOSE i \in of : \A j \in of : j <= i
Mentions(l, x) == \E i \in DOMAIN l : l[i].id = x /\ l[i].kind # "junk"

LEMMA LastOfFacts ==
  ASSUME NEW l \in Seq(Entries), NEW x, Mentions(l, x)
  PROVE  /\ LastOf(l, x) \in DOMAIN l /\ l[LastOf(l, x)].id = x /\ l[LastOf(l, x)].kind # "junk"
         /\ \A j \in DOMAIN l : l[j].id = x /\ l[j].kind # "junk" => j <= LastOf(l, x)
  <1>. DEFINE of == {i \in DOMAIN l : l[i].id = x /\ l[i].kind # "junk"}
  <1>1. Len(l) \in Nat /\ DOMAIN l = 1 .. Len(l)
    OBVIOUS
  <1>2. of \in SUBSET (0 .. Len(l)) /\ of # {}
    BY <1>1 DEF Mentions
  <1>. HIDE DEF of
  <1>3. \E i \in of : \A j \in of : j <= i
    BY <1>1, <1>2, GreatestOf
  <1>4. LastOf(l, x) \in of /\ \A j \in of : j <= LastOf(l, x)
    BY <1>3 DEF LastOf, of
  <1>. QED
    BY <1>4 DEF of

LEMMA FoldIs ==
  ASSUME NEW b, NEW l, NEW x \in Ids
  PROVE  Fold(b, l)[x] = IF ~Mentions(l, x) THEN b[x]
                         ELSE IF l[LastOf(l, x)].kind = "tombstone" THEN NoRec
                         ELSE Rec(l[LastOf(l, x)].body, l[LastOf(l, x)].body)
  BY DEF Fold, Mentions, LastOf

LEMMA FoldFacts ==
  ASSUME NEW b \in [Ids -> Stored], NEW l \in Seq(Entries)
  PROVE  /\ Fold(b, l) \in [Ids -> Stored]
         /\ Fold(Fold(b, l), l) = Fold(b, l)
         /\ Fold(b, <<>>) = b
  <1>1. ASSUME NEW x \in Ids PROVE Fold(b, l)[x] \in Stored
    <2>1. CASE ~Mentions(l, x)
      BY <2>1, FoldIs
    <2>2. CASE Mentions(l, x)
      <3>1. PICK e \in Entries : e = l[LastOf(l, x)] /\ e.kind # "junk"
        BY <2>2, LastOfFacts
      <3>2. Fold(b, l)[x] = IF e.kind = "tombstone" THEN NoRec ELSE Rec(e.body, e.body)
        BY <2>2, <3>1, FoldIs
      <3>3. e.kind = "tombstone" \/ e.body \in 1 .. MaxVersion
        BY <3>1 DEF Entries
      <3>. QED
        BY <3>2, <3>3 DEF Stored, Rec
    <2>. QED
      BY <2>1, <2>2
  <1>2. \A c : DOMAIN Fold(c, l) = Ids /\ DOMAIN Fold(c, <<>>) = Ids /\ Fold(c, l) = [x \in Ids |-> Fold(c, l)[x]]
               /\ Fold(c, <<>>) = [x \in Ids |-> Fold(c, <<>>)[x]]
    BY DEF Fold
  <1>3. \A x \in Ids : Fold(Fold(b, l), l)[x] = Fold(b, l)[x]
    <2>. SUFFICES ASSUME NEW x \in Ids PROVE Fold(Fold(b, l), l)[x] = Fold(b, l)[x]
      OBVIOUS
    <2>1. PICK c : c = Fold(b, l)
      OBVIOUS
    <2>2. Fold(c, l)[x] = c[x]
      BY <2>1, FoldIs
    <2>. QED
      BY <2>1, <2>2
  <1>4. \A x \in Ids : Fold(b, <<>>)[x] = b[x]
    BY FoldIs DEF Mentions
  <1>5. Fold(b, l) \in [Ids -> Stored]
    BY <1>1, <1>2
  <1>6. Fold(Fold(b, l), l) = Fold(b, l)
    BY <1>2, <1>3
  <1>7. Fold(b, <<>>) = b
    <2>1. b = [x \in Ids |-> b[x]]
      OBVIOUS
    <2>. QED
      BY <1>2, <1>4, <2>1
  <1>. QED
    BY <1>5, <1>6, <1>7

\* A value written into a slot: every slot is found as before.
WithVal(s, p, v) == [s EXCEPT ![p] = [s[p] EXCEPT !.val = v]]

LEMMA ValWritten ==
  ASSUME NEW s \in Seq(Slots), NEW p \in DOMAIN s, NEW v \in 1 .. MaxVersion
  PROVE  /\ WithVal(s, p, v) \in Seq(Slots) /\ Len(WithVal(s, p, v)) = Len(s)
         /\ \A x \in Ids : /\ CommittedIn(WithVal(s, p, v), x) = CommittedIn(s, x)
                          /\ SlotIn(WithVal(s, p, v), x) = SlotIn(s, x)
  <1>. DEFINE t == WithVal(s, p, v)
  <1>1. Len(s) \in Nat /\ DOMAIN s = 1 .. Len(s) /\ s \in [1 .. Len(s) -> Slots]
    OBVIOUS
  <1>2. PICK e \in Slots : e = s[p]
    BY <1>1
  <1>3. t = [s EXCEPT ![p] = [e EXCEPT !.val = v]]
    BY <1>2 DEF WithVal
  <1>. HIDE DEF t
  <1>4. [e EXCEPT !.val = v] \in Slots
    BY <1>2 DEF Slots
  <1>5. t \in [1 .. Len(s) -> Slots]
    BY <1>1, <1>3, <1>4
  <1>6. \A q \in DOMAIN s : t[q].id = s[q].id /\ t[q].committed = s[q].committed
    <2>. SUFFICES ASSUME NEW q \in DOMAIN s PROVE t[q].id = s[q].id /\ t[q].committed = s[q].committed
      OBVIOUS
    <2>1. [e EXCEPT !.val = v].id = e.id /\ [e EXCEPT !.val = v].committed = e.committed
      BY <1>2 DEF Slots
    <2>. QED
      BY <1>1, <1>2, <1>3, <2>1
  <1>7. \A x \in Ids : CommittedIn(t, x) = CommittedIn(s, x)
    BY <1>1, <1>5, <1>6 DEF CommittedIn
  <1>8. \A x \in Ids : SlotIn(t, x) = SlotIn(s, x)
    BY <1>7, SlotInSame
  <1>9. Len(t) = Len(s) /\ t \in Seq(Slots)
    BY <1>1, <1>5
  <1>. QED
    BY <1>7, <1>8, <1>9 DEF t

\* A marker cleared: other ids' slots are found as before.
Cleared(s, p) == [s EXCEPT ![p] = [s[p] EXCEPT !.committed = FALSE]]

LEMMA MarkerCleared ==
  ASSUME NEW s \in Seq(Slots), NEW p \in DOMAIN s
  PROVE  /\ Cleared(s, p) \in Seq(Slots) /\ Len(Cleared(s, p)) = Len(s)
         /\ \A x \in Ids : \A q \in DOMAIN s : q # p => (q \in CommittedIn(Cleared(s, p), x) <=> q \in CommittedIn(s, x))
         /\ \A x \in Ids : CommittedIn(Cleared(s, p), x) \subseteq CommittedIn(s, x)
         /\ \A x \in Ids : x # s[p].id => /\ CommittedIn(Cleared(s, p), x) = CommittedIn(s, x)
                                        /\ SlotIn(Cleared(s, p), x) = SlotIn(s, x)
  <1>. DEFINE t == Cleared(s, p)
  <1>1. Len(s) \in Nat /\ DOMAIN s = 1 .. Len(s) /\ s \in [1 .. Len(s) -> Slots]
    OBVIOUS
  <1>2. PICK e \in Slots : e = s[p]
    BY <1>1
  <1>3. t = [s EXCEPT ![p] = [e EXCEPT !.committed = FALSE]]
    BY <1>2 DEF Cleared
  <1>. HIDE DEF t
  <1>4. [e EXCEPT !.committed = FALSE] \in Slots
    BY <1>2 DEF Slots
  <1>5. t \in [1 .. Len(s) -> Slots]
    BY <1>1, <1>3, <1>4
  <1>6. t[p].id = s[p].id /\ \A q \in DOMAIN s : q # p => t[q] = s[q]
    BY <1>1, <1>2, <1>3 DEF Slots
  <1>7. \A x \in Ids : x # s[p].id => CommittedIn(t, x) = CommittedIn(s, x)
    BY <1>1, <1>5, <1>6 DEF CommittedIn
  <1>8. \A x \in Ids : x # s[p].id => SlotIn(t, x) = SlotIn(s, x)
    BY <1>7, SlotInSame
  <1>9. /\ \A x \in Ids : \A q \in DOMAIN s : q # p => (q \in CommittedIn(t, x) <=> q \in CommittedIn(s, x))
        /\ \A x \in Ids : CommittedIn(t, x) \subseteq CommittedIn(s, x)
    <2>1. ~t[p].committed /\ DOMAIN t = DOMAIN s
      BY <1>1, <1>2, <1>3, <1>5 DEF Slots
    <2>. QED
      BY <1>6, <2>1 DEF CommittedIn
  <1>10. Len(t) = Len(s) /\ t \in Seq(Slots)
    BY <1>1, <1>5
  <1>. QED
    BY <1>7, <1>8, <1>9, <1>10 DEF t

\* A slot appended: every slot is found as before but those of its own id.
LEMMA SlotAppended ==
  ASSUME NEW s \in Seq(Slots), NEW e \in Slots
  PROVE  LET t == Append(s, e) IN
         /\ t \in Seq(Slots) /\ Len(t) = Len(s) + 1 /\ Len(s) \in Nat /\ Len(t) \in Nat \ {0}
         /\ t[Len(t)] = e
         /\ \A y \in Ids : CommittedIn(t, y) = CommittedIn(s, y) \cup (IF e.id = y /\ e.committed THEN {Len(t)} ELSE {})
         /\ e.committed => SlotIn(t, e.id) = Len(t)
  <1>. DEFINE t == Append(s, e)
  <1>1. Len(s) \in Nat /\ DOMAIN s = 1 .. Len(s)
    OBVIOUS
  <1>2. /\ t \in Seq(Slots) /\ Len(t) = Len(s) + 1 /\ DOMAIN t = 1 .. Len(s) + 1
        /\ t[Len(s) + 1] = e /\ \A q \in 1 .. Len(s) : t[q] = s[q]
    BY <1>1
  <1>. HIDE DEF t
  <1>3. \A q : q \in 1 .. Len(s) + 1 <=> (q \in 1 .. Len(s) \/ q = Len(s) + 1)
    BY <1>1
  <1>4. ASSUME NEW y \in Ids
        PROVE  CommittedIn(t, y) = CommittedIn(s, y) \cup (IF e.id = y /\ e.committed THEN {Len(t)} ELSE {})
    <2>1. \A q \in 1 .. Len(s) : q \in CommittedIn(t, y) <=> q \in CommittedIn(s, y)
      BY <1>1, <1>2, <1>3 DEF CommittedIn
    <2>2. Len(t) \in CommittedIn(t, y) <=> e.id = y /\ e.committed
      BY <1>2, <1>3 DEF CommittedIn
    <2>3. \A q \in CommittedIn(t, y) : q \in 1 .. Len(s) \/ q = Len(t)
      BY <1>2, <1>3 DEF CommittedIn
    <2>4. \A q \in CommittedIn(s, y) : q \in 1 .. Len(s)
      BY <1>1 DEF CommittedIn
    <2>. QED
      BY <2>1, <2>2, <2>3, <2>4
  <1>5. ASSUME e.committed PROVE SlotIn(t, e.id) = Len(t)
    <2>1. Len(t) \in CommittedIn(t, e.id)
      BY <1>2, <1>3, <1>5 DEF CommittedIn
    <2>2. \A q \in CommittedIn(t, e.id) : q <= Len(t)
      BY <1>1, <1>2 DEF CommittedIn
    <2>. QED
      BY <1>2, <2>1, <2>2, SlotInIs
  <1>. QED
    BY <1>1, <1>2, <1>4, <1>5 DEF t

\* position_index agrees with a slot file s of which m slots are mapped: each
\* position is a mapped slot of its own, and but for the ids in doubt the last
\* committed one of its id.
Placed(pos, s, m, doubt) ==
  \A x \in Ids : pos[x] # 0 =>
    /\ pos[x] \in 1 .. Len(s)
    /\ m # 0 => pos[x] <= m
    /\ \A y \in Ids : y # x => pos[y] # pos[x]
    /\ x \notin doubt => pos[x] \in CommittedIn(s, x) /\ \A q \in CommittedIn(s, x) : q <= pos[x]

\* So it does when a value is written,
LEMMA PlacedValue ==
  ASSUME NEW pos, NEW s \in Seq(Slots), NEW m, NEW doubt, NEW more, Placed(pos, s, m, doubt), doubt \subseteq more,
         NEW p \in DOMAIN s, NEW v \in 1 .. MaxVersion
  PROVE  Placed(pos, WithVal(s, p, v), m, more)
  BY ValWritten DEF Placed

\* when a slot is retired,
LEMMA PlacedClear ==
  ASSUME NEW pos \in [Ids -> Nat], NEW s \in Seq(Slots), NEW m, NEW doubt, NEW more, Placed(pos, s, m, doubt),
         doubt \subseteq more, NEW x \in Ids, NEW p \in DOMAIN s, p = pos[x]
  PROVE  Placed([pos EXCEPT ![x] = 0], Cleared(s, p), m, more)
  <1>1. PICK to \in [Ids -> Nat] : to = [pos EXCEPT ![x] = 0]
    OBVIOUS
  <1>2. to[x] = 0 /\ \A y \in Ids : y # x => to[y] = pos[y]
    BY <1>1
  <1>3. PICK t \in Seq(Slots) : t = Cleared(s, p) /\ Len(t) = Len(s)
    BY MarkerCleared
  <1>4. /\ \A y \in Ids : \A q \in DOMAIN s : q # p => (q \in CommittedIn(t, y) <=> q \in CommittedIn(s, y))
        /\ \A y \in Ids : CommittedIn(t, y) \subseteq CommittedIn(s, y)
    BY <1>3, MarkerCleared
  <1>5. ASSUME NEW y \in Ids, to[y] # 0
        PROVE  /\ to[y] \in 1 .. Len(t)
               /\ m # 0 => to[y] <= m
               /\ \A z \in Ids : z # y => to[z] # to[y]
               /\ y \notin more => to[y] \in CommittedIn(t, y) /\ \A q \in CommittedIn(t, y) : q <= to[y]
    <2>1. y # x /\ to[y] = pos[y] /\ pos[y] # 0 /\ pos[y] # p
      BY <1>2, <1>5 DEF Placed
    <2>2. to[y] \in 1 .. Len(t) /\ (m # 0 => to[y] <= m)
      BY <1>3, <2>1 DEF Placed
    <2>3. \A z \in Ids : z # y => to[z] # to[y]
      BY <1>2, <2>1 DEF Placed
    <2>4. y \notin more => to[y] \in CommittedIn(t, y) /\ \A q \in CommittedIn(t, y) : q <= to[y]
      <3>1. y \notin more => pos[y] \in CommittedIn(s, y) /\ \A q \in CommittedIn(s, y) : q <= pos[y]
        BY <2>1 DEF Placed
      <3>. QED
        BY <1>4, <2>1, <3>1 DEF CommittedIn
    <2>. QED
      BY <2>2, <2>3, <2>4
  <1>. QED
    BY <1>1, <1>3, <1>5 DEF Placed

\* when a slot is appended that is none of theirs,
LEMMA PlacedBehind ==
  ASSUME NEW pos \in [Ids -> Nat], NEW s \in Seq(Slots), NEW m, NEW doubt, NEW more, Placed(pos, s, m, doubt),
         doubt \subseteq more, NEW e \in Slots, e.committed => e.id \in more
  PROVE  Placed(pos, Append(s, e), m, more)
  <1>1. PICK t \in Seq(Slots) : t = Append(s, e) /\ Len(t) = Len(s) + 1 /\ Len(s) \in Nat
    BY SlotAppended
  <1>2. \A y \in Ids : y \notin more => CommittedIn(t, y) = CommittedIn(s, y)
    <2>1. \A y \in Ids : CommittedIn(t, y) = CommittedIn(s, y) \cup (IF e.id = y /\ e.committed THEN {Len(t)} ELSE {})
      BY <1>1, SlotAppended
    <2>. QED
      BY <2>1
  <1>. QED
    BY <1>1, <1>2 DEF Placed

\* and when the one appended becomes the slot of an id.
LEMMA PlacedLast ==
  ASSUME NEW pos \in [Ids -> Nat], NEW s \in Seq(Slots), NEW m, NEW doubt, NEW more, Placed(pos, s, m, doubt),
         doubt \subseteq more, NEW x \in Ids, NEW e \in Slots, e.committed => e.id \in more \/ e.id = x,
         x \notin more => e.id = x /\ e.committed
  PROVE  Placed([pos EXCEPT ![x] = Len(Append(s, e))], Append(s, e), Len(Append(s, e)), more)
  <1>1. PICK t \in Seq(Slots) : t = Append(s, e) /\ Len(t) = Len(s) + 1 /\ Len(s) \in Nat
    BY SlotAppended
  <1>a. \A y \in Ids : CommittedIn(t, y) = CommittedIn(s, y) \cup (IF e.id = y /\ e.committed THEN {Len(t)} ELSE {})
    BY <1>1, SlotAppended
  <1>2. \A y \in Ids : y \notin more /\ y # x => CommittedIn(t, y) = CommittedIn(s, y)
    BY <1>a
  <1>3. x \notin more => Len(t) \in CommittedIn(t, x)
    BY <1>a
  <1>4. \A q \in CommittedIn(t, x) : q \in Nat /\ q <= Len(t)
    BY <1>1 DEF CommittedIn
  <1>5. PICK to \in [Ids -> Nat] : to = [pos EXCEPT ![x] = Len(t)]
    <2>1. PICK k \in Nat : k = Len(t)
      BY <1>1
    <2>. QED
      BY <2>1
  <1>6. to[x] = Len(t) /\ \A y \in Ids : y # x => to[y] = pos[y]
    BY <1>5
  <1>7. \A y \in Ids : pos[y] # 0 => pos[y] \in 1 .. Len(s)
    BY DEF Placed
  <1>8. ASSUME NEW y \in Ids, to[y] # 0
        PROVE  /\ to[y] \in 1 .. Len(t)
               /\ to[y] <= Len(t)
               /\ \A z \in Ids : z # y => to[z] # to[y]
               /\ y \notin more => to[y] \in CommittedIn(t, y) /\ \A q \in CommittedIn(t, y) : q <= to[y]
    <2>1. CASE y = x
      BY <1>1, <1>3, <1>4, <1>6, <1>7, <2>1
    <2>2. CASE y # x
      <3>1. to[y] = pos[y] /\ pos[y] \in 1 .. Len(s)
        BY <1>6, <1>7, <1>8, <2>2
      <3>2. \A z \in Ids : z # y => to[z] # to[y]
        BY <1>1, <1>6, <1>7, <3>1 DEF Placed
      <3>3. y \notin more => to[y] \in CommittedIn(t, y) /\ \A q \in CommittedIn(t, y) : q <= to[y]
        BY <1>2, <2>2, <3>1 DEF Placed
      <3>. QED
        BY <1>1, <3>1, <3>2, <3>3
    <2>. QED
      BY <2>1, <2>2
  <1>. QED
    BY <1>1, <1>5, <1>8 DEF Placed

\* Positions that open finds are placed.
LEMMA PlacedFound ==
  ASSUME NEW pos \in [Ids -> Nat], NEW s \in Seq(Slots), NEW doubt, \A x \in Ids : pos[x] \in {0, SlotIn(s, x)}
  PROVE  Placed(pos, s, Len(s), doubt)
  <1>1. \A x \in Ids : pos[x] # 0 => /\ pos[x] \in CommittedIn(s, x) /\ \A q \in CommittedIn(s, x) : q <= pos[x]
                                     /\ pos[x] \in 1 .. Len(s) /\ s[pos[x]].id = x
    <2>1. \A x \in Ids : SlotIn(s, x) # 0 => CommittedIn(s, x) # {}
      BY DEF SlotIn
    <2>. QED
      BY <2>1, SlotInFacts
  <1>. QED
    BY <1>1 DEF Placed

\* The variables and what they hold.
Types ==
  /\ scenario \in Scenarios /\ version \in 1 .. MaxVersion /\ crashes \in 0 .. scenario.crashes
  /\ records \in [Ids -> 0 .. MaxVersion] /\ position \in [Ids -> Nat]
  /\ index \in [{0, 1} -> Seq(Ids)]
  /\ blob \in [Ids -> Stored] /\ log \in Seq(Entries)
  /\ slots \in Seq(Slots) /\ flushed \in Seq(Slots)
  /\ mapped \in 0 .. Len(slots) /\ ragged \in BOOLEAN /\ stray \in SUBSET Ids
  /\ phase \in {"up", "down", "reading", "blob", "opened", "broken", "dead"}
  /\ pc \in {"idle", "insert", "replace", "delete", "compact_slots", "compact_log"}
  /\ cur \in [id : Ids, v : 0 .. MaxVersion]
  /\ allowed \in [Ids -> SUBSET Recs] /\ misnumbered \in BOOLEAN

\* Each bucket of the index lists the ids of its value.
Members(recs, b) == {x \in Ids : recs[x] # 0 /\ Bucket(recs[x]) = b}
Indexed(recs, ix) == \A b \in {0, 1} : Lists(ix[b], Members(recs, b))

\* The positions are those of the slot file in place, but for what history says.
Numbered ==
  \/ phase \in {"reading", "blob", "opened"}
  \/ phase = "up" /\ ~misnumbered /\ pc # "compact_log"

\* Live records have positions, and while the store opens so have, at its end,
\* the records that blob and log hold.
Held ==
  /\ phase \in {"up", "opened"} => \A x \in Ids : position[x] = 0 <=> records[x] = 0
  /\ phase = "reading" => \A x \in Ids : position[x] # 0 => Fold(blob, log)[x] # NoRec
  /\ phase = "blob" => \A x \in Ids : position[x] = 0 <=> Fold(blob, log)[x] = NoRec

\* Live, InOrder and Rewritten, of memory and blob.
LiveIn(recs) == {x \in Ids : recs[x] # 0}
Order(recs, pos) == Ordered(LiveIn(recs), pos)
RewrittenOf(recs, pos, b) ==
  [i \in DOMAIN Order(recs, pos) |-> Slot(Order(recs, pos)[i], b[Order(recs, pos)[i]].scan)]

\* What holds between the steps of an operation.
Stages ==
  /\ phase # "up" => pc = "idle"
  /\ pc = "insert" => records[cur.id] = 0 /\ cur.v # 0
  /\ pc = "replace" => records[cur.id] # 0 /\ cur.v # 0
  /\ pc = "delete" => records[cur.id] # 0
  /\ pc = "compact_slots" => \A x \in Ids : records[x] # 0 => blob[x] # NoRec
  /\ pc = "compact_log" => slots = RewrittenOf(records, position, blob) /\ mapped = Len(slots)

StoreInv ==
  /\ Types
  /\ Indexed(records, index)
  /\ Numbered => Placed(position, slots, mapped, stray)
  /\ Held
  /\ Stages

LEMMA Parameters ==
  /\ IsFiniteSet(Ids) /\ Loaded \subseteq Ids /\ (CHOOSE x \in Ids : TRUE) \in Ids
  /\ MaxVersion \in Nat
  /\ \A s \in Scenarios : s.crashes \in Nat /\ s.writes \in Nat /\ s.writes <= MaxVersion /\ 1 <= MaxVersion
  <1>1. \A s \in Scenarios : s.crashes \in Nat /\ s.writes \in 1 .. MaxVersion
    BY StoreAssumption DEF IsScenario
  <1>2. MaxVersion \in Nat
    BY StoreAssumption
  <1>. QED
    BY <1>1, <1>2, StoreAssumption

LEMMA BucketType == \A v \in Nat : Bucket(v) \in {0, 1}
  BY DEF Bucket

\* An id is listed in its record's bucket,
LEMMA IndexedAdd ==
  ASSUME NEW recs \in [Ids -> Nat], NEW ix \in [{0, 1} -> Seq(Ids)], Indexed(recs, ix),
         NEW x \in Ids, recs[x] = 0, NEW v \in Nat \ {0}
  PROVE  /\ [ix EXCEPT ![Bucket(v)] = Append(@, x)] \in [{0, 1} -> Seq(Ids)]
         /\ Indexed([recs EXCEPT ![x] = v], [ix EXCEPT ![Bucket(v)] = Append(@, x)])
  <1>1. PICK b \in {0, 1} : b = Bucket(v)
    BY BucketType
  <1>2. PICK jx : jx = [ix EXCEPT ![b] = Append(ix[b], x)]
    OBVIOUS
  <1>3. PICK to : to = [recs EXCEPT ![x] = v]
    OBVIOUS
  <1>4. jx \in [{0, 1} -> Seq(Ids)]
    BY <1>2
  <1>5. ASSUME NEW c \in {0, 1} PROVE Lists(jx[c], Members(to, c))
    <2>1. Lists(ix[c], Members(recs, c)) /\ x \notin Members(recs, c)
      BY DEF Indexed, Members
    <2>2. CASE c = b
      <3>1. Members(to, c) = Members(recs, c) \cup {x}
        BY <1>1, <1>3, <2>2 DEF Members
      <3>2. jx[c] = Append(ix[c], x)
        BY <1>2, <2>2
      <3>. QED
        BY <2>1, <3>1, <3>2, AppendLists
    <2>3. CASE c # b
      <3>1. Members(to, c) = Members(recs, c)
        BY <1>1, <1>3, <2>3 DEF Members
      <3>2. jx[c] = ix[c]
        BY <1>2, <2>3
      <3>. QED
        BY <2>1, <3>1, <3>2
    <2>. QED
      BY <2>2, <2>3
  <1>6. Indexed(to, jx)
    BY <1>5 DEF Indexed
  <1>7. jx = [ix EXCEPT ![Bucket(v)] = Append(@, x)]
    BY <1>1, <1>2
  <1>. QED
    BY <1>3, <1>4, <1>6, <1>7

\* taken off it when the record goes,
LEMMA IndexedRemove ==
  ASSUME NEW recs \in [Ids -> Nat], NEW ix \in [{0, 1} -> Seq(Ids)], Indexed(recs, ix),
         NEW x \in Ids, recs[x] # 0
  PROVE  /\ [ix EXCEPT ![Bucket(recs[x])] = Without(@, x)] \in [{0, 1} -> Seq(Ids)]
         /\ Indexed([recs EXCEPT ![x] = 0], [ix EXCEPT ![Bucket(recs[x])] = Without(@, x)])
  <1>1. PICK b \in {0, 1} : b = Bucket(recs[x])
    BY BucketType
  <1>2. PICK jx : jx = [ix EXCEPT ![b] = Without(ix[b], x)]
    OBVIOUS
  <1>3. PICK to : to = [recs EXCEPT ![x] = 0]
    OBVIOUS
  <1>4. ASSUME NEW c \in {0, 1} PROVE Lists(jx[c], Members(to, c))
    <2>1. Lists(ix[c], Members(recs, c))
      BY DEF Indexed
    <2>2. CASE c = b
      <3>1. Members(to, c) = Members(recs, c) \ {x}
        BY <1>1, <1>3, <2>2 DEF Members
      <3>2. jx[c] = Without(ix[c], x)
        BY <1>2, <2>2
      <3>. QED
        BY <2>1, <3>1, <3>2, WithoutLists
    <2>3. CASE c # b
      <3>1. Members(to, c) = Members(recs, c)
        BY <1>1, <1>3, <2>3 DEF Members
      <3>2. jx[c] = ix[c]
        BY <1>2, <2>3
      <3>. QED
        BY <2>1, <3>1, <3>2
    <2>. QED
      BY <2>2, <2>3
  <1>5. jx \in [{0, 1} -> Seq(Ids)]
    <2>1. \A c \in {0, 1} : jx[c] \in Seq(Members(to, c)) /\ Members(to, c) \subseteq Ids
      BY <1>4 DEF Lists, Members
    <2>2. \A c \in {0, 1} : jx[c] \in Seq(Ids)
      BY <2>1, SeqMonotonic
    <2>. QED
      BY <1>2, <2>2
  <1>6. Indexed(to, jx)
    BY <1>4 DEF Indexed
  <1>7. jx = [ix EXCEPT ![Bucket(recs[x])] = Without(@, x)]
    BY <1>1, <1>2
  <1>. QED
    BY <1>3, <1>5, <1>6, <1>7

\* and moved, or left, when it is replaced.
Moved(recs, ix, x, v) ==
  IF Bucket(v) = Bucket(recs[x]) THEN ix
  ELSE [[ix EXCEPT ![Bucket(recs[x])] = Without(@, x)] EXCEPT ![Bucket(v)] = Append(@, x)]

LEMMA IndexedMove ==
  ASSUME NEW recs \in [Ids -> Nat], NEW ix \in [{0, 1} -> Seq(Ids)], Indexed(recs, ix),
         NEW x \in Ids, recs[x] # 0, NEW v \in Nat \ {0}
  PROVE  Moved(recs, ix, x, v) \in [{0, 1} -> Seq(Ids)] /\ Indexed([recs EXCEPT ![x] = v], Moved(recs, ix, x, v))
  <1>. DEFINE jx == Moved(recs, ix, x, v)
  <1>0. jx = IF Bucket(v) = Bucket(recs[x]) THEN ix
             ELSE [[ix EXCEPT ![Bucket(recs[x])] = Without(@, x)] EXCEPT ![Bucket(v)] = Append(@, x)]
    BY DEF Moved
  <1>. HIDE DEF jx
  <1>1. CASE Bucket(v) = Bucket(recs[x])
    <2>1. \A c : Members([recs EXCEPT ![x] = v], c) = Members(recs, c)
      BY <1>1 DEF Members
    <2>. QED
      BY <1>0, <1>1, <2>1 DEF Indexed, jx
  <1>2. CASE Bucket(v) # Bucket(recs[x])
    <2>1. PICK kx : kx = [ix EXCEPT ![Bucket(recs[x])] = Without(@, x)]
      OBVIOUS
    <2>2. PICK to : to = [recs EXCEPT ![x] = 0]
      OBVIOUS
    <2>3. kx \in [{0, 1} -> Seq(Ids)] /\ Indexed(to, kx)
      BY <2>1, <2>2, IndexedRemove
    <2>4. to \in [Ids -> Nat] /\ to[x] = 0
      BY <2>2
    <2>5. /\ [kx EXCEPT ![Bucket(v)] = Append(@, x)] \in [{0, 1} -> Seq(Ids)]
          /\ Indexed([to EXCEPT ![x] = v], [kx EXCEPT ![Bucket(v)] = Append(@, x)])
      BY <2>3, <2>4, IndexedAdd
    <2>6. [to EXCEPT ![x] = v] = [recs EXCEPT ![x] = v]
      BY <2>2
    <2>7. jx = [kx EXCEPT ![Bucket(v)] = Append(@, x)]
      BY <1>0, <1>2, <2>1
    <2>. QED
      BY <2>5, <2>6, <2>7 DEF jx
  <1>. QED
    BY <1>1, <1>2 DEF jx

------------------------------------------------------------------------------
(* The invariant holds initially                                           *)

LEMMA InitSlots ==
  ASSUME Init
  PROVE  /\ slots \in Seq(Slots) /\ position \in [Ids -> Nat]
         /\ \A x \in Ids : position[x] \in {0, SlotIn(slots, x)}
         /\ \A x \in Ids : position[x] = 0 <=> records[x] = 0
         /\ \A x \in Ids : records[x] = 0 => CommittedIn(slots, x) = {}
         /\ \A x \in Ids : \A p \in CommittedIn(slots, x) : p = position[x] /\ slots[p].val = 1
  <1>. DEFINE T == {Slot(x, 1) : x \in Loaded}
  <1>1. 1 \in 1 .. MaxVersion /\ IsFiniteSet(Loaded) /\ Loaded \subseteq Ids
    <2>1. scenario \in Scenarios
      BY DEF Init
    <2>. QED
      BY <2>1, Parameters, FS_Subset
  <1>2. T \subseteq Slots /\ \A x \in Loaded : Slot(x, 1).id = x /\ Slot(x, 1).committed
    <2>1. \A x \in Loaded : Slot(x, 1) \in Slots
      BY <1>1 DEF Slot, Slots
    <2>2. \A x \in Loaded : Slot(x, 1).id = x /\ Slot(x, 1).committed
      BY DEF Slot
    <2>. QED
      BY <2>1, <2>2
  <1>3. Lists(slots, T)
    <2>. DEFINE f == [x \in Loaded |-> Slot(x, 1)]
    <2>1. f \in Surjection(Loaded, T)
      BY DEF Surjection
    <2>. HIDE DEF f
    <2>2. IsFiniteSet(T)
      BY <1>1, <2>1, FS_Surjection
    <2>. QED
      BY <2>2, SetToSeqLists DEF Init
  <1>4. slots \in Seq(Slots)
    BY <1>2, <1>3, SeqMonotonic DEF Lists
  <1>5. /\ \A p \in DOMAIN slots : p \in Nat /\ slots[p] \in T
        /\ \A x \in Loaded : \E p \in DOMAIN slots : slots[p] = Slot(x, 1)
        /\ \A p, q \in DOMAIN slots : slots[p] = slots[q] => p = q
    <2>1. slots \in Seq(T) /\ \A t \in T : \E p \in DOMAIN slots : slots[p] = t
      BY <1>3 DEF Lists
    <2>2. \A p, q \in DOMAIN slots : slots[p] = slots[q] => p = q
      BY <1>3 DEF Lists, IsInjective
    <2>3. \A x \in Loaded : Slot(x, 1) \in T
      OBVIOUS
    <2>. HIDE DEF T
    <2>4. \A p \in DOMAIN slots : p \in Nat /\ slots[p] \in T
      BY <2>1
    <2>. QED
      BY <2>1, <2>2, <2>3, <2>4
  <1>. HIDE DEF T
  <1>6. \A p \in DOMAIN slots : \A x \in Loaded : slots[p].id = x => slots[p] = Slot(x, 1)
    BY <1>2, <1>5 DEF T
  <1>7. ASSUME NEW x \in Loaded
        PROVE  /\ position[x] \in CommittedIn(slots, x) /\ \A q \in CommittedIn(slots, x) : q = position[x]
               /\ records[x] = 1
    <2>1. position[x] = CHOOSE p \in DOMAIN slots : slots[p].id = x
      BY <1>1 DEF Init
    <2>2. \E p \in DOMAIN slots : slots[p].id = x
      BY <1>2, <1>5
    <2>3. position[x] \in DOMAIN slots /\ slots[position[x]].id = x
      BY <2>1, <2>2
    <2>4. \A q \in DOMAIN slots : slots[q].id = x => q = position[x]
      BY <1>5, <1>6, <2>3
    <2>. QED
      BY <1>1, <1>2, <1>6, <2>3, <2>4 DEF CommittedIn, Init
  <1>8. \A x \in Ids \ Loaded : records[x] = 0 /\ position[x] = 0
    BY DEF Init
  <1>9. \A x \in Loaded : position[x] = SlotIn(slots, x) /\ position[x] \in Nat /\ position[x] # 0
    BY <1>4, <1>7, SlotInFacts
  <1>10. position \in [Ids -> Nat]
    BY <1>8, <1>9 DEF Init
  <1>11. \A x \in Ids \ Loaded : CommittedIn(slots, x) = {}
    <2>1. \A p \in DOMAIN slots : slots[p].id \in Loaded
      <3>1. \A e \in T : e.id \in Loaded
        BY <1>2 DEF T
      <3>. QED
        BY <1>5, <3>1
    <2>. QED
      BY <2>1 DEF CommittedIn
  <1>12. \A x \in Loaded : records[x] # 0
    BY <1>7
  <1>13. ASSUME NEW x \in Ids, NEW p \in CommittedIn(slots, x) PROVE p = position[x] /\ slots[p].val = 1
    <2>1. x \in Loaded /\ p \in DOMAIN slots /\ slots[p].id = x
      BY <1>11 DEF CommittedIn
    <2>2. slots[p] = Slot(x, 1) /\ p = position[x]
      BY <1>6, <1>7, <2>1
    <2>. QED
      BY <2>2 DEF Slot
  <1>. QED
    BY <1>4, <1>8, <1>9, <1>10, <1>11, <1>12, <1>13

LEMMA InitStore == Init => StoreInv
  <1>. SUFFICES ASSUME Init PROVE StoreInv
    OBVIOUS
  <1>1. /\ scenario \in Scenarios /\ scenario.crashes \in Nat /\ 1 \in 1 .. MaxVersion
        /\ IsFiniteSet(Loaded) /\ Loaded \subseteq Ids
    <2>1. scenario \in Scenarios
      BY DEF Init
    <2>. QED
      BY <2>1, Parameters, FS_Subset
  <1>2. /\ slots \in Seq(Slots) /\ flushed \in Seq(Slots) /\ position \in [Ids -> Nat]
        /\ mapped = Len(slots) /\ \A x \in Ids : position[x] = 0 <=> records[x] = 0
    <2>1. flushed = slots /\ mapped = Len(slots)
      BY DEF Init
    <2>2. slots \in Seq(Slots) /\ position \in [Ids -> Nat] /\ \A x \in Ids : position[x] = 0 <=> records[x] = 0
      BY InitSlots DEF Init
    <2>. QED
      BY <2>1, <2>2
  <1>a. Placed(position, slots, mapped, stray)
    <2>1. \A x \in Ids : position[x] \in {0, SlotIn(slots, x)}
      BY InitSlots DEF Init
    <2>. QED
      BY <1>2, <2>1, PlacedFound
  <1>3. records \in [Ids -> 0 .. MaxVersion]
    <2>1. 0 \in 0 .. MaxVersion /\ 1 \in 0 .. MaxVersion
      BY <1>1, Parameters
    <2>. QED
      BY <2>1 DEF Init
  <1>4. Bucket(1) = 1
    BY DEF Bucket
  <1>5. \A b \in {0, 1} : Lists(index[b], Members(records, b)) /\ index[b] \in Seq(Ids)
    <2>. SUFFICES ASSUME NEW b \in {0, 1} PROVE Lists(index[b], Members(records, b)) /\ index[b] \in Seq(Ids)
      OBVIOUS
    <2>1. CASE b = 1
      <3>1. Members(records, 1) = Loaded
        BY <1>1, <1>4 DEF Members, Init
      <3>2. index[1] = SetToSeq(Loaded)
        BY <1>4 DEF Init
      <3>3. Lists(index[1], Loaded)
        BY <1>1, <3>2, SetToSeqLists
      <3>. QED
        BY <1>1, <2>1, <3>1, <3>3, SeqMonotonic DEF Lists
    <2>2. CASE b = 0
      <3>1. Members(records, 0) = {}
        BY <1>1, <1>4 DEF Members, Init
      <3>2. index[0] = <<>>
        BY <1>4 DEF Init
      <3>3. Lists(<<>>, {})
        BY DEF Lists, IsInjective
      <3>. QED
        BY <2>2, <3>1, <3>2, <3>3
    <2>. QED
      BY <2>1, <2>2
  <1>6. blob \in [Ids -> Stored] /\ allowed \in [Ids -> SUBSET Recs]
    <2>1. Rec(1, 1) \in Stored /\ NoRec \in Stored
      BY <1>1 DEF Rec, Stored
    <2>2. Stored \subseteq Recs
      BY Parameters DEF Stored, Recs, NoRec
    <2>3. blob \in [Ids -> Stored]
      BY <2>1 DEF Init
    <2>. QED
      BY <2>2, <2>3 DEF Init
  <1>7. index \in [{0, 1} -> Seq(Ids)]
    BY <1>5 DEF Init
  <1>8. cur \in [id : Ids, v : 0 .. MaxVersion]
    BY Parameters DEF Init, NoCall
  <1>9. Types
    <2>1. log \in Seq(Entries) /\ version \in 1 .. MaxVersion /\ crashes \in 0 .. scenario.crashes
      BY <1>1 DEF Init
    <2>2. phase = "up" /\ pc = "idle" /\ misnumbered \in BOOLEAN /\ ragged \in BOOLEAN /\ stray \in SUBSET Ids
      BY DEF Init
    <2>3. mapped \in 0 .. Len(slots)
      BY <1>2
    <2>. QED
      BY <2>3, <1>1, <1>2, <1>3, <1>6, <1>7, <1>8, <2>1, <2>2 DEF Types
  <1>10. Stages /\ Held
    BY <1>2 DEF Init, Stages, Held
  <1>. QED
    BY <1>a, <1>2, <1>5, <1>9, <1>10 DEF StoreInv, Indexed

------------------------------------------------------------------------------
(* Every step preserves it: the log entries                                *)

LEMMA JunkEntry ==
  ASSUME NEW e \in Entries
  PROVE  Junk(e) \in Entries /\ Junk(e).kind = "junk" /\ Junk(e).id = e.id
  <1>1. e.id \in Ids /\ e.body \in 0 .. MaxVersion
    BY Parameters DEF Entries
  <1>2. e \in [kind : {"item", "tombstone", "junk"}, id : Ids, body : 0 .. MaxVersion]
    BY Parameters DEF Entries
  <1>3. Junk(e) = [kind |-> "junk", id |-> e.id, body |-> e.body]
    BY <1>2 DEF Junk
  <1>. QED
    BY <1>1, <1>3 DEF Entries

LEMMA LogStep ==
  ASSUME StoreInv, NEW op \in {"insert", "replace", "delete"}, NEW x \in Ids, NEW v \in 1 .. MaxVersion,
         NEW entry \in Entries, NEW outcomes \in SUBSET Recs,
         Idle(op), op = "insert" <=> records[x] = 0, LogEntry(op, x, v, entry, outcomes)
  PROVE  StoreInv'
  <1>1. /\ log' = Append(log, entry) \/ log' = Append(log, Junk(entry))
        /\ (pc' = op /\ cur' = [id |-> x, v |-> v]) \/ (pc' = pc /\ cur' = cur)
        /\ allowed' = allowed \/ allowed' = [allowed EXCEPT ![x] = @ \cup outcomes]
        /\ version' = v
    BY DEF LogEntry
  <1>2. /\ records' = records /\ position' = position /\ index' = index /\ blob' = blob
        /\ slots' = slots /\ flushed' = flushed /\ phase' = phase /\ scenario' = scenario
        /\ crashes' = crashes /\ misnumbered' = misnumbered /\ mapped' = mapped /\ ragged' = ragged
        /\ stray' = stray
    BY DEF LogEntry, memory, file, life, bounds
  <1>3. phase = "up" /\ pc = "idle"
    BY DEF Idle
  <1>4. log' \in Seq(Entries)
    <2>1. Junk(entry) \in Entries
      BY JunkEntry
    <2>2. log \in Seq(Entries)
      BY DEF StoreInv, Types
    <2>. QED
      BY <1>1, <2>1, <2>2
  <1>5. allowed' \in [Ids -> SUBSET Recs]
    <2>1. allowed \in [Ids -> SUBSET Recs]
      BY DEF StoreInv, Types
    <2>2. PICK e \in SUBSET Recs : e = allowed[x] \cup outcomes
      BY <2>1
    <2>. QED
      BY <1>1, <2>1, <2>2
  <1>6. version' \in 1 .. MaxVersion /\ pc' \in {"idle", "insert", "replace", "delete"}
    BY <1>1, <1>3
  <1>7. cur' \in [id : Ids, v : 0 .. MaxVersion]
    <2>1. v \in 0 .. MaxVersion /\ cur \in [id : Ids, v : 0 .. MaxVersion]
      BY Parameters DEF StoreInv, Types
    <2>. QED
      BY <1>1, <2>1
  <1>8. Types'
    BY <1>2, <1>4, <1>5, <1>6, <1>7 DEF StoreInv, Types
  <1>9. Stages'
    <2>1. pc' = op => cur'.id = x /\ cur'.v # 0
      <3>1. v # 0
        OBVIOUS
      <3>. QED
        BY <1>1, <1>3, <3>1
    <2>. QED
      BY <1>1, <1>2, <1>3, <2>1 DEF Stages
  <1>10. Indexed(records', index') /\ (Numbered' => Placed(position', slots', mapped', stray'))
    BY <1>1, <1>2, <1>3 DEF StoreInv, Numbered
  <1>11. Held'
    BY <1>2, <1>3 DEF StoreInv, Held
  <1>. QED
    BY <1>8, <1>9, <1>10, <1>11 DEF StoreInv

\* The versions of a write.
LEMMA NextVersion ==
  ASSUME StoreInv, version < scenario.writes
  PROVE  version + 1 \in 1 .. MaxVersion /\ Rec(version + 1, version + 1) \in Recs
  <1>1. scenario.writes \in Nat /\ scenario.writes <= MaxVersion /\ MaxVersion \in Nat
    BY Parameters DEF StoreInv, Types
  <1>2. version \in Nat
    BY DEF StoreInv, Types
  <1>3. version + 1 \in 1 .. MaxVersion
    BY <1>1, <1>2
  <1>. QED
    BY <1>3 DEF Rec, Recs

LEMMA InsertStep ==
  ASSUME StoreInv, NEW x \in Ids, Insert(x)
  PROVE  StoreInv'
  <1>1. PICK v \in 1 .. MaxVersion : v = version + 1 /\ Rec(v, v) \in Recs
    BY NextVersion DEF Insert
  <1>2. Item(x, v) \in Entries
    BY DEF Item, Entries
  <1>3. Idle("insert") /\ records[x] = 0 /\ LogEntry("insert", x, v, Item(x, v), {Rec(v, v)})
    BY <1>1 DEF Insert
  <1>. QED
    BY <1>1, <1>2, <1>3, LogStep

LEMMA ReplaceStep ==
  ASSUME StoreInv, NEW x \in Ids, Replace(x)
  PROVE  StoreInv'
  <1>1. PICK v \in 1 .. MaxVersion : v = version + 1 /\ Rec(v, v) \in Recs
    BY NextVersion DEF Replace
  <1>2. Item(x, v) \in Entries
    BY DEF Item, Entries
  <1>3. PICK o : o = {Rec(v, v)} \cup {Rec(v, r.scan) : r \in allowed[x] \ {NoRec}}
    OBVIOUS
  <1>4. o \in SUBSET Recs
    <2>1. allowed[x] \in SUBSET Recs /\ v \in 0 .. MaxVersion
      BY Parameters DEF StoreInv, Types
    <2>2. \A r \in allowed[x] : Rec(v, r.scan) \in Recs
      BY <2>1 DEF Rec, Recs
    <2>. QED
      BY <1>1, <1>3, <2>2
  <1>5. Idle("replace") /\ records[x] # 0 /\ LogEntry("replace", x, v, Item(x, v), o)
    BY <1>1, <1>3 DEF Replace
  <1>. QED
    BY <1>2, <1>4, <1>5, LogStep

LEMMA DeleteStep ==
  ASSUME StoreInv, NEW x \in Ids, Delete(x)
  PROVE  StoreInv'
  <1>1. Tombstone(x) \in Entries
    BY DEF Tombstone, Entries
  <1>2. version \in 1 .. MaxVersion /\ {NoRec} \in SUBSET Recs
    BY Parameters DEF StoreInv, Types, NoRec, Recs
  <1>3. Idle("delete") /\ records[x] # 0 /\ LogEntry("delete", x, version, Tombstone(x), {NoRec})
    BY DEF Delete
  <1>. QED
    BY <1>1, <1>2, <1>3, LogStep

------------------------------------------------------------------------------
(* ... the slots and the maps                                              *)

\* What a reader may find after the step.
LEMMA DoneTypes ==
  ASSUME StoreInv, NEW x \in Ids, NEW R \in SUBSET Recs, Done(x, R)
  PROVE  allowed' \in [Ids -> SUBSET Recs] /\ pc' = "idle" /\ cur' \in [id : Ids, v : 0 .. MaxVersion]
  <1>1. /\ pc' = "idle" /\ cur' = NoCall /\ allowed' = [allowed EXCEPT ![x] = R]
        /\ allowed \in [Ids -> SUBSET Recs]
    BY DEF Done, StoreInv, Types
  <1>2. NoCall \in [id : Ids, v : 0 .. MaxVersion]
    BY Parameters DEF NoCall
  <1>. QED
    BY <1>1, <1>2

LEMMA AnyScanTypes ==
  ASSUME NEW R
  PROVE  /\ R \subseteq Recs => AnyScan(R) \subseteq Recs /\ \A s \in 1 .. MaxVersion : WithScan(R, s) \subseteq Recs
         /\ R \subseteq Stored => AnyScan(R) \subseteq Stored /\ \A s \in 1 .. MaxVersion : WithScan(R, s) \subseteq Stored
  <1>1. ASSUME R \subseteq Recs PROVE \A s \in 1 .. MaxVersion : WithScan(R, s) \subseteq Recs
    BY <1>1, Parameters DEF WithScan, Rec, Recs
  <1>2. ASSUME R \subseteq Stored PROVE \A s \in 1 .. MaxVersion : WithScan(R, s) \subseteq Stored
    BY <1>2, Parameters DEF WithScan, Rec, Stored
  <1>. QED
    BY <1>1, <1>2 DEF AnyScan

\* A slot appended for x is x's own unless it lands behind half a slot,
LEMMA Appending ==
  ASSUME Types, NEW x \in Ids, NEW v \in 1 .. MaxVersion, AppendSlot(x, v)
  PROVE  /\ stray' \in SUBSET Ids /\ stray \subseteq stray' /\ ragged' = ragged
         /\ ragged => stray' = stray \cup {x}
         /\ ~ragged => stray' = stray /\ slots' = Append(slots, Slot(x, v))
         /\ \E e \in Slots : /\ slots' = Append(slots, e)
                             /\ e.committed => e.id \in stray' \/ e.id = x
                             /\ x \notin stray' => e.id = x /\ e.committed
  <1>1. stray \in SUBSET Ids /\ ragged \in BOOLEAN
    BY DEF Types
  <1>2. Slot(x, v) \in Slots /\ Slot(x, v).id = x /\ Slot(x, v).committed
    BY DEF Slot, Slots
  <1>3. CASE ragged
    <2>1. PICK e \in Slots : e \in Garbled(x) /\ slots' = Append(slots, e)
      BY <1>3 DEF AppendSlot, Garbled
    <2>2. e.committed => e.id \in stray
      BY <2>1 DEF Garbled
    <2>3. stray' = stray \cup {x} /\ ragged' = ragged
      BY <1>3 DEF AppendSlot
    <2>. QED
      BY <1>1, <1>3, <2>1, <2>2, <2>3
  <1>4. CASE ~ragged
    <2>1. slots' = Append(slots, Slot(x, v)) /\ stray' = stray /\ ragged' = ragged
      BY <1>4 DEF AppendSlot
    <2>. QED
      BY <1>1, <1>2, <1>4, <2>1
  <1>. QED
    BY <1>3, <1>4

\* and whatever is left of a failed append, the slots of the others stay theirs.
LEMMA FailedAppend ==
  ASSUME Types, NEW x \in Ids, NEW v \in 1 .. MaxVersion, AppendFails(x, v)
  PROVE  /\ slots' \in Seq(Slots) /\ Len(slots) <= Len(slots') /\ Len(slots) \in Nat /\ Len(slots') \in Nat
         /\ ragged' \in BOOLEAN /\ stray' \in SUBSET Ids /\ stray \subseteq stray'
         /\ \/ UNCHANGED <<slots, ragged, stray>>
            \/ /\ stray' = stray \cup {x}
               /\ \/ slots' = slots
                  \/ \E e \in Slots : slots' = Append(slots, e) /\ (e.committed => e.id \in stray')
  <1>1. stray \in SUBSET Ids /\ ragged \in BOOLEAN /\ slots \in Seq(Slots) /\ Len(slots) \in Nat
    BY DEF Types
  <1>2. Slot(x, v) \in Slots /\ Slot(x, v).id = x
    BY DEF Slot, Slots
  <1>3. /\ ragged' \in BOOLEAN
        /\ \/ UNCHANGED <<slots, ragged, stray>>
           \/ /\ stray' = stray \cup {x}
              /\ \/ slots' = slots
                 \/ \E e \in Slots : slots' = Append(slots, e) /\ (e.committed => e.id \in stray')
    <2>1. CASE UNCHANGED <<slots, ragged, stray>>
      BY <1>1, <2>1
    <2>2. CASE stray' = stray \cup {x} /\ slots' = slots /\ ragged' = TRUE
      BY <2>2
    <2>3. CASE stray' = stray \cup {x} /\ slots' = Append(slots, Slot(x, v)) /\ ragged' = FALSE
      BY <1>2, <2>3
    <2>4. CASE stray' = stray \cup {x} /\ ragged' \in BOOLEAN /\ slots' \in {Append(slots, s) : s \in Garbled(x)}
      <3>1. PICK e \in Slots : slots' = Append(slots, e) /\ (e.committed => e.id \in stray)
        BY <2>4 DEF Garbled
      <3>. QED
        BY <2>4, <3>1
    <2>. QED
      BY <2>1, <2>2, <2>3, <2>4 DEF AppendFails
  <1>4. slots' \in Seq(Slots) /\ Len(slots) <= Len(slots') /\ Len(slots') \in Nat
    <2>1. CASE slots' = slots
      BY <1>1, <2>1
    <2>2. ASSUME NEW e \in Slots, slots' = Append(slots, e) PROVE slots' \in Seq(Slots) /\ Len(slots) <= Len(slots') /\ Len(slots') \in Nat
      BY <1>1, <2>2
    <2>. QED
      BY <1>3, <2>1, <2>2
  <1>. QED
    BY <1>1, <1>3, <1>4

\* So the positions stay good.
LEMMA FailedAppendPlaced ==
  ASSUME Types, NEW x \in Ids, NEW v \in 1 .. MaxVersion, AppendFails(x, v), Placed(position, slots, mapped, stray)
  PROVE  Placed(position, slots', mapped, stray')
  <1>1. position \in [Ids -> Nat] /\ slots \in Seq(Slots)
    BY DEF Types
  <1>2. /\ stray \subseteq stray'
        /\ \/ slots' = slots
           \/ \E e \in Slots : slots' = Append(slots, e) /\ (e.committed => e.id \in stray')
    BY FailedAppend
  <1>3. CASE slots' = slots
    BY <1>2, <1>3 DEF Placed
  <1>4. ASSUME NEW e \in Slots, slots' = Append(slots, e), e.committed => e.id \in stray'
        PROVE  Placed(position, slots', mapped, stray')
    <2>1. PICK more : more = stray'
      OBVIOUS
    <2>2. stray \subseteq more /\ (e.committed => e.id \in more)
      <3>1. stray \subseteq more
        BY <1>2, <2>1
      <3>2. e.committed => e.id \in more
        BY <1>4, <2>1
      <3>. QED
        BY <3>1, <3>2
    <2>3. Placed(position, Append(slots, e), mapped, more)
      BY <1>1, <2>2, PlacedBehind
    <2>. QED
      BY <1>4, <2>1, <2>3
  <1>. QED
    BY <1>2, <1>3, <1>4

\* A write into a slot that is mapped.
LEMMA Writing ==
  ASSUME Types, NEW x \in Ids, Mapped(x), NEW s, WriteSlot(x, s)
  PROVE  /\ position[x] \in DOMAIN slots /\ slots' = [slots EXCEPT ![position[x]] = s]
         /\ stray' \in SUBSET Ids /\ stray \subseteq stray' /\ (~misnumbered => stray' = stray)
         /\ ragged' = ragged /\ mapped' = mapped
  <1>1. PICK n \in Nat : n = Len(slots) /\ mapped \in 0 .. n /\ DOMAIN slots = 1 .. n
    BY DEF Types
  <1>2. position[x] \in DOMAIN slots
    BY <1>1 DEF Mapped
  <1>3. PICK e \in Slots : e = slots[position[x]]
    BY <1>2 DEF Types
  <1>4. stray \in SUBSET Ids /\ e.id \in Ids
    BY <1>3 DEF Types, Slots
  <1>5. stray' = IF misnumbered THEN stray \cup {x, e.id} ELSE stray
    BY <1>3 DEF WriteSlot
  <1>. QED
    BY <1>2, <1>4, <1>5 DEF WriteSlot

LEMMA InsertSlotStep ==
  ASSUME StoreInv, InsertSlot
  PROVE  StoreInv'
  <1>1. PICK x \in Ids, v \in 1 .. MaxVersion : x = cur.id /\ v = cur.v /\ records[x] = 0 /\ phase = "up"
    BY DEF StoreInv, Types, Stages, InsertSlot
  <1>2. PICK R : R = IF ragged THEN AnyScan({Rec(v, v)}) ELSE {Rec(v, v)}
    OBVIOUS
  <1>3. /\ AppendSlot(x, v) /\ mapped' = Len(slots') /\ position' = [position EXCEPT ![x] = Len(slots')]
        /\ records' = [records EXCEPT ![x] = v] /\ index' = [index EXCEPT ![Bucket(v)] = Append(@, x)]
        /\ pc = "insert" /\ Done(x, R) /\ blob' = blob /\ log' = log /\ flushed' = flushed
        /\ phase' = phase /\ scenario' = scenario /\ crashes' = crashes /\ misnumbered' = misnumbered
        /\ version' = version
    BY <1>1, <1>2 DEF InsertSlot, life, bounds
  <1>4. v \in Nat \ {0} /\ v \in 0 .. MaxVersion /\ Rec(v, v) \in Recs /\ MaxVersion \in Nat
    BY Parameters DEF Rec, Recs
  <1>5. R \in SUBSET Recs
    BY <1>2, <1>4, AnyScanTypes
  <1>6. pc' = "idle" /\ cur' \in [id : Ids, v : 0 .. MaxVersion] /\ allowed' \in [Ids -> SUBSET Recs]
    BY <1>3, <1>5, DoneTypes
  <1>7. Types
    BY DEF StoreInv
  <1>8. /\ stray' \in SUBSET Ids /\ stray \subseteq stray' /\ ragged' = ragged
        /\ \E e \in Slots : /\ slots' = Append(slots, e)
                            /\ e.committed => e.id \in stray' \/ e.id = x
                            /\ x \notin stray' => e.id = x /\ e.committed
    BY <1>3, <1>7, Appending
  <1>9. PICK e \in Slots : /\ slots' = Append(slots, e)
                           /\ e.committed => e.id \in stray' \/ e.id = x
                           /\ x \notin stray' => e.id = x /\ e.committed
    BY <1>8
  <1>10. slots' \in Seq(Slots) /\ Len(slots') \in Nat \ {0}
    BY <1>7, <1>9 DEF Types
  <1>11. index' \in [{0, 1} -> Seq(Ids)] /\ Indexed(records', index')
    <2>1. records \in [Ids -> Nat]
      BY <1>7 DEF Types
    <2>. QED
      BY <1>1, <1>3, <1>4, <1>7, <2>1, IndexedAdd DEF StoreInv, Types
  <1>12. records' \in [Ids -> 0 .. MaxVersion] /\ position' \in [Ids -> Nat]
    BY <1>3, <1>4, <1>7, <1>10 DEF Types
  <1>13. Types'
    <2>1. mapped' \in 0 .. Len(slots') /\ ragged' \in BOOLEAN
      BY <1>3, <1>7, <1>8, <1>10 DEF Types
    <2>. QED
      BY <1>3, <1>6, <1>7, <1>8, <1>10, <1>11, <1>12, <2>1 DEF Types
  <1>14. Numbered' => Placed(position', slots', mapped', stray')
    <2>. SUFFICES ASSUME Numbered' PROVE Placed(position', slots', mapped', stray')
      OBVIOUS
    <2>1. Placed(position, slots, mapped, stray)
      BY <1>1, <1>3 DEF StoreInv, Numbered
    <2>2. PICK more, t : more = stray' /\ t = Append(slots, e) /\ t = slots'
      BY <1>9
    <2>3. position \in [Ids -> Nat] /\ slots \in Seq(Slots)
      BY <1>7 DEF Types
    <2>4. Placed([position EXCEPT ![x] = Len(Append(slots, e))], Append(slots, e), Len(Append(slots, e)), more)
      BY <1>8, <1>9, <2>1, <2>2, <2>3, PlacedLast
    <2>. QED
      BY <1>3, <2>2, <2>4
  <1>15. Held'
    <2>1. \A y \in Ids : position[y] = 0 <=> records[y] = 0
      BY <1>1 DEF StoreInv, Held
    <2>2. \A y \in Ids : y # x => records'[y] = records[y] /\ position'[y] = position[y]
      BY <1>3, <1>7 DEF Types
    <2>3. records'[x] # 0 /\ position'[x] # 0
      BY <1>3, <1>4, <1>7, <1>10 DEF Types
    <2>. QED
      BY <1>1, <1>3, <2>1, <2>2, <2>3 DEF Held
  <1>16. Stages'
    BY <1>1, <1>3, <1>6 DEF Stages
  <1>. QED
    BY <1>11, <1>13, <1>14, <1>15, <1>16 DEF StoreInv

LEMMA InsertSlotFailsStep ==
  ASSUME StoreInv, InsertSlotFails
  PROVE  StoreInv'
  <1>1. PICK x \in Ids, v \in 1 .. MaxVersion : x = cur.id /\ v = cur.v /\ phase = "up"
    BY DEF StoreInv, Types, Stages, InsertSlotFails
  <1>2. /\ UNCHANGED <<records, position, index, mapped, blob, log, flushed, phase, scenario, crashes,
                       misnumbered, version, allowed>>
        /\ AppendFails(x, v) /\ pc = "insert" /\ pc' = "idle" /\ cur' = NoCall
    BY <1>1 DEF InsertSlotFails, memory, life, bounds
  <1>3. Types
    BY DEF StoreInv
  <1>4. Types'
    <2>1. /\ slots' \in Seq(Slots) /\ Len(slots) <= Len(slots') /\ Len(slots) \in Nat /\ Len(slots') \in Nat
          /\ ragged' \in BOOLEAN /\ stray' \in SUBSET Ids
      BY <1>2, <1>3, FailedAppend
    <2>2. mapped' \in 0 .. Len(slots')
      BY <1>2, <1>3, <2>1 DEF Types
    <2>3. cur' \in [id : Ids, v : 0 .. MaxVersion]
      BY <1>2, Parameters DEF NoCall
    <2>. QED
      BY <1>2, <1>3, <2>1, <2>2, <2>3 DEF Types
  <1>5. Numbered' => Placed(position', slots', mapped', stray')
    <2>1. Numbered' => Placed(position, slots, mapped, stray)
      BY <1>1, <1>2 DEF StoreInv, Numbered
    <2>. QED
      BY <1>2, <1>3, <2>1, FailedAppendPlaced
  <1>6. Indexed(records', index') /\ Held' /\ Stages'
    BY <1>1, <1>2 DEF StoreInv, Held, Stages
  <1>. QED
    BY <1>4, <1>5, <1>6 DEF StoreInv

LEMMA ReplaceSlotStep ==
  ASSUME StoreInv, ReplaceSlot
  PROVE  StoreInv'
  <1>1. PICK x \in Ids, v \in 1 .. MaxVersion : x = cur.id /\ v = cur.v /\ records[x] # 0 /\ phase = "up"
    BY DEF StoreInv, Types, Stages, ReplaceSlot
  <1>2. /\ Mapped(x) /\ WriteSlot(x, [slots[position[x]] EXCEPT !.val = v])
        /\ records' = [records EXCEPT ![x] = v] /\ Reindex(x, v) /\ position' = position
        /\ pc = "replace" /\ Done(x, {Rec(v, v)}) /\ blob' = blob /\ log' = log /\ flushed' = flushed
        /\ phase' = phase /\ scenario' = scenario /\ crashes' = crashes /\ misnumbered' = misnumbered
        /\ version' = version
    BY <1>1 DEF ReplaceSlot, life, bounds
  <1>3. v \in Nat \ {0} /\ v \in 0 .. MaxVersion /\ Rec(v, v) \in Recs /\ MaxVersion \in Nat
    BY Parameters DEF Rec, Recs
  <1>4. pc' = "idle" /\ cur' \in [id : Ids, v : 0 .. MaxVersion] /\ allowed' \in [Ids -> SUBSET Recs]
    BY <1>2, <1>3, DoneTypes
  <1>5. Types
    BY DEF StoreInv
  <1>a. /\ position[x] \in DOMAIN slots /\ slots' = [slots EXCEPT ![position[x]] = [slots[position[x]] EXCEPT !.val = v]]
        /\ stray' \in SUBSET Ids /\ stray \subseteq stray' /\ ragged' = ragged /\ mapped' = mapped
    BY <1>2, <1>5, Writing
  <1>6. PICK p \in DOMAIN slots : p = position[x] /\ slots' = WithVal(slots, p, v)
    BY <1>a DEF WithVal
  <1>7. slots' \in Seq(Slots) /\ Len(slots') = Len(slots)
    BY <1>5, <1>6, ValWritten DEF Types
  <1>8. index' \in [{0, 1} -> Seq(Ids)] /\ Indexed(records', index')
    <2>1. records \in [Ids -> Nat] /\ index \in [{0, 1} -> Seq(Ids)] /\ Indexed(records, index)
      BY <1>5 DEF Types, StoreInv
    <2>2. index' = Moved(records, index, x, v)
      BY <1>2 DEF Reindex, Unindex, Moved
    <2>3. /\ Moved(records, index, x, v) \in [{0, 1} -> Seq(Ids)]
          /\ Indexed([records EXCEPT ![x] = v], Moved(records, index, x, v))
      BY <1>1, <1>3, <2>1, IndexedMove
    <2>. QED
      BY <1>2, <2>2, <2>3
  <1>9. records' \in [Ids -> 0 .. MaxVersion]
    BY <1>2, <1>3, <1>5 DEF Types
  <1>10. Types'
    BY <1>a, <1>2, <1>4, <1>5, <1>7, <1>8, <1>9 DEF Types
  <1>11. Numbered' => Placed(position', slots', mapped', stray')
    <2>. SUFFICES ASSUME Numbered' PROVE Placed(position', slots', mapped', stray')
      OBVIOUS
    <2>1. Placed(position, slots, mapped, stray)
      BY <1>1, <1>2 DEF StoreInv, Numbered
    <2>2. PICK more : more = stray' /\ slots \in Seq(Slots)
      BY <1>5 DEF Types
    <2>3. Placed(position, WithVal(slots, p, v), mapped, more)
      BY <1>a, <2>1, <2>2, PlacedValue
    <2>. QED
      BY <1>a, <1>2, <1>6, <2>2, <2>3
  <1>12. Held'
    <2>1. \A y \in Ids : position[y] = 0 <=> records[y] = 0
      BY <1>1 DEF StoreInv, Held
    <2>2. \A y \in Ids : records'[y] = 0 <=> records[y] = 0
      BY <1>1, <1>2, <1>3, <1>5 DEF Types
    <2>. QED
      BY <1>1, <1>2, <2>1, <2>2 DEF Held
  <1>13. Stages'
    BY <1>1, <1>2, <1>4 DEF Stages
  <1>. QED
    BY <1>8, <1>10, <1>11, <1>12, <1>13 DEF StoreInv

LEMMA DeleteSlotStep ==
  ASSUME StoreInv, DeleteSlot
  PROVE  StoreInv'
  <1>1. PICK x \in Ids : x = cur.id /\ records[x] # 0 /\ phase = "up"
    BY DEF StoreInv, Types, Stages, DeleteSlot
  <1>2. /\ Mapped(x) /\ WriteSlot(x, [slots[position[x]] EXCEPT !.committed = FALSE])
        /\ records' = [records EXCEPT ![x] = 0] /\ index' = Unindex(x)
        /\ position' = [position EXCEPT ![x] = 0]
        /\ pc = "delete" /\ Done(x, {NoRec}) /\ blob' = blob /\ log' = log /\ flushed' = flushed
        /\ phase' = phase /\ scenario' = scenario /\ crashes' = crashes /\ misnumbered' = misnumbered
        /\ version' = version
    BY <1>1 DEF DeleteSlot, life, bounds
  <1>3. NoRec \in Recs /\ 0 \in 0 .. MaxVersion
    BY Parameters DEF NoRec, Recs
  <1>4. pc' = "idle" /\ cur' \in [id : Ids, v : 0 .. MaxVersion] /\ allowed' \in [Ids -> SUBSET Recs]
    BY <1>2, <1>3, DoneTypes
  <1>5. Types
    BY DEF StoreInv
  <1>a. /\ position[x] \in DOMAIN slots /\ slots' = [slots EXCEPT ![position[x]] = [slots[position[x]] EXCEPT !.committed = FALSE]]
        /\ stray' \in SUBSET Ids /\ stray \subseteq stray' /\ ragged' = ragged /\ mapped' = mapped
    BY <1>2, <1>5, Writing
  <1>6. PICK p \in DOMAIN slots : p = position[x] /\ slots' = Cleared(slots, p)
    BY <1>a DEF Cleared
  <1>7. slots' \in Seq(Slots) /\ Len(slots') = Len(slots)
    BY <1>5, <1>6, MarkerCleared DEF Types
  <1>8. index' \in [{0, 1} -> Seq(Ids)] /\ Indexed(records', index')
    <2>1. records \in [Ids -> Nat] /\ index \in [{0, 1} -> Seq(Ids)] /\ Indexed(records, index)
      BY <1>5 DEF Types, StoreInv
    <2>2. index' = [index EXCEPT ![Bucket(records[x])] = Without(@, x)]
      BY <1>2 DEF Unindex
    <2>3. /\ [index EXCEPT ![Bucket(records[x])] = Without(@, x)] \in [{0, 1} -> Seq(Ids)]
          /\ Indexed([records EXCEPT ![x] = 0], [index EXCEPT ![Bucket(records[x])] = Without(@, x)])
      BY <1>1, <2>1, IndexedRemove
    <2>. QED
      BY <1>2, <2>2, <2>3
  <1>9. records' \in [Ids -> 0 .. MaxVersion] /\ position' \in [Ids -> Nat]
    BY <1>2, <1>3, <1>5 DEF Types
  <1>10. Types'
    BY <1>a, <1>2, <1>4, <1>5, <1>7, <1>8, <1>9 DEF Types
  <1>11. Numbered' => Placed(position', slots', mapped', stray')
    <2>. SUFFICES ASSUME Numbered' PROVE Placed(position', slots', mapped', stray')
      OBVIOUS
    <2>1. Placed(position, slots, mapped, stray)
      BY <1>1, <1>2 DEF StoreInv, Numbered
    <2>2. PICK more : more = stray' /\ slots \in Seq(Slots) /\ position \in [Ids -> Nat]
      BY <1>5 DEF Types
    <2>3. Placed([position EXCEPT ![x] = 0], Cleared(slots, p), mapped, more)
      BY <1>a, <1>6, <2>1, <2>2, PlacedClear
    <2>. QED
      BY <1>a, <1>2, <1>6, <2>2, <2>3
  <1>12. Held'
    <2>1. \A y \in Ids : position[y] = 0 <=> records[y] = 0
      BY <1>1 DEF StoreInv, Held
    <2>2. \A y \in Ids : records'[y] = (IF y = x THEN 0 ELSE records[y]) /\ position'[y] = (IF y = x THEN 0 ELSE position[y])
      BY <1>2, <1>5 DEF Types
    <2>. QED
      BY <1>1, <1>2, <2>1, <2>2 DEF Held
  <1>13. Stages'
    BY <1>1, <1>2, <1>4 DEF Stages
  <1>. QED
    BY <1>8, <1>10, <1>11, <1>12, <1>13 DEF StoreInv

LEMMA UpdateStep ==
  ASSUME StoreInv, NEW x \in Ids, Update(x)
  PROVE  StoreInv'
  <1>1. PICK v \in 1 .. MaxVersion : v = version + 1
    BY NextVersion DEF Update
  <1>2. PICK after : after = WithScan(allowed[x], v)
    OBVIOUS
  <1>3. /\ Idle("update") /\ records[x] # 0 /\ Mapped(x) /\ version' = v
        /\ WriteSlot(x, [slots[position[x]] EXCEPT !.val = v])
        /\ allowed' = [allowed EXCEPT ![x] = IF PowerLoss THEN @ \cup after ELSE after]
        /\ UNCHANGED <<records, position, index, blob, log, flushed, phase, scenario, crashes,
                       misnumbered, pc, cur>>
    BY <1>1, <1>2 DEF Update, memory, life, bounds
  <1>4. Types /\ phase = "up" /\ pc = "idle"
    BY <1>3 DEF StoreInv, Idle
  <1>a. /\ position[x] \in DOMAIN slots /\ slots' = [slots EXCEPT ![position[x]] = [slots[position[x]] EXCEPT !.val = v]]
        /\ stray' \in SUBSET Ids /\ stray \subseteq stray' /\ ragged' = ragged /\ mapped' = mapped
    BY <1>3, <1>4, Writing
  <1>5. PICK p \in DOMAIN slots : p = position[x] /\ slots' = WithVal(slots, p, v)
    BY <1>a DEF WithVal
  <1>6. slots' \in Seq(Slots) /\ Len(slots') = Len(slots)
    BY <1>4, <1>5, ValWritten DEF Types
  <1>7. allowed' \in [Ids -> SUBSET Recs]
    <2>1. allowed[x] \subseteq Recs
      BY <1>4 DEF Types
    <2>2. after \subseteq Recs
      BY <1>2, <2>1, AnyScanTypes
    <2>. QED
      BY <1>3, <1>4, <2>1, <2>2 DEF Types
  <1>8. Types'
    BY <1>a, <1>1, <1>3, <1>4, <1>6, <1>7 DEF Types
  <1>9. Numbered' => Placed(position', slots', mapped', stray')
    <2>. SUFFICES ASSUME Numbered' PROVE Placed(position', slots', mapped', stray')
      OBVIOUS
    <2>1. Placed(position, slots, mapped, stray)
      BY <1>3, <1>4 DEF StoreInv, Numbered
    <2>2. PICK more : more = stray' /\ slots \in Seq(Slots)
      BY <1>4 DEF Types
    <2>3. Placed(position, WithVal(slots, p, v), mapped, more)
      BY <1>a, <2>1, <2>2, PlacedValue
    <2>. QED
      BY <1>a, <1>3, <1>5, <2>2, <2>3
  <1>10. Held' /\ Stages' /\ Indexed(records', index')
    BY <1>3, <1>4 DEF Held, Stages, StoreInv
  <1>. QED
    BY <1>8, <1>9, <1>10 DEF StoreInv

LEMMA FlushSlotsStep ==
  ASSUME StoreInv, FlushSlots
  PROVE  StoreInv'
  <1>1. /\ flushed' = slots /\ phase = "up" /\ pc = "idle"
        /\ UNCHANGED <<records, position, index, mapped, blob, log, slots, ragged, stray, phase, scenario,
                       crashes, misnumbered, pc, cur, version>>
    BY DEF FlushSlots, Idle, memory, life, bounds
  <1>2. allowed' \in [Ids -> SUBSET Recs]
    BY DEF FlushSlots, StoreInv, Types
  <1>3. Types'
    BY <1>1, <1>2 DEF StoreInv, Types
  <1>4. Indexed(records', index') /\ (Numbered' => Placed(position', slots', mapped', stray')) /\ Held' /\ Stages'
    BY <1>1 DEF StoreInv, Numbered, Held, Stages
  <1>. QED
    BY <1>3, <1>4 DEF StoreInv

------------------------------------------------------------------------------
(* ... compaction                                                          *)

\* A live record that is mapped is one the blob can hold.
LEMMA ViewStored ==
  ASSUME Types, NEW x \in Ids, records[x] # 0 => Mapped(x)
  PROVE  View(x) \in Stored /\ (records[x] # 0 => View(x) # NoRec)
  <1>1. CASE records[x] = 0
    BY <1>1 DEF View, Stored
  <1>2. CASE records[x] # 0
    <2>a. PICK n \in Nat : n = Len(slots) /\ mapped \in 0 .. n /\ DOMAIN slots = 1 .. n
      BY DEF Types
    <2>1. PICK e \in Slots : e = slots[position[x]]
      BY <1>2, <2>a DEF Mapped, Types
    <2>2. records[x] \in 1 .. MaxVersion /\ e.val \in 1 .. MaxVersion
      <3>1. PICK r \in 0 .. MaxVersion : r = records[x]
        BY DEF Types
      <3>2. r \in 1 .. MaxVersion
        BY <1>2, <3>1, Parameters
      <3>3. e.val \in 1 .. MaxVersion
        BY <2>1 DEF Slots
      <3>. QED
        BY <3>1, <3>2, <3>3
    <2>3. View(x) = Rec(records[x], e.val)
      BY <1>2, <2>1 DEF View
    <2>4. Rec(records[x], e.val) # NoRec
      BY <1>2 DEF Rec, NoRec
    <2>. QED
      BY <2>2, <2>3, <2>4 DEF Rec, Stored
  <1>. QED
    BY <1>1, <1>2

\* What a reader may find is a record.
LEMMA ViewTypes ==
  ASSUME Types, NEW x \in Ids
  PROVE  View(x) \in Recs
  <1>1. CASE records[x] # 0 /\ ~Mapped(x)
    BY <1>1, Parameters DEF View, Unread, Recs
  <1>2. CASE ~(records[x] # 0 /\ ~Mapped(x))
    <2>1. View(x) \in Stored
      BY <1>2, ViewStored
    <2>. QED
      BY <2>1, Parameters DEF Stored, Recs, NoRec
  <1>. QED
    BY <1>1, <1>2

LEMMA CompactBlobStep ==
  ASSUME StoreInv, CompactBlob
  PROVE  StoreInv'
  <1>1. /\ phase = "up" /\ pc = "idle" /\ pc' = "compact_slots" /\ blob' = [x \in Ids |-> View(x)]
        /\ \A x \in Ids : records[x] # 0 => Mapped(x)
        /\ allowed' = [x \in Ids |-> IF misnumbered /\ x \in Live
                                   THEN allowed[x] \cup WithScan(allowed[x], View(x).scan) ELSE allowed[x]]
        /\ UNCHANGED <<records, position, index, mapped, log, slots, ragged, flushed, stray, phase, scenario,
                       crashes, misnumbered, cur, version>>
    BY DEF CompactBlob, Idle, Live, memory, file, life, bounds
  <1>2. Types /\ \A x \in Ids : View(x) \in Stored /\ (records[x] # 0 => View(x) # NoRec) /\ View(x) \in Recs
    BY <1>1, ViewStored, ViewTypes DEF StoreInv
  <1>3. blob' \in [Ids -> Stored] /\ \A x \in Ids : records[x] # 0 => blob'[x] # NoRec
    BY <1>1, <1>2
  <1>4. allowed' \in [Ids -> SUBSET Recs]
    <2>. SUFFICES ASSUME NEW x \in Ids PROVE allowed'[x] \in SUBSET Recs
      BY <1>1
    <2>1. allowed[x] \subseteq Recs
      BY <1>2 DEF Types
    <2>2. ASSUME x \in Live PROVE View(x).scan \in 1 .. MaxVersion
      BY <1>2, <2>2 DEF Live, Stored
    <2>3. ASSUME x \in Live PROVE WithScan(allowed[x], View(x).scan) \subseteq Recs
      BY <2>1, <2>2, <2>3, AnyScanTypes
    <2>. QED
      BY <1>1, <2>1, <2>3
  <1>5. Types'
    BY <1>1, <1>2, <1>3, <1>4 DEF Types
  <1>6. Stages' /\ Held'
    BY <1>1, <1>3 DEF Stages, Held, StoreInv
  <1>7. Indexed(records', index') /\ (Numbered' => Placed(position', slots', mapped', stray'))
    BY <1>1 DEF StoreInv, Numbered
  <1>. QED
    BY <1>5, <1>6, <1>7 DEF StoreInv

\* The rewritten slot file: each live record at the slot of its turn.
LEMMA RewrittenFacts ==
  ASSUME NEW recs \in [Ids -> Nat], NEW pos \in [Ids -> Nat], NEW b \in [Ids -> Stored]
  PROVE  /\ Lists(Order(recs, pos), LiveIn(recs))
         /\ DOMAIN RewrittenOf(recs, pos, b) = DOMAIN Order(recs, pos)
         /\ \A i \in DOMAIN Order(recs, pos) :
              /\ RewrittenOf(recs, pos, b)[i].id = Order(recs, pos)[i]
              /\ RewrittenOf(recs, pos, b)[i].val = b[Order(recs, pos)[i]].scan
              /\ RewrittenOf(recs, pos, b)[i].committed
         /\ (\A x \in Ids : recs[x] # 0 => b[x] # NoRec) => RewrittenOf(recs, pos, b) \in Seq(Slots)
  <1>. DEFINE L == LiveIn(recs)
              order == Order(recs, pos)
              t == RewrittenOf(recs, pos, b)
              n == Cardinality(L)
  <1>1. IsFiniteSet(L) /\ \A x \in L : pos[x] \in Nat /\ x \in Ids
    BY Parameters, FS_Subset DEF LiveIn
  <1>2. t = [i \in DOMAIN order |-> Slot(order[i], b[order[i]].scan)]
    BY DEF RewrittenOf
  <1>. HIDE DEF t, L
  <1>3. n \in Nat /\ order \in Bijection(1 .. n, L)
    BY <1>1, OrderedFacts DEF Order, L
  <1>. HIDE DEF order, n
  <1>4. Lists(order, L) /\ order \in [1 .. n -> L] /\ DOMAIN order = 1 .. n
    BY <1>3, BijectionLists DEF Bijection, Injection
  <1>5. /\ DOMAIN t = DOMAIN order
        /\ \A i \in DOMAIN order : t[i].id = order[i] /\ t[i].val = b[order[i]].scan /\ t[i].committed
    BY <1>2 DEF Slot
  <1>6. ASSUME \A x \in Ids : recs[x] # 0 => b[x] # NoRec PROVE t \in Seq(Slots)
    <2>1. \A x \in L : b[x].scan \in 1 .. MaxVersion
      BY <1>1, <1>6 DEF L, LiveIn, Stored
    <2>2. \A i \in 1 .. n : Slot(order[i], b[order[i]].scan) \in Slots
      BY <1>1, <1>4, <2>1 DEF Slot, Slots
    <2>3. t \in [1 .. n -> Slots]
      BY <1>2, <1>4, <2>2
    <2>. QED
      BY <1>3, <2>3
  <1>. QED
    BY <1>4, <1>5, <1>6 DEF order, L, t

LEMMA RewrittenIs == Rewritten = RewrittenOf(records, position, blob)
  BY DEF Rewritten, RewrittenOf, Order, LiveIn, InOrder, Live

LEMMA CompactSlotsStep ==
  ASSUME StoreInv, CompactSlots \/ CompactSlotsFails
  PROVE  StoreInv'
  <1>1. /\ pc = "compact_slots" /\ phase = "up" /\ pc' \in {"compact_log", "idle"}
        /\ UNCHANGED <<records, position, index, blob, log, phase, scenario, crashes, cur, version, allowed>>
        /\ \/ UNCHANGED <<slots, ragged, flushed, stray, misnumbered>> /\ mapped' \in {0, mapped} /\ pc' = "idle"
           \/ Rewrite /\ mapped' = 0 /\ misnumbered' = TRUE /\ pc' = "idle"
           \/ Rewrite /\ mapped' = Len(slots') /\ misnumbered' = misnumbered /\ pc' = "compact_log"
    <2>1. pc = "compact_slots" /\ phase = "up"
      BY DEF StoreInv, Stages, CompactSlots, CompactSlotsFails
    <2>2. CASE CompactSlots
      BY <2>1, <2>2 DEF CompactSlots, memory, life, bounds
    <2>3. CASE CompactSlotsFails
      BY <2>1, <2>3 DEF CompactSlotsFails, memory, file, bounds
    <2>. QED
      BY <2>2, <2>3
  <1>2. Types
    BY DEF StoreInv
  <1>3. Rewritten \in Seq(Slots)
    <2>1. records \in [Ids -> Nat] /\ position \in [Ids -> Nat] /\ blob \in [Ids -> Stored]
      BY <1>2 DEF Types
    <2>2. \A x \in Ids : records[x] # 0 => blob[x] # NoRec
      BY <1>1 DEF StoreInv, Stages
    <2>3. RewrittenOf(records, position, blob) \in Seq(Slots)
      BY <2>1, <2>2, RewrittenFacts
    <2>. QED
      BY <2>3, RewrittenIs
  <1>4. Rewrite => slots' = Rewritten /\ flushed' = Rewritten /\ ragged' = FALSE /\ stray' = {}
    BY DEF Rewrite
  <1>5. Types'
    <2>1. /\ slots' \in Seq(Slots) /\ flushed' \in Seq(Slots) /\ ragged' \in BOOLEAN /\ stray' \in SUBSET Ids
          /\ misnumbered' \in BOOLEAN
      BY <1>1, <1>2, <1>3, <1>4 DEF Types
    <2>2. mapped' \in 0 .. Len(slots')
      <3>1. Len(slots) \in Nat /\ Len(slots') \in Nat /\ mapped \in 0 .. Len(slots)
        BY <1>2, <2>1 DEF Types
      <3>. QED
        BY <1>1, <3>1
    <2>. QED
      BY <1>1, <1>2, <2>1, <2>2 DEF Types
  <1>6. Stages'
    <2>1. RewrittenOf(records, position, blob)' = Rewritten
      BY <1>1, RewrittenIs
    <2>2. pc' = "compact_log" => slots' = Rewritten /\ mapped' = Len(slots')
      BY <1>1, <1>4
    <2>. QED
      BY <1>1, <2>1, <2>2 DEF Stages
  <1>7. Numbered' => Placed(position', slots', mapped', stray')
    <2>. SUFFICES ASSUME Numbered' PROVE Placed(position', slots', mapped', stray')
      OBVIOUS
    <2>1. UNCHANGED <<position, slots, stray, misnumbered>> /\ mapped' \in {0, mapped}
      BY <1>1 DEF Numbered
    <2>2. Placed(position, slots, mapped, stray)
      BY <1>1, <2>1 DEF StoreInv, Numbered
    <2>. QED
      BY <2>1, <2>2 DEF Placed
  <1>8. Held' /\ Indexed(records', index')
    BY <1>1 DEF StoreInv, Held
  <1>. QED
    BY <1>5, <1>6, <1>7, <1>8 DEF StoreInv

LEMMA CompactLogStep ==
  ASSUME StoreInv, CompactLog
  PROVE  StoreInv'
  <1>. DEFINE L == LiveIn(records)
              order == Order(records, position)
  <1>1. /\ pc = "compact_log" /\ pc' = "idle" /\ log' = <<>> /\ phase = "up"
        /\ position' = [x \in Ids |-> IF x \in L THEN CHOOSE i \in DOMAIN order : order[i] = x ELSE 0]
        /\ allowed' = [x \in Ids |-> {blob[x]}]
        /\ misnumbered' = FALSE /\ mapped = Len(slots)
        /\ UNCHANGED <<records, index, mapped, blob, slots, ragged, flushed, stray, phase, scenario, crashes, cur,
                       version>>
    BY DEF CompactLog, Order, LiveIn, InOrder, Live, file, bounds, StoreInv, Stages
  <1>2. Types
    BY DEF StoreInv
  <1>3. /\ Lists(order, L) /\ DOMAIN slots = DOMAIN order
        /\ \A i \in DOMAIN slots : slots[i].id = order[i] /\ slots[i].committed
    <2>1. records \in [Ids -> Nat] /\ position \in [Ids -> Nat] /\ blob \in [Ids -> Stored]
      BY <1>2 DEF Types
    <2>2. slots = RewrittenOf(records, position, blob)
      BY <1>1 DEF StoreInv, Stages
    <2>3. /\ Lists(order, L)
          /\ DOMAIN RewrittenOf(records, position, blob) = DOMAIN order
          /\ \A i \in DOMAIN order :
               /\ RewrittenOf(records, position, blob)[i].id = order[i]
               /\ RewrittenOf(records, position, blob)[i].committed
      <3>. HIDE DEF L, order
      <3>. QED
        BY <2>1, RewrittenFacts DEF L, order
    <2>. QED
      BY <2>2, <2>3
  <1>. HIDE DEF order, L
  <1>4. \A i \in DOMAIN order : i \in Nat /\ order[i] \in L
    BY <1>3 DEF Lists
  <1>5. ASSUME NEW x \in L
        PROVE  position'[x] \in Nat /\ position'[x] \in CommittedIn(slots, x) /\ \A q \in CommittedIn(slots, x) : q = position'[x]
    <2>1. \E i \in DOMAIN order : order[i] = x
      BY <1>3 DEF Lists
    <2>2. position'[x] = CHOOSE i \in DOMAIN order : order[i] = x
      BY <1>1 DEF L, LiveIn
    <2>3. position'[x] \in DOMAIN order /\ order[position'[x]] = x
      BY <2>1, <2>2
    <2>4. \A i \in DOMAIN order : order[i] = x => i = position'[x]
      BY <1>3, <2>3 DEF Lists, IsInjective
    <2>. QED
      BY <1>3, <1>4, <2>3, <2>4 DEF CommittedIn
  <1>6. \A x \in Ids \ L : position'[x] = 0 /\ records'[x] = 0
    BY <1>1 DEF L, LiveIn
  <1>7. position' \in [Ids -> Nat]
    BY <1>1, <1>5, <1>6
  <1>8. allowed' \in [Ids -> SUBSET Recs]
    <2>1. Stored \subseteq Recs
      BY Parameters DEF Stored, Recs, NoRec
    <2>. QED
      BY <1>1, <1>2, <2>1 DEF Types
  <1>9. Types'
    <2>1. log' \in Seq(Entries) /\ pc' = "idle" /\ phase' = "up"
      BY <1>1
    <2>2. /\ scenario' \in Scenarios /\ version' \in 1 .. MaxVersion /\ crashes' \in 0 .. scenario'.crashes
          /\ records' \in [Ids -> 0 .. MaxVersion] /\ index' \in [{0, 1} -> Seq(Ids)]
          /\ blob' \in [Ids -> Stored] /\ slots' \in Seq(Slots) /\ flushed' \in Seq(Slots)
          /\ cur' \in [id : Ids, v : 0 .. MaxVersion] /\ misnumbered' \in BOOLEAN
          /\ mapped' \in 0 .. Len(slots') /\ ragged' \in BOOLEAN /\ stray' \in SUBSET Ids
      BY <1>1, <1>2 DEF Types
    <2>. QED
      BY <1>7, <1>8, <2>1, <2>2 DEF Types
  <1>10. Placed(position', slots', mapped', stray')
    <2>1. slots \in Seq(Slots)
      BY <1>2 DEF Types
    <2>2. \A x \in L : position'[x] = SlotIn(slots, x)
      BY <1>5, <2>1, SlotInFacts
    <2>3. PICK pos \in [Ids -> Nat] : pos = position'
      BY <1>7
    <2>4. \A x \in Ids : pos[x] \in {0, SlotIn(slots, x)}
      BY <1>6, <2>2, <2>3
    <2>5. Placed(pos, slots, Len(slots), stray)
      BY <2>1, <2>4, PlacedFound
    <2>. QED
      BY <1>1, <2>3, <2>5
  <1>11. Held'
    <2>1. \A x \in L : position'[x] # 0 /\ records[x] # 0
      <3>1. \A x \in L : position'[x] \in DOMAIN slots
        BY <1>5 DEF CommittedIn
      <3>2. DOMAIN slots = 1 .. Len(slots) /\ Len(slots) \in Nat
        BY <1>2 DEF Types
      <3>. QED
        BY <3>1, <3>2 DEF L, LiveIn
    <2>. QED
      BY <1>1, <1>6, <2>1 DEF Held
  <1>12. Stages' /\ Indexed(records', index')
    BY <1>1 DEF StoreInv, Stages
  <1>. QED
    BY <1>9, <1>10, <1>11, <1>12 DEF StoreInv

LEMMA CompactLogFailsStep ==
  ASSUME StoreInv, CompactLogFails
  PROVE  StoreInv'
  <1>1. /\ pc = "compact_log" /\ pc' = "idle" /\ misnumbered' = TRUE /\ phase = "up"
        /\ UNCHANGED <<records, position, index, mapped, blob, log, slots, ragged, flushed, stray, phase, scenario,
                       crashes, cur, version, allowed>>
    BY DEF CompactLogFails, memory, file, bounds, StoreInv, Stages
  <1>2. Types'
    BY <1>1 DEF StoreInv, Types
  <1>3. Indexed(records', index') /\ ~Numbered' /\ Held' /\ Stages'
    BY <1>1 DEF StoreInv, Numbered, Held, Stages
  <1>. QED
    BY <1>2, <1>3 DEF StoreInv

LEMMA PanicStep ==
  ASSUME StoreInv, Panic
  PROVE  StoreInv'
  <1>1. /\ phase' = "dead" /\ pc' = "idle" /\ cur' = NoCall
        /\ UNCHANGED <<records, position, index, mapped, blob, log, slots, ragged, flushed, stray, scenario,
                       crashes, misnumbered, version, allowed>>
    BY DEF Panic, memory, file, bounds
  <1>2. cur' \in [id : Ids, v : 0 .. MaxVersion]
    BY <1>1, Parameters DEF NoCall
  <1>3. Types'
    BY <1>1, <1>2 DEF StoreInv, Types
  <1>4. Indexed(records', index') /\ ~Numbered' /\ Held' /\ Stages'
    BY <1>1 DEF StoreInv, Numbered, Held, Stages
  <1>. QED
    BY <1>3, <1>4 DEF StoreInv

------------------------------------------------------------------------------
(* ... a crash, and opening again                                          *)

\* Whatever the end of the process leaves of the files.
LEMMA GoneStep ==
  ASSUME StoreInv, Gone, slots' \in Seq(Slots), flushed' \in Seq(Slots), ragged' \in BOOLEAN,
         stray' \in SUBSET Ids
  PROVE  StoreInv'
  <1>1. /\ crashes < scenario.crashes /\ crashes' = crashes + 1 /\ phase' = "down" /\ pc' = "idle" /\ cur' = NoCall
        /\ misnumbered' = FALSE /\ mapped' = 0
        /\ records' = [x \in Ids |-> 0] /\ position' = [x \in Ids |-> 0] /\ index' = [b \in {0, 1} |-> <<>>]
        /\ allowed' = [x \in Ids |-> IF x \in stray' THEN AnyScan(allowed[x]) ELSE allowed[x]]
        /\ UNCHANGED <<scenario, blob, log, version>>
    BY DEF Gone
  <1>2. Types
    BY DEF StoreInv
  <1>3. crashes' \in 0 .. scenario'.crashes
    <2>1. scenario.crashes \in Nat
      BY <1>2, Parameters DEF Types
    <2>. QED
      BY <1>1, <1>2, <2>1 DEF Types
  <1>4. /\ records' \in [Ids -> 0 .. MaxVersion] /\ position' \in [Ids -> Nat]
        /\ index' \in [{0, 1} -> Seq(Ids)]
    BY <1>1, Parameters
  <1>5. allowed' \in [Ids -> SUBSET Recs]
    <2>1. \A x \in Ids : allowed[x] \in SUBSET Recs
      BY <1>2 DEF Types
    <2>2. \A x \in Ids : AnyScan(allowed[x]) \in SUBSET Recs
      BY <2>1, AnyScanTypes
    <2>. QED
      BY <1>1, <2>1, <2>2
  <1>6. Types'
    <2>1. /\ scenario' \in Scenarios /\ version' \in 1 .. MaxVersion /\ blob' \in [Ids -> Stored]
          /\ log' \in Seq(Entries) /\ misnumbered' \in BOOLEAN
      BY <1>1, <1>2 DEF Types
    <2>2. cur' \in [id : Ids, v : 0 .. MaxVersion] /\ mapped' \in 0 .. Len(slots')
      BY <1>1, Parameters DEF NoCall
    <2>3. pc' = "idle" /\ phase' = "down"
      BY <1>1
    <2>. QED
      BY <1>3, <1>4, <1>5, <2>1, <2>2, <2>3 DEF Types
  <1>7. Indexed(records', index')
    <2>1. \A b \in {0, 1} : Members(records', b) = {} /\ index'[b] = <<>>
      BY <1>1 DEF Members
    <2>2. Lists(<<>>, {})
      BY DEF Lists, IsInjective
    <2>. QED
      BY <2>1, <2>2 DEF Indexed
  <1>8. ~Numbered' /\ Held' /\ Stages'
    BY <1>1 DEF Numbered, Held, Stages
  <1>. QED
    BY <1>6, <1>7, <1>8 DEF StoreInv

LEMMA CrashStep ==
  ASSUME StoreInv, Crash
  PROVE  StoreInv'
  <1>1. Gone /\ slots' \in Survivors /\ flushed' = slots' /\ ragged' \in {ragged, ragged /\ ~PowerLoss} /\ stray' = stray
    BY DEF Crash
  <1>2. Types
    BY DEF StoreInv
  <1>3. slots' \in Seq(Slots)
    <2>1. CASE ~PowerLoss
      BY <1>1, <1>2, <2>1 DEF Survivors, Types
    <2>2. CASE PowerLoss
      <3>1. PICK n \in Len(flushed) .. Len(slots) : slots' \in [1 .. n -> Range(slots) \cup Range(flushed)]
        BY <1>1, <2>2 DEF Survivors
      <3>2. Range(slots) \subseteq Slots /\ Range(flushed) \subseteq Slots
        BY <1>2 DEF Types, Range
      <3>3. n \in Nat
        BY <1>2 DEF Types
      <3>4. slots' \in [1 .. n -> Slots]
        BY <3>1, <3>2
      <3>. QED
        BY <3>3, <3>4
    <2>. QED
      BY <2>1, <2>2
  <1>4. ragged' \in BOOLEAN /\ stray' \in SUBSET Ids
    <2>1. ragged \in BOOLEAN /\ stray \in SUBSET Ids
      BY <1>2 DEF Types
    <2>. QED
      BY <1>1, <2>1
  <1>. QED
    BY <1>1, <1>3, <1>4, GoneStep

\* A log read past what was torn holds entries still.
LEMMA ReadLog ==
  ASSUME Types, ReadTorn
  PROVE  log' \in Seq(Entries)
  <1>. DEFINE t == Min(Torn(log))
              n == Len(log)
  <1>1. log \in Seq(Entries) /\ n \in Nat /\ DOMAIN log = 1 .. n
    BY DEF Types
  <1>2. Torn(log) # {} /\ \A i \in Torn(log) : i \in 1 .. n
    BY <1>1 DEF ReadTorn, Torn
  <1>3. t \in 1 .. n
    <2>1. Torn(log) \in SUBSET Nat
      BY <1>1, <1>2
    <2>2. \E m \in Torn(log) : \A k \in Torn(log) : m <= k
      BY <1>2, <2>1, SmallestOf
    <2>3. t \in Torn(log)
      BY <2>2 DEF Min
    <2>. QED
      BY <1>2, <2>3
  <1>4. PICK e \in Entries : e = log[t]
    BY <1>1, <1>3
  <1>5. PICK m, i :
          /\ i \in t + 2 .. n + 1
          /\ m = <<>> \/ \E b \in 1 .. MaxVersion : m = <<Item(e.id, b)>>
          /\ log' = SubSeq(log, 1, t - 1) \o m \o SubSeq(log, i, n)
    <2>. DEFINE mixed == {<<>>} \cup {<<Item(log[t].id, b)>> : b \in 1 .. (IF log[t].body = 0 THEN 0 ELSE MaxVersion)}
    <2>b. \A m \in mixed : m = <<>> \/ \E b \in 1 .. (IF log[t].body = 0 THEN 0 ELSE MaxVersion) : m = <<Item(log[t].id, b)>>
      OBVIOUS
    <2>1. PICK m \in mixed, i \in t + 2 .. n + 1 : log' = SubSeq(log, 1, t - 1) \o m \o SubSeq(log, i, n)
      BY DEF ReadTorn
    <2>2. \A b \in 1 .. (IF log[t].body = 0 THEN 0 ELSE MaxVersion) : b \in 1 .. MaxVersion
      BY Parameters
    <2>. HIDE DEF mixed, t, n
    <2>3. m = <<>> \/ \E b \in 1 .. MaxVersion : m = <<Item(log[t].id, b)>>
      BY <2>b, <2>1, <2>2
    <2>. QED
      BY <1>4, <2>1, <2>3
  <1>. HIDE DEF t, n
  <1>6. m \in Seq(Entries)
    <2>1. CASE m = <<>>
      BY <2>1
    <2>2. ASSUME NEW b \in 1 .. MaxVersion, m = <<Item(e.id, b)>> PROVE m \in Seq(Entries)
      <3>1. e.id \in Ids
        BY DEF Entries
      <3>2. PICK g \in Entries : g = Item(e.id, b)
        BY <3>1 DEF Item, Entries
      <3>. QED
        BY <2>2, <3>2
    <2>. QED
      BY <1>5, <2>1, <2>2
  <1>7. SubSeq(log, 1, t - 1) \in Seq(Entries)
    <2>1. t - 1 \in Nat /\ \A k \in 1 .. t - 1 : k \in 1 .. n
      BY <1>1, <1>3
    <2>. QED
      BY <1>1, <2>1, SubSeqProperties
  <1>8. SubSeq(log, i, n) \in Seq(Entries)
    <2>1. i \in Nat /\ \A k \in i .. n : k \in 1 .. n
      BY <1>1, <1>3, <1>5
    <2>. QED
      BY <1>1, <2>1, SubSeqProperties
  <1>. QED
    BY <1>5, <1>6, <1>7, <1>8

LEMMA ReadTornStep ==
  ASSUME StoreInv, ReadTorn
  PROVE  StoreInv'
  <1>1. PICK lost : allowed' = [x \in Ids |-> IF x \in lost THEN AnyScan({Fold(blob, log')[x]}) ELSE allowed[x]]
    BY DEF ReadTorn
  <1>2. /\ phase = "down"
        /\ UNCHANGED <<records, position, index, mapped, blob, slots, ragged, flushed, stray, phase, scenario,
                       crashes, misnumbered, pc, cur, version>>
    BY DEF ReadTorn, memory, file, life, bounds
  <1>3. Types
    BY DEF StoreInv
  <1>4. log' \in Seq(Entries)
    BY <1>3, ReadLog
  <1>5. allowed' \in [Ids -> SUBSET Recs]
    <2>1. Fold(blob, log') \in [Ids -> Stored]
      <3>1. PICK l \in Seq(Entries) : l = log'
        BY <1>4
      <3>. QED
        BY <1>3, <3>1, FoldFacts DEF Types
    <2>2. Stored \subseteq Recs
      BY Parameters DEF Stored, Recs, NoRec
    <2>3. \A x \in Ids : AnyScan({Fold(blob, log')[x]}) \in SUBSET Recs
      BY <2>1, <2>2, AnyScanTypes
    <2>4. \A x \in Ids : allowed[x] \in SUBSET Recs
      BY <1>3 DEF Types
    <2>. QED
      BY <1>1, <2>3, <2>4
  <1>6. Types'
    BY <1>2, <1>3, <1>4, <1>5 DEF Types
  <1>7. Indexed(records', index') /\ ~Numbered' /\ Held' /\ Stages'
    BY <1>2 DEF StoreInv, Numbered, Held, Stages
  <1>. QED
    BY <1>6, <1>7 DEF StoreInv

LEMMA OpenReadStep ==
  ASSUME StoreInv, OpenRead
  PROVE  StoreInv'
  <1>1. /\ phase = "down" /\ phase' = "reading" /\ mapped' = Len(slots)
        /\ position' = [x \in Ids |-> IF Merged[x] = NoRec THEN 0 ELSE SlotOf(x)]
        /\ stray' = stray \cup {x \in Ids : Merged[x] = NoRec /\ Committed(x) # {}}
        /\ UNCHANGED <<records, index, blob, log, slots, ragged, flushed, scenario, crashes, misnumbered, pc, cur,
                       version, allowed>>
    BY DEF OpenRead, bounds
  <1>2. Types
    BY DEF StoreInv
  <1>3. \A x \in Ids : SlotOf(x) = SlotIn(slots, x) /\ SlotIn(slots, x) \in Nat
    <2>1. \A x \in Ids : SlotIn(slots, x) \in Nat
      BY <1>2, SlotInFacts DEF Types
    <2>. QED
      BY <2>1 DEF SlotOf, SlotIn, Committed, CommittedIn
  <1>4. PICK pos \in [Ids -> Nat] : pos = position'
    BY <1>1, <1>3
  <1>5. \A x \in Ids : pos[x] = IF Merged[x] = NoRec THEN 0 ELSE SlotIn(slots, x)
    BY <1>1, <1>3, <1>4
  <1>6. Types'
    <2>1. stray' \in SUBSET Ids /\ mapped' \in 0 .. Len(slots')
      BY <1>1, <1>2 DEF Types
    <2>. QED
      BY <1>1, <1>2, <1>4, <2>1 DEF Types
  <1>7. Placed(position', slots', mapped', stray')
    <2>1. slots \in Seq(Slots) /\ \A x \in Ids : pos[x] \in {0, SlotIn(slots, x)}
      BY <1>2, <1>5 DEF Types
    <2>2. PICK more : more = stray'
      OBVIOUS
    <2>3. Placed(pos, slots, Len(slots), more)
      BY <2>1, PlacedFound
    <2>. QED
      BY <1>1, <1>4, <2>2, <2>3
  <1>8. Held'
    BY <1>1, <1>4, <1>5 DEF Held, Merged
  <1>9. Indexed(records', index') /\ Stages'
    BY <1>1 DEF StoreInv, Stages
  <1>. QED
    BY <1>6, <1>7, <1>8, <1>9 DEF StoreInv

\* The record that gets a slot.
LEMMA NextFacts ==
  ASSUME Types, Missing # {}
  PROVE  /\ NextMissing \in Ids /\ Merged[NextMissing] # NoRec /\ position[NextMissing] = 0
         /\ Merged[NextMissing].scan \in 1 .. MaxVersion
  <1>1. NextMissing \in Missing
    BY DEF NextMissing
  <1>2. Merged \in [Ids -> Stored]
    BY FoldFacts DEF Merged, Types
  <1>3. NextMissing \in Ids /\ Merged[NextMissing] # NoRec /\ position[NextMissing] = 0
    BY <1>1 DEF Missing
  <1>. QED
    BY <1>2, <1>3 DEF Stored

LEMMA OpenAppendStep ==
  ASSUME StoreInv, OpenAppend
  PROVE  StoreInv'
  <1>1. Types
    BY DEF StoreInv
  <1>2. PICK x \in Ids, v \in 1 .. MaxVersion : x = NextMissing /\ v = Merged[x].scan /\ Merged[x] # NoRec
    BY <1>1, NextFacts DEF OpenAppend
  <1>3. /\ phase = "reading" /\ AppendSlot(x, v) /\ mapped' = Len(slots')
        /\ position' = [position EXCEPT ![x] = Len(slots')]
        /\ allowed' = [allowed EXCEPT ![x] = IF ragged THEN AnyScan(@) ELSE @]
        /\ UNCHANGED <<records, index, blob, log, flushed, phase, scenario, crashes, misnumbered, pc, cur, version>>
    BY <1>2 DEF OpenAppend, life, bounds
  <1>4. /\ stray' \in SUBSET Ids /\ stray \subseteq stray' /\ ragged' = ragged
        /\ \E e \in Slots : /\ slots' = Append(slots, e)
                            /\ e.committed => e.id \in stray' \/ e.id = x
                            /\ x \notin stray' => e.id = x /\ e.committed
    BY <1>1, <1>3, Appending
  <1>5. PICK e \in Slots : /\ slots' = Append(slots, e)
                           /\ e.committed => e.id \in stray' \/ e.id = x
                           /\ x \notin stray' => e.id = x /\ e.committed
    BY <1>4
  <1>6. slots' \in Seq(Slots) /\ Len(slots') \in Nat \ {0}
    BY <1>1, <1>5 DEF Types
  <1>7. allowed' \in [Ids -> SUBSET Recs]
    <2>1. allowed \in [Ids -> SUBSET Recs]
      BY <1>1 DEF Types
    <2>2. AnyScan(allowed[x]) \in SUBSET Recs
      BY <2>1, AnyScanTypes
    <2>. QED
      BY <1>3, <2>1, <2>2
  <1>8. Types'
    <2>1. mapped' \in 0 .. Len(slots') /\ ragged' \in BOOLEAN /\ position' \in [Ids -> Nat]
      BY <1>1, <1>3, <1>4, <1>6 DEF Types
    <2>. QED
      BY <1>1, <1>3, <1>4, <1>6, <1>7, <2>1 DEF Types
  <1>9. Placed(position', slots', mapped', stray')
    <2>1. Placed(position, slots, mapped, stray)
      BY <1>3 DEF StoreInv, Numbered
    <2>2. PICK more, t : more = stray' /\ t = Append(slots, e) /\ t = slots'
      BY <1>5
    <2>3. position \in [Ids -> Nat] /\ slots \in Seq(Slots)
      BY <1>1 DEF Types
    <2>4. Placed([position EXCEPT ![x] = Len(Append(slots, e))], Append(slots, e), Len(Append(slots, e)), more)
      BY <1>4, <1>5, <2>1, <2>2, <2>3, PlacedLast
    <2>. QED
      BY <1>3, <2>2, <2>4
  <1>10. Held'
    <2>1. \A y \in Ids : y # x => position'[y] = position[y]
      BY <1>1, <1>3 DEF Types
    <2>. QED
      BY <1>2, <1>3, <2>1 DEF StoreInv, Held, Merged
  <1>11. Indexed(records', index') /\ Stages'
    BY <1>3 DEF StoreInv, Stages
  <1>. QED
    BY <1>8, <1>9, <1>10, <1>11 DEF StoreInv

LEMMA OpenAppendFailsStep ==
  ASSUME StoreInv, OpenAppendFails
  PROVE  StoreInv'
  <1>1. Types
    BY DEF StoreInv
  <1>2. PICK x \in Ids, v \in 1 .. MaxVersion : x = NextMissing /\ v = Merged[x].scan
    BY <1>1, NextFacts DEF OpenAppendFails
  <1>3. AppendFails(x, v) /\ flushed' = flushed /\ Gone
    BY <1>2 DEF OpenAppendFails
  <1>4. slots' \in Seq(Slots) /\ ragged' \in BOOLEAN /\ stray' \in SUBSET Ids
    BY <1>1, <1>3, FailedAppend
  <1>5. flushed' \in Seq(Slots)
    BY <1>1, <1>3 DEF Types
  <1>. QED
    BY <1>3, <1>4, <1>5, GoneStep

LEMMA OpenBlobStep ==
  ASSUME StoreInv, OpenBlob
  PROVE  StoreInv'
  <1>1. /\ phase = "reading" /\ phase' = "blob" /\ blob' = Fold(blob, log) /\ pc' = pc /\ log' = log /\ slots' = slots
        /\ UNCHANGED <<records, position, index, mapped, ragged, flushed, stray, scenario, crashes, misnumbered,
                       cur, version, allowed>>
        /\ \A x \in Ids : Fold(blob, log)[x] # NoRec => position[x] # 0
    BY DEF OpenBlob, memory, file, bounds, Merged, Missing
  <1>2. Fold(blob, log) \in [Ids -> Stored] /\ Fold(Fold(blob, log), log) = Fold(blob, log)
    BY FoldFacts DEF StoreInv, Types
  <1>3. Held'
    <2>1. \A x \in Ids : position[x] # 0 => Fold(blob, log)[x] # NoRec
      BY <1>1 DEF StoreInv, Held
    <2>2. Fold(blob, log)' = Fold(blob, log)
      BY <1>1, <1>2
    <2>. QED
      BY <1>1, <2>1, <2>2 DEF Held
  <1>4. Types'
    BY <1>1, <1>2 DEF StoreInv, Types
  <1>5. Placed(position', slots', mapped', stray')
    BY <1>1 DEF StoreInv, Numbered
  <1>6. Indexed(records', index') /\ Stages'
    BY <1>1 DEF StoreInv, Stages
  <1>. QED
    BY <1>3, <1>4, <1>5, <1>6 DEF StoreInv

LEMMA OpenLogStep ==
  ASSUME StoreInv, OpenLog
  PROVE  StoreInv'
  <1>. DEFINE m == Fold(blob, log)
              B(b) == {x \in Ids : m[x] # NoRec /\ Bucket(m[x].body) = b}
  <1>1. /\ phase = "blob" /\ phase' = "opened" /\ log' = <<>>
        /\ records' = [x \in Ids |-> m[x].body]
        /\ index' = [b \in {0, 1} |-> SetToSeq(B(b))]
        /\ UNCHANGED <<position, mapped, blob, slots, ragged, flushed, stray, scenario, crashes, misnumbered, pc, cur,
                       version, allowed>>
    BY DEF OpenLog, Merged, file, bounds
  <1>2. Types
    BY DEF StoreInv
  <1>3. m \in [Ids -> Stored] /\ pc = "idle" /\ slots \in Seq(Slots)
    BY <1>1, <1>2, FoldFacts DEF Types, StoreInv, Stages
  <1>4. \A x \in Ids : position[x] = 0 <=> m[x] = NoRec
    BY <1>1 DEF StoreInv, Held
  <1>. HIDE DEF m
  <1>5. \A x \in Ids : m[x].body \in 0 .. MaxVersion /\ (m[x].body = 0 <=> m[x] = NoRec)
    BY <1>3, Parameters DEF Stored, NoRec
  <1>6. records' \in [Ids -> 0 .. MaxVersion] /\ \A x \in Ids : records'[x] = m[x].body
    BY <1>1, <1>5
  <1>7. Placed(position', slots', mapped', stray')
    BY <1>1 DEF StoreInv, Numbered
  <1>8. Held'
    BY <1>1, <1>4, <1>5, <1>6 DEF Held
  <1>11. \A b \in {0, 1} : Lists(index'[b], Members(records', b)) /\ index'[b] \in Seq(Ids)
    <2>. SUFFICES ASSUME NEW b \in {0, 1} PROVE Lists(index'[b], Members(records', b)) /\ index'[b] \in Seq(Ids)
      OBVIOUS
    <2>1. Members(records', b) = B(b)
      BY <1>5, <1>6 DEF Members
    <2>2. index'[b] = SetToSeq(B(b))
      BY <1>1
    <2>3. IsFiniteSet(B(b)) /\ B(b) \subseteq Ids
      BY Parameters, FS_Subset
    <2>. HIDE DEF B
    <2>4. Lists(SetToSeq(B(b)), B(b))
      BY <2>3, SetToSeqLists
    <2>. QED
      BY <2>1, <2>2, <2>3, <2>4, SeqMonotonic DEF Lists
  <1>12. index' \in [{0, 1} -> Seq(Ids)]
    BY <1>1, <1>11
  <1>13. Types'
    <2>1. log' \in Seq(Entries) /\ pc' = "idle" /\ phase' = "opened"
      BY <1>1, <1>3
    <2>2. /\ scenario' \in Scenarios /\ version' \in 1 .. MaxVersion /\ crashes' \in 0 .. scenario'.crashes
          /\ blob' \in [Ids -> Stored] /\ slots' \in Seq(Slots) /\ flushed' \in Seq(Slots)
          /\ cur' \in [id : Ids, v : 0 .. MaxVersion] /\ misnumbered' \in BOOLEAN
          /\ allowed' \in [Ids -> SUBSET Recs] /\ position' \in [Ids -> Nat]
          /\ mapped' \in 0 .. Len(slots') /\ ragged' \in BOOLEAN /\ stray' \in SUBSET Ids
      BY <1>1, <1>2 DEF Types
    <2>. QED
      BY <1>6, <1>12, <2>1, <2>2 DEF Types
  <1>14. Indexed(records', index') /\ Stages'
    BY <1>1, <1>3, <1>11 DEF Indexed, Stages
  <1>. QED
    BY <1>7, <1>8, <1>13, <1>14 DEF StoreInv

LEMMA OpenFailsStep ==
  ASSUME StoreInv, OpenFails
  PROVE  StoreInv'
  <1>1. /\ phase = "down" /\ phase' = "broken"
        /\ UNCHANGED <<records, position, index, mapped, blob, log, slots, ragged, flushed, stray, scenario,
                       crashes, misnumbered, pc, cur, version, allowed>>
    BY DEF OpenFails, memory, file, bounds
  <1>2. Types'
    BY <1>1 DEF StoreInv, Types
  <1>3. Indexed(records', index') /\ ~Numbered' /\ Held' /\ Stages'
    BY <1>1 DEF StoreInv, Numbered, Held, Stages
  <1>. QED
    BY <1>2, <1>3 DEF StoreInv

LEMMA ServeStep ==
  ASSUME StoreInv, Serve
  PROVE  StoreInv'
  <1>1. /\ phase = "opened" /\ phase' = "up" /\ allowed' = [x \in Ids |-> {View(x)}]
        /\ UNCHANGED <<records, position, index, mapped, blob, log, slots, ragged, flushed, stray, scenario,
                       crashes, misnumbered, pc, cur, version>>
    BY DEF Serve, memory, file, bounds
  <1>2. Types /\ pc = "idle"
    BY <1>1 DEF StoreInv, Stages
  <1>3. \A x \in Ids : View(x) \in Recs
    BY <1>2, ViewTypes
  <1>4. Types'
    BY <1>1, <1>2, <1>3 DEF Types
  <1>5. Numbered' => Placed(position', slots', mapped', stray')
    BY <1>1, <1>2 DEF StoreInv, Numbered
  <1>6. Indexed(records', index') /\ Held' /\ Stages'
    BY <1>1, <1>2 DEF StoreInv, Held, Stages
  <1>. QED
    BY <1>4, <1>5, <1>6 DEF StoreInv

LEMMA StutterStep ==
  ASSUME StoreInv, UNCHANGED vars
  PROVE  StoreInv'
  <1>1. UNCHANGED <<records, position, index, mapped, blob, log, slots, ragged, flushed, phase, pc, cur, version,
                    scenario, crashes, allowed, misnumbered, stray>>
    BY DEF vars
  <1>2. Types'
    BY <1>1 DEF StoreInv, Types
  <1>3. Indexed(records', index') /\ (Numbered' => Placed(position', slots', mapped', stray')) /\ Held' /\ Stages'
    BY <1>1 DEF StoreInv, Numbered, Held, Stages
  <1>. QED
    BY <1>2, <1>3 DEF StoreInv

\* The invariant: the maps and files of the store agree, whatever was written,
\* failed, crashed or compacted (GenericMmapStore).
THEOREM StoreInvariant == Spec => []StoreInv
  <1>1. Init => StoreInv
    BY InitStore
  <1>2. ASSUME StoreInv, [Next]_vars PROVE StoreInv'
    <2>1. ASSUME NEW x \in Ids, Insert(x) PROVE StoreInv'
      BY <1>2, <2>1, InsertStep
    <2>2. ASSUME NEW x \in Ids, Replace(x) PROVE StoreInv'
      BY <1>2, <2>2, ReplaceStep
    <2>3. ASSUME NEW x \in Ids, Delete(x) PROVE StoreInv'
      BY <1>2, <2>3, DeleteStep
    <2>4. ASSUME NEW x \in Ids, Update(x) PROVE StoreInv'
      BY <1>2, <2>4, UpdateStep
    <2>5. CASE InsertSlot
      BY <1>2, <2>5, InsertSlotStep
    <2>6. CASE InsertSlotFails
      BY <1>2, <2>6, InsertSlotFailsStep
    <2>7. CASE ReplaceSlot
      BY <1>2, <2>7, ReplaceSlotStep
    <2>8. CASE DeleteSlot
      BY <1>2, <2>8, DeleteSlotStep
    <2>9. CASE FlushSlots
      BY <1>2, <2>9, FlushSlotsStep
    <2>10. CASE CompactBlob
      BY <1>2, <2>10, CompactBlobStep
    <2>11. CASE CompactSlots \/ CompactSlotsFails
      BY <1>2, <2>11, CompactSlotsStep
    <2>12. CASE CompactLog
      BY <1>2, <2>12, CompactLogStep
    <2>13. CASE CompactLogFails
      BY <1>2, <2>13, CompactLogFailsStep
    <2>14. CASE Panic
      BY <1>2, <2>14, PanicStep
    <2>15. CASE Crash
      BY <1>2, <2>15, CrashStep
    <2>16. CASE OpenAppend
      BY <1>2, <2>16, OpenAppendStep
    <2>17. CASE OpenBlob
      BY <1>2, <2>17, OpenBlobStep
    <2>18. CASE OpenLog
      BY <1>2, <2>18, OpenLogStep
    <2>19. CASE OpenFails
      BY <1>2, <2>19, OpenFailsStep
    <2>20. CASE Serve
      BY <1>2, <2>20, ServeStep
    <2>21. CASE UNCHANGED vars
      BY <1>2, <2>21, StutterStep
    <2>22. CASE ReadTorn
      BY <1>2, <2>22, ReadTornStep
    <2>23. CASE OpenRead
      BY <1>2, <2>23, OpenReadStep
    <2>24. CASE OpenAppendFails
      BY <1>2, <2>24, OpenAppendFailsStep
    <2>. QED
      BY <1>2, <2>1, <2>2, <2>3, <2>4, <2>5, <2>6, <2>7, <2>8, <2>9, <2>10, <2>11, <2>12, <2>13, <2>14,
         <2>15, <2>16, <2>17, <2>18, <2>19, <2>20, <2>21, <2>22, <2>23, <2>24 DEF Next
  <1>. QED
    BY <1>1, <1>2, PTL DEF Spec

------------------------------------------------------------------------------
(* What it says of readers                                                 *)

LEMMA TypesHold == StoreInv => TypeOK
  <1>. SUFFICES ASSUME StoreInv PROVE TypeOK
    OBVIOUS
  <1>1. Types
    BY DEF StoreInv
  <1>3. \A b \in {0, 1} : Range(index[b]) \subseteq Ids
    BY <1>1 DEF Types, Range
  <1>4. Stored \subseteq Recs
    BY Parameters DEF Stored, Recs, NoRec
  <1>5. \A i \in DOMAIN log : log[i] \in [kind : {"item", "tombstone", "junk"}, id : Ids, body : 0 .. MaxVersion]
    <2>1. \A i \in DOMAIN log : log[i] \in Entries
      BY <1>1 DEF Types
    <2>2. Entries \subseteq [kind : {"item", "tombstone", "junk"}, id : Ids, body : 0 .. MaxVersion]
      BY Parameters DEF Entries
    <2>. QED
      BY <2>1, <2>2
  <1>6. \A s \in Range(slots) \cup Range(flushed) : s \in Slots
    <2>1. Range(slots) \subseteq Slots
      BY <1>1 DEF Types, Range
    <2>2. Range(flushed) \subseteq Slots
      BY <1>1 DEF Types, Range
    <2>. QED
      BY <2>1, <2>2
  <1>. QED
    BY <1>1, <1>3, <1>4, <1>5, <1>6 DEF TypeOK, Types

\* The mapped slots, when they are as many as the live records, are theirs.
Holders(pos) == {x \in Ids : pos[x] # 0}

LEMMA GaplessScan ==
  ASSUME NEW m \in Nat, NEW pos \in [Ids -> Nat], m = Cardinality(Holders(pos)),
         \A x \in Holders(pos) : pos[x] \in 1 .. m /\ \A y \in Holders(pos) : y # x => pos[y] # pos[x]
  PROVE  \A p \in 1 .. m : \E x \in Holders(pos) : pos[x] = p
  <1>. DEFINE L == Holders(pos)
              f == [x \in L |-> pos[x]]
  <1>1. IsFiniteSet(L) /\ Cardinality(L) = m
    BY Parameters, FS_Subset DEF Holders
  <1>. HIDE DEF L
  <1>2. IsFiniteSet(1 .. m) /\ Cardinality(1 .. m) = m
    BY FS_Interval
  <1>3. f \in Injection(L, 1 .. m)
    BY Fun_IsInj DEF L
  <1>4. f \in Surjection(L, 1 .. m)
    BY <1>1, <1>2, <1>3, FS_Injection
  <1>5. \A p \in 1 .. m : \E x \in L : f[x] = p
    BY <1>4 DEF Surjection
  <1>. QED
    BY <1>5 DEF L

\* Every live record is read at its own slot, the one open would find for it,
\* but for the ids whose appends went wrong and while the file is renumbered; a
\* live record's slot is mapped when the file is, and when is_gapless holds each
\* mapped slot is a live record's (position_index, is_gapless).
THEOREM SlotsAreSound == Spec => []SlotsSound
  <1>1. StoreInv => SlotsSound
    <2>. SUFFICES ASSUME StoreInv PROVE SlotsSound
      OBVIOUS
    <2>1. TypeOK /\ Types
      BY TypesHold DEF StoreInv
    <2>. SUFFICES ASSUME Reading, ~misnumbered
                  PROVE  /\ \A x \in Ids \ stray : position[x] = IF x \in Live THEN SlotOf(x) ELSE 0
                         /\ mapped # 0 => \A x \in Live : Mapped(x)
                         /\ Gapless => \A p \in 1 .. mapped : \E x \in Live : position[x] = p
      BY <2>1 DEF SlotsSound
    <2>2. Placed(position, slots, mapped, stray)
      BY DEF StoreInv, Numbered, Reading
    <2>3. \A x \in Ids : position[x] = 0 <=> records[x] = 0
      BY DEF StoreInv, Held, Reading
    <2>4. position \in [Ids -> Nat] /\ slots \in Seq(Slots) /\ mapped \in Nat
      <3>1. PICK n \in Nat : n = Len(slots) /\ mapped \in 0 .. n
        BY <2>1 DEF Types
      <3>. QED
        BY <2>1, <3>1 DEF Types
    <2>5. \A x \in Ids \ stray : position[x] = IF x \in Live THEN SlotOf(x) ELSE 0
      <3>. SUFFICES ASSUME NEW x \in Ids \ stray, position[x] # 0 PROVE position[x] = SlotOf(x) /\ x \in Live
        BY <2>3 DEF Live
      <3>1. position[x] \in CommittedIn(slots, x) /\ \A q \in CommittedIn(slots, x) : q <= position[x]
        BY <2>2 DEF Placed
      <3>2. position[x] = SlotIn(slots, x)
        BY <2>4, <3>1, SlotInIs
      <3>. QED
        BY <2>3, <3>2 DEF Live, SlotOf, SlotIn, Committed, CommittedIn
    <2>6. mapped # 0 => \A x \in Ids : position[x] # 0 => position[x] \in 1 .. mapped
      <3>. SUFFICES ASSUME mapped # 0, NEW x \in Ids, position[x] # 0 PROVE position[x] \in 1 .. mapped
        OBVIOUS
      <3>1. position[x] <= mapped /\ position[x] \in Nat
        BY <2>2, <2>4 DEF Placed
      <3>. QED
        BY <2>4, <3>1
    <2>7. mapped # 0 => \A x \in Live : Mapped(x)
      BY <2>3, <2>6 DEF Live, Mapped
    <2>8. ASSUME Gapless PROVE \A p \in 1 .. mapped : \E x \in Live : position[x] = p
      <3>1. CASE mapped = 0
        BY <3>1
      <3>2. CASE mapped # 0
        <4>1. mapped = Cardinality(Holders(position))
          BY <2>8 DEF Gapless, Holders
        <4>2. \A x \in Holders(position) : position[x] \in 1 .. mapped
          BY <2>6, <3>2 DEF Holders
        <4>3. \A x \in Holders(position) : \A y \in Holders(position) : y # x => position[y] # position[x]
          BY <2>2 DEF Placed, Holders
        <4>4. \A p \in 1 .. mapped : \E x \in Holders(position) : position[x] = p
          BY <2>4, <4>1, <4>2, <4>3, GaplessScan
        <4>. QED
          BY <2>3, <4>4 DEF Holders, Live
      <3>. QED
        BY <3>1, <3>2
    <2>. QED
      BY <2>5, <2>7, <2>8
  <1>. QED
    BY <1>1, StoreInvariant, PTL

\* Each bucket of the index holds the live records with its value, each once
\* (FilterEq).
THEOREM IndexIsExact == Spec => []IndexExact
  <1>1. StoreInv => IndexExact
    <2>. SUFFICES ASSUME StoreInv, NEW b \in {0, 1}
                  PROVE  /\ Range(index[b]) = {x \in Live : Bucket(records[x]) = b}
                         /\ Len(index[b]) = Cardinality(Range(index[b]))
      BY DEF IndexExact
    <2>1. Lists(index[b], Members(records, b))
      BY DEF StoreInv, Indexed
    <2>2. Range(index[b]) = Members(records, b) /\ Len(index[b]) = Cardinality(Range(index[b]))
      BY <2>1, ListsCount
    <2>. QED
      BY <2>2 DEF Members, Live
  <1>. QED
    BY <1>1, StoreInvariant, PTL

------------------------------------------------------------------------------
(* Second part: what readers find                                          *)

\* One kind of scenario is left out, for the code keeps its promises there only
\* in part: a power loss may bring back the value a replacement overwrote and the
\* marker a deletion cleared, and lose the slot behind which an append failed.
Safe(s) == s.powerLoss => /\ s.operations \cap {"replace", "delete"} = {}
                          /\ "slot_append" \notin s.faults
AllSafe == \A s \in Scenarios : Safe(s)

\* What opening makes of a record m of blob and log and a slot file s.
Recovered(m, s, x) ==
  IF m = NoRec \/ CommittedIn(s, x) = {} THEN m ELSE Rec(m.body, s[SlotIn(s, x)].val)

Bodies(A) == {a.body : a \in A}

\* A slot's value goes with the body r in use, and with that a crash would leave.
Good(r, m, A, val) == Rec(r, val) \in A /\ (m # NoRec => Rec(m.body, val) \in A)

\* So does the value in slot p, and what a power loss leaves of it.
Firm(r, m, A, s, f, p, loss) ==
  /\ p \in DOMAIN s /\ Good(r, m, A, s[p].val)
  /\ loss => IF p \in DOMAIN f THEN Good(r, m, A, f[p].val) ELSE m \in A

\* Readers find outcomes A of id x, now and after a crash: r is the body in use, m
\* what blob and log hold, p the position, s the slot file, f what is flushed of
\* it, doubt the ids whose slots cannot be relied on; num: are the positions those
\* of s?  loss: may a crash lose what is not flushed?
Assured(x, r, m, A, p, s, f, doubt, num, loss) ==
  /\ r \in Bodies(A) /\ m.body \in Bodies(A)
  /\ p = 0 => m \in A /\ (x \notin doubt => CommittedIn(s, x) = {})
  /\ p # 0 /\ num => p \in DOMAIN s /\ Good(r, m, A, s[p].val)
  /\ p # 0 /\ num /\ x \notin doubt => Firm(r, m, A, s, f, p, loss)
  /\ p # 0 /\ ~num /\ x \notin doubt =>
       CommittedIn(s, x) # {} /\ Firm(r, m, A, s, f, SlotIn(s, x), loss)

InUse(x) == IF phase \in {"reading", "blob"} THEN Merged[x].body ELSE records[x]
Opened == phase \in {"reading", "blob", "opened", "up"}

\* No id has two committed slots; those flushed are still there.
Single(s, doubt) == \A x \in Ids : x \notin doubt => \A p, q \in CommittedIn(s, x) : p = q
Same(s, f) == /\ Len(f) <= Len(s)
              /\ \A p \in DOMAIN f : f[p].id = s[p].id /\ f[p].committed = s[p].committed

\* While the store opens, all but the slots it appends is flushed.
Tidy ==
  /\ Single(slots, stray)
  /\ PowerLoss => Same(slots, flushed)
  /\ PowerLoss /\ phase \in {"down", "broken"} => flushed = slots
  /\ phase \in {"reading", "blob", "opened"} => mapped = Len(slots)
  /\ PowerLoss /\ phase \in {"reading", "blob", "opened"} =>
       /\ \A p \in DOMAIN flushed : flushed[p] = slots[p]
       /\ \A x \in Ids : x \notin stray /\ position[x] \in DOMAIN slots /\ position[x] \notin DOMAIN flushed =>
            slots[position[x]].val = Fold(blob, log)[x].scan
  /\ pc = "compact_log" => flushed = slots
  /\ pc \in {"replace", "delete"} => ~PowerLoss

\* Blob and log hold the records.
BlobAndLog ==
  /\ phase \in {"up", "opened"} => \A x \in Ids : ~Mentions(log, x) => blob[x].body = records[x]
  /\ pc \in {"insert", "replace"} => Fold(blob, log)[cur.id] = Rec(cur.v, cur.v) /\ Mentions(log, cur.id)
  /\ pc = "delete" => Fold(blob, log)[cur.id] = NoRec /\ Mentions(log, cur.id)
  /\ pc \in {"compact_slots", "compact_log"} => \A x \in Ids : blob[x].body = records[x]
  /\ pc = "compact_slots" =>
       \A x \in Ids : records[x] # 0 => Good(records[x], Fold(blob, log)[x], allowed[x], blob[x].scan)
  /\ phase = "blob" => Fold(blob, log) = blob
  /\ phase = "opened" => log = <<>>

Outcomes ==
  /\ allowed \in [Ids -> SUBSET Stored]
  /\ Opened => \A x \in Ids : Assured(x, InUse(x), Fold(blob, log)[x], allowed[x], position[x], slots, flushed,
                                    stray, Numbered, PowerLoss)
  /\ phase \in {"down", "broken"} => \A x \in Ids : Recovered(Fold(blob, log)[x], slots, x) \in allowed[x]
  /\ phase = "dead" => \A x \in Ids :
       /\ Fold(blob, log)[x].body \in Bodies(allowed[x])
       /\ x \notin stray => \A s \in Survivors : Recovered(Fold(blob, log)[x], s, x) \in allowed[x]

PromiseInv == Tidy /\ BlobAndLog /\ Outcomes

(* The log's last entry                                                    *)

\* It is the one that counts for its id, the only one it counts for.
LEMMA FoldLast ==
  ASSUME NEW b, NEW l \in Seq(Entries), l # <<>>, NEW x \in Ids, l[Len(l)].id = x, l[Len(l)].kind # "junk"
  PROVE  /\ Mentions(l, x)
         /\ Fold(b, l)[x] = IF l[Len(l)].kind = "tombstone" THEN NoRec
                            ELSE Rec(l[Len(l)].body, l[Len(l)].body)
  <1>1. Len(l) \in Nat /\ DOMAIN l = 1 .. Len(l) /\ Len(l) \in DOMAIN l
    OBVIOUS
  <1>2. Mentions(l, x)
    BY <1>1 DEF Mentions
  <1>3. LastOf(l, x) \in DOMAIN l /\ Len(l) <= LastOf(l, x)
    BY <1>1, <1>2, LastOfFacts
  <1>4. LastOf(l, x) = Len(l)
    BY <1>1, <1>3
  <1>. QED
    BY <1>2, <1>4, FoldIs

\* An entry that is cut short, or another id's, changes nothing of a record.
LEMMA FoldOther ==
  ASSUME NEW b, NEW l \in Seq(Entries), NEW e \in Entries, NEW x \in Ids, e.id # x \/ e.kind = "junk"
  PROVE  /\ Mentions(Append(l, e), x) <=> Mentions(l, x)
         /\ Fold(b, Append(l, e))[x] = Fold(b, l)[x]
  <1>. DEFINE m == Append(l, e)
  <1>1. /\ Len(l) \in Nat /\ DOMAIN l = 1 .. Len(l) /\ DOMAIN m = 1 .. Len(l) + 1 /\ m \in Seq(Entries)
        /\ m[Len(l) + 1] = e /\ \A i \in 1 .. Len(l) : m[i] = l[i]
    OBVIOUS
  <1>. HIDE DEF m
  <1>2. \A i : i \in 1 .. Len(l) + 1 <=> (i \in 1 .. Len(l) \/ i = Len(l) + 1)
    BY <1>1
  <1>3. \A i \in DOMAIN m : m[i].id = x /\ m[i].kind # "junk" => i \in DOMAIN l /\ m[i] = l[i]
    BY <1>1, <1>2
  <1>4. \A i \in DOMAIN l : i \in DOMAIN m /\ m[i] = l[i]
    BY <1>1, <1>2
  <1>5. Mentions(m, x) <=> Mentions(l, x)
    BY <1>3, <1>4 DEF Mentions
  <1>6. ASSUME Mentions(l, x) PROVE m[LastOf(m, x)] = l[LastOf(l, x)]
    <2>1. PICK i \in DOMAIN m : i = LastOf(m, x) /\ m[i].id = x /\ m[i].kind # "junk"
      BY <1>1, <1>5, <1>6, LastOfFacts
    <2>2. \A k \in DOMAIN m : m[k].id = x /\ m[k].kind # "junk" => k <= i
      BY <1>1, <1>5, <1>6, <2>1, LastOfFacts
    <2>3. PICK j \in DOMAIN l : j = LastOf(l, x) /\ l[j].id = x /\ l[j].kind # "junk"
      BY <1>6, LastOfFacts
    <2>4. \A k \in DOMAIN l : l[k].id = x /\ l[k].kind # "junk" => k <= j
      BY <1>6, <2>3, LastOfFacts
    <2>5. i \in DOMAIN l /\ m[i] = l[i] /\ i <= j
      BY <1>3, <2>1, <2>4
    <2>6. j <= i
      BY <1>4, <2>2, <2>3
    <2>7. i = j
      BY <1>1, <2>5, <2>6
    <2>. QED
      BY <2>1, <2>3, <2>5, <2>7
  <1>7. Fold(b, m)[x] = Fold(b, l)[x]
    <2>1. CASE Mentions(l, x)
      <3>1. Fold(b, m)[x] = IF m[LastOf(m, x)].kind = "tombstone" THEN NoRec
                            ELSE Rec(m[LastOf(m, x)].body, m[LastOf(m, x)].body)
        BY <1>5, <2>1, FoldIs
      <3>2. Fold(b, l)[x] = IF l[LastOf(l, x)].kind = "tombstone" THEN NoRec
                            ELSE Rec(l[LastOf(l, x)].body, l[LastOf(l, x)].body)
        BY <2>1, FoldIs
      <3>. QED
        BY <1>6, <2>1, <3>1, <3>2
    <2>2. CASE ~Mentions(l, x)
      BY <1>5, <2>2, FoldIs
    <2>. QED
      BY <2>1, <2>2
  <1>. QED
    BY <1>5, <1>7 DEF m

\* An entry that counts.
LEMMA FoldEntry ==
  ASSUME NEW b, NEW l \in Seq(Entries), NEW e \in Entries, e.id \in Ids, e.kind # "junk"
  PROVE  /\ Mentions(Append(l, e), e.id)
         /\ Fold(b, Append(l, e))[e.id] = IF e.kind = "tombstone" THEN NoRec ELSE Rec(e.body, e.body)
  <1>. DEFINE m == Append(l, e)
  <1>1. m \in Seq(Entries) /\ m # <<>> /\ m[Len(m)] = e
    OBVIOUS
  <1>. HIDE DEF m
  <1>2. /\ Mentions(m, e.id)
        /\ Fold(b, m)[e.id] = IF e.kind = "tombstone" THEN NoRec ELSE Rec(e.body, e.body)
    BY <1>1, FoldLast
  <1>. QED
    BY <1>2 DEF m
------------------------------------------------------------------------------
(* ... bodies, slots and what is left of them                              *)

LEMMA BodiesFacts ==
  ASSUME NEW A \in SUBSET Stored
  PROVE  /\ \A m \in Stored : m.body \in Bodies(A) /\ m = NoRec => m \in A
         /\ \A b : b \in Bodies(A) /\ b # 0 => \E a \in A : a # NoRec /\ a.body = b
         /\ \A B \in SUBSET Stored : A \subseteq B => Bodies(A) \subseteq Bodies(B)
         /\ \A a \in A : a.body \in Bodies(A)
  <1>1. \A a \in A : a.body = 0 => a = NoRec
    BY DEF Stored, NoRec
  <1>2. \A b : b \in Bodies(A) => \E a \in A : a.body = b
    BY DEF Bodies
  <1>3. NoRec.body = 0
    BY DEF NoRec
  <1>4. \A m \in Stored : m.body \in Bodies(A) /\ m = NoRec => m \in A
    BY <1>1, <1>2, <1>3
  <1>5. \A b : b \in Bodies(A) /\ b # 0 => \E a \in A : a # NoRec /\ a.body = b
    BY <1>2, <1>3
  <1>6. \A B \in SUBSET Stored : A \subseteq B => Bodies(A) \subseteq Bodies(B)
    BY DEF Bodies
  <1>7. \A a \in A : a.body \in Bodies(A)
    BY DEF Bodies
  <1>. QED
    BY <1>4, <1>5, <1>6, <1>7

\* WithScan and AnyScan change values only.
LEMMA ScanFacts ==
  ASSUME NEW A \in SUBSET Stored, NEW s \in 1 .. MaxVersion
  PROVE  /\ WithScan(A, s) \subseteq AnyScan(A) /\ A \subseteq AnyScan(A)
         /\ NoRec \in A => NoRec \in WithScan(A, s)
         /\ \A b : b \in Bodies(A) /\ b # 0 => Rec(b, s) \in WithScan(A, s)
         /\ Bodies(A) \subseteq Bodies(WithScan(A, s)) /\ Bodies(A) \subseteq Bodies(AnyScan(A))
         /\ WithScan(A, s) \in SUBSET Stored /\ AnyScan(A) \in SUBSET Stored
  <1>1. WithScan(A, s) \in SUBSET Stored /\ AnyScan(A) \in SUBSET Stored
    BY AnyScanTypes
  <1>2. WithScan(A, s) \subseteq AnyScan(A)
    BY DEF AnyScan
  <1>3. NoRec \in A => NoRec \in WithScan(A, s)
    BY DEF WithScan
  <1>4. \A b : b \in Bodies(A) /\ b # 0 => Rec(b, s) \in WithScan(A, s)
    <2>. SUFFICES ASSUME NEW b, b \in Bodies(A), b # 0 PROVE Rec(b, s) \in WithScan(A, s)
      OBVIOUS
    <2>1. PICK a \in A : a # NoRec /\ a.body = b
      BY BodiesFacts
    <2>. QED
      BY <2>1 DEF WithScan
  <1>5. A \subseteq AnyScan(A)
    <2>. SUFFICES ASSUME NEW a \in A PROVE a \in AnyScan(A)
      OBVIOUS
    <2>1. CASE a = NoRec
      BY <1>2, <1>3, <2>1
    <2>2. CASE a # NoRec
      <3>1. a.scan \in 1 .. MaxVersion /\ a = Rec(a.body, a.scan)
        BY <2>2 DEF Stored, Rec
      <3>2. a \in WithScan(A, a.scan)
        BY <2>2, <3>1 DEF WithScan
      <3>. QED
        BY <3>1, <3>2 DEF AnyScan
    <2>. QED
      BY <2>1, <2>2
  <1>6. Bodies(A) \subseteq Bodies(WithScan(A, s))
    <2>. SUFFICES ASSUME NEW b \in Bodies(A) PROVE b \in Bodies(WithScan(A, s))
      OBVIOUS
    <2>1. CASE b # 0
      <3>1. Rec(b, s) \in WithScan(A, s) /\ Rec(b, s).body = b
        BY <1>4, <2>1 DEF Rec
      <3>. QED
        BY <3>1 DEF Bodies
    <2>2. CASE b = 0
      <3>1. NoRec \in Stored /\ NoRec.body = b
        BY <2>2 DEF NoRec, Stored
      <3>2. NoRec \in WithScan(A, s)
        BY <1>3, <3>1, BodiesFacts
      <3>. QED
        BY <3>1, <3>2 DEF Bodies
    <2>. QED
      BY <2>1, <2>2
  <1>7. Bodies(A) \subseteq Bodies(AnyScan(A))
    BY <1>1, <1>5, BodiesFacts
  <1>. QED
    BY <1>1, <1>2, <1>3, <1>4, <1>5, <1>6, <1>7

\* Survivors, of a slot file s flushed as f.
Left(loss, s, f) ==
  IF ~loss THEN {s}
  ELSE {t \in UNION {[1 .. n -> Range(s) \cup Range(f)] : n \in Len(f) .. Len(s)} :
          \A p \in DOMAIN t : t[p] = s[p] \/ (p \in DOMAIN f /\ t[p] = f[p])}

LEMMA LeftIs == Survivors = Left(PowerLoss, slots, flushed)
  BY DEF Survivors, Left

LEMMA LeftFacts ==
  ASSUME NEW loss \in BOOLEAN, NEW s \in Seq(Slots), NEW f \in Seq(Slots), loss => Same(s, f),
         NEW t \in Left(loss, s, f)
  PROVE  /\ t \in Seq(Slots)
         /\ ~loss => t = s
         /\ loss => \A p \in DOMAIN f : p \in DOMAIN t
         /\ \A p \in DOMAIN t : /\ p \in DOMAIN s /\ t[p].id = s[p].id
                                /\ t[p].committed <=> s[p].committed
                                /\ t[p] = s[p] \/ (loss /\ p \in DOMAIN f /\ t[p] = f[p])
         /\ s = f => t = s
  <1>1. /\ Len(s) \in Nat /\ Len(f) \in Nat /\ DOMAIN s = 1 .. Len(s) /\ DOMAIN f = 1 .. Len(f)
        /\ Range(s) \subseteq Slots /\ Range(f) \subseteq Slots
    BY DEF Range
  <1>2. CASE ~loss
    BY <1>1, <1>2 DEF Left
  <1>3. CASE loss
    <2>1. PICK n \in Len(f) .. Len(s) : t \in [1 .. n -> Range(s) \cup Range(f)]
      BY <1>3 DEF Left
    <2>2. n \in Nat /\ n <= Len(s) /\ Len(f) <= n
      BY <1>1
    <2>3. t \in [1 .. n -> Slots]
      BY <1>1, <2>1
    <2>4. t \in Seq(Slots) /\ Len(t) = n /\ DOMAIN t = 1 .. n
      BY <2>2, <2>3
    <2>5. \A p \in DOMAIN t : t[p] = s[p] \/ (p \in DOMAIN f /\ t[p] = f[p])
      BY <1>3 DEF Left
    <2>6. \A p \in DOMAIN t : p \in DOMAIN s
      BY <1>1, <2>2, <2>4
    <2>7. \A p \in DOMAIN t : t[p].id = s[p].id /\ (t[p].committed <=> s[p].committed)
      BY <1>3, <2>5, <2>6 DEF Same
    <2>8. \A p \in DOMAIN f : p \in DOMAIN t
      BY <1>1, <2>2, <2>4
    <2>9. ASSUME s = f PROVE t = s
      <3>1. Len(t) = Len(s) /\ \A p \in DOMAIN t : t[p] = s[p]
        BY <1>1, <2>2, <2>4, <2>5, <2>9
      <3>. QED
        BY <2>4, <3>1
    <2>. QED
      BY <1>3, <2>4, <2>5, <2>6, <2>7, <2>8, <2>9
  <1>. QED
    BY <1>2, <1>3

\* The slot that is found of an id is its only one, and so is what is left of it.
LEMMA LeftSlot ==
  ASSUME NEW loss \in BOOLEAN, NEW s \in Seq(Slots), NEW f \in Seq(Slots), loss => Same(s, f),
         NEW t \in Left(loss, s, f), NEW x, \A p, q \in CommittedIn(s, x) : p = q
  PROVE  /\ CommittedIn(t, x) \subseteq CommittedIn(s, x)
         /\ CommittedIn(t, x) # {} => SlotIn(t, x) = SlotIn(s, x) /\ SlotIn(t, x) \in DOMAIN t
         /\ CommittedIn(s, x) # {} /\ CommittedIn(t, x) = {} => SlotIn(s, x) \notin DOMAIN t
  <1>1. /\ t \in Seq(Slots)
        /\ \A p \in DOMAIN t : /\ p \in DOMAIN s /\ t[p].id = s[p].id
                               /\ t[p].committed <=> s[p].committed
    BY LeftFacts
  <1>2. CommittedIn(t, x) \subseteq CommittedIn(s, x)
    BY <1>1 DEF CommittedIn
  <1>3. CommittedIn(t, x) # {} => SlotIn(t, x) \in CommittedIn(t, x)
    BY <1>1, SlotInFacts
  <1>4. CommittedIn(s, x) # {} => SlotIn(s, x) \in CommittedIn(s, x)
    BY SlotInFacts
  <1>5. \A p \in DOMAIN t : p \in CommittedIn(s, x) => p \in CommittedIn(t, x)
    BY <1>1 DEF CommittedIn
  <1>6. \A p \in CommittedIn(t, x) : p \in DOMAIN t
    BY DEF CommittedIn
  <1>. QED
    BY <1>2, <1>3, <1>4, <1>5, <1>6

------------------------------------------------------------------------------
(* ... what becomes of a record's promise                                  *)

\* A slot file that leaves the slots of x alone, and doubts that grow.
LEMMA AssuredCarried ==
  ASSUME NEW x, NEW r, NEW m, NEW A, NEW p, NEW s \in Seq(Slots), NEW t, NEW f, NEW D, NEW E, NEW num, NEW loss,
         Assured(x, r, m, A, p, s, f, D, num, loss), D \subseteq E,
         p # 0 /\ num => p \in DOMAIN t /\ t[p] = s[p],
         x \notin E => /\ CommittedIn(t, x) = CommittedIn(s, x)
                       /\ \A q \in CommittedIn(s, x) : q \in DOMAIN t /\ t[q] = s[q]
  PROVE  Assured(x, r, m, A, p, t, f, E, num, loss)
  <1>1. r \in Bodies(A) /\ m.body \in Bodies(A)
    BY DEF Assured
  <1>2. p = 0 => m \in A /\ (x \notin E => CommittedIn(t, x) = {})
    BY DEF Assured
  <1>3. p # 0 /\ num => p \in DOMAIN t /\ Good(r, m, A, t[p].val)
    BY DEF Assured
  <1>4. p # 0 /\ num /\ x \notin E => Firm(r, m, A, t, f, p, loss)
    BY DEF Assured, Firm
  <1>5. ASSUME p # 0, ~num, x \notin E
        PROVE  CommittedIn(t, x) # {} /\ Firm(r, m, A, t, f, SlotIn(t, x), loss)
    <2>1. CommittedIn(s, x) # {} /\ Firm(r, m, A, s, f, SlotIn(s, x), loss)
      BY <1>5 DEF Assured
    <2>2. SlotIn(t, x) = SlotIn(s, x) /\ SlotIn(s, x) \in CommittedIn(s, x)
      BY <1>5, <2>1, SlotInSame, SlotInFacts
    <2>3. SlotIn(s, x) \in DOMAIN t /\ t[SlotIn(s, x)] = s[SlotIn(s, x)]
      BY <1>5, <2>2
    <2>. QED
      BY <1>5, <2>1, <2>2, <2>3 DEF Firm
  <1>. QED
    BY <1>1, <1>2, <1>3, <1>4, <1>5 DEF Assured

\* An entry logged: more outcomes, and another record after a crash.
LEMMA AssuredLogged ==
  ASSUME NEW x, NEW r, NEW m, NEW n, NEW A, NEW B, NEW p, NEW s, NEW f, NEW D, NEW num, NEW loss,
         Assured(x, r, m, A, p, s, f, D, num, loss), A \subseteq B, n \in B,
         p # 0 => ~loss /\ \A v : Rec(r, v) \in A => n = NoRec \/ Rec(n.body, v) \in B
  PROVE  Assured(x, r, n, B, p, s, f, D, num, loss)
  <1>1. r \in Bodies(B) /\ n.body \in Bodies(B)
    BY DEF Assured, Bodies
  <1>2. \A v : p # 0 /\ Good(r, m, A, v) => Good(r, n, B, v)
    BY DEF Good
  <1>3. \A q : p # 0 /\ Firm(r, m, A, s, f, q, loss) => Firm(r, n, B, s, f, q, loss)
    BY <1>2 DEF Firm
  <1>. QED
    BY <1>1, <1>2, <1>3 DEF Assured

\* What opening finds of a record, in any slots that a crash leaves.
LEMMA AssuredAfter ==
  ASSUME NEW x, NEW r, NEW m \in Stored, NEW A \in SUBSET Stored, NEW p, NEW s \in Seq(Slots), NEW f \in Seq(Slots),
         NEW D, NEW num, NEW loss \in BOOLEAN, Assured(x, r, m, A, p, s, f, D, num, loss),
         loss => Same(s, f), x \notin D, \A i, j \in CommittedIn(s, x) : i = j,
         p # 0 /\ num => p \in CommittedIn(s, x),
         NEW t \in Left(loss, s, f)
  PROVE  Recovered(m, t, x) \in A
  <1>1. /\ CommittedIn(t, x) \subseteq CommittedIn(s, x)
        /\ CommittedIn(t, x) # {} => SlotIn(t, x) = SlotIn(s, x) /\ SlotIn(t, x) \in DOMAIN t
        /\ CommittedIn(s, x) # {} /\ CommittedIn(t, x) = {} => SlotIn(s, x) \notin DOMAIN t
    BY LeftSlot
  <1>2. CASE p = 0
    <2>1. m \in A /\ CommittedIn(s, x) = {}
      BY <1>2 DEF Assured
    <2>. QED
      BY <1>1, <2>1 DEF Recovered
  <1>3. CASE p # 0
    <2>1. CommittedIn(s, x) # {} /\ Firm(r, m, A, s, f, SlotIn(s, x), loss)
      <3>1. CASE num
        <4>1. p \in CommittedIn(s, x) /\ Firm(r, m, A, s, f, p, loss)
          BY <1>3, <3>1 DEF Assured
        <4>2. SlotIn(s, x) = p
          BY <4>1, SlotInFacts
        <4>. QED
          BY <4>1, <4>2
      <3>2. CASE ~num
        BY <1>3, <3>2 DEF Assured
      <3>. QED
        BY <3>1, <3>2
    <2>2. CASE m = NoRec
      <3>1. m \in A
        BY <2>2, BodiesFacts DEF Assured
      <3>. QED
        BY <2>2, <3>1 DEF Recovered
    <2>3. CASE m # NoRec /\ CommittedIn(t, x) # {}
      <3>1. PICK q \in DOMAIN t : q = SlotIn(t, x) /\ q = SlotIn(s, x)
        BY <1>1, <2>3
      <3>2. t[q] = s[q] \/ (loss /\ q \in DOMAIN f /\ t[q] = f[q])
        BY LeftFacts
      <3>3. Rec(m.body, t[q].val) \in A
        BY <2>1, <2>3, <3>1, <3>2 DEF Firm, Good
      <3>. QED
        BY <2>3, <3>1, <3>3 DEF Recovered
    <2>4. CASE CommittedIn(t, x) = {}
      <3>1. loss
        <4>1. ~loss => t = s
          BY LeftFacts
        <4>. QED
          BY <2>1, <2>4, <4>1
      <3>2. SlotIn(s, x) \notin DOMAIN f
        <4>1. \A q \in DOMAIN f : q \in DOMAIN t
          BY <3>1, LeftFacts
        <4>. QED
          BY <1>1, <2>1, <2>4, <4>1
      <3>3. m \in A
        BY <2>1, <3>1, <3>2 DEF Firm
      <3>. QED
        BY <2>4, <3>3 DEF Recovered
    <2>. QED
      BY <2>2, <2>3, <2>4
  <1>. QED
    BY <1>2, <1>3

\* Where the slots cannot be relied on, the body can.
LEMMA DoubtfulAfter ==
  ASSUME NEW x, NEW m \in Stored, NEW A \in SUBSET Stored, m.body \in Bodies(A), NEW t \in Seq(Slots),
         1 \in 1 .. MaxVersion
  PROVE  Recovered(m, t, x) \in AnyScan(A)
  <1>1. CASE m = NoRec
    <2>1. m \in A
      BY <1>1, BodiesFacts
    <2>2. m \in AnyScan(A)
      <3>1. NoRec \in A /\ 1 \in 1 .. MaxVersion
        BY <1>1, <2>1
      <3>. QED
        BY <1>1, <3>1, ScanFacts
    <2>. QED
      BY <1>1, <2>2 DEF Recovered
  <1>2. CASE m # NoRec
    <2>1. m.body # 0 /\ m.scan \in 1 .. MaxVersion /\ m = Rec(m.body, m.scan)
      <3>1. m \in [body : 1 .. MaxVersion, scan : 1 .. MaxVersion]
        BY <1>2 DEF Stored
      <3>. QED
        BY <3>1 DEF Rec
    <2>2. \A v \in 1 .. MaxVersion : Rec(m.body, v) \in AnyScan(A)
      <3>. SUFFICES ASSUME NEW v \in 1 .. MaxVersion PROVE Rec(m.body, v) \in AnyScan(A)
        OBVIOUS
      <3>1. Rec(m.body, v) \in WithScan(A, v) /\ WithScan(A, v) \subseteq AnyScan(A)
        BY <2>1, ScanFacts
      <3>. QED
        BY <3>1
    <2>3. CommittedIn(t, x) # {} => t[SlotIn(t, x)].val \in 1 .. MaxVersion
      <3>. SUFFICES ASSUME CommittedIn(t, x) # {} PROVE t[SlotIn(t, x)].val \in 1 .. MaxVersion
        OBVIOUS
      <3>1. SlotIn(t, x) \in DOMAIN t
        BY SlotInFacts DEF CommittedIn
      <3>2. PICK e \in Slots : e = t[SlotIn(t, x)]
        BY <3>1
      <3>. QED
        BY <3>2 DEF Slots
    <2>. QED
      BY <1>2, <2>1, <2>2, <2>3 DEF Recovered
  <1>. QED
    BY <1>1, <1>2

------------------------------------------------------------------------------
(* ... what the invariants give                                            *)

LEMMA PromiseFacts ==
  ASSUME AllSafe, StoreInv, PromiseInv
  PROVE  /\ slots \in Seq(Slots) /\ flushed \in Seq(Slots) /\ log \in Seq(Entries) /\ blob \in [Ids -> Stored]
         /\ PowerLoss \in BOOLEAN /\ 1 \in 1 .. MaxVersion /\ stray \in SUBSET Ids
         /\ allowed \in [Ids -> SUBSET Stored] /\ Fold(blob, log) \in [Ids -> Stored]
         /\ PowerLoss => {"replace", "delete"} \cap Operations = {} /\ "slot_append" \notin Faults
         /\ \A x \in Ids : allowed[x] \in SUBSET Stored /\ Fold(blob, log)[x] \in Stored /\ blob[x] \in Stored
         /\ Single(slots, stray) /\ (PowerLoss => Same(slots, flushed))
  <1>1. /\ slots \in Seq(Slots) /\ flushed \in Seq(Slots) /\ log \in Seq(Entries) /\ blob \in [Ids -> Stored]
        /\ scenario \in Scenarios /\ version \in 1 .. MaxVersion /\ stray \in SUBSET Ids
    BY DEF StoreInv, Types
  <1>2. PowerLoss \in BOOLEAN /\ Safe(scenario)
    BY <1>1, StoreAssumption DEF IsScenario, AllSafe, PowerLoss
  <1>3. 1 \in 1 .. MaxVersion
    BY <1>1, Parameters
  <1>4. Fold(blob, log) \in [Ids -> Stored]
    BY <1>1, FoldFacts
  <1>5. allowed \in [Ids -> SUBSET Stored] /\ Single(slots, stray) /\ (PowerLoss => Same(slots, flushed))
    BY DEF PromiseInv, Outcomes, Tidy
  <1>6. PowerLoss => {"replace", "delete"} \cap Operations = {} /\ "slot_append" \notin Faults
    BY <1>2 DEF Safe, PowerLoss, Operations, Faults
  <1>. QED
    BY <1>1, <1>2, <1>3, <1>4, <1>5, <1>6

\* Each id's own promise, while there is a process, and where its slot is.
LEMMA PromiseOf ==
  ASSUME StoreInv, PromiseInv, Opened, NEW x \in Ids
  PROVE  /\ Assured(x, InUse(x), Fold(blob, log)[x], allowed[x], position[x], slots, flushed, stray, Numbered, PowerLoss)
         /\ phase = "up" => Assured(x, records[x], Fold(blob, log)[x], allowed[x], position[x], slots, flushed, stray,
                                    Numbered, PowerLoss)
         /\ Numbered /\ position[x] # 0 =>
              /\ position[x] \in DOMAIN slots
              /\ x \notin stray => position[x] \in CommittedIn(slots, x)
              /\ \A y \in Ids : y # x => position[y] # position[x]
         /\ phase = "up" => (position[x] = 0 <=> records[x] = 0)
  <1>1. Assured(x, InUse(x), Fold(blob, log)[x], allowed[x], position[x], slots, flushed, stray, Numbered, PowerLoss)
    BY DEF PromiseInv, Outcomes
  <1>2. phase = "up" => InUse(x) = records[x]
    BY DEF InUse
  <1>3. ASSUME Numbered, position[x] # 0
        PROVE  /\ position[x] \in DOMAIN slots
               /\ x \notin stray => position[x] \in CommittedIn(slots, x)
               /\ \A y \in Ids : y # x => position[y] # position[x]
    <2>1. Placed(position, slots, mapped, stray) /\ DOMAIN slots = 1 .. Len(slots)
      BY <1>3 DEF StoreInv, Types
    <2>. QED
      BY <1>3, <2>1 DEF Placed
  <1>4. phase = "up" => (position[x] = 0 <=> records[x] = 0)
    BY DEF StoreInv, Held
  <1>. QED
    BY <1>1, <1>2, <1>3, <1>4

\* What a crash at this moment would leave of each record.
LEMMA PromiseAfter ==
  ASSUME AllSafe, StoreInv, PromiseInv, NEW x \in Ids
  PROVE  /\ Fold(blob, log)[x].body \in Bodies(allowed[x])
         /\ x \notin stray => \A t \in Survivors : Recovered(Fold(blob, log)[x], t, x) \in allowed[x]
  <1>. DEFINE m == Fold(blob, log)[x]
              A == allowed[x]
  <1>1. /\ slots \in Seq(Slots) /\ flushed \in Seq(Slots) /\ m \in Stored /\ A \in SUBSET Stored
        /\ PowerLoss \in BOOLEAN /\ Single(slots, stray) /\ (PowerLoss => Same(slots, flushed))
    BY PromiseFacts
  <1>2. CASE Opened
    <2>1. Assured(x, InUse(x), m, A, position[x], slots, flushed, stray, Numbered, PowerLoss)
      BY <1>2, PromiseOf
    <2>2. m.body \in Bodies(A)
      BY <2>1 DEF Assured
    <2>3. ASSUME x \notin stray, NEW t \in Survivors PROVE Recovered(m, t, x) \in A
      <3>1. position[x] # 0 /\ Numbered => position[x] \in CommittedIn(slots, x)
        BY <1>2, <2>3, PromiseOf
      <3>2. t \in Left(PowerLoss, slots, flushed) /\ \A i, j \in CommittedIn(slots, x) : i = j
        BY <1>1, <2>3, LeftIs DEF Single
      <3>. HIDE DEF m, A
      <3>. QED
        BY <1>1, <2>1, <2>3, <3>1, <3>2, AssuredAfter
    <2>. QED
      BY <2>2, <2>3
  <1>3. CASE phase = "dead"
    BY <1>3 DEF PromiseInv, Outcomes
  <1>4. CASE phase \in {"down", "broken"}
    <2>1. Recovered(m, slots, x) \in A
      BY <1>4 DEF PromiseInv, Outcomes
    <2>2. Recovered(m, slots, x).body = m.body
      BY DEF Recovered, Rec
    <2>3. m.body \in Bodies(A)
      BY <2>1, <2>2 DEF Bodies
    <2>4. ASSUME NEW t \in Survivors PROVE t = slots
      <3>1. t \in Left(PowerLoss, slots, flushed) /\ (PowerLoss => slots = flushed)
        BY <1>4, LeftIs DEF PromiseInv, Tidy
      <3>. QED
        BY <1>1, <3>1, LeftFacts
    <2>. QED
      BY <2>1, <2>3, <2>4
  <1>5. phase \in {"up", "down", "reading", "blob", "opened", "broken", "dead"}
    BY DEF StoreInv, Types
  <1>. QED
    BY <1>2, <1>3, <1>4, <1>5 DEF Opened

------------------------------------------------------------------------------
(* ... what the end of a process leaves                                    *)

LEMMA GoneKept ==
  ASSUME AllSafe, StoreInv, PromiseInv, Gone, slots' \in Seq(Slots), stray \subseteq stray', stray' \in SUBSET Ids,
         Single(slots', stray'), PowerLoss => flushed' = slots',
         \A x \in Ids : x \notin stray' => Recovered(Fold(blob, log)[x], slots', x) \in allowed[x]
  PROVE  PromiseInv'
  <1>1. /\ phase' = "down" /\ pc' = "idle"
        /\ allowed' = [x \in Ids |-> IF x \in stray' THEN AnyScan(allowed[x]) ELSE allowed[x]]
        /\ UNCHANGED <<scenario, blob, log>>
    BY DEF Gone
  <1>2. PowerLoss' = PowerLoss /\ Fold(blob, log)' = Fold(blob, log)
    BY <1>1 DEF PowerLoss
  <1>3. /\ \A x \in Ids : allowed[x] \in SUBSET Stored /\ Fold(blob, log)[x] \in Stored
        /\ 1 \in 1 .. MaxVersion
    BY PromiseFacts
  <1>4. Tidy'
    <2>1. PowerLoss => Same(slots', flushed')
      BY DEF Same
    <2>. QED
      BY <1>1, <1>2, <2>1 DEF Tidy
  <1>5. BlobAndLog'
    BY <1>1 DEF BlobAndLog
  <1>6. allowed' \in [Ids -> SUBSET Stored]
    <2>1. \A x \in Ids : AnyScan(allowed[x]) \in SUBSET Stored
      BY <1>3, AnyScanTypes
    <2>. QED
      BY <1>1, <1>3, <2>1
  <1>7. ASSUME NEW x \in Ids PROVE Recovered(Fold(blob, log)[x], slots', x) \in allowed'[x]
    <2>1. CASE x \in stray'
      <3>1. Fold(blob, log)[x].body \in Bodies(allowed[x])
        BY PromiseAfter
      <3>2. PICK t \in Seq(Slots) : t = slots'
        OBVIOUS
      <3>3. Recovered(Fold(blob, log)[x], t, x) \in AnyScan(allowed[x])
        BY <1>3, <3>1, DoubtfulAfter
      <3>. QED
        BY <1>1, <2>1, <3>2, <3>3
    <2>2. CASE x \notin stray'
      BY <1>1, <2>2
    <2>. QED
      BY <2>1, <2>2
  <1>8. Outcomes'
    BY <1>1, <1>2, <1>6, <1>7 DEF Outcomes, Opened
  <1>. QED
    BY <1>4, <1>5, <1>8 DEF PromiseInv

LEMMA CrashKept ==
  ASSUME AllSafe, StoreInv, PromiseInv, Crash
  PROVE  PromiseInv'
  <1>1. Gone /\ slots' \in Survivors /\ flushed' = slots' /\ stray' = stray
    BY DEF Crash
  <1>2. /\ slots \in Seq(Slots) /\ flushed \in Seq(Slots) /\ PowerLoss \in BOOLEAN /\ stray \in SUBSET Ids
        /\ Single(slots, stray) /\ (PowerLoss => Same(slots, flushed))
    BY PromiseFacts
  <1>3. PICK t \in Left(PowerLoss, slots, flushed) : t = slots'
    BY <1>1, LeftIs
  <1>4. t \in Seq(Slots)
    BY <1>2, LeftFacts
  <1>5. Single(t, stray)
    <2>1. ASSUME NEW x \in Ids, x \notin stray PROVE CommittedIn(t, x) \subseteq CommittedIn(slots, x)
      <3>1. \A p, q \in CommittedIn(slots, x) : p = q
        BY <1>2, <2>1 DEF Single
      <3>. QED
        BY <1>2, <3>1, LeftSlot
    <2>. QED
      BY <1>2, <2>1 DEF Single
  <1>6. \A x \in Ids : x \notin stray' => Recovered(Fold(blob, log)[x], slots', x) \in allowed[x]
    BY <1>1, PromiseAfter
  <1>7. Single(slots', stray')
    BY <1>1, <1>3, <1>5
  <1>. QED
    BY <1>1, <1>2, <1>3, <1>4, <1>6, <1>7, GoneKept

LEMMA PanicKept ==
  ASSUME AllSafe, StoreInv, PromiseInv, Panic \/ OpenFails
  PROVE  PromiseInv'
  <1>1. /\ UNCHANGED <<records, position, mapped, blob, log, slots, flushed, stray, scenario, allowed>>
        /\ (phase' = "dead" /\ pc' = "idle") \/ (phase = "down" /\ phase' = "broken" /\ pc' = "idle")
    <2>1. CASE Panic
      BY <2>1 DEF Panic, memory, file, bounds
    <2>2. CASE OpenFails
      <3>1. phase = "down" /\ pc = "idle"
        BY <2>2 DEF OpenFails, StoreInv, Stages
      <3>. QED
        BY <2>2, <3>1 DEF OpenFails, memory, file, bounds
    <2>. QED
      BY <2>1, <2>2
  <1>2. PowerLoss' = PowerLoss /\ Fold(blob, log)' = Fold(blob, log)
    BY <1>1 DEF PowerLoss
  <1>3. Survivors' = Survivors
    BY <1>1, <1>2 DEF Survivors
  <1>4. Tidy'
    BY <1>1, <1>2 DEF PromiseInv, Tidy
  <1>5. BlobAndLog'
    BY <1>1 DEF BlobAndLog
  <1>6. allowed' \in [Ids -> SUBSET Stored]
    BY <1>1 DEF PromiseInv, Outcomes
  <1>7. phase' = "dead" => \A x \in Ids :
          /\ Fold(blob, log)[x].body \in Bodies(allowed[x])
          /\ x \notin stray => \A t \in Survivors : Recovered(Fold(blob, log)[x], t, x) \in allowed[x]
    BY PromiseAfter
  <1>8. phase' = "broken" => \A x \in Ids : Recovered(Fold(blob, log)[x], slots, x) \in allowed[x]
    BY <1>1 DEF PromiseInv, Outcomes
  <1>9. Outcomes'
    BY <1>1, <1>2, <1>3, <1>6, <1>7, <1>8 DEF Outcomes, Opened
  <1>. QED
    BY <1>4, <1>5, <1>9 DEF PromiseInv


------------------------------------------------------------------------------
(* ... a log entry, which comes before its slot                            *)

\* What has to be seen while the process goes on.
LEMMA UpKept ==
  ASSUME phase' = "up", Tidy', BlobAndLog', allowed' \in [Ids -> SUBSET Stored],
         \A x \in Ids : Assured(x, records'[x], Fold(blob', log')[x], allowed'[x], position'[x], slots', flushed',
                                stray', Numbered', PowerLoss')
  PROVE  PromiseInv'
  <1>1. \A x \in Ids : InUse(x)' = records'[x]
    BY DEF InUse
  <1>2. Outcomes'
    BY <1>1 DEF Outcomes, Opened
  <1>. QED
    BY <1>2 DEF PromiseInv

LEMMA LogKept ==
  ASSUME AllSafe, StoreInv, PromiseInv, NEW op \in {"insert", "replace", "delete"}, NEW x \in Ids, NEW v \in 1 .. MaxVersion,
         NEW entry \in Entries, NEW outcomes \in SUBSET Stored, NEW n,
         Idle(op), op = "insert" <=> records[x] = 0, LogEntry(op, x, v, entry, outcomes),
         entry.id = x, entry.kind # "junk", n = (IF entry.kind = "tombstone" THEN NoRec ELSE Rec(entry.body, entry.body)),
         n \in outcomes, n = (IF op = "delete" THEN NoRec ELSE Rec(v, v)),
         records[x] # 0 => \A s : Rec(records[x], s) \in allowed[x] => n = NoRec \/ Rec(n.body, s) \in outcomes
  PROVE  PromiseInv'
  <1>1. /\ phase = "up" /\ pc = "idle" /\ op \in Operations
        /\ UNCHANGED <<records, position, mapped, blob, slots, flushed, stray, phase, scenario, misnumbered>>
    BY DEF Idle, LogEntry, memory, file, life, bounds
  <1>2. \/ /\ log' = Append(log, entry) /\ allowed' = [allowed EXCEPT ![x] = @ \cup outcomes]
           /\ (pc' = op /\ cur' = [id |-> x, v |-> v]) \/ (pc' = "idle" /\ cur' = cur)
        \/ log' = Append(log, Junk(entry)) /\ allowed' = allowed /\ pc' = "idle" /\ cur' = cur
    BY <1>1 DEF LogEntry
  <1>3. /\ slots \in Seq(Slots) /\ log \in Seq(Entries) /\ blob \in [Ids -> Stored]
        /\ allowed \in [Ids -> SUBSET Stored] /\ Single(slots, stray) /\ (PowerLoss => Same(slots, flushed))
        /\ PowerLoss => {"replace", "delete"} \cap Operations = {}
    BY PromiseFacts
  <1>4. PowerLoss' = PowerLoss /\ Numbered' = Numbered
    BY <1>1, <1>2 DEF PowerLoss, Numbered
  <1>5. op # "insert" => ~PowerLoss
    BY <1>1, <1>3
  <1>6. Junk(entry) \in Entries /\ Junk(entry).kind = "junk"
    BY JunkEntry
  <1>7. \A y \in Ids : y # x \/ log' = Append(log, Junk(entry)) =>
          /\ Mentions(log', y) <=> Mentions(log, y)
          /\ Fold(blob, log')[y] = Fold(blob, log)[y]
    <2>1. \A y \in Ids : /\ Mentions(Append(log, Junk(entry)), y) <=> Mentions(log, y)
                         /\ Fold(blob, Append(log, Junk(entry)))[y] = Fold(blob, log)[y]
      BY <1>3, <1>6, FoldOther
    <2>2. \A y \in Ids : y # x => /\ Mentions(Append(log, entry), y) <=> Mentions(log, y)
                                  /\ Fold(blob, Append(log, entry))[y] = Fold(blob, log)[y]
      BY <1>3, FoldOther
    <2>. QED
      BY <1>2, <2>1, <2>2
  <1>8. log' = Append(log, entry) => Mentions(log', x) /\ Fold(blob, log')[x] = n
    BY <1>3, FoldEntry
  <1>9. allowed' \in [Ids -> SUBSET Stored]
    BY <1>2, <1>3
  <1>10. Tidy'
    BY <1>1, <1>2, <1>3, <1>4, <1>5 DEF Tidy
  <1>11. BlobAndLog'
    <2>1. ASSUME NEW y \in Ids, ~Mentions(log', y) PROVE blob[y].body = records[y]
      <3>1. ~Mentions(log, y)
        BY <1>2, <1>7, <1>8, <2>1
      <3>. QED
        BY <1>1, <3>1 DEF PromiseInv, BlobAndLog
    <2>2. ASSUME pc' # "idle"
          PROVE  /\ pc' = op /\ cur'.id = x /\ cur'.v = v /\ Fold(blob, log')[x] = n /\ Mentions(log', x)
      BY <1>2, <1>8, <2>2
    <2>. QED
      BY <1>1, <2>1, <2>2 DEF BlobAndLog
  <1>12. ASSUME NEW y \in Ids
         PROVE  Assured(y, records[y], Fold(blob, log')[y], allowed'[y], position[y], slots, flushed, stray,
                        Numbered, PowerLoss)
    <2>1. /\ Assured(y, records[y], Fold(blob, log)[y], allowed[y], position[y], slots, flushed, stray, Numbered, PowerLoss)
          /\ position[y] = 0 <=> records[y] = 0
      BY <1>1, PromiseOf DEF Opened
    <2>2. CASE y # x \/ log' = Append(log, Junk(entry))
      <3>1. CASE y # x
        <4>1. allowed'[y] = allowed[y]
          BY <1>2, <1>3, <3>1
        <4>. QED
          BY <1>7, <2>1, <3>1, <4>1
      <3>2. CASE y = x /\ allowed' = allowed
        BY <1>7, <2>1, <2>2, <3>2
      <3>3. CASE y = x /\ allowed' # allowed
        <4>1. log' = Append(log, entry) /\ log' = Append(log, Junk(entry))
          BY <1>2, <2>2, <3>3
        <4>2. Mentions(log', x) /\ Fold(blob, log')[x] = n /\ Fold(blob, log)[x] = n
          BY <1>7, <1>8, <4>1
        <4>3. allowed'[x] = allowed[x] \cup outcomes
          BY <1>2, <1>3, <3>3
        <4>4. position[x] # 0 => ~PowerLoss
          BY <1>5, <2>1, <3>3
        <4>5. position[x] # 0 => \A s : Rec(records[x], s) \in allowed[x] => n = NoRec \/ Rec(n.body, s) \in allowed'[x]
          BY <2>1, <3>3, <4>3
        <4>. QED
          BY <2>1, <3>3, <4>2, <4>3, <4>4, <4>5, AssuredLogged
      <3>. QED
        BY <3>1, <3>2, <3>3
    <2>3. CASE y = x /\ log' = Append(log, entry) /\ log' # Append(log, Junk(entry))
      <3>1. allowed'[x] = allowed[x] \cup outcomes /\ Fold(blob, log')[x] = n
        BY <1>2, <1>3, <1>8, <2>3
      <3>2. position[x] # 0 => ~PowerLoss
        BY <1>5, <2>1, <2>3
      <3>3. position[x] # 0 => \A s : Rec(records[x], s) \in allowed[x] => n = NoRec \/ Rec(n.body, s) \in allowed'[x]
        BY <2>1, <2>3, <3>1
      <3>. QED
        BY <2>1, <2>3, <3>1, <3>2, <3>3, AssuredLogged
    <2>. QED
      BY <1>2, <2>2, <2>3
  <1>13. \A y \in Ids : Assured(y, records'[y], Fold(blob', log')[y], allowed'[y], position'[y], slots', flushed',
                                stray', Numbered', PowerLoss')
    BY <1>1, <1>4, <1>12
  <1>14. phase' = "up"
    BY <1>1
  <1>. QED
    BY <1>9, <1>10, <1>11, <1>13, <1>14, UpKept

LEMMA InsertKept ==
  ASSUME AllSafe, StoreInv, PromiseInv, NEW x \in Ids, Insert(x)
  PROVE  PromiseInv'
  <1>1. PICK v \in 1 .. MaxVersion : v = version + 1
    BY NextVersion DEF Insert
  <1>2. PICK e \in Entries : e = Item(x, v)
    BY DEF Item, Entries
  <1>3. e.id = x /\ e.kind = "item" /\ e.body = v
    BY <1>2 DEF Item
  <1>4. Rec(v, v) \in Stored
    BY DEF Rec, Stored
  <1>5. Idle("insert") /\ records[x] = 0 /\ LogEntry("insert", x, v, e, {Rec(v, v)})
    BY <1>1, <1>2 DEF Insert
  <1>. QED
    BY <1>3, <1>4, <1>5, LogKept

LEMMA ReplaceKept ==
  ASSUME AllSafe, StoreInv, PromiseInv, NEW x \in Ids, Replace(x)
  PROVE  PromiseInv'
  <1>1. PICK v \in 1 .. MaxVersion : v = version + 1
    BY NextVersion DEF Replace
  <1>2. PICK e \in Entries : e = Item(x, v)
    BY DEF Item, Entries
  <1>3. e.id = x /\ e.kind = "item" /\ e.body = v
    BY <1>2 DEF Item
  <1>. DEFINE R == {Rec(v, v)} \cup {Rec(v, r.scan) : r \in allowed[x] \ {NoRec}}
  <1>4. R \in SUBSET Stored /\ Rec(v, v) \in R
    <2>1. Rec(v, v) \in Stored
      BY DEF Rec, Stored
    <2>2. allowed[x] \in SUBSET Stored
      BY PromiseFacts
    <2>3. \A r \in allowed[x] \ {NoRec} : Rec(v, r.scan) \in Stored
      BY <2>2 DEF Rec, Stored
    <2>. QED
      BY <2>1, <2>3
  <1>5. \A s : Rec(records[x], s) \in allowed[x] /\ records[x] # 0 => Rec(Rec(v, v).body, s) \in R
    <2>. SUFFICES ASSUME NEW s, Rec(records[x], s) \in allowed[x], records[x] # 0 PROVE Rec(v, s) \in R
      BY DEF Rec
    <2>1. Rec(records[x], s).scan = s /\ Rec(records[x], s) # NoRec
      BY DEF Rec, NoRec
    <2>. QED
      BY <2>1
  <1>6. Idle("replace") /\ records[x] # 0 /\ LogEntry("replace", x, v, e, R)
    BY <1>1, <1>2 DEF Replace
  <1>. HIDE DEF R
  <1>. QED
    BY <1>3, <1>4, <1>5, <1>6, LogKept

LEMMA DeleteKept ==
  ASSUME AllSafe, StoreInv, PromiseInv, NEW x \in Ids, Delete(x)
  PROVE  PromiseInv'
  <1>1. PICK v \in 1 .. MaxVersion : v = version
    BY DEF StoreInv, Types
  <1>2. PICK e \in Entries : e = Tombstone(x)
    BY DEF Tombstone, Entries
  <1>3. e.id = x /\ e.kind = "tombstone"
    BY <1>2 DEF Tombstone
  <1>4. NoRec \in Stored
    BY DEF Stored
  <1>5. Idle("delete") /\ records[x] # 0 /\ LogEntry("delete", x, v, e, {NoRec})
    BY <1>1, <1>2 DEF Delete
  <1>. QED
    BY <1>3, <1>4, <1>5, LogKept

------------------------------------------------------------------------------
(* ... a slot appended                                                     *)

\* It changes nothing for the ids whose slots can be relied on, but its own.
LEMMA SlotsBehind ==
  ASSUME NEW s \in Seq(Slots), NEW e \in Slots, NEW f \in Seq(Slots), NEW D, NEW E, D \subseteq E, NEW x,
         e.committed => e.id \in E \/ e.id = x, Single(s, D), x \notin E => CommittedIn(s, x) = {}
  PROVE  /\ Single(Append(s, e), E) /\ (Same(s, f) => Same(Append(s, e), f))
         /\ \A p \in DOMAIN s : p \in DOMAIN Append(s, e) /\ Append(s, e)[p] = s[p]
         /\ \A y \in Ids : y \notin E /\ y # x => CommittedIn(Append(s, e), y) = CommittedIn(s, y)
  <1>1. PICK t \in Seq(Slots) : t = Append(s, e) /\ Len(t) = Len(s) + 1 /\ Len(s) \in Nat
    BY SlotAppended
  <1>2. \A y \in Ids : CommittedIn(t, y) = CommittedIn(s, y) \cup (IF e.id = y /\ e.committed THEN {Len(t)} ELSE {})
    BY <1>1, SlotAppended
  <1>3. \A y \in Ids : y \notin E /\ y # x => CommittedIn(t, y) = CommittedIn(s, y)
    BY <1>2
  <1>4. Single(t, E)
    <2>. SUFFICES ASSUME NEW y \in Ids, y \notin E PROVE \A p, q \in CommittedIn(t, y) : p = q
      BY DEF Single
    <2>1. CASE y # x
      BY <1>3, <2>1 DEF Single
    <2>2. CASE y = x
      <3>1. CommittedIn(s, y) = {}
        BY <2>2
      <3>2. CommittedIn(t, y) \subseteq {Len(t)}
        BY <1>2, <3>1
      <3>. QED
        BY <3>2
    <2>. QED
      BY <2>1, <2>2
  <1>5. \A p \in DOMAIN s : p \in DOMAIN t /\ t[p] = s[p]
    BY <1>1
  <1>6. ASSUME Same(s, f) PROVE Same(t, f)
    <2>1. Len(f) \in Nat /\ Len(f) <= Len(s) /\ DOMAIN f = 1 .. Len(f) /\ DOMAIN s = 1 .. Len(s)
      BY <1>6 DEF Same
    <2>2. Len(f) <= Len(t)
      BY <1>1, <2>1
    <2>3. \A p \in DOMAIN f : p \in DOMAIN s
      BY <1>1, <2>1
    <2>. QED
      BY <1>5, <1>6, <2>2, <2>3 DEF Same
  <1>. QED
    BY <1>1, <1>3, <1>4, <1>5, <1>6

\* So the promises of the others are carried over it.
LEMMA AssuredBehind ==
  ASSUME NEW s \in Seq(Slots), NEW e \in Slots, NEW f \in Seq(Slots), NEW D, NEW E, D \subseteq E, NEW x,
         e.committed => e.id \in E \/ e.id = x, Single(s, D), x \notin E => CommittedIn(s, x) = {},
         NEW y \in Ids, y # x \/ x \in E, NEW r, NEW m, NEW A, NEW p, NEW num, NEW loss,
         Assured(y, r, m, A, p, s, f, D, num, loss)
  PROVE  Assured(y, r, m, A, p, Append(s, e), f, E, num, loss)
  <1>1. PICK t : t = Append(s, e)
    OBVIOUS
  <1>a. \A q \in DOMAIN s : q \in DOMAIN Append(s, e) /\ Append(s, e)[q] = s[q]
    BY SlotsBehind
  <1>b. ASSUME y \notin E, y # x PROVE CommittedIn(Append(s, e), y) = CommittedIn(s, y)
    <2>1. ~(e.id = y /\ e.committed)
      BY <1>b
    <2>2. CommittedIn(Append(s, e), y) = CommittedIn(s, y) \cup (IF e.id = y /\ e.committed THEN {Len(Append(s, e))} ELSE {})
      BY SlotAppended
    <2>. QED
      BY <2>1, <2>2
  <1>2. /\ \A q \in DOMAIN s : q \in DOMAIN t /\ t[q] = s[q]
        /\ y \notin E => CommittedIn(t, y) = CommittedIn(s, y)
    BY <1>1, <1>a, <1>b
  <1>3. p # 0 /\ num => p \in DOMAIN t /\ t[p] = s[p]
    BY <1>2 DEF Assured
  <1>4. y \notin E => /\ CommittedIn(t, y) = CommittedIn(s, y)
                      /\ \A q \in CommittedIn(s, y) : q \in DOMAIN t /\ t[q] = s[q]
    BY <1>2 DEF CommittedIn
  <1>5. Assured(y, r, m, A, p, t, f, E, num, loss)
    BY <1>3, <1>4, AssuredCarried
  <1>. QED
    BY <1>1, <1>5

\* And the one appended is its record's.
LEMMA AssuredLast ==
  ASSUME NEW s \in Seq(Slots), NEW e \in Slots, NEW f \in Seq(Slots), NEW E, NEW x \in Ids,
         x \notin E => CommittedIn(s, x) = {} /\ e.id = x /\ e.committed,
         NEW r, NEW m, NEW A, NEW num, NEW loss \in BOOLEAN, loss => Same(s, f),
         r \in Bodies(A), m.body \in Bodies(A), Good(r, m, A, e.val), x \notin E => m \in A
  PROVE  Assured(x, r, m, A, Len(Append(s, e)), Append(s, e), f, E, num, loss)
  <1>1. PICK t \in Seq(Slots) : t = Append(s, e) /\ Len(t) = Len(s) + 1 /\ Len(s) \in Nat /\ t[Len(t)] = e
    BY SlotAppended
  <1>2. CommittedIn(t, x) = CommittedIn(s, x) \cup (IF e.id = x /\ e.committed THEN {Len(t)} ELSE {})
    BY <1>1, SlotAppended
  <1>3. PICK p \in DOMAIN t : p = Len(t) /\ p # 0
    BY <1>1
  <1>4. loss => p \notin DOMAIN f
    <2>1. loss => Len(f) <= Len(s) /\ DOMAIN f = 1 .. Len(f) /\ Len(f) \in Nat
      BY DEF Same
    <2>. QED
      BY <1>1, <1>3, <2>1
  <1>5. Good(r, m, A, t[p].val)
    BY <1>1, <1>3
  <1>6. x \notin E => Firm(r, m, A, t, f, p, loss)
    BY <1>4, <1>5 DEF Firm
  <1>7. x \notin E => CommittedIn(t, x) = {p}
    BY <1>2, <1>3
  <1>8. x \notin E => SlotIn(t, x) = p
    <2>1. x \notin E => SlotIn(t, x) \in CommittedIn(t, x)
      BY <1>7, SlotInFacts
    <2>. QED
      BY <1>7, <2>1
  <1>9. Assured(x, r, m, A, p, t, f, E, num, loss)
    BY <1>3, <1>5, <1>6, <1>7, <1>8 DEF Assured
  <1>. QED
    BY <1>1, <1>3, <1>9

LEMMA InsertSlotKept ==
  ASSUME AllSafe, StoreInv, PromiseInv, InsertSlot
  PROVE  PromiseInv'
  <1>1. PICK x \in Ids, v \in 1 .. MaxVersion : x = cur.id /\ v = cur.v /\ records[x] = 0 /\ phase = "up" /\ pc = "insert"
    BY DEF StoreInv, Types, Stages, InsertSlot
  <1>2. PICK R : R = IF ragged THEN AnyScan({Rec(v, v)}) ELSE {Rec(v, v)}
    OBVIOUS
  <1>3. /\ AppendSlot(x, v) /\ mapped' = Len(slots') /\ position' = [position EXCEPT ![x] = Len(slots')]
        /\ records' = [records EXCEPT ![x] = v]
        /\ pc' = "idle" /\ allowed' = [allowed EXCEPT ![x] = R]
        /\ UNCHANGED <<blob, log, flushed, phase, scenario, misnumbered>>
    BY <1>1, <1>2 DEF InsertSlot, Done, life, bounds
  <1>4. /\ slots \in Seq(Slots) /\ flushed \in Seq(Slots) /\ allowed \in [Ids -> SUBSET Stored] /\ PowerLoss \in BOOLEAN
        /\ Single(slots, stray) /\ (PowerLoss => Same(slots, flushed))
        /\ Types
    BY PromiseFacts DEF StoreInv
  <1>5. PowerLoss' = PowerLoss /\ Numbered' = Numbered
    BY <1>1, <1>3 DEF PowerLoss, Numbered
  <1>6. PICK E : E = stray'
    OBVIOUS
  <1>7. /\ stray \subseteq E
        /\ ragged => x \in E
        /\ ~ragged => slots' = Append(slots, Slot(x, v))
    BY <1>3, <1>4, <1>6, Appending
  <1>8. PICK e \in Slots : /\ slots' = Append(slots, e)
                           /\ e.committed => e.id \in E \/ e.id = x
                           /\ x \notin E => e.id = x /\ e.committed
    BY <1>3, <1>4, <1>6, Appending
  <1>9. ~ragged => e.val = v
    <2>1. Append(slots, e)[Len(slots) + 1] = e /\ Append(slots, Slot(x, v))[Len(slots) + 1] = Slot(x, v)
      BY <1>4
    <2>. QED
      BY <1>7, <1>8, <2>1 DEF Slot
  <1>10. /\ Assured(x, records[x], Fold(blob, log)[x], allowed[x], position[x], slots, flushed, stray, Numbered, PowerLoss)
         /\ position[x] = 0
         /\ Fold(blob, log)[x] = Rec(v, v) /\ Mentions(log, x)
    <2>1. Fold(blob, log)[x] = Rec(v, v) /\ Mentions(log, x)
      BY <1>1 DEF PromiseInv, BlobAndLog
    <2>. QED
      BY <1>1, <2>1, PromiseOf DEF Opened
  <1>11. x \notin E => CommittedIn(slots, x) = {}
    BY <1>7, <1>10 DEF Assured
  <1>12. /\ R \in SUBSET Stored /\ Rec(v, v) \in R /\ v \in Bodies(R)
         /\ Rec(v, e.val) \in R
    <2>1. Rec(v, v) \in Stored /\ {Rec(v, v)} \in SUBSET Stored /\ Rec(v, v).body = v /\ v # 0
      BY DEF Rec, Stored
    <2>2. AnyScan({Rec(v, v)}) \in SUBSET Stored /\ Rec(v, v) \in AnyScan({Rec(v, v)})
      BY <2>1, ScanFacts
    <2>3. e.val \in 1 .. MaxVersion
      BY DEF Slots
    <2>4. v \in Bodies({Rec(v, v)})
      BY <2>1 DEF Bodies
    <2>5. Rec(v, e.val) \in AnyScan({Rec(v, v)})
      BY <2>1, <2>3, <2>4, ScanFacts
    <2>6. R \in SUBSET Stored /\ Rec(v, v) \in R /\ Rec(v, e.val) \in R
      BY <1>2, <1>9, <2>1, <2>2, <2>5
    <2>. QED
      BY <2>1, <2>6 DEF Bodies
  <1>13. allowed' \in [Ids -> SUBSET Stored]
    BY <1>3, <1>4, <1>12
  <1>14. Single(slots', stray') /\ (PowerLoss => Same(slots', flushed))
    BY <1>4, <1>6, <1>7, <1>8, <1>11, SlotsBehind
  <1>15. Tidy'
    BY <1>1, <1>3, <1>5, <1>14 DEF Tidy
  <1>16. BlobAndLog'
    <2>1. \A y \in Ids : ~Mentions(log, y) => blob[y].body = records'[y]
      <3>1. \A y \in Ids : ~Mentions(log, y) => blob[y].body = records[y] /\ y # x
        BY <1>1, <1>10 DEF PromiseInv, BlobAndLog
      <3>. QED
        BY <1>3, <1>4, <3>1 DEF Types
    <2>. QED
      BY <1>1, <1>3, <2>1 DEF BlobAndLog
  <1>17. ASSUME NEW y \in Ids
         PROVE  Assured(y, records'[y], Fold(blob, log)[y], allowed'[y], position'[y], slots', flushed, E,
                        Numbered, PowerLoss)
    <2>1. CASE y # x
      <3>1. records'[y] = records[y] /\ allowed'[y] = allowed[y] /\ position'[y] = position[y]
        BY <1>3, <1>4, <2>1 DEF Types
      <3>2. Assured(y, records[y], Fold(blob, log)[y], allowed[y], position[y], slots, flushed, stray, Numbered, PowerLoss)
        BY <1>1, PromiseOf DEF Opened
      <3>3. Assured(y, records[y], Fold(blob, log)[y], allowed[y], position[y], Append(slots, e), flushed, E, Numbered, PowerLoss)
        BY <1>4, <1>7, <1>8, <1>11, <2>1, <3>2, AssuredBehind
      <3>. QED
        BY <1>8, <3>1, <3>3
    <2>2. CASE y = x
      <3>1. records'[x] = v /\ allowed'[x] = R /\ position'[x] = Len(Append(slots, e))
        BY <1>3, <1>4, <1>8 DEF Types
      <3>2. Rec(v, v).body = v /\ Good(v, Rec(v, v), R, e.val)
        BY <1>12 DEF Good, Rec
      <3>3. Assured(x, v, Rec(v, v), R, Len(Append(slots, e)), Append(slots, e), flushed, E, Numbered, PowerLoss)
        <4>1. /\ slots \in Seq(Slots) /\ flushed \in Seq(Slots) /\ PowerLoss \in BOOLEAN
              /\ PowerLoss => Same(slots, flushed)
          BY <1>4
        <4>2. x \notin E => CommittedIn(slots, x) = {} /\ e.id = x /\ e.committed
          BY <1>8, <1>11
        <4>3. v \in Bodies(R) /\ Rec(v, v).body \in Bodies(R) /\ Rec(v, v) \in R
          BY <1>12, <3>2
        <4>4. Good(v, Rec(v, v), R, e.val)
          BY <3>2
        <4>. QED
          BY <4>1, <4>2, <4>3, <4>4, AssuredLast
      <3>. QED
        BY <1>8, <1>10, <2>2, <3>1, <3>3
    <2>. QED
      BY <2>1, <2>2
  <1>. QED
    <2>1. phase' = "up"
      BY <1>1, <1>3
    <2>2. \A y \in Ids : Assured(y, records'[y], Fold(blob', log')[y], allowed'[y], position'[y], slots', flushed',
                                 stray', Numbered', PowerLoss')
      BY <1>3, <1>5, <1>6, <1>17
    <2>. QED
      BY <1>13, <1>15, <1>16, <2>1, <2>2, UpKept

\* A failed append, whatever it left.
LEMMA FailedKept ==
  ASSUME AllSafe, StoreInv, PromiseInv, NEW x \in Ids, NEW v \in 1 .. MaxVersion, AppendFails(x, v), Opened
  PROVE  /\ Single(slots', stray') /\ (PowerLoss => Same(slots', flushed))
         /\ \A y \in Ids : Assured(y, InUse(y), Fold(blob, log)[y], allowed[y], position[y], slots', flushed, stray',
                                   Numbered, PowerLoss)
  <1>1. /\ slots \in Seq(Slots) /\ flushed \in Seq(Slots) /\ PowerLoss \in BOOLEAN
        /\ Single(slots, stray) /\ (PowerLoss => Same(slots, flushed))
        /\ Types
    BY PromiseFacts DEF StoreInv
  <1>2. PICK E : E = stray'
    OBVIOUS
  <1>3. /\ stray \subseteq E
        /\ \/ slots' = slots
           \/ x \in E /\ \E e \in Slots : slots' = Append(slots, e) /\ (e.committed => e.id \in E)
    BY <1>1, <1>2, FailedAppend
  <1>4. \A y \in Ids : Assured(y, InUse(y), Fold(blob, log)[y], allowed[y], position[y], slots, flushed, stray, Numbered, PowerLoss)
    BY PromiseOf
  <1>5. CASE slots' = slots
    <2>1. Single(slots, E)
      BY <1>1, <1>3 DEF Single
    <2>2. \A y \in Ids : Assured(y, InUse(y), Fold(blob, log)[y], allowed[y], position[y], slots, flushed, E, Numbered, PowerLoss)
      <3>. SUFFICES ASSUME NEW y \in Ids
                    PROVE  Assured(y, InUse(y), Fold(blob, log)[y], allowed[y], position[y], slots, flushed, E, Numbered, PowerLoss)
        OBVIOUS
      <3>1. position[y] # 0 /\ Numbered => position[y] \in DOMAIN slots
        BY PromiseOf
      <3>2. \A q \in CommittedIn(slots, y) : q \in DOMAIN slots
        BY DEF CommittedIn
      <3>. QED
        BY <1>1, <1>3, <1>4, <3>1, <3>2, AssuredCarried
    <2>. QED
      BY <1>1, <1>2, <1>5, <2>1, <2>2
  <1>6. ASSUME NEW e \in Slots, slots' = Append(slots, e), e.committed => e.id \in E, x \in E
        PROVE  /\ Single(slots', E) /\ (PowerLoss => Same(slots', flushed))
               /\ \A y \in Ids : Assured(y, InUse(y), Fold(blob, log)[y], allowed[y], position[y], slots', flushed, E,
                                         Numbered, PowerLoss)
    <2>1. Single(slots', E) /\ (PowerLoss => Same(slots', flushed))
      BY <1>1, <1>3, <1>6, SlotsBehind
    <2>2. ASSUME NEW y \in Ids
          PROVE  Assured(y, InUse(y), Fold(blob, log)[y], allowed[y], position[y], Append(slots, e), flushed, E, Numbered, PowerLoss)
      BY <1>1, <1>3, <1>4, <1>6, AssuredBehind
    <2>. QED
      BY <1>6, <2>1, <2>2
  <1>. QED
    BY <1>2, <1>3, <1>5, <1>6

LEMMA InsertSlotFailsKept ==
  ASSUME AllSafe, StoreInv, PromiseInv, InsertSlotFails
  PROVE  PromiseInv'
  <1>1. PICK x \in Ids, v \in 1 .. MaxVersion : x = cur.id /\ v = cur.v /\ phase = "up" /\ pc = "insert"
    BY DEF StoreInv, Types, Stages, InsertSlotFails
  <1>2. /\ UNCHANGED <<records, position, mapped, blob, log, flushed, phase, scenario, misnumbered, allowed>>
        /\ AppendFails(x, v) /\ pc' = "idle"
    BY <1>1 DEF InsertSlotFails, memory, life, bounds
  <1>3. PowerLoss' = PowerLoss /\ Numbered' = Numbered /\ \A y \in Ids : InUse(y) = records[y]
    BY <1>1, <1>2 DEF PowerLoss, Numbered, InUse
  <1>4. /\ Single(slots', stray') /\ (PowerLoss => Same(slots', flushed))
        /\ \A y \in Ids : Assured(y, records[y], Fold(blob, log)[y], allowed[y], position[y], slots', flushed, stray',
                                  Numbered, PowerLoss)
    BY <1>1, <1>2, <1>3, FailedKept DEF Opened
  <1>5. Tidy'
    BY <1>1, <1>2, <1>3, <1>4 DEF Tidy
  <1>6. BlobAndLog' /\ allowed' \in [Ids -> SUBSET Stored]
    BY <1>1, <1>2, PromiseFacts DEF PromiseInv, BlobAndLog
  <1>. QED
    <2>1. phase' = "up"
      BY <1>1, <1>2
    <2>2. \A y \in Ids : Assured(y, records'[y], Fold(blob', log')[y], allowed'[y], position'[y], slots', flushed',
                                 stray', Numbered', PowerLoss')
      BY <1>2, <1>3, <1>4
    <2>. QED
      BY <1>5, <1>6, <2>1, <2>2, UpKept

------------------------------------------------------------------------------
(* ... a slot written                                                      *)

\* A record's position is nobody else's slot.
LEMMA OwnSlot ==
  ASSUME StoreInv, PromiseInv, phase = "up", Numbered, NEW x \in Ids, NEW y \in Ids, y # x, position[x] # 0, y \notin stray
  PROVE  position[x] \notin CommittedIn(slots, y)
  <1>1. position[x] # position[y]
    BY PromiseOf DEF Opened
  <1>2. CASE position[y] = 0
    <2>1. Assured(y, records[y], Fold(blob, log)[y], allowed[y], position[y], slots, flushed, stray, Numbered, PowerLoss)
      BY PromiseOf DEF Opened
    <2>. QED
      BY <1>2, <2>1 DEF Assured
  <1>3. CASE position[y] # 0
    <2>1. position[y] \in CommittedIn(slots, y)
      BY <1>3, PromiseOf DEF Opened
    <2>2. \A p, q \in CommittedIn(slots, y) : p = q
      BY DEF PromiseInv, Tidy, Single
    <2>. QED
      BY <1>1, <2>1, <2>2
  <1>. QED
    BY <1>2, <1>3

\* So writing there leaves the others their promises.
LEMMA WriteOthers ==
  ASSUME AllSafe, StoreInv, PromiseInv, phase = "up", pc # "compact_log", NEW x \in Ids, Mapped(x), NEW e \in Slots,
         WriteSlot(x, e), e.id = slots[position[x]].id, e.committed => slots[position[x]].committed
  PROVE  /\ position[x] \in DOMAIN slots /\ position[x] # 0
         /\ slots' = [slots EXCEPT ![position[x]] = e] /\ slots'[position[x]] = e
         /\ DOMAIN slots' = DOMAIN slots /\ Len(slots') = Len(slots)
         /\ \A q \in DOMAIN slots : q # position[x] => slots'[q] = slots[q]
         /\ stray \subseteq stray' /\ (~Numbered => x \in stray')
         /\ Single(slots', stray')
         /\ \A y \in Ids : CommittedIn(slots', y) \subseteq CommittedIn(slots, y)
         /\ \A y \in Ids : y # x => Assured(y, records[y], Fold(blob, log)[y], allowed[y], position[y], slots', flushed, stray',
                                            Numbered, PowerLoss)
  <1>1. Types /\ slots \in Seq(Slots) /\ Single(slots, stray) /\ DOMAIN slots = 1 .. Len(slots) /\ Len(slots) \in Nat
    BY PromiseFacts DEF StoreInv
  <1>2. PICK p \in DOMAIN slots : p = position[x] /\ p # 0 /\ slots' = [slots EXCEPT ![p] = e]
    BY <1>1, Writing
  <1>3. PICK t \in Seq(Slots) : t = slots' /\ DOMAIN t = DOMAIN slots /\ Len(t) = Len(slots)
    <2>1. PICK n \in Nat : n = Len(slots)
      BY <1>1
    <2>2. PICK s \in [1 .. n -> Slots] : s = slots
      BY <1>1, <2>1
    <2>3. p \in 1 .. n /\ [s EXCEPT ![p] = e] \in [1 .. n -> Slots]
      BY <1>1, <2>1
    <2>4. PICK t : t = slots' /\ t \in [1 .. n -> Slots]
      BY <1>2, <2>2, <2>3
    <2>5. t \in Seq(Slots) /\ Len(t) = n
      BY <2>4
    <2>. QED
      BY <1>1, <2>1, <2>4, <2>5
  <1>4. t[p] = e /\ \A q \in DOMAIN slots : q # p => t[q] = slots[q]
    BY <1>1, <1>2, <1>3
  <1>5. PICK E : E = stray' /\ stray \subseteq E
    BY <1>1, Writing
  <1>6. misnumbered => x \in E /\ slots[p].id \in E
    BY <1>2, <1>5 DEF WriteSlot
  <1>7. Numbered <=> ~misnumbered
    BY DEF Numbered
  <1>8. \A y \in Ids : CommittedIn(t, y) \subseteq CommittedIn(slots, y)
    BY <1>2, <1>3, <1>4 DEF CommittedIn
  <1>9. Single(t, E)
    BY <1>1, <1>5, <1>8 DEF Single
  <1>10. ASSUME NEW y \in Ids, y # x
         PROVE  Assured(y, records[y], Fold(blob, log)[y], allowed[y], position[y], t, flushed, E, Numbered, PowerLoss)
    <2>1. Assured(y, records[y], Fold(blob, log)[y], allowed[y], position[y], slots, flushed, stray, Numbered, PowerLoss)
      BY PromiseOf DEF Opened
    <2>2. position[y] # 0 /\ Numbered => position[y] \in DOMAIN t /\ t[position[y]] = slots[position[y]]
      <3>1. position[y] # 0 /\ Numbered => position[y] \in DOMAIN slots /\ position[y] # p
        BY <1>2, <1>10, PromiseOf DEF Opened
      <3>. QED
        BY <1>3, <1>4, <3>1
    <2>3. y \notin E => p \notin CommittedIn(slots, y)
      <3>1. Numbered /\ y \notin E => p \notin CommittedIn(slots, y)
        BY <1>2, <1>5, <1>10, OwnSlot
      <3>2. ~Numbered /\ y \notin E => p \notin CommittedIn(slots, y)
        BY <1>6, <1>7 DEF CommittedIn
      <3>. QED
        BY <3>1, <3>2
    <2>4. y \notin E => /\ CommittedIn(t, y) = CommittedIn(slots, y)
                        /\ \A q \in CommittedIn(slots, y) : q \in DOMAIN t /\ t[q] = slots[q]
      <3>1. \A q \in CommittedIn(slots, y) : q # p => q \in DOMAIN t /\ t[q] = slots[q] /\ q \in CommittedIn(t, y)
        BY <1>3, <1>4 DEF CommittedIn
      <3>. QED
        BY <1>8, <2>3, <3>1
    <2>. QED
      BY <1>1, <1>5, <2>1, <2>2, <2>4, AssuredCarried
  <1>. QED
    BY <1>2, <1>3, <1>4, <1>5, <1>6, <1>7, <1>8, <1>9, <1>10

LEMMA ReplaceSlotKept ==
  ASSUME AllSafe, StoreInv, PromiseInv, ReplaceSlot
  PROVE  PromiseInv'
  <1>1. PICK x \in Ids, v \in 1 .. MaxVersion : x = cur.id /\ v = cur.v /\ phase = "up" /\ pc = "replace"
    BY DEF StoreInv, Types, Stages, ReplaceSlot
  <1>2. /\ Mapped(x) /\ WriteSlot(x, [slots[position[x]] EXCEPT !.val = v])
        /\ records' = [records EXCEPT ![x] = v] /\ position' = position /\ mapped' = mapped
        /\ pc' = "idle" /\ allowed' = [allowed EXCEPT ![x] = {Rec(v, v)}]
        /\ UNCHANGED <<blob, log, flushed, phase, scenario, misnumbered>>
    BY <1>1 DEF ReplaceSlot, Done, WriteSlot, life, bounds
  <1>3. /\ Types /\ allowed \in [Ids -> SUBSET Stored] /\ DOMAIN slots = 1 .. Len(slots) /\ slots \in Seq(Slots)
    BY PromiseFacts DEF StoreInv
  <1>4. ~PowerLoss /\ PowerLoss' = PowerLoss /\ Numbered' = Numbered
    BY <1>1, <1>2 DEF PromiseInv, Tidy, PowerLoss, Numbered
  <1>5. PICK e \in Slots : e = [slots[position[x]] EXCEPT !.val = v] /\ e.id = slots[position[x]].id
                           /\ (e.committed <=> slots[position[x]].committed) /\ e.val = v
    <2>1. position[x] \in DOMAIN slots
      BY <1>2, <1>3, Writing
    <2>2. PICK g \in Slots : g = slots[position[x]]
      BY <1>3, <2>1
    <2>3. /\ [g EXCEPT !.val = v] \in Slots
          /\ [g EXCEPT !.val = v].id = g.id /\ [g EXCEPT !.val = v].committed = g.committed
          /\ [g EXCEPT !.val = v].val = v
      BY DEF Slots
    <2>. QED
      BY <2>2, <2>3
  <1>6. PICK E : E = stray'
    OBVIOUS
  <1>7. /\ position[x] \in DOMAIN slots' /\ position[x] # 0 /\ slots'[position[x]] = e
        /\ Single(slots', E) /\ (~Numbered => x \in E)
        /\ \A y \in Ids : y # x => Assured(y, records[y], Fold(blob, log)[y], allowed[y], position[y], slots', flushed, E,
                                           Numbered, PowerLoss)
    BY <1>1, <1>2, <1>5, <1>6, WriteOthers
  <1>8. Fold(blob, log)[x] = Rec(v, v) /\ Mentions(log, x)
    BY <1>1 DEF PromiseInv, BlobAndLog
  <1>9. Rec(v, v) \in Stored /\ Rec(v, v).body = v
    BY DEF Rec, Stored
  <1>10. allowed' \in [Ids -> SUBSET Stored]
    BY <1>2, <1>3, <1>9
  <1>11. Tidy'
    BY <1>1, <1>2, <1>4, <1>6, <1>7 DEF Tidy
  <1>12. BlobAndLog'
    <2>1. \A y \in Ids : ~Mentions(log, y) => blob[y].body = records'[y]
      <3>1. \A y \in Ids : ~Mentions(log, y) => blob[y].body = records[y] /\ y # x
        BY <1>1, <1>8 DEF PromiseInv, BlobAndLog
      <3>. QED
        BY <1>2, <1>3, <3>1 DEF Types
    <2>. QED
      BY <1>1, <1>2, <2>1 DEF BlobAndLog
  <1>13. ASSUME NEW y \in Ids
         PROVE  Assured(y, records'[y], Fold(blob, log)[y], allowed'[y], position[y], slots', flushed, E, Numbered, PowerLoss)
    <2>1. CASE y # x
      BY <1>2, <1>3, <1>7, <2>1 DEF Types
    <2>2. CASE y = x
      <3>1. records'[x] = v /\ allowed'[x] = {Rec(v, v)}
        BY <1>2, <1>3 DEF Types
      <3>2. Good(v, Rec(v, v), {Rec(v, v)}, e.val)
        BY <1>5, <1>9 DEF Good
      <3>3. Firm(v, Rec(v, v), {Rec(v, v)}, slots', flushed, position[x], PowerLoss)
        BY <1>4, <1>7, <3>2 DEF Firm
      <3>4. v \in Bodies({Rec(v, v)})
        BY <1>9 DEF Bodies
      <3>5. Assured(x, v, Rec(v, v), {Rec(v, v)}, position[x], slots', flushed, E, Numbered, PowerLoss)
        BY <1>7, <1>9, <3>2, <3>3, <3>4 DEF Assured
      <3>. QED
        BY <1>8, <2>2, <3>1, <3>5
    <2>. QED
      BY <2>1, <2>2
  <1>. QED
    <2>1. phase' = "up"
      BY <1>1, <1>2
    <2>2. \A y \in Ids : Assured(y, records'[y], Fold(blob', log')[y], allowed'[y], position'[y], slots', flushed',
                                 stray', Numbered', PowerLoss')
      BY <1>2, <1>4, <1>6, <1>13
    <2>. QED
      BY <1>10, <1>11, <1>12, <2>1, <2>2, UpKept

LEMMA DeleteSlotKept ==
  ASSUME AllSafe, StoreInv, PromiseInv, DeleteSlot
  PROVE  PromiseInv'
  <1>1. PICK x \in Ids : x = cur.id /\ phase = "up" /\ pc = "delete"
    BY DEF StoreInv, Types, Stages, DeleteSlot
  <1>2. /\ Mapped(x) /\ WriteSlot(x, [slots[position[x]] EXCEPT !.committed = FALSE])
        /\ records' = [records EXCEPT ![x] = 0] /\ position' = [position EXCEPT ![x] = 0] /\ mapped' = mapped
        /\ pc' = "idle" /\ allowed' = [allowed EXCEPT ![x] = {NoRec}]
        /\ UNCHANGED <<blob, log, flushed, phase, scenario, misnumbered>>
    BY <1>1 DEF DeleteSlot, Done, WriteSlot, life, bounds
  <1>3. /\ Types /\ allowed \in [Ids -> SUBSET Stored] /\ DOMAIN slots = 1 .. Len(slots) /\ slots \in Seq(Slots)
        /\ Single(slots, stray)
    BY PromiseFacts DEF StoreInv
  <1>4. ~PowerLoss /\ PowerLoss' = PowerLoss /\ Numbered' = Numbered
    BY <1>1, <1>2 DEF PromiseInv, Tidy, PowerLoss, Numbered
  <1>5. PICK e \in Slots : e = [slots[position[x]] EXCEPT !.committed = FALSE] /\ e.id = slots[position[x]].id
                           /\ ~e.committed
    <2>1. position[x] \in DOMAIN slots
      BY <1>2, <1>3, Writing
    <2>2. PICK g \in Slots : g = slots[position[x]]
      BY <1>3, <2>1
    <2>3. /\ [g EXCEPT !.committed = FALSE] \in Slots
          /\ [g EXCEPT !.committed = FALSE].id = g.id /\ ~[g EXCEPT !.committed = FALSE].committed
      BY DEF Slots
    <2>. QED
      BY <2>2, <2>3
  <1>6. PICK E : E = stray'
    OBVIOUS
  <1>7. /\ position[x] \in DOMAIN slots' /\ position[x] # 0 /\ slots'[position[x]] = e
        /\ Single(slots', E) /\ stray \subseteq E /\ (~Numbered => x \in E)
        /\ CommittedIn(slots', x) \subseteq CommittedIn(slots, x)
        /\ \A y \in Ids : y # x => Assured(y, records[y], Fold(blob, log)[y], allowed[y], position[y], slots', flushed, E,
                                           Numbered, PowerLoss)
    BY <1>1, <1>2, <1>5, <1>6, WriteOthers
  <1>8. Fold(blob, log)[x] = NoRec /\ Mentions(log, x)
    BY <1>1 DEF PromiseInv, BlobAndLog
  <1>9. NoRec \in Stored /\ NoRec.body = 0
    BY DEF NoRec, Stored
  <1>10. allowed' \in [Ids -> SUBSET Stored]
    BY <1>2, <1>3, <1>9
  <1>11. Tidy'
    BY <1>1, <1>2, <1>4, <1>6, <1>7 DEF Tidy
  <1>12. BlobAndLog'
    <2>1. \A y \in Ids : ~Mentions(log, y) => blob[y].body = records'[y]
      <3>1. \A y \in Ids : ~Mentions(log, y) => blob[y].body = records[y] /\ y # x
        BY <1>1, <1>8 DEF PromiseInv, BlobAndLog
      <3>. QED
        BY <1>2, <1>3, <3>1 DEF Types
    <2>. QED
      BY <1>1, <1>2, <2>1 DEF BlobAndLog
  <1>13. x \notin E => CommittedIn(slots', x) = {}
    <2>. SUFFICES ASSUME x \notin E PROVE CommittedIn(slots', x) = {}
      OBVIOUS
    <2>1. position[x] \in CommittedIn(slots, x)
      BY <1>1, <1>7, PromiseOf DEF Opened
    <2>2. \A q \in CommittedIn(slots, x) : q = position[x]
      BY <1>3, <1>7, <2>1 DEF Single
    <2>3. position[x] \notin CommittedIn(slots', x)
      BY <1>5, <1>7 DEF CommittedIn
    <2>. QED
      BY <1>7, <2>2, <2>3
  <1>14. ASSUME NEW y \in Ids
         PROVE  Assured(y, records'[y], Fold(blob, log)[y], allowed'[y], position'[y], slots', flushed, E, Numbered, PowerLoss)
    <2>1. CASE y # x
      BY <1>2, <1>3, <1>7, <2>1 DEF Types
    <2>2. CASE y = x
      <3>1. records'[x] = 0 /\ allowed'[x] = {NoRec} /\ position'[x] = 0
        BY <1>2, <1>3 DEF Types
      <3>2. 0 \in Bodies({NoRec})
        BY <1>9 DEF Bodies
      <3>3. Assured(x, 0, NoRec, {NoRec}, 0, slots', flushed, E, Numbered, PowerLoss)
        BY <1>9, <1>13, <3>2 DEF Assured
      <3>. QED
        BY <1>8, <2>2, <3>1, <3>3
    <2>. QED
      BY <2>1, <2>2
  <1>. QED
    <2>1. phase' = "up"
      BY <1>1, <1>2
    <2>2. \A y \in Ids : Assured(y, records'[y], Fold(blob', log')[y], allowed'[y], position'[y], slots', flushed',
                                 stray', Numbered', PowerLoss')
      BY <1>2, <1>4, <1>6, <1>14
    <2>. QED
      BY <1>10, <1>11, <1>12, <2>1, <2>2, UpKept

LEMMA UpdateKept ==
  ASSUME AllSafe, StoreInv, PromiseInv, NEW x \in Ids, Update(x)
  PROVE  PromiseInv'
  <1>1. PICK v \in 1 .. MaxVersion : v = version + 1
    BY NextVersion DEF Update
  <1>. DEFINE A == allowed[x]
              B == IF PowerLoss THEN A \cup WithScan(A, v) ELSE WithScan(A, v)
              m == Fold(blob, log)[x]
  <1>2. /\ phase = "up" /\ pc = "idle" /\ records[x] # 0 /\ Mapped(x) /\ mapped' = mapped
        /\ WriteSlot(x, [slots[position[x]] EXCEPT !.val = v])
        /\ allowed' = [allowed EXCEPT ![x] = B]
        /\ UNCHANGED <<records, position, blob, log, flushed, phase, scenario, misnumbered, pc, cur>>
    BY <1>1 DEF Update, Idle, WriteSlot, memory, life, bounds
  <1>3. /\ Types /\ allowed \in [Ids -> SUBSET Stored] /\ DOMAIN slots = 1 .. Len(slots) /\ slots \in Seq(Slots)
        /\ A \in SUBSET Stored /\ m \in Stored /\ flushed \in Seq(Slots) /\ (PowerLoss => Same(slots, flushed))
    BY PromiseFacts DEF StoreInv
  <1>4. PowerLoss' = PowerLoss /\ Numbered' = Numbered
    BY <1>2 DEF PowerLoss, Numbered
  <1>5. PICK e \in Slots : e = [slots[position[x]] EXCEPT !.val = v] /\ e.id = slots[position[x]].id
                           /\ e.committed = slots[position[x]].committed /\ e.val = v
    <2>1. position[x] \in DOMAIN slots
      BY <1>2, <1>3, Writing
    <2>2. PICK g \in Slots : g = slots[position[x]]
      BY <1>3, <2>1
    <2>3. /\ [g EXCEPT !.val = v] \in Slots
          /\ [g EXCEPT !.val = v].id = g.id /\ [g EXCEPT !.val = v].committed = g.committed
          /\ [g EXCEPT !.val = v].val = v
      BY DEF Slots
    <2>. QED
      BY <2>2, <2>3
  <1>6. PICK E : E = stray'
    OBVIOUS
  <1>7. /\ position[x] \in DOMAIN slots' /\ position[x] # 0 /\ slots'[position[x]] = e
        /\ DOMAIN slots' = DOMAIN slots /\ Len(slots') = Len(slots)
        /\ \A q \in DOMAIN slots : q # position[x] => slots'[q] = slots[q]
        /\ Single(slots', E) /\ stray \subseteq E /\ (~Numbered => x \in E)
        /\ \A y \in Ids : y # x => Assured(y, records[y], Fold(blob, log)[y], allowed[y], position[y], slots', flushed, E,
                                           Numbered, PowerLoss)
    BY <1>2, <1>5, <1>6, WriteOthers
  <1>8. /\ Assured(x, records[x], m, A, position[x], slots, flushed, stray, Numbered, PowerLoss)
        /\ records[x] \in Bodies(A) /\ m.body \in Bodies(A)
    BY <1>2, PromiseOf DEF Opened, Assured
  <1>9. /\ B \in SUBSET Stored /\ Bodies(A) \subseteq Bodies(B) /\ (PowerLoss => A \subseteq B)
        /\ \A b : b \in Bodies(A) /\ b # 0 => Rec(b, v) \in B
    <2>1. /\ WithScan(A, v) \in SUBSET Stored /\ Bodies(A) \subseteq Bodies(WithScan(A, v))
          /\ \A b : b \in Bodies(A) /\ b # 0 => Rec(b, v) \in WithScan(A, v)
      BY <1>3, ScanFacts
    <2>2. Bodies(WithScan(A, v)) \subseteq Bodies(A \cup WithScan(A, v))
      BY DEF Bodies
    <2>. QED
      BY <1>3, <2>1, <2>2
  <1>10. allowed' \in [Ids -> SUBSET Stored]
    BY <1>2, <1>3, <1>9
  <1>11. Tidy'
    <2>1. PowerLoss => Same(slots', flushed)
      <3>. SUFFICES ASSUME PowerLoss PROVE Same(slots', flushed)
        OBVIOUS
      <3>1. \A p \in DOMAIN flushed : p \in DOMAIN slots
        BY <1>3 DEF Same
      <3>2. \A p \in DOMAIN slots : slots'[p].id = slots[p].id /\ slots'[p].committed = slots[p].committed
        BY <1>5, <1>7
      <3>. QED
        BY <1>3, <1>7, <3>1, <3>2 DEF Same
    <2>. QED
      BY <1>2, <1>4, <1>6, <1>7, <2>1 DEF Tidy
  <1>12. BlobAndLog'
    BY <1>2 DEF PromiseInv, BlobAndLog
  <1>13. Assured(x, records[x], m, B, position[x], slots', flushed, E, Numbered, PowerLoss)
    <2>1. records[x] \in Bodies(B) /\ m.body \in Bodies(B)
      BY <1>8, <1>9
    <2>2. m # NoRec => m.body # 0
      BY <1>3 DEF Stored
    <2>3. Good(records[x], m, B, e.val)
      BY <1>2, <1>5, <1>8, <1>9, <2>2 DEF Good
    <2>4. Numbered /\ x \notin E => Firm(records[x], m, B, slots', flushed, position[x], PowerLoss)
      <3>. SUFFICES ASSUME Numbered, x \notin E, PowerLoss
                    PROVE  IF position[x] \in DOMAIN flushed THEN Good(records[x], m, B, flushed[position[x]].val) ELSE m \in B
        BY <1>7, <2>3 DEF Firm
      <3>1. IF position[x] \in DOMAIN flushed THEN Good(records[x], m, A, flushed[position[x]].val) ELSE m \in A
        BY <1>7, <1>8 DEF Assured, Firm
      <3>. QED
        BY <1>9, <3>1 DEF Good
    <2>. HIDE DEF A, B, m
    <2>. QED
      BY <1>7, <2>1, <2>3, <2>4 DEF Assured
  <1>14. ASSUME NEW y \in Ids
         PROVE  Assured(y, records[y], Fold(blob, log)[y], allowed'[y], position[y], slots', flushed, E, Numbered, PowerLoss)
    <2>1. CASE y # x
      <3>1. allowed'[y] = allowed[y]
        BY <1>2, <1>3, <2>1
      <3>. QED
        BY <1>7, <2>1, <3>1
    <2>2. CASE y = x
      <3>1. allowed'[x] = B
        BY <1>2, <1>3
      <3>. QED
        BY <1>13, <2>2, <3>1
    <2>. QED
      BY <2>1, <2>2
  <1>. QED
    <2>1. phase' = "up"
      BY <1>2
    <2>2. \A y \in Ids : Assured(y, records'[y], Fold(blob', log')[y], allowed'[y], position'[y], slots', flushed',
                                 stray', Numbered', PowerLoss')
      BY <1>2, <1>4, <1>6, <1>14
    <2>. QED
      BY <1>10, <1>11, <1>12, <2>1, <2>2, UpKept

LEMMA FlushSlotsKept ==
  ASSUME AllSafe, StoreInv, PromiseInv, FlushSlots
  PROVE  PromiseInv'
  <1>1. /\ phase = "up" /\ pc = "idle" /\ PowerLoss /\ mapped = Len(slots) /\ flushed' = slots
        /\ allowed' = [x \in Ids |-> IF misnumbered \/ x \in stray THEN allowed[x]
                              ELSE {r \in allowed[x] : r = NoRec \/ records[x] = 0 \/ r.scan = View(x).scan}]
        /\ UNCHANGED <<records, position, mapped, blob, log, slots, stray, phase, scenario, misnumbered, pc, cur>>
    BY DEF FlushSlots, Idle, memory, life, bounds
  <1>2. /\ Types /\ slots \in Seq(Slots) /\ DOMAIN slots = 1 .. Len(slots) /\ Single(slots, stray)
        /\ \A x \in Ids : allowed[x] \in SUBSET Stored /\ Fold(blob, log)[x] \in Stored
    BY PromiseFacts DEF StoreInv
  <1>3. PowerLoss' = PowerLoss /\ Numbered' = Numbered /\ (Numbered <=> ~misnumbered)
    BY <1>1 DEF PowerLoss, Numbered
  <1>4. Tidy'
    BY <1>1, <1>2, <1>3 DEF Tidy, Same
  <1>5. BlobAndLog'
    BY <1>1 DEF PromiseInv, BlobAndLog
  <1>6. \A x \in Ids : allowed'[x] \subseteq allowed[x]
    BY <1>1
  <1>7. allowed' \in [Ids -> SUBSET Stored]
    <2>1. \A x \in Ids : allowed'[x] \in SUBSET Stored
      BY <1>2, <1>6
    <2>. QED
      BY <1>1, <2>1
  <1>8. ASSUME NEW x \in Ids
        PROVE  Assured(x, records[x], Fold(blob, log)[x], allowed'[x], position[x], slots, slots, stray, Numbered, PowerLoss)
    <2>. DEFINE m == Fold(blob, log)[x]
                A == allowed[x]
                r == records[x]
                p == position[x]
    <2>1. /\ Assured(x, r, m, A, p, slots, flushed, stray, Numbered, PowerLoss)
          /\ p = 0 <=> r = 0
          /\ p # 0 /\ Numbered => p \in DOMAIN slots
      BY <1>1, PromiseOf DEF Opened
    <2>2. Assured(x, r, m, A, p, slots, slots, stray, Numbered, PowerLoss)
      BY <2>1 DEF Assured, Firm
    <2>3. CASE misnumbered \/ x \in stray \/ r = 0
      <3>1. allowed'[x] = A
        BY <1>1, <2>3
      <3>. QED
        BY <2>2, <3>1
    <2>4. CASE ~misnumbered /\ x \notin stray /\ r # 0
      <3>1. p \in DOMAIN slots /\ p # 0 /\ Good(r, m, A, slots[p].val)
        BY <1>3, <2>1, <2>4 DEF Assured
      <3>2. View(x) = Rec(r, slots[p].val) /\ View(x).scan = slots[p].val
        BY <1>1, <1>2, <2>4, <3>1 DEF View, Mapped, Rec
      <3>3. \A b : Rec(b, slots[p].val) \in A => Rec(b, slots[p].val) \in allowed'[x]
        BY <1>1, <3>2 DEF Rec
      <3>4. NoRec \in A => NoRec \in allowed'[x]
        BY <1>1
      <3>5. Good(r, m, allowed'[x], slots[p].val)
        BY <3>1, <3>3 DEF Good
      <3>6. r \in Bodies(allowed'[x])
        BY <3>5 DEF Good, Bodies, Rec
      <3>7. m.body \in Bodies(allowed'[x])
        <4>1. CASE m = NoRec
          <5>1. m \in A
            BY <1>2, <2>1, <4>1, BodiesFacts DEF Assured
          <5>. QED
            BY <3>4, <4>1, <5>1 DEF Bodies
        <4>2. CASE m # NoRec
          BY <3>5, <4>2 DEF Good, Bodies, Rec
        <4>. QED
          BY <4>1, <4>2
      <3>8. Firm(r, m, allowed'[x], slots, slots, p, PowerLoss)
        BY <3>1, <3>5 DEF Firm
      <3>. HIDE DEF m, r, p
      <3>. QED
        BY <1>3, <2>4, <3>1, <3>5, <3>6, <3>7, <3>8 DEF Assured, m, r, p
    <2>. QED
      BY <2>3, <2>4
  <1>. QED
    <2>1. phase' = "up"
      BY <1>1
    <2>2. \A y \in Ids : Assured(y, records'[y], Fold(blob', log')[y], allowed'[y], position'[y], slots', flushed',
                                 stray', Numbered', PowerLoss')
      BY <1>1, <1>3, <1>8
    <2>. QED
      BY <1>4, <1>5, <1>7, <2>1, <2>2, UpKept

------------------------------------------------------------------------------
(* ... compaction                                                          *)

\* A blob that holds what readers see of the record is as good as the one before.
LEMMA AssuredBlob ==
  ASSUME NEW x, NEW r, NEW m, NEW n, NEW A, NEW B, NEW p, NEW s, NEW f, NEW D, NEW num, NEW loss,
         Assured(x, r, m, A, p, s, f, D, num, loss), A \subseteq B, n = m \/ (n \in B /\ n.body = r)
  PROVE  Assured(x, r, n, B, p, s, f, D, num, loss)
  <1>1. r \in Bodies(B) /\ n.body \in Bodies(B)
    BY DEF Assured, Bodies
  <1>2. \A v : Good(r, m, A, v) => Good(r, n, B, v)
    BY DEF Good
  <1>3. \A q : Firm(r, m, A, s, f, q, loss) => Firm(r, n, B, s, f, q, loss)
    BY <1>2 DEF Firm
  <1>. QED
    BY <1>1, <1>2, <1>3 DEF Assured

LEMMA CompactBlobKept ==
  ASSUME AllSafe, StoreInv, PromiseInv, CompactBlob
  PROVE  PromiseInv'
  <1>1. /\ phase = "up" /\ pc = "idle" /\ pc' = "compact_slots" /\ blob' = [x \in Ids |-> View(x)]
        /\ \A x \in Ids : records[x] # 0 => Mapped(x)
        /\ allowed' = [x \in Ids |-> IF misnumbered /\ x \in Live
                                   THEN allowed[x] \cup WithScan(allowed[x], View(x).scan) ELSE allowed[x]]
        /\ UNCHANGED <<records, position, mapped, log, slots, flushed, stray, phase, scenario, misnumbered>>
    BY DEF CompactBlob, Idle, Live, memory, file, life, bounds
  <1>2. /\ Types /\ slots \in Seq(Slots) /\ log \in Seq(Entries) /\ blob \in [Ids -> Stored]
        /\ Single(slots, stray) /\ (PowerLoss => Same(slots, flushed))
        /\ \A x \in Ids : allowed[x] \in SUBSET Stored /\ Fold(blob, log)[x] \in Stored
    BY PromiseFacts DEF StoreInv
  <1>3. PowerLoss' = PowerLoss /\ Numbered' = Numbered /\ (Numbered <=> ~misnumbered)
    BY <1>1 DEF PowerLoss, Numbered
  <1>4. Tidy'
    BY <1>1, <1>2, <1>3 DEF Tidy
  <1>5. PICK b \in [Ids -> Stored] : b = blob' /\ \A x \in Ids : b[x] = View(x)
    BY <1>1, <1>2, ViewStored
  <1>6. ASSUME NEW x \in Ids
        PROVE  /\ View(x).body = records[x] /\ View(x) \in Stored
               /\ allowed[x] \subseteq allowed'[x] /\ allowed'[x] \in SUBSET Stored /\ View(x) \in allowed'[x]
               /\ records[x] # 0 => Good(records[x], Fold(blob, log)[x], allowed'[x], View(x).scan)
    <2>. DEFINE A == allowed[x]
                m == Fold(blob, log)[x]
    <2>1. View(x) \in Stored /\ A \in SUBSET Stored /\ m \in Stored
      BY <1>1, <1>2, ViewStored
    <2>2. View(x).body = records[x]
      BY <1>1 DEF View, NoRec, Rec
    <2>3. /\ Assured(x, records[x], m, A, position[x], slots, flushed, stray, Numbered, PowerLoss)
          /\ position[x] = 0 <=> records[x] = 0
      BY <1>1, PromiseOf DEF Opened
    <2>4. CASE records[x] = 0
      <3>1. allowed'[x] = A /\ View(x) = NoRec
        BY <1>1, <2>4 DEF Live, View
      <3>2. NoRec \in A
        <4>1. NoRec \in Stored /\ NoRec.body = 0 /\ 0 \in Bodies(A)
          BY <2>3, <2>4 DEF Assured, NoRec, Stored
        <4>. QED
          BY <2>1, <4>1, BodiesFacts
      <3>. QED
        BY <2>1, <2>2, <2>4, <3>1, <3>2
    <2>5. CASE records[x] # 0
      <3>1. View(x) = Rec(records[x], slots[position[x]].val) /\ View(x).scan = slots[position[x]].val
        BY <1>1, <2>5 DEF View, Rec
      <3>2. View(x).scan \in 1 .. MaxVersion
        BY <2>1, <2>2, <2>5 DEF Stored, NoRec
      <3>3. CASE ~misnumbered
        <4>1. allowed'[x] = A
          BY <1>1, <3>3
        <4>2. Good(records[x], m, A, View(x).scan)
          BY <1>3, <2>3, <2>5, <3>1, <3>3 DEF Assured
        <4>3. View(x) \in A
          BY <3>1, <4>2 DEF Good
        <4>. QED
          BY <2>1, <2>2, <4>1, <4>2, <4>3
      <3>4. CASE misnumbered
        <4>1. PICK W : W = WithScan(A, View(x).scan)
          OBVIOUS
        <4>2. allowed'[x] = A \cup W
          BY <1>1, <2>5, <3>4, <4>1 DEF Live
        <4>3. W \in SUBSET Stored /\ \A c : c \in Bodies(A) /\ c # 0 => Rec(c, View(x).scan) \in W
          BY <2>1, <3>2, <4>1, ScanFacts
        <4>4. records[x] \in Bodies(A) /\ m.body \in Bodies(A)
          BY <2>3 DEF Assured
        <4>5. m # NoRec => m.body # 0
          BY <2>1 DEF Stored
        <4>6. Good(records[x], m, A \cup W, View(x).scan)
          BY <2>5, <4>3, <4>4, <4>5 DEF Good
        <4>7. View(x) \in A \cup W
          BY <3>1, <4>6 DEF Good
        <4>. QED
          BY <2>1, <2>2, <4>2, <4>3, <4>6, <4>7
      <3>. QED
        BY <3>3, <3>4
    <2>. QED
      BY <2>4, <2>5
  <1>7. allowed' \in [Ids -> SUBSET Stored]
    <2>1. \A x \in Ids : allowed'[x] \in SUBSET Stored
      BY <1>6
    <2>. QED
      BY <1>1, <2>1
  <1>8. \A x \in Ids : \/ Fold(b, log)[x] = Fold(blob, log)[x]
                       \/ Fold(b, log)[x] = View(x)
    <2>. SUFFICES ASSUME NEW x \in Ids PROVE Fold(b, log)[x] = Fold(blob, log)[x] \/ Fold(b, log)[x] = View(x)
      OBVIOUS
    <2>1. CASE Mentions(log, x)
      BY <2>1, FoldIs
    <2>2. CASE ~Mentions(log, x)
      BY <1>5, <2>2, FoldIs
    <2>. QED
      BY <2>1, <2>2
  <1>9. BlobAndLog'
    <2>1. \A x \in Ids : b[x].body = records[x]
      BY <1>5, <1>6
    <2>2. \A x \in Ids : records[x] # 0 => Good(records[x], Fold(b, log)[x], allowed'[x], b[x].scan)
      <3>. SUFFICES ASSUME NEW x \in Ids, records[x] # 0 PROVE Good(records[x], Fold(b, log)[x], allowed'[x], View(x).scan)
        BY <1>5
      <3>1. Good(records[x], Fold(blob, log)[x], allowed'[x], View(x).scan)
        BY <1>6
      <3>2. CASE Fold(b, log)[x] = Fold(blob, log)[x]
        BY <3>1, <3>2
      <3>3. CASE Fold(b, log)[x] = View(x)
        BY <1>6, <3>1, <3>3 DEF Good
      <3>. QED
        BY <1>8, <3>2, <3>3
    <2>. QED
      BY <1>1, <1>5, <2>1, <2>2 DEF BlobAndLog
  <1>10. ASSUME NEW x \in Ids
         PROVE  Assured(x, records[x], Fold(b, log)[x], allowed'[x], position[x], slots, flushed, stray, Numbered, PowerLoss)
    <2>1. Assured(x, records[x], Fold(blob, log)[x], allowed[x], position[x], slots, flushed, stray, Numbered, PowerLoss)
      BY <1>1, PromiseOf DEF Opened
    <2>2. Fold(b, log)[x] = Fold(blob, log)[x] \/ (Fold(b, log)[x] \in allowed'[x] /\ Fold(b, log)[x].body = records[x])
      BY <1>6, <1>8
    <2>. QED
      BY <1>6, <2>1, <2>2, AssuredBlob
  <1>. QED
    <2>1. phase' = "up"
      BY <1>1
    <2>2. \A y \in Ids : Assured(y, records'[y], Fold(blob', log')[y], allowed'[y], position'[y], slots', flushed',
                                 stray', Numbered', PowerLoss')
      BY <1>1, <1>3, <1>5, <1>10
    <2>. QED
      BY <1>4, <1>7, <1>9, <2>1, <2>2, UpKept

\* The rewritten slots of a record.
LEMMA RewrittenSlots ==
  ASSUME NEW recs \in [Ids -> Nat], NEW pos \in [Ids -> Nat], NEW b \in [Ids -> Stored], NEW t, t = RewrittenOf(recs, pos, b)
  PROVE  \A x \in Ids : /\ recs[x] = 0 => CommittedIn(t, x) = {}
                        /\ recs[x] # 0 => CommittedIn(t, x) # {}
                        /\ \A p \in CommittedIn(t, x) : p \in DOMAIN t /\ t[p].val = b[x].scan
                        /\ \A p, q \in CommittedIn(t, x) : p = q
  <1>1. PICK order : order = Order(recs, pos)
    OBVIOUS
  <1>2. /\ Lists(order, LiveIn(recs)) /\ DOMAIN t = DOMAIN order
        /\ \A i \in DOMAIN order : t[i].id = order[i] /\ t[i].val = b[order[i]].scan /\ t[i].committed
    BY <1>1, RewrittenFacts
  <1>3. \A i \in DOMAIN order : order[i] \in Ids /\ recs[order[i]] # 0
    BY <1>2 DEF Lists, LiveIn
  <1>4. \A i, j \in DOMAIN order : order[i] = order[j] => i = j
    BY <1>2 DEF Lists, IsInjective
  <1>5. \A x \in Ids : recs[x] # 0 => \E i \in DOMAIN order : order[i] = x
    BY <1>2 DEF Lists, LiveIn
  <1>6. ASSUME NEW x \in Ids
        PROVE  /\ recs[x] = 0 => CommittedIn(t, x) = {}
               /\ recs[x] # 0 => CommittedIn(t, x) # {}
               /\ \A p \in CommittedIn(t, x) : p \in DOMAIN t /\ t[p].val = b[x].scan
               /\ \A p, q \in CommittedIn(t, x) : p = q
    <2>1. \A p : p \in CommittedIn(t, x) <=> p \in DOMAIN order /\ order[p] = x
      BY <1>2 DEF CommittedIn
    <2>2. recs[x] = 0 => CommittedIn(t, x) = {}
      BY <1>3, <2>1
    <2>3. recs[x] # 0 => CommittedIn(t, x) # {}
      BY <1>5, <2>1
    <2>4. \A p \in CommittedIn(t, x) : p \in DOMAIN t /\ t[p].val = b[x].scan
      BY <1>2, <2>1
    <2>5. \A p, q \in CommittedIn(t, x) : p = q
      BY <1>4, <2>1
    <2>. QED
      BY <2>2, <2>3, <2>4, <2>5
  <1>. QED
    BY <1>6

LEMMA CompactSlotsKept ==
  ASSUME AllSafe, StoreInv, PromiseInv, CompactSlots \/ CompactSlotsFails
  PROVE  PromiseInv'
  <1>1. /\ pc = "compact_slots" /\ phase = "up" /\ pc' \in {"compact_log", "idle"}
        /\ UNCHANGED <<records, position, blob, log, phase, scenario, cur, allowed>>
        /\ \/ UNCHANGED <<slots, flushed, stray, misnumbered>> /\ pc' = "idle"
           \/ Rewrite /\ ((misnumbered' = TRUE /\ pc' = "idle") \/ pc' = "compact_log")
    <2>1. pc = "compact_slots" /\ phase = "up"
      BY DEF StoreInv, Stages, CompactSlots, CompactSlotsFails
    <2>2. CASE CompactSlots
      BY <2>1, <2>2 DEF CompactSlots, memory, life, bounds
    <2>3. CASE CompactSlotsFails
      BY <2>1, <2>3 DEF CompactSlotsFails, memory, file, bounds
    <2>. QED
      BY <2>2, <2>3
  <1>2. /\ Types /\ slots \in Seq(Slots) /\ allowed \in [Ids -> SUBSET Stored]
        /\ Single(slots, stray) /\ (PowerLoss => Same(slots, flushed))
    BY PromiseFacts DEF StoreInv
  <1>3. PowerLoss' = PowerLoss
    BY <1>1 DEF PowerLoss
  <1>4. \A x \in Ids : /\ Assured(x, records[x], Fold(blob, log)[x], allowed[x], position[x], slots, flushed, stray, Numbered, PowerLoss)
                       /\ position[x] = 0 <=> records[x] = 0
    BY <1>1, PromiseOf DEF Opened
  <1>5. BlobAndLog'
    BY <1>1 DEF PromiseInv, BlobAndLog
  <1>6. CASE UNCHANGED <<slots, flushed, stray, misnumbered>> /\ pc' = "idle"
    <2>1. Numbered' = Numbered
      BY <1>1, <1>6 DEF Numbered
    <2>2. Tidy'
      BY <1>1, <1>2, <1>3, <1>6 DEF Tidy
    <2>3. phase' = "up" /\ allowed' \in [Ids -> SUBSET Stored]
      BY <1>1, <1>2
    <2>4. \A y \in Ids : Assured(y, records'[y], Fold(blob', log')[y], allowed'[y], position'[y], slots', flushed',
                                 stray', Numbered', PowerLoss')
      BY <1>1, <1>3, <1>4, <1>6, <2>1
    <2>. QED
      BY <1>5, <2>2, <2>3, <2>4, UpKept
  <1>7. CASE Rewrite /\ ((misnumbered' = TRUE /\ pc' = "idle") \/ pc' = "compact_log")
    <2>1. PICK t : t = RewrittenOf(records, position, blob) /\ slots' = t /\ flushed' = t /\ stray' = {}
      BY <1>7, RewrittenIs DEF Rewrite
    <2>2. \A x \in Ids : /\ records[x] = 0 => CommittedIn(t, x) = {}
                         /\ records[x] # 0 => CommittedIn(t, x) # {}
                         /\ \A p \in CommittedIn(t, x) : p \in DOMAIN t /\ t[p].val = blob[x].scan
                         /\ \A p, q \in CommittedIn(t, x) : p = q
      <3>1. records \in [Ids -> Nat] /\ position \in [Ids -> Nat] /\ blob \in [Ids -> Stored]
        BY <1>2 DEF Types
      <3>. QED
        BY <2>1, <3>1, RewrittenSlots
    <2>3. t \in Seq(Slots)
      <3>1. records \in [Ids -> Nat] /\ position \in [Ids -> Nat] /\ blob \in [Ids -> Stored]
        BY <1>2 DEF Types
      <3>2. \A x \in Ids : records[x] # 0 => blob[x] # NoRec
        BY <1>1 DEF StoreInv, Stages
      <3>. QED
        BY <2>1, <3>1, <3>2, RewrittenFacts
    <2>4. ~Numbered'
      BY <1>1, <1>7 DEF Numbered
    <2>5. Tidy'
      <3>1. Single(t, {}) /\ Same(t, t)
        BY <2>2, <2>3 DEF Single, Same
      <3>. QED
        BY <1>1, <1>3, <2>1, <3>1 DEF Tidy
    <2>6. ASSUME NEW x \in Ids
          PROVE  Assured(x, records[x], Fold(blob, log)[x], allowed[x], position[x], t, t, {}, FALSE, PowerLoss)
      <3>. DEFINE m == Fold(blob, log)[x]
                  A == allowed[x]
      <3>1. records[x] \in Bodies(A) /\ m.body \in Bodies(A)
        BY <1>4 DEF Assured
      <3>2. position[x] = 0 => m \in A /\ CommittedIn(t, x) = {}
        BY <1>4, <2>2 DEF Assured
      <3>3. ASSUME position[x] # 0 PROVE CommittedIn(t, x) # {} /\ Firm(records[x], m, A, t, t, SlotIn(t, x), PowerLoss)
        <4>1. records[x] # 0 /\ CommittedIn(t, x) # {}
          BY <1>4, <2>2, <3>3
        <4>2. PICK q : q = SlotIn(t, x) /\ q \in CommittedIn(t, x)
          BY <2>3, <4>1, SlotInFacts
        <4>3. q \in DOMAIN t /\ t[q].val = blob[x].scan
          BY <2>2, <4>2
        <4>4. Good(records[x], m, A, t[q].val)
          BY <1>1, <4>1, <4>3 DEF PromiseInv, BlobAndLog
        <4>. QED
          BY <4>1, <4>2, <4>3, <4>4 DEF Firm
      <3>. QED
        BY <3>1, <3>2, <3>3 DEF Assured
    <2>7. phase' = "up" /\ allowed' \in [Ids -> SUBSET Stored]
      BY <1>1, <1>2
    <2>8. \A y \in Ids : Assured(y, records'[y], Fold(blob', log')[y], allowed'[y], position'[y], slots', flushed',
                                 stray', Numbered', PowerLoss')
      <3>. SUFFICES ASSUME NEW y \in Ids
                    PROVE  Assured(y, records[y], Fold(blob, log)[y], allowed[y], position[y], t, t, {}, Numbered', PowerLoss)
        BY <1>1, <1>3, <2>1
      <3>1. Numbered' = FALSE
        BY <2>4 DEF Numbered
      <3>. QED
        BY <2>6, <3>1
    <2>. QED
      BY <1>5, <2>5, <2>7, <2>8, UpKept
  <1>. QED
    BY <1>1, <1>6, <1>7

LEMMA CompactLogKept ==
  ASSUME AllSafe, StoreInv, PromiseInv, CompactLog
  PROVE  PromiseInv'
  <1>. DEFINE order == Order(records, position)
  <1>1. /\ pc = "compact_log" /\ pc' = "idle" /\ log' = <<>> /\ phase = "up"
        /\ position' = [x \in Ids |-> IF records[x] # 0 THEN CHOOSE i \in DOMAIN order : order[i] = x ELSE 0]
        /\ allowed' = [x \in Ids |-> {blob[x]}]
        /\ misnumbered' = FALSE
        /\ UNCHANGED <<records, mapped, blob, slots, flushed, stray, phase, scenario>>
    BY DEF CompactLog, Order, LiveIn, InOrder, Live, file, bounds, StoreInv, Stages
  <1>2. /\ Types /\ slots \in Seq(Slots) /\ blob \in [Ids -> Stored] /\ Single(slots, stray)
        /\ slots = RewrittenOf(records, position, blob) /\ flushed = slots
        /\ \A x \in Ids : blob[x].body = records[x]
    BY <1>1, PromiseFacts DEF StoreInv, Stages, PromiseInv, Tidy, BlobAndLog
  <1>3. PowerLoss' = PowerLoss /\ Numbered'
    BY <1>1 DEF PowerLoss, Numbered
  <1>4. records \in [Ids -> Nat] /\ position \in [Ids -> Nat]
    BY <1>2 DEF Types
  <1>5. \A x \in Ids : /\ records[x] = 0 => CommittedIn(slots, x) = {}
                       /\ \A p \in CommittedIn(slots, x) : p \in DOMAIN slots /\ slots[p].val = blob[x].scan
    <2>1. PICK t : t = RewrittenOf(records, position, blob) /\ t = slots
      BY <1>2
    <2>2. \A x \in Ids : /\ records[x] = 0 => CommittedIn(t, x) = {}
                         /\ records[x] # 0 => CommittedIn(t, x) # {}
                         /\ \A p \in CommittedIn(t, x) : p \in DOMAIN t /\ t[p].val = blob[x].scan
                         /\ \A p, q \in CommittedIn(t, x) : p = q
      <3>1. records \in [Ids -> Nat] /\ position \in [Ids -> Nat] /\ blob \in [Ids -> Stored]
        BY <1>2, <1>4
      <3>2. t = RewrittenOf(records, position, blob)
        BY <2>1
      <3>. QED
        BY <3>1, <3>2, RewrittenSlots
    <2>. QED
      BY <2>1, <2>2
  <1>6. ASSUME NEW x \in Ids, records[x] # 0 PROVE position'[x] \in CommittedIn(slots, x)
    <2>1. /\ Lists(order, LiveIn(records)) /\ DOMAIN slots = DOMAIN order
          /\ \A i \in DOMAIN order : slots[i].id = order[i] /\ slots[i].committed
      <3>1. records \in [Ids -> Nat] /\ position \in [Ids -> Nat] /\ blob \in [Ids -> Stored]
        BY <1>2, <1>4
      <3>2. PICK t : t = RewrittenOf(records, position, blob)
        OBVIOUS
      <3>3. /\ Lists(order, LiveIn(records)) /\ DOMAIN t = DOMAIN order
            /\ \A i \in DOMAIN order : t[i].id = order[i] /\ t[i].committed
        BY <3>1, <3>2, RewrittenFacts
      <3>4. slots = t
        BY <1>2, <3>2
      <3>. QED
        BY <3>3, <3>4
    <2>2. \E i \in DOMAIN order : order[i] = x
      BY <1>6, <2>1 DEF Lists, LiveIn
    <2>3. position'[x] = CHOOSE i \in DOMAIN order : order[i] = x
      BY <1>1, <1>6
    <2>. HIDE DEF order
    <2>4. position'[x] \in DOMAIN order /\ order[position'[x]] = x
      BY <2>2, <2>3
    <2>. QED
      BY <2>1, <2>4 DEF CommittedIn
  <1>7. Tidy'
    BY <1>1, <1>2, <1>3 DEF Tidy, Same
  <1>8. BlobAndLog'
    BY <1>1, <1>2 DEF BlobAndLog
  <1>9. allowed' \in [Ids -> SUBSET Stored]
    BY <1>1, <1>2
  <1>10. Fold(blob, <<>>) = blob
    BY <1>2, FoldFacts DEF Types
  <1>11. ASSUME NEW x \in Ids
         PROVE  Assured(x, records[x], blob[x], {blob[x]}, position'[x], slots, slots, stray, TRUE, PowerLoss)
    <2>1. records[x] \in Bodies({blob[x]}) /\ blob[x].body \in Bodies({blob[x]})
      BY <1>2 DEF Bodies
    <2>2. CASE records[x] = 0
      <3>1. position'[x] = 0 /\ CommittedIn(slots, x) = {}
        BY <1>1, <1>5, <2>2
      <3>. QED
        BY <2>1, <3>1 DEF Assured
    <2>3. CASE records[x] # 0
      <3>1. PICK p \in CommittedIn(slots, x) : p = position'[x] /\ p \in DOMAIN slots /\ slots[p].val = blob[x].scan
        BY <1>5, <1>6, <2>3
      <3>2. p # 0
        BY <1>2, <3>1
      <3>3. Rec(blob[x].body, blob[x].scan) = blob[x]
        <4>1. blob[x] \in [body : 1 .. MaxVersion, scan : 1 .. MaxVersion]
          BY <1>2, <2>3 DEF Stored, NoRec
        <4>. QED
          BY <4>1 DEF Rec
      <3>4. Good(records[x], blob[x], {blob[x]}, slots[p].val)
        BY <1>2, <3>1, <3>3 DEF Good
      <3>5. Firm(records[x], blob[x], {blob[x]}, slots, slots, p, PowerLoss)
        BY <3>1, <3>4 DEF Firm
      <3>. QED
        BY <2>1, <3>1, <3>2, <3>4, <3>5 DEF Assured
    <2>. QED
      BY <2>2, <2>3
  <1>. QED
    <2>1. phase' = "up"
      BY <1>1
    <2>2. \A y \in Ids : Assured(y, records'[y], Fold(blob', log')[y], allowed'[y], position'[y], slots', flushed',
                                 stray', Numbered', PowerLoss')
      <3>. SUFFICES ASSUME NEW y \in Ids
                    PROVE  Assured(y, records[y], blob[y], {blob[y]}, position'[y], slots, slots, stray, Numbered', PowerLoss)
        BY <1>1, <1>2, <1>3, <1>10
      <3>1. Numbered' = TRUE
        BY <1>3 DEF Numbered
      <3>. QED
        BY <1>11, <3>1
    <2>. QED
      BY <1>7, <1>8, <1>9, <2>1, <2>2, UpKept

LEMMA CompactLogFailsKept ==
  ASSUME AllSafe, StoreInv, PromiseInv, CompactLogFails
  PROVE  PromiseInv'
  <1>1. /\ pc = "compact_log" /\ pc' = "idle" /\ misnumbered' = TRUE /\ phase = "up"
        /\ UNCHANGED <<records, position, mapped, blob, log, slots, flushed, stray, phase, scenario, cur, allowed>>
    BY DEF CompactLogFails, memory, file, bounds, StoreInv, Stages
  <1>2. PowerLoss' = PowerLoss /\ Numbered' = Numbered
    BY <1>1 DEF PowerLoss, Numbered
  <1>3. Tidy'
    BY <1>1, <1>2 DEF PromiseInv, Tidy
  <1>4. BlobAndLog' /\ allowed' \in [Ids -> SUBSET Stored]
    BY <1>1 DEF PromiseInv, BlobAndLog, Outcomes
  <1>5. \A x \in Ids : Assured(x, records[x], Fold(blob, log)[x], allowed[x], position[x], slots, flushed, stray,
                               Numbered, PowerLoss)
    BY <1>1, PromiseOf DEF Opened
  <1>. QED
    <2>1. phase' = "up"
      BY <1>1
    <2>2. \A y \in Ids : Assured(y, records'[y], Fold(blob', log')[y], allowed'[y], position'[y], slots', flushed',
                                 stray', Numbered', PowerLoss')
      BY <1>1, <1>2, <1>5
    <2>. QED
      BY <1>3, <1>4, <2>1, <2>2, UpKept

------------------------------------------------------------------------------
(* ... a log read past what was torn                                       *)

\* Two logs with the same entries for a record make the same of it.
LEMMA FoldSame ==
  ASSUME NEW b, NEW l \in Seq(Entries), NEW m \in Seq(Entries), NEW x \in Ids,
         \A i \in DOMAIN m : m[i].id = x => i \in DOMAIN l /\ m[i] = l[i],
         \A i \in DOMAIN l : l[i].id = x => i \in DOMAIN m /\ m[i] = l[i]
  PROVE  Fold(b, m)[x] = Fold(b, l)[x]
  <1>1. Mentions(m, x) <=> Mentions(l, x)
    BY DEF Mentions
  <1>2. ASSUME Mentions(l, x) PROVE m[LastOf(m, x)] = l[LastOf(l, x)]
    <2>1. PICK i \in DOMAIN m : i = LastOf(m, x) /\ m[i].id = x /\ m[i].kind # "junk"
      BY <1>1, <1>2, LastOfFacts
    <2>2. \A k \in DOMAIN m : m[k].id = x /\ m[k].kind # "junk" => k <= i
      BY <1>1, <1>2, <2>1, LastOfFacts
    <2>3. PICK j \in DOMAIN l : j = LastOf(l, x) /\ l[j].id = x /\ l[j].kind # "junk"
      BY <1>2, LastOfFacts
    <2>4. \A k \in DOMAIN l : l[k].id = x /\ l[k].kind # "junk" => k <= j
      BY <1>2, <2>3, LastOfFacts
    <2>5. i \in DOMAIN l /\ m[i] = l[i] /\ i <= j
      BY <2>1, <2>4
    <2>6. j <= i
      BY <2>2, <2>3
    <2>7. i = j
      <3>1. i \in Nat /\ j \in Nat
        OBVIOUS
      <3>. QED
        BY <2>5, <2>6, <3>1
    <2>. QED
      BY <2>1, <2>3, <2>5, <2>7
  <1>3. CASE Mentions(l, x)
    <2>1. Fold(b, m)[x] = IF m[LastOf(m, x)].kind = "tombstone" THEN NoRec
                          ELSE Rec(m[LastOf(m, x)].body, m[LastOf(m, x)].body)
      BY <1>1, <1>3, FoldIs
    <2>2. Fold(b, l)[x] = IF l[LastOf(l, x)].kind = "tombstone" THEN NoRec
                          ELSE Rec(l[LastOf(l, x)].body, l[LastOf(l, x)].body)
      BY <1>3, FoldIs
    <2>. QED
      BY <1>2, <1>3, <2>1, <2>2
  <1>4. CASE ~Mentions(l, x)
    BY <1>1, <1>4, FoldIs
  <1>. QED
    BY <1>3, <1>4

\* Of two sequences, one behind the other.
LEMMA Joined ==
  ASSUME NEW a \in Seq(Entries), NEW b \in Seq(Entries)
  PROVE  /\ a \o b \in Seq(Entries) /\ Len(a \o b) = Len(a) + Len(b)
         /\ Len(a) \in Nat /\ Len(b) \in Nat /\ DOMAIN a = 1 .. Len(a) /\ DOMAIN b = 1 .. Len(b)
         /\ DOMAIN (a \o b) = 1 .. Len(a) + Len(b)
         /\ \A k \in 1 .. Len(a) : (a \o b)[k] = a[k]
         /\ \A k \in 1 .. Len(a) + Len(b) : k > Len(a) => k - Len(a) \in 1 .. Len(b) /\ (a \o b)[k] = b[k - Len(a)]
  <1>1. Len(a) \in Nat /\ Len(b) \in Nat /\ DOMAIN a = 1 .. Len(a) /\ DOMAIN b = 1 .. Len(b)
    OBVIOUS
  <1>2. /\ a \o b \in Seq(Entries) /\ Len(a \o b) = Len(a) + Len(b)
        /\ \A k \in 1 .. Len(a) + Len(b) : (a \o b)[k] = IF k <= Len(a) THEN a[k] ELSE b[k - Len(a)]
    BY ConcatProperties
  <1>3. DOMAIN (a \o b) = 1 .. Len(a) + Len(b)
    BY <1>2
  <1>4. \A k \in 1 .. Len(a) : k \in 1 .. Len(a) + Len(b) /\ k <= Len(a)
    BY <1>1
  <1>5. \A k \in 1 .. Len(a) + Len(b) : k > Len(a) => k - Len(a) \in 1 .. Len(b) /\ ~(k <= Len(a))
    BY <1>1
  <1>. QED
    BY <1>1, <1>2, <1>3, <1>4, <1>5

\* A log cut at t, with a few entries put in and the tail from i on: but for what
\* is behind the cut, the same.
Splice(l, t, m, i) == SubSeq(l, 1, t - 1) \o m \o SubSeq(l, i, Len(l))

\* The entries of all ids but those in lost are where they were.
AgreeBut(l, r, lost) ==
  /\ \A k \in DOMAIN r : r[k].id \notin lost => k \in DOMAIN l /\ r[k] = l[k]
  /\ \A k \in DOMAIN l : l[k].id \notin lost => k \in DOMAIN r /\ r[k] = l[k]

LEMMA Spliced ==
  ASSUME NEW l \in Seq(Entries), NEW t \in 1 .. Len(l), NEW m \in Seq(Entries), NEW i \in t + 2 .. Len(l) + 1,
         NEW r, r = Splice(l, t, m, i), NEW lost,
         \A k \in t .. Len(l) : l[k].id \in lost,
         \A k \in DOMAIN m : m[k].id \in lost
  PROVE  AgreeBut(l, r, lost)
  <1>. DEFINE n == Len(l)
              a == SubSeq(l, 1, t - 1)
              c == SubSeq(l, i, n)
  <1>1. n \in Nat /\ t \in Nat /\ i \in Nat /\ 1 <= t /\ t <= n /\ t + 2 <= i /\ i <= n + 1 /\ DOMAIN l = 1 .. n
    OBVIOUS
  <1>2. a \in Seq(Entries) /\ Len(a) = t - 1 /\ \A k \in 1 .. t - 1 : a[k] = l[k]
    <2>1. t - 1 \in Nat /\ \A k \in 1 .. t - 1 : k \in 1 .. n
      BY <1>1
    <2>. QED
      BY <1>1, <2>1, SubSeqProperties
  <1>3. c \in Seq(Entries) /\ Len(c) = n - i + 1 /\ \A k \in 1 .. n - i + 1 : c[k] = l[i + k - 1]
    <2>1. i \in Int /\ n \in Int /\ \A k \in i .. n : l[k] \in Entries
      BY <1>1
    <2>2. /\ c \in Seq(Entries) /\ Len(c) = (IF i <= n THEN n - i + 1 ELSE 0)
          /\ \A k \in 1 .. n - i + 1 : c[k] = l[i + k - 1]
      BY <2>1, SubSeqProperties
    <2>3. (IF i <= n THEN n - i + 1 ELSE 0) = n - i + 1
      BY <1>1
    <2>. HIDE DEF c, n
    <2>. QED
      BY <2>2, <2>3
  <1>. HIDE DEF a, c
  <1>4. \A k \in DOMAIN c : c[k].id \in lost
    <2>. SUFFICES ASSUME NEW k \in DOMAIN c PROVE c[k].id \in lost
      OBVIOUS
    <2>1. k \in 1 .. n - i + 1
      BY <1>3
    <2>2. i + k - 1 \in t .. n
      BY <1>1, <2>1
    <2>. QED
      BY <1>3, <2>1, <2>2
  <1>5. PICK d \in Seq(Entries) : d = a \o m
    BY <1>2, Joined
  <1>6. /\ Len(d) = Len(a) + Len(m) /\ Len(m) \in Nat /\ Len(a) = t - 1 /\ Len(a) \in Nat /\ Len(d) \in Nat
        /\ DOMAIN d = 1 .. Len(d)
        /\ \A k \in 1 .. Len(a) : d[k] = a[k]
        /\ \A k \in 1 .. Len(d) : k > Len(a) => k - Len(a) \in DOMAIN m /\ d[k] = m[k - Len(a)]
    <2>1. /\ Len(d) = Len(a) + Len(m) /\ Len(a) \in Nat /\ Len(m) \in Nat /\ DOMAIN m = 1 .. Len(m)
          /\ DOMAIN d = 1 .. Len(a) + Len(m)
          /\ \A k \in 1 .. Len(a) : d[k] = a[k]
          /\ \A k \in 1 .. Len(a) + Len(m) : k > Len(a) => k - Len(a) \in 1 .. Len(m) /\ d[k] = m[k - Len(a)]
      <3>1. PICK e : e = a \o m
        OBVIOUS
      <3>2. a \in Seq(Entries)
        BY <1>2
      <3>3. /\ Len(e) = Len(a) + Len(m) /\ Len(a) \in Nat /\ Len(m) \in Nat /\ DOMAIN m = 1 .. Len(m)
            /\ DOMAIN e = 1 .. Len(a) + Len(m)
            /\ \A k \in 1 .. Len(a) : e[k] = a[k]
            /\ \A k \in 1 .. Len(a) + Len(m) : k > Len(a) => k - Len(a) \in 1 .. Len(m) /\ e[k] = m[k - Len(a)]
        BY <3>1, <3>2, Joined
      <3>4. d = e
        BY <1>5, <3>1
      <3>. QED
        BY <3>3, <3>4
    <2>. QED
      BY <1>2, <2>1
  <1>7. \A k \in 1 .. t - 1 : d[k] = l[k]
    BY <1>2, <1>6
  <1>8. \A k \in 1 .. Len(d) : k > t - 1 => d[k].id \in lost
    BY <1>6
  <1>9. /\ r \in Seq(Entries) /\ Len(r) = Len(d) + Len(c) /\ Len(c) \in Nat /\ DOMAIN r = 1 .. Len(r)
        /\ \A k \in 1 .. Len(d) : k \in DOMAIN r /\ r[k] = d[k]
        /\ \A k \in 1 .. Len(r) : k > Len(d) => k - Len(d) \in DOMAIN c /\ r[k] = c[k - Len(d)]
    <2>1. r = d \o c
      BY <1>5 DEF a, c, Splice
    <2>2. /\ r \in Seq(Entries) /\ Len(r) = Len(d) + Len(c) /\ Len(c) \in Nat /\ DOMAIN c = 1 .. Len(c)
          /\ DOMAIN r = 1 .. Len(d) + Len(c)
          /\ \A k \in 1 .. Len(d) : r[k] = d[k]
          /\ \A k \in 1 .. Len(d) + Len(c) : k > Len(d) => k - Len(d) \in 1 .. Len(c) /\ r[k] = c[k - Len(d)]
      <3>1. PICK e : e = d \o c
        OBVIOUS
      <3>2. c \in Seq(Entries)
        BY <1>3
      <3>3. /\ e \in Seq(Entries) /\ Len(e) = Len(d) + Len(c) /\ Len(c) \in Nat /\ DOMAIN c = 1 .. Len(c)
            /\ DOMAIN e = 1 .. Len(d) + Len(c)
            /\ \A k \in 1 .. Len(d) : e[k] = d[k]
            /\ \A k \in 1 .. Len(d) + Len(c) : k > Len(d) => k - Len(d) \in 1 .. Len(c) /\ e[k] = c[k - Len(d)]
        BY <3>1, <3>2, Joined
      <3>4. r = e
        BY <2>1, <3>1
      <3>. QED
        BY <3>3, <3>4
    <2>3. \A k \in 1 .. Len(d) : k \in 1 .. Len(d) + Len(c)
      BY <1>6, <2>2
    <2>. QED
      BY <2>2, <2>3
  <1>10. \A k \in 1 .. Len(r) : k > Len(d) => r[k].id \in lost
    BY <1>4, <1>9
  <1>11. ASSUME NEW k \in DOMAIN r, r[k].id \notin lost PROVE k \in DOMAIN l /\ r[k] = l[k]
    <2>1. k \in 1 .. Len(d)
      <3>1. k \in 1 .. Len(r) /\ Len(r) \in Nat /\ Len(d) \in Nat
        <4>1. DOMAIN r = 1 .. Len(r) /\ Len(r) = Len(d) + Len(c) /\ Len(c) \in Nat
          BY <1>9
        <4>2. Len(d) \in Nat
          BY <1>6
        <4>. QED
          BY <4>1, <4>2
      <3>2. ~(k > Len(d))
        BY <1>10, <1>11, <3>1
      <3>. QED
        BY <3>1, <3>2
    <2>2. r[k] = d[k]
      BY <1>9, <2>1
    <2>3. k \in 1 .. t - 1
      <3>1. ~(k > t - 1)
        BY <1>8, <1>11, <2>1, <2>2
      <3>2. k \in Nat /\ 1 <= k
        BY <1>6, <2>1
      <3>. QED
        BY <1>1, <3>1, <3>2
    <2>. QED
      BY <1>1, <1>7, <2>2, <2>3
  <1>12. ASSUME NEW k \in DOMAIN l, l[k].id \notin lost PROVE k \in DOMAIN r /\ r[k] = l[k]
    <2>1. k \in 1 .. t - 1
      BY <1>1, <1>12
    <2>2. k \in 1 .. Len(d)
      BY <1>1, <1>6, <2>1
    <2>. QED
      BY <1>7, <1>9, <2>1, <2>2
  <1>. QED
    BY <1>11, <1>12 DEF AgreeBut

LEMMA ReadTornKept ==
  ASSUME AllSafe, StoreInv, PromiseInv, ReadTorn
  PROVE  PromiseInv'
  <1>. DEFINE t == Min(Torn(log))
              n == Len(log)
              lost == {log[i].id : i \in t .. n}
              mixed == {<<>>} \cup {<<Item(log[t].id, b)>> : b \in 1 .. (IF log[t].body = 0 THEN 0 ELSE MaxVersion)}
  <1>1. /\ phase = "down" /\ allowed' = [x \in Ids |-> IF x \in lost THEN AnyScan({Fold(blob, log')[x]}) ELSE allowed[x]]
        /\ \E m \in mixed, i \in t + 2 .. n + 1 : log' = SubSeq(log, 1, t - 1) \o m \o SubSeq(log, i, n)
        /\ UNCHANGED <<position, mapped, blob, slots, flushed, stray, phase, scenario, pc>>
    BY DEF ReadTorn, memory, file, life, bounds
  <1>2. /\ Types /\ pc = "idle" /\ blob \in [Ids -> Stored] /\ log \in Seq(Entries) /\ slots \in Seq(Slots)
        /\ \A x \in Ids : allowed[x] \in SUBSET Stored
        /\ 1 \in 1 .. MaxVersion
    BY <1>1, PromiseFacts DEF StoreInv, Stages
  <1>3. t \in 1 .. n
    <2>1. n \in Nat /\ DOMAIN log = 1 .. n
      BY <1>2
    <2>2. Torn(log) # {} /\ \A i \in Torn(log) : i \in 1 .. n
      BY <2>1 DEF ReadTorn, Torn
    <2>3. Torn(log) \in SUBSET Nat
      BY <2>1, <2>2
    <2>4. \E m \in Torn(log) : \A k \in Torn(log) : m <= k
      BY <2>2, <2>3, SmallestOf
    <2>5. t \in Torn(log)
      BY <2>4 DEF Min
    <2>. QED
      BY <2>2, <2>5
  <1>4. PICK l \in Seq(Entries) : l = log'
    BY <1>2, ReadLog
  <1>5. PICK m \in mixed, i \in t + 2 .. n + 1 : l = SubSeq(log, 1, t - 1) \o m \o SubSeq(log, i, n)
    BY <1>1, <1>4
  <1>6. m \in Seq(Entries) /\ \A k \in DOMAIN m : m[k].id = log[t].id
    <2>1. CASE m = <<>>
      BY <2>1
    <2>2. CASE m # <<>>
      <3>1. PICK b \in 1 .. (IF log[t].body = 0 THEN 0 ELSE MaxVersion) : m = <<Item(log[t].id, b)>>
        BY <2>2
      <3>2. b \in 1 .. MaxVersion
        BY Parameters
      <3>3. log[t] \in Entries
        BY <1>2, <1>3
      <3>4. log[t].id \in Ids
        BY <3>3 DEF Entries
      <3>5. PICK g \in Entries : g = Item(log[t].id, b) /\ g.id = log[t].id
        <4>. DEFINE h == Item(log[t].id, b)
        <4>. HIDE DEF t, n, lost, mixed
        <4>1. h \in Entries /\ h.id = log[t].id
          BY <3>2, <3>4 DEF Item, Entries
        <4>. QED
          BY <4>1
      <3>6. m = <<g>>
        BY <3>1, <3>5
      <3>. HIDE DEF mixed, t, n, lost
      <3>. QED
        BY <3>5, <3>6
    <2>. QED
      BY <2>1, <2>2
  <1>7. \A k \in t .. n : log[k].id \in lost
    OBVIOUS
  <1>8. \A k \in DOMAIN m : m[k].id \in lost
    <2>1. t \in t .. n
      BY <1>3
    <2>. QED
      BY <1>6, <2>1
  <1>. HIDE DEF mixed, t, lost
  <1>9. /\ \A k \in DOMAIN l : l[k].id \notin lost => k \in DOMAIN log /\ l[k] = log[k]
        /\ \A k \in DOMAIN log : log[k].id \notin lost => k \in DOMAIN l /\ l[k] = log[k]
    <2>1. log \in Seq(Entries) /\ m \in Seq(Entries) /\ t \in 1 .. Len(log) /\ i \in t + 2 .. Len(log) + 1
      BY <1>2, <1>3, <1>6
    <2>2. l = Splice(log, t, m, i) /\ \A k \in t .. Len(log) : log[k].id \in lost
      BY <1>5, <1>7 DEF Splice
    <2>3. AgreeBut(log, l, lost)
      BY <1>7, <1>8, <2>1, <2>2, Spliced
    <2>. QED
      BY <2>3 DEF AgreeBut
  <1>10. \A x \in Ids : x \notin lost => Fold(blob, l)[x] = Fold(blob, log)[x]
    <2>. SUFFICES ASSUME NEW x \in Ids, x \notin lost PROVE Fold(blob, l)[x] = Fold(blob, log)[x]
      OBVIOUS
    <2>1. \A k \in DOMAIN l : l[k].id = x => k \in DOMAIN log /\ l[k] = log[k]
      BY <1>9
    <2>2. \A k \in DOMAIN log : log[k].id = x => k \in DOMAIN l /\ l[k] = log[k]
      BY <1>9
    <2>. QED
      BY <1>2, <2>1, <2>2, FoldSame
  <1>11. \A x \in Ids : Fold(blob, l)[x] \in Stored
    BY <1>2, FoldFacts
  <1>12. ASSUME NEW x \in Ids
         PROVE  allowed'[x] \in SUBSET Stored /\ Recovered(Fold(blob, l)[x], slots, x) \in allowed'[x]
    <2>1. CASE x \in lost
      <3>. DEFINE m1 == Fold(blob, l)[x]
      <3>1. m1 \in Stored /\ {m1} \in SUBSET Stored /\ m1.body \in Bodies({m1})
        BY <1>11 DEF Bodies
      <3>2. AnyScan({m1}) \in SUBSET Stored /\ Recovered(m1, slots, x) \in AnyScan({m1})
        BY <1>2, <3>1, DoubtfulAfter, AnyScanTypes
      <3>. QED
        BY <1>1, <1>4, <2>1, <3>2
    <2>2. CASE x \notin lost
      <3>1. Recovered(Fold(blob, log)[x], slots, x) \in allowed[x]
        BY <1>1 DEF PromiseInv, Outcomes
      <3>. QED
        BY <1>1, <1>2, <1>10, <2>2, <3>1
    <2>. QED
      BY <2>1, <2>2
  <1>13. Tidy'
    <2>1. PowerLoss' = PowerLoss
      BY <1>1 DEF PowerLoss
    <2>. QED
      BY <1>1, <1>2, <2>1 DEF PromiseInv, Tidy
  <1>14. BlobAndLog'
    BY <1>1, <1>2 DEF BlobAndLog
  <1>15. Outcomes'
    <2>1. allowed' \in [Ids -> SUBSET Stored]
      <3>1. \A x \in Ids : allowed'[x] \in SUBSET Stored
        BY <1>12
      <3>. QED
        BY <1>1, <3>1
    <2>2. \A x \in Ids : Recovered(Fold(blob', log')[x], slots', x) \in allowed'[x]
      BY <1>1, <1>4, <1>12
    <2>. QED
      BY <1>1, <2>1, <2>2 DEF Outcomes, Opened
  <1>. QED
    BY <1>13, <1>14, <1>15 DEF PromiseInv

------------------------------------------------------------------------------
(* ... opening                                                             *)

\* What has to be seen while the store opens.
LEMMA OpeningKept ==
  ASSUME NEW use, phase' \in {"reading", "blob", "opened"}, Tidy', BlobAndLog', allowed' \in [Ids -> SUBSET Stored],
         \A x \in Ids : InUse(x)' = use[x],
         \A x \in Ids : Assured(x, use[x], Fold(blob', log')[x], allowed'[x], position'[x], slots', flushed',
                                stray', Numbered', PowerLoss')
  PROVE  PromiseInv'
  <1>1. Outcomes'
    BY DEF Outcomes, Opened
  <1>. QED
    BY <1>1 DEF PromiseInv

\* A record found with the slot that open finds for it.
LEMMA AssuredFound ==
  ASSUME NEW x, NEW m, NEW A, NEW p, NEW s \in Seq(Slots), NEW f, NEW D, NEW E, NEW loss,
         D \subseteq E, loss => f = s, Recovered(m, s, x) \in A, p = (IF m = NoRec THEN 0 ELSE SlotIn(s, x)),
         m = NoRec /\ CommittedIn(s, x) # {} => x \in E
  PROVE  Assured(x, m.body, m, A, p, s, f, E, TRUE, loss)
  <1>1. m.body \in Bodies(A)
    <2>1. Recovered(m, s, x).body = m.body
      BY DEF Recovered, Rec
    <2>. QED
      BY <2>1 DEF Bodies
  <1>2. CASE m = NoRec
    BY <1>1, <1>2 DEF Assured, Recovered
  <1>3. CASE m # NoRec /\ CommittedIn(s, x) = {}
    <2>1. p = 0
      BY <1>3 DEF SlotIn
    <2>. QED
      BY <1>1, <1>3, <2>1 DEF Assured, Recovered
  <1>4. CASE m # NoRec /\ CommittedIn(s, x) # {}
    <2>1. p \in CommittedIn(s, x) /\ p \in DOMAIN s /\ p # 0
      BY <1>4, SlotInFacts DEF CommittedIn
    <2>2. Good(m.body, m, A, s[p].val)
      BY <1>4 DEF Good, Recovered
    <2>3. Firm(m.body, m, A, s, f, p, loss)
      BY <2>1, <2>2 DEF Firm
    <2>. QED
      BY <1>1, <2>1, <2>2, <2>3 DEF Assured
  <1>. QED
    BY <1>2, <1>3, <1>4

LEMMA OpenReadKept ==
  ASSUME AllSafe, StoreInv, PromiseInv, OpenRead
  PROVE  PromiseInv'
  <1>. DEFINE m == Fold(blob, log)
  <1>1. /\ phase = "down" /\ phase' = "reading" /\ mapped' = Len(slots)
        /\ position' = [x \in Ids |-> IF m[x] = NoRec THEN 0 ELSE SlotOf(x)]
        /\ stray' = stray \cup {x \in Ids : m[x] = NoRec /\ Committed(x) # {}}
        /\ UNCHANGED <<records, blob, log, slots, flushed, scenario, misnumbered, pc, allowed>>
    BY DEF OpenRead, bounds, Merged
  <1>2. /\ slots \in Seq(Slots) /\ allowed \in [Ids -> SUBSET Stored] /\ pc = "idle"
        /\ Single(slots, stray) /\ (PowerLoss => Same(slots, flushed) /\ flushed = slots)
    BY <1>1, PromiseFacts DEF StoreInv, Stages, PromiseInv, Tidy
  <1>3. PowerLoss' = PowerLoss /\ Numbered' = TRUE
    BY <1>1 DEF PowerLoss, Numbered
  <1>4. \A x \in Ids : SlotOf(x) = SlotIn(slots, x) /\ Committed(x) = CommittedIn(slots, x)
    BY DEF SlotOf, SlotIn, Committed, CommittedIn
  <1>5. Single(slots, stray')
    BY <1>1, <1>2 DEF Single
  <1>6. Tidy'
    <2>1. \A p \in DOMAIN slots : PowerLoss => p \in DOMAIN flushed /\ flushed[p] = slots[p]
      BY <1>2
    <2>2. \A p \in DOMAIN flushed : PowerLoss => flushed[p] = slots[p]
      BY <1>2
    <2>. QED
      BY <1>1, <1>2, <1>3, <1>5, <2>1, <2>2 DEF Tidy
  <1>7. BlobAndLog'
    BY <1>1, <1>2 DEF BlobAndLog
  <1>8. ASSUME NEW x \in Ids
        PROVE  Assured(x, m[x].body, m[x], allowed[x], position'[x], slots, flushed, stray', TRUE, PowerLoss)
    <2>1. Recovered(m[x], slots, x) \in allowed[x]
      BY <1>1 DEF PromiseInv, Outcomes
    <2>2. position'[x] = IF m[x] = NoRec THEN 0 ELSE SlotIn(slots, x)
      BY <1>1, <1>4
    <2>3. m[x] = NoRec /\ CommittedIn(slots, x) # {} => x \in stray'
      BY <1>1, <1>4
    <2>4. PICK D : D = stray' /\ stray \subseteq D
      BY <1>1
    <2>. HIDE DEF m
    <2>5. Assured(x, m[x].body, m[x], allowed[x], position'[x], slots, flushed, D, TRUE, PowerLoss)
      BY <1>2, <2>1, <2>2, <2>3, <2>4, AssuredFound
    <2>. QED
      BY <2>4, <2>5
  <1>. QED
    <2>1. PICK use : use = [x \in Ids |-> m[x].body]
      OBVIOUS
    <2>2. \A x \in Ids : InUse(x)' = use[x]
      BY <1>1, <2>1 DEF InUse, Merged
    <2>3. \A x \in Ids : Assured(x, use[x], Fold(blob', log')[x], allowed'[x], position'[x], slots', flushed',
                                 stray', Numbered', PowerLoss')
      BY <1>1, <1>3, <1>8, <2>1
    <2>4. phase' \in {"reading", "blob", "opened"} /\ allowed' \in [Ids -> SUBSET Stored]
      BY <1>1, <1>2
    <2>. HIDE DEF m
    <2>. QED
      BY <1>6, <1>7, <2>2, <2>3, <2>4, OpeningKept

LEMMA OpenAppendKept ==
  ASSUME AllSafe, StoreInv, PromiseInv, OpenAppend
  PROVE  PromiseInv'
  <1>0. Types
    BY DEF StoreInv
  <1>1. PICK x \in Ids, v \in 1 .. MaxVersion : /\ x = NextMissing /\ v = Fold(blob, log)[x].scan
                                                /\ Fold(blob, log)[x] # NoRec /\ position[x] = 0
    BY <1>0, NextFacts DEF OpenAppend, Merged
  <1>2. PICK m : m = Fold(blob, log)[x]
    OBVIOUS
  <1>3. PICK R : R = IF ragged THEN AnyScan(allowed[x]) ELSE allowed[x]
    OBVIOUS
  <1>4. /\ phase = "reading" /\ AppendSlot(x, v) /\ mapped' = Len(slots')
        /\ position' = [position EXCEPT ![x] = Len(slots')]
        /\ allowed' = [allowed EXCEPT ![x] = R]
        /\ UNCHANGED <<records, blob, log, flushed, phase, scenario, misnumbered, pc>>
    BY <1>1, <1>3 DEF OpenAppend, life, bounds, Merged
  <1>5. /\ slots \in Seq(Slots) /\ flushed \in Seq(Slots) /\ allowed \in [Ids -> SUBSET Stored] /\ PowerLoss \in BOOLEAN
        /\ Single(slots, stray) /\ (PowerLoss => Same(slots, flushed)) /\ pc = "idle"
        /\ m \in Stored
    BY <1>2, <1>4, PromiseFacts DEF StoreInv, Stages
  <1>6. PowerLoss' = PowerLoss /\ Numbered' = Numbered /\ Numbered
    BY <1>4 DEF PowerLoss, Numbered
  <1>7. PICK E : E = stray'
    OBVIOUS
  <1>8. /\ stray \subseteq E
        /\ ragged => x \in E
        /\ ~ragged => slots' = Append(slots, Slot(x, v))
    BY <1>0, <1>4, <1>7, Appending
  <1>9. PICK e \in Slots : /\ slots' = Append(slots, e)
                           /\ e.committed => e.id \in E \/ e.id = x
                           /\ x \notin E => e.id = x /\ e.committed
    BY <1>0, <1>4, <1>7, Appending
  <1>10. ~ragged => e.val = v
    <2>1. Append(slots, e)[Len(slots) + 1] = e /\ Append(slots, Slot(x, v))[Len(slots) + 1] = Slot(x, v)
      BY <1>5
    <2>. QED
      BY <1>8, <1>9, <2>1 DEF Slot
  <1>11. \A y \in Ids : Assured(y, InUse(y), Fold(blob, log)[y], allowed[y], position[y], slots, flushed, stray, Numbered, PowerLoss)
    BY <1>4, PromiseOf DEF Opened
  <1>12. m \in allowed[x] /\ (x \notin E => CommittedIn(slots, x) = {})
    BY <1>1, <1>2, <1>8, <1>11 DEF Assured
  <1>13. R \in SUBSET Stored /\ m \in R /\ Rec(m.body, e.val) \in R
    <2>1. allowed[x] \in SUBSET Stored /\ m.body \in Bodies(allowed[x]) /\ e.val \in 1 .. MaxVersion
      BY <1>5, <1>12 DEF Bodies, Slots
    <2>2. m \in [body : 1 .. MaxVersion, scan : 1 .. MaxVersion]
      BY <1>1, <1>2, <1>5 DEF Stored
    <2>3. m.body # 0 /\ m.scan = v /\ Rec(m.body, m.scan) = m
      BY <1>1, <1>2, <2>2 DEF Rec
    <2>4. CASE ragged
      <3>1. /\ Rec(m.body, e.val) \in WithScan(allowed[x], e.val) /\ WithScan(allowed[x], e.val) \subseteq AnyScan(allowed[x])
            /\ allowed[x] \subseteq AnyScan(allowed[x]) /\ AnyScan(allowed[x]) \in SUBSET Stored
        BY <2>1, <2>3, ScanFacts
      <3>. QED
        BY <1>3, <1>12, <2>4, <3>1
    <2>5. CASE ~ragged
      BY <1>3, <1>10, <1>12, <2>1, <2>3, <2>5
    <2>. QED
      BY <2>4, <2>5
  <1>14. allowed' \in [Ids -> SUBSET Stored]
    BY <1>4, <1>5, <1>13
  <1>15. /\ Single(slots', stray') /\ (PowerLoss => Same(slots', flushed))
         /\ \A p \in DOMAIN slots : p \in DOMAIN slots' /\ slots'[p] = slots[p]
    <2>1. Single(slots', stray') /\ (PowerLoss => Same(slots', flushed))
      BY <1>5, <1>7, <1>8, <1>9, <1>12, SlotsBehind
    <2>2. \A p \in DOMAIN slots : p \in DOMAIN Append(slots, e) /\ Append(slots, e)[p] = slots[p]
      BY <1>5
    <2>. QED
      BY <1>9, <2>1, <2>2
  <1>16. ASSUME PowerLoss
         PROVE  /\ \A p \in DOMAIN flushed : flushed[p] = slots'[p]
                /\ \A y \in Ids : y \notin stray' /\ position'[y] \in DOMAIN slots' /\ position'[y] \notin DOMAIN flushed =>
                     slots'[position'[y]].val = Fold(blob, log)[y].scan
    <2>1. \A p \in DOMAIN flushed : flushed[p] = slots[p] /\ p \in DOMAIN slots
      <3>1. Len(flushed) <= Len(slots)
        BY <1>5, <1>16 DEF Same
      <3>2. \A p \in DOMAIN flushed : p \in DOMAIN slots
        BY <1>5, <3>1
      <3>. QED
        BY <1>4, <1>16, <3>2 DEF PromiseInv, Tidy
    <2>2. ASSUME NEW y \in Ids, y \notin stray', position'[y] \in DOMAIN slots', position'[y] \notin DOMAIN flushed
          PROVE  slots'[position'[y]].val = Fold(blob, log)[y].scan
      <3>1. CASE y = x
        <4>1. position'[x] = Len(Append(slots, e)) /\ slots' = Append(slots, e)
          BY <1>0, <1>4, <1>9 DEF Types
        <4>2. slots'[position'[x]] = e
          BY <1>5, <4>1
        <4>3. e.val = v
          BY <1>7, <1>8, <1>10, <2>2, <3>1
        <4>. QED
          BY <1>1, <3>1, <4>2, <4>3
      <3>2. CASE y # x
        <4>1. position'[y] = position[y] /\ position[y] # 0
          <5>1. position'[y] = position[y]
            BY <1>0, <1>4, <3>2 DEF Types
          <5>2. slots' \in Seq(Slots)
            BY <1>5, <1>9
          <5>. QED
            BY <2>2, <5>1, <5>2
        <4>2. position[y] \in DOMAIN slots
          BY <1>4, <1>6, <4>1, PromiseOf DEF Opened
        <4>3. slots[position[y]].val = Fold(blob, log)[y].scan
          BY <1>4, <1>7, <1>8, <1>16, <2>2, <4>1, <4>2 DEF PromiseInv, Tidy
        <4>. QED
          BY <1>15, <4>1, <4>2, <4>3
      <3>. QED
        BY <3>1, <3>2
    <2>. QED
      BY <1>15, <2>1, <2>2
  <1>17. Tidy'
    BY <1>4, <1>5, <1>6, <1>15, <1>16 DEF Tidy
  <1>18. BlobAndLog'
    BY <1>4, <1>5 DEF BlobAndLog
  <1>19. ASSUME NEW y \in Ids
         PROVE  Assured(y, InUse(y), Fold(blob, log)[y], allowed'[y], position'[y], slots', flushed, E, Numbered, PowerLoss)
    <2>1. CASE y # x
      <3>1. allowed'[y] = allowed[y] /\ position'[y] = position[y]
        BY <1>0, <1>4, <2>1 DEF Types
      <3>2. Assured(y, InUse(y), Fold(blob, log)[y], allowed[y], position[y], slots, flushed, stray, Numbered, PowerLoss)
        BY <1>11
      <3>3. Assured(y, InUse(y), Fold(blob, log)[y], allowed[y], position[y], Append(slots, e), flushed, E, Numbered, PowerLoss)
        BY <1>5, <1>8, <1>9, <1>12, <2>1, <3>2, AssuredBehind
      <3>. QED
        BY <1>9, <3>1, <3>3
    <2>2. CASE y = x
      <3>1. allowed'[x] = R /\ position'[x] = Len(Append(slots, e)) /\ InUse(x) = m.body
        BY <1>0, <1>2, <1>4, <1>5, <1>9 DEF Types, InUse, Merged
      <3>2. m.body \in Bodies(R) /\ Good(m.body, m, R, e.val)
        BY <1>13 DEF Good, Bodies
      <3>3. Assured(x, m.body, m, R, Len(Append(slots, e)), Append(slots, e), flushed, E, Numbered, PowerLoss)
        BY <1>5, <1>9, <1>12, <1>13, <3>2, AssuredLast
      <3>. QED
        BY <1>2, <1>9, <2>2, <3>1, <3>3
    <2>. QED
      BY <2>1, <2>2
  <1>. QED
    <2>1. PICK use : use = [y \in Ids |-> InUse(y)]
      OBVIOUS
    <2>2. \A y \in Ids : InUse(y)' = use[y]
      BY <1>4, <2>1 DEF InUse, Merged
    <2>3. \A y \in Ids : Assured(y, use[y], Fold(blob', log')[y], allowed'[y], position'[y], slots', flushed',
                                 stray', Numbered', PowerLoss')
      BY <1>4, <1>6, <1>7, <1>19, <2>1
    <2>4. phase' \in {"reading", "blob", "opened"}
      BY <1>4
    <2>. QED
      BY <1>14, <1>17, <1>18, <2>2, <2>3, <2>4, OpeningKept

LEMMA OpenAppendFailsKept ==
  ASSUME AllSafe, StoreInv, PromiseInv, OpenAppendFails
  PROVE  PromiseInv'
  <1>0. Types
    BY DEF StoreInv
  <1>1. PICK x \in Ids, v \in 1 .. MaxVersion : x = NextMissing /\ v = Merged[x].scan
    BY <1>0, NextFacts DEF OpenAppendFails
  <1>2. phase = "reading" /\ AppendFails(x, v) /\ flushed' = flushed /\ Gone /\ "slot_append" \in Faults
    BY <1>1 DEF OpenAppendFails
  <1>3. ~PowerLoss /\ \A y \in Ids : allowed[y] \in SUBSET Stored /\ Fold(blob, log)[y] \in Stored
    BY <1>2, PromiseFacts
  <1>4. /\ Single(slots', stray')
        /\ \A y \in Ids : Assured(y, InUse(y), Fold(blob, log)[y], allowed[y], position[y], slots', flushed, stray',
                                  Numbered, PowerLoss)
    BY <1>2, FailedKept DEF Opened
  <1>5. slots' \in Seq(Slots) /\ stray' \in SUBSET Ids /\ stray \subseteq stray'
    BY <1>0, <1>2, FailedAppend
  <1>6. Placed(position, slots', mapped, stray')
    BY <1>0, <1>2, FailedAppendPlaced DEF StoreInv, Numbered
  <1>7. ASSUME NEW y \in Ids, y \notin stray' PROVE Recovered(Fold(blob, log)[y], slots', y) \in allowed[y]
    <2>1. PICK s \in Seq(Slots), D \in SUBSET Ids : s = slots' /\ D = stray'
      BY <1>5
    <2>2. \A i, j \in CommittedIn(s, y) : i = j
      BY <1>4, <1>7, <2>1 DEF Single
    <2>3. position[y] # 0 => position[y] \in CommittedIn(s, y)
      BY <1>6, <1>7, <2>1 DEF Placed
    <2>4. s \in Left(FALSE, s, flushed) /\ flushed \in Seq(Slots)
      BY <1>0 DEF Left, Types
    <2>5. Assured(y, InUse(y), Fold(blob, log)[y], allowed[y], position[y], s, flushed, D, Numbered, FALSE)
      <3>1. PowerLoss = FALSE
        <4>1. PowerLoss \in BOOLEAN
          BY PromiseFacts
        <4>. QED
          BY <1>3, <4>1
      <3>. QED
        BY <1>4, <2>1, <3>1
    <2>6. Recovered(Fold(blob, log)[y], s, y) \in allowed[y]
      <3>1. y \notin D
        BY <1>7, <2>1
      <3>. QED
        BY <1>3, <2>2, <2>3, <2>4, <2>5, <3>1, AssuredAfter
    <2>. QED
      BY <2>1, <2>6
  <1>. QED
    BY <1>2, <1>3, <1>4, <1>5, <1>7, GoneKept

LEMMA OpenBlobKept ==
  ASSUME AllSafe, StoreInv, PromiseInv, OpenBlob
  PROVE  PromiseInv'
  <1>1. /\ phase = "reading" /\ phase' = "blob" /\ blob' = Fold(blob, log)
        /\ UNCHANGED <<records, position, mapped, log, slots, flushed, stray, scenario, misnumbered, pc, allowed>>
    BY DEF OpenBlob, memory, file, bounds, Merged
  <1>2. Fold(Fold(blob, log), log) = Fold(blob, log) /\ pc = "idle" /\ allowed \in [Ids -> SUBSET Stored]
    BY <1>1, FoldFacts, PromiseFacts DEF StoreInv, Types, Stages
  <1>3. PowerLoss' = PowerLoss /\ Numbered' = Numbered /\ Fold(blob', log') = Fold(blob, log)
    BY <1>1, <1>2 DEF PowerLoss, Numbered
  <1>4. Tidy'
    <2>1. Fold(blob, log)' = Fold(blob, log)
      BY <1>3
    <2>. QED
      BY <1>1, <1>2, <1>3, <2>1 DEF PromiseInv, Tidy
  <1>5. BlobAndLog'
    BY <1>1, <1>2, <1>3 DEF BlobAndLog
  <1>6. \A x \in Ids : Assured(x, InUse(x), Fold(blob, log)[x], allowed[x], position[x], slots, flushed, stray, Numbered, PowerLoss)
    BY <1>1, PromiseOf DEF Opened
  <1>. QED
    <2>1. PICK use : use = [x \in Ids |-> InUse(x)]
      OBVIOUS
    <2>2. \A x \in Ids : InUse(x)' = use[x]
      BY <1>1, <1>3, <2>1 DEF InUse, Merged
    <2>3. \A x \in Ids : Assured(x, use[x], Fold(blob', log')[x], allowed'[x], position'[x], slots', flushed',
                                 stray', Numbered', PowerLoss')
      BY <1>1, <1>3, <1>6, <2>1
    <2>4. phase' \in {"reading", "blob", "opened"} /\ allowed' \in [Ids -> SUBSET Stored]
      BY <1>1, <1>2
    <2>. QED
      BY <1>4, <1>5, <2>2, <2>3, <2>4, OpeningKept

LEMMA OpenLogKept ==
  ASSUME AllSafe, StoreInv, PromiseInv, OpenLog
  PROVE  PromiseInv'
  <1>1. /\ phase = "blob" /\ phase' = "opened" /\ log' = <<>>
        /\ records' = [x \in Ids |-> Fold(blob, log)[x].body]
        /\ UNCHANGED <<position, mapped, blob, slots, flushed, stray, scenario, misnumbered, pc, allowed>>
    BY DEF OpenLog, Merged, file, bounds
  <1>2. Fold(blob, <<>>) = blob /\ Fold(blob, log) = blob /\ pc = "idle" /\ allowed \in [Ids -> SUBSET Stored]
    BY <1>1, FoldFacts, PromiseFacts DEF StoreInv, Types, Stages, PromiseInv, BlobAndLog
  <1>3. PowerLoss' = PowerLoss /\ Numbered' = Numbered /\ Fold(blob', log') = Fold(blob, log)
    BY <1>1, <1>2 DEF PowerLoss, Numbered
  <1>4. Tidy'
    <2>1. Fold(blob, log)' = Fold(blob, log)
      BY <1>3
    <2>. QED
      BY <1>1, <1>2, <1>3, <2>1 DEF PromiseInv, Tidy
  <1>5. BlobAndLog'
    BY <1>1, <1>2 DEF BlobAndLog
  <1>6. \A x \in Ids : Assured(x, InUse(x), Fold(blob, log)[x], allowed[x], position[x], slots, flushed, stray, Numbered, PowerLoss)
    BY <1>1, PromiseOf DEF Opened
  <1>. QED
    <2>1. PICK use : use = [x \in Ids |-> InUse(x)]
      OBVIOUS
    <2>2. \A x \in Ids : InUse(x)' = use[x]
      BY <1>1, <2>1 DEF InUse, Merged
    <2>3. \A x \in Ids : Assured(x, use[x], Fold(blob', log')[x], allowed'[x], position'[x], slots', flushed',
                                 stray', Numbered', PowerLoss')
      BY <1>1, <1>3, <1>6, <2>1
    <2>4. phase' \in {"reading", "blob", "opened"} /\ allowed' \in [Ids -> SUBSET Stored]
      BY <1>1, <1>2
    <2>. QED
      BY <1>4, <1>5, <2>2, <2>3, <2>4, OpeningKept

LEMMA ServeKept ==
  ASSUME AllSafe, StoreInv, PromiseInv, Serve
  PROVE  PromiseInv'
  <1>1. /\ phase = "opened" /\ phase' = "up" /\ allowed' = [x \in Ids |-> {View(x)}]
        /\ UNCHANGED <<records, position, mapped, blob, log, slots, flushed, stray, scenario, misnumbered, pc>>
    BY DEF Serve, memory, file, bounds
  <1>2. /\ Types /\ pc = "idle" /\ log = <<>> /\ mapped = Len(slots)
        /\ \A x \in Ids : position[x] = 0 <=> records[x] = 0
        /\ slots \in Seq(Slots) /\ blob \in [Ids -> Stored] /\ Single(slots, stray) /\ (PowerLoss => Same(slots, flushed))
        /\ \A x \in Ids : blob[x] \in Stored
    BY <1>1, PromiseFacts DEF StoreInv, Stages, Held, PromiseInv, BlobAndLog, Tidy
  <1>3. Fold(blob, log) = blob
    BY <1>2, FoldFacts DEF Types
  <1>4. \A x \in Ids : blob[x].body = records[x]
    BY <1>1, <1>2 DEF PromiseInv, BlobAndLog, Mentions
  <1>5. PowerLoss' = PowerLoss /\ Numbered
    BY <1>1 DEF PowerLoss, Numbered
  <1>6. ASSUME NEW x \in Ids, records[x] # 0
        PROVE  position[x] \in DOMAIN slots /\ position[x] # 0 /\ Mapped(x) /\ View(x) = Rec(records[x], slots[position[x]].val)
    <2>1. position[x] \in DOMAIN slots /\ position[x] # 0
      BY <1>1, <1>2, <1>5, <1>6, PromiseOf DEF Opened
    <2>2. Mapped(x)
      BY <1>2, <2>1 DEF Mapped
    <2>. QED
      BY <1>6, <2>1, <2>2 DEF View
  <1>7. \A x \in Ids : View(x) \in Stored
    BY <1>2, <1>6, ViewStored
  <1>8. Tidy'
    BY <1>1, <1>2, <1>5 DEF Tidy
  <1>9. BlobAndLog'
    BY <1>1, <1>2, <1>4 DEF BlobAndLog
  <1>10. allowed' \in [Ids -> SUBSET Stored]
    BY <1>1, <1>7
  <1>11. ASSUME NEW x \in Ids, NEW num
         PROVE  Assured(x, records[x], blob[x], {View(x)}, position[x], slots, flushed, stray, num, PowerLoss)
    <2>1. Assured(x, records[x], blob[x], allowed[x], position[x], slots, flushed, stray, Numbered, PowerLoss)
      <3>1. InUse(x) = records[x]
        BY <1>1 DEF InUse
      <3>. QED
        BY <1>1, <1>3, <3>1, PromiseOf DEF Opened
    <2>2. CASE records[x] = 0
      <3>1. View(x) = NoRec /\ blob[x] = NoRec /\ position[x] = 0
        <4>1. blob[x].body = 0 /\ blob[x] \in Stored
          BY <1>2, <1>4, <2>2
        <4>. QED
          BY <1>2, <2>2, <4>1 DEF View, Stored
      <3>2. records[x] \in Bodies({View(x)}) /\ blob[x].body \in Bodies({View(x)})
        BY <1>4, <2>2, <3>1 DEF Bodies
      <3>3. x \notin stray => CommittedIn(slots, x) = {}
        BY <2>1, <3>1 DEF Assured
      <3>. QED
        BY <3>1, <3>2, <3>3 DEF Assured
    <2>3. CASE records[x] # 0
      <3>1. PICK p \in DOMAIN slots : p = position[x] /\ p # 0 /\ View(x) = Rec(records[x], slots[p].val)
        BY <1>6, <2>3
      <3>2. records[x] \in Bodies({View(x)}) /\ blob[x].body \in Bodies({View(x)})
        BY <1>4, <3>1 DEF Bodies, Rec
      <3>3. Good(records[x], blob[x], {View(x)}, slots[p].val)
        BY <1>4, <3>1 DEF Good
      <3>4. ASSUME x \notin stray, PowerLoss, p \in DOMAIN flushed PROVE Good(records[x], blob[x], {View(x)}, flushed[p].val)
        <4>1. flushed[p] = slots[p]
          BY <1>1, <3>4 DEF PromiseInv, Tidy
        <4>. QED
          BY <3>3, <4>1
      <3>5. ASSUME x \notin stray, PowerLoss, p \notin DOMAIN flushed PROVE blob[x] \in {View(x)}
        <4>1. slots[p].val = blob[x].scan
          BY <1>1, <1>3, <3>1, <3>5 DEF PromiseInv, Tidy
        <4>2. blob[x] \in [body : 1 .. MaxVersion, scan : 1 .. MaxVersion]
          BY <1>2, <1>4, <2>3 DEF Stored, NoRec
        <4>3. Rec(blob[x].body, blob[x].scan) = blob[x]
          BY <4>2 DEF Rec
        <4>. QED
          BY <1>4, <3>1, <4>1, <4>3
      <3>6. x \notin stray => Firm(records[x], blob[x], {View(x)}, slots, flushed, p, PowerLoss)
        BY <3>3, <3>4, <3>5 DEF Firm
      <3>7. x \notin stray => CommittedIn(slots, x) # {} /\ SlotIn(slots, x) = p
        <4>1. x \notin stray => p \in CommittedIn(slots, x)
          BY <1>1, <1>5, <3>1, PromiseOf DEF Opened
        <4>2. x \notin stray => SlotIn(slots, x) \in CommittedIn(slots, x)
          BY <1>2, <4>1, SlotInFacts
        <4>. QED
          BY <1>2, <4>1, <4>2 DEF Single
      <3>. QED
        BY <3>1, <3>2, <3>3, <3>6, <3>7 DEF Assured
    <2>. QED
      BY <2>2, <2>3
  <1>. QED
    <2>1. \A y \in Ids : Assured(y, records'[y], Fold(blob', log')[y], allowed'[y], position'[y], slots', flushed',
                                 stray', Numbered', PowerLoss')
      BY <1>1, <1>3, <1>5, <1>11
    <2>. QED
      BY <1>1, <1>8, <1>9, <1>10, <2>1, UpKept

LEMMA StutterKept ==
  ASSUME PromiseInv, UNCHANGED vars
  PROVE  PromiseInv'
  <1>1. UNCHANGED <<records, position, mapped, blob, log, slots, flushed, phase, pc, cur, scenario, allowed, misnumbered, stray>>
    BY DEF vars
  <1>2. PowerLoss' = PowerLoss /\ Numbered' = Numbered /\ Fold(blob, log)' = Fold(blob, log)
    BY <1>1 DEF PowerLoss, Numbered
  <1>3. Survivors' = Survivors /\ \A x \in Ids : InUse(x)' = InUse(x)
    BY <1>1, <1>2 DEF Survivors, InUse, Merged
  <1>4. Tidy'
    BY <1>1, <1>2 DEF PromiseInv, Tidy
  <1>5. BlobAndLog'
    BY <1>1, <1>2 DEF PromiseInv, BlobAndLog
  <1>6. Outcomes'
    BY <1>1, <1>2, <1>3 DEF PromiseInv, Outcomes, Opened
  <1>. QED
    BY <1>4, <1>5, <1>6 DEF PromiseInv

LEMMA InitPromise == Init => PromiseInv
  <1>. SUFFICES ASSUME Init PROVE PromiseInv
    OBVIOUS
  <1>1. /\ flushed = slots /\ log = <<>> /\ mapped = Len(slots) /\ stray = {} /\ phase = "up" /\ pc = "idle"
        /\ ~misnumbered
        /\ records = [x \in Ids |-> IF x \in Loaded THEN 1 ELSE 0]
        /\ blob = [x \in Ids |-> IF x \in Loaded THEN Rec(1, 1) ELSE NoRec]
        /\ allowed = [x \in Ids |-> {blob[x]}]
    BY DEF Init
  <1>2. /\ slots \in Seq(Slots) /\ \A x \in Ids : position[x] \in {0, SlotIn(slots, x)}
        /\ \A x \in Ids : position[x] = 0 <=> records[x] = 0
        /\ \A x \in Ids : records[x] = 0 => CommittedIn(slots, x) = {}
        /\ \A x \in Ids : \A p \in CommittedIn(slots, x) : p = position[x] /\ slots[p].val = 1
    BY InitSlots
  <1>3. 1 \in 1 .. MaxVersion
    <2>1. scenario \in Scenarios
      BY DEF Init
    <2>. QED
      BY <2>1, Parameters
  <1>4. \A x \in Ids : blob[x].body = records[x] /\ (records[x] # 0 => records[x] = 1 /\ blob[x] = Rec(1, 1))
    BY <1>1 DEF Rec, NoRec
  <1>5. blob \in [Ids -> Stored] /\ allowed \in [Ids -> SUBSET Stored]
    <2>1. Rec(1, 1) \in Stored /\ NoRec \in Stored
      BY <1>3 DEF Rec, Stored
    <2>2. blob \in [Ids -> Stored]
      BY <1>1, <2>1
    <2>. QED
      BY <1>1, <2>2
  <1>6. Fold(blob, log) = blob
    <2>1. log \in Seq(Entries)
      BY <1>1
    <2>2. Fold(blob, <<>>) = blob
      BY <1>5, <2>1, FoldFacts
    <2>. QED
      BY <1>1, <2>2
  <1>7. Tidy
    <2>1. Single(slots, {})
      BY <1>2 DEF Single
    <2>2. Same(slots, slots)
      BY <1>2 DEF Same
    <2>. QED
      BY <1>1, <2>1, <2>2 DEF Tidy
  <1>8. BlobAndLog
    BY <1>1, <1>4 DEF BlobAndLog
  <1>9. ASSUME NEW x \in Ids, NEW loss
        PROVE  Assured(x, records[x], blob[x], {blob[x]}, position[x], slots, slots, {}, TRUE, loss)
    <2>1. records[x] \in Bodies({blob[x]}) /\ blob[x].body \in Bodies({blob[x]})
      BY <1>4 DEF Bodies
    <2>2. CASE records[x] = 0
      BY <1>2, <2>1, <2>2 DEF Assured
    <2>3. CASE records[x] # 0
      <3>1. PICK p : p = position[x] /\ p # 0 /\ p \in CommittedIn(slots, x)
        <4>1. position[x] # 0 /\ position[x] = SlotIn(slots, x)
          BY <1>2, <2>3
        <4>2. CommittedIn(slots, x) # {}
          BY <4>1 DEF SlotIn
        <4>. QED
          BY <1>2, <4>1, <4>2, SlotInFacts
      <3>2. p \in DOMAIN slots /\ slots[p].val = 1
        BY <1>2, <3>1 DEF CommittedIn
      <3>3. Rec(1, 1).body = 1
        BY DEF Rec
      <3>4. Good(records[x], blob[x], {blob[x]}, slots[p].val)
        BY <1>4, <2>3, <3>2, <3>3 DEF Good
      <3>5. Firm(records[x], blob[x], {blob[x]}, slots, slots, p, loss)
        BY <3>2, <3>4 DEF Firm
      <3>. QED
        BY <2>1, <3>1, <3>2, <3>4, <3>5 DEF Assured
    <2>. QED
      BY <2>2, <2>3
  <1>10. Outcomes
    <2>1. Numbered = TRUE /\ \A x \in Ids : InUse(x) = records[x] /\ allowed[x] = {blob[x]}
      BY <1>1 DEF Numbered, InUse
    <2>2. \A x \in Ids : Assured(x, InUse(x), Fold(blob, log)[x], allowed[x], position[x], slots, flushed, stray,
                                 Numbered, PowerLoss)
      BY <1>1, <1>6, <1>9, <2>1
    <2>. QED
      BY <1>1, <1>5, <2>2 DEF Outcomes
  <1>. QED
    BY <1>7, <1>8, <1>10 DEF PromiseInv

------------------------------------------------------------------------------
(* What readers find                                                       *)

\* The invariant of the promises: whatever the process does next, and whatever of
\* the slots a crash at this moment would leave, blob, log and slots hold for each
\* id an outcome that the answers so far allow, but for the values in slots that
\* failed appends and compactions put out of step (GenericMmapStore, open_portable).
THEOREM PromiseInvariant ==
  ASSUME AllSafe
  PROVE  Spec => []PromiseInv
  <1>1. Init => PromiseInv
    BY InitPromise
  <1>2. ASSUME StoreInv, PromiseInv, [Next]_vars PROVE PromiseInv'
    <2>1. ASSUME NEW x \in Ids, Insert(x) PROVE PromiseInv'
      BY <1>2, <2>1, InsertKept
    <2>2. ASSUME NEW x \in Ids, Replace(x) PROVE PromiseInv'
      BY <1>2, <2>2, ReplaceKept
    <2>3. ASSUME NEW x \in Ids, Delete(x) PROVE PromiseInv'
      BY <1>2, <2>3, DeleteKept
    <2>4. ASSUME NEW x \in Ids, Update(x) PROVE PromiseInv'
      BY <1>2, <2>4, UpdateKept
    <2>5. CASE InsertSlot
      BY <1>2, <2>5, InsertSlotKept
    <2>6. CASE InsertSlotFails
      BY <1>2, <2>6, InsertSlotFailsKept
    <2>7. CASE ReplaceSlot
      BY <1>2, <2>7, ReplaceSlotKept
    <2>8. CASE DeleteSlot
      BY <1>2, <2>8, DeleteSlotKept
    <2>9. CASE FlushSlots
      BY <1>2, <2>9, FlushSlotsKept
    <2>10. CASE CompactBlob
      BY <1>2, <2>10, CompactBlobKept
    <2>11. CASE CompactSlots \/ CompactSlotsFails
      BY <1>2, <2>11, CompactSlotsKept
    <2>12. CASE CompactLog
      BY <1>2, <2>12, CompactLogKept
    <2>13. CASE CompactLogFails
      BY <1>2, <2>13, CompactLogFailsKept
    <2>14. CASE Panic \/ OpenFails
      BY <1>2, <2>14, PanicKept
    <2>15. CASE Crash
      BY <1>2, <2>15, CrashKept
    <2>16. CASE ReadTorn
      BY <1>2, <2>16, ReadTornKept
    <2>17. CASE OpenRead
      BY <1>2, <2>17, OpenReadKept
    <2>18. CASE OpenAppend
      BY <1>2, <2>18, OpenAppendKept
    <2>19. CASE OpenAppendFails
      BY <1>2, <2>19, OpenAppendFailsKept
    <2>20. CASE OpenBlob
      BY <1>2, <2>20, OpenBlobKept
    <2>21. CASE OpenLog
      BY <1>2, <2>21, OpenLogKept
    <2>22. CASE Serve
      BY <1>2, <2>22, ServeKept
    <2>23. CASE UNCHANGED vars
      BY <1>2, <2>23, StutterKept
    <2>. QED
      BY <1>2, <2>1, <2>2, <2>3, <2>4, <2>5, <2>6, <2>7, <2>8, <2>9, <2>10, <2>11, <2>12, <2>13, <2>14,
         <2>15, <2>16, <2>17, <2>18, <2>19, <2>20, <2>21, <2>22, <2>23 DEF Next
  <1>. QED
    BY <1>1, <1>2, StoreInvariant, PTL DEF Spec

\* What a reader finds is an outcome the answers so far allow, whatever was
\* compacted, crashed or failed since: all of the record, or all but the value in a
\* slot that a failed append or compaction put out of step (insert, replace,
\* delete, update, compact, open_portable).
THEOREM PromisesKept ==
  ASSUME AllSafe
  PROVE  Spec => []Promised
  <1>1. StoreInv /\ PromiseInv => Promised
    <2>. SUFFICES ASSUME StoreInv, PromiseInv, Reading, NEW x \in Ids
                  PROVE  IF misnumbered \/ (x \in Live /\ ~Mapped(x))
                         THEN records[x] \in Bodies(allowed[x])
                         ELSE View(x) \in allowed[x]
      BY DEF Promised, Bodies
    <2>1. phase \in {"opened", "up"} /\ pc = "idle" /\ (~misnumbered => Numbered)
      BY DEF Reading, Numbered
    <2>2. InUse(x) = records[x]
      BY <2>1 DEF InUse
    <2>3. /\ Assured(x, records[x], Fold(blob, log)[x], allowed[x], position[x], slots, flushed, stray, Numbered, PowerLoss)
          /\ position[x] = 0 <=> records[x] = 0
      BY <2>1, <2>2, PromiseOf DEF Opened, StoreInv, Held
    <2>4. records[x] \in Bodies(allowed[x]) /\ allowed[x] \in SUBSET Stored
      BY <2>3 DEF Assured, PromiseInv, Outcomes
    <2>5. CASE records[x] = 0
      <3>1. NoRec \in Stored /\ NoRec.body = 0
        BY DEF NoRec, Stored
      <3>2. NoRec \in allowed[x]
        BY <2>4, <2>5, <3>1, BodiesFacts
      <3>. QED
        BY <2>4, <2>5, <3>2 DEF View
    <2>6. CASE records[x] # 0 /\ Mapped(x) /\ ~misnumbered
      <3>1. Good(records[x], Fold(blob, log)[x], allowed[x], slots[position[x]].val)
        BY <2>1, <2>3, <2>6 DEF Assured
      <3>. QED
        BY <2>6, <3>1 DEF Good, View, Live
    <2>. QED
      BY <2>4, <2>5, <2>6 DEF Live
  <1>. QED
    BY <1>1, StoreInvariant, PromiseInvariant, PTL
==============================================================================
