------------------------------- MODULE DogProofs -------------------------------
(***************************************************************************)
(* The two stores of dogs.  First, that ages follow the dogs, for any lists of *)
(* dogs in any order, any number of openings, updates and crashes: what the   *)
(* choice of a slot and the sorted walk over the slots return, the invariant  *)
(* that ties the two files and the memory together, and the two properties.   *)
(* Then that each of the four shared stores is an AgeMap, for any threads,    *)
(* dogs, ages and number of shards: the invariant of the locks, the cache and *)
(* the actor's queue, and the step of the map, or none, that each step is.    *)
(***************************************************************************)
EXTENDS DogStore, ConcurrentStores, TLAPS, FiniteSetTheorems, FunctionTheorems

------------------------------------------------------------------------------
(* Numbers                                                                 *)

\* A set of numbers that is not empty has a smallest one.
LEMMA SmallestOf ==
  ASSUME NEW T \in SUBSET Nat, T # {}
  PROVE  \E m \in T : \A k \in T : m <= k
  <1>. DEFINE R == OpToRel(<, Nat)
  <1>1. IsWellFoundedOn(R, Nat)
    BY NatLessThanWellFounded
  <1>2. \A x, y \in Nat : <<x, y>> \in R <=> x < y
    BY DEF OpToRel
  <1>. HIDE DEF R
  <1>3. PICK m \in T : \A y \in T : ~ (<<y, m>> \in R)
    BY <1>1, WFMin
  <1>4. ASSUME NEW k \in T PROVE m <= k
    <2>1. k \in Nat /\ m \in Nat
      OBVIOUS
    <2>2. ~(k < m)
      BY <1>2, <1>3, <2>1
    <2>. QED
      BY <2>1, <2>2
  <1>. QED
    BY <1>4

\* And a greatest, if they are bounded.
LEMMA GreatestOf ==
  ASSUME NEW n \in Nat, NEW T \in SUBSET (0 .. n), T # {}
  PROVE  \E m \in T : \A k \in T : k <= m
  <1>. DEFINE U == {n - i : i \in T}
  <1>1. U \in SUBSET Nat /\ U # {}
    <2>1. \A i \in T : i \in Int /\ 0 <= i /\ i <= n
      OBVIOUS
    <2>2. \A i \in T : n - i \in Nat
      BY <2>1
    <2>. QED
      BY <2>2
  <1>2. PICK u \in U : \A k \in U : u <= k
    BY <1>1, SmallestOf
  <1>3. PICK m \in T : u = n - m
    OBVIOUS
  <1>4. ASSUME NEW k \in T PROVE k <= m
    <2>1. n - k \in U
      OBVIOUS
    <2>2. n - m <= n - k
      BY <1>2, <1>3, <2>1
    <2>3. k \in Nat /\ m \in Nat
      OBVIOUS
    <2>. QED
      BY <2>2, <2>3
  <1>. QED
    BY <1>4

\* The numbers of a finite set, ascending: each of them once.
LEMMA AscendingFacts ==
  ASSUME NEW S \in SUBSET Nat, IsFiniteSet(S)
  PROVE  /\ Cardinality(S) \in Nat
         /\ Ascending(S) \in Bijection(1 .. Cardinality(S), S)
  <1>. DEFINE n == Cardinality(S)
              below(x) == {y \in S : y <= x}
              rank == [x \in S |-> Cardinality(below(x))]
  <1>1. n \in Nat
    BY FS_CardinalityType
  <1>2. \A x \in S : below(x) \in SUBSET S /\ x \in below(x)
    OBVIOUS
  <1>3. \A x \in S : IsFiniteSet(below(x)) /\ Cardinality(below(x)) \in 1 .. n
    <2>. SUFFICES ASSUME NEW x \in S PROVE IsFiniteSet(below(x)) /\ Cardinality(below(x)) \in 1 .. n
      OBVIOUS
    <2>. DEFINE B == below(x)
    <2>1. B \in SUBSET S /\ B # {}
      BY <1>2
    <2>. HIDE DEF B
    <2>2. IsFiniteSet(B) /\ Cardinality(B) <= n
      BY <2>1, FS_Subset
    <2>3. Cardinality(B) \in Nat /\ Cardinality(B) # 0
      BY <2>1, <2>2, FS_CardinalityType, FS_EmptySet
    <2>. QED
      BY <1>1, <2>2, <2>3 DEF B
  <1>4. \A x, y \in S : x < y => rank[x] < rank[y]
    <2>. SUFFICES ASSUME NEW x \in S, NEW y \in S, x < y PROVE rank[x] < rank[y]
      OBVIOUS
    <2>. DEFINE B == below(x)
                C == below(y)
    <2>1. x \in Nat /\ y \in Nat
      OBVIOUS
    <2>2. B \in SUBSET C /\ y \in C /\ y \notin B
      <3>1. \A z \in S : z <= x => z <= y
        BY <2>1
      <3>2. B \in SUBSET C
        BY <3>1
      <3>3. y \in C
        BY <1>2
      <3>4. y \notin B
        BY <2>1
      <3>. QED
        BY <3>2, <3>3, <3>4
    <2>3. IsFiniteSet(C) /\ Cardinality(C) \in Nat /\ Cardinality(B) \in Nat
      BY <1>3
    <2>4. rank[x] = Cardinality(B) /\ rank[y] = Cardinality(C)
      OBVIOUS
    <2>. HIDE DEF B, C, rank
    <2>5. Cardinality(B) <= Cardinality(C) /\ Cardinality(B) # Cardinality(C)
      BY <2>2, <2>3, FS_Subset
    <2>. QED
      BY <2>3, <2>4, <2>5
  <1>5. rank \in [S -> 1 .. n]
    BY <1>3
  <1>. HIDE DEF rank, below
  <1>6. rank \in Injection(S, 1 .. n)
    <2>1. \A x, y \in S : rank[x] = rank[y] => x = y
      <3>. SUFFICES ASSUME NEW x \in S, NEW y \in S, rank[x] = rank[y] PROVE x = y
        OBVIOUS
      <3>1. x \in Nat /\ y \in Nat /\ rank[x] \in Nat
        BY <1>5, <1>1
      <3>2. ~(x < y) /\ ~(y < x)
        BY <1>4, <3>1
      <3>. QED
        BY <3>1, <3>2
    <2>. QED
      BY <1>5, <2>1, Fun_IsInj
  <1>7. IsFiniteSet(1 .. n) /\ Cardinality(1 .. n) = n
    BY <1>1, FS_Interval
  <1>8. \A k \in 1 .. n : \E x \in S : rank[x] = k
    <2>1. rank \in Surjection(S, 1 .. n)
      BY <1>6, <1>7, FS_Injection
    <2>. QED
      BY <2>1 DEF Surjection
  <1>. DEFINE s == [k \in 1 .. n |-> CHOOSE x \in S : rank[x] = k]
  <1>9. \A k \in 1 .. n : s[k] \in S /\ rank[s[k]] = k
    BY <1>8
  <1>10. s \in [1 .. n -> S]
    BY <1>9
  <1>. HIDE DEF s
  <1>11. \A i, j \in DOMAIN s : i < j => s[i] < s[j]
    <2>. SUFFICES ASSUME NEW i \in 1 .. n, NEW j \in 1 .. n, i < j PROVE s[i] < s[j]
      BY <1>10
    <2>1. rank[s[i]] = i /\ rank[s[j]] = j /\ s[i] \in S /\ s[j] \in S
      BY <1>9
    <2>2. s[i] \in Nat /\ s[j] \in Nat /\ i \in Nat /\ j \in Nat
      <3>1. \A k \in 1 .. n : k \in Nat
        BY <1>1
      <3>2. \A x \in S : x \in Nat
        OBVIOUS
      <3>. QED
        BY <2>1, <3>1, <3>2
    <2>3. ~(s[j] < s[i]) /\ s[j] # s[i]
      BY <1>4, <2>1, <2>2
    <2>. QED
      BY <2>2, <2>3
  <1>. DEFINE a == Ascending(S)
  <1>12. a \in [1 .. n -> S] /\ \A i, j \in DOMAIN a : i < j => a[i] < a[j]
    BY <1>10, <1>11 DEF Ascending
  <1>. HIDE DEF a
  <1>13. a \in Injection(1 .. n, S)
    <2>1. \A i, j \in 1 .. n : a[i] = a[j] => i = j
      <3>. SUFFICES ASSUME NEW i \in 1 .. n, NEW j \in 1 .. n, a[i] = a[j] PROVE i = j
        OBVIOUS
      <3>1. i \in Nat /\ j \in Nat /\ a[i] \in Nat
        <4>1. \A k \in 1 .. n : k \in Nat
          BY <1>1
        <4>2. \A x \in S : x \in Nat
          OBVIOUS
        <4>. QED
          BY <1>12, <4>1, <4>2
      <3>2. ~(i < j) /\ ~(j < i)
        BY <1>12, <3>1
      <3>. QED
        BY <3>1, <3>2
    <2>. QED
      BY <1>12, <2>1, Fun_IsInj
  <1>14. a \in Surjection(1 .. n, S)
    BY <1>7, <1>13, FS_Injection
  <1>. QED
    BY <1>1, <1>13, <1>14 DEF Bijection, a

------------------------------------------------------------------------------
(* Slots                                                                   *)

\* An id that a file names has a slot of its own in it, the last of those with the id.
LEMMA SlotFacts ==
  ASSUME NEW f \in Seq(Slot), NEW x \in Named(f)
  PROVE  SlotOf(f, x) \in DOMAIN f /\ f[SlotOf(f, x)].id = x
  <1>. DEFINE P == {p \in DOMAIN f : f[p].id = x}
  <1>1. DOMAIN f = 1 .. Len(f) /\ Len(f) \in Nat
    OBVIOUS
  <1>2. P # {} /\ P \in SUBSET (0 .. Len(f))
    BY <1>1 DEF Named
  <1>3. PICK m \in P : \A p \in P : p <= m
    BY <1>1, <1>2, GreatestOf
  <1>4. m \in DOMAIN f /\ f[m].id = x /\ \A q \in DOMAIN f : f[q].id = x => q <= m
    BY <1>3
  <1>. QED
    BY <1>4 DEF SlotOf

\* Slots depend on the ids alone.
LEMMA SameIds ==
  ASSUME NEW f, NEW g, DOMAIN f = DOMAIN g, \A p \in DOMAIN f : f[p].id = g[p].id
  PROVE  /\ Named(f) = Named(g)
         /\ \A x : SlotOf(f, x) = SlotOf(g, x)
         /\ \A S : Positions(f, S) = Positions(g, S)
  <1>1. Named(f) = Named(g)
    BY DEF Named
  <1>2. \A x : SlotOf(f, x) = SlotOf(g, x)
    BY DEF SlotOf
  <1>. QED
    BY <1>1, <1>2 DEF Positions

\* Different ids have different slots, and their ages are of the type.
LEMMA SlotTypes ==
  ASSUME NEW f \in Seq(Slot)
  PROVE  /\ \A p \in DOMAIN f : f[p] \in Slot /\ f[p].id \in Ids /\ f[p].age \in Ages
         /\ Named(f) \subseteq Ids
         /\ \A x : Given(f, x) \subseteq Ages
         /\ Slots(f) \in [DOMAIN f -> SUBSET Ages]
  <1>1. \A p \in DOMAIN f : f[p] \in Slot
    OBVIOUS
  <1>2. \A p \in DOMAIN f : f[p].id \in Ids /\ f[p].age \in Ages
    BY <1>1 DEF Slot
  <1>. QED
    BY <1>1, <1>2 DEF Named, Given, Slots

\* What opening a list over a file leaves: a slot for each dog of the list, with the
\* file's age for it, or the list's if the file has none.
LEMMA ReconciledFacts ==
  ASSUME NEW l \in Seq(Slot), file \in Seq(Slot)
  PROVE  LET r == Reconciled(l) IN
         /\ r.f \in Seq(Slot) /\ Named(l) \subseteq Named(r.f) /\ r.p = Positions(r.f, Named(l))
         /\ \A x \in Named(r.f) :
              /\ x \in Named(file) => r.f[SlotOf(r.f, x)].age = file[SlotOf(file, x)].age
              /\ x \notin Named(file) => x \in Named(l) /\ r.f[SlotOf(r.f, x)].age \in Given(l, x)
  <1>1. CASE Named(l) \subseteq Named(file)
    <2>1. Reconciled(l) = [f |-> file, p |-> Positions(file, Named(l))]
      BY <1>1 DEF Reconciled
    <2>2. Reconciled(l).f = file /\ Reconciled(l).p = Positions(file, Named(l))
      BY <2>1
    <2>. QED
      BY <1>1, <2>2
  <1>2. CASE ~(Named(l) \subseteq Named(file))
    <2>. DEFINE g == [i \in DOMAIN l |->
                        [id |-> l[i].id,
                         age |-> IF l[i].id \in Named(file) THEN file[SlotOf(file, l[i].id)].age
                                 ELSE l[i].age]]
    <2>1. Reconciled(l) = [f |-> g, p |-> Positions(g, Named(l))]
      BY <1>2 DEF Reconciled
    <2>2. Reconciled(l).f = g /\ Reconciled(l).p = Positions(g, Named(l))
      <3>. HIDE DEF g
      <3>. QED
        BY <2>1
    <2>3. DOMAIN l = 1 .. Len(l) /\ Len(l) \in Nat
      OBVIOUS
    <2>4. \A i \in DOMAIN l : g[i].id = l[i].id /\ g[i] \in Slot
      <3>. SUFFICES ASSUME NEW i \in DOMAIN l PROVE g[i].id = l[i].id /\ g[i] \in Slot
        OBVIOUS
      <3>1. l[i].id \in Ids /\ l[i].age \in Ages
        BY SlotTypes
      <3>2. l[i].id \in Named(file) => file[SlotOf(file, l[i].id)].age \in Ages
        BY SlotTypes, SlotFacts
      <3>. QED
        BY <3>1, <3>2 DEF Slot
    <2>5. g \in Seq(Slot) /\ DOMAIN g = DOMAIN l
      BY <2>3, <2>4
    <2>6. Named(g) = Named(l)
      BY <2>4, <2>5 DEF Named
    <2>7. \A x \in Named(g) :
            /\ x \in Named(file) => g[SlotOf(g, x)].age = file[SlotOf(file, x)].age
            /\ x \notin Named(file) => g[SlotOf(g, x)].age \in Given(l, x)
      <3>. SUFFICES ASSUME NEW x \in Named(g)
                    PROVE  /\ x \in Named(file) => g[SlotOf(g, x)].age = file[SlotOf(file, x)].age
                           /\ x \notin Named(file) => g[SlotOf(g, x)].age \in Given(l, x)
        OBVIOUS
      <3>. DEFINE i == SlotOf(g, x)
      <3>1. i \in DOMAIN l /\ g[i].id = x
        <4>. HIDE DEF g
        <4>. QED
          BY <2>5, SlotFacts
      <3>. HIDE DEF i
      <3>2. l[i].id = x
        BY <2>4, <3>1
      <3>3. g[i].age = IF x \in Named(file) THEN file[SlotOf(file, x)].age ELSE l[i].age
        BY <3>1, <3>2
      <3>4. l[i].age \in Given(l, x)
        BY <3>1, <3>2 DEF Given
      <3>. HIDE DEF g
      <3>. QED
        BY <3>3, <3>4 DEF i
    <2>. HIDE DEF g
    <2>. QED
      BY <2>2, <2>5, <2>6, <2>7
  <1>. QED
    BY <1>1, <1>2

------------------------------------------------------------------------------
(* The inductive invariant                                                 *)

Types ==
  /\ file \in Seq(Slot) \cup {NoFile}
  /\ blob \in Lists \cup {NoFile} /\ told \in Lists \cup {NoFile} /\ list \in Lists \cup {<<>>}
  /\ phase \in {"down", "up", "create_blob", "open_blob"} /\ cut \in BOOLEAN
  /\ allowed \in [Ids -> SUBSET Ages]
  /\ updates \in 0 .. MaxUpdates /\ opens \in 0 .. MaxOpens
  /\ file # NoFile => unsynced \in [DOMAIN file -> SUBSET Ages]

\* In memory each record has the slot of its id.
MemoryInv ==
  /\ phase # "down" => file # NoFile /\ list \in Lists /\ Live \subseteq Named(file) /\ position = Positions(file, Live)
  /\ phase = "down" => list = <<>> /\ position = <<>>

\* What the slot of an id holds is one of the ages a reader may find, in use or not.
AgesInv == file # NoFile => \A x \in Named(file) : file[SlotOf(file, x)].age \in allowed[x]

\* Between calls, and unless one was cut, the companion names the dogs of the last
\* list that was told, in its order, and each has a slot: so an id without a slot is
\* new to the store, and may have the age its caller gives.
PairInv ==
  told # NoFile /\ ~cut /\ phase \in {"down", "up"} =>
    /\ file # NoFile /\ blob # NoFile
    /\ Fingerprint(blob) = Fingerprint(told) /\ Named(told) \subseteq Named(file)

DogInv == Types /\ MemoryInv /\ AgesInv /\ PairInv

\* Equal fingerprints are of equal ids.
LEMMA SameFingerprint ==
  ASSUME NEW k, NEW l, Fingerprint(k) = Fingerprint(l)
  PROVE  Named(k) = Named(l)
  <1>1. DOMAIN k = DOMAIN l /\ \A i \in DOMAIN k : k[i].id = l[i].id
    BY DEF Fingerprint
  <1>. QED
    BY <1>1, SameIds

\* A list that is none names no dog.
LEMMA NoDogs ==
  /\ Named(<<>>) = {} /\ DOMAIN <<>> = {}
  BY DEF Named

LEMMA InitDogs ==
  ASSUME Init
  PROVE  DogInv
  <1>1. /\ file = NoFile /\ blob = NoFile /\ list = <<>> /\ position = <<>>
        /\ phase = "down" /\ allowed = [x \in Ids |-> {}] /\ told = NoFile /\ cut = FALSE
        /\ updates = 0 /\ opens = 0
    BY DEF Init
  <1>2. allowed \in [Ids -> SUBSET Ages]
    BY <1>1
  <1>3. updates \in 0 .. MaxUpdates /\ opens \in 0 .. MaxOpens
    BY <1>1, DogStoreAssumption
  <1>4. Types
    BY <1>1, <1>2, <1>3 DEF Types
  <1>5. MemoryInv /\ AgesInv /\ PairInv
    BY <1>1 DEF MemoryInv, AgesInv, PairInv
  <1>. QED
    BY <1>4, <1>5 DEF DogInv

LEMMA CreateKeeps ==
  ASSUME DogInv, NEW l \in Lists, CreateAges(l)
  PROVE  DogInv'
  <1>1. /\ file' = l /\ unsynced' = Slots(l) /\ list' = l /\ position' = Positions(l, Named(l))
        /\ allowed' = [x \in Ids |-> IF x \in Named(l) THEN Given(l, x) ELSE {}]
        /\ phase' = "create_blob" /\ opens < MaxOpens /\ opens' = opens + 1
        /\ UNCHANGED <<blob, told, cut, updates>>
    BY DEF CreateAges
  <1>2. l \in Seq(Slot) /\ l # NoFile
    BY DogStoreAssumption
  <1>3. Types'
    <2>1. allowed' \in [Ids -> SUBSET Ages]
      BY <1>1, <1>2, SlotTypes
    <2>2. unsynced' \in [DOMAIN l -> SUBSET Ages]
      BY <1>1, <1>2, SlotTypes
    <2>3. opens' \in 0 .. MaxOpens
      BY <1>1, DogStoreAssumption DEF DogInv, Types
    <2>. QED
      BY <1>1, <1>2, <2>1, <2>2, <2>3 DEF DogInv, Types
  <1>4. MemoryInv'
    BY <1>1, <1>2 DEF MemoryInv, Live
  <1>5. AgesInv'
    <2>. SUFFICES ASSUME NEW x \in Named(l) PROVE l[SlotOf(l, x)].age \in allowed'[x]
      BY <1>1 DEF AgesInv
    <2>1. SlotOf(l, x) \in DOMAIN l /\ l[SlotOf(l, x)].id = x /\ x \in Ids
      BY <1>2, SlotFacts, SlotTypes
    <2>. QED
      BY <1>1, <2>1 DEF Given
  <1>6. PairInv'
    BY <1>1 DEF PairInv
  <1>. QED
    BY <1>3, <1>4, <1>5, <1>6 DEF DogInv

\* What every opening does to the ages file and the memory.
LEMMA ReopenFacts ==
  ASSUME DogInv, NEW l \in Lists, Reopen(l), UNCHANGED blob,
         phase' \in {"up", "open_blob"}, told' \in Lists \cup {NoFile}, cut' \in BOOLEAN
  PROVE  Types' /\ MemoryInv' /\ AgesInv' /\ file' # NoFile /\ Named(l) \subseteq Named(file')
  <1>1. l \in Seq(Slot) /\ file \in Seq(Slot) /\ file # NoFile
    BY DogStoreAssumption DEF DogInv, Types, Reopen
  <1>. DEFINE r == Reconciled(l)
  <1>2. /\ file' = r.f /\ unsynced' = (IF r.f = file THEN unsynced ELSE Slots(r.f))
        /\ list' = l /\ position' = r.p /\ allowed' = Allowing(l)
        /\ opens < MaxOpens /\ opens' = opens + 1 /\ UNCHANGED updates /\ phase = "down"
    BY DEF Reopen
  <1>3. /\ r.f \in Seq(Slot) /\ Named(l) \subseteq Named(r.f) /\ r.p = Positions(r.f, Named(l))
        /\ \A x \in Named(r.f) :
             /\ x \in Named(file) => r.f[SlotOf(r.f, x)].age = file[SlotOf(file, x)].age
             /\ x \notin Named(file) => x \in Named(l) /\ r.f[SlotOf(r.f, x)].age \in Given(l, x)
    BY <1>1, ReconciledFacts
  <1>. HIDE DEF r
  <1>4. file' # NoFile
    BY <1>2, <1>3, DogStoreAssumption
  <1>5. /\ allowed' \in [Ids -> SUBSET Ages]
        /\ \A x \in Ids : allowed[x] \subseteq allowed'[x]
        /\ \A x \in Ids : x \in Named(l) /\ ~(told # NoFile /\ x \in Named(told) /\ ~cut) =>
             Given(l, x) \subseteq allowed'[x]
    BY <1>1, <1>2, SlotTypes DEF Allowing, DogInv, Types
  <1>6. Types'
    <2>1. unsynced' \in [DOMAIN file' -> SUBSET Ages]
      <3>1. CASE r.f = file
        BY <1>1, <1>2, <3>1 DEF DogInv, Types
      <3>2. CASE r.f # file
        BY <1>2, <1>3, <3>2, SlotTypes
      <3>. QED
        BY <3>1, <3>2
    <2>2. opens' \in 0 .. MaxOpens
      BY <1>2, DogStoreAssumption DEF DogInv, Types
    <2>. QED
      BY <1>2, <1>3, <1>5, <2>1, <2>2 DEF DogInv, Types
  <1>7. MemoryInv'
    BY <1>2, <1>3, <1>4 DEF MemoryInv, Live
  <1>8. AgesInv'
    <2>. SUFFICES ASSUME NEW x \in Named(r.f) PROVE r.f[SlotOf(r.f, x)].age \in allowed'[x]
      BY <1>2 DEF AgesInv
    <2>1. x \in Ids
      BY <1>3, SlotTypes
    <2>2. CASE x \in Named(file)
      <3>1. r.f[SlotOf(r.f, x)].age = file[SlotOf(file, x)].age
        BY <1>3, <2>2
      <3>2. file[SlotOf(file, x)].age \in allowed[x]
        BY <1>1, <2>2 DEF DogInv, AgesInv
      <3>. QED
        BY <1>5, <2>1, <3>1, <3>2
    <2>3. CASE x \notin Named(file)
      <3>1. x \in Named(l) /\ r.f[SlotOf(r.f, x)].age \in Given(l, x)
        BY <1>3, <2>3
      <3>2. ~(told # NoFile /\ x \in Named(told) /\ ~cut)
        BY <1>2, <2>3 DEF DogInv, PairInv
      <3>. QED
        BY <1>5, <2>1, <3>1, <3>2
    <2>. QED
      BY <2>2, <2>3
  <1>. QED
    BY <1>2, <1>3, <1>4, <1>6, <1>7, <1>8

LEMMA OpenKeeps ==
  ASSUME DogInv, NEW l \in Lists, OpenAges(l)
  PROVE  DogInv'
  <1>1. /\ Reopen(l) /\ UNCHANGED blob /\ l # NoFile
        /\ IF IsCurrent(l) THEN phase' = "up" /\ told' = l /\ cut' = FALSE
           ELSE phase' = "open_blob" /\ UNCHANGED <<told, cut>>
    BY DogStoreAssumption DEF OpenAges, Reopen
  <1>2. /\ phase' \in {"up", "open_blob"} /\ told' \in Lists \cup {NoFile} /\ cut' \in BOOLEAN
    BY <1>1 DEF DogInv, Types
  <1>3. Types' /\ MemoryInv' /\ AgesInv' /\ file' # NoFile /\ Named(l) \subseteq Named(file')
    BY <1>1, <1>2, ReopenFacts
  <1>4. PairInv'
    <2>1. CASE IsCurrent(l)
      BY <1>1, <1>3, <2>1 DEF IsCurrent, PairInv
    <2>2. CASE ~IsCurrent(l)
      BY <1>1, <2>2 DEF PairInv
    <2>. QED
      BY <2>1, <2>2
  <1>. QED
    BY <1>3, <1>4 DEF DogInv

LEMMA PortableKeeps ==
  ASSUME DogInv, OpenPortable
  PROVE  DogInv'
  <1>1. PICK l \in Lists : l = blob /\ l # NoFile
    BY DEF OpenPortable, DogInv, Types
  <1>2. Reopen(l) /\ phase' = "up" /\ told' = l /\ cut' = FALSE
    BY <1>1 DEF OpenPortable
  <1>3. UNCHANGED blob
    BY <1>2 DEF Reopen
  <1>4. Types' /\ MemoryInv' /\ AgesInv' /\ file' # NoFile /\ Named(l) \subseteq Named(file')
    BY <1>2, <1>3, ReopenFacts
  <1>5. PairInv'
    BY <1>1, <1>2, <1>3, <1>4 DEF PairInv
  <1>. QED
    BY <1>4, <1>5 DEF DogInv

LEMMA BlobKeeps ==
  ASSUME DogInv, WriteBlob
  PROVE  DogInv'
  <1>1. /\ phase # "down" /\ blob' = list /\ phase' = "up" /\ told' = list /\ cut' = FALSE
        /\ UNCHANGED <<file, unsynced, list, position, allowed, updates, opens>>
    BY DEF WriteBlob, memory
  <1>2. file # NoFile /\ Live \subseteq Named(file) /\ list \in Lists /\ list # NoFile
    BY <1>1, DogStoreAssumption DEF DogInv, MemoryInv
  <1>3. Types'
    BY <1>1, <1>2 DEF DogInv, Types
  <1>4. MemoryInv' /\ AgesInv'
    BY <1>1 DEF DogInv, MemoryInv, AgesInv, Live
  <1>5. PairInv'
    BY <1>1, <1>2 DEF PairInv, Live
  <1>. QED
    BY <1>3, <1>4, <1>5 DEF DogInv

\* An update keeps the ids of the slots and writes the slot of one.
LEMMA UpdateKeeps ==
  ASSUME DogInv, NEW x \in Ids, NEW a \in Ages, UpdateAge(x, a)
  PROVE  DogInv'
  <1>. DEFINE p == SlotOf(file, x)
  <1>1. /\ phase = "up" /\ x \in Live /\ file \in Seq(Slot) /\ file # NoFile
        /\ x \in Named(file) /\ position = Positions(file, Live)
        /\ unsynced \in [DOMAIN file -> SUBSET Ages] /\ list \in Lists
    BY DEF UpdateAge, DogInv, Types, MemoryInv
  <1>2. position[x] = p
    BY <1>1 DEF Positions
  <1>3. p \in DOMAIN file /\ file[p].id = x
    BY <1>1, SlotFacts
  <1>4. /\ file' = [file EXCEPT ![p].age = a]
        /\ unsynced' = [unsynced EXCEPT ![p] = @ \cup {a}]
        /\ allowed' = [allowed EXCEPT ![x] = {a}]
        /\ updates < MaxUpdates /\ updates' = updates + 1
        /\ UNCHANGED <<blob, list, position, phase, told, cut, opens>>
    BY <1>2 DEF UpdateAge, memory
  <1>. HIDE DEF p
  <1>5. /\ DOMAIN file' = DOMAIN file
        /\ \A q \in DOMAIN file : q # p => file'[q] = file[q]
        /\ file'[p] = [file[p] EXCEPT !.age = a]
    BY <1>3, <1>4
  <1>6. file'[p] \in Slot /\ file'[p].id = x /\ file'[p].age = a
    <2>1. file[p] \in Slot
      BY <1>1, <1>3, SlotTypes
    <2>2. PICK s \in Slot : s = file[p]
      BY <2>1
    <2>3. [s EXCEPT !.age = a] \in Slot /\ [s EXCEPT !.age = a].id = s.id /\ [s EXCEPT !.age = a].age = a
      BY DEF Slot
    <2>. QED
      BY <1>3, <1>5, <2>2, <2>3
  <1>7. file' \in Seq(Slot) /\ file' # NoFile
    <2>1. \A q \in DOMAIN file : file'[q] \in Slot
      BY <1>1, <1>5, <1>6, SlotTypes
    <2>2. DOMAIN file = 1 .. Len(file) /\ Len(file) \in Nat
      BY <1>1
    <2>3. file' = [q \in 1 .. Len(file) |-> file'[q]]
      BY <1>4, <2>2, <1>1
    <2>. DEFINE n == Len(file)
                F == file'
    <2>4. n \in Nat /\ F = [q \in 1 .. n |-> F[q]] /\ \A q \in 1 .. n : F[q] \in Slot
      BY <2>1, <2>2, <2>3
    <2>. HIDE DEF n, F
    <2>5. F \in Seq(Slot)
      BY <2>4
    <2>6. file' \in Seq(Slot)
      BY <2>5 DEF F
    <2>. QED
      BY <2>6, DogStoreAssumption
  <1>8. \A q \in DOMAIN file : file[q].id = file'[q].id
    BY <1>3, <1>5, <1>6
  <1>9. /\ Named(file') = Named(file)
        /\ \A y : SlotOf(file', y) = SlotOf(file, y)
        /\ \A S : Positions(file', S) = Positions(file, S)
    <2>1. PICK f : f = file
      OBVIOUS
    <2>2. PICK g : g = file'
      OBVIOUS
    <2>3. Named(f) = Named(g) /\ (\A y : SlotOf(f, y) = SlotOf(g, y)) /\ (\A S : Positions(f, S) = Positions(g, S))
      BY <1>5, <1>8, <2>1, <2>2, SameIds
    <2>. QED
      BY <2>1, <2>2, <2>3
  <1>10. Types'
    <2>1. allowed' \in [Ids -> SUBSET Ages]
      BY <1>4 DEF DogInv, Types
    <2>2. unsynced' \in [DOMAIN file' -> SUBSET Ages]
      BY <1>1, <1>3, <1>4, <1>5
    <2>3. updates' \in 0 .. MaxUpdates
      BY <1>4, DogStoreAssumption DEF DogInv, Types
    <2>. QED
      BY <1>4, <1>7, <2>1, <2>2, <2>3 DEF DogInv, Types
  <1>11. MemoryInv'
    <2>1. Live' = Live /\ Live \subseteq Named(file)
      BY <1>1, <1>4 DEF Live, DogInv, MemoryInv
    <2>. QED
      BY <1>1, <1>4, <1>7, <1>9, <2>1 DEF MemoryInv
  <1>12. AgesInv'
    <2>. SUFFICES ASSUME NEW y \in Named(file) PROVE file'[SlotOf(file, y)].age \in allowed'[y]
      BY <1>9 DEF AgesInv
    <2>1. y \in Ids /\ SlotOf(file, y) \in DOMAIN file /\ file[SlotOf(file, y)].id = y
      BY <1>1, SlotFacts, SlotTypes
    <2>2. CASE y = x
      BY <1>4, <1>6, <2>1, <2>2 DEF p, DogInv, Types
    <2>3. CASE y # x
      <3>1. file'[SlotOf(file, y)] = file[SlotOf(file, y)]
        BY <1>3, <1>5, <2>1, <2>3
      <3>2. allowed'[y] = allowed[y]
        BY <1>4, <2>1, <2>3 DEF DogInv, Types
      <3>. QED
        BY <1>1, <3>1, <3>2 DEF DogInv, AgesInv
    <2>. QED
      BY <2>2, <2>3
  <1>13. PairInv'
    BY <1>1, <1>4, <1>7, <1>9 DEF DogInv, PairInv
  <1>. QED
    BY <1>10, <1>11, <1>12, <1>13 DEF DogInv

LEMMA FlushKeeps ==
  ASSUME DogInv, Flush
  PROVE  DogInv'
  <1>1. /\ unsynced' = Slots(file) /\ phase = "up"
        /\ UNCHANGED <<file, blob, list, position, phase, allowed, told, cut, updates, opens>>
    BY DEF Flush, memory, ghosts
  <1>2. file \in Seq(Slot)
    BY <1>1 DEF DogInv, MemoryInv, Types
  <1>3. unsynced' \in [DOMAIN file -> SUBSET Ages]
    BY <1>1, <1>2, SlotTypes
  <1>4. Types'
    BY <1>1, <1>3 DEF DogInv, Types
  <1>. QED
    BY <1>1, <1>4 DEF DogInv, MemoryInv, AgesInv, PairInv, Live

LEMMA KillKeeps ==
  ASSUME DogInv, Kill
  PROVE  DogInv'
  <1>1. /\ phase # "down" /\ phase' = "down" /\ cut' = (cut \/ phase \in {"create_blob", "open_blob"})
        /\ list' = <<>> /\ position' = <<>>
        /\ UNCHANGED <<file, blob, unsynced, allowed, told, updates, opens>>
    BY DEF Kill, files
  <1>2. Types'
    <2>1. cut' \in BOOLEAN
      BY <1>1 DEF DogInv, Types
    <2>. QED
      BY <1>1, <2>1 DEF DogInv, Types
  <1>3. MemoryInv' /\ AgesInv'
    BY <1>1 DEF DogInv, MemoryInv, AgesInv
  <1>4. PairInv'
    <2>1. CASE phase = "up"
      BY <1>1, <2>1 DEF DogInv, PairInv
    <2>2. CASE phase # "up"
      BY <1>1, <2>2 DEF DogInv, Types, PairInv
    <2>. QED
      BY <2>1, <2>2
  <1>. QED
    BY <1>2, <1>3, <1>4 DEF DogInv

LEMMA PowerKeeps ==
  ASSUME DogInv, PowerLoss
  PROVE  DogInv'
  <1>1. /\ file # NoFile /\ phase' = "down" /\ cut' = (cut \/ phase \in {"create_blob", "open_blob"})
        /\ unsynced' = Slots(file')
        /\ allowed' = [x \in Ids |-> IF x \in Named(file) THEN allowed[x] \cup unsynced[SlotOf(file, x)]
                                     ELSE allowed[x]]
        /\ list' = <<>> /\ position' = <<>>
        /\ UNCHANGED <<blob, told, updates, opens>>
    BY DEF PowerLoss
  <1>2. PICK kept \in [DOMAIN file -> Ages] :
          /\ \A p \in DOMAIN file : kept[p] \in unsynced[p]
          /\ file' = [p \in DOMAIN file |-> [file[p] EXCEPT !.age = kept[p]]]
    BY DEF PowerLoss
  <1>3. file \in Seq(Slot) /\ unsynced \in [DOMAIN file -> SUBSET Ages]
    BY <1>1 DEF DogInv, Types
  <1>4. \A p \in DOMAIN file : file'[p] \in Slot /\ file'[p].id = file[p].id /\ file'[p].age = kept[p]
    <2>. SUFFICES ASSUME NEW p \in DOMAIN file
                  PROVE  file'[p] \in Slot /\ file'[p].id = file[p].id /\ file'[p].age = kept[p]
      OBVIOUS
    <2>1. file[p] \in Slot /\ kept[p] \in Ages
      BY <1>3, SlotTypes
    <2>2. PICK s \in Slot : s = file[p]
      BY <2>1
    <2>3. PICK k \in Ages : k = kept[p]
      BY <2>1
    <2>4. [s EXCEPT !.age = k] \in Slot /\ [s EXCEPT !.age = k].id = s.id /\ [s EXCEPT !.age = k].age = k
      BY DEF Slot
    <2>. QED
      BY <1>2, <2>2, <2>3, <2>4
  <1>5. DOMAIN file' = DOMAIN file
    BY <1>2
  <1>6. file' \in Seq(Slot) /\ file' # NoFile
    <2>. DEFINE n == Len(file)
                F == file'
    <2>1. n \in Nat /\ DOMAIN file = 1 .. n
      BY <1>3
    <2>2. F = [q \in 1 .. n |-> F[q]] /\ \A q \in 1 .. n : F[q] \in Slot
      BY <1>2, <1>4, <2>1
    <2>. HIDE DEF n, F
    <2>3. F \in Seq(Slot)
      BY <2>1, <2>2
    <2>4. file' \in Seq(Slot)
      BY <2>3 DEF F
    <2>. QED
      BY <2>4, DogStoreAssumption
  <1>7. Named(file') = Named(file) /\ \A y : SlotOf(file', y) = SlotOf(file, y)
    <2>1. PICK f : f = file
      OBVIOUS
    <2>2. PICK g : g = file'
      OBVIOUS
    <2>3. Named(f) = Named(g) /\ (\A y : SlotOf(f, y) = SlotOf(g, y))
      BY <1>4, <1>5, <2>1, <2>2, SameIds
    <2>. QED
      BY <2>1, <2>2, <2>3
  <1>8. \A x \in Named(file) : x \in Ids /\ SlotOf(file, x) \in DOMAIN file
    BY <1>3, SlotFacts, SlotTypes
  <1>9. Types'
    <2>1. allowed' \in [Ids -> SUBSET Ages]
      BY <1>1, <1>3, <1>8 DEF DogInv, Types
    <2>2. unsynced' \in [DOMAIN file' -> SUBSET Ages]
      <3>1. PICK f : f = file'
        OBVIOUS
      <3>2. Slots(f) \in [DOMAIN f -> SUBSET Ages]
        BY <1>6, <3>1, SlotTypes
      <3>. QED
        BY <1>1, <3>1, <3>2
    <2>3. cut' \in BOOLEAN
      BY <1>1 DEF DogInv, Types
    <2>. QED
      BY <1>1, <1>6, <2>1, <2>2, <2>3 DEF DogInv, Types
  <1>10. MemoryInv'
    BY <1>1 DEF MemoryInv
  <1>11. AgesInv'
    <2>. SUFFICES ASSUME NEW x \in Named(file) PROVE file'[SlotOf(file, x)].age \in allowed'[x]
      BY <1>7 DEF AgesInv
    <2>. QED
      BY <1>1, <1>2, <1>4, <1>8
  <1>12. PairInv'
    <2>1. CASE phase \in {"down", "up"}
      BY <1>1, <1>6, <1>7, <2>1 DEF DogInv, PairInv
    <2>2. CASE phase \notin {"down", "up"}
      BY <1>1, <2>2 DEF DogInv, Types, PairInv
    <2>. QED
      BY <2>1, <2>2
  <1>. QED
    BY <1>9, <1>10, <1>11, <1>12 DEF DogInv

LEMMA DogStep ==
  ASSUME DogInv, [Next]_vars
  PROVE  DogInv'
  <1>1. ASSUME NEW l \in Lists, CreateAges(l) PROVE DogInv'
    BY <1>1, CreateKeeps
  <1>2. ASSUME NEW l \in Lists, OpenAges(l) PROVE DogInv'
    BY <1>2, OpenKeeps
  <1>3. CASE WriteBlob
    BY <1>3, BlobKeeps
  <1>4. CASE OpenPortable
    BY <1>4, PortableKeeps
  <1>5. CASE Flush
    BY <1>5, FlushKeeps
  <1>6. CASE Kill
    BY <1>6, KillKeeps
  <1>7. CASE PowerLoss
    BY <1>7, PowerKeeps
  <1>8. ASSUME NEW x \in Ids, NEW a \in Ages, UpdateAge(x, a) PROVE DogInv'
    BY <1>8, UpdateKeeps
  <1>9. CASE UNCHANGED vars
    <2>1. UNCHANGED <<file, blob, unsynced, list, position, phase, allowed, told, cut, updates, opens>>
      BY <1>9 DEF vars, files, memory, ghosts
    <2>. QED
      BY <2>1 DEF DogInv, Types, MemoryInv, AgesInv, PairInv, Live
  <1>. QED
    BY <1>1, <1>2, <1>3, <1>4, <1>5, <1>6, <1>7, <1>8, <1>9 DEF Next

\* The invariant holds of every behaviour: the two files, the memory and what callers
\* were told agree, whatever lists come and wherever create or open is cut.
THEOREM DogInvariant == Spec => []DogInv
  <1>1. Init => DogInv
    BY InitDogs
  <1>2. DogInv /\ [Next]_vars => DogInv'
    BY DogStep
  <1>. QED
    BY <1>1, <1>2, PTL DEF Spec

------------------------------------------------------------------------------
(* The properties                                                          *)

\* What enumerates the things once enumerates once those with a given mark.
LEMMA SameCount ==
  ASSUME NEW K, NEW E, NEW h \in Bijection(E, K),
         NEW B \in SUBSET K, IsFiniteSet(B), NEW M, \A i : i \in M <=> i \in E /\ h[i] \in B
  PROVE  Cardinality(M) = Cardinality(B)
  <1>. DEFINE r == [i \in M |-> h[i]]
  <1>1. /\ h \in [E -> K] /\ \A i, j \in E : h[i] = h[j] => i = j
        /\ \A k \in K : \E i \in E : h[i] = k
    BY DEF Bijection, Injection, Surjection, IsInjective
  <1>2. r \in [M -> B] /\ \A i, j \in M : r[i] = r[j] => i = j
    BY <1>1
  <1>3. \A k \in B : \E i \in M : r[i] = k
    <2>. SUFFICES ASSUME NEW k \in B PROVE \E i \in M : r[i] = k
      OBVIOUS
    <2>1. PICK i \in E : h[i] = k
      BY <1>1
    <2>2. i \in M
      BY <2>1
    <2>. QED
      BY <2>1, <2>2
  <1>. HIDE DEF r
  <1>4. r \in Bijection(M, B)
    BY <1>2, <1>3, Fun_IsBij
  <1>5. ExistsBijection(B, M)
    BY <1>4, Fun_ExistsBij, Fun_ExistsBijSymmetric
  <1>. QED
    BY <1>5, FS_Bijection

\* In memory, ids have slots of their own.
LEMMA PositionFacts ==
  ASSUME DogInv, phase = "up"
  PROVE  /\ file \in Seq(Slot) /\ DOMAIN position = Live
         /\ position \in Injection(Live, DOMAIN file)
         /\ \A x \in Live : x \in Named(file) /\ position[x] = SlotOf(file, x) /\ file[position[x]].id = x
  <1>1. file \in Seq(Slot) /\ Live \subseteq Named(file) /\ position = Positions(file, Live)
    BY DEF DogInv, Types, MemoryInv
  <1>2. \A x \in Live : position[x] = SlotOf(file, x) /\ position[x] \in DOMAIN file /\ file[position[x]].id = x
    BY <1>1, SlotFacts DEF Positions
  <1>3. DOMAIN position = Live /\ position \in [Live -> DOMAIN file]
    BY <1>1, <1>2 DEF Positions
  <1>4. \A x, y \in Live : position[x] = position[y] => x = y
    BY <1>2
  <1>5. position \in Injection(Live, DOMAIN file)
    BY <1>3, <1>4, Fun_IsInj
  <1>. QED
    BY <1>1, <1>2, <1>3, <1>5

\* Both walks of a scan, over all slots and over those of the records, pass the slot
\* of each record once and no other.
LEMMA ScanFacts ==
  ASSUME DogInv, phase = "up", NEW a \in Ages
  PROVE  Cardinality({i \in DOMAIN Scan : Scan[i] = a}) = Cardinality({x \in Live : Get(x) = a})
  <1>. DEFINE K == DOMAIN file
              A == {x \in Live : Get(x) = a}
              C == {i \in DOMAIN Scan : Scan[i] = a}
              marked(S) == {p \in S : file[p].age = a}
  <1>1. /\ file \in Seq(Slot) /\ DOMAIN position = Live /\ position \in Injection(Live, K)
    BY PositionFacts
  <1>2. K = 1 .. Len(file) /\ Len(file) \in Nat /\ IsFiniteSet(K) /\ Cardinality(K) = Len(file)
    <2>1. PICK n \in Nat : n = Len(file)
      BY <1>1
    <2>2. IsFiniteSet(1 .. n) /\ Cardinality(1 .. n) = n
      BY FS_Interval
    <2>3. K = 1 .. n
      BY <1>1, <2>1
    <2>. HIDE DEF K
    <2>. QED
      BY <2>1, <2>2, <2>3
  <1>3. position \in [Live -> K] /\ \A x, y \in Live : position[x] = position[y] => x = y
    BY <1>1 DEF Injection, IsInjective
  <1>4. ASSUME NEW S \in SUBSET K, position \in Bijection(Live, S),
               NEW D, NEW g \in Bijection(D, S), Scan = [i \in D |-> file[g[i]].age]
        PROVE  Cardinality(C) = Cardinality(A)
    <2>. DEFINE B == marked(S)
    <2>1. B \in SUBSET S /\ IsFiniteSet(B)
      BY <1>2, FS_Subset
    <2>2. \A x : x \in A <=> x \in Live /\ position[x] \in B
      BY <1>4 DEF Get, Bijection, Injection
    <2>3. \A i : i \in C <=> i \in D /\ g[i] \in B
      BY <1>4 DEF Bijection, Injection
    <2>. HIDE DEF A, B, C
    <2>4. Cardinality(A) = Cardinality(B)
      BY <1>4, <2>1, <2>2, SameCount
    <2>5. Cardinality(C) = Cardinality(B)
      BY <2>1, <2>3, SameCount
    <2>. QED
      BY <2>4, <2>5
  <1>. HIDE DEF A, C
  <1>5. CASE Cardinality(DOMAIN position) = Len(file)
    <2>. DEFINE id == [p \in K |-> p]
    <2>1. position \in Surjection(Live, K)
      BY <1>1, <1>2, <1>5, FS_Injection
    <2>2. position \in Bijection(Live, K)
      BY <1>1, <2>1 DEF Bijection
    <2>3. id \in Bijection(K, K)
      <3>1. id \in [K -> K] /\ (\A p, q \in K : id[p] = id[q] => p = q) /\ \A q \in K : \E p \in K : id[p] = q
        OBVIOUS
      <3>. HIDE DEF id, K
      <3>. QED
        BY <3>1, Fun_IsBij
    <2>4. Scan = [p \in K |-> file[id[p]].age]
      BY <1>5 DEF Scan
    <2>. HIDE DEF id, K
    <2>5. Cardinality(C) = Cardinality(A)
      BY <1>4, <2>2, <2>3, <2>4
    <2>. QED
      BY <2>5 DEF A, C
  <1>6. CASE Cardinality(DOMAIN position) # Len(file)
    <2>. DEFINE S == Range(position)
                n == Cardinality(S)
                at == Ascending(S)
    <2>1. S = {position[x] : x \in Live}
      BY <1>1 DEF Range
    <2>2. S \in SUBSET K /\ S \in SUBSET Nat
      BY <1>2, <1>3, <2>1
    <2>3. position \in Bijection(Live, S)
      <3>1. position \in [Live -> S] /\ \A k \in S : \E x \in Live : position[x] = k
        BY <1>3, <2>1
      <3>. HIDE DEF S
      <3>. QED
        BY <1>3, <3>1, Fun_IsBij
    <2>4. Scan = [i \in DOMAIN at |-> file[at[i]].age]
      BY <1>6 DEF Scan
    <2>. HIDE DEF S, K
    <2>5. IsFiniteSet(S)
      BY <1>2, <2>2, FS_Subset
    <2>6. at \in Bijection(1 .. n, S)
      BY <2>2, <2>5, AscendingFacts
    <2>. HIDE DEF at
    <2>7. DOMAIN at = 1 .. n
      BY <2>6 DEF Bijection, Injection
    <2>. HIDE DEF n
    <2>8. Cardinality(C) = Cardinality(A)
      BY <1>4, <2>2, <2>3, <2>4, <2>6, <2>7
    <2>. QED
      BY <2>8 DEF A, C
  <1>. QED
    BY <1>5, <1>6

\* Each dog has its own age, the last that was written for it or, after a loss of
\* power, one held since the last flush, and a scan returns each dog's age once: by
\* identity, whatever the order and the repetitions of the lists.
THEOREM AgesFollowDogs == Spec => []AgesByIdentity
  <1>1. DogInv => TypeOK
    <2>. SUFFICES ASSUME DogInv PROVE TypeOK
      OBVIOUS
    <2>1. file = NoFile \/ \A p \in DOMAIN file : file[p] \in Slot
      BY DEF DogInv, Types
    <2>2. DOMAIN position = Live
      <3>1. CASE phase = "down"
        BY <3>1, NoDogs DEF DogInv, MemoryInv, Live
      <3>2. CASE phase # "down"
        BY <3>2 DEF DogInv, MemoryInv, Positions
      <3>. QED
        BY <3>1, <3>2
    <2>3. file # NoFile => DOMAIN unsynced = DOMAIN file
      BY DEF DogInv, Types
    <2>. QED
      BY <2>1, <2>2, <2>3 DEF DogInv, Types, TypeOK
  <1>2. DogInv => AgesByIdentity
    <2>. SUFFICES ASSUME DogInv, phase = "up"
                  PROVE  /\ \A x \in Live : file[position[x]].id = x /\ Get(x) \in allowed[x]
                         /\ \A a \in Ages : Cardinality({i \in DOMAIN Scan : Scan[i] = a})
                                            = Cardinality({x \in Live : Get(x) = a})
      BY <1>1 DEF AgesByIdentity
    <2>1. file # NoFile
      BY DEF DogInv, MemoryInv
    <2>2. \A x \in Live : x \in Named(file) /\ position[x] = SlotOf(file, x) /\ file[position[x]].id = x
      BY PositionFacts
    <2>3. \A x \in Live : Get(x) \in allowed[x]
      BY <2>1, <2>2 DEF Get, DogInv, AgesInv
    <2>. QED
      BY <2>2, <2>3, ScanFacts
  <1>. QED
    BY <1>2, DogInvariant, PTL

\* A store that is down, and was not cut between its files, opens as the portable pair
\* of the dogs of the last create or open that returned.
THEOREM PairPortable == Spec => []PortablePair
  <1>1. DogInv => PortablePair
    <2>. SUFFICES ASSUME DogInv, phase = "down", told # NoFile, ~cut
                  PROVE  Fingerprint(blob) = Fingerprint(told) /\ Named(blob) \subseteq Named(file)
      BY DEF PortablePair
    <2>1. Fingerprint(blob) = Fingerprint(told) /\ Named(told) \subseteq Named(file)
      BY DEF DogInv, PairInv
    <2>. QED
      BY <2>1, SameFingerprint
  <1>. QED
    BY <1>1, DogInvariant, PTL

------------------------------------------------------------------------------
(* The inductive invariant                                                 *)

Stages  == {"called", "held", "cache", "sent", "done"}
ScanAnswers  == UNION {[S -> AgeRange] : S \in SUBSET Known}
PointAnswers == {None} \cup BOOLEAN \cup SUBSET AgeRange
Answers == PointAnswers \cup ScanAnswers
Calls   == [req : Requests, answer : Answers, at : Stages, shard : Nat \ {0}]

StoresTypeOK ==
  /\ variant \in {"global_rwlock", "sharded", "dashmap", "actor"}
  /\ part \in [Known -> 1 .. Shards]
  /\ records \in [Known -> AgeRange] /\ cache \in [Known -> AgeRange]
  /\ lock \in [writer : Threads \cup {None}, readers : SUBSET Threads]
  /\ queue \in Seq(Threads)
  /\ call \in [Threads -> {Idle} \cup Calls]

Stage(t, at) == call[t] # Idle /\ call[t].at = at

\* The RwLock: a writer is alone, and who is at the data holds it.
LockInv ==
  /\ lock.writer = None \/ lock.readers = {}
  /\ \A t \in Threads : Stage(t, "held") \/ Stage(t, "cache") =>
       /\ variant = "global_rwlock"
       /\ call[t].req.op = "update" => lock.writer = t
       /\ call[t].req.op # "update" => t \in lock.readers

\* Between the two writes of an update the cache lacks just that update, and otherwise nothing.
CacheInv ==
  /\ \A t \in Threads : Stage(t, "cache") =>
       /\ call[t].req.op = "update" /\ call[t].req.id \in Known
       /\ call[t].answer = TRUE
       /\ records = [cache EXCEPT ![call[t].req.id] = call[t].req.age]
  /\ Split \/ cache = records \/ \E t \in Threads : Stage(t, "cache")

\* A get or an update has its answer once it is past the data, a scan the dogs of the shards behind it.
Answered(c) ==
  /\ c.req.op # "scan" =>
       /\ c.at \in {"called", "held", "sent"} => c.answer = None
       /\ c.at \in {"cache", "done"} => c.answer # None
  /\ c.req.op = "scan" =>
       /\ c.answer \in ScanAnswers
       /\ c.at \in {"held", "sent"} => DOMAIN c.answer = {}
       /\ c.at = "called" /\ ~Split => DOMAIN c.answer = {}
       /\ c.at = "called" /\ Split =>
            /\ c.shard \in 1 .. Shards
            /\ DOMAIN c.answer = {x \in Known : part[x] < c.shard}
       /\ c.at = "done" => DOMAIN c.answer = Known

AnswerInv == \A t \in Threads : call[t] # Idle => Answered(call[t])

\* Each request in the actor's queue is one that its thread waits on, once.
QueueInv ==
  /\ queue # <<>> => variant = "actor"
  /\ \A i \in 1 .. Len(queue) : Stage(queue[i], "sent")
  /\ \A i, j \in 1 .. Len(queue) : queue[i] = queue[j] => i = j
  /\ \A t \in Threads : Stage(t, "sent") => variant = "actor"

StoresInv == StoresTypeOK /\ LockInv /\ CacheInv /\ AnswerInv /\ QueueInv

------------------------------------------------------------------------------
(* Calls, and what the map sees of them                                    *)

\* The calls as the map has them.
Seen == [t \in Threads |-> IF call[t] = Idle THEN Idle
                           ELSE [req |-> call[t].req, answer |-> call[t].answer]]

\* What one thread's step does to the calls.
Moves(t, c) == call'[t] = c /\ \A u \in Threads \ {t} : call'[u] = call[u]

\* A call under way is a record of a call, never idle.
LEMMA CallFacts ==
  ASSUME StoresTypeOK, NEW t \in Threads, call[t] # Idle
  PROVE  /\ call[t] \in Calls /\ call[t].req \in Requests /\ call[t].shard \in Nat
         /\ call[t] = [req |-> call[t].req, answer |-> call[t].answer,
                       at |-> call[t].at, shard |-> call[t].shard]
         /\ call[t].req.op \in {"get", "update", "scan"}
         /\ call[t].req.op # "scan" => call[t].req.id \in Dogs
         /\ call[t].req.op = "update" => call[t].req.age \in AgeRange
  <1>1. call[t] \in Calls
    BY DEF StoresTypeOK
  <1>2. call[t].req \in Requests /\ call[t].shard \in Nat
    BY <1>1 DEF Calls
  <1>. QED
    BY <1>1, <1>2 DEF Calls, Requests

\* No record of a call is the idle one.
LEMMA NotIdle ==
  ASSUME NEW r, NEW a, NEW at, NEW k
  PROVE  /\ [req |-> r, answer |-> a, at |-> at, shard |-> k] # Idle
         /\ [req |-> r, answer |-> a] # Idle
  BY DEF Idle

\* What the guards of the actions say of a request.
LEMMA OpFacts ==
  ASSUME NEW r \in Requests
  PROVE  /\ r.op = "get" => r = [op |-> "get", id |-> r.id] /\ r.id \in Dogs
         /\ r.op = "update" => r = [op |-> "update", id |-> r.id, age |-> r.age] /\ r.id \in Dogs /\ r.age \in AgeRange
         /\ r.op = "scan" => r = [op |-> "scan"]
         /\ r.op \in {"get", "update", "scan"}
  BY DEF Requests

\* Moving a call on keeps the calls well typed.
LEMMA MoveTypes ==
  ASSUME StoresTypeOK, NEW t \in Threads, NEW at \in Stages, NEW a \in Answers, NEW k \in Nat \ {0},
         call[t] # Idle,
         call' = [call EXCEPT ![t] = [req |-> call[t].req, answer |-> a, at |-> at, shard |-> k]]
  PROVE  /\ call' \in [Threads -> {Idle} \cup Calls]
         /\ Moves(t, [req |-> call[t].req, answer |-> a, at |-> at, shard |-> k])
         /\ Seen' = [Seen EXCEPT ![t].answer = a]
  <1>1. call[t].req \in Requests
    BY CallFacts
  <1>2. [req |-> call[t].req, answer |-> a, at |-> at, shard |-> k] \in Calls
    BY <1>1 DEF Calls
  <1>3. call \in [Threads -> {Idle} \cup Calls]
    BY DEF StoresTypeOK
  <1>4. call' \in [Threads -> {Idle} \cup Calls]
    BY <1>2, <1>3
  <1>5. Moves(t, [req |-> call[t].req, answer |-> a, at |-> at, shard |-> k])
    BY <1>3 DEF Moves
  <1>6. Seen[t] = [req |-> call[t].req, answer |-> call[t].answer]
    BY DEF Seen
  <1>7. Seen'[t] = [req |-> call[t].req, answer |-> a]
    BY <1>5, NotIdle DEF Seen, Moves
  <1>8. \A u \in Threads \ {t} : Seen'[u] = Seen[u]
    BY <1>5 DEF Seen, Moves
  <1>9. Seen' = [Seen EXCEPT ![t].answer = a]
    <2>1. Seen = [u \in Threads |-> Seen[u]] /\ Seen' = [u \in Threads |-> Seen'[u]]
      BY DEF Seen
    <2>2. [Seen EXCEPT ![t].answer = a] = [u \in Threads |-> IF u = t THEN [Seen[t] EXCEPT !.answer = a] ELSE Seen[u]]
      BY <2>1
    <2>3. [Seen[t] EXCEPT !.answer = a] = [req |-> call[t].req, answer |-> a]
      BY <1>6
    <2>. QED
      BY <2>1, <2>2, <2>3, <1>7, <1>8
  <1>. QED
    BY <1>4, <1>5, <1>9

\* Step, as the actions use it, is such a move.
LEMMA StepMoves ==
  ASSUME StoresTypeOK, NEW t \in Threads, NEW at \in Stages, NEW a \in Answers, call[t] # Idle, Step(t, at, a)
  PROVE  /\ call' \in [Threads -> {Idle} \cup Calls]
         /\ Moves(t, [req |-> call[t].req, answer |-> a, at |-> at, shard |-> call[t].shard])
         /\ Seen' = [Seen EXCEPT ![t].answer = a]
  <1>1. call[t] \in Calls /\ call[t].shard \in Nat \ {0}
    BY CallFacts DEF Calls
  <1>2. [[call[t] EXCEPT !.at = at] EXCEPT !.answer = a] =
          [req |-> call[t].req, answer |-> a, at |-> at, shard |-> call[t].shard]
    <2>1. PICK r, b, s, k : call[t] = [req |-> r, answer |-> b, at |-> s, shard |-> k]
      BY CallFacts
    <2>2. [call[t] EXCEPT !.at = at] = [req |-> r, answer |-> b, at |-> at, shard |-> k]
      BY <2>1
    <2>3. [[req |-> r, answer |-> b, at |-> at, shard |-> k] EXCEPT !.answer = a] =
            [req |-> r, answer |-> a, at |-> at, shard |-> k]
      OBVIOUS
    <2>. QED
      BY <2>1, <2>2, <2>3
  <1>3. call \in [Threads -> {Idle} \cup Calls]
    BY DEF StoresTypeOK
  <1>4. call' = [call EXCEPT ![t] = [[call[t] EXCEPT !.at = at] EXCEPT !.answer = a]]
    BY <1>3 DEF Step
  <1>5. call' = [call EXCEPT ![t] = [req |-> call[t].req, answer |-> a, at |-> at, shard |-> call[t].shard]]
    BY <1>2, <1>4
  <1>. QED
    BY <1>1, <1>5, MoveTypes

\* A move that changes no answer changes nothing for the map.
LEMMA SameAnswer ==
  ASSUME StoresTypeOK, NEW t \in Threads, call[t] # Idle, Seen' = [Seen EXCEPT ![t].answer = call[t].answer]
  PROVE  Seen' = Seen
  <1>1. Seen[t] = [req |-> call[t].req, answer |-> call[t].answer]
    BY DEF Seen
  <1>2. [Seen[t] EXCEPT !.answer = call[t].answer] = Seen[t]
    BY <1>1
  <1>3. Seen = [u \in Threads |-> Seen[u]]
    BY DEF Seen
  <1>. QED
    BY <1>2, <1>3


------------------------------------------------------------------------------
(* What a step of one thread leaves as it was                              *)

LEMMA KeepQueue ==
  ASSUME StoresInv, NEW t \in Threads, NEW c, Moves(t, c), UNCHANGED <<queue, variant>>,
         ~Stage(t, "sent"), c = Idle \/ c.at # "sent"
  PROVE  QueueInv'
  <1>1. \A i \in 1 .. Len(queue) : queue[i] \in Threads
    BY DEF StoresInv, StoresTypeOK
  <1>2. \A u \in Threads : Stage(u, "sent")' <=> Stage(u, "sent")
    BY DEF Moves, Stage
  <1>3. Stage(t, "sent")' <=> Stage(t, "sent")
    BY <1>2
  <1>4. \A i \in 1 .. Len(queue) : Stage(queue[i], "sent")'
    BY <1>1, <1>2 DEF StoresInv, QueueInv
  <1>. QED
    BY <1>1, <1>2, <1>4 DEF StoresInv, QueueInv

LEMMA KeepAnswers ==
  ASSUME StoresInv, NEW t \in Threads, NEW c, Moves(t, c), UNCHANGED <<variant, part>>,
         c = Idle \/ Answered(c)
  PROVE  AnswerInv'
  <1>. SUFFICES ASSUME NEW u \in Threads, call'[u] # Idle PROVE Answered(call[u])'
    BY DEF AnswerInv
  <1>1. CASE u = t
    BY <1>1 DEF Moves, Answered, Split
  <1>2. CASE u # t
    <2>1. call'[u] = call[u]
      BY <1>2 DEF Moves
    <2>2. Answered(call[u])
      BY <2>1 DEF StoresInv, AnswerInv
    <2>. QED
      BY <2>1, <2>2 DEF Answered, Split
  <1>. QED
    BY <1>1, <1>2

LEMMA KeepLock ==
  ASSUME StoresInv, NEW t \in Threads, NEW c, Moves(t, c), UNCHANGED <<variant, lock>>,
         c = Idle \/ c.at \notin {"held", "cache"}
  PROVE  LockInv'
  <1>1. \A u \in Threads : Stage(u, "held")' \/ Stage(u, "cache")' =>
          (Stage(u, "held") \/ Stage(u, "cache")) /\ call'[u] = call[u]
    BY DEF Moves, Stage
  <1>. QED
    BY <1>1 DEF StoresInv, LockInv

LEMMA KeepCache ==
  ASSUME StoresInv, NEW t \in Threads, NEW c, Moves(t, c), UNCHANGED <<variant, records, cache>>,
         ~Stage(t, "cache"), c = Idle \/ c.at # "cache"
  PROVE  CacheInv'
  <1>1. \A u \in Threads : Stage(u, "cache")' <=> Stage(u, "cache")
    BY DEF Moves, Stage
  <1>2. \A u \in Threads : Stage(u, "cache") => call'[u] = call[u]
    BY DEF Moves
  <1>. QED
    BY <1>1, <1>2 DEF StoresInv, CacheInv, Split

\* Every answer the steps give is of the type, and is an answer.
LEMMA AnswerTypes ==
  ASSUME StoresTypeOK
  PROVE  /\ None \in Answers /\ TRUE \in Answers /\ FALSE \in Answers /\ <<>> \in Answers /\ DOMAIN <<>> = {}
         /\ \A x : Found(x) \in Answers /\ Found(x) # None
         /\ TRUE # None /\ FALSE # None
         /\ \A S \in SUBSET Known : [S -> AgeRange] \subseteq ScanAnswers
         /\ <<>> \in ScanAnswers /\ records \in ScanAnswers /\ cache \in ScanAnswers
         /\ ScanAnswers \subseteq Answers
  <1>1. <<>> \in [{} -> AgeRange] /\ DOMAIN <<>> = {}
    OBVIOUS
  <1>2. \A S \in SUBSET Known : [S -> AgeRange] \subseteq ScanAnswers
    BY DEF ScanAnswers
  <1>3. <<>> \in ScanAnswers
    BY <1>1, <1>2
  <1>4. records \in ScanAnswers /\ cache \in ScanAnswers
    BY <1>2 DEF StoresTypeOK
  <1>5. \A x : Found(x) \in SUBSET AgeRange
    BY DEF Found, StoresTypeOK
  <1>6. \A x : Found(x) \in Answers /\ Found(x) # None
    BY <1>5, StoresAssumption DEF Answers, PointAnswers
  <1>7. TRUE # None /\ FALSE # None
    BY StoresAssumption
  <1>8. None \in Answers /\ TRUE \in Answers /\ FALSE \in Answers
    BY DEF Answers, PointAnswers
  <1>9. ScanAnswers \subseteq Answers
    BY DEF Answers
  <1>. QED
    BY <1>1, <1>2, <1>3, <1>4, <1>6, <1>7, <1>8, <1>9

------------------------------------------------------------------------------
(* Every step keeps the invariant                                          *)

LEMMA CallKeeps ==
  ASSUME StoresInv, NEW t \in Threads, Call(t)
  PROVE  StoresInv' /\ AgeMapOfStores!Call(t)
  <1>1. StoresTypeOK /\ call[t] = Idle
    BY DEF StoresInv, Call
  <1>2. PICK r \in Requests :
          call' = [call EXCEPT ![t] = [req |-> r, answer |-> IF r.op = "scan" THEN <<>> ELSE None,
                                       at |-> "called", shard |-> 1]]
    BY DEF Call
  <1>. DEFINE a == IF r.op = "scan" THEN <<>> ELSE None
              c == [req |-> r, answer |-> a, at |-> "called", shard |-> 1]
  <1>3. a \in Answers /\ (r.op = "scan" => a \in ScanAnswers /\ DOMAIN a = {}) /\ (r.op # "scan" => a = None)
    BY <1>1, AnswerTypes
  <1>4. call' = [call EXCEPT ![t] = c]
    BY <1>2
  <1>5. c.req = r /\ c.answer = a /\ c.at = "called" /\ c.shard = 1
    OBVIOUS
  <1>6. c # Idle /\ [req |-> r, answer |-> a] # Idle
    BY NotIdle
  <1>7. c \in Calls
    BY <1>3 DEF Calls, Stages
  <1>. HIDE DEF a, c
  <1>8. call \in [Threads -> {Idle} \cup Calls]
    BY <1>1 DEF StoresTypeOK
  <1>9. Moves(t, c) /\ call' \in [Threads -> {Idle} \cup Calls]
    BY <1>4, <1>7, <1>8 DEF Moves
  <1>10. UNCHANGED <<variant, part, records, cache, lock, queue>>
    BY DEF Call, Fixed
  <1>11. StoresTypeOK'
    BY <1>1, <1>9, <1>10 DEF StoresTypeOK
  <1>12. LockInv'
    BY <1>5, <1>9, <1>10, KeepLock
  <1>13. ~Stage(t, "cache") /\ ~Stage(t, "sent")
    BY <1>1 DEF Stage
  <1>14. CacheInv'
    BY <1>5, <1>9, <1>10, <1>13, KeepCache
  <1>15. Answered(c)
    <2>1. part \in [Known -> 1 .. Shards] /\ Shards \in Nat \ {0}
      BY <1>1, StoresAssumption DEF StoresTypeOK
    <2>2. {x \in Known : part[x] < 1} = {} /\ 1 \in 1 .. Shards
      BY <2>1
    <2>. QED
      BY <1>3, <1>5, <2>2 DEF Answered
  <1>16. AnswerInv'
    BY <1>9, <1>10, <1>15, KeepAnswers
  <1>17. QueueInv'
    BY <1>5, <1>9, <1>10, <1>13, KeepQueue
  <1>18. AgeMapOfStores!Call(t)
    <2>1. Seen[t] = Idle
      BY <1>1 DEF Seen
    <2>2. Seen'[t] = [req |-> r, answer |-> a]
      BY <1>5, <1>6, <1>9 DEF Seen, Moves
    <2>3. \A u \in Threads \ {t} : Seen'[u] = Seen[u]
      BY <1>9 DEF Seen, Moves
    <2>4. Seen = [u \in Threads |-> Seen[u]] /\ Seen' = [u \in Threads |-> Seen'[u]]
      BY DEF Seen
    <2>5. Seen' = [Seen EXCEPT ![t] = [req |-> r, answer |-> a]]
      BY <2>2, <2>3, <2>4
    <2>6. Seen' = [Seen EXCEPT ![t] = [req |-> r, answer |-> IF r.op = "scan" THEN <<>> ELSE None]]
      BY <2>5 DEF a
    <2>7. r \in AgeMapOfStores!Requests /\ Seen[t] = AgeMapOfStores!Idle
      BY <2>1 DEF Requests, Idle, AgeMapOfStores!Requests, AgeMapOfStores!Idle
    <2>8. UNCHANGED <<records, ~Split>>
      BY <1>10 DEF Split
    <2>. QED
      BY <2>6, <2>7, <2>8 DEF AgeMapOfStores!Call, Seen
  <1>. QED
    BY <1>11, <1>12, <1>14, <1>16, <1>17, <1>18 DEF StoresInv

LEMMA ReturnKeeps ==
  ASSUME StoresInv, NEW t \in Threads, Return(t)
  PROVE  StoresInv' /\ AgeMapOfStores!Return(t)
  <1>1. StoresTypeOK /\ call[t] # Idle /\ call[t].at = "done" /\ call' = [call EXCEPT ![t] = Idle]
    BY DEF StoresInv, Return
  <1>2. UNCHANGED <<variant, part, records, cache, queue>>
    BY DEF Return, Fixed
  <1>3. Moves(t, Idle) /\ call' \in [Threads -> {Idle} \cup Calls]
    BY <1>1 DEF StoresTypeOK, Moves
  <1>4. /\ lock \in [writer : Threads \cup {None}, readers : SUBSET Threads]
        /\ lock' = [writer |-> IF lock.writer = t THEN None ELSE lock.writer, readers |-> lock.readers \ {t}]
    BY <1>1 DEF StoresTypeOK, Return
  <1>5. StoresTypeOK'
    <2>1. lock' \in [writer : Threads \cup {None}, readers : SUBSET Threads]
      BY <1>4
    <2>. QED
      BY <1>1, <1>2, <1>3, <2>1 DEF StoresTypeOK
  <1>6. ~Stage(t, "cache") /\ ~Stage(t, "sent")
    BY <1>1 DEF Stage
  <1>7. LockInv'
    <2>1. lock'.writer = None \/ lock'.readers = {}
      BY <1>4 DEF StoresInv, LockInv
    <2>2. ASSUME NEW u \in Threads, Stage(u, "held")' \/ Stage(u, "cache")'
          PROVE  /\ variant' = "global_rwlock"
                 /\ call'[u].req.op = "update" => lock'.writer = u
                 /\ call'[u].req.op # "update" => u \in lock'.readers
      <3>1. u # t /\ call'[u] = call[u] /\ (Stage(u, "held") \/ Stage(u, "cache"))
        BY <1>3, <2>2 DEF Moves, Stage
      <3>. QED
        BY <1>2, <1>4, <3>1 DEF StoresInv, LockInv
    <2>. QED
      BY <2>1, <2>2 DEF LockInv
  <1>8. CacheInv'
    BY <1>2, <1>3, <1>6, KeepCache
  <1>9. AnswerInv'
    BY <1>2, <1>3, KeepAnswers
  <1>10. QueueInv'
    BY <1>2, <1>3, <1>6, KeepQueue
  <1>11. AgeMapOfStores!Return(t)
    <2>1. Seen[t] = [req |-> call[t].req, answer |-> call[t].answer]
      BY <1>1 DEF Seen
    <2>2. Seen'[t] = Idle /\ \A u \in Threads \ {t} : Seen'[u] = Seen[u]
      BY <1>3 DEF Seen, Moves
    <2>3. Seen = [u \in Threads |-> Seen[u]] /\ Seen' = [u \in Threads |-> Seen'[u]]
      BY DEF Seen
    <2>4. Seen' = [Seen EXCEPT ![t] = AgeMapOfStores!Idle]
      BY <2>2, <2>3 DEF Idle, AgeMapOfStores!Idle
    <2>5. Seen[t] # AgeMapOfStores!Idle
      BY <2>1 DEF AgeMapOfStores!Idle
    <2>6. Answered(call[t])
      BY <1>1 DEF StoresInv, AnswerInv
    <2>7. IF Seen[t].req.op = "scan" THEN DOMAIN Seen[t].answer = Known ELSE Seen[t].answer # None
      BY <1>1, <2>1, <2>6 DEF Answered
    <2>8. UNCHANGED <<records, ~Split>>
      BY <1>2 DEF Split
    <2>. QED
      BY <2>4, <2>5, <2>7, <2>8 DEF AgeMapOfStores!Return, AgeMapOfStores!Asks, Seen
  <1>. QED
    BY <1>5, <1>7, <1>8, <1>9, <1>10, <1>11 DEF StoresInv

------------------------------------------------------------------------------
(* The steps of the map that an answer is                                  *)

LEMMA MapsToGet ==
  ASSUME NEW t \in Threads, call[t] # Idle, call[t].req.op = "get", call[t].answer = None,
         Seen' = [Seen EXCEPT ![t].answer = Found(call[t].req.id)], UNCHANGED <<records, variant>>
  PROVE  AgeMapOfStores!Get(t)
  <1>1. Seen[t] = [req |-> call[t].req, answer |-> call[t].answer] /\ Seen[t] # AgeMapOfStores!Idle
    BY NotIdle DEF Seen, Idle, AgeMapOfStores!Idle
  <1>2. Seen[t].req = call[t].req /\ Seen[t].answer = None
    BY <1>1
  <1>3. Seen' = [Seen EXCEPT ![t].answer = {records[x] : x \in Known \cap {Seen[t].req.id}}]
    BY <1>2 DEF Found
  <1>4. UNCHANGED <<records, ~Split>>
    BY DEF Split
  <1>. HIDE DEF Split
  <1>. QED
    BY <1>1, <1>2, <1>3, <1>4 DEF AgeMapOfStores!Get, AgeMapOfStores!Asks, AgeMapOfStores!Answer, Seen

LEMMA MapsToUpdate ==
  ASSUME NEW t \in Threads, call[t] # Idle, call[t].req.op = "update", call[t].answer = None,
         Seen' = [Seen EXCEPT ![t].answer = call[t].req.id \in Known],
         records' = IF call[t].req.id \in Known THEN [records EXCEPT ![call[t].req.id] = call[t].req.age]
                    ELSE records,
         UNCHANGED variant
  PROVE  AgeMapOfStores!Update(t)
  <1>1. Seen[t] = [req |-> call[t].req, answer |-> call[t].answer] /\ Seen[t] # AgeMapOfStores!Idle
    BY NotIdle DEF Seen, Idle, AgeMapOfStores!Idle
  <1>2. Seen[t].req = call[t].req /\ Seen[t].answer = None
    BY <1>1
  <1>3. Seen' = [Seen EXCEPT ![t].answer = Seen[t].req.id \in Known]
    BY <1>2
  <1>4. UNCHANGED ~Split
    BY DEF Split
  <1>5. records' = IF Seen[t].req.id \in Known THEN [records EXCEPT ![Seen[t].req.id] = Seen[t].req.age]
                   ELSE records
    BY <1>2
  <1>. QED
    BY <1>1, <1>2, <1>3, <1>4, <1>5
       DEF AgeMapOfStores!Update, AgeMapOfStores!Asks, AgeMapOfStores!Answer, Seen

\* A look at all the dogs at once, by a scan that has seen none.
LEMMA MapsToScan ==
  ASSUME StoresInv, NEW t \in Threads, call[t] # Idle, call[t].req.op = "scan", DOMAIN call[t].answer = {},
         Seen' = [Seen EXCEPT ![t].answer = records], UNCHANGED <<records, variant>>
  PROVE  AgeMapOfStores!Look(t)
  <1>1. Seen[t] = [req |-> call[t].req, answer |-> call[t].answer] /\ Seen[t] # AgeMapOfStores!Idle
    BY NotIdle DEF Seen, Idle, AgeMapOfStores!Idle
  <1>2. Seen[t].req = call[t].req /\ DOMAIN Seen[t].answer = {}
    BY <1>1
  <1>3. records = [x \in DOMAIN Seen[t].answer \cup Known |-> IF x \in Known THEN records[x] ELSE Seen[t].answer[x]]
    BY <1>2 DEF StoresInv, StoresTypeOK
  <1>4. Seen' = [Seen EXCEPT ![t].answer =
                  [x \in DOMAIN Seen[t].answer \cup Known |-> IF x \in Known THEN records[x] ELSE Seen[t].answer[x]]]
    BY <1>3
  <1>5. UNCHANGED <<records, ~Split>>
    BY DEF Split
  <1>6. Known \in (SUBSET (Known \ DOMAIN Seen[t].answer)) \ {{}}
    BY <1>2, StoresAssumption
  <1>. QED
    BY <1>1, <1>2, <1>4, <1>5, <1>6 DEF AgeMapOfStores!Look, AgeMapOfStores!Asks, AgeMapOfStores!Answer, Seen

LEMMA Stutters ==
  ASSUME Seen' = Seen, UNCHANGED <<records, variant>>
  PROVE  UNCHANGED AgeMapOfStores!vars
  BY DEF AgeMapOfStores!vars, Seen, Split

------------------------------------------------------------------------------
(* The RwLock's steps                                                      *)

LEMMA ReadLockKeeps ==
  ASSUME StoresInv, NEW t \in Threads, ReadLock(t)
  PROVE  StoresInv' /\ UNCHANGED AgeMapOfStores!vars
  <1>1. /\ StoresTypeOK /\ call[t] # Idle /\ call[t].at = "called" /\ call[t].req.op \in {"get", "scan"}
        /\ variant = "global_rwlock" /\ lock.writer = None
        /\ lock' = [lock EXCEPT !.readers = @ \cup {t}] /\ Step(t, "held", call[t].answer)
    BY DEF StoresInv, ReadLock, At
  <1>2. UNCHANGED <<variant, part, records, cache, queue>>
    BY DEF ReadLock, Fixed
  <1>. DEFINE c == [req |-> call[t].req, answer |-> call[t].answer, at |-> "held", shard |-> call[t].shard]
  <1>3. call[t].answer \in Answers /\ "held" \in Stages
    BY <1>1, CallFacts DEF Calls, Stages
  <1>4. /\ call' \in [Threads -> {Idle} \cup Calls] /\ Moves(t, c)
        /\ Seen' = [Seen EXCEPT ![t].answer = call[t].answer]
    BY <1>1, <1>3, StepMoves
  <1>5. c.req = call[t].req /\ c.answer = call[t].answer /\ c.at = "held" /\ c # Idle
    BY NotIdle
  <1>. HIDE DEF c
  <1>6. /\ lock \in [writer : Threads \cup {None}, readers : SUBSET Threads]
        /\ lock' \in [writer : Threads \cup {None}, readers : SUBSET Threads]
        /\ lock'.writer = None /\ lock'.readers = lock.readers \cup {t}
    BY <1>1 DEF StoresTypeOK
  <1>7. StoresTypeOK'
    BY <1>1, <1>2, <1>4, <1>6 DEF StoresTypeOK
  <1>8. ~Stage(t, "cache") /\ ~Stage(t, "sent")
    BY <1>1 DEF Stage
  <1>9. LockInv'
    <2>1. ASSUME NEW u \in Threads, Stage(u, "held")' \/ Stage(u, "cache")'
          PROVE  /\ variant' = "global_rwlock"
                 /\ call'[u].req.op = "update" => lock'.writer = u
                 /\ call'[u].req.op # "update" => u \in lock'.readers
      <3>1. CASE u = t
        BY <1>1, <1>2, <1>4, <1>5, <1>6, <3>1 DEF Moves
      <3>2. CASE u # t
        <4>1. call'[u] = call[u] /\ (Stage(u, "held") \/ Stage(u, "cache"))
          BY <1>4, <2>1, <3>2 DEF Moves, Stage
        <4>. QED
          BY <1>1, <1>2, <1>6, <4>1 DEF StoresInv, LockInv
      <3>. QED
        BY <3>1, <3>2
    <2>. QED
      BY <1>6, <2>1 DEF LockInv
  <1>10. CacheInv'
    BY <1>2, <1>4, <1>5, <1>8, KeepCache
  <1>11. Answered(c)
    <2>1. Answered(call[t])
      BY <1>1 DEF StoresInv, AnswerInv
    <2>. QED
      BY <1>1, <1>5, <2>1 DEF Answered, Split
  <1>12. AnswerInv'
    BY <1>2, <1>4, <1>11, KeepAnswers
  <1>13. QueueInv'
    BY <1>2, <1>4, <1>5, <1>8, KeepQueue
  <1>14. UNCHANGED AgeMapOfStores!vars
    BY <1>1, <1>2, <1>4, SameAnswer, Stutters
  <1>. QED
    BY <1>7, <1>9, <1>10, <1>12, <1>13, <1>14 DEF StoresInv

LEMMA WriteLockKeeps ==
  ASSUME StoresInv, NEW t \in Threads, WriteLock(t)
  PROVE  StoresInv' /\ UNCHANGED AgeMapOfStores!vars
  <1>1. /\ StoresTypeOK /\ call[t] # Idle /\ call[t].at = "called" /\ call[t].req.op = "update"
        /\ variant = "global_rwlock" /\ lock = [writer |-> None, readers |-> {}]
        /\ lock' = [lock EXCEPT !.writer = t] /\ Step(t, "held", None)
    BY DEF StoresInv, WriteLock, At
  <1>2. UNCHANGED <<variant, part, records, cache, queue>>
    BY DEF WriteLock, Fixed
  <1>. DEFINE c == [req |-> call[t].req, answer |-> None, at |-> "held", shard |-> call[t].shard]
  <1>3. None \in Answers /\ "held" \in Stages
    BY <1>1, AnswerTypes DEF Stages
  <1>4. /\ call' \in [Threads -> {Idle} \cup Calls] /\ Moves(t, c)
        /\ Seen' = [Seen EXCEPT ![t].answer = None]
    BY <1>1, <1>3, StepMoves
  <1>5. c.req = call[t].req /\ c.answer = None /\ c.at = "held" /\ c # Idle
    BY NotIdle
  <1>. HIDE DEF c
  <1>6. lock' = [writer |-> t, readers |-> {}] /\ lock.readers = {} /\ lock.writer = None
    BY <1>1
  <1>7. StoresTypeOK'
    BY <1>1, <1>2, <1>4, <1>6 DEF StoresTypeOK
  <1>8. ~Stage(t, "cache") /\ ~Stage(t, "sent")
    BY <1>1 DEF Stage
  <1>9. LockInv'
    <2>1. ASSUME NEW u \in Threads, Stage(u, "held")' \/ Stage(u, "cache")'
          PROVE  /\ variant' = "global_rwlock"
                 /\ call'[u].req.op = "update" => lock'.writer = u
                 /\ call'[u].req.op # "update" => u \in lock'.readers
      <3>1. CASE u = t
        BY <1>1, <1>2, <1>4, <1>5, <1>6, <3>1 DEF Moves
      <3>2. CASE u # t
        <4>1. call'[u] = call[u] /\ (Stage(u, "held") \/ Stage(u, "cache"))
          BY <1>4, <2>1, <3>2 DEF Moves, Stage
        <4>2. FALSE
          BY <1>6, <4>1, StoresAssumption DEF StoresInv, LockInv
        <4>. QED
          BY <4>2
      <3>. QED
        BY <3>1, <3>2
    <2>. QED
      BY <1>6, <2>1 DEF LockInv
  <1>10. CacheInv'
    BY <1>2, <1>4, <1>5, <1>8, KeepCache
  <1>11. Answered(call[t])
    BY <1>1 DEF StoresInv, AnswerInv
  <1>12. Answered(c) /\ call[t].answer = None
    BY <1>1, <1>5, <1>11 DEF Answered, Split
  <1>13. AnswerInv'
    BY <1>2, <1>4, <1>12, KeepAnswers
  <1>14. QueueInv'
    BY <1>2, <1>4, <1>5, <1>8, KeepQueue
  <1>15. UNCHANGED AgeMapOfStores!vars
    BY <1>1, <1>2, <1>4, <1>12, SameAnswer, Stutters
  <1>. QED
    BY <1>7, <1>9, <1>10, <1>13, <1>14, <1>15 DEF StoresInv

\* Nobody is between the two writes of an update while another thread is at the data.
LEMMA HeldAlone ==
  ASSUME StoresInv, NEW t \in Threads, Stage(t, "held")
  PROVE  /\ variant = "global_rwlock" /\ ~Split /\ cache = records
         /\ \A u \in Threads : ~Stage(u, "cache")
  <1>1. variant = "global_rwlock"
    BY DEF StoresInv, LockInv
  <1>2. ASSUME NEW u \in Threads, Stage(u, "cache") PROVE FALSE
    <2>1. lock.writer = u /\ u # t
      BY <1>2 DEF StoresInv, LockInv, CacheInv, Stage
    <2>2. lock.readers = {}
      BY <2>1, StoresAssumption DEF StoresInv, LockInv
    <2>3. lock.writer = t \/ t \in lock.readers
      BY DEF StoresInv, LockInv
    <2>. QED
      BY <2>1, <2>2, <2>3
  <1>. QED
    BY <1>1, <1>2 DEF StoresInv, CacheInv, Split

LEMMA GetHeldKeeps ==
  ASSUME StoresInv, NEW t \in Threads, GetHeld(t)
  PROVE  StoresInv' /\ AgeMapOfStores!Get(t)
  <1>1. /\ StoresTypeOK /\ call[t] # Idle /\ call[t].at = "held" /\ call[t].req.op = "get"
        /\ Step(t, "done", Found(call[t].req.id))
    BY DEF StoresInv, GetHeld, At
  <1>2. UNCHANGED <<variant, part, records, cache, lock, queue>>
    BY DEF GetHeld, Fixed
  <1>. DEFINE a == Found(call[t].req.id)
              c == [req |-> call[t].req, answer |-> a, at |-> "done", shard |-> call[t].shard]
  <1>3. a \in Answers /\ a # None /\ "done" \in Stages
    BY <1>1, AnswerTypes DEF Stages
  <1>4. call' \in [Threads -> {Idle} \cup Calls] /\ Moves(t, c) /\ Seen' = [Seen EXCEPT ![t].answer = a]
    BY <1>1, <1>3, StepMoves
  <1>5. c.req = call[t].req /\ c.answer = a /\ c.at = "done"
    OBVIOUS
  <1>6. call[t].answer = None
    BY <1>1 DEF StoresInv, AnswerInv, Answered
  <1>7. AgeMapOfStores!Get(t)
    BY <1>1, <1>2, <1>4, <1>6, MapsToGet
  <1>. HIDE DEF a, c
  <1>8. StoresTypeOK'
    BY <1>1, <1>2, <1>4 DEF StoresTypeOK
  <1>9. ~Stage(t, "cache") /\ ~Stage(t, "sent")
    BY <1>1 DEF Stage
  <1>10. Answered(c)
    BY <1>1, <1>3, <1>5 DEF Answered
  <1>11. LockInv' /\ CacheInv' /\ AnswerInv' /\ QueueInv'
    BY <1>2, <1>4, <1>5, <1>9, <1>10, KeepLock, KeepCache, KeepAnswers, KeepQueue
  <1>. QED
    BY <1>7, <1>8, <1>11 DEF StoresInv

LEMMA ScanHeldKeeps ==
  ASSUME StoresInv, NEW t \in Threads, ScanHeld(t)
  PROVE  StoresInv' /\ AgeMapOfStores!Look(t)
  <1>1. /\ StoresTypeOK /\ call[t] # Idle /\ call[t].at = "held" /\ call[t].req.op = "scan"
        /\ Step(t, "done", cache)
    BY DEF StoresInv, ScanHeld, At
  <1>2. UNCHANGED <<variant, part, records, cache, lock, queue>>
    BY DEF ScanHeld, Fixed
  <1>. DEFINE c == [req |-> call[t].req, answer |-> cache, at |-> "done", shard |-> call[t].shard]
  <1>3. cache \in Answers /\ "done" \in Stages
    BY <1>1, AnswerTypes DEF Stages
  <1>4. call' \in [Threads -> {Idle} \cup Calls] /\ Moves(t, c) /\ Seen' = [Seen EXCEPT ![t].answer = cache]
    BY <1>1, <1>3, StepMoves
  <1>5. c.req = call[t].req /\ c.answer = cache /\ c.at = "done"
    OBVIOUS
  <1>6. cache = records
    BY <1>1, HeldAlone DEF Stage
  <1>7. DOMAIN call[t].answer = {}
    BY <1>1 DEF StoresInv, AnswerInv, Answered
  <1>8. AgeMapOfStores!Look(t)
    BY <1>1, <1>2, <1>4, <1>6, <1>7, MapsToScan
  <1>. HIDE DEF c
  <1>9. StoresTypeOK'
    BY <1>1, <1>2, <1>4 DEF StoresTypeOK
  <1>10. ~Stage(t, "cache") /\ ~Stage(t, "sent")
    BY <1>1 DEF Stage
  <1>11. DOMAIN cache = Known /\ cache \in ScanAnswers
    BY <1>1, AnswerTypes DEF StoresTypeOK
  <1>12. Answered(c)
    BY <1>1, <1>5, <1>11 DEF Answered
  <1>13. LockInv' /\ CacheInv' /\ AnswerInv' /\ QueueInv'
    BY <1>2, <1>4, <1>5, <1>10, <1>12, KeepLock, KeepCache, KeepAnswers, KeepQueue
  <1>. QED
    BY <1>8, <1>9, <1>13 DEF StoresInv

LEMMA UpdateHeldKeeps ==
  ASSUME StoresInv, NEW t \in Threads, UpdateHeld(t)
  PROVE  StoresInv' /\ AgeMapOfStores!Update(t)
  <1>. DEFINE x == call[t].req.id
              known == x \in Known
              at == IF known THEN "cache" ELSE "done"
              c == [req |-> call[t].req, answer |-> known, at |-> at, shard |-> call[t].shard]
  <1>1. /\ StoresTypeOK /\ call[t] # Idle /\ call[t].at = "held" /\ call[t].req.op = "update"
        /\ UNCHANGED <<variant, part, cache, lock, queue>>
    BY DEF StoresInv, UpdateHeld, At, Fixed
  <1>2. /\ Step(t, at, known)
        /\ records' = IF known THEN [records EXCEPT ![x] = call[t].req.age] ELSE records
    <2>1. CASE known
      <3>1. Step(t, "cache", TRUE) /\ records' = [records EXCEPT ![x] = call[t].req.age]
        BY <2>1 DEF UpdateHeld
      <3>2. known = TRUE /\ at = "cache"
        BY <2>1
      <3>. QED
        BY <3>1, <3>2
    <2>2. CASE ~known
      <3>1. Step(t, "done", FALSE) /\ records' = records
        BY <2>2 DEF UpdateHeld
      <3>2. known = FALSE /\ at = "done"
        BY <2>2
      <3>. QED
        BY <3>1, <3>2
    <2>. QED
      BY <2>1, <2>2
  <1>3. known \in Answers /\ known # None /\ at \in Stages
    <2>1. known \in BOOLEAN
      OBVIOUS
    <2>2. known = TRUE \/ known = FALSE
      BY <2>1
    <2>. QED
      BY <1>1, <2>2, AnswerTypes DEF Stages
  <1>4. call' \in [Threads -> {Idle} \cup Calls] /\ Moves(t, c) /\ Seen' = [Seen EXCEPT ![t].answer = known]
    BY <1>1, <1>2, <1>3, StepMoves
  <1>5. call[t].answer = None
    BY <1>1 DEF StoresInv, AnswerInv, Answered
  <1>6. AgeMapOfStores!Update(t)
    BY <1>1, <1>2, <1>4, <1>5, MapsToUpdate
  <1>7. c.req = call[t].req /\ c.answer = known /\ c.at = at /\ c # Idle
    BY NotIdle
  <1>8. (known => at = "cache") /\ (~known => at = "done")
    OBVIOUS
  <1>9. call[t].req.age \in AgeRange
    BY <1>1, CallFacts
  <1>. HIDE DEF c, at
  <1>10. records' \in [Known -> AgeRange]
    BY <1>1, <1>2, <1>9 DEF StoresTypeOK
  <1>11. StoresTypeOK'
    BY <1>1, <1>4, <1>10 DEF StoresTypeOK
  <1>12. ~Split /\ cache = records /\ \A u \in Threads : ~Stage(u, "cache")
    BY <1>1, HeldAlone DEF Stage
  <1>13. LockInv'
    <2>1. lock.writer = t /\ variant = "global_rwlock"
      BY <1>1 DEF StoresInv, LockInv, Stage
    <2>2. ASSUME NEW u \in Threads, Stage(u, "held")' \/ Stage(u, "cache")'
          PROVE  /\ variant' = "global_rwlock"
                 /\ call'[u].req.op = "update" => lock'.writer = u
                 /\ call'[u].req.op # "update" => u \in lock'.readers
      <3>1. CASE u = t
        BY <1>1, <1>4, <1>7, <2>1, <3>1 DEF Moves
      <3>2. CASE u # t
        <4>1. call'[u] = call[u] /\ (Stage(u, "held") \/ Stage(u, "cache"))
          BY <1>4, <2>2, <3>2 DEF Moves, Stage
        <4>. QED
          BY <1>1, <4>1 DEF StoresInv, LockInv
      <3>. QED
        BY <3>1, <3>2
    <2>. QED
      BY <1>1, <2>2 DEF StoresInv, LockInv
  <1>14. CacheInv'
    <2>1. \A u \in Threads : Stage(u, "cache")' => u = t /\ known
      BY <1>4, <1>7, <1>8, <1>12 DEF Moves, Stage
    <2>2. known => Stage(t, "cache")'
      BY <1>4, <1>7, <1>8 DEF Moves, Stage
    <2>3. ~known => records' = cache'
      BY <1>1, <1>2, <1>12
    <2>4. known => records' = [cache' EXCEPT ![call[t].req.id] = call[t].req.age]
      BY <1>1, <1>2, <1>12
    <2>5. call'[t].req = call[t].req /\ call'[t].answer = known
      BY <1>4, <1>7 DEF Moves
    <2>6. known => call'[t].answer = TRUE
      BY <2>5
    <2>7. \A u \in Threads : Stage(u, "cache")' =>
            /\ call'[u].req.op = "update" /\ call'[u].req.id \in Known /\ call'[u].answer = TRUE
            /\ records' = [cache' EXCEPT ![call'[u].req.id] = call'[u].req.age]
      BY <1>1, <2>1, <2>4, <2>5, <2>6
    <2>8. cache' = records' \/ \E u \in Threads : Stage(u, "cache")'
      BY <2>2, <2>3
    <2>. QED
      BY <2>7, <2>8 DEF CacheInv
  <1>15. Answered(c)
    BY <1>1, <1>3, <1>7, <1>8 DEF Answered
  <1>16. AnswerInv'
    BY <1>1, <1>4, <1>15, KeepAnswers
  <1>17. QueueInv'
    BY <1>1, <1>4, <1>7, <1>8, KeepQueue DEF Stage
  <1>. QED
    BY <1>6, <1>11, <1>13, <1>14, <1>16, <1>17 DEF StoresInv

LEMMA WriteThroughKeeps ==
  ASSUME StoresInv, NEW t \in Threads, WriteThrough(t)
  PROVE  StoresInv' /\ UNCHANGED AgeMapOfStores!vars
  <1>1. /\ StoresTypeOK /\ call[t] # Idle /\ call[t].at = "cache" /\ call[t].req.op = "update"
        /\ Step(t, "done", TRUE)
        /\ cache' = [cache EXCEPT ![call[t].req.id] = call[t].req.age]
        /\ UNCHANGED <<variant, part, records, lock, queue>>
    BY DEF StoresInv, WriteThrough, At, Fixed
  <1>. DEFINE c == [req |-> call[t].req, answer |-> TRUE, at |-> "done", shard |-> call[t].shard]
  <1>2. TRUE \in Answers /\ TRUE # None /\ "done" \in Stages
    BY <1>1, AnswerTypes DEF Stages
  <1>3. call' \in [Threads -> {Idle} \cup Calls] /\ Moves(t, c) /\ Seen' = [Seen EXCEPT ![t].answer = TRUE]
    BY <1>1, <1>2, StepMoves
  <1>4. c.req = call[t].req /\ c.answer = TRUE /\ c.at = "done"
    OBVIOUS
  <1>. HIDE DEF c
  <1>5. Stage(t, "cache") /\ ~Stage(t, "sent") /\ ~Stage(t, "held")
    BY <1>1 DEF Stage
  <1>6. records = cache'
    BY <1>1, <1>5 DEF StoresInv, CacheInv
  <1>7. StoresTypeOK'
    BY <1>1, <1>3, <1>6 DEF StoresTypeOK
  <1>8. \A u \in Threads : Stage(u, "cache") => u = t
    BY <1>5 DEF StoresInv, CacheInv, LockInv
  <1>9. CacheInv'
    <2>1. \A u \in Threads : ~Stage(u, "cache")'
      BY <1>3, <1>4, <1>8 DEF Moves, Stage
    <2>. QED
      BY <1>1, <1>6, <2>1 DEF CacheInv
  <1>10. Answered(c)
    BY <1>1, <1>2, <1>4 DEF Answered
  <1>11. LockInv' /\ AnswerInv' /\ QueueInv'
    BY <1>1, <1>3, <1>4, <1>5, <1>10, KeepLock, KeepAnswers, KeepQueue
  <1>12. UNCHANGED AgeMapOfStores!vars
    <2>1. call[t].answer = TRUE
      BY <1>1, <1>5 DEF StoresInv, CacheInv
    <2>. QED
      BY <1>1, <1>3, <2>1, SameAnswer, Stutters
  <1>. QED
    BY <1>7, <1>9, <1>11, <1>12 DEF StoresInv

------------------------------------------------------------------------------
(* The shards' steps                                                       *)

\* Over shards no thread has the RwLock, and so none is between two writes.
LEMMA SplitIdle ==
  ASSUME StoresInv, variant # "global_rwlock", NEW t \in Threads
  PROVE  ~Stage(t, "cache") /\ ~Stage(t, "held")
  BY DEF StoresInv, LockInv

\* So there the cache says what the records do, if the variant has one.
LEMMA ActorCache ==
  ASSUME StoresInv, variant = "actor"
  PROVE  cache = records /\ ~Split
  BY SplitIdle DEF StoresInv, CacheInv, Split

LEMMA GetInShardKeeps ==
  ASSUME StoresInv, NEW t \in Threads, GetInShard(t)
  PROVE  StoresInv' /\ AgeMapOfStores!Get(t)
  <1>1. /\ StoresTypeOK /\ call[t] # Idle /\ call[t].at = "called" /\ call[t].req.op = "get"
        /\ Step(t, "done", Found(call[t].req.id))
    BY DEF StoresInv, GetInShard, At
  <1>2. UNCHANGED <<variant, part, records, cache, lock, queue>>
    BY DEF GetInShard, Fixed
  <1>. DEFINE a == Found(call[t].req.id)
              c == [req |-> call[t].req, answer |-> a, at |-> "done", shard |-> call[t].shard]
  <1>3. a \in Answers /\ a # None /\ "done" \in Stages
    BY <1>1, AnswerTypes DEF Stages
  <1>4. call' \in [Threads -> {Idle} \cup Calls] /\ Moves(t, c) /\ Seen' = [Seen EXCEPT ![t].answer = a]
    BY <1>1, <1>3, StepMoves
  <1>5. c.req = call[t].req /\ c.answer = a /\ c.at = "done"
    OBVIOUS
  <1>6. call[t].answer = None
    BY <1>1 DEF StoresInv, AnswerInv, Answered
  <1>7. AgeMapOfStores!Get(t)
    BY <1>1, <1>2, <1>4, <1>6, MapsToGet
  <1>. HIDE DEF a, c
  <1>8. StoresTypeOK'
    BY <1>1, <1>2, <1>4 DEF StoresTypeOK
  <1>9. ~Stage(t, "cache") /\ ~Stage(t, "sent")
    BY <1>1 DEF Stage
  <1>10. Answered(c)
    BY <1>1, <1>3, <1>5 DEF Answered
  <1>11. LockInv' /\ CacheInv' /\ AnswerInv' /\ QueueInv'
    BY <1>2, <1>4, <1>5, <1>9, <1>10, KeepLock, KeepCache, KeepAnswers, KeepQueue
  <1>. QED
    BY <1>7, <1>8, <1>11 DEF StoresInv

LEMMA UpdateInShardKeeps ==
  ASSUME StoresInv, NEW t \in Threads, UpdateInShard(t)
  PROVE  StoresInv' /\ AgeMapOfStores!Update(t)
  <1>. DEFINE x == call[t].req.id
              known == x \in Known
              c == [req |-> call[t].req, answer |-> known, at |-> "done", shard |-> call[t].shard]
  <1>1. /\ StoresTypeOK /\ call[t] # Idle /\ call[t].at = "called" /\ call[t].req.op = "update" /\ Split
        /\ Step(t, "done", known)
        /\ records' = IF known THEN [records EXCEPT ![x] = call[t].req.age] ELSE records
        /\ UNCHANGED <<variant, part, cache, lock, queue>>
    BY DEF StoresInv, UpdateInShard, At, Fixed
  <1>2. known \in Answers /\ known # None /\ "done" \in Stages
    <2>1. known = TRUE \/ known = FALSE
      OBVIOUS
    <2>. QED
      BY <1>1, <2>1, AnswerTypes DEF Stages
  <1>3. call' \in [Threads -> {Idle} \cup Calls] /\ Moves(t, c) /\ Seen' = [Seen EXCEPT ![t].answer = known]
    BY <1>1, <1>2, StepMoves
  <1>4. call[t].answer = None
    BY <1>1 DEF StoresInv, AnswerInv, Answered
  <1>5. AgeMapOfStores!Update(t)
    BY <1>1, <1>3, <1>4, MapsToUpdate
  <1>6. c.req = call[t].req /\ c.answer = known /\ c.at = "done"
    OBVIOUS
  <1>7. call[t].req.age \in AgeRange
    BY <1>1, CallFacts
  <1>. HIDE DEF c
  <1>8. records' \in [Known -> AgeRange]
    BY <1>1, <1>7 DEF StoresTypeOK
  <1>9. StoresTypeOK'
    BY <1>1, <1>3, <1>8 DEF StoresTypeOK
  <1>10. ~Stage(t, "sent") /\ variant # "global_rwlock" /\ Split'
    BY <1>1 DEF Stage, Split
  <1>11. CacheInv'
    <2>1. \A u \in Threads : ~Stage(u, "cache")'
      BY <1>3, <1>6, <1>10, SplitIdle DEF Moves, Stage
    <2>. QED
      BY <1>10, <2>1 DEF CacheInv
  <1>12. Answered(c)
    BY <1>1, <1>2, <1>6 DEF Answered
  <1>13. LockInv' /\ AnswerInv' /\ QueueInv'
    BY <1>1, <1>3, <1>6, <1>10, <1>12, KeepLock, KeepAnswers, KeepQueue
  <1>. QED
    BY <1>5, <1>9, <1>11, <1>13 DEF StoresInv

\* One shard of a scan is a look at its dogs, or no step of the map if it has none.
LEMMA ScanShardKeeps ==
  ASSUME StoresInv, NEW t \in Threads, ScanShard(t)
  PROVE  StoresInv' /\ (AgeMapOfStores!Look(t) \/ UNCHANGED AgeMapOfStores!vars)
  <1>. DEFINE k == call[t].shard
              here == {x \in Known : part[x] = k}
              seen == call[t].answer
              a == [x \in DOMAIN seen \cup here |-> IF x \in here THEN records[x] ELSE seen[x]]
              at == IF k = Shards THEN "done" ELSE "called"
              c == [req |-> call[t].req, answer |-> a, at |-> at, shard |-> k + 1]
  <1>1. StoresTypeOK /\ call[t] # Idle /\ call[t].at = "called" /\ call[t].req.op = "scan" /\ Split
    BY DEF StoresInv, ScanShard, At
  <1>2. UNCHANGED <<variant, part, records, cache, lock, queue>>
    BY DEF ScanShard, Fixed
  <1>3. /\ seen \in ScanAnswers /\ k \in 1 .. Shards /\ DOMAIN seen = {x \in Known : part[x] < k}
        /\ part \in [Known -> 1 .. Shards] /\ Shards \in Nat
    BY <1>1, StoresAssumption DEF StoresInv, StoresTypeOK, AnswerInv, Answered
  <1>4. PICK S \in SUBSET Known : seen \in [S -> AgeRange]
    BY <1>3 DEF ScanAnswers
  <1>5. DOMAIN seen = S /\ \A x \in S : seen[x] \in AgeRange
    BY <1>4
  <1>6. a \in [DOMAIN seen \cup here -> AgeRange]
    BY <1>1, <1>5 DEF StoresTypeOK
  <1>7. DOMAIN seen \cup here \in SUBSET Known /\ DOMAIN a = DOMAIN seen \cup here
    BY <1>5
  <1>8. a \in ScanAnswers /\ a \in Answers /\ at \in Stages /\ k + 1 \in Nat \ {0}
    <2>1. at \in Stages /\ k + 1 \in Nat \ {0}
      BY <1>3 DEF Stages
    <2>2. [DOMAIN seen \cup here -> AgeRange] \subseteq ScanAnswers /\ ScanAnswers \subseteq Answers
      BY <1>1, <1>7, AnswerTypes
    <2>. HIDE DEF a, at
    <2>3. a \in ScanAnswers
      BY <1>6, <2>2
    <2>. QED
      BY <2>1, <2>2, <2>3
  <1>9. call' = [call EXCEPT ![t] = c]
    <2>1. PICK r, b, s, n : call[t] = [req |-> r, answer |-> b, at |-> s, shard |-> n]
      BY <1>1, CallFacts
    <2>2. call' = [call EXCEPT ![t] = [[[call[t] EXCEPT !.answer = a] EXCEPT !.shard = k + 1] EXCEPT !.at = at]]
      <3>1. call[t].at = "called" /\ call \in [Threads -> {Idle} \cup Calls]
        BY <1>1 DEF StoresTypeOK
      <3>2. call' = [call EXCEPT ![t].answer = a, ![t].shard = k + 1,
                                 ![t].at = IF k = Shards THEN "done" ELSE @]
        BY DEF ScanShard
      <3>3. call' = [call EXCEPT ![t] = [[[call[t] EXCEPT !.answer = a] EXCEPT !.shard = k + 1]
                                           EXCEPT !.at = IF k = Shards THEN "done" ELSE call[t].at]]
        <4>. HIDE DEF a, k
        <4>. QED
          BY <2>1, <3>1, <3>2
      <3>. QED
        BY <3>1, <3>3
    <2>. HIDE DEF a, at
    <2>3. [call[t] EXCEPT !.answer = a] = [req |-> r, answer |-> a, at |-> s, shard |-> n]
      BY <2>1
    <2>4. [[req |-> r, answer |-> a, at |-> s, shard |-> n] EXCEPT !.shard = k + 1] =
            [req |-> r, answer |-> a, at |-> s, shard |-> k + 1]
      OBVIOUS
    <2>5. [[req |-> r, answer |-> a, at |-> s, shard |-> k + 1] EXCEPT !.at = at] =
            [req |-> r, answer |-> a, at |-> at, shard |-> k + 1]
      OBVIOUS
    <2>6. r = call[t].req
      BY <2>1
    <2>. QED
      BY <2>2, <2>3, <2>4, <2>5, <2>6
  <1>10. call' \in [Threads -> {Idle} \cup Calls] /\ Moves(t, c) /\ Seen' = [Seen EXCEPT ![t].answer = a]
    <2>. HIDE DEF a, at
    <2>. QED
      BY <1>1, <1>8, <1>9, MoveTypes
  <1>11. c.req = call[t].req /\ c.answer = a /\ c.at = at /\ c.shard = k + 1
    OBVIOUS
  <1>. HIDE DEF c
  <1>12. StoresTypeOK'
    BY <1>1, <1>2, <1>10 DEF StoresTypeOK
  <1>13. ~Stage(t, "cache") /\ ~Stage(t, "sent")
    BY <1>1 DEF Stage
  <1>14. Answered(c)
    <2>1. DOMAIN a = {x \in Known : part[x] < k + 1}
      BY <1>3, <1>7
    <2>2. k = Shards => DOMAIN a = Known
      BY <1>3, <2>1
    <2>3. k # Shards => k + 1 \in 1 .. Shards
      BY <1>3
    <2>4. (k = Shards => at = "done") /\ (k # Shards => at = "called")
      OBVIOUS
    <2>. HIDE DEF a, at
    <2>. QED
      BY <1>1, <1>8, <1>11, <2>1, <2>2, <2>3, <2>4 DEF Answered
  <1>15. c.at \notin {"held", "cache", "sent"}
    BY <1>11
  <1>16. LockInv' /\ CacheInv' /\ AnswerInv' /\ QueueInv'
    BY <1>2, <1>10, <1>13, <1>14, <1>15, KeepLock, KeepCache, KeepAnswers, KeepQueue
  <1>17. CASE here = {}
    <2>1. a = seen
      BY <1>4, <1>5, <1>17
    <2>. HIDE DEF a
    <2>2. Seen' = Seen
      BY <1>1, <1>10, <2>1, SameAnswer
    <2>3. UNCHANGED AgeMapOfStores!vars
      BY <1>2, <2>2, Stutters
    <2>. QED
      BY <1>12, <1>16, <2>3 DEF StoresInv
  <1>18. CASE here # {}
    <2>1. Seen[t] = [req |-> call[t].req, answer |-> seen] /\ Seen[t] # AgeMapOfStores!Idle
      BY <1>1, NotIdle DEF Seen, Idle, AgeMapOfStores!Idle
    <2>2. Seen[t].req = call[t].req /\ Seen[t].answer = seen
      BY <2>1
    <2>3. Seen' = [Seen EXCEPT ![t].answer =
             [x \in DOMAIN Seen[t].answer \cup here |-> IF x \in here THEN records[x] ELSE Seen[t].answer[x]]]
      BY <1>10, <2>2
    <2>4. here \in (SUBSET (Known \ DOMAIN Seen[t].answer)) \ {{}}
      BY <1>3, <1>18, <2>2
    <2>5. UNCHANGED <<records, ~Split>> /\ (~Split => here = Known)
      BY <1>1, <1>2 DEF Split
    <2>6. AgeMapOfStores!Look(t)
      <3>. HIDE DEF here
      <3>. QED
        BY <1>1, <2>1, <2>2, <2>3, <2>4, <2>5
           DEF AgeMapOfStores!Look, AgeMapOfStores!Asks, AgeMapOfStores!Answer, Seen
    <2>. QED
      BY <1>12, <1>16, <2>6 DEF StoresInv
  <1>. QED
    BY <1>17, <1>18

------------------------------------------------------------------------------
(* The actor's steps                                                       *)

LEMMA SendKeeps ==
  ASSUME StoresInv, NEW t \in Threads, Send(t)
  PROVE  StoresInv' /\ UNCHANGED AgeMapOfStores!vars
  <1>1. /\ StoresTypeOK /\ variant = "actor" /\ call[t] # Idle /\ call[t].at = "called"
        /\ queue' = Append(queue, t) /\ Step(t, "sent", call[t].answer)
        /\ UNCHANGED <<variant, part, records, cache, lock>>
    BY DEF StoresInv, Send, Fixed
  <1>. DEFINE c == [req |-> call[t].req, answer |-> call[t].answer, at |-> "sent", shard |-> call[t].shard]
  <1>2. call[t].answer \in Answers /\ "sent" \in Stages
    BY <1>1, CallFacts DEF Calls, Stages
  <1>3. /\ call' \in [Threads -> {Idle} \cup Calls] /\ Moves(t, c)
        /\ Seen' = [Seen EXCEPT ![t].answer = call[t].answer]
    BY <1>1, <1>2, StepMoves
  <1>4. c.req = call[t].req /\ c.answer = call[t].answer /\ c.at = "sent" /\ c # Idle
    BY NotIdle
  <1>. HIDE DEF c
  <1>5. /\ queue \in Seq(Threads) /\ queue' \in Seq(Threads) /\ Len(queue') = Len(queue) + 1
        /\ \A i \in 1 .. Len(queue) : queue'[i] = queue[i] /\ queue[i] \in Threads
        /\ queue'[Len(queue) + 1] = t /\ Len(queue) \in Nat
    BY <1>1 DEF StoresTypeOK
  <1>6. StoresTypeOK'
    BY <1>1, <1>3, <1>5 DEF StoresTypeOK
  <1>7. ~Stage(t, "cache") /\ ~Stage(t, "sent")
    BY <1>1 DEF Stage
  <1>8. Answered(call[t])
    BY <1>1 DEF StoresInv, AnswerInv
  <1>9. Answered(c)
    BY <1>1, <1>4, <1>8 DEF Answered, Split
  <1>10. LockInv' /\ CacheInv' /\ AnswerInv'
    BY <1>1, <1>3, <1>4, <1>7, <1>9, KeepLock, KeepCache, KeepAnswers
  <1>11. QueueInv'
    <2>1. Stage(t, "sent")' /\ \A u \in Threads : Stage(u, "sent") => Stage(u, "sent")'
      BY <1>3, <1>4, <1>7 DEF Moves, Stage
    <2>2. \A i \in 1 .. Len(queue) : Stage(queue[i], "sent") /\ queue[i] # t
      BY <1>7 DEF StoresInv, QueueInv
    <2>3. \A i \in 1 .. Len(queue') : i \in 1 .. Len(queue) \/ i = Len(queue) + 1
      BY <1>5
    <2>4. \A i \in 1 .. Len(queue') : call'[queue'[i]] # Idle /\ call'[queue'[i]].at = "sent"
      <3>. SUFFICES ASSUME NEW i \in 1 .. Len(queue')
                    PROVE  call'[queue'[i]] # Idle /\ call'[queue'[i]].at = "sent"
        OBVIOUS
      <3>1. CASE i \in 1 .. Len(queue)
        <4>. DEFINE q == queue[i]
        <4>1. q \in Threads /\ Stage(q, "sent") /\ queue'[i] = q
          BY <1>5, <2>2, <3>1
        <4>. HIDE DEF q
        <4>2. call'[q] # Idle /\ call'[q].at = "sent"
          BY <2>1, <4>1 DEF Stage
        <4>. QED
          BY <4>1, <4>2
      <3>2. CASE i = Len(queue) + 1
        BY <1>5, <2>1, <3>2 DEF Stage
      <3>. QED
        BY <2>3, <3>1, <3>2
    <2>5. \A i, j \in 1 .. Len(queue') : queue'[i] = queue'[j] => i = j
      <3>1. \A i, j \in 1 .. Len(queue) : queue[i] = queue[j] => i = j
        BY DEF StoresInv, QueueInv
      <3>. QED
        BY <1>5, <2>2, <2>3, <3>1
    <2>6. \A u \in Threads : Stage(u, "sent")' => variant' = "actor"
      BY <1>1
    <2>. QED
      BY <1>1, <2>4, <2>5, <2>6 DEF QueueInv, Stage
  <1>12. UNCHANGED AgeMapOfStores!vars
    BY <1>1, <1>3, SameAnswer, Stutters
  <1>. QED
    BY <1>6, <1>10, <1>11, <1>12 DEF StoresInv

\* The worker's step is the step of the map of the request it serves.
LEMMA ServeKeeps ==
  ASSUME StoresInv, Serve
  PROVE  /\ StoresInv'
         /\ \E t \in Threads : AgeMapOfStores!Get(t) \/ AgeMapOfStores!Update(t) \/ AgeMapOfStores!Look(t)
  <1>1. /\ StoresTypeOK /\ queue # <<>> /\ queue' = Tail(queue) /\ queue \in Seq(Threads)
        /\ UNCHANGED <<variant, part, lock>>
    BY DEF StoresInv, StoresTypeOK, Serve, Fixed
  <1>2. PICK t \in Threads : t = Head(queue)
    BY <1>1
  <1>3. /\ queue' \in Seq(Threads) /\ Len(queue) \in Nat \ {0} /\ Len(queue') = Len(queue) - 1
        /\ \A i \in 1 .. Len(queue') : queue'[i] = queue[i + 1] /\ queue[i + 1] \in Threads
        /\ t = queue[1]
    BY <1>1, <1>2
  <1>4. Stage(t, "sent") /\ variant = "actor"
    BY <1>1, <1>2, <1>3 DEF StoresInv, QueueInv
  <1>5. call[t] # Idle /\ call[t].at = "sent" /\ cache = records /\ ~Split
    BY <1>4, ActorCache DEF Stage
  <1>. DEFINE r == call[t].req
              After(a) == [req |-> call[t].req, answer |-> a, at |-> "done", shard |-> call[t].shard]
  <1>6. r \in Requests /\ r.op \in {"get", "update", "scan"}
    BY <1>1, <1>2, <1>3, <1>5, CallFacts
  \* What is the same whichever the request is.
  <1>7. ASSUME NEW a \in Answers, Step(t, "done", a), Answered(After(a)),
               records' \in [Known -> AgeRange], cache' = records'
        PROVE  StoresInv' /\ Seen' = [Seen EXCEPT ![t].answer = a]
    <2>1. "done" \in Stages
      BY DEF Stages
    <2>2. call' \in [Threads -> {Idle} \cup Calls] /\ Moves(t, After(a)) /\ Seen' = [Seen EXCEPT ![t].answer = a]
      BY <1>1, <1>2, <1>5, <1>7, <2>1, StepMoves
    <2>3. After(a).at = "done" /\ After(a).req = call[t].req
      OBVIOUS
    <2>. HIDE DEF After
    <2>4. StoresTypeOK'
      BY <1>1, <1>2, <1>3, <1>7, <2>2 DEF StoresTypeOK
    <2>5. LockInv' /\ AnswerInv'
      BY <1>1, <1>2, <1>3, <1>7, <2>2, <2>3, KeepLock, KeepAnswers
    <2>6. \A u \in Threads : ~Stage(u, "cache")'
      BY <1>2, <1>3, <1>4, <2>2, <2>3, SplitIdle DEF Moves, Stage
    <2>7. CacheInv'
      BY <1>7, <2>6 DEF CacheInv
    <2>8. QueueInv'
      <3>1. \A i, j \in 1 .. Len(queue) : queue[i] = queue[j] => i = j
        BY DEF StoresInv, QueueInv
      <3>2. \A i \in 1 .. Len(queue') : i + 1 \in 1 .. Len(queue) /\ queue'[i] # t
        BY <1>2, <1>3, <3>1
      <3>3. \A i \in 1 .. Len(queue') : call'[queue'[i]] # Idle /\ call'[queue'[i]].at = "sent"
        <4>. SUFFICES ASSUME NEW i \in 1 .. Len(queue')
                      PROVE  call'[queue'[i]] # Idle /\ call'[queue'[i]].at = "sent"
          OBVIOUS
        <4>. DEFINE q == queue[i + 1]
        <4>1. q \in Threads /\ queue'[i] = q /\ q # t
          BY <1>2, <1>3, <3>2
        <4>2. Stage(q, "sent")
          BY <3>2 DEF StoresInv, QueueInv
        <4>. HIDE DEF q
        <4>3. call'[q] = call[q]
          BY <2>2, <4>1 DEF Moves
        <4>. QED
          BY <4>1, <4>2, <4>3 DEF Stage
      <3>4. \A i, j \in 1 .. Len(queue') : queue'[i] = queue'[j] => i = j
        BY <1>2, <1>3, <3>1, <3>2
      <3>. QED
        BY <1>1, <1>4, <3>3, <3>4 DEF QueueInv, Stage
    <2>. QED
      BY <2>2, <2>4, <2>5, <2>7, <2>8 DEF StoresInv
  <1>8. Answered(call[t])
    BY <1>2, <1>3, <1>5 DEF StoresInv, AnswerInv
  <1>9. CASE r.op = "get"
    <2>1. Step(t, "done", Found(r.id)) /\ UNCHANGED <<records, cache>>
      BY <1>2, <1>9 DEF Serve
    <2>2. Found(r.id) \in Answers /\ Found(r.id) # None
      BY <1>1, AnswerTypes
    <2>3. Answered(After(Found(r.id)))
      BY <1>9, <2>2 DEF Answered
    <2>4. StoresInv' /\ Seen' = [Seen EXCEPT ![t].answer = Found(r.id)]
      BY <1>1, <1>5, <1>7, <2>1, <2>2, <2>3 DEF StoresTypeOK
    <2>5. call[t].answer = None
      BY <1>5, <1>8, <1>9 DEF Answered
    <2>6. AgeMapOfStores!Get(t)
      BY <1>1, <1>2, <1>3, <1>5, <1>9, <2>1, <2>4, <2>5, MapsToGet
    <2>. QED
      BY <1>2, <1>3, <2>4, <2>6
  <1>10. CASE r.op = "scan"
    <2>1. Step(t, "done", cache) /\ UNCHANGED <<records, cache>>
      BY <1>2, <1>10 DEF Serve
    <2>2. cache \in Answers /\ cache \in ScanAnswers /\ DOMAIN cache = Known
      BY <1>1, AnswerTypes DEF StoresTypeOK
    <2>3. Answered(After(cache))
      BY <1>10, <2>2 DEF Answered
    <2>4. StoresInv' /\ Seen' = [Seen EXCEPT ![t].answer = cache]
      BY <1>1, <1>5, <1>7, <2>1, <2>2, <2>3 DEF StoresTypeOK
    <2>5. DOMAIN call[t].answer = {}
      BY <1>5, <1>8, <1>10 DEF Answered
    <2>6. AgeMapOfStores!Look(t)
      BY <1>1, <1>2, <1>3, <1>5, <1>10, <2>1, <2>4, <2>5, MapsToScan
    <2>. QED
      BY <1>2, <1>3, <2>4, <2>6
  <1>11. CASE r.op = "update"
    <2>. DEFINE known == r.id \in Known
    <2>1. /\ Step(t, "done", known)
          /\ records' = [x \in Known |-> IF x = r.id THEN r.age ELSE records[x]]
          /\ cache' = [x \in Known |-> IF x = r.id THEN r.age ELSE cache[x]]
      BY <1>2, <1>11 DEF Serve
    <2>2. known \in Answers /\ known # None
      <3>1. known = TRUE \/ known = FALSE
        OBVIOUS
      <3>. QED
        BY <1>1, <3>1, AnswerTypes
    <2>3. Answered(After(known))
      <3>. HIDE DEF known
      <3>. QED
        BY <1>11, <2>2 DEF Answered
    <2>4. r.age \in AgeRange
      BY <1>1, <1>2, <1>3, <1>5, <1>11, CallFacts
    <2>5. records' \in [Known -> AgeRange] /\ cache' = records' /\ records \in [Known -> AgeRange]
      BY <1>1, <1>5, <2>1, <2>4 DEF StoresTypeOK
    <2>6. StoresInv' /\ Seen' = [Seen EXCEPT ![t].answer = known]
      BY <1>7, <2>1, <2>2, <2>3, <2>5
    <2>7. records' = IF known THEN [records EXCEPT ![r.id] = r.age] ELSE records
      BY <2>1, <2>5
    <2>8. call[t].answer = None
      BY <1>5, <1>8, <1>11 DEF Answered
    <2>9. AgeMapOfStores!Update(t)
      BY <1>1, <1>2, <1>3, <1>5, <1>11, <2>6, <2>7, <2>8, MapsToUpdate
    <2>. QED
      BY <1>2, <1>3, <2>6, <2>9
  <1>. QED
    BY <1>6, <1>9, <1>10, <1>11

------------------------------------------------------------------------------
(* The stores are maps                                                     *)

LEMMA InitStores ==
  ASSUME StoresInit
  PROVE  StoresInv /\ AgeMapOfStores!Init
  <1>1. \A t \in Threads : call[t] = Idle /\ \A at : ~Stage(t, at)
    BY DEF StoresInit, Stage
  <1>2. StoresTypeOK
    BY DEF StoresInit, StoresTypeOK
  <1>3. LockInv /\ CacheInv /\ AnswerInv
    BY <1>1 DEF StoresInit, LockInv, CacheInv, AnswerInv
  <1>4. QueueInv
    BY <1>1 DEF StoresInit, QueueInv
  <1>5. AgeMapOfStores!Init
    <2>1. Seen = [t \in Threads |-> AgeMapOfStores!Idle]
      BY <1>1 DEF Seen, Idle, AgeMapOfStores!Idle
    <2>2. records \in [Known -> AgeRange] /\ (~Split) \in BOOLEAN
      BY <1>2 DEF StoresTypeOK
    <2>. QED
      BY <2>1, <2>2 DEF AgeMapOfStores!Init, Seen
  <1>. QED
    BY <1>2, <1>3, <1>4, <1>5 DEF StoresInv

LEMMA StepStores ==
  ASSUME StoresInv, [StoresNext]_storesVars
  PROVE  StoresInv' /\ [AgeMapOfStores!Next]_(AgeMapOfStores!vars)
  <1>1. ASSUME NEW t \in Threads,
               \/ Call(t) \/ Return(t)
               \/ ReadLock(t) \/ WriteLock(t) \/ GetHeld(t) \/ ScanHeld(t) \/ UpdateHeld(t) \/ WriteThrough(t)
               \/ GetInShard(t) \/ UpdateInShard(t) \/ ScanShard(t)
               \/ Send(t)
        PROVE  StoresInv' /\ [AgeMapOfStores!Next]_(AgeMapOfStores!vars)
    <2>1. /\ StoresInv'
          /\ \/ AgeMapOfStores!Call(t) \/ AgeMapOfStores!Get(t) \/ AgeMapOfStores!Update(t)
             \/ AgeMapOfStores!Look(t) \/ AgeMapOfStores!Return(t)
             \/ UNCHANGED AgeMapOfStores!vars
      BY <1>1, CallKeeps, ReturnKeeps, ReadLockKeeps, WriteLockKeeps, GetHeldKeeps, ScanHeldKeeps,
         UpdateHeldKeeps, WriteThroughKeeps, GetInShardKeeps, UpdateInShardKeeps, ScanShardKeeps, SendKeeps
    <2>. QED
      BY <2>1 DEF AgeMapOfStores!Next
  <1>2. CASE Serve
    BY <1>2, ServeKeeps DEF AgeMapOfStores!Next
  <1>3. CASE UNCHANGED storesVars
    <2>1. UNCHANGED <<variant, part, records, cache, lock, queue, call>>
      BY <1>3 DEF storesVars
    <2>2. StoresTypeOK'
      BY <2>1 DEF StoresInv, StoresTypeOK
    <2>3. LockInv'
      BY <2>1 DEF StoresInv, LockInv, Stage
    <2>4. CacheInv'
      BY <2>1 DEF StoresInv, CacheInv, Stage, Split
    <2>5. AnswerInv'
      BY <2>1 DEF StoresInv, AnswerInv, Answered, Split
    <2>6. QueueInv'
      BY <2>1 DEF StoresInv, QueueInv, Stage
    <2>7. UNCHANGED AgeMapOfStores!vars
      BY <2>1 DEF AgeMapOfStores!vars, Split
    <2>. QED
      BY <2>2, <2>3, <2>4, <2>5, <2>6, <2>7 DEF StoresInv
  <1>. QED
    BY <1>1, <1>2, <1>3 DEF StoresNext

\* The cache of each shared store is never behind its records but inside one update.
THEOREM StoresInvariant == StoresSpec => []StoresInv
  <1>. QED
    BY InitStores, StepStores, PTL DEF StoresSpec

\* Each of the four shared stores implements the map of ages, for any number of
\* threads, dogs, ages and shards: its gets and updates happen at one instant each,
\* none is lost, and a scan meets each dog once, all at one instant if not split.
THEOREM StoresAreAgeMaps == StoresSpec => ImplementsAgeMap
  <1>1. StoresInit => AgeMapOfStores!Init
    BY InitStores
  <1>2. StoresInv /\ [StoresNext]_storesVars => [AgeMapOfStores!Next]_(AgeMapOfStores!vars)
    BY StepStores
  <1>. QED
    BY <1>1, <1>2, StoresInvariant, PTL DEF StoresSpec, ImplementsAgeMap, AgeMapOfStores!Spec
===============================================================================
