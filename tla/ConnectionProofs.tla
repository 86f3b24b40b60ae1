---------------------------- MODULE ConnectionProofs ----------------------------
(***************************************************************************)
(* That connections are sound, for any connections, addresses, tables and    *)
(* scenarios: what a session holds and shows, what it may commit, who may    *)
(* write, and how many failures an address is allowed.                       *)
(***************************************************************************)
EXTENDS Connection, TLAPS, FiniteSetTheorems, FunctionTheorems

------------------------------------------------------------------------------
(* Numbers                                                                 *)

\* A set of numbers that is not empty has a smallest one.
LEMMA SmallestOf ==
  ASSUME NEW T \in SUBSET Nat, T # {}
  PROVE  \E m \in T : \A k \in T : m <= k
  <1>. DEFINE R == OpToRel(<, Nat)
  <1>1. IsWellFoundedOn(R, Nat)
    BY NatLessThanWellFounded
  <1>2. \A x, y \in Nat : <<x, y>> \in R <=> x < y
    BY DEF OpToRel
  <1>. HIDE DEF R
  <1>3. PICK m \in T : \A y \in T : ~ (<<y, m>> \in R)
    BY <1>1, WFMin
  <1>4. ASSUME NEW k \in T PROVE m <= k
    <2>1. k \in Nat /\ m \in Nat
      OBVIOUS
    <2>2. ~(k < m)
      BY <1>2, <1>3, <2>1
    <2>. QED
      BY <2>1, <2>2
  <1>. QED
    BY <1>4

\* And a greatest, if they are bounded.
LEMMA GreatestOf ==
  ASSUME NEW n \in Nat, NEW T \in SUBSET (0 .. n), T # {}
  PROVE  \E m \in T : \A k \in T : k <= m
  <1>. DEFINE U == {n - i : i \in T}
  <1>1. U \in SUBSET Nat /\ U # {}
    <2>1. \A i \in T : i \in Int /\ 0 <= i /\ i <= n
      OBVIOUS
    <2>2. \A i \in T : n - i \in Nat
      BY <2>1
    <2>. QED
      BY <2>2
  <1>2. PICK u \in U : \A k \in U : u <= k
    BY <1>1, SmallestOf
  <1>3. PICK m \in T : u = n - m
    OBVIOUS
  <1>4. ASSUME NEW k \in T PROVE k <= m
    <2>1. n - k \in U
      OBVIOUS
    <2>2. n - m <= n - k
      BY <1>2, <1>3, <2>1
    <2>3. k \in Nat /\ m \in Nat
      OBVIOUS
    <2>. QED
      BY <2>2, <2>3
  <1>. QED
    BY <1>4

\* What holds of 0 and passes from each number to the next holds of all up to a bound.
LEMMA UpTo ==
  ASSUME NEW n \in Nat, NEW P, 0 \in P, \A i \in 1 .. n : i - 1 \in P => i \in P
  PROVE  \A i \in 0 .. n : i \in P
  <1>. DEFINE T == {i \in 0 .. n : i \notin P}
  <1>1. CASE T = {}
    BY <1>1
  <1>2. CASE T # {}
    <2>1. T \in SUBSET Nat
      OBVIOUS
    <2>2. PICK m \in T : \A k \in T : m <= k
      BY <1>2, <2>1, SmallestOf
    <2>3. m \in 0 .. n /\ m # 0 /\ m \notin P
      OBVIOUS
    <2>4. m \in 1 .. n /\ m - 1 \in 0 .. n
      BY <2>3
    <2>5. m - 1 \notin T
      BY <2>2, <2>4
    <2>. QED
      BY <2>3, <2>4, <2>5
  <1>. QED
    BY <1>1, <1>2

Walks(n, X, x0, step) == {g \in [0 .. n -> X] : g[0] = x0 /\ \A i \in 1 .. n : g[i] = step[i][g[i - 1]]}

\* Steps from a set into itself can be taken one after the other.
LEMMA Iterates ==
  ASSUME NEW n \in Nat, NEW X, NEW x0 \in X, NEW step \in [1 .. n -> [X -> X]]
  PROVE  Walks(n, X, x0, step) # {}
  <1>. DEFINE Good(m, g) == g \in [0 .. m -> X] /\ g[0] = x0 /\ \A i \in 1 .. m : g[i] = step[i][g[i - 1]]
              P == {m \in 0 .. n : \E g : Good(m, g)}
  <1>1. 0 \in P
    <2>1. Good(0, [i \in 0 .. 0 |-> x0])
      OBVIOUS
    <2>2. \E g : Good(0, g)
      BY <2>1
    <2>. HIDE DEF Good
    <2>. QED
      BY <2>2
  <1>2. ASSUME NEW m \in 1 .. n, m - 1 \in P PROVE m \in P
    <2>1. PICK g : Good(m - 1, g)
      BY <1>2
    <2>. DEFINE h == [i \in 0 .. m |-> IF i = m THEN step[m][g[m - 1]] ELSE g[i]]
    <2>2. \A i \in 0 .. m : i # m => i \in 0 .. (m - 1)
      OBVIOUS
    <2>3. m - 1 \in 0 .. (m - 1) /\ 0 \in 0 .. m /\ 0 # m
      OBVIOUS
    <2>4. step[m][g[m - 1]] \in X
      BY <2>1, <2>3
    <2>5. h \in [0 .. m -> X]
      BY <2>1, <2>2, <2>4
    <2>6. h[0] = x0
      BY <2>1, <2>3
    <2>7. ASSUME NEW i \in 1 .. m PROVE h[i] = step[i][h[i - 1]]
      <3>1. i \in 0 .. m /\ i - 1 \in 0 .. m /\ i - 1 # m
        OBVIOUS
      <3>2. h[i - 1] = g[i - 1]
        BY <3>1
      <3>3. CASE i = m
        BY <3>1, <3>2, <3>3
      <3>4. CASE i # m
        <4>1. i \in 1 .. (m - 1)
          BY <3>4
        <4>. QED
          BY <2>1, <3>1, <3>2, <3>4, <4>1
      <3>. QED
        BY <3>3, <3>4
    <2>. HIDE DEF h
    <2>8. Good(m, h)
      BY <2>5, <2>6, <2>7
    <2>. QED
      BY <2>8
  <1>. HIDE DEF P
  <1>3. n \in P
    <2>1. \A i \in 1 .. n : i - 1 \in P => i \in P
      BY <1>2
    <2>2. \A i \in 0 .. n : i \in P
      BY <1>1, <2>1, UpTo
    <2>. QED
      BY <2>2
  <1>. QED
    BY <1>3 DEF P, Walks

------------------------------------------------------------------------------
(* Batches and overlays                                                    *)

Entries == [Ids -> Records \cup {Absent}]

\* The places of a batch, up to the n-th, that write a field of a record.
Places(batch, n, x, f) == {i \in DOMAIN batch : i <= n /\ batch[i].id = x /\ batch[i].field = f}

\* A table as a valid batch leaves it after n operations: the records there are the
\* same, and each field has the value the last of them gave it, or that it had.
LeftBy(table, from, batch, n) ==
  /\ table \in Entries
  /\ \A x \in Ids : table[x] = Absent <=> from[x] = Absent
  /\ \A x \in Ids : from[x] # Absent =>
       \A f \in Fields :
         /\ Places(batch, n, x, f) = {} => table[x][f] = from[x][f]
         /\ \A i \in Places(batch, n, x, f) :
              (\A j \in Places(batch, n, x, f) : j <= i) => table[x][f] = batch[i].value

\* One more operation.
LEMMA OneMore ==
  ASSUME NEW from \in Entries, NEW batch \in Seq(Ops), NEW i \in 1 .. Len(batch),
         from[batch[i].id] # Absent, batch[i].value # Bad,
         NEW table, LeftBy(table, from, batch, i - 1)
  PROVE  LeftBy([table EXCEPT ![batch[i].id][batch[i].field] = batch[i].value], from, batch, i)
  <1>1. batch[i] \in Ops /\ DOMAIN batch = 1 .. Len(batch) /\ Len(batch) \in Nat
    OBVIOUS
  <1>2. PICK y \in Ids, e \in Fields, v \in Values : batch[i].id = y /\ batch[i].field = e /\ batch[i].value = v
    BY <1>1 DEF Ops
  <1>3. table \in Entries /\ table[y] # Absent /\ Absent \notin Records
    BY <1>2, ConnectionAssumption DEF LeftBy
  <1>4. PICK r \in Records : r = table[y]
    BY <1>3 DEF Entries
  <1>. DEFINE s == [r EXCEPT ![e] = v]
              new == [table EXCEPT ![y] = s]
  <1>5. s \in Records /\ s[e] = v /\ \A f \in Fields : f # e => s[f] = r[f]
    BY DEF Records
  <1>6. [table EXCEPT ![batch[i].id][batch[i].field] = batch[i].value] = new
    BY <1>2, <1>4
  <1>. HIDE DEF s
  <1>7. new \in Entries /\ new[y] = s /\ \A x \in Ids : x # y => new[x] = table[x]
    BY <1>3, <1>5 DEF Entries
  <1>. HIDE DEF new
  <1>8. \A x \in Ids : new[x] = Absent <=> from[x] = Absent
    BY <1>2, <1>3, <1>5, <1>7 DEF LeftBy
  <1>9. ASSUME NEW x \in Ids, from[x] # Absent, NEW f \in Fields
        PROVE  /\ Places(batch, i, x, f) = {} => new[x][f] = from[x][f]
               /\ \A k \in Places(batch, i, x, f) :
                    (\A j \in Places(batch, i, x, f) : j <= k) => new[x][f] = batch[k].value
    <2>. DEFINE P == Places(batch, i, x, f)
                Q == Places(batch, i - 1, x, f)
    <2>1. \A k \in DOMAIN batch : k <= i <=> k <= i - 1 \/ k = i
      BY <1>1
    <2>2. CASE x = y /\ f = e
      <3>1. i \in P
        BY <1>1, <1>2, <2>2 DEF Places
      <3>2. new[x][f] = v /\ batch[i].value = v
        BY <1>2, <1>5, <1>7, <2>2
      <3>3. ASSUME NEW k \in P, \A j \in P : j <= k PROVE k = i
        <4>1. i <= k /\ k <= i /\ k \in Nat
          BY <1>1, <3>1, <3>3 DEF Places
        <4>. QED
          BY <4>1
      <3>. HIDE DEF P
      <3>4. \A k \in P : (\A j \in P : j <= k) => new[x][f] = batch[k].value
        BY <3>2, <3>3
      <3>. QED
        BY <3>1, <3>4 DEF P
    <2>3. CASE ~(x = y /\ f = e)
      <3>1. P = Q
        BY <1>2, <2>1, <2>3 DEF Places
      <3>2. new[x][f] = table[x][f]
        BY <1>4, <1>5, <1>7, <2>3
      <3>. QED
        BY <1>9, <3>1, <3>2 DEF LeftBy
    <2>. QED
      BY <2>2, <2>3
  <1>10. LeftBy(new, from, batch, i)
    BY <1>7, <1>8, <1>9 DEF LeftBy
  <1>. QED
    BY <1>6, <1>10

\* A whole batch.
LEMMA AppliedFacts ==
  ASSUME NEW c, Here(c) \in Entries, NEW batch \in Seq(Ops), ValidBatch(c, batch)
  PROVE  LeftBy(Applied(c, batch), Here(c), batch, Len(batch))
  <1>. DEFINE n == Len(batch)
              from == Here(c)
              X == {table \in Entries : \A x \in Ids : table[x] = Absent <=> from[x] = Absent}
              put(i, table) == [table EXCEPT ![batch[i].id][batch[i].field] = batch[i].value]
              step == [i \in 1 .. n |-> [table \in X |-> put(i, table)]]
  <1>1. n \in Nat /\ DOMAIN batch = 1 .. n
    OBVIOUS
  <1>2. \A i \in 1 .. n : from[batch[i].id] # Absent /\ batch[i].value # Bad
    BY <1>1 DEF ValidBatch, ValidOp
  <1>3. PICK g \in [0 .. n -> X] : g[0] = from /\ \A i \in 1 .. n : g[i] = put(i, g[i - 1])
    <2>1. ASSUME NEW i \in 1 .. n, NEW table \in X PROVE put(i, table) \in X
      <3>1. batch[i] \in Ops /\ batch[i].id \in Ids /\ batch[i].field \in Fields /\ batch[i].value \in Values
        <4>1. batch[i] \in Ops /\ batch[i].value # Bad
          BY <1>1, <1>2
        <4>. HIDE DEF put, step, X, from
        <4>. QED
          BY <4>1 DEF Ops
      <3>2. table[batch[i].id] \in Records /\ Absent \notin Records
        BY <1>2, <3>1, ConnectionAssumption DEF Entries
      <3>3. PICK r \in Records : r = table[batch[i].id]
        BY <3>2
      <3>4. [r EXCEPT ![batch[i].field] = batch[i].value] \in Records
        BY <3>1 DEF Records
      <3>5. put(i, table) = [table EXCEPT ![batch[i].id] = [r EXCEPT ![batch[i].field] = batch[i].value]]
        BY <3>3
      <3>6. PICK y \in Ids, new \in Records : /\ y = batch[i].id /\ put(i, table) = [table EXCEPT ![y] = new]
                                              /\ from[y] # Absent /\ Absent \notin Records
        BY <1>2, <3>1, <3>2, <3>4, <3>5
      <3>7. table \in Entries /\ \A x \in Ids : table[x] = Absent <=> from[x] = Absent
        OBVIOUS
      <3>8. PICK after : after = [table EXCEPT ![y] = new]
        OBVIOUS
      <3>9. after \in Entries /\ after[y] = new /\ \A x \in Ids : x # y => after[x] = table[x]
        BY <3>7, <3>8 DEF Entries
      <3>10. \A x \in Ids : after[x] = Absent <=> from[x] = Absent
        BY <3>6, <3>7, <3>9
      <3>. QED
        BY <3>6, <3>8, <3>9, <3>10
    <2>2. step \in [1 .. n -> [X -> X]]
      BY <2>1
    <2>3. from \in X
      OBVIOUS
    <2>4. \A i \in 1 .. n, table \in X : step[i][table] = put(i, table)
      OBVIOUS
    <2>. HIDE DEF step, X, put, n, from
    <2>5. PICK g \in [0 .. n -> X] : g[0] = from /\ \A i \in 1 .. n : g[i] = step[i][g[i - 1]]
      <3>1. PICK m \in Nat : m = n
        BY <1>1
      <3>2. PICK S : S = X
        OBVIOUS
      <3>3. PICK f \in S : f = from
        BY <2>3, <3>2
      <3>4. PICK s \in [1 .. m -> [S -> S]] : s = step
        BY <2>2, <3>1, <3>2
      <3>5. Walks(m, S, f, s) # {}
        BY <3>1, <3>3, <3>4, Iterates
      <3>. QED
        BY <3>1, <3>2, <3>3, <3>4, <3>5 DEF Walks
    <2>6. \A i \in 1 .. n : g[i - 1] \in X
      BY <1>1
    <2>. QED
      BY <2>4, <2>5, <2>6
  <1>4. g = [i \in 0 .. n |-> IF i = 0 THEN Here(c) ELSE [g[i - 1] EXCEPT ![batch[i].id][batch[i].field] = batch[i].value]]
    <2>1. \A i \in 0 .. n : i = 0 \/ i \in 1 .. n
      BY <1>1
    <2>. HIDE DEF X, n
    <2>. QED
      BY <1>3, <2>1
  <1>5. PICK h : /\ Applied(c, batch) = h[n]
                 /\ h = [i \in 0 .. n |-> IF i = 0 THEN Here(c)
                                         ELSE [h[i - 1] EXCEPT ![batch[i].id][batch[i].field] = batch[i].value]]
    <2>. DEFINE after[i \in 0 .. Len(batch)] ==
                  IF i = 0 THEN Here(c)
                  ELSE [after[i - 1] EXCEPT ![batch[i].id][batch[i].field] = batch[i].value]
                ch == CHOOSE h : h = [i \in 0 .. Len(batch) |->
                                        IF i = 0 THEN Here(c)
                                        ELSE [h[i - 1] EXCEPT ![batch[i].id][batch[i].field] = batch[i].value]]
    <2>1. Applied(c, batch) = after[Len(batch)]
      BY DEF Applied
    <2>2. after = ch
      OBVIOUS
    <2>3. ch = [i \in 0 .. Len(batch) |->
                  IF i = 0 THEN Here(c)
                  ELSE [ch[i - 1] EXCEPT ![batch[i].id][batch[i].field] = batch[i].value]]
      BY <1>4, Zenon
    <2>. HIDE DEF after, ch
    <2>. QED
      BY <2>1, <2>2, <2>3
  <1>. DEFINE P == {i \in 0 .. n : LeftBy(h[i], from, batch, i)}
  <1>6. 0 \in P
    <2>1. h[0] = from /\ 0 \in 0 .. n
      BY <1>1, <1>5
    <2>2. \A x, f : Places(batch, 0, x, f) = {}
      BY <1>1 DEF Places
    <2>3. LeftBy(from, from, batch, 0)
      BY <2>2 DEF LeftBy
    <2>. QED
      BY <2>1, <2>3
  <1>7. ASSUME NEW i \in 1 .. n, i - 1 \in P PROVE i \in P
    <2>1. i \in 0 .. n /\ i # 0 /\ LeftBy(h[i - 1], from, batch, i - 1)
      BY <1>1, <1>7
    <2>2. h[i] = put(i, h[i - 1])
      BY <1>5, <2>1
    <2>. HIDE DEF from
    <2>3. LeftBy(put(i, h[i - 1]), from, batch, i)
      BY <1>2, <2>1, OneMore DEF from
    <2>. QED
      BY <2>1, <2>2, <2>3
  <1>8. n \in P
    <2>. HIDE DEF P, n
    <2>1. \A i \in 1 .. n : i - 1 \in P => i \in P
      BY <1>7
    <2>2. \A i \in 0 .. n : i \in P
      BY <1>1, <1>6, <2>1, UpTo
    <2>. QED
      BY <1>1, <2>2
  <1>. QED
    BY <1>5, <1>8

\* What a reading session is shown is what its staged batch would leave.
LEMMA OverlayFacts ==
  ASSUME NEW c, Here(c) \in Entries, conn[c].staged \in Seq(Ops), ValidBatch(c, conn[c].staged),
         NEW x \in Ids, Here(c)[x] # Absent
  PROVE  Overlay(c, x) = Applied(c, conn[c].staged)[x]
  <1>. DEFINE staged == conn[c].staged
              after == Applied(c, staged)
              ours(f) == {i \in DOMAIN staged : staged[i].id = x /\ staged[i].field = f}
              chosen(f) == CHOOSE i \in ours(f) : \A j \in ours(f) : j <= i
  <1>1. staged \in Seq(Ops) /\ DOMAIN staged = 1 .. Len(staged) /\ Len(staged) \in Nat
    OBVIOUS
  <1>2. LeftBy(after, Here(c), staged, Len(staged))
    BY AppliedFacts
  <1>3. \A f : ours(f) = Places(staged, Len(staged), x, f)
    BY <1>1 DEF Places
  <1>4. after[x] \in Records
    <2>1. after \in Entries /\ after[x] # Absent
      BY <1>2 DEF LeftBy
    <2>. HIDE DEF after
    <2>. QED
      BY <2>1 DEF Entries
  <1>5. Overlay(c, x) = [f \in Fields |-> IF f \in Updatable /\ ours(f) # {} /\ staged[chosen(f)].value # Bad
                                         THEN staged[chosen(f)].value ELSE Here(c)[x][f]]
    BY DEF Overlay
  <1>6. ASSUME NEW f \in Fields
        PROVE  after[x][f] = IF f \in Updatable /\ ours(f) # {} /\ staged[chosen(f)].value # Bad
                             THEN staged[chosen(f)].value ELSE Here(c)[x][f]
    <2>1. CASE ours(f) = {}
      <3>1. Places(staged, Len(staged), x, f) = {}
        BY <1>3, <2>1
      <3>2. after[x][f] = Here(c)[x][f]
        BY <1>2, <3>1 DEF LeftBy
      <3>. QED
        BY <2>1, <3>2
    <2>2. CASE ours(f) # {}
      <3>1. ours(f) \in SUBSET (0 .. Len(staged))
        BY <1>1
      <3>2. chosen(f) \in ours(f) /\ \A j \in ours(f) : j <= chosen(f)
        <4>. DEFINE O == ours(f)
        <4>. HIDE DEF O
        <4>1. \E i \in O : \A j \in O : j <= i
          BY <1>1, <2>2, <3>1, GreatestOf DEF O
        <4>. QED
          BY <4>1 DEF O
      <3>3. PICK k : k = chosen(f)
        OBVIOUS
      <3>4. k \in ours(f) /\ \A j \in ours(f) : j <= k
        BY <3>2, <3>3
      <3>5. ValidOp(c, staged[k])
        BY <3>4 DEF ValidBatch
      <3>6. f \in Updatable /\ staged[k].value # Bad
        BY <3>4, <3>5 DEF ValidOp
      <3>7. after[x][f] = staged[k].value
        <4>1. k \in Places(staged, Len(staged), x, f) /\ \A j \in Places(staged, Len(staged), x, f) : j <= k
          BY <1>3, <3>4
        <4>. HIDE DEF after
        <4>. QED
          BY <1>2, <4>1 DEF LeftBy
      <3>. QED
        BY <2>2, <3>3, <3>6, <3>7
    <2>. QED
      BY <2>1, <2>2
  <1>. HIDE DEF after, ours, chosen
  <1>7. after[x] = [f \in Fields |-> after[x][f]]
    BY <1>4 DEF Records
  <1>. QED
    BY <1>5, <1>6, <1>7 DEF after

------------------------------------------------------------------------------
(* Read sets                                                               *)

ReadSets == UNION {[D -> Values] : D \in SUBSET (Ids \X Fields)}
Tracked(r) == r \in ReadSets /\ IsFiniteSet(DOMAIN r) /\ Cardinality(DOMAIN r) <= MaxTrackedReads

LEMMA NoReadsFacts == NoReads \in ReadSets /\ Tracked(NoReads) /\ DOMAIN NoReads = {}
  <1>1. DOMAIN NoReads = {} /\ NoReads \in [{} -> Values]
    BY DEF NoReads
  <1>2. NoReads \in ReadSets
    BY <1>1 DEF ReadSets
  <1>. QED
    BY <1>1, <1>2, FS_EmptySet, ConnectionAssumption DEF Tracked

\* A tracked key takes the new value; a new one only if there is room.
LEMMA TrackOneFacts ==
  ASSUME NEW r, Tracked(r), NEW key \in Ids \X Fields, NEW v \in Values
  PROVE  LET n == TrackOne(r, key, v) IN
         Tracked(n) /\ \A q \in DOMAIN n : IF q = key THEN n[q] = v ELSE q \in DOMAIN r /\ n[q] = r[q]
  <1>. DEFINE n == TrackOne(r, key, v)
              D == DOMAIN r
  <1>1. D \in SUBSET (Ids \X Fields) /\ r \in [D -> Values] /\ IsFiniteSet(D) /\ Cardinality(D) \in Nat
        /\ Cardinality(D) <= MaxTrackedReads /\ MaxTrackedReads \in Nat
    BY FS_CardinalityType, ConnectionAssumption DEF Tracked, ReadSets
  <1>2. CASE key \in D \/ Cardinality(D) < MaxTrackedReads
    <2>1. n = [q \in D \cup {key} |-> IF q = key THEN v ELSE r[q]]
      BY <1>2 DEF TrackOne
    <2>. HIDE DEF n, D
    <2>2. IsFiniteSet(D \cup {key}) /\ Cardinality(D \cup {key}) <= MaxTrackedReads
      <3>1. CASE key \in D
        <4>1. D \cup {key} = D
          BY <3>1
        <4>. QED
          BY <1>1, <4>1
      <3>2. CASE key \notin D
        <4>1. IsFiniteSet(D \cup {key}) /\ Cardinality(D \cup {key}) = Cardinality(D) + 1
          BY <1>1, <3>2, FS_AddElement
        <4>2. Cardinality(D) < MaxTrackedReads
          BY <1>2, <3>2
        <4>. QED
          BY <1>1, <4>1, <4>2
      <3>. QED
        BY <3>1, <3>2
    <2>3. n \in [D \cup {key} -> Values] /\ D \cup {key} \in SUBSET (Ids \X Fields)
      BY <1>1, <2>1
    <2>4. DOMAIN n = D \cup {key} /\ n \in ReadSets
      BY <2>3 DEF ReadSets
    <2>. QED
      BY <2>1, <2>2, <2>4 DEF Tracked, n, D
  <1>3. CASE ~(key \in D \/ Cardinality(D) < MaxTrackedReads)
    BY <1>3 DEF TrackOne
  <1>. QED
    BY <1>2, <1>3

\* A read of a record tracks its fields as they are.
LEMMA TrackFacts ==
  ASSUME NEW r, Tracked(r), NEW x \in Ids, NEW fields \in Records
  PROVE  LET n == Track(r, x, fields) IN
         Tracked(n) /\ \A q \in DOMAIN n : IF q[1] = x THEN n[q] = fields[q[2]] ELSE q \in DOMAIN r /\ n[q] = r[q]
  <1>. DEFINE one == TrackOne(r, <<x, FieldSeq[1]>>, fields[FieldSeq[1]])
              two == TrackOne(one, <<x, FieldSeq[2]>>, fields[FieldSeq[2]])
              g == [i \in 0 .. Len(FieldSeq) |-> IF i = 0 THEN r ELSE IF i = 1 THEN one ELSE two]
  <1>1. Len(FieldSeq) = 2 /\ FieldSeq[1] = "title" /\ FieldSeq[2] = "status" /\ Fields = {"title", "status"}
    BY DEF FieldSeq, Fields, Range
  <1>. HIDE DEF one, two
  <1>2. g = [i \in 0 .. Len(FieldSeq) |->
               IF i = 0 THEN r ELSE TrackOne(g[i - 1], <<x, FieldSeq[i]>>, fields[FieldSeq[i]])]
    <2>1. \A i \in 0 .. 2 : i = 0 \/ i = 1 \/ i = 2
      OBVIOUS
    <2>2. g[0] = r /\ g[1] = one /\ g[2] = two
      BY <1>1
    <2>3. \A i \in 0 .. 2 : g[i] = IF i = 0 THEN r ELSE TrackOne(g[i - 1], <<x, FieldSeq[i]>>, fields[FieldSeq[i]])
      <3>1. g[1] = TrackOne(g[1 - 1], <<x, FieldSeq[1]>>, fields[FieldSeq[1]])
        BY <2>2 DEF one
      <3>2. g[2] = TrackOne(g[2 - 1], <<x, FieldSeq[2]>>, fields[FieldSeq[2]])
        BY <2>2 DEF two
      <3>. HIDE DEF g
      <3>. QED
        BY <2>1, <2>2, <3>1, <3>2
    <2>4. g = [i \in 0 .. Len(FieldSeq) |-> g[i]]
      OBVIOUS
    <2>. HIDE DEF g
    <2>. QED
      BY <1>1, <2>3, <2>4
  <1>3. PICK h : /\ Track(r, x, fields) = h[Len(FieldSeq)]
                 /\ h = [i \in 0 .. Len(FieldSeq) |->
                           IF i = 0 THEN r ELSE TrackOne(h[i - 1], <<x, FieldSeq[i]>>, fields[FieldSeq[i]])]
    <2>. DEFINE after[i \in 0 .. Len(FieldSeq)] ==
                  IF i = 0 THEN r ELSE TrackOne(after[i - 1], <<x, FieldSeq[i]>>, fields[FieldSeq[i]])
                ch == CHOOSE h : h = [i \in 0 .. Len(FieldSeq) |->
                           IF i = 0 THEN r ELSE TrackOne(h[i - 1], <<x, FieldSeq[i]>>, fields[FieldSeq[i]])]
    <2>1. Track(r, x, fields) = after[Len(FieldSeq)]
      BY DEF Track
    <2>2. after = ch
      OBVIOUS
    <2>3. ch = [i \in 0 .. Len(FieldSeq) |->
                  IF i = 0 THEN r ELSE TrackOne(ch[i - 1], <<x, FieldSeq[i]>>, fields[FieldSeq[i]])]
      BY <1>2, Zenon
    <2>. HIDE DEF after, ch
    <2>. QED
      BY <2>1, <2>2, <2>3
  <1>. HIDE DEF g
  <1>4. Track(r, x, fields) = two
    <2>1. h[0] = r
      BY <1>1, <1>3
    <2>2. h[1] = one
      BY <1>1, <1>3, <2>1 DEF one
    <2>3. h[2] = two
      BY <1>1, <1>3, <2>2 DEF two
    <2>. QED
      BY <1>1, <1>3, <2>3
  <1>5. fields["title"] \in Values /\ fields["status"] \in Values
    BY <1>1 DEF Records
  <1>6. /\ Tracked(one)
        /\ \A q \in DOMAIN one : IF q = <<x, "title">> THEN one[q] = fields["title"] ELSE q \in DOMAIN r /\ one[q] = r[q]
    BY <1>1, <1>5, TrackOneFacts DEF one
  <1>7. /\ Tracked(two)
        /\ \A q \in DOMAIN two : IF q = <<x, "status">> THEN two[q] = fields["status"] ELSE q \in DOMAIN one /\ two[q] = one[q]
    BY <1>1, <1>5, <1>6, TrackOneFacts DEF two
  <1>8. ASSUME NEW q \in DOMAIN two
        PROVE  IF q[1] = x THEN two[q] = fields[q[2]] ELSE q \in DOMAIN r /\ two[q] = r[q]
    <2>1. PICK y \in Ids, f \in Fields : q = <<y, f>>
      BY <1>7 DEF Tracked, ReadSets
    <2>2. CASE y = x
      BY <1>1, <1>6, <1>7, <2>1, <2>2
    <2>3. CASE y # x
      BY <1>6, <1>7, <2>1, <2>3
    <2>. QED
      BY <2>1, <2>2, <2>3
  <1>. QED
    BY <1>4, <1>7, <1>8

------------------------------------------------------------------------------
(* The inductive invariant                                                 *)

Locals ==
  [alive : BOOLEAN, class : Classes \cup {"none"}, first : BOOLEAN, version : Nat, table : Tables,
   session : BOOLEAN, staged : Seq(Ops), flags : SUBSET Flags, reads : ReadSets,
   failures : Nat, noting : BOOLEAN, began : Tables, seen : ReadSets]

\* The locals of one connection: what it tracks is what it was shown last; a session keeps
\* its table and its version, which Hello could only change before it.
Sound(k) ==
  /\ k \in Locals /\ k.failures < MaxAuthFailures /\ Len(k.staged) <= MaxStagedOps
  /\ Tracked(k.reads) /\ \A q \in DOMAIN k.reads : q \in DOMAIN k.seen /\ k.reads[q] = k.seen[q]
  /\ k.session => /\ k.alive /\ ~k.first /\ k.table = k.began /\ k.version >= 3
                  /\ \A f \in k.flags : k.version >= FlagVersion[f]
  /\ ~k.session => k.staged = <<>> /\ k.flags = {} /\ k.reads = NoReads

\* What a validating session holds, against some tables and the records deleted so far.
Standing(k, now_tables, now_gone) ==
  "validate_on_stage" \in k.flags =>
    \A i \in DOMAIN k.staged : LET op == k.staged[i] IN
      \/ now_tables[k.table][op.id] # Absent /\ op.field \in Updatable /\ op.value # Bad
      \/ <<k.began, op.id>> \in now_gone

TablesInv == scenario \in Scenarios /\ tables \in [Tables -> Entries]

LocalsInv ==
  /\ conn \in [Connections -> Locals]
  /\ \A c \in Connections : Sound(conn[c]) /\ Standing(conn[c], tables, gone)

\* A session that has just committed is closed.
ReplyInv == reply.to \in Connections /\ (reply.code = "committed" => conn[reply.to].flags = {})

Of(p) == {c \in Connections : PeerOf[c] = p}
Noting(p) == {c \in Of(p) : conn[c].noting}

\* A window that counts has room for the failures still to be noted; one that has
\* expired is to be replaced.
WindowsInv ==
  /\ DOMAIN peers \subseteq Peers /\ IsFiniteSet(DOMAIN peers) /\ Cardinality(DOMAIN peers) <= MaxTrackedPeers
  /\ now \in 0 .. MaxTime /\ (~scenario.limited => DOMAIN peers = {})
  /\ \A p \in DOMAIN peers :
       /\ peers[p] \in [started : 0 .. now, failures : Nat \ {0}]
       /\ peers[p].failures < Limit + Cardinality(Of(p))
       /\ ~Expired(peers[p]) => peers[p].failures + Cardinality(Noting(p)) < Limit + Cardinality(Of(p))

ConnectionInv == TablesInv /\ LocalsInv /\ ReplyInv /\ WindowsInv

LEMMA ConstantFacts ==
  /\ MaxStagedOps \in Nat /\ MaxTrackedReads \in Nat /\ MaxTime \in Nat /\ ProtocolVersion \in Nat
  /\ MaxAuthFailures \in Nat \ {0} /\ MaxTrackedPeers \in Nat \ {0} /\ Limit \in Nat \ {0} /\ Window \in Nat \ {0}
  /\ Absent \notin Records /\ IsFiniteSet(Connections) /\ Connections # {}
  /\ Fields = {"title", "status"}
  /\ FlagVersion = [f \in Flags |-> CASE f = "read_your_writes" -> 5 [] f = "validate_on_stage" -> 6 [] OTHER -> 7]
  /\ \A f \in Flags : FlagVersion[f] \in Nat
  <1>1. Fields = {"title", "status"}
    BY DEF FieldSeq, Fields, Range
  <1>2. \A f \in Flags : FlagVersion[f] \in Nat
    BY DEF FlagVersion
  <1>. QED
    BY <1>1, <1>2, ConnectionAssumption DEF FlagVersion

LEMMA ScenarioFacts ==
  ASSUME scenario \in Scenarios
  PROVE  /\ scenario.clients \subseteq Connections /\ scenario.certificates \subseteq Classes
         /\ scenario.values \subseteq Values /\ scenario.kinds \subseteq Kinds /\ scenario.ops \subseteq Ops
         /\ scenario.versions \subseteq Nat /\ scenario.flags \subseteq SUBSET Flags
         /\ scenario.tokens \subseteq Classes /\ scenario.limited \in BOOLEAN
  BY ConnectionAssumption DEF IsScenario

------------------------------------------------------------------------------
(* The locals a step may leave                                             *)

\* A connection that is accepted, or closed.
LEMMA OpenedSound ==
  ASSUME NEW class \in Classes \cup {"none"}
  PROVE  /\ Sound(Opened(class)) /\ Opened(class).flags = {} /\ ~Opened(class).noting
         /\ Sound(Closed) /\ Closed.flags = {} /\ ~Closed.noting
  <1>1. NoReads \in ReadSets /\ Tracked(NoReads) /\ DOMAIN NoReads = {} /\ Primary \in Tables
    BY NoReadsFacts, ConnectionAssumption
  <1>2. ASSUME NEW cl \in Classes \cup {"none"} PROVE Sound(Opened(cl)) /\ Opened(cl).flags = {} /\ Opened(cl).noting = FALSE /\ Opened(cl) \in Locals
    <2>1. Opened(cl) \in Locals
      BY <1>1 DEF Opened, Locals
    <2>. QED
      BY <1>1, <2>1, ConstantFacts DEF Opened, Sound
  <1>3. Closed \in Locals /\ Sound(Closed) /\ Closed.flags = {} /\ Closed.noting = FALSE
    <2>0. Opened("none").session = FALSE
      BY DEF Opened
    <2>1. PICK k \in Locals : k = Opened("none") /\ Sound(k) /\ k.flags = {} /\ k.noting = FALSE /\ k.session = FALSE
      BY <1>2, <2>0
    <2>2. Closed = [k EXCEPT !.alive = FALSE]
      BY <2>1 DEF Closed
    <2>. QED
      BY <2>1, <2>2 DEF Locals, Sound
  <1>. QED
    BY <1>2, <1>3

\* A reply alone: the request was not the first.
LEMMA AnsweredSound ==
  ASSUME NEW k, Sound(k)
  PROVE  LET n == [k EXCEPT !.first = FALSE] IN
         /\ Sound(n) /\ n.flags = k.flags /\ n.noting = k.noting
         /\ n.staged = k.staged /\ n.table = k.table /\ n.began = k.began
  BY DEF Sound, Locals

\* Sessions are closed whole.
LEMMA ClosedSound ==
  ASSUME NEW k, Sound(k)
  PROVE  LET n == [[k EXCEPT !.session = FALSE, !.staged = <<>>, !.flags = {}, !.reads = NoReads,
                             !.seen = NoReads] EXCEPT !.first = FALSE] IN
         /\ Sound(n) /\ n.flags = {} /\ n.noting = k.noting
  <1>. DEFINE n == [[k EXCEPT !.session = FALSE, !.staged = <<>>, !.flags = {}, !.reads = NoReads,
                              !.seen = NoReads] EXCEPT !.first = FALSE]
  <1>1. k \in Locals /\ <<>> \in Seq(Ops) /\ Len(<<>>) <= MaxStagedOps
    BY ConstantFacts DEF Sound
  <1>2. /\ n \in Locals /\ n.session = FALSE /\ n.staged = <<>> /\ n.flags = {} /\ n.reads = NoReads
        /\ n.noting = k.noting /\ n.failures = k.failures
    BY <1>1, NoReadsFacts DEF Locals
  <1>. HIDE DEF n
  <1>3. Sound(n)
    BY <1>1, <1>2, NoReadsFacts DEF Sound
  <1>. QED
    BY <1>2, <1>3 DEF n

LEMMA OpenSessionSound ==
  ASSUME NEW k, Sound(k), k.alive, k.version >= 3, NEW flags \in SUBSET Flags,
         \A f \in flags : k.version >= FlagVersion[f]
  PROVE  LET n == [[k EXCEPT !.session = TRUE, !.staged = <<>>, !.flags = flags, !.reads = NoReads,
                             !.seen = NoReads, !.began = k.table] EXCEPT !.first = FALSE] IN
         /\ Sound(n) /\ n.staged = <<>> /\ n.noting = k.noting
  <1>. DEFINE n == [[k EXCEPT !.session = TRUE, !.staged = <<>>, !.flags = flags, !.reads = NoReads,
                              !.seen = NoReads, !.began = k.table] EXCEPT !.first = FALSE]
  <1>1. k \in Locals /\ <<>> \in Seq(Ops) /\ Len(<<>>) <= MaxStagedOps
    BY ConstantFacts DEF Sound
  <1>2. /\ n \in Locals /\ n.session = TRUE /\ n.staged = <<>> /\ n.flags = flags /\ n.reads = NoReads
        /\ n.noting = k.noting /\ n.failures = k.failures /\ n.alive = k.alive /\ n.first = FALSE
        /\ n.table = k.table /\ n.began = k.table /\ n.version = k.version
    BY <1>1, NoReadsFacts DEF Locals
  <1>. HIDE DEF n
  <1>3. Sound(n)
    BY <1>1, <1>2, NoReadsFacts DEF Sound
  <1>. QED
    BY <1>2, <1>3 DEF n

LEMMA HelloSound ==
  ASSUME NEW k, Sound(k), k.first, NEW v \in Nat
  PROVE  LET n == [[k EXCEPT !.version = v] EXCEPT !.first = FALSE] IN
         /\ Sound(n) /\ n.flags = k.flags /\ n.noting = k.noting
         /\ n.staged = k.staged /\ n.table = k.table /\ n.began = k.began
  BY DEF Sound, Locals

LEMMA TokenSound ==
  ASSUME NEW k, Sound(k), NEW class \in Classes
  PROVE  LET n == [[k EXCEPT !.class = class] EXCEPT !.first = FALSE] IN
         /\ Sound(n) /\ n.flags = k.flags /\ n.noting = k.noting
         /\ n.staged = k.staged /\ n.table = k.table /\ n.began = k.began
  BY DEF Sound, Locals

LEMMA NotingSound ==
  ASSUME NEW k, Sound(k)
  PROVE  LET n == [[k EXCEPT !.noting = TRUE] EXCEPT !.first = FALSE] IN
         /\ Sound(n) /\ n.flags = k.flags
         /\ n.staged = k.staged /\ n.table = k.table /\ n.began = k.began
  BY DEF Sound, Locals

LEMMA FailureSound ==
  ASSUME NEW k, Sound(k), k.failures + 1 < MaxAuthFailures
  PROVE  LET n == [[k EXCEPT !.failures = @ + 1, !.noting = FALSE] EXCEPT !.first = FALSE] IN
         /\ Sound(n) /\ n.flags = k.flags /\ ~n.noting
         /\ n.staged = k.staged /\ n.table = k.table /\ n.began = k.began
  <1>. DEFINE n == [[k EXCEPT !.failures = @ + 1, !.noting = FALSE] EXCEPT !.first = FALSE]
  <1>1. k \in Locals /\ k.failures + 1 \in Nat
    BY DEF Sound, Locals
  <1>2. PICK e \in Nat : e = k.failures + 1
    BY <1>1
  <1>3. n = [[k EXCEPT !.failures = e, !.noting = FALSE] EXCEPT !.first = FALSE]
    BY <1>1, <1>2 DEF Locals
  <1>4. /\ n \in Locals /\ n.failures = e /\ n.noting = FALSE /\ n.first = FALSE
        /\ n.session = k.session /\ n.staged = k.staged /\ n.flags = k.flags /\ n.reads = k.reads
        /\ n.seen = k.seen /\ n.alive = k.alive
        /\ n.table = k.table /\ n.began = k.began /\ n.version = k.version
    BY <1>1, <1>2, <1>3 DEF Locals
  <1>. HIDE DEF n
  <1>5. Sound(n)
    BY <1>2, <1>4 DEF Sound
  <1>. QED
    BY <1>4, <1>5 DEF n

LEMMA UseSound ==
  ASSUME NEW k, Sound(k), ~k.session, NEW t \in Tables
  PROVE  LET n == [[k EXCEPT !.table = t] EXCEPT !.first = FALSE] IN
         /\ Sound(n) /\ n.flags = k.flags /\ n.noting = k.noting /\ n.staged = <<>>
  BY DEF Sound, Locals

LEMMA StageSound ==
  ASSUME NEW k, Sound(k), k.session, Len(k.staged) < MaxStagedOps, NEW op \in Ops
  PROVE  LET n == [[k EXCEPT !.staged = Append(@, op)] EXCEPT !.first = FALSE] IN
         /\ Sound(n) /\ n.flags = k.flags /\ n.noting = k.noting
         /\ n.staged = Append(k.staged, op) /\ n.table = k.table /\ n.began = k.began
  <1>1. k.staged \in Seq(Ops)
    BY DEF Sound, Locals
  <1>2. PICK s \in Seq(Ops) : s = Append(k.staged, op) /\ Len(s) = Len(k.staged) + 1
    <2>1. PICK old \in Seq(Ops) : old = k.staged
      BY <1>1
    <2>2. Append(old, op) \in Seq(Ops) /\ Len(Append(old, op)) = Len(old) + 1
      OBVIOUS
    <2>. QED
      BY <2>1, <2>2
  <1>3. Len(k.staged) \in Nat
    BY <1>1
  <1>4. [k EXCEPT !.staged = Append(@, op)] = [k EXCEPT !.staged = s]
    BY <1>2
  <1>. DEFINE n == [[k EXCEPT !.staged = s] EXCEPT !.first = FALSE]
  <1>5. k \in Locals
    BY DEF Sound
  <1>6. /\ n \in Locals /\ n.failures = k.failures /\ n.noting = k.noting /\ n.first = FALSE
        /\ n.session = k.session /\ n.staged = s /\ n.flags = k.flags /\ n.reads = k.reads
        /\ n.seen = k.seen /\ n.alive = k.alive
        /\ n.table = k.table /\ n.began = k.began /\ n.version = k.version
    BY <1>2, <1>5 DEF Locals
  <1>. HIDE DEF n
  <1>7. Len(s) <= MaxStagedOps
    BY <1>2, <1>3, ConstantFacts
  <1>8. Sound(n)
    BY <1>6, <1>7 DEF Sound
  <1>. QED
    BY <1>2, <1>4, <1>6, <1>8 DEF n

\* A read tracks what the record holds, and remembers it as shown.
LEMMA ReadSound ==
  ASSUME NEW k, Sound(k), k.session, NEW x \in Ids, NEW fields \in Records
  PROVE  LET n == [[k EXCEPT !.reads = Track(@, x, fields), !.seen = See(@, x, fields)] EXCEPT !.first = FALSE] IN
         /\ Sound(n) /\ n.flags = k.flags /\ n.noting = k.noting
         /\ n.staged = k.staged /\ n.table = k.table /\ n.began = k.began
  <1>1. k \in Locals /\ Tracked(k.reads) /\ k.seen \in ReadSets
        /\ \A q \in DOMAIN k.reads : q \in DOMAIN k.seen /\ k.reads[q] = k.seen[q]
    BY DEF Sound, Locals
  <1>2. PICK r : /\ r = Track(k.reads, x, fields) /\ Tracked(r)
                 /\ \A q \in DOMAIN r : IF q[1] = x THEN r[q] = fields[q[2]] ELSE q \in DOMAIN k.reads /\ r[q] = k.reads[q]
    BY <1>1, TrackFacts
  <1>3. PICK s : s = See(k.seen, x, fields)
    OBVIOUS
  <1>4. s = [q \in DOMAIN k.seen \cup ({x} \X Fields) |-> IF q[1] = x THEN fields[q[2]] ELSE k.seen[q]]
    BY <1>3 DEF See
  <1>5. s \in ReadSets
    <2>. DEFINE D == DOMAIN k.seen
                E == {x} \X Fields
    <2>1. D \in SUBSET (Ids \X Fields) /\ k.seen \in [D -> Values]
      BY <1>1 DEF ReadSets
    <2>2. ASSUME NEW q \in D \cup E PROVE s[q] \in Values /\ q \in Ids \X Fields
      <3>1. PICK y \in Ids, f \in Fields : q = <<y, f>>
        BY <2>1
      <3>2. fields[f] \in Values
        BY DEF Records
      <3>3. CASE y = x
        BY <1>4, <3>1, <3>2, <3>3
      <3>4. CASE y # x
        <4>1. q \in D
          BY <3>1, <3>4
        <4>. QED
          BY <1>4, <2>1, <3>1, <3>4, <4>1
      <3>. QED
        BY <3>3, <3>4
    <2>3. DOMAIN s = D \cup E
      BY <1>4
    <2>. HIDE DEF D, E
    <2>4. s = [q \in D \cup E |-> s[q]]
      BY <1>4, <2>3
    <2>5. s \in [D \cup E -> Values] /\ D \cup E \in SUBSET (Ids \X Fields)
      BY <2>2, <2>4
    <2>. QED
      BY <2>5 DEF ReadSets
  <1>6. \A q \in DOMAIN r : q \in DOMAIN s /\ r[q] = s[q]
    <2>. SUFFICES ASSUME NEW q \in DOMAIN r PROVE q \in DOMAIN s /\ r[q] = s[q]
      OBVIOUS
    <2>1. PICK y \in Ids, f \in Fields : q = <<y, f>>
      BY <1>2 DEF Tracked, ReadSets
    <2>2. CASE y = x
      <3>1. q \in {x} \X Fields
        BY <2>1, <2>2
      <3>. QED
        BY <1>2, <1>4, <2>1, <2>2, <3>1
    <2>3. CASE y # x
      <3>1. q \in DOMAIN k.reads /\ r[q] = k.reads[q]
        BY <1>2, <2>1, <2>3
      <3>. QED
        BY <1>1, <1>4, <2>1, <2>3, <3>1
    <2>. QED
      BY <2>2, <2>3
  <1>7. r \in ReadSets
    BY <1>2 DEF Tracked
  <1>8. [k EXCEPT !.reads = Track(@, x, fields), !.seen = See(@, x, fields)] = [k EXCEPT !.reads = r, !.seen = s]
    BY <1>1, <1>2, <1>3 DEF Locals
  <1>. DEFINE n == [[k EXCEPT !.reads = r, !.seen = s] EXCEPT !.first = FALSE]
  <1>9. n \in Locals /\ n.reads = r /\ n.seen = s /\ n.failures = k.failures /\ n.staged = k.staged
        /\ n.session = k.session /\ n.alive = k.alive /\ n.first = FALSE /\ n.table = k.table /\ n.began = k.began
        /\ n.version = k.version /\ n.flags = k.flags /\ n.noting = k.noting
    BY <1>1, <1>5, <1>7 DEF Locals
  <1>. HIDE DEF n
  <1>10. Sound(n)
    BY <1>2, <1>6, <1>9 DEF Sound
  <1>. QED
    BY <1>8, <1>9, <1>10 DEF n

------------------------------------------------------------------------------
(* What a step does to each part of the invariant                          *)

\* Tables keep their types and, but for deletions, their records.
TablesStep ==
  /\ tables' \in [Tables -> Entries] /\ gone \subseteq gone'
  /\ \A t \in Tables, x \in Ids : tables[t][x] # Absent => tables'[t][x] # Absent \/ <<t, x>> \in gone'

LEMMA QuietTables ==
  ASSUME ConnectionInv, NoWrite
  PROVE  TablesStep
  BY DEF ConnectionInv, TablesInv, NoWrite, TablesStep

LEMMA StandingKept ==
  ASSUME TablesStep, NEW k, Sound(k), Standing(k, tables, gone),
         NEW n, n.flags = k.flags, n.staged = k.staged, n.table = k.table, n.began = k.began
  PROVE  Standing(n, tables', gone')
  <1>. SUFFICES ASSUME "validate_on_stage" \in k.flags, NEW i \in DOMAIN k.staged
                PROVE  LET op == k.staged[i] IN
                       \/ tables'[k.table][op.id] # Absent /\ op.field \in Updatable /\ op.value # Bad
                       \/ <<k.began, op.id>> \in gone'
    BY DEF Standing
  <1>1. k.session /\ k.table = k.began /\ k.table \in Tables /\ k.staged \in Seq(Ops)
    BY DEF Sound, Locals
  <1>2. PICK op \in Ops : op = k.staged[i]
    BY <1>1
  <1>3. op.id \in Ids
    BY DEF Ops
  <1>4. \/ tables[k.table][op.id] # Absent /\ op.field \in Updatable /\ op.value # Bad
        \/ <<k.began, op.id>> \in gone
    BY <1>2 DEF Standing
  <1>. QED
    BY <1>1, <1>2, <1>3, <1>4 DEF TablesStep

LEMMA StandingEmpty ==
  ASSUME NEW n, n.staged = <<>> \/ n.flags = {}
  PROVE  Standing(n, tables', gone')
  BY DEF Standing

\* One connection's locals change.
LEMMA LocalsStep ==
  ASSUME ConnectionInv, TablesStep, NEW c \in Connections, NEW n, conn' = [conn EXCEPT ![c] = n],
         Sound(n), Standing(n, tables', gone')
  PROVE  LocalsInv' /\ conn'[c] = n
  <1>1. n \in Locals /\ conn \in [Connections -> Locals]
    BY DEF Sound, ConnectionInv, LocalsInv
  <1>2. conn' \in [Connections -> Locals] /\ conn'[c] = n /\ \A d \in Connections : d # c => conn'[d] = conn[d]
    BY <1>1
  <1>3. ASSUME NEW d \in Connections PROVE Sound(conn'[d]) /\ Standing(conn'[d], tables', gone')
    <2>1. CASE d = c
      BY <1>2, <2>1
    <2>2. CASE d # c
      <3>1. Sound(conn[d]) /\ Standing(conn[d], tables, gone)
        BY DEF ConnectionInv, LocalsInv
      <3>2. Standing(conn[d], tables', gone')
        BY <3>1, StandingKept
      <3>. QED
        BY <1>2, <2>2, <3>1, <3>2
    <2>. QED
      BY <2>1, <2>2
  <1>. QED
    BY <1>2, <1>3 DEF LocalsInv, Sound, Standing

LEMMA ReplyStep ==
  ASSUME ConnectionInv, NEW c \in Connections, NEW n, conn' = [conn EXCEPT ![c] = n],
         \/ reply' = reply /\ (n.flags = conn[c].flags \/ n.flags = {})
         \/ \E code : reply' = [to |-> c, code |-> code] /\ (code = "committed" => n.flags = {})
  PROVE  ReplyInv'
  <1>1. conn'[c] = n /\ \A d \in Connections : d # c => conn'[d] = conn[d]
    BY DEF ConnectionInv, LocalsInv
  <1>2. CASE reply' = reply /\ (n.flags = conn[c].flags \/ n.flags = {})
    BY <1>1, <1>2 DEF ConnectionInv, ReplyInv
  <1>3. CASE \E code : reply' = [to |-> c, code |-> code] /\ (code = "committed" => n.flags = {})
    BY <1>1, <1>3 DEF ReplyInv
  <1>. QED
    BY <1>2, <1>3

LEMMA NotingFacts ==
  /\ \A p : Noting(p) \in SUBSET Of(p) /\ IsFiniteSet(Of(p)) /\ IsFiniteSet(Noting(p))
  /\ \A p : Cardinality(Of(p)) \in Nat /\ Cardinality(Noting(p)) \in Nat /\ Cardinality(Noting(p)) <= Cardinality(Of(p))
  <1>1. ASSUME NEW p
        PROVE  /\ Noting(p) \in SUBSET Of(p) /\ IsFiniteSet(Of(p)) /\ IsFiniteSet(Noting(p))
               /\ Cardinality(Of(p)) \in Nat /\ Cardinality(Noting(p)) \in Nat
               /\ Cardinality(Noting(p)) <= Cardinality(Of(p))
    <2>1. Noting(p) \in SUBSET Of(p) /\ Of(p) \in SUBSET Connections
      BY DEF Noting, Of
    <2>2. IsFiniteSet(Of(p)) /\ IsFiniteSet(Noting(p)) /\ Cardinality(Noting(p)) <= Cardinality(Of(p))
      BY <2>1, FS_Subset, ConstantFacts
    <2>. QED
      BY <2>1, <2>2, FS_CardinalityType
  <1>. QED
    BY <1>1

\* Fewer failures to note need no more room.
LEMMA WindowsStep ==
  ASSUME ConnectionInv, UNCHANGED <<scenario, peers, now>>, NEW c \in Connections, NEW n,
         conn' = [conn EXCEPT ![c] = n], n.noting => conn[c].noting
  PROVE  WindowsInv'
  <1>1. conn'[c] = n /\ \A d \in Connections : d # c => conn'[d] = conn[d]
    BY DEF ConnectionInv, LocalsInv
  <1>2. WindowsInv
    BY DEF ConnectionInv
  <1>3. \A p : Noting(p)' \in SUBSET Noting(p)
    BY <1>1 DEF Noting, Of
  <1>4. ASSUME NEW p PROVE Cardinality(Noting(p)') <= Cardinality(Noting(p)) /\ Cardinality(Noting(p)') \in Nat
    <2>1. IsFiniteSet(Noting(p))
      BY NotingFacts
    <2>2. IsFiniteSet(Noting(p)') /\ Cardinality(Noting(p)') <= Cardinality(Noting(p))
      BY <1>3, <2>1, FS_Subset
    <2>. QED
      BY <2>2, FS_CardinalityType
  <1>5. ASSUME NEW p \in DOMAIN peers, ~Expired(peers[p])
        PROVE  peers[p].failures + Cardinality(Noting(p)') < Limit + Cardinality(Of(p))
    <2>1. peers[p].failures + Cardinality(Noting(p)) < Limit + Cardinality(Of(p)) /\ peers[p].failures \in Nat
      BY <1>2, <1>5 DEF WindowsInv
    <2>2. Limit + Cardinality(Of(p)) \in Nat /\ Cardinality(Noting(p)) \in Nat
      BY NotingFacts, ConstantFacts
    <2>. QED
      BY <1>4, <2>1, <2>2
  <1>6. \A p : Of(p)' = Of(p)
    BY DEF Of
  <1>7. \A w : Expired(w)' <=> Expired(w)
    BY DEF Expired
  <1>. QED
    BY <1>2, <1>5, <1>6, <1>7 DEF WindowsInv, Expired

\* c is answered, and left with the locals n.
Answered(c, n, code) == conn' = [conn EXCEPT ![c] = n] /\ reply' = [to |-> c, code |-> code]

\* A request that is answered, in one step.
LEMMA AnswerKeeps ==
  ASSUME ConnectionInv, NEW c \in Connections, NEW n, NEW code, Answered(c, n, code), TablesStep, Rest,
         Sound(n), Standing(n, tables', gone'), n.noting => conn[c].noting, code = "committed" => n.flags = {}
  PROVE  ConnectionInv'
  <1>1. conn' = [conn EXCEPT ![c] = n] /\ reply' = [to |-> c, code |-> code] /\ UNCHANGED <<scenario, peers, now>>
    BY DEF Answered, Rest
  <1>2. TablesInv'
    BY <1>1 DEF ConnectionInv, TablesInv, TablesStep
  <1>3. LocalsInv'
    BY <1>1, LocalsStep
  <1>4. ReplyInv'
    BY <1>1, ReplyStep
  <1>5. WindowsInv'
    BY <1>1, WindowsStep
  <1>. QED
    BY <1>2, <1>3, <1>4, <1>5 DEF ConnectionInv

\* One after which the connection holds what it held.
LEMMA KeptKeeps ==
  ASSUME ConnectionInv, NEW c \in Connections, NEW n, NEW code, Answered(c, n, code), TablesStep, Rest,
         Sound(n), code # "committed",
         n.flags = conn[c].flags, n.noting = conn[c].noting, n.staged = conn[c].staged,
         n.table = conn[c].table, n.began = conn[c].began
  PROVE  ConnectionInv'
  <1>1. PICK k : k = conn[c] /\ Sound(k) /\ Standing(k, tables, gone)
    BY DEF ConnectionInv, LocalsInv
  <1>2. Standing(n, tables', gone')
    BY <1>1, StandingKept
  <1>3. code = "committed" => n.flags = {}
    OBVIOUS
  <1>4. n.noting => conn[c].noting
    OBVIOUS
  <1>. QED
    BY <1>2, <1>3, <1>4, AnswerKeeps

\* And one whose answer changes nothing but the tables.
LEMMA SameKeeps ==
  ASSUME ConnectionInv, NEW c \in Connections, NEW code, Answer(c, conn[c], code), TablesStep, Rest, code # "committed"
  PROVE  ConnectionInv'
  <1>1. PICK k : k = conn[c] /\ Sound(k) /\ Standing(k, tables, gone)
    BY DEF ConnectionInv, LocalsInv
  <1>2. PICK n : n = [k EXCEPT !.first = FALSE]
    OBVIOUS
  <1>3. Sound(n) /\ n.flags = k.flags /\ n.noting = k.noting /\ n.staged = k.staged /\ n.table = k.table /\ n.began = k.began
    BY <1>1, <1>2, AnsweredSound
  <1>4. Answered(c, n, code)
    BY <1>1, <1>2 DEF Answer, Answered
  <1>. QED
    BY <1>1, <1>3, <1>4, KeptKeeps

------------------------------------------------------------------------------
(* One step at a time                                                      *)

LEMMA AcceptKeeps ==
  ASSUME ConnectionInv, NEW c \in Connections, Accept(c)
  PROVE  ConnectionInv'
  <1>1. PICK class \in InitialClasses : conn' = [conn EXCEPT ![c] = Opened(class)]
    BY DEF Accept
  <1>2. class \in Classes \cup {"none"}
    BY ScenarioFacts DEF ConnectionInv, TablesInv, InitialClasses, Classes
  <1>3. PICK n : n = Opened(class) /\ Sound(n) /\ n.flags = {} /\ ~n.noting
    BY <1>2, OpenedSound
  <1>4. conn' = [conn EXCEPT ![c] = n] /\ TablesStep /\ UNCHANGED <<scenario, peers, now, reply, tables>>
    BY <1>1, <1>3, QuietTables DEF Accept, Rest, NoWrite
  <1>5. LocalsInv'
    BY <1>3, <1>4, StandingEmpty, LocalsStep
  <1>6. ReplyInv'
    BY <1>3, <1>4, ReplyStep
  <1>7. WindowsInv'
    BY <1>3, <1>4, WindowsStep
  <1>. QED
    BY <1>4, <1>5, <1>6, <1>7 DEF ConnectionInv, TablesInv

LEMMA DisconnectKeeps ==
  ASSUME ConnectionInv, NEW c \in Connections, Disconnect(c)
  PROVE  ConnectionInv'
  <1>1. PICK n : n = Closed /\ Sound(n) /\ n.flags = {} /\ ~n.noting
    BY OpenedSound
  <1>2. conn' = [conn EXCEPT ![c] = n] /\ TablesStep /\ UNCHANGED <<scenario, peers, now, reply, tables>>
    BY <1>1, QuietTables DEF Disconnect, Rest, NoWrite
  <1>3. LocalsInv'
    BY <1>1, <1>2, StandingEmpty, LocalsStep
  <1>4. ReplyInv'
    BY <1>1, <1>2, ReplyStep
  <1>5. WindowsInv'
    BY <1>1, <1>2, WindowsStep
  <1>. QED
    BY <1>2, <1>3, <1>4, <1>5 DEF ConnectionInv, TablesInv

LEMMA SmallerOfTwo ==
  ASSUME NEW v \in Nat, NEW w \in Nat
  PROVE  Min({v, w}) \in Nat
  <1>1. \E m \in {v, w} : \A n \in {v, w} : m <= n
    BY SmallestOf
  <1>. QED
    BY <1>1 DEF Min

LEMMA HelloKeeps ==
  ASSUME ConnectionInv, NEW c \in Connections, Hello(c)
  PROVE  ConnectionInv'
  <1>1. PICK k : k = conn[c] /\ Sound(k) /\ Standing(k, tables, gone)
    BY DEF ConnectionInv, LocalsInv
  <1>2. TablesStep /\ Rest
    BY QuietTables DEF Hello
  <1>3. PICK v \in scenario.versions :
          IF conn[c].first /\ v # 0
          THEN Answer(c, [conn[c] EXCEPT !.version = Min({v, ProtocolVersion})], "hello")
          ELSE Answer(c, conn[c], "malformed")
    BY DEF Hello
  <1>4. CASE conn[c].first /\ v # 0
    <2>1. v \in Nat
      BY ScenarioFacts DEF ConnectionInv, TablesInv
    <2>2. PICK m \in Nat : m = Min({v, ProtocolVersion})
      BY <2>1, SmallerOfTwo, ConstantFacts
    <2>3. PICK n : n = [[k EXCEPT !.version = m] EXCEPT !.first = FALSE]
      OBVIOUS
    <2>4. Sound(n) /\ n.flags = k.flags /\ n.noting = k.noting /\ n.staged = k.staged /\ n.table = k.table /\ n.began = k.began
      <3>1. Sound(k) /\ k.first
        BY <1>1, <1>4
      <3>2. LET o == [[k EXCEPT !.version = m] EXCEPT !.first = FALSE] IN
            /\ Sound(o) /\ o.flags = k.flags /\ o.noting = k.noting
            /\ o.staged = k.staged /\ o.table = k.table /\ o.began = k.began
        BY <3>1, HelloSound
      <3>. QED
        BY <2>3, <3>2
    <2>5. Answered(c, n, "hello")
      BY <1>1, <1>3, <1>4, <2>2, <2>3 DEF Answer, Answered
    <2>. QED
      BY <1>1, <1>2, <2>4, <2>5, KeptKeeps
  <1>5. CASE ~(conn[c].first /\ v # 0)
    BY <1>2, <1>3, <1>5, SameKeeps
  <1>. QED
    BY <1>4, <1>5

LEMMA RefuseKeeps ==
  ASSUME ConnectionInv, NEW c \in Connections, NEW kind, Refuse(c, kind)
  PROVE  ConnectionInv'
  <1>1. TablesStep /\ Rest
    BY QuietTables DEF Refuse
  <1>2. \E code : code # "committed" /\ Answer(c, conn[c], code)
    <2>1. CASE Answer(c, conn[c], "unauthenticated")
      BY <2>1
    <2>2. CASE Answer(c, conn[c], "unauthorized")
      BY <2>2
    <2>3. CASE Answer(c, conn[c], IF conn[c].session THEN "session_open" ELSE "no_session")
      BY <2>3
    <2>4. CASE Answer(c, conn[c], "malformed")
      BY <2>4
    <2>. QED
      BY <2>1, <2>2, <2>3, <2>4 DEF Refuse
  <1>. QED
    BY <1>1, <1>2, SameKeeps

LEMMA BeginKeeps ==
  ASSUME ConnectionInv, NEW c \in Connections, Begin(c) \/ BeginWith(c)
  PROVE  ConnectionInv'
  <1>1. PICK k : k = conn[c] /\ Sound(k)
    BY DEF ConnectionInv, LocalsInv
  <1>2. TablesStep /\ Rest
    BY QuietTables DEF Begin, BeginWith
  <1>3. k.version \in Nat
    BY <1>1 DEF Sound, Locals
  <1>4. PICK flags \in SUBSET Flags : OpenSession(c, flags) /\ \A f \in flags : k.version >= FlagVersion[f]
    <2>1. CASE Begin(c)
      BY <2>1 DEF Begin
    <2>2. CASE BeginWith(c)
      <3>1. PICK flags \in scenario.flags : ~Unknown(c, flags) /\ OpenSession(c, flags)
        BY <2>2 DEF BeginWith
      <3>2. flags \in SUBSET Flags
        BY ScenarioFacts DEF ConnectionInv, TablesInv
      <3>3. ASSUME NEW f \in flags PROVE k.version >= FlagVersion[f]
        <4>1. ~(k.version < FlagVersion[f])
          BY <1>1, <3>1 DEF Unknown
        <4>2. FlagVersion[f] \in Nat
          BY <3>2, ConstantFacts
        <4>. QED
          BY <1>3, <4>1, <4>2
      <3>. QED
        BY <3>1, <3>2, <3>3
    <2>. QED
      BY <2>1, <2>2
  <1>5. k.alive /\ k.version >= 3
    <2>1. k.alive /\ (~(k.version < MinVersion["begin"]) \/ ~(k.version < MinVersion["begin_with"]))
      BY <1>1 DEF Begin, BeginWith, Accepts, Admitted, Ready, TooOld
    <2>2. MinVersion["begin"] = 3 /\ MinVersion["begin_with"] = 5
      BY DEF MinVersion, Kinds
    <2>. QED
      BY <1>3, <2>1, <2>2
  <1>6. PICK n : n = [[k EXCEPT !.session = TRUE, !.staged = <<>>, !.flags = flags, !.reads = NoReads,
                                !.seen = NoReads, !.began = k.table] EXCEPT !.first = FALSE]
    OBVIOUS
  <1>7. Sound(n) /\ n.staged = <<>> /\ n.noting = k.noting
    <2>1. Sound(k) /\ k.alive /\ k.version >= 3
      BY <1>1, <1>5
    <2>2. LET o == [[k EXCEPT !.session = TRUE, !.staged = <<>>, !.flags = flags, !.reads = NoReads,
                              !.seen = NoReads, !.began = k.table] EXCEPT !.first = FALSE] IN
          Sound(o) /\ o.staged = <<>> /\ o.noting = k.noting
      BY <1>4, <2>1, OpenSessionSound
    <2>. QED
      BY <1>6, <2>2
  <1>8. Answered(c, n, "ok")
    BY <1>1, <1>4, <1>6 DEF OpenSession, Answer, Answered
  <1>9. Standing(n, tables', gone')
    BY <1>7, StandingEmpty
  <1>10. n.noting => conn[c].noting
    BY <1>1, <1>7
  <1>. QED
    BY <1>2, <1>7, <1>8, <1>9, <1>10, AnswerKeeps

LEMMA CloseSessionKeeps ==
  ASSUME ConnectionInv, NEW c \in Connections, NEW code, Answer(c, CloseSession(c), code), TablesStep, Rest
  PROVE  ConnectionInv'
  <1>1. PICK k : k = conn[c] /\ Sound(k)
    BY DEF ConnectionInv, LocalsInv
  <1>2. PICK n : n = [[k EXCEPT !.session = FALSE, !.staged = <<>>, !.flags = {}, !.reads = NoReads,
                                !.seen = NoReads] EXCEPT !.first = FALSE]
    OBVIOUS
  <1>3. Sound(n) /\ n.flags = {} /\ n.noting = k.noting
    BY <1>1, <1>2, ClosedSound
  <1>4. Answered(c, n, code)
    BY <1>1, <1>2 DEF CloseSession, Answer, Answered
  <1>5. Standing(n, tables', gone')
    BY <1>3, StandingEmpty
  <1>6. n.noting => conn[c].noting
    BY <1>1, <1>3
  <1>. QED
    BY <1>3, <1>4, <1>5, <1>6, AnswerKeeps

LEMMA UseKeeps ==
  ASSUME ConnectionInv, NEW c \in Connections, Use(c)
  PROVE  ConnectionInv'
  <1>1. PICK k : k = conn[c] /\ Sound(k)
    BY DEF ConnectionInv, LocalsInv
  <1>2. TablesStep /\ Rest /\ ~k.session
    BY <1>1, QuietTables DEF Use, Accepts, Misplaced, RuntimeWrites
  <1>3. PICK t \in Tables : Answer(c, [conn[c] EXCEPT !.table = t], "ok")
    BY DEF Use
  <1>4. PICK n : n = [[k EXCEPT !.table = t] EXCEPT !.first = FALSE]
    OBVIOUS
  <1>5. Sound(n) /\ n.flags = k.flags /\ n.noting = k.noting /\ n.staged = <<>>
    <2>1. Sound(k) /\ ~k.session
      BY <1>1, <1>2
    <2>2. LET o == [[k EXCEPT !.table = t] EXCEPT !.first = FALSE] IN
          Sound(o) /\ o.flags = k.flags /\ o.noting = k.noting /\ o.staged = <<>>
      BY <2>1, UseSound
    <2>. QED
      BY <1>4, <2>2
  <1>6. Answered(c, n, "ok") /\ (n.noting => conn[c].noting)
    BY <1>1, <1>3, <1>4, <1>5 DEF Answer, Answered
  <1>7. Standing(n, tables', gone')
    BY <1>5, StandingEmpty
  <1>. QED
    BY <1>2, <1>5, <1>6, <1>7, AnswerKeeps

LEMMA RollbackKeeps ==
  ASSUME ConnectionInv, NEW c \in Connections, Rollback(c)
  PROVE  ConnectionInv'
  BY QuietTables, CloseSessionKeeps DEF Rollback

LEMMA GetKeeps ==
  ASSUME ConnectionInv, NEW c \in Connections, GetById(c)
  PROVE  ConnectionInv'
  <1>1. PICK k : k = conn[c] /\ Sound(k)
    BY DEF ConnectionInv, LocalsInv
  <1>2. TablesStep /\ Rest
    BY QuietTables DEF GetById
  <1>3. PICK x \in Ids :
          IF Here(c)[x] = Absent THEN Answer(c, conn[c], "not_found")
          ELSE Answer(c, IF Snapshot(c)
                         THEN [conn[c] EXCEPT !.reads = Track(@, x, Here(c)[x]), !.seen = See(@, x, Here(c)[x])]
                         ELSE conn[c], "record")
    BY DEF GetById
  <1>4. CASE Here(c)[x] = Absent
    BY <1>2, <1>3, <1>4, SameKeeps
  <1>5. CASE Here(c)[x] # Absent /\ ~Snapshot(c)
    <2>1. Answer(c, conn[c], "record")
      BY <1>3, <1>5
    <2>. QED
      BY <1>2, <2>1, SameKeeps
  <1>6. CASE Here(c)[x] # Absent /\ Snapshot(c)
    <2>1. PICK fields \in Records : fields = Here(c)[x]
      <3>1. k.table \in Tables
        BY <1>1 DEF Sound, Locals
      <3>2. tables[k.table] \in Entries
        BY <3>1 DEF ConnectionInv, TablesInv
      <3>. QED
        BY <1>1, <1>6, <3>2 DEF Here, Entries
    <2>2. k.session
      BY <1>1, <1>6 DEF Snapshot, Sound
    <2>3. PICK n : n = [[k EXCEPT !.reads = Track(@, x, fields), !.seen = See(@, x, fields)] EXCEPT !.first = FALSE]
      OBVIOUS
    <2>4. Sound(n) /\ n.flags = k.flags /\ n.noting = k.noting /\ n.staged = k.staged /\ n.table = k.table /\ n.began = k.began
      <3>1. Sound(k) /\ k.session
        BY <1>1, <2>2
      <3>2. LET o == [[k EXCEPT !.reads = Track(@, x, fields), !.seen = See(@, x, fields)] EXCEPT !.first = FALSE] IN
            /\ Sound(o) /\ o.flags = k.flags /\ o.noting = k.noting
            /\ o.staged = k.staged /\ o.table = k.table /\ o.began = k.began
        BY <3>1, ReadSound
      <3>. QED
        BY <2>3, <3>2
    <2>5. Answered(c, n, "record")
      BY <1>1, <1>3, <1>6, <2>1, <2>3 DEF Answer, Answered
    <2>. QED
      BY <1>1, <1>2, <2>4, <2>5, KeptKeeps
  <1>. QED
    BY <1>4, <1>5, <1>6

LEMMA StageKeeps ==
  ASSUME ConnectionInv, NEW c \in Connections, Stage(c)
  PROVE  ConnectionInv'
  <1>1. PICK k : k = conn[c] /\ Sound(k) /\ Standing(k, tables, gone)
    BY DEF ConnectionInv, LocalsInv
  <1>2. TablesStep /\ Rest /\ k.session /\ UNCHANGED <<tables, gone>>
    BY <1>1, QuietTables DEF Stage, NoWrite
  <1>3. PICK op \in scenario.ops :
          IF "validate_on_stage" \in conn[c].flags /\ ~ValidOp(c, op)
          THEN Answer(c, conn[c], "invalid")
          ELSE IF Len(conn[c].staged) >= MaxStagedOps THEN Answer(c, conn[c], "session_full")
          ELSE Answer(c, [conn[c] EXCEPT !.staged = Append(@, op)], "staged")
    BY DEF Stage
  <1>4. CASE Answer(c, conn[c], "invalid")
    BY <1>2, <1>4, SameKeeps
  <1>5. CASE Answer(c, conn[c], "session_full")
    BY <1>2, <1>5, SameKeeps
  <1>6. CASE /\ "validate_on_stage" \in k.flags => ValidOp(c, op)
             /\ ~(Len(k.staged) >= MaxStagedOps)
             /\ Answer(c, [k EXCEPT !.staged = Append(@, op)], "staged")
    <2>1. op \in Ops
      BY ScenarioFacts DEF ConnectionInv, TablesInv
    <2>2. PICK old \in Seq(Ops) : old = k.staged
      BY <1>1 DEF Sound, Locals
    <2>3. Len(k.staged) < MaxStagedOps
      BY <1>6, <2>2, ConstantFacts
    <2>4. PICK n : n = [[k EXCEPT !.staged = Append(@, op)] EXCEPT !.first = FALSE]
      OBVIOUS
    <2>5. Sound(n) /\ n.flags = k.flags /\ n.noting = k.noting
          /\ n.staged = Append(k.staged, op) /\ n.table = k.table /\ n.began = k.began
      <3>1. Sound(k) /\ k.session
        BY <1>1, <1>2
      <3>2. LET o == [[k EXCEPT !.staged = Append(@, op)] EXCEPT !.first = FALSE] IN
            /\ Sound(o) /\ o.flags = k.flags /\ o.noting = k.noting
            /\ o.staged = Append(k.staged, op) /\ o.table = k.table /\ o.began = k.began
        BY <2>1, <2>3, <3>1, StageSound
      <3>. QED
        BY <2>4, <3>2
    <2>6. Answered(c, n, "staged") /\ (n.noting => conn[c].noting)
      BY <1>1, <1>6, <2>4, <2>5 DEF Answer, Answered
    <2>7. PICK now_tables, now_gone : now_tables = tables' /\ now_gone = gone' /\ now_tables = tables /\ now_gone = gone
      BY <1>2
    <2>8. ASSUME "validate_on_stage" \in n.flags, NEW i \in DOMAIN n.staged
          PROVE  LET o == n.staged[i] IN
                 \/ now_tables[n.table][o.id] # Absent /\ o.field \in Updatable /\ o.value # Bad
                 \/ <<n.began, o.id>> \in now_gone
      <3>1. n.staged = Append(old, op) /\ i \in 1 .. Len(old) + 1 /\ Len(old) \in Nat
        BY <2>1, <2>2, <2>5
      <3>2. CASE i = Len(old) + 1
        <4>1. n.staged[i] = op
          BY <2>1, <3>1, <3>2
        <4>2. ValidOp(c, op)
          BY <1>6, <2>5, <2>8
        <4>. QED
          BY <1>1, <2>5, <2>7, <4>1, <4>2 DEF ValidOp, Here
      <3>3. CASE i # Len(old) + 1
        <4>1. i \in 1 .. Len(old) /\ n.staged[i] = old[i]
          BY <2>1, <3>1, <3>3
        <4>2. i \in DOMAIN k.staged /\ n.staged[i] = k.staged[i]
          BY <2>2, <4>1
        <4>. QED
          BY <1>1, <2>5, <2>7, <2>8, <4>2 DEF Standing
      <3>. QED
        BY <3>2, <3>3
    <2>9. Standing(n, tables', gone')
      BY <2>7, <2>8 DEF Standing
    <2>. QED
      BY <1>2, <2>5, <2>6, <2>9, AnswerKeeps
  <1>. QED
    BY <1>1, <1>3, <1>4, <1>5, <1>6

\* A valid batch leaves every record where it was.
LEMMA WriteStep ==
  ASSUME ConnectionInv, NEW c \in Connections, NEW batch \in Seq(Ops), ValidBatch(c, batch),
         Write(c, Applied(c, batch))
  PROVE  TablesStep
  <1>1. PICK t \in Tables : t = conn[c].table
    BY DEF ConnectionInv, LocalsInv, Sound, Locals
  <1>2. Here(c) = tables[t] /\ Here(c) \in Entries /\ tables \in [Tables -> Entries]
    BY <1>1 DEF Here, ConnectionInv, TablesInv
  <1>3. LeftBy(Applied(c, batch), Here(c), batch, Len(batch))
    BY <1>2, AppliedFacts
  <1>4. PICK after : after = Applied(c, batch) /\ LeftBy(after, tables[t], batch, Len(batch))
    BY <1>2, <1>3
  <1>5. tables' = [tables EXCEPT ![t] = after] /\ gone' = gone
    BY <1>1, <1>4 DEF Write
  <1>6. after \in Entries /\ \A x \in Ids : tables[t][x] # Absent => after[x] # Absent
    BY <1>4 DEF LeftBy
  <1>7. tables' \in [Tables -> Entries] /\ tables'[t] = after /\ \A u \in Tables : u # t => tables'[u] = tables[u]
    BY <1>2, <1>5, <1>6
  <1>8. ASSUME NEW u \in Tables, NEW x \in Ids, tables[u][x] # Absent PROVE tables'[u][x] # Absent
    BY <1>6, <1>7, <1>8
  <1>. QED
    BY <1>5, <1>7, <1>8 DEF TablesStep

LEMMA CommitKeeps ==
  ASSUME ConnectionInv, NEW c \in Connections, Commit(c)
  PROVE  ConnectionInv'
  <1>1. CASE /\ ValidBatch(c, conn[c].staged) /\ Write(c, Applied(c, conn[c].staged))
             /\ Answer(c, CloseSession(c), "committed")
    <2>1. PICK batch \in Seq(Ops) : batch = conn[c].staged
      BY DEF ConnectionInv, LocalsInv, Sound, Locals
    <2>2. ValidBatch(c, batch) /\ Write(c, Applied(c, batch))
      BY <1>1, <2>1
    <2>3. TablesStep /\ Rest
      BY <2>2, WriteStep DEF Commit
    <2>. QED
      BY <1>1, <2>3, CloseSessionKeeps
  <1>2. CASE NoWrite /\ Answer(c, CloseSession(c), "transaction_failed")
    <2>1. TablesStep /\ Rest
      BY <1>2, QuietTables DEF Commit
    <2>. QED
      BY <1>2, <2>1, CloseSessionKeeps
  <1>. QED
    BY <1>1, <1>2 DEF Commit

LEMMA WriteNowKeeps ==
  ASSUME ConnectionInv, NEW c \in Connections, WriteNow(c)
  PROVE  ConnectionInv'
  <1>1. PICK batch \in {<<op>> : op \in scenario.ops}
                       \cup (IF May("transaction") THEN scenario.ops \X scenario.ops ELSE {}) :
          \/ ValidBatch(c, batch) /\ Write(c, Applied(c, batch)) /\ Answer(c, conn[c], "ok")
          \/ ~ValidBatch(c, batch) /\ NoWrite /\ Answer(c, conn[c], "invalid")
    BY DEF WriteNow
  <1>2. batch \in Seq(Ops)
    <2>1. scenario.ops \subseteq Ops
      BY ScenarioFacts DEF ConnectionInv, TablesInv
    <2>2. ASSUME NEW op \in Ops PROVE <<op>> \in Seq(Ops)
      OBVIOUS
    <2>3. ASSUME NEW op \in Ops, NEW other \in Ops PROVE <<op, other>> \in Seq(Ops)
      OBVIOUS
    <2>4. \/ \E op \in scenario.ops : batch = <<op>>
          \/ \E op \in scenario.ops, other \in scenario.ops : batch = <<op, other>>
      OBVIOUS
    <2>. QED
      BY <2>1, <2>2, <2>3, <2>4
  <1>3. CASE ValidBatch(c, batch) /\ Write(c, Applied(c, batch)) /\ Answer(c, conn[c], "ok")
    <2>1. TablesStep /\ Rest
      BY <1>2, <1>3, WriteStep DEF WriteNow
    <2>. QED
      BY <1>3, <2>1, SameKeeps
  <1>4. CASE NoWrite /\ Answer(c, conn[c], "invalid")
    <2>1. TablesStep /\ Rest
      BY <1>4, QuietTables DEF WriteNow
    <2>. QED
      BY <1>4, <2>1, SameKeeps
  <1>. QED
    BY <1>1, <1>3, <1>4

LEMMA PutKeeps ==
  ASSUME ConnectionInv, NEW c \in Connections, Insert(c) \/ Replace(c)
  PROVE  ConnectionInv'
  <1>1. Rest
    BY DEF Insert, Replace
  <1>2. PICK x \in Ids, v \in scenario.values :
          \/ Write(c, [Here(c) EXCEPT ![x] = [f \in Fields |-> v]]) /\ Answer(c, conn[c], "ok")
          \/ NoWrite /\ \E code : code # "committed" /\ Answer(c, conn[c], code)
    <2>1. CASE Insert(c)
      BY <2>1 DEF Insert
    <2>2. CASE Replace(c)
      BY <2>2 DEF Replace
    <2>. QED
      BY <2>1, <2>2
  <1>3. CASE Write(c, [Here(c) EXCEPT ![x] = [f \in Fields |-> v]]) /\ Answer(c, conn[c], "ok")
    <2>1. PICK t \in Tables : t = conn[c].table
      BY DEF ConnectionInv, LocalsInv, Sound, Locals
    <2>2. PICK fields \in Records : fields = [f \in Fields |-> v]
      BY ScenarioFacts DEF Records, ConnectionInv, TablesInv
    <2>3. PICK from \in Entries : from = tables[t] /\ tables \in [Tables -> Entries]
      BY DEF ConnectionInv, TablesInv
    <2>4. PICK after : after = [from EXCEPT ![x] = fields]
      OBVIOUS
    <2>5. tables' = [tables EXCEPT ![t] = after] /\ gone' = gone
      BY <1>3, <2>1, <2>2, <2>3, <2>4 DEF Write, Here
    <2>6. after \in Entries /\ \A y \in Ids : from[y] # Absent => after[y] # Absent
      BY <2>4, ConstantFacts DEF Entries
    <2>7. tables' \in [Tables -> Entries] /\ tables'[t] = after /\ \A u \in Tables : u # t => tables'[u] = tables[u]
      BY <2>3, <2>5, <2>6
    <2>8. ASSUME NEW u \in Tables, NEW y \in Ids, tables[u][y] # Absent PROVE tables'[u][y] # Absent
      BY <2>3, <2>6, <2>7, <2>8
    <2>9. TablesStep
      BY <2>5, <2>7, <2>8 DEF TablesStep
    <2>. QED
      BY <1>1, <1>3, <2>9, SameKeeps
  <1>4. CASE NoWrite /\ \E code : code # "committed" /\ Answer(c, conn[c], code)
    BY <1>1, <1>4, QuietTables, SameKeeps
  <1>. QED
    BY <1>2, <1>3, <1>4

LEMMA DeleteKeeps ==
  ASSUME ConnectionInv, NEW c \in Connections, Delete(c)
  PROVE  ConnectionInv'
  <1>1. Rest
    BY DEF Delete
  <1>2. PICK x \in Ids :
          \/ /\ tables' = [tables EXCEPT ![conn[c].table][x] = Absent]
             /\ gone' = gone \cup {<<conn[c].table, x>>} /\ Answer(c, conn[c], "ok")
          \/ NoWrite /\ Answer(c, conn[c], "not_found")
    BY DEF Delete
  <1>3. CASE /\ tables' = [tables EXCEPT ![conn[c].table][x] = Absent]
             /\ gone' = gone \cup {<<conn[c].table, x>>} /\ Answer(c, conn[c], "ok")
    <2>1. PICK t \in Tables : t = conn[c].table
      BY DEF ConnectionInv, LocalsInv, Sound, Locals
    <2>2. PICK from \in Entries : from = tables[t] /\ tables \in [Tables -> Entries]
      BY DEF ConnectionInv, TablesInv
    <2>3. PICK after : after = [from EXCEPT ![x] = Absent]
      OBVIOUS
    <2>4. tables' = [tables EXCEPT ![t] = after] /\ gone' = gone \cup {<<t, x>>}
      BY <1>3, <2>1, <2>2, <2>3
    <2>5. after \in Entries /\ \A y \in Ids : y # x => after[y] = from[y]
      BY <2>3 DEF Entries
    <2>6. tables' \in [Tables -> Entries] /\ tables'[t] = after /\ \A u \in Tables : u # t => tables'[u] = tables[u]
      BY <2>2, <2>4, <2>5
    <2>7. ASSUME NEW u \in Tables, NEW y \in Ids, tables[u][y] # Absent
          PROVE  tables'[u][y] # Absent \/ <<u, y>> \in gone'
      BY <2>2, <2>4, <2>5, <2>6, <2>7
    <2>8. TablesStep
      BY <2>4, <2>6, <2>7 DEF TablesStep
    <2>. QED
      BY <1>1, <1>3, <2>8, SameKeeps
  <1>4. CASE NoWrite /\ Answer(c, conn[c], "not_found")
    BY <1>1, <1>4, QuietTables, SameKeeps
  <1>. QED
    BY <1>2, <1>3, <1>4

\* A failure counted: one fewer to note.
LEMMA CountStep ==
  ASSUME ConnectionInv, NEW c \in Connections, CountFailure(c), NoWrite
  PROVE  \E n : /\ Answered(c, n, "unauthenticated") /\ Sound(n) /\ Standing(n, tables', gone')
                /\ ~n.noting
  <1>1. PICK k : k = conn[c] /\ Sound(k) /\ Standing(k, tables, gone)
    BY DEF ConnectionInv, LocalsInv
  <1>2. TablesStep
    BY QuietTables
  <1>3. PICK more : more = [k EXCEPT !.failures = @ + 1, !.noting = FALSE]
    OBVIOUS
  <1>4. Answer(c, IF more.failures >= MaxAuthFailures THEN Closed ELSE more, "unauthenticated")
    BY <1>1, <1>3 DEF CountFailure
  <1>5. CASE more.failures >= MaxAuthFailures
    <2>1. PICK cl : cl = Closed /\ Sound(cl) /\ cl.flags = {} /\ ~cl.noting
      BY OpenedSound
    <2>2. PICK n : n = [cl EXCEPT !.first = FALSE]
      OBVIOUS
    <2>3. Sound(n) /\ n.flags = cl.flags /\ n.noting = cl.noting
      <3>1. LET o == [cl EXCEPT !.first = FALSE] IN Sound(o) /\ o.flags = cl.flags /\ o.noting = cl.noting
        BY <2>1, AnsweredSound
      <3>. QED
        BY <2>2, <3>1
    <2>4. Answered(c, n, "unauthenticated")
      BY <1>4, <1>5, <2>1, <2>2 DEF Answer, Answered
    <2>5. Standing(n, tables', gone')
      BY <2>1, <2>3, StandingEmpty
    <2>. QED
      BY <2>1, <2>3, <2>4, <2>5
  <1>6. CASE ~(more.failures >= MaxAuthFailures)
    <2>1. k.failures + 1 < MaxAuthFailures
      <3>1. k \in Locals /\ k.failures \in Nat
        BY <1>1 DEF Sound, Locals
      <3>2. more.failures = k.failures + 1
        BY <1>3, <3>1 DEF Locals
      <3>. QED
        BY <1>6, <3>1, <3>2, ConstantFacts
    <2>2. PICK n : n = [more EXCEPT !.first = FALSE]
      OBVIOUS
    <2>3. /\ Sound(n) /\ n.flags = k.flags /\ ~n.noting
          /\ n.staged = k.staged /\ n.table = k.table /\ n.began = k.began
      <3>1. Sound(k)
        BY <1>1
      <3>2. LET o == [[k EXCEPT !.failures = @ + 1, !.noting = FALSE] EXCEPT !.first = FALSE] IN
            /\ Sound(o) /\ o.flags = k.flags /\ ~o.noting
            /\ o.staged = k.staged /\ o.table = k.table /\ o.began = k.began
        BY <2>1, <3>1, FailureSound
      <3>. QED
        BY <1>3, <2>2, <3>2
    <2>4. Answered(c, n, "unauthenticated")
      BY <1>4, <1>6, <2>2 DEF Answer, Answered
    <2>5. Standing(n, tables', gone')
      BY <1>1, <1>2, <2>3, StandingKept
    <2>. QED
      BY <2>3, <2>4, <2>5
  <1>. QED
    BY <1>5, <1>6

LEMMA AuthThrottledKeeps ==
  ASSUME ConnectionInv, NEW c \in Connections, AuthThrottled(c)
  PROVE  ConnectionInv'
  <1>1. NoWrite /\ Rest /\ CountFailure(c)
    BY DEF AuthThrottled
  <1>2. PICK n : Answered(c, n, "unauthenticated") /\ Sound(n) /\ Standing(n, tables', gone') /\ ~n.noting
    BY <1>1, CountStep
  <1>3. TablesStep
    BY <1>1, QuietTables
  <1>. QED
    BY <1>1, <1>2, <1>3, AnswerKeeps

\* A failure to note is one more than the window's, which has not reached the limit.
LEMMA NotingKeeps ==
  ASSUME ConnectionInv, NEW c \in Connections, NoWrite, Rest, UNCHANGED reply,
         ~(scenario.limited /\ Throttled(PeerOf[c])),
         conn' = [conn EXCEPT ![c].noting = TRUE, ![c].first = FALSE]
  PROVE  ConnectionInv'
  <1>1. PICK k : k = conn[c] /\ Sound(k) /\ Standing(k, tables, gone)
    BY DEF ConnectionInv, LocalsInv
  <1>2. TablesStep /\ UNCHANGED <<scenario, tables, peers, now, gone>>
    BY QuietTables DEF Rest, NoWrite
  <1>3. PICK n : n = [[k EXCEPT !.noting = TRUE] EXCEPT !.first = FALSE]
    OBVIOUS
  <1>4. Sound(n) /\ n.flags = k.flags /\ n.staged = k.staged /\ n.table = k.table /\ n.began = k.began
    <2>1. Sound(k)
      BY <1>1
    <2>2. LET o == [[k EXCEPT !.noting = TRUE] EXCEPT !.first = FALSE] IN
          Sound(o) /\ o.flags = k.flags /\ o.staged = k.staged /\ o.table = k.table /\ o.began = k.began
      BY <2>1, NotingSound
    <2>. QED
      BY <1>3, <2>2
  <1>5. conn' = [conn EXCEPT ![c] = n] /\ conn'[c] = n /\ \A d \in Connections : d # c => conn'[d] = conn[d]
    BY <1>1, <1>3 DEF ConnectionInv, LocalsInv
  <1>6. Standing(n, tables', gone')
    BY <1>1, <1>2, <1>4, StandingKept
  <1>7. LocalsInv'
    BY <1>2, <1>4, <1>5, <1>6, LocalsStep
  <1>8. ReplyInv'
    BY <1>1, <1>4, <1>5, ReplyStep
  <1>9. ASSUME NEW p \in DOMAIN peers, ~Expired(peers[p])
        PROVE  peers[p].failures + Cardinality(Noting(p)') < Limit + Cardinality(Of(p))
    <2>1. /\ peers[p].failures \in Nat /\ peers[p].failures + Cardinality(Noting(p)) < Limit + Cardinality(Of(p))
          /\ scenario.limited
      BY <1>9, ScenarioFacts DEF ConnectionInv, WindowsInv, TablesInv
    <2>2. CASE p # PeerOf[c]
      <3>1. Noting(p)' = Noting(p)
        BY <1>5, <2>2 DEF Noting, Of
      <3>. QED
        BY <2>1, <3>1
    <2>3. CASE p = PeerOf[c]
      <3>1. peers[p].failures < Limit
        <4>1. ~(peers[p].failures >= Limit)
          BY <1>9, <2>1, <2>3 DEF Throttled
        <4>. QED
          BY <2>1, <4>1, ConstantFacts
      <3>2. Noting(p)' \in SUBSET Of(p) /\ IsFiniteSet(Of(p)) /\ Cardinality(Of(p)) \in Nat
        BY NotingFacts DEF Noting, Of
      <3>3. Cardinality(Noting(p)') <= Cardinality(Of(p)) /\ IsFiniteSet(Noting(p)')
        BY <3>2, FS_Subset
      <3>4. Cardinality(Noting(p)') \in Nat
        BY <3>3, FS_CardinalityType
      <3>. QED
        BY <2>1, <3>1, <3>2, <3>3, <3>4, ConstantFacts
    <2>. QED
      BY <2>2, <2>3
  <1>10. (\A p : Of(p)' = Of(p)) /\ \A w : Expired(w)' <=> Expired(w)
    BY <1>2 DEF Of, Expired
  <1>11. WindowsInv'
    BY <1>2, <1>9, <1>10 DEF ConnectionInv, WindowsInv, Expired
  <1>. QED
    BY <1>2, <1>7, <1>8, <1>11 DEF ConnectionInv, TablesInv

LEMMA AuthCheckKeeps ==
  ASSUME ConnectionInv, NEW c \in Connections, AuthCheck(c)
  PROVE  ConnectionInv'
  <1>1. NoWrite /\ Rest /\ TablesStep
    BY QuietTables DEF AuthCheck
  <1>2. PICK token \in scenario.presented :
          \/ ~Configured /\ Answer(c, conn[c], "ok")
          \/ token \in scenario.tokens /\ Answer(c, [conn[c] EXCEPT !.class = token], "ok")
          \/ /\ Configured
             /\ conn' = [conn EXCEPT ![c].noting = TRUE, ![c].first = FALSE]
             /\ UNCHANGED reply
    BY DEF AuthCheck
  <1>3. CASE Answer(c, conn[c], "ok")
    BY <1>1, <1>3, SameKeeps
  <1>4. CASE token \in scenario.tokens /\ Answer(c, [conn[c] EXCEPT !.class = token], "ok")
    <2>1. PICK k : k = conn[c] /\ Sound(k)
      BY DEF ConnectionInv, LocalsInv
    <2>2. token \in Classes
      BY <1>4, ScenarioFacts DEF ConnectionInv, TablesInv
    <2>3. PICK n : n = [[k EXCEPT !.class = token] EXCEPT !.first = FALSE]
      OBVIOUS
    <2>4. Sound(n) /\ n.flags = k.flags /\ n.noting = k.noting
          /\ n.staged = k.staged /\ n.table = k.table /\ n.began = k.began
      <3>1. LET o == [[k EXCEPT !.class = token] EXCEPT !.first = FALSE] IN
            /\ Sound(o) /\ o.flags = k.flags /\ o.noting = k.noting
            /\ o.staged = k.staged /\ o.table = k.table /\ o.began = k.began
        <4>1. Sound(k)
          BY <2>1
        <4>. QED
          BY <2>2, <4>1, TokenSound
      <3>. QED
        BY <2>3, <3>1
    <2>5. Answered(c, n, "ok")
      BY <1>4, <2>1, <2>3 DEF Answer, Answered
    <2>. QED
      BY <1>1, <2>1, <2>4, <2>5, KeptKeeps
  <1>5. CASE /\ Configured
             /\ conn' = [conn EXCEPT ![c].noting = TRUE, ![c].first = FALSE] /\ UNCHANGED reply
    <2>1. ~(scenario.limited /\ Throttled(PeerOf[c]))
      BY <1>5 DEF AuthCheck
    <2>. QED
      BY <1>1, <1>5, <2>1, NotingKeeps
  <1>. QED
    BY <1>2, <1>3, <1>4, <1>5

\* The table has room for one window more, after what was dropped.
LEMMA EvictionFacts ==
  ASSUME WindowsInv, NEW p \in Peers, NEW dropped \in Evicted(p)
  PROVE  LET D == (DOMAIN peers \ dropped) \cup {p} IN
         D \subseteq Peers /\ IsFiniteSet(D) /\ Cardinality(D) <= MaxTrackedPeers
  <1>1. PICK D : D = DOMAIN peers
    OBVIOUS
  <1>2. D \subseteq Peers /\ IsFiniteSet(D) /\ Cardinality(D) \in Nat /\ Cardinality(D) <= MaxTrackedPeers
    BY <1>1, FS_CardinalityType DEF WindowsInv
  <1>3. CASE p \in D
    <2>1. dropped = {} /\ (D \ dropped) \cup {p} = D
      BY <1>1, <1>3 DEF Evicted
    <2>. QED
      BY <1>1, <1>2, <2>1
  <1>4. CASE p \notin D /\ Cardinality(D) < MaxTrackedPeers
    <2>1. dropped = {} /\ (D \ dropped) \cup {p} = D \cup {p}
      BY <1>1, <1>4 DEF Evicted
    <2>2. IsFiniteSet(D \cup {p}) /\ Cardinality(D \cup {p}) = Cardinality(D) + 1
      BY <1>2, <1>4, FS_AddElement
    <2>. QED
      BY <1>1, <1>2, <1>4, <2>1, <2>2, ConstantFacts
  <1>5. CASE p \notin D /\ ~(Cardinality(D) < MaxTrackedPeers)
    <2>1. PICK d \in D : d \in dropped
      BY <1>1, <1>5 DEF Evicted
    <2>2. IsFiniteSet(D \ {d}) /\ Cardinality(D \ {d}) = Cardinality(D) - 1
      BY <1>2, <2>1, FS_RemoveElement
    <2>3. PICK K : K = D \ dropped
      OBVIOUS
    <2>4. K \in SUBSET (D \ {d})
      BY <2>1, <2>3
    <2>5. IsFiniteSet(K) /\ Cardinality(K) <= Cardinality(D \ {d}) /\ p \notin K
      BY <1>5, <2>2, <2>3, <2>4, FS_Subset
    <2>6. IsFiniteSet(K \cup {p}) /\ Cardinality(K \cup {p}) = Cardinality(K) + 1 /\ Cardinality(K) \in Nat
      BY <2>5, FS_AddElement, FS_CardinalityType
    <2>. QED
      BY <1>1, <1>2, <2>2, <2>3, <2>5, <2>6, ConstantFacts
  <1>. QED
    BY <1>3, <1>4, <1>5

LEMMA AuthNoteKeeps ==
  ASSUME ConnectionInv, NEW c \in Connections, AuthNote(c)
  PROVE  ConnectionInv'
  <1>1. NoWrite /\ CountFailure(c) /\ UNCHANGED <<scenario, now>> /\ conn[c].noting
    BY DEF AuthNote
  <1>2. PICK n : Answered(c, n, "unauthenticated") /\ Sound(n) /\ Standing(n, tables', gone') /\ ~n.noting
    BY <1>1, CountStep
  <1>3. /\ TablesStep /\ tables' = tables /\ conn' = [conn EXCEPT ![c] = n]
        /\ reply' = [to |-> c, code |-> "unauthenticated"]
    BY <1>1, <1>2, QuietTables DEF NoWrite, Answered
  <1>4. LocalsInv'
    BY <1>2, <1>3, LocalsStep
  <1>5. ReplyInv'
    <2>1. \E code : reply' = [to |-> c, code |-> code] /\ (code = "committed" => n.flags = {})
      BY <1>3
    <2>. QED
      BY <1>3, <2>1, ReplyStep
  <1>6. CASE ~scenario.limited
    <2>1. UNCHANGED <<scenario, peers, now>>
      BY <1>1, <1>6 DEF AuthNote
    <2>2. WindowsInv'
      BY <1>2, <1>3, <2>1, WindowsStep
    <2>. QED
      BY <1>1, <1>3, <1>4, <1>5, <2>2 DEF ConnectionInv, TablesInv
  <1>7. CASE scenario.limited
    <2>1. PICK P \in Peers : P = PeerOf[c]
      BY ConnectionAssumption
    <2>2. PICK dropped \in Evicted(P) :
            peers' = [q \in (DOMAIN peers \ dropped) \cup {P} |->
                        IF q # P THEN peers[q]
                        ELSE IF P \in DOMAIN peers /\ ~Expired(peers[P])
                        THEN [peers[P] EXCEPT !.failures = @ + 1]
                        ELSE [started |-> now, failures |-> 1]]
      <3>1. NoteFailure(P)
        BY <1>7, <2>1 DEF AuthNote
      <3>. QED
        BY <3>1 DEF NoteFailure
    <2>3. PICK D : D = (DOMAIN peers \ dropped) \cup {P} /\ D \subseteq Peers /\ IsFiniteSet(D)
                   /\ Cardinality(D) <= MaxTrackedPeers
      BY EvictionFacts DEF ConnectionInv
    <2>4. DOMAIN peers' = D /\ \A q \in D : q # P => q \in DOMAIN peers /\ peers'[q] = peers[q]
      BY <2>2, <2>3
    <2>5. /\ conn'[c] = n /\ \A d \in Connections : d # c => conn'[d] = conn[d]
      BY <1>3 DEF ConnectionInv, LocalsInv
    <2>6. \A q : q # P => Noting(q)' = Noting(q)
      BY <2>1, <2>5 DEF Noting, Of
    <2>7. Noting(P)' = Noting(P) \ {c} /\ c \in Noting(P)
      BY <1>1, <1>2, <2>1, <2>5 DEF Noting, Of
    <2>8. PICK N \in Nat, m \in Nat : /\ N = Cardinality(Noting(P)) /\ N = m + 1 /\ m = Cardinality(Noting(P)')
      <3>1. IsFiniteSet(Noting(P)) /\ Cardinality(Noting(P)) \in Nat
        BY NotingFacts
      <3>2. Cardinality(Noting(P) \ {c}) = Cardinality(Noting(P)) - 1 /\ IsFiniteSet(Noting(P) \ {c})
        BY <2>7, <3>1, FS_RemoveElement
      <3>3. Cardinality(Noting(P) \ {c}) \in Nat
        BY <3>2, FS_CardinalityType
      <3>. QED
        BY <2>7, <3>1, <3>2, <3>3
    <2>9. PICK most \in Nat : most = Cardinality(Of(P)) /\ N <= most
      BY <2>8, NotingFacts
    <2>10. now \in Nat /\ 0 <= now /\ now \in 0 .. MaxTime
      BY ConstantFacts DEF ConnectionInv, WindowsInv
    <2>11. PICK w : w = peers'[P] /\ w \in [started : 0 .. now, failures : Nat \ {0}]
                    /\ w.failures + m < Limit + most
      <3>1. P \in D
        BY <2>3
      <3>2. CASE P \in DOMAIN peers /\ ~Expired(peers[P])
        <4>1. PICK old : old = peers[P] /\ old \in [started : 0 .. now, failures : Nat \ {0}]
                         /\ old.failures + N < Limit + most
          BY <2>8, <2>9, <3>2 DEF ConnectionInv, WindowsInv
        <4>2. PICK e \in Nat \ {0} : e = old.failures + 1
          BY <4>1
        <4>3. peers'[P] = [old EXCEPT !.failures = e]
          BY <2>2, <2>3, <3>1, <3>2, <4>1, <4>2
        <4>4. [old EXCEPT !.failures = e] \in [started : 0 .. now, failures : Nat \ {0}]
              /\ [old EXCEPT !.failures = e].failures = e
          BY <4>1, <4>2
        <4>5. e + m < Limit + most
          BY <2>8, <4>1, <4>2, ConstantFacts
        <4>. QED
          BY <4>3, <4>4, <4>5
      <3>3. CASE ~(P \in DOMAIN peers /\ ~Expired(peers[P]))
        <4>1. peers'[P] = [started |-> now, failures |-> 1]
          BY <2>2, <2>3, <3>1, <3>3
        <4>2. 1 + m < Limit + most
          BY <2>8, <2>9, ConstantFacts
        <4>. QED
          BY <2>10, <4>1, <4>2
      <3>. QED
        BY <3>2, <3>3
    <2>12. w.failures < Limit + most
      BY <2>8, <2>9, <2>11, ConstantFacts
    <2>13. (\A p : Of(p)' = Of(p)) /\ \A v : Expired(v)' <=> Expired(v)
      BY <1>1 DEF Of, Expired
    <2>14. ASSUME NEW p \in D
           PROVE  /\ peers'[p] \in [started : 0 .. now, failures : Nat \ {0}]
                  /\ peers'[p].failures < Limit + Cardinality(Of(p))
                  /\ ~Expired(peers'[p]) => peers'[p].failures + Cardinality(Noting(p)') < Limit + Cardinality(Of(p))
      <3>1. CASE p = P
        BY <2>8, <2>9, <2>11, <2>12, <3>1
      <3>2. CASE p # P
        BY <2>4, <2>6, <3>2 DEF ConnectionInv, WindowsInv
      <3>. QED
        BY <3>1, <3>2
    <2>15. WindowsInv'
      BY <1>1, <1>7, <2>3, <2>4, <2>10, <2>13, <2>14 DEF WindowsInv, Expired
    <2>. QED
      BY <1>1, <1>3, <1>4, <1>5, <2>15 DEF ConnectionInv, TablesInv
  <1>. QED
    BY <1>6, <1>7

LEMMA TickKeeps ==
  ASSUME ConnectionInv, Tick
  PROVE  ConnectionInv'
  <1>1. UNCHANGED <<scenario, conn, peers, reply, tables, gone>> /\ now' = now + 1 /\ now < MaxTime
    BY DEF Tick, NoWrite
  <1>2. now \in Nat /\ now' \in 0 .. MaxTime /\ MaxTime \in Nat /\ Window \in Nat
    BY <1>1, ConstantFacts DEF ConnectionInv, WindowsInv
  <1>3. (\A p : Of(p)' = Of(p)) /\ (\A p : Noting(p)' = Noting(p))
    BY <1>1 DEF Of, Noting
  <1>4. ASSUME NEW p \in DOMAIN peers
        PROVE  /\ peers[p] \in [started : 0 .. now', failures : Nat \ {0}]
               /\ ~(now' - peers[p].started >= Window) => ~Expired(peers[p])
    <2>1. PICK w : w = peers[p] /\ w \in [started : 0 .. now, failures : Nat \ {0}]
      BY DEF ConnectionInv, WindowsInv
    <2>. QED
      BY <1>1, <1>2, <2>1 DEF Expired
  <1>5. WindowsInv'
    BY <1>1, <1>2, <1>3, <1>4 DEF ConnectionInv, WindowsInv, Expired
  <1>. QED
    BY <1>1, <1>5 DEF ConnectionInv, TablesInv, LocalsInv, ReplyInv

------------------------------------------------------------------------------
(* The theorems                                                            *)

LEMMA ConnectionInit == Init => ConnectionInv
  <1>. SUFFICES ASSUME Init PROVE ConnectionInv
    OBVIOUS
  <1>1. PICK k : k = Closed /\ Sound(k) /\ k.flags = {} /\ k.noting = FALSE
    <2>1. Sound(Closed) /\ Closed.flags = {} /\ ~Closed.noting /\ Closed \in Locals
      BY OpenedSound DEF Sound
    <2>2. Closed.noting = FALSE
      BY <2>1 DEF Locals
    <2>. QED
      BY <2>1, <2>2
  <1>2. conn = [c \in Connections |-> k] /\ k \in Locals
    BY <1>1 DEF Init, Sound
  <1>3. TablesInv
    <2>1. [f \in Fields |-> 0] \in Records
      BY DEF Records, Values
    <2>. QED
      BY <2>1 DEF Init, TablesInv, Entries
  <1>4. LocalsInv
    <2>1. \A c \in Connections : conn[c] = k
      BY <1>2
    <2>2. Standing(k, tables, gone)
      BY <1>1 DEF Standing
    <2>. QED
      BY <1>1, <1>2, <2>1, <2>2 DEF LocalsInv
  <1>5. ReplyInv
    <2>1. reply.to \in Connections /\ reply.code = "none"
      BY ConstantFacts DEF Init
    <2>. QED
      BY <2>1 DEF ReplyInv
  <1>6. WindowsInv
    <2>1. DOMAIN peers = {} /\ now = 0
      BY DEF Init
    <2>2. IsFiniteSet({}) /\ Cardinality({}) = 0
      BY FS_EmptySet
    <2>. QED
      BY <2>1, <2>2, ConstantFacts DEF WindowsInv
  <1>. QED
    BY <1>3, <1>4, <1>5, <1>6 DEF ConnectionInv

LEMMA ConnectionStep == ConnectionInv /\ [Next]_vars => ConnectionInv'
  <1>. SUFFICES ASSUME ConnectionInv, [Next]_vars PROVE ConnectionInv'
    OBVIOUS
  <1>1. CASE UNCHANGED vars
    BY <1>1 DEF vars, ConnectionInv, TablesInv, LocalsInv, ReplyInv, WindowsInv, Of, Noting, Expired
  <1>2. CASE Tick
    BY <1>2, TickKeeps
  <1>3. ASSUME NEW c \in Connections,
               \/ Accept(c) \/ Disconnect(c) \/ Hello(c)
               \/ AuthThrottled(c) \/ AuthCheck(c) \/ AuthNote(c)
        PROVE  ConnectionInv'
    BY <1>3, AcceptKeeps, DisconnectKeeps, HelloKeeps, AuthThrottledKeeps, AuthCheckKeeps, AuthNoteKeeps
  <1>4. ASSUME NEW c \in Connections,
               \/ \E kind \in Kinds : Refuse(c, kind)
               \/ Begin(c) \/ BeginWith(c) \/ Rollback(c) \/ GetById(c) \/ Stage(c) \/ Commit(c)
               \/ WriteNow(c) \/ Insert(c) \/ Replace(c) \/ Delete(c) \/ Use(c)
        PROVE  ConnectionInv'
    BY <1>4, RefuseKeeps, BeginKeeps, RollbackKeeps, GetKeeps, StageKeeps, CommitKeeps, WriteNowKeeps,
       PutKeeps, DeleteKeeps, UseKeeps
  <1>. QED
    BY <1>1, <1>2, <1>3, <1>4 DEF Next

\* ConnectionInv holds of every state of every server.
THEOREM ConnectionInvariant == Spec => []ConnectionInv
  BY ConnectionInit, ConnectionStep, PTL DEF Spec

\* A session of handle_connection is one connection's, at one version and on one table
\* from Begin to Commit, and what it keeps stays within its limits.
THEOREM SessionsSound == Spec => []SessionSound
  <1>1. ConnectionInv => SessionSound
    <2>. SUFFICES ASSUME ConnectionInv PROVE SessionSound
      OBVIOUS
    <2>1. ASSUME NEW c \in Connections
          PROVE  LET k == conn[c] IN
                 /\ k.alive \in BOOLEAN /\ k.first \in BOOLEAN /\ k.session \in BOOLEAN
                 /\ k.class \in Classes \cup {"none"} /\ k.version \in Nat /\ k.table \in Tables
                 /\ k.staged \in Seq(Ops) /\ Len(k.staged) <= MaxStagedOps /\ k.flags \subseteq Flags
                 /\ k.reads \in [DOMAIN k.reads -> Values] /\ Cardinality(DOMAIN k.reads) <= MaxTrackedReads
                 /\ k.failures < MaxAuthFailures
                 /\ k.session => /\ k.alive /\ k.table = k.began /\ k.version >= 3
                                 /\ \A f \in k.flags : k.version >= FlagVersion[f]
                 /\ ~k.session => k.staged = <<>> /\ k.flags = {} /\ k.reads = NoReads
      <3>1. PICK k : k = conn[c] /\ Sound(k)
        BY DEF ConnectionInv, LocalsInv
      <3>2. k.reads \in [DOMAIN k.reads -> Values] /\ Cardinality(DOMAIN k.reads) <= MaxTrackedReads
        BY <3>1 DEF Sound, Tracked, ReadSets
      <3>3. /\ k.alive \in BOOLEAN /\ k.first \in BOOLEAN /\ k.session \in BOOLEAN
            /\ k.class \in Classes \cup {"none"} /\ k.version \in Nat /\ k.table \in Tables
            /\ k.staged \in Seq(Ops) /\ k.flags \subseteq Flags
        BY <3>1 DEF Sound, Locals
      <3>. QED
        BY <3>1, <3>2, <3>3 DEF Sound
    <2>2. tables \in [Tables -> [Ids -> Records \cup {Absent}]]
      BY DEF ConnectionInv, TablesInv, Entries
    <2>3. /\ DOMAIN peers \subseteq Peers /\ now \in 0 .. MaxTime
          /\ \A p \in DOMAIN peers : peers[p].started \in 0 .. now /\ peers[p].failures \in Nat \ {0}
      BY DEF ConnectionInv, WindowsInv
    <2>4. reply.to \in Connections
      BY DEF ConnectionInv, ReplyInv
    <2>. QED
      BY <2>1, <2>2, <2>3, <2>4 DEF SessionSound, TypeOK
  <1>. QED
    BY <1>1, ConnectionInvariant, PTL

\* overlay_staged shows a read-your-writes session what its Commit would leave.
THEOREM SessionsReadTheirWrites == Spec => []ReadYourWrites
  <1>1. ConnectionInv => ReadYourWrites
    <2>. SUFFICES ASSUME ConnectionInv, NEW c \in Connections, ValidBatch(c, conn[c].staged),
                         NEW x \in Ids, Here(c)[x] # Absent
                  PROVE  Overlay(c, x) = Applied(c, conn[c].staged)[x]
      BY DEF ReadYourWrites
    <2>1. conn[c].staged \in Seq(Ops) /\ conn[c].table \in Tables
      BY DEF ConnectionInv, LocalsInv, Sound, Locals
    <2>2. Here(c) \in Entries
      BY <2>1 DEF Here, ConnectionInv, TablesInv
    <2>. QED
      BY <2>1, <2>2, OverlayFacts
  <1>. QED
    BY <1>1, ConnectionInvariant, PTL

\* validate_op's Ok while staging is Ok at Commit, unless the record was deleted.
THEOREM ValidationStands == Spec => []ValidatedStaysValid
  <1>1. ConnectionInv => ValidatedStaysValid
    <2>. SUFFICES ASSUME ConnectionInv, NEW c \in Connections PROVE Standing(conn[c], tables, gone) =>
                    ("validate_on_stage" \in conn[c].flags =>
                       \A i \in DOMAIN conn[c].staged : LET op == conn[c].staged[i] IN
                         ValidOp(c, op) \/ <<conn[c].began, op.id>> \in gone)
      BY DEF ValidatedStaysValid, ConnectionInv, LocalsInv
    <2>. QED
      BY DEF Standing, ValidOp, Here
  <1>. QED
    BY <1>1, ConnectionInvariant, PTL

\* However checks of the failure table and notes to it interleave, an address has no more
\* failures in a window than its limit and its other connections allow, and the table
\* tracks no more addresses than it may.
THEOREM FailuresAreBounded == Spec => []FailuresBounded
  <1>1. ConnectionInv => FailuresBounded
    BY DEF ConnectionInv, WindowsInv, FailuresBounded, Of
  <1>. QED
    BY <1>1, ConnectionInvariant, PTL

------------------------------------------------------------------------------
(* What a step may do                                                      *)

LEMMA AnswerFacts ==
  ASSUME NEW c, NEW STATE new, NEW code, Answer(c, new, code)
  PROVE  reply'.to = c /\ reply'.code = code
  BY DEF Answer

\* A write was admitted.
LEMMA AcceptedWrite ==
  ASSUME ConnectionInv, NEW c \in Connections, NEW kind \in Writes, Accepts(c, kind)
  PROVE  conn[c].class = "read_write"
  <1>1. conn[c].class \in Classes \cup {"none"}
    BY DEF ConnectionInv, LocalsInv, Locals
  <1>. QED
    BY <1>1 DEF Accepts, Admitted, Classes

LEMMA WritesStep ==
  ASSUME ConnectionInv, [Next]_vars, tables' # tables
  PROVE  conn[reply'.to].class = "read_write"
  <1>1. CASE UNCHANGED vars \/ Tick
    BY <1>1 DEF vars, Tick, NoWrite
  <1>2. ASSUME NEW c \in Connections,
               \/ Accept(c) \/ Disconnect(c) \/ Hello(c)
               \/ AuthThrottled(c) \/ AuthCheck(c) \/ AuthNote(c)
               \/ \E kind \in Kinds : Refuse(c, kind)
               \/ Begin(c) \/ BeginWith(c) \/ Rollback(c) \/ GetById(c) \/ Stage(c) \/ Use(c)
        PROVE  FALSE
    <2>1. NoWrite
      BY <1>2 DEF Accept, Disconnect, Hello, AuthThrottled, AuthCheck, AuthNote, Refuse, Begin, BeginWith,
                  Rollback, GetById, Stage, Use
    <2>. QED
      BY <2>1 DEF NoWrite
  <1>3. ASSUME NEW c \in Connections,
               Commit(c) \/ WriteNow(c) \/ Insert(c) \/ Replace(c) \/ Delete(c)
        PROVE  conn[reply'.to].class = "read_write"
    <2>1. \E kind \in Writes : Accepts(c, kind)
      BY <1>3 DEF Commit, WriteNow, Insert, Replace, Delete, Writes
    <2>2. reply'.to = c
      BY <1>3, AnswerFacts DEF Commit, WriteNow, Insert, Replace, Delete
    <2>. QED
      BY <2>1, <2>2, AcceptedWrite
  <1>. QED
    BY <1>1, <1>2, <1>3 DEF Next

\* The ReadOnly gates: tables change only for a connection that is read-write when served.
THEOREM WritesAreAuthorized == Spec => WritesAuthorized
  <1>1. ConnectionInv /\ [Next]_vars => [tables' # tables => conn[reply'.to].class = "read_write"]_vars
    BY WritesStep
  <1>. QED
    BY <1>1, ConnectionInvariant, PTL DEF Spec, WritesAuthorized

\* Only Commit commits.
LEMMA OtherAnswers ==
  ASSUME Next, reply'.code = "committed"
  PROVE  reply' = reply \/ \E c \in Connections : Commit(c)
  <1>1. CASE Tick
    BY <1>1 DEF Tick
  <1>2. ASSUME NEW c \in Connections, NEW kind \in Kinds, Refuse(c, kind) PROVE FALSE
    BY <1>2, AnswerFacts DEF Refuse
  <1>3. ASSUME NEW c \in Connections, Accept(c) PROVE reply' = reply
    BY <1>3, AnswerFacts DEF Accept
  <1>4. ASSUME NEW c \in Connections, Disconnect(c) PROVE reply' = reply
    BY <1>4, AnswerFacts DEF Disconnect
  <1>5. ASSUME NEW c \in Connections, Hello(c) PROVE reply' = reply
    BY <1>5, AnswerFacts DEF Hello
  <1>6. ASSUME NEW c \in Connections, AuthThrottled(c) PROVE reply' = reply
    BY <1>6, AnswerFacts DEF AuthThrottled, CountFailure
  <1>7. ASSUME NEW c \in Connections, AuthCheck(c) PROVE reply' = reply
    BY <1>7, AnswerFacts DEF AuthCheck
  <1>8. ASSUME NEW c \in Connections, AuthNote(c) PROVE reply' = reply
    BY <1>8, AnswerFacts DEF AuthNote, CountFailure
  <1>9. ASSUME NEW c \in Connections, Begin(c) PROVE reply' = reply
    BY <1>9, AnswerFacts DEF Begin, OpenSession
  <1>10. ASSUME NEW c \in Connections, BeginWith(c) PROVE reply' = reply
    BY <1>10, AnswerFacts DEF BeginWith, OpenSession
  <1>11. ASSUME NEW c \in Connections, Rollback(c) PROVE reply' = reply
    BY <1>11, AnswerFacts DEF Rollback
  <1>12. ASSUME NEW c \in Connections, Use(c) PROVE reply' = reply
    BY <1>12, AnswerFacts DEF Use
  <1>13. ASSUME NEW c \in Connections, GetById(c) PROVE reply' = reply
    BY <1>13, AnswerFacts DEF GetById
  <1>14. ASSUME NEW c \in Connections, Stage(c) PROVE reply' = reply
    BY <1>14, AnswerFacts DEF Stage
  <1>15. ASSUME NEW c \in Connections, WriteNow(c) PROVE reply' = reply
    BY <1>15, AnswerFacts DEF WriteNow
  <1>16. ASSUME NEW c \in Connections, Insert(c) PROVE reply' = reply
    BY <1>16, AnswerFacts DEF Insert
  <1>17. ASSUME NEW c \in Connections, Replace(c) PROVE reply' = reply
    BY <1>17, AnswerFacts DEF Replace
  <1>18. ASSUME NEW c \in Connections, Delete(c) PROVE reply' = reply
    BY <1>18, AnswerFacts DEF Delete
  <1>. QED
    BY <1>1, <1>2, <1>3, <1>4, <1>5, <1>6, <1>7, <1>8, <1>9, <1>10, <1>11, <1>12, <1>13, <1>14, <1>15, <1>16, <1>17, <1>18 DEF Next

LEMMA SnapshotStep ==
  ASSUME ConnectionInv, [Next]_vars, reply'.code = "committed", Snapshot(reply'.to),
         DOMAIN conn[reply'.to].reads = DOMAIN conn[reply'.to].seen, NEW key \in DOMAIN conn[reply'.to].seen
  PROVE  /\ Here(reply'.to)[key[1]] # Absent
         /\ Here(reply'.to)[key[1]][key[2]] = conn[reply'.to].seen[key]
  <1>1. CASE reply' = reply
    BY <1>1 DEF ConnectionInv, ReplyInv, Snapshot
  <1>2. ASSUME NEW c \in Connections, Commit(c)
        PROVE  /\ Here(reply'.to)[key[1]] # Absent
               /\ Here(reply'.to)[key[1]][key[2]] = conn[reply'.to].seen[key]
    <2>1. reply'.to = c
      BY <1>2 DEF Commit, Answer
    <2>2. \A q \in DOMAIN conn[c].reads : Here(c)[q[1]] # Absent /\ Here(c)[q[1]][q[2]] = conn[c].reads[q]
      BY <1>2 DEF Commit, Answer
    <2>3. \A q \in DOMAIN conn[c].reads : conn[c].reads[q] = conn[c].seen[q]
      BY DEF ConnectionInv, LocalsInv, Sound
    <2>4. key \in DOMAIN conn[c].reads
      BY <2>1
    <2>5. Here(c)[key[1]] # Absent /\ Here(c)[key[1]][key[2]] = conn[c].seen[key]
      BY <2>2, <2>3, <2>4
    <2>. QED
      BY <2>1, <2>5
  <1>. QED
    BY <1>1, <1>2, OtherAnswers DEF vars

\* A snapshot session commits only what it read, if it tracked all of it.
THEOREM SnapshotsCommit == Spec => SnapshotCommits
  <1>. DEFINE Held == reply'.code = "committed" =>
                        LET k == conn[reply'.to] IN
                          Snapshot(reply'.to) /\ DOMAIN k.reads = DOMAIN k.seen =>
                            \A key \in DOMAIN k.seen : Here(reply'.to)[key[1]] # Absent
                                                       /\ Here(reply'.to)[key[1]][key[2]] = k.seen[key]
  <1>1. ConnectionInv /\ [Next]_vars => [Held]_vars
    BY SnapshotStep
  <1>. QED
    BY <1>1, ConnectionInvariant, PTL DEF Spec, SnapshotCommits

=============================================================================
