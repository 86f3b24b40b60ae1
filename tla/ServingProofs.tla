----------------------------- MODULE ServingProofs -----------------------------
(***************************************************************************)
(* Requests of several locked steps on two tables: EdgesResolve,               *)
(* AckedLinksStand, WalkExact, JoinFaithful and TraverseFaithful of Serving,   *)
(* for any records, stamps, connections, batches and limits.                   *)
(*                                                                           *)
(* The links are an invariant of the writers alone (LinksOk).  Each of the     *)
(* reader's requests has one of its own, which says what of the rows, mentions *)
(* or neighbours it has still to come to (WalkOk, JoinOk, HopsOk), and which   *)
(* every write of another connection keeps (WalkChanges, JoinChanges,          *)
(* HopsChanges).                                                              *)
(***************************************************************************)
EXTENDS Serving, TLAPS, FiniteSetTheorems, FunctionTheorems, SequenceTheorems

------------------------------------------------------------------------------
(* Numbers and iterations                                                  *)

\* A set of numbers that is not empty has a smallest one.
LEMMA SmallestOf ==
  ASSUME NEW T \in SUBSET Nat, T # {}
  PROVE  \E m \in T : \A k \in T : m <= k
  <1>. DEFINE R == OpToRel(<, Nat)
  <1>1. IsWellFoundedOn(R, Nat)
    BY NatLessThanWellFounded
  <1>2. \A x, y \in Nat : <<x, y>> \in R <=> x < y
    BY DEF OpToRel
  <1>. HIDE DEF R
  <1>3. PICK m \in T : \A y \in T : ~ (<<y, m>> \in R)
    BY <1>1, WFMin
  <1>4. ASSUME NEW k \in T PROVE m <= k
    <2>1. k \in Nat /\ m \in Nat
      OBVIOUS
    <2>2. ~(k < m)
      BY <1>2, <1>3, <2>1
    <2>. QED
      BY <2>1, <2>2
  <1>. QED
    BY <1>4

\* What holds of 0 and passes from each number to the next holds of all up to a bound.
LEMMA UpTo ==
  ASSUME NEW n \in Nat, NEW P, 0 \in P, \A i \in 1 .. n : i - 1 \in P => i \in P
  PROVE  \A i \in 0 .. n : i \in P
  <1>. DEFINE T == {i \in 0 .. n : i \notin P}
  <1>1. CASE T = {}
    BY <1>1
  <1>2. CASE T # {}
    <2>1. T \in SUBSET Nat
      OBVIOUS
    <2>2. PICK m \in T : \A k \in T : m <= k
      BY <1>2, <2>1, SmallestOf
    <2>3. m \in 0 .. n /\ m # 0 /\ m \notin P
      OBVIOUS
    <2>4. m \in 1 .. n /\ m - 1 \in 0 .. n
      BY <2>3
    <2>5. m - 1 \notin T
      BY <2>2, <2>4
    <2>. QED
      BY <2>3, <2>4, <2>5
  <1>. QED
    BY <1>1, <1>2

Iterations(n, X, x0, step) == {g \in [0 .. n -> X] : g[0] = x0 /\ \A i \in 1 .. n : g[i] = step[i][g[i - 1]]}

\* Steps from a set into itself can be taken one after the other.
LEMMA Iterates ==
  ASSUME NEW n \in Nat, NEW X, NEW x0 \in X, NEW step \in [1 .. n -> [X -> X]]
  PROVE  Iterations(n, X, x0, step) # {}
  <1>. DEFINE Good(m, g) == g \in [0 .. m -> X] /\ g[0] = x0 /\ \A i \in 1 .. m : g[i] = step[i][g[i - 1]]
              P == {m \in 0 .. n : \E g : Good(m, g)}
  <1>1. 0 \in P
    <2>1. Good(0, [i \in 0 .. 0 |-> x0])
      OBVIOUS
    <2>2. \E g : Good(0, g)
      BY <2>1
    <2>. HIDE DEF Good
    <2>. QED
      BY <2>2
  <1>2. ASSUME NEW m \in 1 .. n, m - 1 \in P PROVE m \in P
    <2>1. PICK g : Good(m - 1, g)
      BY <1>2
    <2>. DEFINE h == [i \in 0 .. m |-> IF i = m THEN step[m][g[m - 1]] ELSE g[i]]
    <2>2. \A i \in 0 .. m : i # m => i \in 0 .. (m - 1)
      OBVIOUS
    <2>3. m - 1 \in 0 .. (m - 1) /\ 0 \in 0 .. m /\ 0 # m
      OBVIOUS
    <2>4. step[m][g[m - 1]] \in X
      BY <2>1, <2>3
    <2>5. h \in [0 .. m -> X]
      BY <2>1, <2>2, <2>4
    <2>6. h[0] = x0
      BY <2>1, <2>3
    <2>7. ASSUME NEW i \in 1 .. m PROVE h[i] = step[i][h[i - 1]]
      <3>1. i \in 0 .. m /\ i - 1 \in 0 .. m /\ i - 1 # m
        OBVIOUS
      <3>2. h[i - 1] = g[i - 1]
        BY <3>1
      <3>3. CASE i = m
        BY <3>1, <3>2, <3>3
      <3>4. CASE i # m
        <4>1. i \in 1 .. (m - 1)
          BY <3>4
        <4>. QED
          BY <2>1, <3>1, <3>2, <3>4, <4>1
      <3>. QED
        BY <3>3, <3>4
    <2>. HIDE DEF h
    <2>8. Good(m, h)
      BY <2>5, <2>6, <2>7
    <2>. QED
      BY <2>8
  <1>. HIDE DEF P
  <1>3. n \in P
    <2>1. \A i \in 1 .. n : i - 1 \in P => i \in P
      BY <1>2
    <2>2. \A i \in 0 .. n : i \in P
      BY <1>1, <2>1, UpTo
    <2>. QED
      BY <2>2
  <1>. QED
    BY <1>3 DEF P, Iterations

------------------------------------------------------------------------------
(* Types                                                                   *)

Databases == [records : [Ids -> Stamps \cup {Absent}], edges : SUBSET Edges]
Ledgers   == [acked : SUBSET Edges, unchecked : SUBSET Edges, leftover : SUBSET Entities,
              stale : SUBSET Conns]
RowKeys   == Stamps \X Memories
Cursors   == RowKeys \cup {NoKey}
MemoryRows == [id : Memories, fields : [updated_at : Stamps, content : {"text"}, tags : {{}}]]

\* The locals of the requests of those who write, and of Reader's.
WriterLocals ==
  {Idle} \cup [at : {"detach"}, id : Entities]
    \cup [at : {"link"}, left : Memories, right : Entities]
    \cup [at : {"batch"}, todo : Seq(Writes) \ {<<>>}]
Pages == {page \in Seq(RowKeys) : Len(page) \in 1 .. PageLimit}
ReaderLocals ==
  {Idle} \cup [at : {"keys"}, ids : SUBSET Memories, keys : SUBSET RowKeys]
    \cup [at : {"rows"}, page : Pages, last : Cursors]
    \cup [at : {"scan"}, ids : SUBSET Memories, lefts : SUBSET Memories]
    \cup [at : {"rights"}, left : Memories, lefts : SUBSET Memories, rights : SUBSET Entities]
    \cup [at : {"hops"}, frontier : SUBSET Ids, next : SUBSET Ids, depth : 0 .. MaxDepth]
    \cup [at : {"query"}, ids : SUBSET Memories, rows : Seq(MemoryRows)]

Walks  == [done : BOOLEAN, cursor : Cursors, untouched : SUBSET Memories, returned : SUBSET Memories,
           again : SUBSET Memories, shifted : BOOLEAN]
Joins  == [done : BOOLEAN, rows : SUBSET SUBSET Ids, stood : SUBSET Edges, seen : SUBSET Edges,
           met : SUBSET Ids]
Depths == UNION {[S -> 0 .. MaxDepth] : S \in SUBSET Ids}
Hops   == [done : BOOLEAN, depth : Depths, stood : SUBSET Edges, seen : SUBSET Edges]

Typed ==
  /\ scenario \in Scenarios /\ db \in Databases /\ ledger \in Ledgers
  /\ DOMAIN conn = Conns /\ conn[Reader] \in ReaderLocals
  /\ \A c \in Conns \ {Reader} : conn[c] \in WriterLocals
  /\ conn = [c \in Conns |-> conn[c]]
  /\ walk \in Walks /\ join \in Joins /\ hops \in Hops

------------------------------------------------------------------------------
(* The invariant, part by part: of a database d, a ledger l, connections cs, the *)
(* locals r of the reader's request, and a history                         *)

\* An end of an edge that is not there is an entity of a mention, and either gone or never
\* checked.
Resolves(d, l, gone) ==
  \A g \in d.edges : \A x \in g :
    \/ Has(d, x)
    \/ g \cap Memories # {} /\ x \in Entities /\ (x \in gone \/ g \in l.unchecked)

DetachedIn(cs) == {x \in Entities : \E c \in Conns : cs[c].at = "detach" /\ cs[c].id = x}

Kept(l, cs) ==
  \A c \in Conns : cs[c].at = "detach" =>
    cs[c].id \in Entities /\ \A g \in l.acked : g \cap Memories # {} => cs[c].id \notin g
Checked(d, l, cs) == \A c \in Conns : (cs[c].at = "link" /\ c \notin l.stale) => Has(d, cs[c].right)

LinksOk(d, l, cs) ==
  /\ l.acked \subseteq d.edges
  /\ Resolves(d, l, l.leftover \cup DetachedIn(cs))
  /\ Kept(l, cs) /\ Checked(d, l, cs)

\* Where a page under way has come to.
From(r, w) == IF r.last = NoKey THEN w.cursor ELSE r.last

PageOk(d, r, w) ==
  /\ \A i, j \in DOMAIN r.page : i < j => Before(r.page[i], r.page[j])
  /\ \A i \in DOMAIN r.page : Before(From(r, w), r.page[i])
  /\ \A x \in w.untouched : x \in w.returned <=> ~Before(From(r, w), Key(d, x))
  /\ \A x \in w.untouched :
       (Before(From(r, w), Key(d, x)) /\ ~Before(r.page[Len(r.page)], Key(d, x))) =>
         \E i \in DOMAIN r.page : r.page[i] = Key(d, x)

WalkOk(d, r, w) ==
  /\ r.at \in {"keys", "rows"} => ~w.done
  /\ \A x \in w.untouched : Has(d, x)
  /\ ~w.shifted =>
       /\ w.untouched \cap w.again = {}
       /\ w.done => w.untouched \subseteq w.returned
       /\ r.at # "rows" => \A x \in w.untouched : x \in w.returned <=> ~Before(w.cursor, Key(d, x))
       /\ r.at = "keys" => \A x \in w.untouched : x \in r.ids \/ Key(d, x) \in r.keys
       /\ r.at = "rows" => PageOk(d, r, w)

\* What of the mentions that stood a join under way has still to come to.
JoinOk(d, r, j) ==
  /\ j.done <=> r.at \notin {"scan", "rights"}
  /\ j.rows \subseteq j.seen /\ UNION j.rows \subseteq j.met
  /\ j.done => j.stood \subseteq j.rows
  /\ ~j.done =>
       /\ j.stood \subseteq Standing(d) /\ Mentions(d.edges) \subseteq j.seen
       /\ Live(d, Ids) \subseteq j.met /\ r.lefts \subseteq j.met
       /\ r.at = "scan" =>
            \A x \in Memories, y \in Entities :
              {x, y} \in j.stood => {x, y} \in j.rows \/ x \in r.ids \/ x \in r.lefts
       /\ r.at = "rights" =>
            /\ r.left \in j.met /\ \A y \in r.rights : {r.left, y} \in j.seen
            /\ \A x \in Memories, y \in Entities :
                 {x, y} \in j.stood =>
                   {x, y} \in j.rows \/ x \in r.lefts \/ (x = r.left /\ y \in r.rights)

\* The ids of S have been asked for their neighbours: those that stood are in, each no
\* deeper than a hop more.  The one that filled the traverse is exempt, and so is its depth.
Explored(h, S) ==
  \A x \in S, y \in Ids :
    /\ {x, y} \in h.stood
    /\ Cardinality(DOMAIN h.depth) >= MaxNodes => \E z \in DOMAIN h.depth : h.depth[z] >= h.depth[x] + 2
    => y \in DOMAIN h.depth /\ h.depth[y] <= h.depth[x] + 1

HopsOk(d, r, h) ==
  /\ h.done <=> r.at # "hops"
  /\ Cardinality(DOMAIN h.depth) <= MaxNodes
  /\ \A x \in DOMAIN h.depth : h.depth[x] > 0 =>
       \E y \in DOMAIN h.depth : h.depth[y] = h.depth[x] - 1 /\ {y, x} \in h.seen
  /\ h.done => Explored(h, {x \in DOMAIN h.depth : h.depth[x] < MaxDepth})
  /\ ~h.done =>
       /\ h.stood \subseteq Mentions(d.edges) /\ Mentions(d.edges) \subseteq h.seen
       /\ \A x \in r.frontier : x \in DOMAIN h.depth /\ h.depth[x] = r.depth
       /\ \A x \in DOMAIN h.depth : h.depth[x] <= r.depth + 1 /\ (h.depth[x] = r.depth + 1 <=> x \in r.next)
       /\ r.next \subseteq DOMAIN h.depth /\ (r.frontier = {} => r.next = {})
       /\ Explored(h, {x \in DOMAIN h.depth : \/ h.depth[x] < r.depth
                                              \/ h.depth[x] = r.depth /\ x \notin r.frontier})

\* No id is scanned twice.
QueryOk(r) ==
  r.at = "query" =>
    \A i \in DOMAIN r.rows : /\ r.rows[i].id \notin r.ids
                             /\ \A j \in DOMAIN r.rows : r.rows[i].id = r.rows[j].id => i = j

ServingInv ==
  /\ Typed
  /\ LinksOk(db, ledger, conn)
  /\ WalkOk(db, conn[Reader], walk)
  /\ JoinOk(db, conn[Reader], join)
  /\ HopsOk(db, conn[Reader], hops)
  /\ QueryOk(conn[Reader])

------------------------------------------------------------------------------
(* Keys in their order                                                     *)

LEMMA BeforeIs ==
  ASSUME NEW k \in Nat \X Nat, NEW l \in Nat \X Nat
  PROVE  /\ Before(k, l) <=> (k[1] < l[1] \/ (k[1] = l[1] /\ k[2] < l[2]))
         /\ k[1] \in Nat /\ k[2] \in Nat /\ l[1] \in Nat /\ l[2] \in Nat
         /\ k = l <=> (k[1] = l[1] /\ k[2] = l[2])
  BY DEF Before

\* Before is a strict order, and total.
LEMMA BeforeOrders ==
  ASSUME NEW k \in Nat \X Nat, NEW l \in Nat \X Nat
  PROVE  /\ ~Before(k, k) /\ (Before(k, l) => ~Before(l, k))
         /\ k = l \/ Before(k, l) \/ Before(l, k)
  <1>1. k[1] \in Nat /\ k[2] \in Nat /\ l[1] \in Nat /\ l[2] \in Nat
    BY BeforeIs
  <1>2. k = l <=> (k[1] = l[1] /\ k[2] = l[2])
    BY BeforeIs
  <1>. QED
    BY <1>1, <1>2 DEF Before

LEMMA BeforeChains ==
  ASSUME NEW k \in Nat \X Nat, NEW l \in Nat \X Nat, NEW m \in Nat \X Nat
  PROVE  /\ (Before(k, l) /\ Before(l, m)) => Before(k, m)
         /\ (Before(k, l) /\ ~Before(m, l)) => Before(k, m)
         /\ (~Before(l, k) /\ Before(l, m)) => Before(k, m)
  <1>1. k[1] \in Nat /\ k[2] \in Nat /\ l[1] \in Nat /\ l[2] \in Nat /\ m[1] \in Nat /\ m[2] \in Nat
    BY BeforeIs
  <1>. QED
    BY <1>1 DEF Before

\* The keys of a finite set, ascending: each of them once.
LEMMA AscendingFacts ==
  ASSUME NEW S \in SUBSET (Nat \X Nat), IsFiniteSet(S)
  PROVE  /\ Cardinality(S) \in Nat /\ Ascending(S) \in [1 .. Cardinality(S) -> S]
         /\ \A i, j \in 1 .. Cardinality(S) : i < j => Before(Ascending(S)[i], Ascending(S)[j])
         /\ \A k \in S : \E i \in 1 .. Cardinality(S) : Ascending(S)[i] = k
  <1>. DEFINE n == Cardinality(S)
              upto(x) == {y \in S : ~Before(x, y)}
              rank == [x \in S |-> Cardinality(upto(x))]
  <1>1. n \in Nat
    BY FS_CardinalityType
  <1>2. \A x \in S : upto(x) \in SUBSET S /\ x \in upto(x)
    BY BeforeOrders
  <1>3. \A x \in S : IsFiniteSet(upto(x)) /\ Cardinality(upto(x)) \in 1 .. n
    <2>. SUFFICES ASSUME NEW x \in S PROVE IsFiniteSet(upto(x)) /\ Cardinality(upto(x)) \in 1 .. n
      OBVIOUS
    <2>. DEFINE B == upto(x)
    <2>1. B \in SUBSET S /\ B # {}
      BY <1>2
    <2>. HIDE DEF B
    <2>2. IsFiniteSet(B) /\ Cardinality(B) <= n
      BY <2>1, FS_Subset
    <2>3. Cardinality(B) \in Nat /\ Cardinality(B) # 0
      BY <2>1, <2>2, FS_CardinalityType, FS_EmptySet
    <2>. QED
      BY <1>1, <2>2, <2>3 DEF B
  <1>4. \A x, y \in S : Before(x, y) => rank[x] < rank[y]
    <2>. SUFFICES ASSUME NEW x \in S, NEW y \in S, Before(x, y) PROVE rank[x] < rank[y]
      OBVIOUS
    <2>. DEFINE B == upto(x)
                C == upto(y)
    <2>1. B \in SUBSET C /\ y \in C /\ y \notin B
      <3>1. \A z \in S : ~Before(x, z) => ~Before(y, z)
        BY BeforeChains
      <3>2. B \in SUBSET C
        BY <3>1
      <3>3. y \in C
        BY <1>2
      <3>. QED
        BY <3>2, <3>3
    <2>2. IsFiniteSet(C) /\ Cardinality(C) \in Nat /\ Cardinality(B) \in Nat
      BY <1>3
    <2>3. rank[x] = Cardinality(B) /\ rank[y] = Cardinality(C)
      OBVIOUS
    <2>. HIDE DEF B, C, rank
    <2>4. Cardinality(B) <= Cardinality(C) /\ Cardinality(B) # Cardinality(C)
      BY <2>1, <2>2, FS_Subset
    <2>. QED
      BY <2>2, <2>3, <2>4
  <1>5. rank \in [S -> 1 .. n]
    BY <1>3
  <1>. HIDE DEF rank, upto
  <1>6. rank \in Injection(S, 1 .. n)
    <2>1. \A x, y \in S : rank[x] = rank[y] => x = y
      <3>. SUFFICES ASSUME NEW x \in S, NEW y \in S, rank[x] = rank[y] PROVE x = y
        OBVIOUS
      <3>1. rank[x] \in Nat
        BY <1>5, <1>1
      <3>2. ~Before(x, y) /\ ~Before(y, x)
        BY <1>4, <3>1
      <3>. QED
        BY <3>2, BeforeOrders
    <2>. QED
      BY <1>5, <2>1, Fun_IsInj
  <1>7. IsFiniteSet(1 .. n) /\ Cardinality(1 .. n) = n
    BY <1>1, FS_Interval
  <1>8. \A k \in 1 .. n : \E x \in S : rank[x] = k
    <2>1. rank \in Surjection(S, 1 .. n)
      BY <1>6, <1>7, FS_Injection
    <2>. QED
      BY <2>1 DEF Surjection
  <1>. DEFINE s == [k \in 1 .. n |-> CHOOSE x \in S : rank[x] = k]
  <1>9. \A k \in 1 .. n : s[k] \in S /\ rank[s[k]] = k
    BY <1>8
  <1>10. s \in [1 .. n -> S]
    BY <1>9
  <1>. HIDE DEF s
  <1>11. \A i, j \in DOMAIN s : i < j => Before(s[i], s[j])
    <2>. SUFFICES ASSUME NEW i \in 1 .. n, NEW j \in 1 .. n, i < j PROVE Before(s[i], s[j])
      BY <1>10
    <2>1. rank[s[i]] = i /\ rank[s[j]] = j /\ s[i] \in S /\ s[j] \in S /\ i \in Nat /\ j \in Nat
      BY <1>1, <1>9
    <2>2. ~Before(s[j], s[i]) /\ s[j] # s[i]
      BY <1>4, <2>1
    <2>. QED
      BY <2>1, <2>2, BeforeOrders
  <1>. DEFINE a == Ascending(S)
  <1>12. a \in [1 .. n -> S] /\ \A i, j \in DOMAIN a : i < j => Before(a[i], a[j])
    BY <1>10, <1>11 DEF Ascending
  <1>. HIDE DEF a
  <1>13. a \in Injection(1 .. n, S)
    <2>1. \A i, j \in 1 .. n : a[i] = a[j] => i = j
      <3>. SUFFICES ASSUME NEW i \in 1 .. n, NEW j \in 1 .. n, a[i] = a[j] PROVE i = j
        OBVIOUS
      <3>1. i \in Nat /\ j \in Nat /\ a[i] \in Nat \X Nat /\ a[j] \in Nat \X Nat
        BY <1>1, <1>12
      <3>2. ~(i < j) /\ ~(j < i)
        BY <1>12, <3>1, BeforeOrders
      <3>. QED
        BY <3>1, <3>2
    <2>. QED
      BY <1>12, <2>1, Fun_IsInj
  <1>14. a \in Surjection(1 .. n, S)
    BY <1>7, <1>13, FS_Injection
  <1>15. \A k \in S : \E i \in 1 .. n : a[i] = k
    BY <1>14 DEF Surjection
  <1>. QED
    BY <1>1, <1>12, <1>15 DEF a

\* A page has the first keys past the cursor, ascending, and no others.
IsPage(page, keys, cursor) ==
  /\ page \in Seq(RowKeys) /\ Len(page) \in Nat /\ Len(page) <= PageLimit
  /\ \A i, j \in DOMAIN page : i < j => Before(page[i], page[j])
  /\ \A i \in DOMAIN page : Before(cursor, page[i])
  /\ page = <<>> => \A k \in keys : ~Before(cursor, k)
  /\ page # <<>> => \A k \in keys : (Before(cursor, k) /\ ~Before(page[Len(page)], k)) =>
                                      \E i \in DOMAIN page : page[i] = k

LEMMA FirstPageFacts ==
  ASSUME NEW keys \in SUBSET RowKeys, NEW cursor \in Cursors
  PROVE  IsPage(FirstPage(keys, cursor), keys, cursor)
  <1>. DEFINE S == {k \in keys : Before(cursor, k)}
              n == Cardinality(S)
              a == Ascending(S)
              m == Min({PageLimit, Len(a)})
              page == FirstPage(keys, cursor)
  <1>1. S \in SUBSET RowKeys /\ RowKeys \in SUBSET (Nat \X Nat) /\ IsFiniteSet(S)
    <2>1. Memories \in SUBSET Ids /\ IsFiniteSet(Memories)
      BY ServingAssumption, FS_Subset DEF Ids
    <2>2. IsFiniteSet(RowKeys)
      BY <2>1, ServingAssumption, FS_Product DEF RowKeys
    <2>3. S \in SUBSET RowKeys
      OBVIOUS
    <2>4. IsFiniteSet(S)
      BY <2>2, <2>3, FS_Subset
    <2>5. RowKeys \in SUBSET (Nat \X Nat)
      BY <2>1, ServingAssumption DEF RowKeys
    <2>. QED
      BY <2>3, <2>4, <2>5
  <1>. HIDE DEF S
  <1>2. /\ n \in Nat /\ a \in [1 .. n -> S]
        /\ \A i, j \in 1 .. n : i < j => Before(a[i], a[j])
        /\ \A k \in S : \E i \in 1 .. n : a[i] = k
    BY <1>1, AscendingFacts
  <1>. HIDE DEF n, a
  <1>3. a \in Seq(S) /\ Len(a) = n /\ DOMAIN a = 1 .. n
    BY <1>2
  <1>4. PageLimit \in Nat /\ PageLimit > 0
    BY ServingAssumption
  <1>5. m \in Nat /\ m <= n /\ m <= PageLimit /\ (m = n \/ m = PageLimit)
    <2>1. m = IF PageLimit <= n THEN PageLimit ELSE n
      <3>1. \E x \in {PageLimit, n} : \A y \in {PageLimit, n} : x <= y
        BY <1>2, <1>4
      <3>2. m \in {PageLimit, n} /\ \A y \in {PageLimit, n} : m <= y
        BY <1>3, <3>1 DEF Min
      <3>. QED
        BY <1>2, <1>4, <3>2
    <2>. QED
      BY <1>2, <1>4, <2>1
  <1>6. page = SubSeq(a, 1, m)
    BY DEF FirstPage, S, a
  <1>. HIDE DEF page, m
  <1>7. page \in Seq(S) /\ Len(page) = m /\ \A i \in 1 .. m : page[i] = a[i]
    <2>1. \A i \in 1 .. m : a[i] \in S
      BY <1>2, <1>5
    <2>2. /\ page \in Seq(S) /\ Len(page) = IF 1 <= m THEN m - 1 + 1 ELSE 0
          /\ \A i \in 1 .. m - 1 + 1 : page[i] = a[1 + i - 1]
      BY <1>5, <1>6, <2>1, SubSeqProperties
    <2>. QED
      BY <1>5, <2>2
  <1>8. DOMAIN page = 1 .. m /\ page \in Seq(RowKeys)
    BY <1>1, <1>7
  <1>9. \A i \in 1 .. m : i \in 1 .. n /\ page[i] = a[i] /\ a[i] \in S
    BY <1>2, <1>5, <1>7
  <1>10. \A i, j \in DOMAIN page : i < j => Before(page[i], page[j])
    BY <1>2, <1>8, <1>9
  <1>11. \A i \in DOMAIN page : Before(cursor, page[i])
    BY <1>8, <1>9 DEF S
  <1>12. ASSUME page = <<>> PROVE \A k \in keys : ~Before(cursor, k)
    <2>1. m = 0
      BY <1>7, <1>12
    <2>2. n = 0
      BY <1>4, <1>5, <2>1
    <2>3. S = {}
      BY <1>2, <2>2
    <2>. QED
      BY <2>3 DEF S
  <1>13. ASSUME page # <<>>, NEW k \in keys, Before(cursor, k), ~Before(page[Len(page)], k)
         PROVE  \E i \in DOMAIN page : page[i] = k
    <2>1. m \in 1 .. m /\ page[Len(page)] = a[m]
      <3>1. m # 0
        BY <1>7, <1>13
      <3>2. m \in 1 .. m
        BY <1>5, <3>1
      <3>. QED
        BY <1>7, <3>2
    <2>2. k \in S
      BY <1>13 DEF S
    <2>3. PICK i \in 1 .. n : a[i] = k
      BY <1>2, <2>2
    <2>4. ~(m < i)
      BY <1>2, <1>9, <1>13, <2>1, <2>3
    <2>5. i \in 1 .. m
      BY <1>2, <1>5, <2>4
    <2>. QED
      BY <1>8, <1>9, <2>3, <2>5
  <1>. QED
    BY <1>5, <1>7, <1>8, <1>10, <1>11, <1>12, <1>13 DEF page, IsPage

------------------------------------------------------------------------------
(* One write                                                               *)

Puts == {"insert", "replace", "replace_if"}

LEMMA WriteIs ==
  ASSUME NEW w \in Writes
  PROVE  /\ w.kind \in Puts \cup {"delete", "link"}
         /\ w.kind \in Puts => w.id \in Ids /\ w.stamp \in Stamps
         /\ w.kind = "delete" => w.id \in Ids
         /\ w.kind = "link" => w.left \in Ids /\ w.right \in Entities
  BY DEF Writes, Puts

LEMMA Kinds == Memories \in SUBSET Ids /\ Entities \in SUBSET Ids /\ Memories \cap Entities = {}
               /\ \A x \in Ids : x \in Memories \/ x \in Entities
  BY ServingAssumption DEF Ids

LEMMA Stamped == Absent \notin Stamps /\ Stamps \subseteq Nat /\ 0 \notin Stamps
  BY ServingAssumption

LEMMA EdgeIs ==
  ASSUME NEW g \in Edges
  PROVE  /\ g \subseteq Ids /\ g \cap Entities # {}
         /\ \/ g \cap Memories # {}
            \/ g \subseteq Entities
  BY Kinds DEF Edges

LEMMA PairIsEdge ==
  ASSUME NEW x \in Ids, NEW y \in Entities, x # y
  PROVE  {x, y} \in Edges
  <1>1. Cardinality({x}) = 1 /\ IsFiniteSet({x})
    BY FS_Singleton
  <1>2. Cardinality({x} \cup {y}) = 1 + 1
    BY <1>1, FS_AddElement
  <1>3. {x} \cup {y} = {x, y}
    OBVIOUS
  <1>4. Cardinality({x, y}) = 2
    BY <1>2, <1>3
  <1>. QED
    BY <1>4, Kinds DEF Edges

\* What a write does: the database e and the ledger k it leaves, by its result.
PutsRow(d, w, l, e, k) == w.kind \in Puts /\ e = [d EXCEPT !.records[w.id] = w.stamp] /\ k = l
Deletes(d, w, l, e, k) ==
  /\ w.kind = "delete" /\ Has(d, w.id)
  /\ e = [d EXCEPT !.records[w.id] = Absent, !.edges = @ \ OwnEdges(d, w.id)]
  /\ k = [l EXCEPT !.acked = {h \in @ : w.id \notin h}, !.unchecked = @ \ OwnEdges(d, w.id),
                   !.stale = @ \cup {c \in Conns : conn[c].at = "link" /\ conn[c].right = w.id}]
Acks(d, w, l, loose, k) ==
  /\ w.kind = "link" /\ w.left # w.right
  /\ k = [l EXCEPT !.acked = @ \cup {h \in {{w.left, w.right}} : Has(d, w.right) /\ ~Detaching(w.right)},
                   !.unchecked = @ \cup {h \in {{w.left, w.right}} : loose /\ w.left \in Memories}]
LinksThem(d, w, e) ==
  /\ Has(d, w.left) /\ (w.left \in Entities => Has(d, w.right))
  /\ e = [d EXCEPT !.edges = @ \cup {{w.left, w.right}}]
WereLinked(d, w, e) == {w.left, w.right} \in d.edges /\ e = d
ChangesNothing(d, w, l, e, k) == e = d /\ k = l /\ ~(w.kind = "delete" /\ Has(d, w.id))

Outcome(d, w, l, loose, e, k) ==
  \/ PutsRow(d, w, l, e, k)
  \/ Deletes(d, w, l, e, k)
  \/ Acks(d, w, l, loose, k) /\ LinksThem(d, w, e)
  \/ Acks(d, w, l, loose, k) /\ WereLinked(d, w, e)
  \/ ChangesNothing(d, w, l, e, k)

LEMMA Outcomes ==
  ASSUME NEW d \in Databases, NEW w \in Writes, NEW l \in Ledgers, NEW loose \in BOOLEAN
  PROVE  Outcome(d, w, l, loose, After(d, w), Noted(l, d, w, loose))
  <1>1. w.kind \in Puts \cup {"delete", "link"}
    BY WriteIs
  <1>2. CASE w.kind \in Puts
    <2>1. Result(d, w) \in {"Inserted", "Replaced", "Duplicate", "NotFound", "GuardFailed"}
      BY <1>2 DEF Result, Puts
    <2>2. CASE Result(d, w) \in {"Inserted", "Replaced"}
      BY <1>2, <2>2 DEF After, Noted, Outcome, PutsRow
    <2>3. CASE Result(d, w) \in {"Duplicate", "NotFound", "GuardFailed"}
      BY <1>2, <2>3 DEF After, Noted, Puts, Outcome, ChangesNothing
    <2>. QED
      BY <2>1, <2>2, <2>3
  <1>3. CASE w.kind = "delete"
    <2>1. CASE Has(d, w.id)
      <3>1. Result(d, w) = "Deleted"
        BY <1>3, <2>1 DEF Result
      <3>. QED
        BY <1>3, <2>1, <3>1 DEF After, Noted, Outcome, Deletes
    <2>2. CASE ~Has(d, w.id)
      <3>1. Result(d, w) = "NotFound"
        BY <1>3, <2>2 DEF Result
      <3>. QED
        BY <1>3, <2>2, <3>1 DEF After, Noted, Outcome, ChangesNothing
    <2>. QED
      BY <2>1, <2>2
  <1>4. CASE w.kind = "link"
    <2>1. Result(d, w) = LinkResult(d, w)
      BY <1>4 DEF Result
    <2>2. Result(d, w) \in {"RecordNotFound", "Malformed", "AlreadyLinked", "Linked"}
      BY <2>1 DEF LinkResult
    <2>3. CASE Result(d, w) = "Linked"
      <3>1. Has(d, w.left) /\ w.left # w.right /\ (w.left \in Entities => Has(d, w.right))
        BY <2>1, <2>3 DEF LinkResult
      <3>. QED
        BY <1>4, <2>3, <3>1 DEF After, Noted, Outcome, Acks, LinksThem
    <2>4. CASE Result(d, w) = "AlreadyLinked"
      <3>1. w.left # w.right /\ {w.left, w.right} \in d.edges
        BY <2>1, <2>4 DEF LinkResult
      <3>. QED
        BY <1>4, <2>4, <3>1 DEF After, Noted, Outcome, Acks, WereLinked
    <2>5. CASE Result(d, w) \in {"RecordNotFound", "Malformed"}
      BY <1>4, <2>5 DEF After, Noted, Outcome, ChangesNothing
    <2>. QED
      BY <2>2, <2>3, <2>4, <2>5
  <1>. QED
    BY <1>1, <1>2, <1>3, <1>4

LEMMA OutcomeTyped ==
  ASSUME NEW d \in Databases, NEW w \in Writes, NEW l \in Ledgers, NEW loose \in BOOLEAN, NEW e, NEW k,
         Outcome(d, w, l, loose, e, k)
  PROVE  e \in Databases /\ k \in Ledgers /\ k.leftover = l.leftover
  <1>1. d.records \in [Ids -> Stamps \cup {Absent}] /\ d.edges \in SUBSET Edges
    BY DEF Databases
  <1>2. /\ l.acked \in SUBSET Edges /\ l.unchecked \in SUBSET Edges /\ l.leftover \in SUBSET Entities
        /\ l.stale \in SUBSET Conns
    BY DEF Ledgers
  <1>3. CASE PutsRow(d, w, l, e, k)
    <2>1. w.id \in Ids /\ w.stamp \in Stamps
      BY <1>3, WriteIs DEF PutsRow
    <2>. QED
      BY <1>3, <2>1 DEF Databases, PutsRow
  <1>4. CASE Deletes(d, w, l, e, k)
    <2>1. e \in Databases
      BY <1>4 DEF Databases, Deletes
    <2>2. k \in Ledgers /\ k.leftover = l.leftover
      BY <1>4 DEF Ledgers, Deletes
    <2>. QED
      BY <2>1, <2>2
  <1>5. ASSUME Acks(d, w, l, loose, k) PROVE {w.left, w.right} \in Edges /\ k \in Ledgers /\ k.leftover = l.leftover
    <2>1. PICK g \in Edges : g = {w.left, w.right}
      BY <1>5, WriteIs, PairIsEdge DEF Acks
    <2>2. k = [l EXCEPT !.acked = @ \cup {h \in {g} : Has(d, w.right) /\ ~Detaching(w.right)},
                        !.unchecked = @ \cup {h \in {g} : loose /\ w.left \in Memories}]
      BY <1>5, <2>1 DEF Acks
    <2>3. k \in Ledgers /\ k.leftover = l.leftover
      BY <2>2 DEF Ledgers
    <2>. QED
      BY <2>1, <2>3
  <1>6. CASE Acks(d, w, l, loose, k) /\ LinksThem(d, w, e)
    <2>1. e \in Databases
      BY <1>5, <1>6 DEF Databases, LinksThem
    <2>. QED
      BY <1>5, <1>6, <2>1
  <1>7. CASE Acks(d, w, l, loose, k) /\ WereLinked(d, w, e)
    BY <1>5, <1>7 DEF WereLinked
  <1>8. CASE ChangesNothing(d, w, l, e, k)
    BY <1>8 DEF ChangesNothing
  <1>. QED
    BY <1>3, <1>4, <1>6, <1>7, <1>8 DEF Outcome

LEMMA WriteTyped ==
  ASSUME NEW d \in Databases, NEW w \in Writes, NEW l \in Ledgers, NEW loose \in BOOLEAN
  PROVE  /\ After(d, w) \in Databases /\ Noted(l, d, w, loose) \in Ledgers
         /\ Noted(l, d, w, loose).leftover = l.leftover
  BY Outcomes, OutcomeTyped

LinksOutcome(d, w, e, k, gone) ==
  /\ k.acked \subseteq e.edges /\ Kept(k, conn) /\ Checked(e, k, conn)
  /\ Resolves(e, k, gone \cup NotDetached({w}))
  /\ (w.kind = "delete" /\ Has(d, w.id)) => \A g \in k.acked : w.id \notin g

\* Every write leaves the edges with their ends, but for the mentions of an entity it
\* deletes and of one it does not look up.
LEMMA OutcomeLinks ==
  ASSUME NEW d \in Databases, NEW l \in Ledgers, NEW w \in Writes, NEW loose \in BOOLEAN, NEW gone,
         NEW e, NEW k, Outcome(d, w, l, loose, e, k),
         l.acked \subseteq d.edges, Resolves(d, l, gone), Kept(l, conn), Checked(d, l, conn),
         (w.kind = "link" /\ w.left \in Memories) => loose \/ Has(d, w.right)
  PROVE  LinksOutcome(d, w, e, k, gone)
  <1>1. d.records \in [Ids -> Stamps \cup {Absent}] /\ d.edges \in SUBSET Edges
    BY DEF Databases
  <1>2. CASE PutsRow(d, w, l, e, k)
    <2>1. w.id \in Ids /\ w.stamp \in Stamps /\ w.kind # "delete" /\ e = [d EXCEPT !.records[w.id] = w.stamp] /\ k = l
      BY <1>2, WriteIs DEF Puts, PutsRow
    <2>2. e.edges = d.edges /\ \A x : Has(d, x) => Has(e, x)
      BY <1>1, <2>1, Stamped DEF Has, Databases
    <2>3. Resolves(e, k, gone \cup NotDetached({w}))
      BY <2>1, <2>2 DEF Resolves
    <2>4. Checked(e, k, conn)
      BY <2>1, <2>2 DEF Checked
    <2>. QED
      BY <2>1, <2>2, <2>3, <2>4 DEF LinksOutcome
  <1>3. CASE Deletes(d, w, l, e, k)
    <2>1. PICK x \in Ids : x = w.id
      BY <1>3, WriteIs DEF Deletes
    <2>2. /\ e.edges = d.edges \ OwnEdges(d, x) /\ e.records = [d.records EXCEPT ![x] = Absent]
          /\ k.acked = {h \in l.acked : x \notin h} /\ k.unchecked = l.unchecked \ OwnEdges(d, x)
          /\ k.stale = l.stale \cup {c \in Conns : conn[c].at = "link" /\ conn[c].right = x}
      BY <1>3, <2>1 DEF Databases, Ledgers, Deletes
    <2>3. \A y : y # x /\ Has(d, y) => Has(e, y)
      BY <1>1, <2>2 DEF Has
    <2>4. \A h \in OwnEdges(d, x) : x \in h
      BY DEF OwnEdges
    <2>5. k.acked \subseteq e.edges
      BY <2>2, <2>4
    <2>6. Kept(k, conn)
      BY <2>2 DEF Kept
    <2>7. Checked(e, k, conn)
      BY <2>2, <2>3 DEF Checked
    <2>8. Resolves(e, k, gone \cup NotDetached({w}))
      <3>. SUFFICES ASSUME NEW h \in e.edges, NEW y \in h, ~Has(e, y)
                    PROVE  h \cap Memories # {} /\ y \in Entities /\ (y \in gone \cup NotDetached({w}) \/ h \in k.unchecked)
        BY DEF Resolves
      <3>1. h \in d.edges /\ h \notin OwnEdges(d, x) /\ h \in Edges
        BY <1>1, <2>2
      <3>2. CASE y = x
        <4>1. x \notin Memories /\ ~(h \subseteq Entities)
          BY <3>1, <3>2 DEF OwnEdges
        <4>2. h \cap Memories # {}
          BY <3>1, <4>1, EdgeIs
        <4>3. x \in Entities
          BY <2>1, <4>1, Kinds
        <4>4. x \in NotDetached({w})
          BY <1>3, <2>1, <4>3 DEF NotDetached, Deletes
        <4>. QED
          BY <3>2, <4>2, <4>3, <4>4
      <3>3. CASE y # x
        <4>1. ~Has(d, y)
          BY <2>3, <3>3
        <4>. QED
          BY <2>2, <3>1, <4>1 DEF Resolves
      <3>. QED
        BY <3>2, <3>3
    <2>9. \A h \in k.acked : w.id \notin h
      BY <2>1, <2>2
    <2>. QED
      BY <2>5, <2>6, <2>7, <2>8, <2>9 DEF LinksOutcome
  <1>4. ASSUME Acks(d, w, l, loose, k)
        PROVE  /\ Kept(k, conn) /\ k.stale = l.stale /\ k.acked \subseteq l.acked \cup {{w.left, w.right}}
               /\ k.unchecked = l.unchecked \cup {h \in {{w.left, w.right}} : loose /\ w.left \in Memories}
               /\ w.left \in Ids /\ w.right \in Entities /\ w.kind = "link"
    <2>1. PICK x \in Ids, y \in Entities : x = w.left /\ y = w.right
      BY <1>4, WriteIs DEF Acks
    <2>2. /\ k.acked = l.acked \cup {h \in {{x, y}} : Has(d, y) /\ ~Detaching(y)} /\ k.stale = l.stale
          /\ k.unchecked = l.unchecked \cup {h \in {{x, y}} : loose /\ x \in Memories}
      BY <1>4, <2>1 DEF Ledgers, Acks
    <2>3. Kept(k, conn)
      <3>. SUFFICES ASSUME NEW c \in Conns, conn[c].at = "detach"
                    PROVE  conn[c].id \in Entities /\ \A h \in k.acked : h \cap Memories # {} => conn[c].id \notin h
        BY DEF Kept
      <3>1. conn[c].id \in Entities /\ \A h \in l.acked : h \cap Memories # {} => conn[c].id \notin h
        BY DEF Kept
      <3>2. ASSUME ~Detaching(y), {x, y} \cap Memories # {} PROVE conn[c].id \notin {x, y}
        <4>1. conn[c].id # y
          BY <3>2 DEF Detaching
        <4>2. x \in Memories
          BY <2>1, <3>2, Kinds
        <4>3. conn[c].id # x
          BY <3>1, <4>2, Kinds
        <4>. QED
          BY <4>1, <4>3
      <3>. QED
        BY <2>2, <3>1, <3>2
    <2>. QED
      BY <1>4, <2>1, <2>2, <2>3 DEF Acks
  <1>5. CASE Acks(d, w, l, loose, k) /\ LinksThem(d, w, e)
    <2>1. e.edges = d.edges \cup {{w.left, w.right}} /\ e.records = d.records
      BY <1>5 DEF Databases, LinksThem
    <2>2. /\ Kept(k, conn) /\ k.stale = l.stale /\ k.acked \subseteq l.acked \cup {{w.left, w.right}}
          /\ k.unchecked = l.unchecked \cup {h \in {{w.left, w.right}} : loose /\ w.left \in Memories}
          /\ w.left \in Ids /\ w.right \in Entities /\ w.kind = "link"
      BY <1>4, <1>5
    <2>3. \A y : Has(e, y) <=> Has(d, y)
      BY <2>1 DEF Has
    <2>4. Checked(e, k, conn)
      BY <2>2, <2>3 DEF Checked
    <2>5. Resolves(e, k, gone \cup NotDetached({w}))
      <3>. SUFFICES ASSUME NEW h \in e.edges, NEW y \in h, ~Has(d, y)
                    PROVE  h \cap Memories # {} /\ y \in Entities /\ (y \in gone \cup NotDetached({w}) \/ h \in k.unchecked)
        BY <2>3 DEF Resolves
      <3>1. CASE h \in d.edges
        BY <2>2, <3>1 DEF Resolves
      <3>2. CASE h = {w.left, w.right}
        <4>1. y = w.right /\ w.left \notin Entities
          BY <1>5, <3>2 DEF LinksThem
        <4>2. w.left \in Memories
          BY <2>2, <4>1, Kinds
        <4>3. loose
          BY <2>2, <4>1, <4>2
        <4>. QED
          BY <2>2, <3>2, <4>1, <4>2, <4>3
      <3>. QED
        BY <2>1, <3>1, <3>2
    <2>. QED
      BY <2>1, <2>2, <2>4, <2>5 DEF LinksOutcome
  <1>6. CASE Acks(d, w, l, loose, k) /\ WereLinked(d, w, e)
    <2>1. /\ Kept(k, conn) /\ k.stale = l.stale /\ k.acked \subseteq l.acked \cup {{w.left, w.right}}
          /\ k.unchecked = l.unchecked \cup {h \in {{w.left, w.right}} : loose /\ w.left \in Memories}
          /\ w.kind = "link"
      BY <1>4, <1>6
    <2>2. Checked(e, k, conn)
      BY <1>6, <2>1 DEF Checked, WereLinked
    <2>3. Resolves(e, k, gone \cup NotDetached({w}))
      BY <1>6, <2>1 DEF Resolves, WereLinked
    <2>. QED
      BY <1>6, <2>1, <2>2, <2>3 DEF LinksOutcome, WereLinked
  <1>7. CASE ChangesNothing(d, w, l, e, k)
    <2>1. Resolves(e, k, gone \cup NotDetached({w}))
      BY <1>7 DEF Resolves, ChangesNothing
    <2>. QED
      BY <1>7, <2>1 DEF LinksOutcome, ChangesNothing
  <1>. QED
    BY <1>2, <1>3, <1>5, <1>6, <1>7 DEF Outcome

LEMMA WriteLinks ==
  ASSUME NEW d \in Databases, NEW l \in Ledgers, NEW w \in Writes, NEW loose \in BOOLEAN, NEW gone,
         l.acked \subseteq d.edges, Resolves(d, l, gone), Kept(l, conn), Checked(d, l, conn),
         (w.kind = "link" /\ w.left \in Memories) => loose \/ Has(d, w.right)
  PROVE  LinksOutcome(d, w, After(d, w), Noted(l, d, w, loose), gone)
  BY Outcomes, OutcomeLinks

------------------------------------------------------------------------------
(* Batches                                                                 *)

\* A batch's write looks no end up and detaches nothing, and the ledger says so.
LEMMA BatchLinks ==
  ASSUME NEW d \in Databases, NEW l \in Ledgers, NEW w \in Writes, LinksOk(d, l, conn)
  PROVE  LET k == [Noted(l, d, w, TRUE) EXCEPT !.leftover = @ \cup NotDetached({w})] IN
         k \in Ledgers /\ LinksOk(After(d, w), k, conn)
  <1>1. PICK e \in Databases : e = After(d, w)
    BY WriteTyped
  <1>2. PICK n \in Ledgers : n = Noted(l, d, w, TRUE) /\ n.leftover = l.leftover
    BY WriteTyped
  <1>3. LinksOutcome(d, w, e, n, l.leftover \cup DetachedIn(conn))
    BY <1>1, <1>2, WriteLinks DEF LinksOk
  <1>4. NotDetached({w}) \subseteq Entities
    BY DEF NotDetached
  <1>5. PICK k : k = [n EXCEPT !.leftover = @ \cup NotDetached({w})]
    OBVIOUS
  <1>6. /\ k \in Ledgers /\ k.acked = n.acked /\ k.unchecked = n.unchecked /\ k.stale = n.stale
        /\ k.leftover = l.leftover \cup NotDetached({w})
    BY <1>2, <1>4, <1>5 DEF Ledgers
  <1>7. Resolves(e, k, k.leftover \cup DetachedIn(conn))
    BY <1>3, <1>6 DEF LinksOutcome, Resolves
  <1>8. Kept(k, conn) /\ Checked(e, k, conn) /\ k.acked \subseteq e.edges
    BY <1>3, <1>6 DEF LinksOutcome, Kept, Checked
  <1>. QED
    BY <1>1, <1>2, <1>5, <1>6, <1>7, <1>8 DEF LinksOk

BatchStates == [failed : BOOLEAN, db : Databases, ledger : Ledgers]

LEMMA ApplyWriteFacts ==
  ASSUME NEW s \in BatchStates, NEW w \in Writes
  PROVE  /\ ApplyWrite(s, w) \in BatchStates
         /\ LinksOk(s.db, s.ledger, conn) => LinksOk(ApplyWrite(s, w).db, ApplyWrite(s, w).ledger, conn)
  <1>1. s.db \in Databases /\ s.ledger \in Ledgers /\ s.failed \in BOOLEAN
    BY DEF BatchStates
  <1>2. CASE s.failed \/ Result(s.db, w) \in Hard
    <2>1. ApplyWrite(s, w) = [s EXCEPT !.failed = TRUE]
      BY <1>2 DEF ApplyWrite
    <2>. QED
      BY <2>1 DEF BatchStates
  <1>3. CASE ~(s.failed \/ Result(s.db, w) \in Hard)
    <2>1. PICK d \in Databases, l \in Ledgers : d = s.db /\ l = s.ledger
      BY <1>1
    <2>2. PICK e \in Databases : e = After(d, w)
      BY WriteTyped
    <2>3. PICK k : k = [Noted(l, d, w, TRUE) EXCEPT !.leftover = @ \cup NotDetached({w})]
      OBVIOUS
    <2>4. ApplyWrite(s, w) = [s EXCEPT !.db = e, !.ledger = k]
      BY <1>3, <2>1, <2>2, <2>3 DEF ApplyWrite
    <2>5. k \in Ledgers
      <3>1. PICK n \in Ledgers : n = Noted(l, d, w, TRUE)
        BY WriteTyped
      <3>2. NotDetached({w}) \subseteq Entities
        BY DEF NotDetached
      <3>. QED
        BY <2>3, <3>1, <3>2 DEF Ledgers
    <2>6. LinksOk(d, l, conn) => LinksOk(e, k, conn)
      BY <2>2, <2>3, BatchLinks
    <2>7. ApplyWrite(s, w) \in BatchStates /\ ApplyWrite(s, w).db = e /\ ApplyWrite(s, w).ledger = k
      BY <2>4, <2>5 DEF BatchStates
    <2>. QED
      BY <2>1, <2>6, <2>7
  <1>. QED
    BY <1>2, <1>3

LEMMA AppliedFacts ==
  ASSUME NEW ops \in Seq(Writes), db \in Databases, ledger \in Ledgers, LinksOk(db, ledger, conn)
  PROVE  /\ Applied(ops).db \in Databases /\ Applied(ops).ledger \in Ledgers
         /\ LinksOk(Applied(ops).db, Applied(ops).ledger, conn)
  <1>. DEFINE n == Len(ops)
              from == [failed |-> FALSE, db |-> db, ledger |-> ledger]
              step == [i \in 1 .. n |-> [s \in BatchStates |-> ApplyWrite(s, ops[i])]]
  <1>1. n \in Nat /\ \A i \in 1 .. n : ops[i] \in Writes
    OBVIOUS
  <1>2. from \in BatchStates /\ from.db = db /\ from.ledger = ledger
    BY DEF BatchStates
  <1>. HIDE DEF n, from
  <1>3. step \in [1 .. n -> [BatchStates -> BatchStates]]
    BY <1>1, ApplyWriteFacts
  <1>4. \A i \in 1 .. n, s \in BatchStates : step[i][s] = ApplyWrite(s, ops[i])
    OBVIOUS
  <1>. HIDE DEF step
  <1>5. PICK g \in [0 .. n -> BatchStates] : g[0] = from /\ \A i \in 1 .. n : g[i] = step[i][g[i - 1]]
    <2>1. PICK m \in Nat : m = n
      BY <1>1
    <2>2. PICK f \in BatchStates : f = from
      BY <1>2
    <2>3. PICK s \in [1 .. m -> [BatchStates -> BatchStates]] : s = step
      BY <1>3, <2>1
    <2>4. Iterations(m, BatchStates, f, s) # {}
      BY Iterates
    <2>. QED
      BY <2>1, <2>2, <2>3, <2>4 DEF Iterations
  <1>6. \A i \in 1 .. n : i - 1 \in 0 .. n /\ g[i] = ApplyWrite(g[i - 1], ops[i])
    BY <1>1, <1>4, <1>5
  <1>7. g = [i \in 0 .. n |-> IF i = 0 THEN from ELSE ApplyWrite(g[i - 1], ops[i])]
    <2>1. \A i \in 0 .. n : i = 0 \/ i \in 1 .. n
      BY <1>1
    <2>. QED
      BY <1>5, <1>6, <2>1
  <1>8. PICK h : /\ Applied(ops) = h[n]
                 /\ h = [i \in 0 .. n |-> IF i = 0 THEN from ELSE ApplyWrite(h[i - 1], ops[i])]
    <2>. DEFINE after[i \in 0 .. Len(ops)] ==
                  IF i = 0 THEN [failed |-> FALSE, db |-> db, ledger |-> ledger]
                  ELSE ApplyWrite(after[i - 1], ops[i])
                ch == CHOOSE h : h = [i \in 0 .. Len(ops) |->
                                        IF i = 0 THEN [failed |-> FALSE, db |-> db, ledger |-> ledger]
                                        ELSE ApplyWrite(h[i - 1], ops[i])]
    <2>1. Applied(ops) = after[Len(ops)]
      BY DEF Applied
    <2>2. after = ch
      OBVIOUS
    <2>3. ch = [i \in 0 .. Len(ops) |->
                  IF i = 0 THEN [failed |-> FALSE, db |-> db, ledger |-> ledger]
                  ELSE ApplyWrite(ch[i - 1], ops[i])]
      BY <1>7, Zenon DEF n, from
    <2>. HIDE DEF after, ch
    <2>. QED
      BY <2>1, <2>2, <2>3 DEF n, from
  <1>. DEFINE P == {i \in 0 .. n : h[i] \in BatchStates /\ LinksOk(h[i].db, h[i].ledger, conn)}
  <1>9. 0 \in P
    <2>1. 0 \in 0 .. n /\ h[0] = from
      BY <1>1, <1>8
    <2>. QED
      BY <1>2, <2>1
  <1>10. ASSUME NEW i \in 1 .. n, i - 1 \in P PROVE i \in P
    <2>1. i \in 0 .. n /\ i # 0 /\ ops[i] \in Writes
      BY <1>1
    <2>2. h[i] = ApplyWrite(h[i - 1], ops[i])
      BY <1>8, <2>1
    <2>3. PICK s \in BatchStates, w \in Writes : s = h[i - 1] /\ w = ops[i]
      BY <1>10, <2>1
    <2>4. LinksOk(s.db, s.ledger, conn)
      BY <1>10, <2>3
    <2>5. ApplyWrite(s, w) \in BatchStates /\ LinksOk(ApplyWrite(s, w).db, ApplyWrite(s, w).ledger, conn)
      BY <2>4, ApplyWriteFacts
    <2>. QED
      BY <2>1, <2>2, <2>3, <2>5
  <1>11. n \in P
    <2>. HIDE DEF P
    <2>1. \A i \in 1 .. n : i - 1 \in P => i \in P
      BY <1>10
    <2>2. \A i \in 0 .. n : i \in P
      BY <1>1, <1>9, <2>1, UpTo
    <2>. QED
      BY <1>1, <2>2
  <1>12. Applied(ops) \in BatchStates /\ LinksOk(Applied(ops).db, Applied(ops).ledger, conn)
    BY <1>8, <1>11
  <1>. QED
    BY <1>12 DEF BatchStates

------------------------------------------------------------------------------
(* What a change of the database leaves of the reads under way                *)

LEMMA HasIs ==
  ASSUME NEW d \in Databases, NEW x \in Ids
  PROVE  Has(d, x) <=> d.records[x] \in Stamps
  BY Stamped DEF Has, Databases

LEMMA WalkChanges ==
  ASSUME NEW d \in Databases, NEW n \in Databases, NEW r, NEW w \in Walks, WalkOk(d, r, w)
  PROVE  LET v == [w EXCEPT !.untouched = {x \in @ : n.records[x] = d.records[x]}] IN
         v \in Walks /\ WalkOk(n, r, v)
  <1>1. PICK v : v = [w EXCEPT !.untouched = {x \in @ : n.records[x] = d.records[x]}]
    OBVIOUS
  <1>2. /\ v \in Walks /\ v.done = w.done /\ v.cursor = w.cursor /\ v.returned = w.returned
        /\ v.again = w.again /\ v.shifted = w.shifted /\ v.untouched \subseteq w.untouched
        /\ \A x \in v.untouched : n.records[x] = d.records[x]
    BY <1>1 DEF Walks
  <1>3. \A x \in v.untouched : Key(n, x) = Key(d, x) /\ (Has(d, x) => Has(n, x))
    BY <1>2 DEF Key, Has
  <1>4. From(r, v) = From(r, w)
    BY <1>2 DEF From
  <1>5. PageOk(d, r, w) => PageOk(n, r, v)
    BY <1>2, <1>3, <1>4 DEF PageOk
  <1>6. WalkOk(n, r, v)
    BY <1>2, <1>3, <1>5 DEF WalkOk
  <1>. QED
    BY <1>1, <1>2, <1>6

LEMMA JoinChanges ==
  ASSUME NEW d \in Databases, NEW n \in Databases, NEW r, NEW j \in Joins, JoinOk(d, r, j)
  PROVE  LET v == IF j.done THEN NoJoin
                  ELSE [j EXCEPT !.stood = @ \cap Standing(n), !.seen = @ \cup n.edges,
                                 !.met = @ \cup Live(n, Ids)] IN
         v \in Joins /\ JoinOk(n, r, v)
  <1>1. CASE j.done
    <2>1. NoJoin \in Joins
      BY DEF NoJoin, Joins
    <2>2. JoinOk(n, r, NoJoin)
      BY <1>1 DEF JoinOk, NoJoin
    <2>. QED
      BY <1>1, <2>1, <2>2
  <1>2. CASE ~j.done
    <2>1. PICK v : v = [j EXCEPT !.stood = @ \cap Standing(n), !.seen = @ \cup n.edges,
                                 !.met = @ \cup Live(n, Ids)]
      OBVIOUS
    <2>2. n.edges \subseteq Edges /\ Live(n, Ids) \subseteq Ids /\ Mentions(n.edges) \subseteq n.edges
      BY DEF Databases, Live, Mentions
    <2>3. /\ v.done = j.done /\ v.rows = j.rows /\ v.stood = j.stood \cap Standing(n)
          /\ v.seen = j.seen \cup n.edges /\ v.met = j.met \cup Live(n, Ids)
      BY <2>1 DEF Joins
    <2>4. v \in Joins
      BY <2>1, <2>2 DEF Joins
    <2>5. JoinOk(n, r, v)
      <3>1. \A x \in Memories, y \in Entities : {x, y} \in v.stood => {x, y} \in j.stood
        BY <2>3
      <3>2. UNION v.rows \subseteq v.met /\ v.rows \subseteq v.seen
        BY <2>3 DEF JoinOk
      <3>3. v.stood \subseteq Standing(n) /\ Mentions(n.edges) \subseteq v.seen /\ Live(n, Ids) \subseteq v.met
        BY <2>2, <2>3
      <3>4. r.lefts \subseteq v.met
        BY <1>2, <2>3 DEF JoinOk
      <3>5. r.at = "scan" =>
              \A x \in Memories, y \in Entities :
                {x, y} \in v.stood => {x, y} \in v.rows \/ x \in r.ids \/ x \in r.lefts
        BY <1>2, <2>3, <3>1 DEF JoinOk
      <3>6. r.at = "rights" =>
              /\ r.left \in v.met /\ \A y \in r.rights : {r.left, y} \in v.seen
              /\ \A x \in Memories, y \in Entities :
                   {x, y} \in v.stood =>
                     {x, y} \in v.rows \/ x \in r.lefts \/ (x = r.left /\ y \in r.rights)
        BY <1>2, <2>3, <3>1 DEF JoinOk
      <3>7. v.done <=> r.at \notin {"scan", "rights"}
        BY <2>3 DEF JoinOk
      <3>. QED
        BY <1>2, <2>3, <3>2, <3>3, <3>4, <3>5, <3>6, <3>7 DEF JoinOk
    <2>. QED
      BY <1>2, <2>1, <2>4, <2>5
  <1>. QED
    BY <1>1, <1>2

LEMMA NoHopsFacts == NoHops \in Hops /\ \A d, r : r.at # "hops" => HopsOk(d, r, NoHops)
  <1>1. <<>> \in Depths /\ DOMAIN <<>> = {}
    <2>1. <<>> = [x \in {} |-> 0]
      <3>1. [x \in {} |-> 0] = [i \in 1 .. 0 |-> 0]
        <4>1. 1 .. 0 = {}
          OBVIOUS
        <4>. QED
          BY <4>1
      <3>2. [i \in 1 .. 0 |-> 0] \in Seq(Nat) /\ Len([i \in 1 .. 0 |-> 0]) = 0
        OBVIOUS
      <3>3. [i \in 1 .. 0 |-> 0] = <<>>
        BY <3>2, EmptySeq
      <3>. QED
        BY <3>1, <3>3
    <2>2. [x \in {} |-> 0] \in [{} -> 0 .. MaxDepth]
      OBVIOUS
    <2>. QED
      BY <2>1, <2>2 DEF Depths
  <1>2. NoHops \in Hops
    BY <1>1 DEF NoHops, Hops
  <1>3. NoHops.done /\ NoHops.depth = <<>>
    BY DEF NoHops
  <1>4. Cardinality({}) = 0 /\ MaxNodes \in Nat
    BY FS_EmptySet, ServingAssumption
  <1>5. Explored(NoHops, {x \in DOMAIN NoHops.depth : NoHops.depth[x] < MaxDepth})
    BY <1>1, <1>3 DEF Explored
  <1>. QED
    BY <1>1, <1>2, <1>3, <1>4, <1>5 DEF HopsOk

LEMMA HopsChanges ==
  ASSUME NEW d \in Databases, NEW n \in Databases, NEW r, NEW h \in Hops, HopsOk(d, r, h)
  PROVE  LET v == IF h.done THEN NoHops
                  ELSE [h EXCEPT !.stood = @ \cap n.edges, !.seen = @ \cup Mentions(n.edges)] IN
         v \in Hops /\ HopsOk(n, r, v)
  <1>1. CASE h.done
    BY <1>1, NoHopsFacts DEF HopsOk
  <1>2. CASE ~h.done
    <2>1. PICK v : v = [h EXCEPT !.stood = @ \cap n.edges, !.seen = @ \cup Mentions(n.edges)]
      OBVIOUS
    <2>2. n.edges \subseteq Edges /\ Mentions(n.edges) \subseteq n.edges
      BY DEF Databases, Mentions
    <2>3. /\ v.done = h.done /\ v.depth = h.depth /\ v.stood = h.stood \cap n.edges
          /\ v.seen = h.seen \cup Mentions(n.edges)
      BY <2>1 DEF Hops
    <2>4. v \in Hops
      BY <2>1, <2>2 DEF Hops
    <2>5. v.stood \subseteq Mentions(n.edges) /\ Mentions(n.edges) \subseteq v.seen
      BY <1>2, <2>3 DEF HopsOk, Mentions
    <2>6. \A S : Explored(h, S) => Explored(v, S)
      BY <2>3 DEF Explored
    <2>7. \A x \in DOMAIN v.depth : v.depth[x] > 0 =>
            \E y \in DOMAIN v.depth : v.depth[y] = v.depth[x] - 1 /\ {y, x} \in v.seen
      BY <2>3 DEF HopsOk
    <2>8. Explored(v, {x \in DOMAIN v.depth : \/ v.depth[x] < r.depth
                                              \/ v.depth[x] = r.depth /\ x \notin r.frontier})
      BY <1>2, <2>3, <2>6 DEF HopsOk
    <2>9. HopsOk(n, r, v)
      BY <1>2, <2>3, <2>5, <2>7, <2>8 DEF HopsOk
    <2>. QED
      BY <1>2, <2>1, <2>4, <2>9
  <1>. QED
    BY <1>1, <1>2

\* A read that is not under way has nothing to lose by a step of another read.
LEMMA WalkRests ==
  ASSUME NEW d, NEW r, NEW q, NEW w, WalkOk(d, r, w), r.at # "rows", q.at \notin {"keys", "rows"}
  PROVE  WalkOk(d, q, w)
  BY DEF WalkOk

LEMMA JoinRests ==
  ASSUME NEW d, NEW r, NEW q, NEW j, JoinOk(d, r, j), r.at \notin {"scan", "rights"},
         q.at \notin {"scan", "rights"}
  PROVE  JoinOk(d, q, j)
  BY DEF JoinOk

LEMMA HopsRest ==
  ASSUME NEW d, NEW r, NEW q, NEW h, HopsOk(d, r, h), r.at # "hops", q.at # "hops"
  PROVE  HopsOk(d, q, h)
  BY DEF HopsOk

------------------------------------------------------------------------------
(* Steps of those who write                                                *)

LEMMA WriterLocalIs ==
  ASSUME NEW r \in WriterLocals
  PROVE  /\ r.at \in {"idle", "detach", "link", "batch"}
         /\ r.at = "detach" => r.id \in Entities
         /\ r.at = "link" => r.left \in Memories /\ r.right \in Entities
         /\ r.at = "batch" => r = [at |-> "batch", todo |-> r.todo] /\ r.todo \in Seq(Writes) /\ r.todo # <<>>
  BY DEF WriterLocals, Idle

LEMMA ReaderLocalIs ==
  ASSUME NEW r \in ReaderLocals
  PROVE  /\ r.at \in {"idle", "keys", "rows", "scan", "rights", "hops", "query"}
         /\ r.at = "keys" => r.ids \subseteq Memories /\ r.keys \subseteq RowKeys
         /\ r.at = "rows" => r.page \in Pages /\ r.last \in Cursors
         /\ r.at = "scan" => /\ r.ids \subseteq Memories /\ r.lefts \subseteq Memories
                             /\ r = [at |-> "scan", ids |-> r.ids, lefts |-> r.lefts]
         /\ r.at = "rights" =>
              /\ r.left \in Memories /\ r.lefts \subseteq Memories /\ r.rights \subseteq Entities
              /\ r = [at |-> "rights", left |-> r.left, lefts |-> r.lefts, rights |-> r.rights]
         /\ r.at = "hops" =>
              /\ r.frontier \subseteq Ids /\ r.next \subseteq Ids /\ r.depth \in 0 .. MaxDepth
              /\ r = [at |-> "hops", frontier |-> r.frontier, next |-> r.next, depth |-> r.depth]
         /\ r.at = "query" => /\ r.ids \subseteq Memories /\ r.rows \in Seq(MemoryRows)
                              /\ r = [at |-> "query", ids |-> r.ids, rows |-> r.rows]
  BY DEF ReaderLocals, Idle

\* The steps of one writer are those of its own request: what the reads under way remember
\* is kept by Change.
LEMMA WriterChanges ==
  ASSUME ServingInv, NEW c \in Conns \ {Reader}, NEW to \in WriterLocals, NEW n \in Databases,
         NEW k \in Ledgers, NEW cs, cs = [conn EXCEPT ![c] = to], LinksOk(n, k, cs),
         Change(n), conn' = cs, ledger' = k, UNCHANGED scenario
  PROVE  ServingInv'
  <1>1. PICK d \in Databases, w \in Walks, j \in Joins, h \in Hops, r \in ReaderLocals :
          d = db /\ w = walk /\ j = join /\ h = hops /\ r = conn[Reader]
    BY DEF ServingInv, Typed
  <1>2. db' = n /\ conn'[Reader] = r
    BY <1>1, ServingAssumption DEF Change, ServingInv, Typed
  <1>3. walk' \in Walks /\ WalkOk(n, r, walk')
    BY <1>1, WalkChanges DEF ServingInv, Change
  <1>4. join' \in Joins /\ JoinOk(n, r, join')
    BY <1>1, JoinChanges DEF ServingInv, Change
  <1>5. hops' \in Hops /\ HopsOk(n, r, hops')
    BY <1>1, HopsChanges DEF ServingInv, Change
  <1>6. conn' = [x \in Conns |-> conn'[x]] /\ DOMAIN conn' = Conns /\ \A x \in Conns \ {Reader} : conn'[x] \in WriterLocals
    BY DEF ServingInv, Typed
  <1>7. Typed'
    BY <1>2, <1>3, <1>4, <1>5, <1>6 DEF ServingInv, Typed
  <1>8. QueryOk(r)
    BY <1>1 DEF ServingInv
  <1>. QED
    BY <1>2, <1>3, <1>4, <1>5, <1>7, <1>8 DEF ServingInv

LEMMA WriterWaits ==
  ASSUME ServingInv, NEW c \in Conns \ {Reader}, NEW to \in WriterLocals,
         NEW k \in Ledgers, NEW cs, cs = [conn EXCEPT ![c] = to], LinksOk(db, k, cs),
         conn' = cs, ledger' = k, UNCHANGED <<scenario, db>>, NoRead
  PROVE  ServingInv'
  <1>1. conn'[Reader] = conn[Reader]
    BY ServingAssumption DEF ServingInv, Typed
  <1>2. conn' = [x \in Conns |-> conn'[x]] /\ DOMAIN conn' = Conns /\ \A x \in Conns \ {Reader} : conn'[x] \in WriterLocals
    BY DEF ServingInv, Typed
  <1>3. Typed'
    BY <1>1, <1>2 DEF ServingInv, Typed, NoRead
  <1>. QED
    BY <1>1, <1>3 DEF ServingInv, NoRead

\* A connection moves on, and neither begins nor ends a detach.
LEMMA LinksMove ==
  ASSUME NEW d, NEW l, NEW c \in Conns, NEW to, NEW cs, cs = [conn EXCEPT ![c] = to],
         DOMAIN conn = Conns, LinksOk(d, l, conn), conn[c].at # "detach", to.at # "detach",
         to.at = "link" => Has(d, to.right)
  PROVE  LinksOk(d, l, cs)
  <1>1. cs[c] = to /\ \A x \in Conns : x # c => cs[x] = conn[x]
    OBVIOUS
  <1>2. \A x \in Conns : cs[x].at = "detach" <=> (x # c /\ conn[x].at = "detach")
    BY <1>1
  <1>3. \A x \in Conns : cs[x].at = "detach" => cs[x].id = conn[x].id /\ conn[x].at = "detach"
    BY <1>1
  <1>4. \A x \in Conns : conn[x].at = "detach" => cs[x].id = conn[x].id /\ cs[x].at = "detach"
    BY <1>1
  <1>5. DetachedIn(cs) = DetachedIn(conn)
    BY <1>3, <1>4 DEF DetachedIn
  <1>6. Kept(l, cs)
    BY <1>3 DEF Kept, LinksOk
  <1>7. Checked(d, l, cs)
    BY <1>1 DEF Checked, LinksOk
  <1>. QED
    BY <1>5, <1>6, <1>7 DEF LinksOk

LEMMA WriterIs ==
  ASSUME ServingInv, NEW c \in Conns, Writer(c)
  PROVE  c \in Conns \ {Reader} /\ conn[c].at = "idle" /\ conn[c] \in WriterLocals /\ scenario.writes \subseteq Writes
  BY ServingAssumption DEF ServingInv, Typed, Writer, IsScenario

\* Batches are sequences of writes, and not empty.
LEMMA BatchIs ==
  ASSUME ServingInv, NEW ops \in scenario.pipelined \cup scenario.atomic
  PROVE  ops \in Seq(Writes) /\ ops # <<>>
  <1>1. ops \in Seq(TableWrites(Memories)) \cup Seq(TableWrites(Entities)) /\ ops # <<>>
    BY ServingAssumption DEF ServingInv, Typed, IsScenario
  <1>2. TableWrites(Memories) \subseteq Writes /\ TableWrites(Entities) \subseteq Writes
    BY DEF TableWrites
  <1>. HIDE DEF TableWrites
  <1>. QED
    BY <1>1, <1>2

LEMMA WriteStep ==
  ASSUME ServingInv, NEW c \in Conns, NEW w \in scenario.writes, Write(c, w)
  PROVE  ServingInv'
  <1>1. c \in Conns \ {Reader} /\ conn[c] \in WriterLocals /\ w \in Writes
    BY WriterIs DEF Write, Starts
  <1>2. PICK d \in Databases, l \in Ledgers : d = db /\ l = ledger
    BY DEF ServingInv, Typed
  <1>3. PICK n \in Databases : n = After(d, w)
    BY <1>1, WriteTyped
  <1>4. PICK k \in Ledgers : k = Noted(l, d, w, FALSE) /\ k.leftover = l.leftover
    BY <1>1, WriteTyped
  <1>5. LinksOk(d, l, conn)
    BY <1>2 DEF ServingInv
  <1>6. LinksOk(n, k, conn)
    <2>1. CASE w.kind = "delete" /\ w.id \in Entities
      <3>1. ~Has(d, w.id)
        BY <1>2, <2>1, Kinds DEF Write
      <3>2. Result(d, w) = "NotFound"
        BY <2>1, <3>1 DEF Result
      <3>3. n = d /\ k = l
        BY <1>3, <1>4, <3>2 DEF After, Noted
      <3>. QED
        BY <1>5, <3>3
    <2>2. CASE ~(w.kind = "delete" /\ w.id \in Entities)
      <3>1. NotDetached({w}) = {}
        BY <2>2 DEF NotDetached
      <3>2. (w.kind = "link" /\ w.left \in Memories) => Has(d, w.right)
        BY Kinds DEF Write
      <3>3. LinksOutcome(d, w, n, k, l.leftover \cup DetachedIn(conn))
        BY <1>1, <1>3, <1>4, <1>5, <3>2, WriteLinks DEF LinksOk
      <3>4. Resolves(n, k, k.leftover \cup DetachedIn(conn))
        BY <1>4, <3>1, <3>3 DEF LinksOutcome, Resolves
      <3>. QED
        BY <3>3, <3>4 DEF LinksOutcome, LinksOk
    <2>. QED
      BY <2>1, <2>2
  <1>7. conn = [conn EXCEPT ![c] = conn[c]]
    BY DEF ServingInv, Typed
  <1>8. Change(n) /\ conn' = conn /\ ledger' = k /\ UNCHANGED scenario
    BY <1>2, <1>3, <1>4 DEF Write
  <1>9. PICK to \in WriterLocals : to = conn[c]
    BY <1>1
  <1>10. PICK cs : cs = conn
    OBVIOUS
  <1>. QED
    BY <1>1, <1>6, <1>7, <1>8, <1>9, <1>10, WriterChanges

LEMMA DeleteEntityStep ==
  ASSUME ServingInv, NEW c \in Conns, NEW w \in scenario.writes, DeleteEntity(c, w)
  PROVE  ServingInv'
  <1>1. c \in Conns \ {Reader} /\ conn[c].at = "idle" /\ w \in Writes /\ DOMAIN conn = Conns
    BY WriterIs DEF DeleteEntity, Starts, ServingInv, Typed
  <1>2. PICK d \in Databases, l \in Ledgers : d = db /\ l = ledger
    BY DEF ServingInv, Typed
  <1>3. PICK n \in Databases : n = After(d, w)
    BY <1>1, WriteTyped
  <1>4. PICK k \in Ledgers : k = Noted(l, d, w, FALSE) /\ k.leftover = l.leftover
    BY <1>1, WriteTyped
  <1>5. LinksOk(d, l, conn)
    BY <1>2 DEF ServingInv
  <1>6. PICK x \in Entities : x = w.id /\ w.kind = "delete" /\ Has(d, x)
    BY <1>2 DEF DeleteEntity
  <1>7. PICK to \in WriterLocals : to = [at |-> "detach", id |-> x]
    BY DEF WriterLocals
  <1>8. PICK cs : cs = [conn EXCEPT ![c] = to]
    OBVIOUS
  <1>9. LinksOutcome(d, w, n, k, l.leftover \cup DetachedIn(conn))
    BY <1>1, <1>3, <1>4, <1>5, <1>6, WriteLinks DEF LinksOk
  <1>10. LinksOk(n, k, cs)
    <2>1. to.at = "detach" /\ to.id = x
      BY <1>7
    <2>2. cs[c] = to /\ \A y \in Conns : y # c => cs[y] = conn[y]
      BY <1>1, <1>8
    <2>3. DetachedIn(conn) \cup {x} \subseteq DetachedIn(cs)
      <3>1. x \in DetachedIn(cs)
        BY <2>1, <2>2 DEF DetachedIn
      <3>2. \A y \in Conns : conn[y].at = "detach" => cs[y] = conn[y]
        BY <1>1, <2>2
      <3>3. DetachedIn(conn) \subseteq DetachedIn(cs)
        BY <3>2 DEF DetachedIn
      <3>. QED
        BY <3>1, <3>3
    <2>4. NotDetached({w}) \subseteq {x}
      BY <1>6 DEF NotDetached
    <2>5. Resolves(n, k, k.leftover \cup DetachedIn(cs))
      BY <1>4, <1>9, <2>3, <2>4 DEF LinksOutcome, Resolves
    <2>6. Kept(k, cs)
      <3>1. \A g \in k.acked : x \notin g
        BY <1>6, <1>9 DEF LinksOutcome
      <3>. QED
        BY <1>9, <2>1, <2>2, <3>1 DEF LinksOutcome, Kept
    <2>7. Checked(n, k, cs)
      BY <1>9, <2>1, <2>2 DEF LinksOutcome, Checked
    <2>. QED
      BY <1>9, <2>5, <2>6, <2>7 DEF LinksOutcome, LinksOk
  <1>11. Change(n) /\ conn' = cs /\ ledger' = k /\ UNCHANGED scenario
    BY <1>2, <1>3, <1>4, <1>6, <1>7, <1>8 DEF DeleteEntity, Move
  <1>. QED
    BY <1>1, <1>8, <1>10, <1>11, WriterChanges

LEMMA WritingIs ==
  ASSUME ServingInv, NEW c \in Conns, conn[c].at \in {"detach", "link", "batch"}
  PROVE  c \in Conns \ {Reader} /\ conn[c] \in WriterLocals /\ DOMAIN conn = Conns /\ Idle \in WriterLocals
         /\ Idle.at = "idle"
  <1>1. c # Reader
    BY ReaderLocalIs DEF ServingInv, Typed
  <1>. QED
    BY <1>1 DEF ServingInv, Typed, WriterLocals, Idle

LEMMA DetachStep ==
  ASSUME ServingInv, NEW c \in Conns, Detach(c)
  PROVE  ServingInv'
  <1>1. c \in Conns \ {Reader} /\ conn[c].at = "detach" /\ DOMAIN conn = Conns /\ conn[c].id \in Entities
        /\ Idle \in WriterLocals /\ Idle.at = "idle"
    BY WritingIs, WriterLocalIs DEF Detach
  <1>2. PICK d \in Databases, l \in Ledgers, x \in Entities : d = db /\ l = ledger /\ x = conn[c].id
    BY <1>1 DEF ServingInv, Typed
  <1>3. LinksOk(d, l, conn)
    BY <1>2 DEF ServingInv
  <1>4. PICK n : n = [d EXCEPT !.edges = @ \ FarEdges(d, x)]
    OBVIOUS
  <1>5. PICK k : k = [l EXCEPT !.unchecked = {g \in @ : x \notin g}, !.leftover = @ \ {x}]
    OBVIOUS
  <1>6. n \in Databases /\ n.records = d.records /\ n.edges = d.edges \ FarEdges(d, x)
    BY <1>4 DEF Databases
  <1>7. /\ k \in Ledgers /\ k.acked = l.acked /\ k.stale = l.stale
        /\ k.unchecked = {g \in l.unchecked : x \notin g} /\ k.leftover = l.leftover \ {x}
    BY <1>5 DEF Ledgers
  <1>8. PICK cs : cs = [conn EXCEPT ![c] = Idle]
    OBVIOUS
  <1>9. cs[c] = Idle /\ \A y \in Conns : y # c => cs[y] = conn[y]
    BY <1>1, <1>8
  <1>10. LinksOk(n, k, cs)
    <2>1. \A g \in l.acked : g \cap Memories # {} => x \notin g
      BY <1>1, <1>2, <1>3 DEF LinksOk, Kept
    <2>2. \A g \in FarEdges(d, x) : g \in d.edges /\ g \cap Memories # {} /\ x \in g
      BY DEF FarEdges, Mentions
    <2>3. k.acked \subseteq n.edges
      BY <1>3, <1>6, <1>7, <2>1, <2>2 DEF LinksOk
    <2>4. \A y : Has(n, y) <=> Has(d, y)
      BY <1>6 DEF Has
    <2>5. DetachedIn(conn) \subseteq DetachedIn(cs) \cup {x}
      BY <1>2, <1>9 DEF DetachedIn
    <2>6. Resolves(n, k, k.leftover \cup DetachedIn(cs))
      <3>. SUFFICES ASSUME NEW g \in n.edges, NEW y \in g, ~Has(d, y)
                    PROVE  g \cap Memories # {} /\ y \in Entities /\ (y \in k.leftover \cup DetachedIn(cs) \/ g \in k.unchecked)
        BY <2>4 DEF Resolves
      <3>1. g \cap Memories # {} /\ y \in Entities /\ (y \in l.leftover \cup DetachedIn(conn) \/ g \in l.unchecked)
        BY <1>3, <1>6 DEF LinksOk, Resolves
      <3>2. x \notin g
        BY <1>6, <3>1 DEF FarEdges, Mentions
      <3>. QED
        BY <1>7, <2>5, <3>1, <3>2
    <2>7. Kept(k, cs)
      BY <1>1, <1>3, <1>7, <1>9 DEF LinksOk, Kept
    <2>8. Checked(n, k, cs)
      BY <1>1, <1>3, <1>7, <1>9, <2>4 DEF LinksOk, Checked
    <2>. QED
      BY <2>3, <2>6, <2>7, <2>8 DEF LinksOk
  <1>11. Change(n) /\ conn' = cs /\ ledger' = k /\ UNCHANGED scenario
    BY <1>2, <1>4, <1>5, <1>8 DEF Detach, Move
  <1>. QED
    BY <1>1, <1>6, <1>7, <1>8, <1>10, <1>11, WriterChanges

LEMMA DetachFailsStep ==
  ASSUME ServingInv, NEW c \in Conns, DetachFails(c)
  PROVE  ServingInv'
  <1>1. c \in Conns \ {Reader} /\ conn[c].at = "detach" /\ DOMAIN conn = Conns /\ conn[c].id \in Entities
        /\ Idle \in WriterLocals /\ Idle.at = "idle"
    BY WritingIs, WriterLocalIs DEF DetachFails
  <1>2. PICK l \in Ledgers, x \in Entities : l = ledger /\ x = conn[c].id
    BY <1>1 DEF ServingInv, Typed
  <1>3. LinksOk(db, l, conn)
    BY <1>2 DEF ServingInv
  <1>4. PICK k : k = [l EXCEPT !.leftover = @ \cup {x}]
    OBVIOUS
  <1>5. /\ k \in Ledgers /\ k.acked = l.acked /\ k.stale = l.stale /\ k.unchecked = l.unchecked
        /\ k.leftover = l.leftover \cup {x}
    BY <1>4 DEF Ledgers
  <1>6. PICK cs : cs = [conn EXCEPT ![c] = Idle]
    OBVIOUS
  <1>7. cs[c] = Idle /\ \A y \in Conns : y # c => cs[y] = conn[y]
    BY <1>1, <1>6
  <1>8. LinksOk(db, k, cs)
    <2>1. DetachedIn(conn) \subseteq DetachedIn(cs) \cup {x}
      BY <1>2, <1>7 DEF DetachedIn
    <2>2. Resolves(db, k, k.leftover \cup DetachedIn(cs))
      BY <1>3, <1>5, <2>1 DEF LinksOk, Resolves
    <2>3. Kept(k, cs)
      BY <1>1, <1>3, <1>5, <1>7 DEF LinksOk, Kept
    <2>4. Checked(db, k, cs)
      BY <1>1, <1>3, <1>5, <1>7 DEF LinksOk, Checked
    <2>. QED
      BY <1>3, <1>5, <2>2, <2>3, <2>4 DEF LinksOk
  <1>9. conn' = cs /\ ledger' = k /\ UNCHANGED <<scenario, db>> /\ NoRead
    BY <1>2, <1>4, <1>6 DEF DetachFails, Move
  <1>. QED
    BY <1>1, <1>5, <1>6, <1>8, <1>9, WriterWaits

LEMMA CheckRightStep ==
  ASSUME ServingInv, NEW c \in Conns, NEW w \in scenario.writes, CheckRight(c, w)
  PROVE  ServingInv'
  <1>1. c \in Conns \ {Reader} /\ conn[c].at = "idle" /\ w \in Writes /\ DOMAIN conn = Conns
    BY WriterIs DEF CheckRight, Starts, ServingInv, Typed
  <1>2. w.kind = "link" /\ w.left \in Memories /\ w.right \in Entities /\ Has(db, w.right)
    BY <1>1, WriteIs DEF CheckRight
  <1>3. PICK to \in WriterLocals : to = [at |-> "link", left |-> w.left, right |-> w.right]
    BY <1>2 DEF WriterLocals
  <1>4. PICK cs : cs = [conn EXCEPT ![c] = to]
    OBVIOUS
  <1>5. PICK k \in Ledgers : k = ledger
    BY DEF ServingInv, Typed
  <1>6. LinksOk(db, k, conn)
    BY <1>5 DEF ServingInv
  <1>7. LinksOk(db, k, cs)
    <2>1. to.at # "detach" /\ (to.at = "link" => Has(db, to.right))
      BY <1>2, <1>3
    <2>. QED
      BY <1>1, <1>4, <1>6, <2>1, LinksMove
  <1>8. conn' = cs /\ ledger' = k /\ UNCHANGED <<scenario, db>> /\ NoRead
    BY <1>3, <1>4, <1>5 DEF CheckRight, Move, NoWrite
  <1>. QED
    BY <1>1, <1>4, <1>7, <1>8, WriterWaits

LEMMA LinkStep ==
  ASSUME ServingInv, NEW c \in Conns, Link(c)
  PROVE  ServingInv'
  <1>1. c \in Conns \ {Reader} /\ conn[c].at = "link" /\ DOMAIN conn = Conns /\ Idle \in WriterLocals
        /\ Idle.at = "idle" /\ conn[c].left \in Memories /\ conn[c].right \in Entities
    BY WritingIs, WriterLocalIs DEF Link
  <1>2. PICK d \in Databases, l \in Ledgers : d = db /\ l = ledger
    BY DEF ServingInv, Typed
  <1>3. PICK w : w = [kind |-> "link", left |-> conn[c].left, right |-> conn[c].right]
    OBVIOUS
  <1>4. w \in Writes /\ w.kind = "link" /\ w.right = conn[c].right
    <2>1. w.left \in Ids
      BY <1>1, <1>3, Kinds
    <2>. QED
      BY <1>1, <1>3, <2>1 DEF Writes
  <1>5. PICK loose \in BOOLEAN : loose = (c \in l.stale)
    <2>1. CASE c \in l.stale
      <3>1. TRUE = (c \in l.stale)
        BY <2>1
      <3>. QED
        BY <3>1
    <2>2. CASE c \notin l.stale
      <3>1. FALSE = (c \in l.stale)
        BY <2>2
      <3>. QED
        BY <3>1
    <2>. QED
      BY <2>1, <2>2
  <1>6. PICK n \in Databases : n = After(d, w)
    BY <1>4, WriteTyped
  <1>7. PICK m \in Ledgers : m = Noted(l, d, w, loose) /\ m.leftover = l.leftover
    BY <1>4, WriteTyped
  <1>8. LinksOk(d, l, conn)
    BY <1>2 DEF ServingInv
  <1>9. loose \/ Has(d, w.right)
    BY <1>1, <1>4, <1>5, <1>8 DEF LinksOk, Checked
  <1>10. LinksOutcome(d, w, n, m, l.leftover \cup DetachedIn(conn))
    BY <1>4, <1>6, <1>7, <1>8, <1>9, WriteLinks DEF LinksOk
  <1>11. PICK k : k = [m EXCEPT !.stale = @ \ {c}]
    OBVIOUS
  <1>12. /\ k \in Ledgers /\ k.acked = m.acked /\ k.unchecked = m.unchecked /\ k.leftover = m.leftover
         /\ k.stale = m.stale \ {c}
    BY <1>11 DEF Ledgers
  <1>13. PICK cs : cs = [conn EXCEPT ![c] = Idle]
    OBVIOUS
  <1>14. cs[c] = Idle /\ \A y \in Conns : y # c => cs[y] = conn[y]
    BY <1>1, <1>13
  <1>15. LinksOk(n, k, cs)
    <2>1. NotDetached({w}) = {}
      BY <1>4 DEF NotDetached
    <2>2. DetachedIn(conn) = DetachedIn(cs)
      <3>1. \A y \in Conns : conn[y].at = "detach" => cs[y] = conn[y]
        BY <1>1, <1>14
      <3>2. \A y \in Conns : cs[y].at = "detach" => cs[y] = conn[y]
        BY <1>1, <1>14
      <3>. QED
        BY <3>1, <3>2 DEF DetachedIn
    <2>3. Resolves(n, k, k.leftover \cup DetachedIn(cs))
      BY <1>7, <1>10, <1>12, <2>1, <2>2 DEF LinksOutcome, Resolves
    <2>4. Kept(k, cs)
      BY <1>1, <1>10, <1>12, <1>14 DEF LinksOutcome, Kept
    <2>5. Checked(n, k, cs)
      BY <1>1, <1>10, <1>12, <1>14 DEF LinksOutcome, Checked
    <2>. QED
      BY <1>10, <1>12, <2>3, <2>4, <2>5 DEF LinksOutcome, LinksOk
  <1>16. Change(n) /\ conn' = cs /\ ledger' = k /\ UNCHANGED scenario
    BY <1>2, <1>3, <1>5, <1>6, <1>7, <1>11, <1>13 DEF Link, Move
  <1>. QED
    BY <1>1, <1>12, <1>13, <1>15, <1>16, WriterChanges

LEMMA BeginBatchStep ==
  ASSUME ServingInv, NEW c \in Conns, NEW ops \in scenario.pipelined, BeginBatch(c, ops)
  PROVE  ServingInv'
  <1>1. c \in Conns \ {Reader} /\ conn[c].at = "idle" /\ DOMAIN conn = Conns
    BY WriterIs DEF BeginBatch, ServingInv, Typed
  <1>2. PICK to \in WriterLocals : to = [at |-> "batch", todo |-> ops]
    BY BatchIs DEF WriterLocals
  <1>3. PICK cs : cs = [conn EXCEPT ![c] = to]
    OBVIOUS
  <1>4. PICK k \in Ledgers : k = ledger
    BY DEF ServingInv, Typed
  <1>5. LinksOk(db, k, conn)
    BY <1>4 DEF ServingInv
  <1>6. LinksOk(db, k, cs)
    <2>1. to.at # "detach" /\ to.at # "link"
      BY <1>2
    <2>. QED
      BY <1>1, <1>3, <1>5, <2>1, LinksMove
  <1>7. conn' = cs /\ ledger' = k /\ UNCHANGED <<scenario, db>> /\ NoRead
    BY <1>2, <1>3, <1>4 DEF BeginBatch, Move, NoWrite
  <1>. QED
    BY <1>1, <1>3, <1>6, <1>7, WriterWaits

LEMMA BatchWriteStep ==
  ASSUME ServingInv, NEW c \in Conns, BatchWrite(c)
  PROVE  ServingInv'
  <1>1. c \in Conns \ {Reader} /\ conn[c].at = "batch" /\ DOMAIN conn = Conns /\ Idle \in WriterLocals
        /\ Idle.at = "idle"
    BY WritingIs DEF BatchWrite
  <1>2. PICK todo \in Seq(Writes) : todo = conn[c].todo /\ todo # <<>> /\ conn[c] = [at |-> "batch", todo |-> todo]
    BY <1>1, WriterLocalIs DEF ServingInv, Typed
  <1>3. PICK w \in Writes : w = Head(todo)
    BY <1>2
  <1>4. PICK d \in Databases, l \in Ledgers : d = db /\ l = ledger
    BY DEF ServingInv, Typed
  <1>5. LinksOk(d, l, conn)
    BY <1>4 DEF ServingInv
  <1>6. PICK n \in Databases : n = After(d, w)
    BY WriteTyped
  <1>7. PICK k \in Ledgers : k = [Noted(l, d, w, TRUE) EXCEPT !.leftover = @ \cup NotDetached({w})] /\ LinksOk(n, k, conn)
    BY <1>5, <1>6, BatchLinks
  <1>8. PICK to : to = IF Len(todo) = 1 THEN Idle ELSE [conn[c] EXCEPT !.todo = Tail(@)]
    OBVIOUS
  <1>9. to \in WriterLocals /\ to.at \in {"idle", "batch"}
    <2>1. CASE Len(todo) = 1
      BY <1>1, <1>8, <2>1
    <2>2. CASE Len(todo) # 1
      <3>1. Tail(todo) \in Seq(Writes) /\ Tail(todo) # <<>>
        <4>1. Len(todo) \in Nat /\ Len(todo) # 0
          BY <1>2, EmptySeq
        <4>2. Tail(todo) \in Seq(Writes) /\ Len(Tail(todo)) = Len(todo) - 1
          BY <4>1
        <4>. QED
          BY <2>2, <4>1, <4>2
      <3>2. to = [at |-> "batch", todo |-> Tail(todo)]
        <4>1. to = [conn[c] EXCEPT !.todo = Tail(@)]
          BY <1>8, <2>2
        <4>2. PICK r \in [at : {"batch"}, todo : Seq(Writes)] : r = conn[c]
          BY <1>2
        <4>3. to = [r EXCEPT !.todo = Tail(todo)]
          BY <1>2, <4>1, <4>2
        <4>. QED
          BY <3>1, <4>3
      <3>. QED
        BY <3>1, <3>2 DEF WriterLocals
    <2>. QED
      BY <2>1, <2>2
  <1>10. PICK cs : cs = [conn EXCEPT ![c] = to]
    OBVIOUS
  <1>11. LinksOk(n, k, cs)
    BY <1>1, <1>7, <1>9, <1>10, LinksMove
  <1>12. Change(n) /\ conn' = cs /\ ledger' = k /\ UNCHANGED scenario
    BY <1>2, <1>3, <1>4, <1>6, <1>7, <1>8, <1>10 DEF BatchWrite, Move
  <1>. QED
    BY <1>1, <1>9, <1>10, <1>11, <1>12, WriterChanges

LEMMA AtomicBatchStep ==
  ASSUME ServingInv, NEW c \in Conns, NEW ops \in scenario.atomic, AtomicBatch(c, ops)
  PROVE  ServingInv'
  <1>1. c \in Conns \ {Reader} /\ conn[c] \in WriterLocals
    BY WriterIs DEF AtomicBatch
  <1>2. ops \in Seq(Writes)
    BY BatchIs
  <1>3. db \in Databases /\ ledger \in Ledgers /\ LinksOk(db, ledger, conn)
    BY DEF ServingInv, Typed
  <1>4. PICK n \in Databases, k \in Ledgers : n = Applied(ops).db /\ k = Applied(ops).ledger /\ LinksOk(n, k, conn)
    BY <1>2, <1>3, AppliedFacts
  <1>5. PICK to \in WriterLocals : to = conn[c]
    BY <1>1
  <1>8. PICK cs : cs = conn
    OBVIOUS
  <1>6. cs = [conn EXCEPT ![c] = to]
    BY <1>5, <1>8 DEF ServingInv, Typed
  <1>7. Change(n) /\ conn' = cs /\ ledger' = k /\ UNCHANGED scenario
    BY <1>4, <1>8 DEF AtomicBatch
  <1>. QED
    BY <1>1, <1>4, <1>6, <1>7, <1>8, WriterChanges

------------------------------------------------------------------------------
(* Steps of Reader                                                         *)

LEMMA ReadingIs ==
  ASSUME ServingInv, NEW c \in Conns, conn[c].at \in {"keys", "rows", "scan", "rights", "hops", "query"}
  PROVE  c = Reader
  BY WriterLocalIs DEF ServingInv, Typed

LEMMA ReaderMoves ==
  ASSUME ServingInv, NEW to \in ReaderLocals, NEW w \in Walks, NEW j \in Joins, NEW h \in Hops,
         conn' = [conn EXCEPT ![Reader] = to], NoWrite, UNCHANGED scenario,
         walk' = w, join' = j, hops' = h,
         WalkOk(db, to, w), JoinOk(db, to, j), HopsOk(db, to, h), QueryOk(to)
  PROVE  ServingInv'
  <1>1. Reader \in Conns /\ DOMAIN conn = Conns /\ conn[Reader] \in ReaderLocals
    BY ServingAssumption DEF ServingInv, Typed
  <1>2. conn[Reader].at # "detach" /\ to.at # "detach" /\ to.at # "link"
    BY <1>1, ReaderLocalIs
  <1>3. PICK cs : cs = [conn EXCEPT ![Reader] = to]
    OBVIOUS
  <1>4. LinksOk(db, ledger, cs)
    BY <1>1, <1>2, <1>3, LinksMove DEF ServingInv
  <1>5. conn' = cs /\ db' = db /\ ledger' = ledger /\ cs[Reader] = to
    BY <1>1, <1>3 DEF NoWrite
  <1>6. conn' = [x \in Conns |-> conn'[x]] /\ DOMAIN conn' = Conns /\ \A x \in Conns \ {Reader} : conn'[x] \in WriterLocals
    BY <1>3, <1>5 DEF ServingInv, Typed
  <1>7. Typed'
    BY <1>5, <1>6 DEF ServingInv, Typed
  <1>. QED
    BY <1>4, <1>5, <1>7 DEF ServingInv

------------------------------------------------------------------------------
(* Pages                                                                   *)

LEMMA KeyIs ==
  ASSUME NEW d \in Databases, NEW x \in Memories, Has(d, x)
  PROVE  Key(d, x) \in RowKeys /\ Key(d, x)[2] = x /\ Before(NoKey, Key(d, x)) /\ Key(d, x) # NoKey
  <1>1. d.records[x] \in Stamps /\ d.records[x] \in Nat /\ d.records[x] > 0
    <2>1. d.records[x] \in Stamps
      BY Kinds, HasIs
    <2>2. Stamps \subseteq Nat \ {0}
      BY ServingAssumption
    <2>3. d.records[x] \in Nat \ {0}
      BY <2>1, <2>2
    <2>. QED
      BY <2>1, <2>3
  <1>. QED
    BY <1>1 DEF Key, RowKeys, Before, NoKey

LEMMA KeysAreNumbers == RowKeys \subseteq Nat \X Nat /\ Cursors \subseteq Nat \X Nat /\ NoKey \notin RowKeys
  <1>1. Memories \subseteq Nat /\ Stamps \subseteq Nat /\ 0 \notin Stamps
    BY Kinds, ServingAssumption
  <1>2. RowKeys \subseteq Nat \X Nat
    BY <1>1 DEF RowKeys
  <1>3. NoKey \in Nat \X Nat /\ NoKey \notin RowKeys
    BY <1>1 DEF NoKey, RowKeys
  <1>. QED
    BY <1>2, <1>3 DEF Cursors

LEMMA BeginWalkOk ==
  ASSUME NEW d \in Databases, NEW r, r.at = "idle"
  PROVE  LET w == [done |-> FALSE, cursor |-> NoKey, untouched |-> Live(d, Memories),
                   returned |-> {}, again |-> {}, shifted |-> FALSE] IN
         w \in Walks /\ WalkOk(d, r, w)
  <1>1. PICK w : w = [done |-> FALSE, cursor |-> NoKey, untouched |-> Live(d, Memories),
                      returned |-> {}, again |-> {}, shifted |-> FALSE]
    OBVIOUS
  <1>2. Live(d, Memories) \subseteq Memories /\ \A x \in Live(d, Memories) : Has(d, x)
    BY DEF Live
  <1>3. w \in Walks
    BY <1>1, <1>2 DEF Walks, Cursors
  <1>4. \A x \in w.untouched : Has(d, x) /\ x \in Memories /\ Before(w.cursor, Key(d, x))
    BY <1>1, <1>2, KeyIs
  <1>5. WalkOk(d, r, w)
    BY <1>1, <1>4 DEF WalkOk
  <1>. QED
    BY <1>1, <1>3, <1>5

\* What a choice of ids makes of a walk: it ends, or the page's rows are to be read.
LEMMA ChosenEnds ==
  ASSUME NEW d \in Databases, NEW r, NEW w \in Walks, WalkOk(d, r, w), r.at # "rows",
         NEW keys \in SUBSET RowKeys, ~w.shifted => \A x \in w.untouched : Key(d, x) \in keys,
         FirstPage(keys, w.cursor) = <<>>
  PROVE  [w EXCEPT !.done = TRUE] \in Walks /\ WalkOk(d, Idle, [w EXCEPT !.done = TRUE])
  <1>1. PICK v : v = [w EXCEPT !.done = TRUE]
    OBVIOUS
  <1>2. /\ v \in Walks /\ v.done /\ v.cursor = w.cursor /\ v.returned = w.returned
        /\ v.again = w.again /\ v.shifted = w.shifted /\ v.untouched = w.untouched
    BY <1>1 DEF Walks
  <1>3. \A k \in keys : ~Before(w.cursor, k)
    <2>1. w.cursor \in Cursors
      BY DEF Walks
    <2>. QED
      BY <2>1, FirstPageFacts DEF IsPage
  <1>4. Idle.at = "idle"
    BY DEF Idle
  <1>5. ~w.shifted => w.untouched \subseteq w.returned
    BY <1>3 DEF WalkOk
  <1>6. WalkOk(d, Idle, v)
    BY <1>2, <1>4, <1>5 DEF WalkOk
  <1>. QED
    BY <1>1, <1>2, <1>6

LEMMA ChosenGoesOn ==
  ASSUME NEW d \in Databases, NEW r, NEW w \in Walks, WalkOk(d, r, w), r.at # "rows", ~w.done,
         NEW keys \in SUBSET RowKeys, ~w.shifted => \A x \in w.untouched : Key(d, x) \in keys,
         FirstPage(keys, w.cursor) # <<>>
  PROVE  LET to == [at |-> "rows", page |-> FirstPage(keys, w.cursor), last |-> NoKey] IN
         to \in ReaderLocals /\ WalkOk(d, to, w)
  <1>1. PICK page : page = FirstPage(keys, w.cursor)
    OBVIOUS
  <1>2. w.cursor \in Cursors
    BY DEF Walks
  <1>3. /\ page \in Seq(RowKeys) /\ Len(page) \in Nat /\ Len(page) <= PageLimit
        /\ \A i, j \in DOMAIN page : i < j => Before(page[i], page[j])
        /\ \A i \in DOMAIN page : Before(w.cursor, page[i])
        /\ \A k \in keys : (Before(w.cursor, k) /\ ~Before(page[Len(page)], k)) =>
                             \E i \in DOMAIN page : page[i] = k
    <2>1. PICK cursor \in Cursors : cursor = w.cursor
      BY <1>2
    <2>2. page = FirstPage(keys, cursor) /\ page # <<>>
      BY <1>1, <2>1
    <2>3. IsPage(page, keys, cursor)
      BY <2>2, FirstPageFacts
    <2>. QED
      BY <2>1, <2>2, <2>3 DEF IsPage
  <1>4. page \in Pages
    <2>1. Len(page) # 0
      BY <1>1, <1>3, EmptySeq
    <2>2. PageLimit \in Nat
      BY ServingAssumption
    <2>. QED
      BY <1>3, <2>1, <2>2 DEF Pages
  <1>5. PICK to : to = [at |-> "rows", page |-> page, last |-> NoKey]
    OBVIOUS
  <1>6. to \in ReaderLocals /\ to.at = "rows" /\ to.page = page /\ to.last = NoKey
    BY <1>4, <1>5 DEF ReaderLocals, Cursors
  <1>7. From(to, w) = w.cursor
    BY <1>6 DEF From
  <1>8. ~w.shifted => PageOk(d, to, w)
    BY <1>3, <1>6, <1>7 DEF PageOk, WalkOk
  <1>9. WalkOk(d, to, w)
    BY <1>6, <1>8 DEF WalkOk
  <1>. QED
    BY <1>1, <1>5, <1>6, <1>9

\* A row that comes as it was chosen: what the walk has returned is what is up to its key.
LEMMA GotExactly ==
  ASSUME NEW d \in Databases, NEW r, NEW w \in Walks, WalkOk(d, r, w), r.at = "rows", r.page \in Pages,
         r.last \in Cursors, ~w.shifted, NEW x, x = r.page[1][2], Key(d, x) = r.page[1]
  PROVE  /\ Has(d, x) /\ x \in Memories
         /\ \A y \in w.untouched : y \in w.returned \cup {x} <=> ~Before(Key(d, x), Key(d, y))
         /\ w.untouched \cap (w.again \cup (w.returned \cap {x})) = {}
         /\ \A y \in w.untouched :
              (Before(Key(d, x), Key(d, y)) /\ ~Before(r.page[Len(r.page)], Key(d, y))) =>
                \E i \in DOMAIN r.page : i > 1 /\ r.page[i] = Key(d, y)
  <1>1. PICK page, k, from : page = r.page /\ k = page[1] /\ from = From(r, w)
    OBVIOUS
  <1>2. page \in Seq(RowKeys) /\ Len(page) \in Nat /\ Len(page) >= 1 /\ DOMAIN page = 1 .. Len(page)
    <2>1. page \in Seq(RowKeys) /\ Len(page) \in 1 .. PageLimit
      BY <1>1 DEF Pages
    <2>. QED
      BY <2>1
  <1>3. 1 \in DOMAIN page /\ Len(page) \in DOMAIN page /\ k \in RowKeys /\ page[Len(page)] \in RowKeys
    BY <1>1, <1>2
  <1>4. x \in Memories /\ k[1] \in Stamps /\ d.records[x] = k[1]
    BY <1>1, <1>3 DEF RowKeys, Key
  <1>5. Has(d, x)
    BY <1>4, Stamped DEF Has
  <1>6. Key(d, x) = k
    BY <1>1
  <1>7. PageOk(d, r, w) /\ w.untouched \cap w.again = {} /\ \A y \in w.untouched : Has(d, y)
    BY DEF WalkOk
  <1>8. /\ \A i, j \in DOMAIN page : i < j => Before(page[i], page[j])
        /\ Before(from, k)
        /\ \A y \in w.untouched : y \in w.returned <=> ~Before(from, Key(d, y))
        /\ \A y \in w.untouched :
             (Before(from, Key(d, y)) /\ ~Before(page[Len(page)], Key(d, y))) =>
               \E i \in DOMAIN page : page[i] = Key(d, y)
    BY <1>1, <1>3, <1>7 DEF PageOk
  <1>9. from \in Nat \X Nat /\ k \in Nat \X Nat /\ page[Len(page)] \in Nat \X Nat
    <2>1. from \in Cursors
      BY <1>1 DEF From, Walks
    <2>. QED
      BY <1>3, <2>1, KeysAreNumbers
  <1>10. \A y \in w.untouched : y \in Memories /\ Key(d, y) \in Nat \X Nat /\ (Key(d, y) = k => y = x)
    <2>1. \A y \in w.untouched : y \in Memories
      BY DEF Walks
    <2>2. \A y \in w.untouched : Key(d, y) \in RowKeys /\ Key(d, y)[2] = y
      BY <1>7, <2>1, KeyIs
    <2>3. k[2] = x
      BY <1>1
    <2>. QED
      BY <2>1, <2>2, <2>3, KeysAreNumbers
  <1>11. \A i \in DOMAIN page : i # 1 => Before(k, page[i]) /\ page[i] \in Nat \X Nat
    <2>1. \A i \in DOMAIN page : i # 1 => 1 < i
      BY <1>2
    <2>2. \A i \in DOMAIN page : page[i] \in Nat \X Nat
      BY <1>2, KeysAreNumbers
    <2>. QED
      BY <1>1, <1>3, <1>8, <2>1, <2>2
  <1>12. ASSUME NEW y \in w.untouched, Before(k, Key(d, y))
         PROVE  y # x /\ y \notin w.returned
    <2>1. Before(from, Key(d, y))
      BY <1>8, <1>9, <1>10, <1>12, BeforeChains
    <2>. QED
      BY <1>6, <1>8, <1>9, <1>12, <2>1, BeforeOrders
  <1>13. ASSUME NEW y \in w.untouched, y # x, Before(from, Key(d, y)), ~Before(page[Len(page)], Key(d, y))
         PROVE  \E i \in DOMAIN page : i # 1 /\ page[i] = Key(d, y)
    <2>1. PICK i \in DOMAIN page : page[i] = Key(d, y)
      BY <1>8, <1>13
    <2>2. i # 1
      BY <1>1, <1>10, <1>13, <2>1
    <2>. QED
      BY <2>1, <2>2
  <1>14. ASSUME NEW y \in w.untouched, ~Before(k, Key(d, y)), y # x PROVE y \in w.returned
    <2>. SUFFICES ASSUME Before(from, Key(d, y)) PROVE FALSE
      BY <1>8
    <2>1. Before(Key(d, y), k)
      BY <1>9, <1>10, <1>14, BeforeOrders
    <2>2. ~Before(page[Len(page)], Key(d, y))
      <3>1. CASE Len(page) = 1
        BY <1>1, <1>14, <3>1
      <3>2. CASE Len(page) # 1
        <4>1. Before(k, page[Len(page)])
          BY <1>3, <1>11, <3>2
        <4>2. Before(Key(d, y), page[Len(page)])
          BY <1>9, <1>10, <2>1, <4>1, BeforeChains
        <4>. QED
          BY <1>9, <1>10, <4>2, BeforeOrders
      <3>. QED
        BY <3>1, <3>2
    <2>3. PICK i \in DOMAIN page : i # 1 /\ page[i] = Key(d, y)
      BY <1>13, <1>14, <2>2
    <2>. QED
      BY <1>11, <1>14, <2>3
  <1>15. \A y \in w.untouched : y \in w.returned \cup {x} <=> ~Before(k, Key(d, y))
    <2>1. ~Before(k, k)
      BY <1>9, BeforeOrders
    <2>. QED
      BY <1>6, <1>12, <1>14, <2>1
  <1>16. x \in w.untouched => x \notin w.returned
    BY <1>6, <1>8
  <1>17. ASSUME NEW y \in w.untouched, Before(k, Key(d, y)), ~Before(page[Len(page)], Key(d, y))
         PROVE  \E i \in DOMAIN page : i > 1 /\ page[i] = Key(d, y)
    <2>1. Before(from, Key(d, y)) /\ y # x
      BY <1>8, <1>12, <1>17
    <2>2. PICK i \in DOMAIN page : i # 1 /\ page[i] = Key(d, y)
      BY <1>13, <1>17, <2>1
    <2>3. i > 1
      BY <1>2, <2>2
    <2>. QED
      BY <2>2, <2>3
  <1>. QED
    BY <1>1, <1>4, <1>5, <1>6, <1>7, <1>15, <1>16, <1>17

\* One more row of a page: of one that is not the last, and of the last.
RowGot(d, w, k, v, last, r) ==
  LET got == Live(d, {k[2]}) IN
  /\ v \in Walks /\ v.done = w.done /\ v.cursor = w.cursor /\ v.untouched = w.untouched
  /\ v.returned = w.returned \cup got /\ v.again = w.again \cup (w.returned \cap got)
  /\ (v.shifted <=> (w.shifted \/ Key(d, k[2]) # k))
  /\ last = IF got = {} THEN r.last ELSE Key(d, k[2])

\* It came as it was chosen, and the walk is up to its key.
RowIn(d, r, v, last) ==
  /\ last = r.page[1] /\ last # NoKey
  /\ \A y \in v.untouched : y \in v.returned <=> ~Before(last, Key(d, y))
  /\ v.untouched \cap v.again = {}
  /\ \A y \in v.untouched :
       (Before(last, Key(d, y)) /\ ~Before(r.page[Len(r.page)], Key(d, y))) =>
         \E i \in DOMAIN r.page : i > 1 /\ r.page[i] = Key(d, y)

LEMMA RowGotOk ==
  ASSUME NEW d \in Databases, NEW r, NEW w \in Walks, WalkOk(d, r, w), r.at = "rows", r.page \in Pages,
         r.last \in Cursors, NEW v, NEW last, RowGot(d, w, r.page[1], v, last, r)
  PROVE  last \in Cursors /\ (~v.shifted => RowIn(d, r, v, last))
  <1>1. PICK k, x : k = r.page[1] /\ x = k[2]
    OBVIOUS
  <1>2. k \in RowKeys /\ x \in Memories
    <2>1. r.page \in Seq(RowKeys) /\ Len(r.page) >= 1 /\ Len(r.page) \in Nat
      <3>1. r.page \in Seq(RowKeys) /\ Len(r.page) \in 1 .. PageLimit
        BY DEF Pages
      <3>. QED
        BY <3>1
    <2>2. k \in RowKeys
      BY <1>1, <2>1
    <2>. QED
      BY <1>1, <2>2 DEF RowKeys
  <1>3. last \in Cursors
    <2>1. CASE Has(d, x)
      <3>1. Key(d, x) \in RowKeys
        BY <1>2, <2>1, KeyIs
      <3>. QED
        BY <1>1, <3>1 DEF RowGot, Cursors
    <2>2. CASE ~Has(d, x)
      BY <1>1, <2>2 DEF RowGot, Live
    <2>. QED
      BY <2>1, <2>2
  <1>4. ASSUME ~v.shifted PROVE RowIn(d, r, v, last)
    <2>1. ~w.shifted /\ Key(d, x) = k
      BY <1>1, <1>4 DEF RowGot
    <2>2. /\ Has(d, x)
          /\ \A y \in w.untouched : y \in w.returned \cup {x} <=> ~Before(Key(d, x), Key(d, y))
          /\ w.untouched \cap (w.again \cup (w.returned \cap {x})) = {}
          /\ \A y \in w.untouched :
               (Before(Key(d, x), Key(d, y)) /\ ~Before(r.page[Len(r.page)], Key(d, y))) =>
                 \E i \in DOMAIN r.page : i > 1 /\ r.page[i] = Key(d, y)
      BY <1>1, <2>1, GotExactly
    <2>3. Live(d, {x}) = {x}
      BY <2>2 DEF Live
    <2>4. /\ v.untouched = w.untouched /\ v.returned = w.returned \cup {x}
          /\ v.again = w.again \cup (w.returned \cap {x}) /\ last = Key(d, x)
      BY <1>1, <2>3 DEF RowGot
    <2>5. last # NoKey
      BY <1>2, <2>1, <2>4, KeysAreNumbers
    <2>. QED
      BY <1>1, <2>1, <2>2, <2>4, <2>5 DEF RowIn
  <1>. QED
    BY <1>3, <1>4

LEMMA PageGoesOn ==
  ASSUME NEW d \in Databases, NEW r, NEW w \in Walks, WalkOk(d, r, w), r.at = "rows", r.page \in Pages,
         r.last \in Cursors, NEW v, NEW last, RowGot(d, w, r.page[1], v, last, r), Tail(r.page) # <<>>
  PROVE  LET to == [at |-> "rows", page |-> Tail(r.page), last |-> last] IN
         to \in ReaderLocals /\ WalkOk(d, to, v)
  <1>1. PICK page, rest : page = r.page /\ rest = Tail(r.page)
    OBVIOUS
  <1>2. page \in Seq(RowKeys) /\ Len(page) \in Nat /\ Len(page) >= 1 /\ Len(page) <= PageLimit
        /\ DOMAIN page = 1 .. Len(page)
    <2>1. page \in Seq(RowKeys) /\ Len(page) \in 1 .. PageLimit /\ PageLimit \in Nat
      BY <1>1, ServingAssumption DEF Pages
    <2>. QED
      BY <2>1
  <1>3. rest \in Seq(RowKeys) /\ Len(rest) = Len(page) - 1 /\ \A i \in 1 .. Len(rest) : rest[i] = page[i + 1]
    <2>1. page # <<>>
      BY <1>2, EmptySeq
    <2>. QED
      BY <1>1, <1>2, <2>1
  <1>4. Len(rest) >= 1 /\ DOMAIN rest = 1 .. Len(rest) /\ Len(rest) \in Nat
    <2>1. Len(rest) # 0
      BY <1>1, <1>3, EmptySeq
    <2>. QED
      BY <1>2, <1>3, <2>1
  <1>5. rest \in Pages
    <2>1. Len(rest) \in 1 .. PageLimit
      BY <1>2, <1>3, <1>4, ServingAssumption
    <2>. QED
      BY <1>3, <2>1 DEF Pages
  <1>6. last \in Cursors
    BY RowGotOk
  <1>7. PICK to : to = [at |-> "rows", page |-> rest, last |-> last]
    OBVIOUS
  <1>8. to \in ReaderLocals /\ to.at = "rows" /\ to.page = rest /\ to.last = last
    BY <1>5, <1>6, <1>7 DEF ReaderLocals
  <1>9. rest[Len(rest)] = page[Len(page)]
    BY <1>2, <1>3, <1>4
  <1>10. ~w.done /\ v.done = w.done /\ v.untouched = w.untouched /\ \A x \in w.untouched : Has(d, x)
    BY DEF WalkOk, RowGot
  <1>11. ASSUME ~v.shifted PROVE v.untouched \cap v.again = {} /\ PageOk(d, to, v)
    <2>1. /\ last = page[1] /\ last # NoKey
          /\ \A y \in v.untouched : y \in v.returned <=> ~Before(last, Key(d, y))
          /\ v.untouched \cap v.again = {}
          /\ \A y \in v.untouched :
               (Before(last, Key(d, y)) /\ ~Before(page[Len(page)], Key(d, y))) =>
                 \E i \in DOMAIN page : i > 1 /\ page[i] = Key(d, y)
      <3>1. /\ last = r.page[1] /\ last # NoKey
            /\ \A y \in v.untouched : y \in v.returned <=> ~Before(last, Key(d, y))
            /\ v.untouched \cap v.again = {}
            /\ \A y \in v.untouched :
                 (Before(last, Key(d, y)) /\ ~Before(r.page[Len(r.page)], Key(d, y))) =>
                   \E i \in DOMAIN r.page : i > 1 /\ r.page[i] = Key(d, y)
        BY <1>11, RowGotOk DEF RowIn
      <3>. QED
        BY <1>1, <3>1
    <2>2. From(to, v) = last
      BY <1>8, <2>1 DEF From
    <2>3. \A i, j \in DOMAIN page : i < j => Before(page[i], page[j])
      BY <1>1, <1>11 DEF WalkOk, PageOk, RowGot
    <2>4. \A i \in 1 .. Len(rest) : i + 1 \in DOMAIN page /\ 1 \in DOMAIN page /\ 1 < i + 1
      BY <1>2, <1>3, <1>4
    <2>5. \A i, j \in DOMAIN rest : i < j => Before(rest[i], rest[j])
      <3>. SUFFICES ASSUME NEW i \in 1 .. Len(rest), NEW j \in 1 .. Len(rest), i < j PROVE Before(rest[i], rest[j])
        BY <1>4
      <3>1. i + 1 < j + 1
        BY <1>4
      <3>. QED
        BY <1>3, <2>3, <2>4, <3>1
    <2>6. \A i \in DOMAIN rest : Before(last, rest[i])
      BY <1>3, <1>4, <2>1, <2>3, <2>4
    <2>7. \A y \in v.untouched :
            (Before(last, Key(d, y)) /\ ~Before(rest[Len(rest)], Key(d, y))) =>
              \E i \in DOMAIN rest : rest[i] = Key(d, y)
      <3>. SUFFICES ASSUME NEW y \in v.untouched, Before(last, Key(d, y)), ~Before(rest[Len(rest)], Key(d, y))
                    PROVE  \E i \in DOMAIN rest : rest[i] = Key(d, y)
        OBVIOUS
      <3>1. PICK i \in DOMAIN page : i > 1 /\ page[i] = Key(d, y)
        BY <1>9, <2>1
      <3>2. i - 1 \in 1 .. Len(rest) /\ i - 1 + 1 = i
        BY <1>2, <1>3, <3>1
      <3>3. rest[i - 1] = Key(d, y)
        BY <1>3, <3>1, <3>2
      <3>. QED
        BY <1>4, <3>2, <3>3
    <2>. QED
      BY <1>8, <2>1, <2>2, <2>5, <2>6, <2>7 DEF PageOk
  <1>12. WalkOk(d, to, v)
    BY <1>8, <1>10, <1>11 DEF WalkOk
  <1>. QED
    BY <1>1, <1>7, <1>8, <1>12

PageOver(v, last) == IF last = NoKey THEN [v EXCEPT !.done = TRUE] ELSE [v EXCEPT !.cursor = last]

LEMMA PageIsOver ==
  ASSUME NEW d \in Databases, NEW r, NEW w \in Walks, WalkOk(d, r, w), r.at = "rows", r.page \in Pages,
         r.last \in Cursors, NEW v, NEW last, RowGot(d, w, r.page[1], v, last, r)
  PROVE  PageOver(v, last) \in Walks /\ WalkOk(d, Idle, PageOver(v, last))
  <1>1. Idle.at = "idle"
    BY DEF Idle
  <1>2. /\ v \in Walks /\ last \in Cursors
        /\ ~v.shifted =>
             /\ last # NoKey
             /\ \A y \in v.untouched : y \in v.returned <=> ~Before(last, Key(d, y))
             /\ v.untouched \cap v.again = {}
    <2>1. v \in Walks
      BY DEF RowGot
    <2>2. last \in Cursors
      BY RowGotOk
    <2>3. ASSUME ~v.shifted
          PROVE  /\ last # NoKey
                 /\ \A y \in v.untouched : y \in v.returned <=> ~Before(last, Key(d, y))
                 /\ v.untouched \cap v.again = {}
      <3>1. RowIn(d, r, v, last)
        BY <2>3, RowGotOk
      <3>. QED
        BY <3>1 DEF RowIn
    <2>. QED
      BY <2>1, <2>2, <2>3
  <1>3. ~v.done /\ \A x \in v.untouched : Has(d, x)
    BY DEF WalkOk, RowGot
  <1>4. CASE last = NoKey
    <2>1. PICK u : u = [v EXCEPT !.done = TRUE] /\ u = PageOver(v, last)
      BY <1>4 DEF PageOver
    <2>2. u \in Walks /\ u.shifted = v.shifted /\ u.untouched = v.untouched
      BY <1>2, <2>1 DEF Walks
    <2>3. u.shifted
      BY <1>2, <1>4, <2>2
    <2>4. WalkOk(d, Idle, u)
      BY <1>1, <1>3, <2>2, <2>3 DEF WalkOk
    <2>. QED
      BY <1>4, <2>1, <2>2, <2>4
  <1>5. CASE last # NoKey
    <2>1. PICK u : u = [v EXCEPT !.cursor = last] /\ u = PageOver(v, last)
      BY <1>5 DEF PageOver
    <2>2. /\ u \in Walks /\ u.shifted = v.shifted /\ u.untouched = v.untouched /\ u.cursor = last
          /\ u.again = v.again /\ u.returned = v.returned /\ u.done = v.done
      BY <1>2, <2>1 DEF Walks
    <2>3. WalkOk(d, Idle, u)
      BY <1>1, <1>2, <1>3, <2>2 DEF WalkOk
    <2>. QED
      BY <1>5, <2>1, <2>2, <2>3
  <1>. QED
    BY <1>4, <1>5

\* A step of a walk.
LEMMA WalkMoves ==
  ASSUME ServingInv, NEW to \in ReaderLocals, NEW w \in Walks,
         conn[Reader].at \in {"idle", "keys", "rows"}, to.at \in {"idle", "keys", "rows"},
         conn' = [conn EXCEPT ![Reader] = to], walk' = w, UNCHANGED <<scenario, join, hops, ask>>, NoWrite,
         WalkOk(db, to, w)
  PROVE  ServingInv'
  <1>1. PICK r \in ReaderLocals, j \in Joins, h \in Hops : r = conn[Reader] /\ j = join /\ h = hops
    BY DEF ServingInv, Typed
  <1>2. JoinOk(db, r, j) /\ HopsOk(db, r, h)
    BY <1>1 DEF ServingInv
  <1>3. JoinOk(db, to, j)
    <2>1. r.at \notin {"scan", "rights"} /\ to.at \notin {"scan", "rights"}
      BY <1>1
    <2>. QED
      BY <1>2, <2>1, JoinRests
  <1>4. HopsOk(db, to, h)
    <2>1. r.at # "hops" /\ to.at # "hops"
      BY <1>1
    <2>. QED
      BY <1>2, <2>1, HopsRest
  <1>5. QueryOk(to)
    BY DEF QueryOk
  <1>6. join' = j /\ hops' = h /\ UNCHANGED scenario
    BY <1>1
  <1>. QED
    BY <1>3, <1>4, <1>5, <1>6, ReaderMoves

LEMMA ReaderHas ==
  ASSUME ServingInv
  PROVE  /\ db \in Databases /\ walk \in Walks /\ join \in Joins /\ hops \in Hops
         /\ conn[Reader] \in ReaderLocals /\ Reader \in Conns /\ DOMAIN conn = Conns
         /\ conn = [conn EXCEPT ![Reader] = conn[Reader]]
         /\ WalkOk(db, conn[Reader], walk) /\ JoinOk(db, conn[Reader], join) /\ HopsOk(db, conn[Reader], hops)
         /\ QueryOk(conn[Reader])
         /\ Idle \in ReaderLocals /\ Idle.at = "idle"
  BY ServingAssumption DEF ServingInv, Typed, ReaderLocals, Idle

LEMMA BeginWalkStep ==
  ASSUME ServingInv, NEW c \in Conns, BeginWalk(c)
  PROVE  ServingInv'
  <1>1. c = Reader /\ conn[Reader].at = "idle"
    BY DEF BeginWalk, Asks
  <1>2. PICK r \in ReaderLocals, d \in Databases : r = conn[Reader] /\ d = db
    BY ReaderHas
  <1>3. PICK w \in Walks : /\ w = [done |-> FALSE, cursor |-> NoKey, untouched |-> Live(d, Memories),
                                   returned |-> {}, again |-> {}, shifted |-> FALSE]
                           /\ WalkOk(d, r, w)
    BY <1>1, <1>2, BeginWalkOk
  <1>4. conn' = [conn EXCEPT ![Reader] = r] /\ walk' = w /\ UNCHANGED <<scenario, join, hops, ask>> /\ NoWrite
    BY <1>2, <1>3, ReaderHas DEF BeginWalk
  <1>. QED
    BY <1>1, <1>2, <1>3, <1>4, WalkMoves

LEMMA ChooseStep ==
  ASSUME ServingInv, conn[Reader].at \in {"idle", "keys"}, ~walk.done, NEW keys \in SUBSET RowKeys,
         ~walk.shifted => \A x \in walk.untouched : Key(db, x) \in keys,
         Choose(Reader, keys), UNCHANGED <<scenario, join, hops, ask>>, NoWrite
  PROVE  ServingInv'
  <1>1. PICK r \in ReaderLocals, d \in Databases, w \in Walks : r = conn[Reader] /\ d = db /\ w = walk
    BY ReaderHas
  <1>2. WalkOk(d, r, w) /\ r.at # "rows" /\ ~w.done /\ (~w.shifted => \A x \in w.untouched : Key(d, x) \in keys)
    BY <1>1, ReaderHas
  <1>3. CASE FirstPage(keys, w.cursor) = <<>>
    <2>1. PICK v \in Walks : v = [w EXCEPT !.done = TRUE] /\ WalkOk(d, Idle, v)
      BY <1>2, <1>3, ChosenEnds
    <2>2. conn' = [conn EXCEPT ![Reader] = Idle] /\ walk' = v
      BY <1>1, <1>3, <2>1 DEF Choose, EndPage, Move
    <2>. QED
      BY <1>1, <2>1, <2>2, ReaderHas, WalkMoves
  <1>4. CASE FirstPage(keys, w.cursor) # <<>>
    <2>1. PICK to \in ReaderLocals : to = [at |-> "rows", page |-> FirstPage(keys, w.cursor), last |-> NoKey]
                                     /\ WalkOk(d, to, w)
      BY <1>2, <1>4, ChosenGoesOn
    <2>2. conn' = [conn EXCEPT ![Reader] = to] /\ walk' = w /\ to.at = "rows"
      BY <1>1, <1>4, <2>1 DEF Choose, Move
    <2>. QED
      BY <1>1, <2>1, <2>2, WalkMoves
  <1>. QED
    BY <1>3, <1>4

\* The key of every row there is, and of every row that stood.
LEMMA KeysOf ==
  ASSUME NEW d \in Databases, NEW S \in SUBSET Memories
  PROVE  /\ {Key(d, x) : x \in Live(d, S)} \in SUBSET RowKeys
         /\ \A x \in S : Has(d, x) => Key(d, x) \in {Key(d, y) : y \in Live(d, S)}
  BY KeyIs DEF Live

LEMMA PageByIndexStep ==
  ASSUME ServingInv, NEW c \in Conns, PageByIndex(c)
  PROVE  ServingInv'
  <1>1. c = Reader /\ conn[Reader].at = "idle" /\ ~walk.done
    BY DEF PageByIndex, Asks
  <1>2. PICK keys : keys = {Key(db, x) : x \in Live(db, Memories)}
    OBVIOUS
  <1>3. keys \in SUBSET RowKeys /\ \A x \in Memories : Has(db, x) => Key(db, x) \in keys
    BY <1>2, KeysOf, ReaderHas
  <1>4. \A x \in walk.untouched : Key(db, x) \in keys
    BY <1>3, ReaderHas DEF WalkOk, Walks
  <1>5. Choose(Reader, keys) /\ UNCHANGED <<scenario, join, hops, ask>> /\ NoWrite
    BY <1>1, <1>2 DEF PageByIndex
  <1>. QED
    BY <1>1, <1>3, <1>4, <1>5, ChooseStep

LEMMA PageByScanStep ==
  ASSUME ServingInv, NEW c \in Conns, PageByScan(c)
  PROVE  ServingInv'
  <1>1. c = Reader /\ conn[Reader].at = "idle" /\ ~walk.done /\ UNCHANGED <<scenario, join, hops, ask>> /\ NoWrite
    BY DEF PageByScan, Asks
  <1>2. PICK r \in ReaderLocals, d \in Databases, w \in Walks : r = conn[Reader] /\ d = db /\ w = walk
    BY ReaderHas
  <1>3. WalkOk(d, r, w) /\ w.untouched \subseteq Live(d, Memories) /\ Live(d, Memories) \subseteq Memories
    BY <1>2, ReaderHas DEF WalkOk, Walks, Live
  <1>4. CASE Live(d, Memories) = {}
    <2>1. Choose(Reader, {})
      BY <1>1, <1>2, <1>4 DEF PageByScan
    <2>2. PICK keys \in SUBSET RowKeys : keys = {}
      OBVIOUS
    <2>3. \A x \in walk.untouched : Key(db, x) \in keys
      BY <1>2, <1>3, <1>4
    <2>. QED
      BY <1>1, <2>1, <2>2, <2>3, ChooseStep
  <1>5. CASE Live(d, Memories) # {}
    <2>1. PICK to : to = [at |-> "keys", ids |-> Live(d, Memories), keys |-> {}]
      OBVIOUS
    <2>2. to \in ReaderLocals /\ to.at = "keys" /\ to.ids = Live(d, Memories)
      BY <1>3, <2>1 DEF ReaderLocals
    <2>3. conn' = [conn EXCEPT ![Reader] = to] /\ walk' = w
      BY <1>1, <1>2, <1>5, <2>1 DEF PageByScan, Move
    <2>4. WalkOk(d, to, w)
      <3>1. ~w.done /\ r.at = "idle"
        BY <1>1, <1>2
      <3>2. \A x \in w.untouched : x \in to.ids
        BY <1>3, <2>2
      <3>. QED
        BY <1>3, <2>2, <3>1, <3>2 DEF WalkOk
    <2>. QED
      BY <1>1, <1>2, <2>2, <2>3, <2>4, WalkMoves
  <1>. QED
    BY <1>4, <1>5

LEMMA ReadKeyStep ==
  ASSUME ServingInv, NEW c \in Conns, ReadKey(c)
  PROVE  ServingInv'
  <1>1. c = Reader /\ conn[Reader].at = "keys" /\ UNCHANGED <<scenario, join, hops, ask>> /\ NoWrite
    BY ReadingIs DEF ReadKey
  <1>2. PICK r \in ReaderLocals, d \in Databases, w \in Walks : r = conn[Reader] /\ d = db /\ w = walk
    BY ReaderHas
  <1>3. WalkOk(d, r, w) /\ r.at = "keys" /\ r.ids \subseteq Memories /\ r.keys \subseteq RowKeys
    BY <1>1, <1>2, ReaderHas, ReaderLocalIs
  <1>4. PICK x \in conn[Reader].ids :
          IF conn[Reader].ids \ {x} = {}
          THEN Choose(Reader, conn[Reader].keys \cup {Key(db, y) : y \in Live(db, {x})})
          ELSE /\ Move(Reader, [at |-> "keys", ids |-> conn[Reader].ids \ {x},
                                keys |-> conn[Reader].keys \cup {Key(db, y) : y \in Live(db, {x})}])
               /\ UNCHANGED walk
    BY <1>1, Zenon DEF ReadKey
  <1>11. PICK left, keys : /\ left = conn[Reader].ids \ {x}
                          /\ keys = conn[Reader].keys \cup {Key(db, y) : y \in Live(db, {x})}
    OBVIOUS
  <1>12. IF left = {} THEN Choose(Reader, keys)
         ELSE Move(Reader, [at |-> "keys", ids |-> left, keys |-> keys]) /\ UNCHANGED walk
    BY <1>4, <1>11, Zenon
  <1>5. x \in r.ids /\ left = r.ids \ {x} /\ keys = r.keys \cup {Key(d, y) : y \in Live(d, {x})}
    BY <1>2, <1>11
  <1>6. keys \in SUBSET RowKeys /\ left \subseteq Memories /\ (Has(d, x) => Key(d, x) \in keys)
    <2>1. {x} \in SUBSET Memories
      BY <1>3, <1>5
    <2>. QED
      BY <1>3, <1>5, <2>1, KeysOf
  <1>7. ~w.done /\ \A y \in w.untouched : Has(d, y)
    BY <1>3 DEF WalkOk
  <1>8. ~w.shifted => \A y \in w.untouched : y \in left \/ Key(d, y) \in keys
    <2>. SUFFICES ASSUME ~w.shifted, NEW y \in w.untouched PROVE y \in left \/ Key(d, y) \in keys
      OBVIOUS
    <2>1. y \in r.ids \/ Key(d, y) \in r.keys
      BY <1>3 DEF WalkOk
    <2>. QED
      BY <1>5, <1>6, <1>7, <2>1
  <1>9. CASE left = {}
    <2>1. Choose(Reader, keys)
      BY <1>9, <1>12
    <2>. QED
      BY <1>1, <1>2, <1>6, <1>7, <1>8, <1>9, <2>1, ChooseStep
  <1>10. CASE left # {}
    <2>1. PICK to : to = [at |-> "keys", ids |-> left, keys |-> keys]
      OBVIOUS
    <2>2. to \in ReaderLocals /\ to.at = "keys" /\ to.ids = left /\ to.keys = keys
      BY <1>6, <2>1 DEF ReaderLocals
    <2>3. conn' = [conn EXCEPT ![Reader] = to] /\ walk' = w
      BY <1>2, <1>10, <1>12, <2>1 DEF Move
    <2>4. WalkOk(d, to, w)
      BY <1>3, <1>7, <1>8, <2>2 DEF WalkOk
    <2>. QED
      BY <1>1, <1>2, <2>2, <2>3, <2>4, WalkMoves
  <1>. QED
    BY <1>9, <1>10

LEMMA GetRowStep ==
  ASSUME ServingInv, NEW c \in Conns, GetRow(c)
  PROVE  ServingInv'
  <1>1. c = Reader /\ conn[Reader].at = "rows" /\ UNCHANGED <<scenario, join, hops, ask>> /\ NoWrite
    BY ReadingIs DEF GetRow
  <1>2. PICK r \in ReaderLocals, d \in Databases, w \in Walks : r = conn[Reader] /\ d = db /\ w = walk
    BY ReaderHas
  <1>3. WalkOk(d, r, w) /\ r.at = "rows" /\ r.page \in Pages /\ r.last \in Cursors
    BY <1>1, <1>2, ReaderHas, ReaderLocalIs
  <1>4. PICK k, x : k = r.page[1] /\ x = k[2] /\ k = Head(r.page)
    OBVIOUS
  <1>5. PICK got, last : got = Live(d, {x}) /\ last = IF got = {} THEN r.last ELSE Key(d, x)
    OBVIOUS
  <1>6. PICK b \in BOOLEAN : b = (w.shifted \/ Key(d, x) # k)
    <2>1. CASE w.shifted \/ Key(d, x) # k
      <3>1. TRUE = (w.shifted \/ Key(d, x) # k)
        BY <2>1
      <3>. QED
        BY <3>1
    <2>2. CASE ~(w.shifted \/ Key(d, x) # k)
      <3>1. FALSE = (w.shifted \/ Key(d, x) # k)
        BY <2>2
      <3>. QED
        BY <3>1
    <2>. QED
      BY <2>1, <2>2
  <1>7. PICK v : v = [w EXCEPT !.returned = @ \cup got, !.again = @ \cup (w.returned \cap got), !.shifted = b]
    OBVIOUS
  <1>8. RowGot(d, w, k, v, last, r)
    <2>1. got \subseteq Memories
      <3>1. r.page \in Seq(RowKeys) /\ Len(r.page) \in 1 .. PageLimit
        BY <1>3 DEF Pages
      <3>2. k \in RowKeys
        BY <1>4, <3>1
      <3>. QED
        BY <1>4, <1>5, <3>2 DEF RowKeys, Live
    <2>2. /\ v \in Walks /\ v.done = w.done /\ v.cursor = w.cursor /\ v.untouched = w.untouched
          /\ v.returned = w.returned \cup got /\ v.again = w.again \cup (w.returned \cap got) /\ v.shifted = b
      BY <1>7, <2>1 DEF Walks
    <2>. QED
      BY <1>4, <1>5, <1>6, <2>2 DEF RowGot
  <1>9. IF Tail(r.page) # <<>>
        THEN Move(Reader, [at |-> "rows", page |-> Tail(r.page), last |-> last]) /\ walk' = v
        ELSE /\ Move(Reader, Idle)
             /\ walk' = IF last = NoKey THEN [v EXCEPT !.done = TRUE] ELSE [v EXCEPT !.cursor = last]
    BY <1>1, <1>2, <1>4, <1>5, <1>6, <1>7 DEF GetRow
  <1>10. CASE Tail(r.page) # <<>>
    <2>1. PICK to \in ReaderLocals : to = [at |-> "rows", page |-> Tail(r.page), last |-> last] /\ WalkOk(d, to, v)
      BY <1>3, <1>4, <1>8, <1>10, PageGoesOn
    <2>2. conn' = [conn EXCEPT ![Reader] = to] /\ walk' = v /\ to.at = "rows" /\ v \in Walks
      BY <1>8, <1>9, <1>10, <2>1 DEF Move, RowGot
    <2>. QED
      BY <1>1, <1>2, <2>1, <2>2, WalkMoves
  <1>11. CASE Tail(r.page) = <<>>
    <2>1. PICK u : u = PageOver(v, last)
      OBVIOUS
    <2>4. RowGot(d, w, r.page[1], v, last, r)
      BY <1>4, <1>8
    <2>3. u \in Walks /\ WalkOk(d, Idle, u)
      BY <1>3, <2>1, <2>4, PageIsOver
    <2>2. conn' = [conn EXCEPT ![Reader] = Idle] /\ walk' = u
      BY <1>9, <1>11, <2>1 DEF Move, PageOver
    <2>. QED
      BY <1>1, <1>2, <2>2, <2>3, ReaderHas, WalkMoves
  <1>. QED
    BY <1>10, <1>11

------------------------------------------------------------------------------
(* Joins                                                                   *)

\* A mention is a memory and an entity.
LEMMA MentionIs ==
  ASSUME NEW g \in Edges, g \cap Memories # {}
  PROVE  \E x \in Memories, y \in Entities : g = {x, y}
  <1>1. PICK x \in Memories, y \in Entities : x \in g /\ y \in g
    BY DEF Edges
  <1>2. Cardinality(g) = 2 /\ g \subseteq Ids
    BY DEF Edges
  <1>3. IsFiniteSet(g)
    BY <1>2, ServingAssumption, FS_Subset
  <1>4. Cardinality({x, y}) = 2
    BY Kinds, PairIsEdge DEF Edges
  <1>5. {x, y} \in SUBSET g
    BY <1>1
  <1>6. {x, y} = g
    BY <1>2, <1>3, <1>4, <1>5, FS_Subset
  <1>. QED
    BY <1>6

LEMMA StandingIs ==
  ASSUME NEW d \in Databases
  PROVE  /\ Standing(d) \subseteq Mentions(d.edges) /\ Mentions(d.edges) \subseteq d.edges /\ d.edges \subseteq Edges
         /\ \A g \in Standing(d) : \A x \in g : Has(d, x)
         /\ \A x \in Memories : \A y : {x, y} \in d.edges => {x, y} \in Mentions(d.edges)
  BY DEF Standing, Mentions, Databases

\* A step of a join.
LEMMA JoinMoves ==
  ASSUME ServingInv, NEW to \in ReaderLocals, NEW j \in Joins,
         conn[Reader].at \in {"idle", "scan", "rights"}, to.at \in {"idle", "scan", "rights"},
         conn' = [conn EXCEPT ![Reader] = to], join' = j, UNCHANGED <<scenario, walk, hops, ask>>, NoWrite,
         JoinOk(db, to, j)
  PROVE  ServingInv'
  <1>1. PICK r \in ReaderLocals, w \in Walks, h \in Hops : r = conn[Reader] /\ w = walk /\ h = hops
    BY ReaderHas
  <1>2. WalkOk(db, r, w) /\ HopsOk(db, r, h)
    BY <1>1, ReaderHas
  <1>3. WalkOk(db, to, w)
    <2>1. r.at # "rows" /\ to.at \notin {"keys", "rows"}
      BY <1>1
    <2>. QED
      BY <1>2, <2>1, WalkRests
  <1>4. HopsOk(db, to, h)
    <2>1. r.at # "hops" /\ to.at # "hops"
      BY <1>1
    <2>. QED
      BY <1>2, <2>1, HopsRest
  <1>5. QueryOk(to)
    BY DEF QueryOk
  <1>6. walk' = w /\ hops' = h /\ UNCHANGED scenario
    BY <1>1
  <1>. QED
    BY <1>3, <1>4, <1>5, <1>6, ReaderMoves

LEMMA BeginJoinStep ==
  ASSUME ServingInv, NEW c \in Conns, BeginJoin(c)
  PROVE  ServingInv'
  <1>1. c = Reader /\ conn[Reader].at = "idle" /\ UNCHANGED <<scenario, walk, hops, ask>> /\ NoWrite
    BY DEF BeginJoin, Asks
  <1>2. PICK d \in Databases : d = db
    BY ReaderHas
  <1>3. PICK j : j = [done |-> FALSE, rows |-> {}, stood |-> Standing(d), seen |-> Mentions(d.edges),
                      met |-> Live(d, Ids)]
    OBVIOUS
  <1>4. PICK to : to = [at |-> "scan", ids |-> Live(d, Memories), lefts |-> {}]
    OBVIOUS
  <1>5. j \in Joins
    <2>1. Standing(d) \subseteq Edges /\ Mentions(d.edges) \subseteq Edges /\ Live(d, Ids) \subseteq Ids
      BY StandingIs DEF Live
    <2>. QED
      BY <1>3, <2>1 DEF Joins
  <1>6. to \in ReaderLocals /\ to.at = "scan" /\ to.ids = Live(d, Memories) /\ to.lefts = {}
    <2>1. Live(d, Memories) \subseteq Memories
      BY DEF Live
    <2>. QED
      BY <1>4, <2>1 DEF ReaderLocals
  <1>7. /\ ~j.done /\ j.rows = {} /\ j.stood = Standing(d) /\ j.seen = Mentions(d.edges) /\ j.met = Live(d, Ids)
    BY <1>3
  <1>8. \A x \in Memories, y \in Entities : {x, y} \in j.stood => x \in to.ids
    BY <1>6, <1>7, StandingIs DEF Live
  <1>9. JoinOk(d, to, j)
    BY <1>6, <1>7, <1>8 DEF JoinOk
  <1>10. conn' = [conn EXCEPT ![Reader] = to] /\ join' = j
    BY <1>1, <1>2, <1>3, <1>4 DEF BeginJoin, Move
  <1>. QED
    BY <1>1, <1>2, <1>5, <1>6, <1>9, <1>10, JoinMoves

LEMMA ScanRowStep ==
  ASSUME ServingInv, NEW c \in Conns, ScanRow(c)
  PROVE  ServingInv'
  <1>1. c = Reader /\ conn[Reader].at = "scan" /\ UNCHANGED <<scenario, walk, join, hops, ask>> /\ NoWrite
    BY ReadingIs DEF ScanRow, NoRead
  <1>2. PICK r \in ReaderLocals, d \in Databases, j \in Joins : r = conn[Reader] /\ d = db /\ j = join
    BY ReaderHas
  <1>3. /\ JoinOk(d, r, j) /\ r.at = "scan" /\ r.ids \subseteq Memories /\ r.lefts \subseteq Memories
        /\ r = [at |-> "scan", ids |-> r.ids, lefts |-> r.lefts]
    BY <1>1, <1>2, ReaderHas, ReaderLocalIs
  <1>4. PICK x \in r.ids : conn' = [conn EXCEPT ![Reader] = [r EXCEPT !.ids = @ \ {x}, !.lefts = @ \cup Live(d, {x})]]
    BY <1>1, <1>2 DEF ScanRow, Move
  <1>5. PICK to : to = [r EXCEPT !.ids = @ \ {x}, !.lefts = @ \cup Live(d, {x})]
    OBVIOUS
  <1>6. to \in ReaderLocals /\ to.at = "scan" /\ to.ids = r.ids \ {x} /\ to.lefts = r.lefts \cup Live(d, {x})
    <2>1. r \in [at : {"scan"}, ids : SUBSET Memories, lefts : SUBSET Memories]
      BY <1>3
    <2>2. Live(d, {x}) \subseteq Memories
      BY <1>3 DEF Live
    <2>. QED
      BY <1>5, <2>1, <2>2 DEF ReaderLocals
  <1>7. ~j.done /\ j.stood \subseteq Standing(d) /\ r.lefts \subseteq j.met /\ Live(d, Ids) \subseteq j.met
    BY <1>3 DEF JoinOk
  <1>8. to.lefts \subseteq j.met
    BY <1>3, <1>6, <1>7, Kinds DEF Live
  <1>9. \A y \in Memories, z \in Entities : {y, z} \in j.stood => {y, z} \in j.rows \/ y \in to.ids \/ y \in to.lefts
    <2>. SUFFICES ASSUME NEW y \in Memories, NEW z \in Entities, {y, z} \in j.stood, {y, z} \notin j.rows
                  PROVE  y \in to.ids \/ y \in to.lefts
      OBVIOUS
    <2>1. y \in r.ids \/ y \in r.lefts
      BY <1>3, <1>7 DEF JoinOk
    <2>2. Has(d, y)
      BY <1>7, StandingIs
    <2>. QED
      BY <1>6, <2>1, <2>2 DEF Live
  <1>10. JoinOk(d, to, j)
    BY <1>3, <1>6, <1>8, <1>9 DEF JoinOk
  <1>. QED
    BY <1>1, <1>2, <1>4, <1>5, <1>6, <1>10, JoinMoves

LEMMA NeighboursStep ==
  ASSUME ServingInv, NEW c \in Conns, Neighbours(c)
  PROVE  ServingInv'
  <1>1. c = Reader /\ conn[Reader].at = "scan" /\ UNCHANGED <<scenario, walk, join, hops, ask>> /\ NoWrite
    BY ReadingIs DEF Neighbours, NoRead
  <1>2. PICK r \in ReaderLocals, d \in Databases, j \in Joins : r = conn[Reader] /\ d = db /\ j = join
    BY ReaderHas
  <1>3. JoinOk(d, r, j) /\ r.at = "scan" /\ r.ids = {} /\ r.lefts \subseteq Memories
    BY <1>1, <1>2, ReaderHas, ReaderLocalIs DEF Neighbours
  <1>4. PICK x \in conn[Reader].lefts :
          conn' = [conn EXCEPT ![Reader] = [at |-> "rights", left |-> x, lefts |-> conn[Reader].lefts \ {x},
                                            rights |-> {y \in Entities : {x, y} \in db.edges}]]
    BY <1>1, Zenon DEF Neighbours, Move
  <1>5. PICK rights, to : /\ rights = {y \in Entities : {x, y} \in db.edges}
                          /\ to = [at |-> "rights", left |-> x, lefts |-> conn[Reader].lefts \ {x},
                                   rights |-> rights]
    OBVIOUS
  <1>11. x \in r.lefts /\ rights = {y \in Entities : {x, y} \in d.edges} /\ conn' = [conn EXCEPT ![Reader] = to]
    BY <1>2, <1>4, <1>5
  <1>6. /\ to \in ReaderLocals /\ to.at = "rights" /\ to.left = x /\ to.lefts = r.lefts \ {x}
        /\ to.rights = {y \in Entities : {x, y} \in d.edges}
    BY <1>2, <1>3, <1>5, <1>11 DEF ReaderLocals
  <1>7. /\ ~j.done /\ j.stood \subseteq Standing(d) /\ r.lefts \subseteq j.met /\ Mentions(d.edges) \subseteq j.seen
        /\ \A y \in Memories, z \in Entities : {y, z} \in j.stood => {y, z} \in j.rows \/ y \in r.lefts
    BY <1>3 DEF JoinOk
  <1>8. to.left \in j.met /\ \A y \in to.rights : {to.left, y} \in j.seen
    BY <1>3, <1>6, <1>7, <1>11, StandingIs
  <1>9. \A y \in Memories, z \in Entities :
          {y, z} \in j.stood => {y, z} \in j.rows \/ y \in to.lefts \/ (y = to.left /\ z \in to.rights)
    <2>. SUFFICES ASSUME NEW y \in Memories, NEW z \in Entities, {y, z} \in j.stood, {y, z} \notin j.rows, y = x
                  PROVE  z \in to.rights
      BY <1>6, <1>7
    <2>1. {x, z} \in d.edges
      BY <1>7, StandingIs
    <2>. QED
      BY <1>6, <2>1
  <1>10. JoinOk(d, to, j)
    BY <1>3, <1>6, <1>7, <1>8, <1>9 DEF JoinOk
  <1>. QED
    BY <1>1, <1>2, <1>6, <1>10, <1>11, JoinMoves

LEMMA GetRightStep ==
  ASSUME ServingInv, NEW c \in Conns, GetRight(c)
  PROVE  ServingInv'
  <1>1. c = Reader /\ conn[Reader].at = "rights" /\ UNCHANGED <<scenario, walk, hops, ask>> /\ NoWrite
    BY ReadingIs DEF GetRight
  <1>2. PICK r \in ReaderLocals, d \in Databases, k \in Joins : r = conn[Reader] /\ d = db /\ k = join
    BY ReaderHas
  <1>3. /\ JoinOk(d, r, k) /\ r.at = "rights" /\ r.left \in Memories /\ r.lefts \subseteq Memories
        /\ r.rights \subseteq Entities
        /\ r = [at |-> "rights", left |-> r.left, lefts |-> r.lefts, rights |-> r.rights]
    BY <1>1, <1>2, ReaderHas, ReaderLocalIs
  <1>16. PICK y \in conn[c].rights :
           /\ Move(c, [conn[c] EXCEPT !.rights = @ \ {y}])
           /\ join' = [join EXCEPT !.rows = @ \cup {{conn[c].left, z} : z \in Live(db, {y})}]
    BY DEF GetRight
  <1>4. /\ y \in conn[Reader].rights
        /\ conn' = [conn EXCEPT ![Reader] = [conn[Reader] EXCEPT !.rights = @ \ {y}]]
        /\ join' = [join EXCEPT !.rows = @ \cup {{conn[Reader].left, z} : z \in Live(db, {y})}]
    BY <1>1, <1>16 DEF Move
  <1>14. PICK more : more = {{conn[Reader].left, z} : z \in Live(db, {y})}
    OBVIOUS
  <1>5. PICK to, x, j : /\ to = [r EXCEPT !.rights = @ \ {y}] /\ x = r.left
                        /\ j = [k EXCEPT !.rows = @ \cup more]
    OBVIOUS
  <1>15. y \in r.rights /\ more = {{x, z} : z \in Live(d, {y})}
    BY <1>2, <1>4, <1>5, <1>14
  <1>6. /\ to \in ReaderLocals /\ to.at = "rights" /\ to.left = x /\ to.lefts = r.lefts
        /\ to.rights = r.rights \ {y}
    <2>1. r \in [at : {"rights"}, left : Memories, lefts : SUBSET Memories, rights : SUBSET Entities]
      BY <1>3
    <2>. QED
      BY <1>5, <2>1 DEF ReaderLocals
  <1>7. x \in Ids /\ y \in Ids /\ x \in k.met /\ {x, y} \in k.seen
    BY <1>3, <1>5, <1>15, Kinds DEF JoinOk
  <1>8. \A g \in {{x, z} : z \in Live(d, {y})} : g = {x, y} /\ Has(d, y)
    BY DEF Live
  <1>9. j \in Joins /\ j.done = k.done /\ j.stood = k.stood /\ j.seen = k.seen /\ j.met = k.met
        /\ j.rows = k.rows \cup {{x, z} : z \in Live(d, {y})}
    <2>1. {{x, z} : z \in Live(d, {y})} \subseteq SUBSET Ids
      BY <1>7, <1>8
    <2>. QED
      BY <1>5, <1>15, <2>1 DEF Joins
  <1>10. j.rows \subseteq j.seen /\ UNION j.rows \subseteq j.met
    <2>1. k.rows \subseteq k.seen /\ UNION k.rows \subseteq k.met /\ Live(d, Ids) \subseteq k.met
      BY <1>3 DEF JoinOk
    <2>2. \A g \in {{x, z} : z \in Live(d, {y})} : g \in k.seen /\ g \subseteq k.met
      BY <1>7, <1>8, <2>1 DEF Live
    <2>. QED
      BY <1>9, <2>1, <2>2
  <1>11. \A u \in Memories, z \in Entities :
           {u, z} \in j.stood => {u, z} \in j.rows \/ u \in to.lefts \/ (u = to.left /\ z \in to.rights)
    <2>. SUFFICES ASSUME NEW u \in Memories, NEW z \in Entities, {u, z} \in k.stood
                  PROVE  {u, z} \in j.rows \/ u \in to.lefts \/ (u = to.left /\ z \in to.rights)
      BY <1>9
    <2>1. {u, z} \in k.rows \/ u \in r.lefts \/ (u = x /\ z \in r.rights)
      BY <1>3, <1>5 DEF JoinOk
    <2>2. Has(d, z)
      BY <1>3, StandingIs DEF JoinOk
    <2>3. CASE u = x /\ z = y
      <3>1. y \in Live(d, {y})
        BY <2>2, <2>3 DEF Live
      <3>. QED
        BY <1>9, <2>3, <3>1
    <2>. QED
      BY <1>6, <1>9, <2>1, <2>3
  <1>12. JoinOk(d, to, j)
    <2>1. /\ ~k.done /\ k.stood \subseteq Standing(d) /\ Mentions(d.edges) \subseteq k.seen
          /\ Live(d, Ids) \subseteq k.met /\ r.lefts \subseteq k.met
          /\ \A z \in r.rights : {x, z} \in k.seen
      BY <1>3, <1>5 DEF JoinOk
    <2>. QED
      BY <1>6, <1>7, <1>9, <1>10, <1>11, <2>1 DEF JoinOk
  <1>13. conn' = [conn EXCEPT ![Reader] = to] /\ join' = j
    BY <1>2, <1>4, <1>5, <1>14
  <1>. QED
    BY <1>1, <1>2, <1>6, <1>9, <1>12, <1>13, JoinMoves

LEMMA NextLeftStep ==
  ASSUME ServingInv, NEW c \in Conns, NextLeft(c)
  PROVE  ServingInv'
  <1>1. c = Reader /\ conn[Reader].at = "rights" /\ UNCHANGED <<scenario, walk, join, hops, ask>> /\ NoWrite
    BY ReadingIs DEF NextLeft, NoRead
  <1>2. PICK r \in ReaderLocals, d \in Databases, j \in Joins : r = conn[Reader] /\ d = db /\ j = join
    BY ReaderHas
  <1>3. JoinOk(d, r, j) /\ r.at = "rights" /\ r.rights = {} /\ r.lefts \subseteq Memories
    BY <1>1, <1>2, ReaderHas, ReaderLocalIs DEF NextLeft
  <1>4. PICK to : to = [at |-> "scan", ids |-> {}, lefts |-> r.lefts]
    OBVIOUS
  <1>5. to \in ReaderLocals /\ to.at = "scan" /\ to.ids = {} /\ to.lefts = r.lefts
    BY <1>3, <1>4 DEF ReaderLocals
  <1>6. JoinOk(d, to, j)
    BY <1>3, <1>5 DEF JoinOk
  <1>7. conn' = [conn EXCEPT ![Reader] = to]
    BY <1>1, <1>2, <1>4 DEF NextLeft, Move
  <1>. QED
    BY <1>1, <1>2, <1>5, <1>6, <1>7, JoinMoves

LEMMA EndJoinStep ==
  ASSUME ServingInv, NEW c \in Conns, EndJoin(c)
  PROVE  ServingInv'
  <1>1. c = Reader /\ conn[Reader].at = "scan" /\ UNCHANGED <<scenario, walk, hops, ask>> /\ NoWrite
    BY ReadingIs DEF EndJoin
  <1>2. PICK r \in ReaderLocals, d \in Databases, k \in Joins : r = conn[Reader] /\ d = db /\ k = join
    BY ReaderHas
  <1>3. JoinOk(d, r, k) /\ r.at = "scan" /\ r.ids = {} /\ r.lefts = {}
    BY <1>1, <1>2, ReaderHas DEF EndJoin
  <1>4. PICK j : j = [k EXCEPT !.done = TRUE]
    OBVIOUS
  <1>5. j \in Joins /\ j.done /\ j.rows = k.rows /\ j.stood = k.stood /\ j.seen = k.seen /\ j.met = k.met
    BY <1>4 DEF Joins
  <1>6. k.stood \subseteq k.rows
    <2>. SUFFICES ASSUME NEW g \in k.stood PROVE g \in k.rows
      OBVIOUS
    <2>1. g \in Edges /\ g \cap Memories # {}
      BY <1>3, StandingIs DEF JoinOk, Mentions
    <2>2. PICK x \in Memories, y \in Entities : g = {x, y}
      BY <2>1, MentionIs
    <2>. QED
      BY <1>3, <2>2 DEF JoinOk
  <1>7. JoinOk(d, Idle, j)
    BY <1>3, <1>5, <1>6, ReaderHas DEF JoinOk
  <1>8. conn' = [conn EXCEPT ![Reader] = Idle] /\ join' = j
    BY <1>1, <1>2, <1>4 DEF EndJoin, Move
  <1>. QED
    BY <1>1, <1>2, <1>5, <1>7, <1>8, ReaderHas, JoinMoves

------------------------------------------------------------------------------
(* Traverses                                                               *)

LEMMA DepthsAre ==
  ASSUME NEW f \in Depths
  PROVE  /\ DOMAIN f \subseteq Ids /\ IsFiniteSet(DOMAIN f) /\ Cardinality(DOMAIN f) \in Nat
         /\ \A x \in DOMAIN f : f[x] \in Nat /\ f[x] <= MaxDepth
  <1>1. PICK S \in SUBSET Ids : f \in [S -> 0 .. MaxDepth]
    BY DEF Depths
  <1>2. IsFiniteSet(S)
    BY ServingAssumption, FS_Subset
  <1>3. Cardinality(S) \in Nat
    BY <1>2, FS_CardinalityType
  <1>4. MaxDepth \in Nat
    BY ServingAssumption
  <1>5. \A x \in S : f[x] \in Nat /\ f[x] <= MaxDepth
    BY <1>1, <1>4
  <1>. QED
    BY <1>1, <1>2, <1>3, <1>5

LEMMA SmallerOf ==
  ASSUME NEW a \in Nat, NEW b \in Nat
  PROVE  Min({a, b}) = IF a <= b THEN a ELSE b
  <1>1. \E x \in {a, b} : \A y \in {a, b} : x <= y
    OBVIOUS
  <1>2. Min({a, b}) \in {a, b} /\ \A y \in {a, b} : Min({a, b}) <= y
    BY <1>1 DEF Min
  <1>. QED
    BY <1>2

\* A step of a traverse.
LEMMA HopsMove ==
  ASSUME ServingInv, NEW to \in ReaderLocals, NEW h \in Hops,
         conn[Reader].at \in {"idle", "hops"}, to.at \in {"idle", "hops"},
         conn' = [conn EXCEPT ![Reader] = to], hops' = h, UNCHANGED <<scenario, walk, join, ask>>, NoWrite,
         HopsOk(db, to, h)
  PROVE  ServingInv'
  <1>1. PICK r \in ReaderLocals, w \in Walks, j \in Joins : r = conn[Reader] /\ w = walk /\ j = join
    BY ReaderHas
  <1>2. WalkOk(db, r, w) /\ JoinOk(db, r, j)
    BY <1>1, ReaderHas
  <1>3. WalkOk(db, to, w)
    <2>1. r.at # "rows" /\ to.at \notin {"keys", "rows"}
      BY <1>1
    <2>. QED
      BY <1>2, <2>1, WalkRests
  <1>4. JoinOk(db, to, j)
    <2>1. r.at \notin {"scan", "rights"} /\ to.at \notin {"scan", "rights"}
      BY <1>1
    <2>. QED
      BY <1>2, <2>1, JoinRests
  <1>5. QueryOk(to)
    BY DEF QueryOk
  <1>6. walk' = w /\ join' = j /\ UNCHANGED scenario
    BY <1>1
  <1>. QED
    BY <1>3, <1>4, <1>5, <1>6, ReaderMoves

LEMMA BeginTraverseOk ==
  ASSUME NEW d \in Databases, NEW x \in Ids
  PROVE  LET to == [at |-> "hops", frontier |-> {x}, next |-> {}, depth |-> 0]
             h  == [done |-> FALSE, depth |-> [y \in {x} |-> 0], stood |-> Mentions(d.edges),
                    seen |-> Mentions(d.edges)] IN
         to \in ReaderLocals /\ h \in Hops /\ HopsOk(d, to, h)
  <1>1. PICK to, f : to = [at |-> "hops", frontier |-> {x}, next |-> {}, depth |-> 0] /\ f = [y \in {x} |-> 0]
    OBVIOUS
  <1>2. PICK h : h = [done |-> FALSE, depth |-> f, stood |-> Mentions(d.edges), seen |-> Mentions(d.edges)]
    OBVIOUS
  <1>3. MaxDepth \in Nat /\ MaxNodes \in Nat /\ MaxNodes >= 1
    BY ServingAssumption
  <1>4. to \in ReaderLocals /\ to.at = "hops" /\ to.frontier = {x} /\ to.next = {} /\ to.depth = 0
    BY <1>1, <1>3 DEF ReaderLocals
  <1>5. f \in Depths /\ DOMAIN f = {x} /\ f[x] = 0
    <2>1. f \in [{x} -> 0 .. MaxDepth]
      BY <1>1, <1>3
    <2>. QED
      BY <1>1, <2>1 DEF Depths
  <1>6. h \in Hops /\ ~h.done /\ h.depth = f /\ h.stood = Mentions(d.edges) /\ h.seen = Mentions(d.edges)
    <2>1. Mentions(d.edges) \subseteq Edges
      BY StandingIs
    <2>. QED
      BY <1>2, <1>5, <2>1 DEF Hops
  <1>7. Cardinality({x}) = 1
    BY FS_Singleton
  <1>8. \A z \in DOMAIN h.depth : z = x /\ h.depth[z] = 0
    BY <1>5, <1>6
  <1>9. Explored(h, {z \in DOMAIN h.depth : \/ h.depth[z] < to.depth
                                            \/ h.depth[z] = to.depth /\ z \notin to.frontier})
    <2>1. {z \in DOMAIN h.depth : \/ h.depth[z] < to.depth
                                  \/ h.depth[z] = to.depth /\ z \notin to.frontier} = {}
      BY <1>4, <1>8
    <2>. QED
      BY <2>1 DEF Explored
  <1>10. HopsOk(d, to, h)
    BY <1>3, <1>4, <1>5, <1>6, <1>7, <1>8, <1>9 DEF HopsOk
  <1>. QED
    BY <1>1, <1>2, <1>4, <1>6, <1>10

LEMMA BeginTraverseStep ==
  ASSUME ServingInv, NEW c \in Conns, BeginTraverse(c)
  PROVE  ServingInv'
  <1>1. c = Reader /\ conn[Reader].at = "idle" /\ UNCHANGED <<scenario, walk, join, ask>> /\ NoWrite
    BY DEF BeginTraverse, Asks
  <1>2. PICK d \in Databases : d = db
    BY ReaderHas
  <1>3. PICK x \in scenario.roots :
          /\ conn' = [conn EXCEPT ![Reader] = [at |-> "hops", frontier |-> {x}, next |-> {}, depth |-> 0]]
          /\ hops' = [done |-> FALSE, depth |-> [y \in {x} |-> 0], stood |-> Mentions(d.edges),
                      seen |-> Mentions(d.edges)]
    BY <1>1, <1>2 DEF BeginTraverse, Move
  <1>4. x \in Ids
    BY ServingAssumption DEF ServingInv, Typed, IsScenario
  <1>5. PICK to \in ReaderLocals, h \in Hops :
          /\ to = [at |-> "hops", frontier |-> {x}, next |-> {}, depth |-> 0]
          /\ h = [done |-> FALSE, depth |-> [y \in {x} |-> 0], stood |-> Mentions(d.edges),
                  seen |-> Mentions(d.edges)]
          /\ HopsOk(d, to, h)
    BY <1>4, BeginTraverseOk
  <1>6. conn' = [conn EXCEPT ![Reader] = to] /\ hops' = h /\ to.at = "hops"
    BY <1>3, <1>5
  <1>. QED
    BY <1>1, <1>2, <1>5, <1>6, HopsMove

\* The neighbours of one id, as many as there is room for, are a hop deeper.
Deeper(h, found, k) ==
  [h EXCEPT !.depth = [y \in (DOMAIN h.depth) \cup found |-> IF y \in found THEN k ELSE h.depth[y]]]

LEMMA DeeperIs ==
  ASSUME NEW h \in Hops, NEW found \in SUBSET Ids, found \cap DOMAIN h.depth = {}, NEW k \in 0 .. MaxDepth
  PROVE  LET g == Deeper(h, found, k) IN
         /\ g \in Hops /\ g.done = h.done /\ g.stood = h.stood /\ g.seen = h.seen
         /\ DOMAIN g.depth = (DOMAIN h.depth) \cup found
         /\ \A y \in DOMAIN h.depth : g.depth[y] = h.depth[y]
         /\ \A y \in found : g.depth[y] = k
         /\ Cardinality(DOMAIN g.depth) = Cardinality(DOMAIN h.depth) + Cardinality(found)
  <1>1. PICK f : f = [y \in (DOMAIN h.depth) \cup found |-> IF y \in found THEN k ELSE h.depth[y]]
    OBVIOUS
  <1>2. PICK g : g = Deeper(h, found, k)
    OBVIOUS
  <1>3. h.depth \in Depths
    BY DEF Hops
  <1>4. PICK S \in SUBSET Ids : h.depth \in [S -> 0 .. MaxDepth]
    BY <1>3 DEF Depths
  <1>5. f \in [S \cup found -> 0 .. MaxDepth] /\ DOMAIN f = S \cup found /\ DOMAIN h.depth = S
    BY <1>1, <1>4
  <1>6. f \in Depths
    BY <1>5 DEF Depths
  <1>7. g = [h EXCEPT !.depth = f]
    BY <1>1, <1>2 DEF Deeper
  <1>8. g \in Hops /\ g.done = h.done /\ g.stood = h.stood /\ g.seen = h.seen /\ g.depth = f
    BY <1>6, <1>7 DEF Hops
  <1>9. IsFiniteSet(S) /\ IsFiniteSet(found)
    BY ServingAssumption, FS_Subset
  <1>10. Cardinality(S \cup found) = Cardinality(S) + Cardinality(found)
    <2>1. Cardinality(S \cap found) = 0
      BY <1>5, FS_EmptySet
    <2>2. Cardinality(S) \in Nat /\ Cardinality(found) \in Nat
      BY <1>9, FS_CardinalityType
    <2>. QED
      BY <1>9, <2>1, <2>2, FS_Union
  <1>11. /\ \A y \in DOMAIN h.depth : f[y] = h.depth[y]
         /\ \A y \in found : f[y] = k
    BY <1>1
  <1>. QED
    BY <1>2, <1>5, <1>8, <1>10, <1>11

\* x has neighbours that were not visited; as many of them are found as there is room for.
Unvisited(d, h, x) == {y \in Ids : {x, y} \in Mentions(d.edges)} \ DOMAIN h.depth
Finds(d, h, x, found) ==
  /\ found \subseteq Unvisited(d, h, x)
  /\ Cardinality(found) =
       Min({Cardinality(Unvisited(d, h, x)), MaxNodes - Cardinality(DOMAIN h.depth)})
Goes(d, r, h) ==
  HopsOk(d, r, h) /\ r.at = "hops" /\ r.depth < MaxDepth /\ ~(Cardinality(DOMAIN h.depth) >= MaxNodes)

Asked(r, h, x) ==
  {z \in DOMAIN h.depth : \/ h.depth[z] < r.depth
                          \/ h.depth[z] = r.depth /\ (z \notin r.frontier \/ z = x)}
Hopped(r, h, x, found, g) ==
  /\ g \in Hops /\ g.done = h.done /\ g.stood = h.stood /\ g.seen = h.seen
  /\ DOMAIN g.depth = (DOMAIN h.depth) \cup found /\ found \cap DOMAIN h.depth = {} /\ found \subseteq Ids
  /\ \A y \in DOMAIN h.depth : g.depth[y] = h.depth[y]
  /\ \A y \in found : g.depth[y] = r.depth + 1
  /\ Cardinality(DOMAIN g.depth) <= MaxNodes
  /\ Explored(g, Asked(r, h, x))

\* With x asked, its neighbours that stood are in, unless the traverse is full with it.
LEMMA HopExplores ==
  ASSUME NEW d \in Databases, NEW r \in ReaderLocals, NEW h \in Hops, Goes(d, r, h), NEW x \in r.frontier,
         NEW found, Finds(d, h, x, found), NEW g, g = Deeper(h, found, r.depth + 1)
  PROVE  Hopped(r, h, x, found, g)
  <1>a. PICK new : new = Unvisited(d, h, x)
    OBVIOUS
  <1>b. /\ HopsOk(d, r, h) /\ r.at = "hops" /\ r.depth < MaxDepth
        /\ ~(Cardinality(DOMAIN h.depth) >= MaxNodes)
    BY DEF Goes
  <1>c. /\ new = {y \in Ids : {x, y} \in Mentions(d.edges)} \ DOMAIN h.depth /\ found \in SUBSET new
        /\ Cardinality(found) = Min({Cardinality(new), MaxNodes - Cardinality(DOMAIN h.depth)})
    BY <1>a DEF Unvisited, Finds
  <1>1. r.depth \in Nat /\ r.depth + 1 \in 0 .. MaxDepth
    <2>1. r.depth \in 0 .. MaxDepth /\ MaxDepth \in Nat
      BY <1>b, ReaderLocalIs, ServingAssumption
    <2>. QED
      BY <1>b, <2>1
  <1>2. PICK n \in Nat, m \in Nat, k \in Nat : n = Cardinality(DOMAIN h.depth) /\ m = Cardinality(new) /\ k = MaxNodes
    <2>1. Cardinality(DOMAIN h.depth) \in Nat
      BY DepthsAre DEF Hops
    <2>2. IsFiniteSet(new)
      BY <1>c, ServingAssumption, FS_Subset
    <2>3. Cardinality(new) \in Nat
      BY <2>2, FS_CardinalityType
    <2>. QED
      BY <2>1, <2>3, ServingAssumption
  <1>3. n < k /\ k - n \in Nat
    BY <1>2, <1>b
  <1>4. Cardinality(found) = IF m <= k - n THEN m ELSE k - n
    BY <1>2, <1>3, <1>c, SmallerOf
  <1>5. found \in SUBSET Ids /\ found \cap DOMAIN h.depth = {} /\ new \subseteq Ids /\ IsFiniteSet(new)
    <2>1. new \in SUBSET Ids
      BY <1>c
    <2>. QED
      BY <1>c, <2>1, ServingAssumption, FS_Subset
  <1>6. /\ g \in Hops /\ g.done = h.done /\ g.stood = h.stood /\ g.seen = h.seen
        /\ DOMAIN g.depth = (DOMAIN h.depth) \cup found
        /\ \A y \in DOMAIN h.depth : g.depth[y] = h.depth[y]
        /\ \A y \in found : g.depth[y] = r.depth + 1
        /\ Cardinality(DOMAIN g.depth) = n + Cardinality(found)
    BY <1>1, <1>2, <1>5, DeeperIs
  <1>7. Cardinality(DOMAIN g.depth) <= MaxNodes
    BY <1>2, <1>3, <1>4, <1>6
  <1>8. Cardinality(DOMAIN g.depth) < MaxNodes => found = new
    <2>. SUFFICES ASSUME Cardinality(DOMAIN g.depth) < MaxNodes PROVE found = new
      OBVIOUS
    <2>1. Cardinality(found) = m
      BY <1>2, <1>3, <1>4, <1>6
    <2>. QED
      BY <1>2, <1>5, <1>c, <2>1, FS_Subset
  <1>9. \A z \in DOMAIN h.depth : h.depth[z] \in Nat /\ h.depth[z] <= r.depth + 1
    <2>1. \A z \in DOMAIN h.depth : h.depth[z] \in Nat
      BY DepthsAre DEF Hops
    <2>. QED
      BY <1>b, <2>1 DEF HopsOk
  <1>10. \A z \in DOMAIN g.depth : g.depth[z] \in Nat /\ g.depth[z] <= r.depth + 1
    BY <1>1, <1>6, <1>9
  <1>11. ~h.done /\ h.stood \subseteq Mentions(d.edges) /\ x \in DOMAIN h.depth /\ h.depth[x] = r.depth
    BY <1>b DEF HopsOk
  <1>12. Explored(g, Asked(r, h, x))
    <2>. SUFFICES ASSUME NEW z \in DOMAIN h.depth,
                         h.depth[z] < r.depth \/ (h.depth[z] = r.depth /\ (z \notin r.frontier \/ z = x)),
                         NEW y \in Ids, {z, y} \in h.stood,
                         Cardinality(DOMAIN g.depth) >= MaxNodes =>
                           \E u \in DOMAIN g.depth : g.depth[u] >= g.depth[z] + 2
                  PROVE  y \in DOMAIN g.depth /\ g.depth[y] <= g.depth[z] + 1
      BY <1>6 DEF Explored, Asked
    <2>1. CASE z # x
      <3>1. Explored(h, {u \in DOMAIN h.depth : \/ h.depth[u] < r.depth
                                                \/ h.depth[u] = r.depth /\ u \notin r.frontier})
        BY <1>b DEF HopsOk
      <3>2. y \in DOMAIN h.depth /\ h.depth[y] <= h.depth[z] + 1
        BY <1>b, <2>1, <3>1 DEF Explored
      <3>. QED
        BY <1>6, <3>2
    <2>2. CASE z = x
      <3>1. g.depth[z] = r.depth
        BY <1>6, <1>11, <2>2
      <3>2. CASE y \in DOMAIN h.depth
        BY <1>6, <1>10, <3>1, <3>2
      <3>3. CASE y \notin DOMAIN h.depth
        <4>1. y \in new
          BY <1>c, <1>11, <2>2, <3>3
        <4>2. Cardinality(DOMAIN g.depth) < MaxNodes
          <5>1. \A u \in DOMAIN g.depth : ~(g.depth[u] >= g.depth[z] + 2)
            BY <1>1, <1>10, <3>1
          <5>2. ~(Cardinality(DOMAIN g.depth) >= MaxNodes)
            BY <5>1
          <5>. QED
            BY <1>2, <1>4, <1>6, <5>2
        <4>3. y \in found
          BY <1>8, <4>1, <4>2
        <4>. QED
          BY <1>1, <1>6, <3>1, <4>3
      <3>. QED
        BY <3>2, <3>3
    <2>. QED
      BY <2>1, <2>2
  <1>. QED
    BY <1>5, <1>6, <1>7, <1>12 DEF Hopped

\* What is left to ask: the rest of this depth, or all that was found.
Onward(r, x, found) ==
  IF r.frontier \ {x} # {} THEN [r EXCEPT !.frontier = r.frontier \ {x}, !.next = r.next \cup found]
  ELSE [r EXCEPT !.frontier = r.next \cup found, !.next = {}, !.depth = @ + 1]

LEMMA HopOk ==
  ASSUME NEW d \in Databases, NEW r \in ReaderLocals, NEW h \in Hops, Goes(d, r, h), NEW x \in r.frontier,
         NEW found, Finds(d, h, x, found), NEW g, g = Deeper(h, found, r.depth + 1),
         NEW to, to = Onward(r, x, found)
  PROVE  g \in Hops /\ to \in ReaderLocals /\ to.at = "hops" /\ HopsOk(d, to, g)
  <1>a. HopsOk(d, r, h) /\ r.at = "hops" /\ r.depth < MaxDepth
    BY DEF Goes
  <1>b. \A z \in found : z \in Ids /\ {x, z} \in Mentions(d.edges)
    BY DEF Finds, Unvisited
  <1>c. Hopped(r, h, x, found, g)
    BY HopExplores
  <1>1. /\ r \in [at : {"hops"}, frontier : SUBSET Ids, next : SUBSET Ids, depth : 0 .. MaxDepth]
        /\ r.depth \in Nat /\ r.depth + 1 \in 0 .. MaxDepth
    <2>1. r \in [at : {"hops"}, frontier : SUBSET Ids, next : SUBSET Ids, depth : 0 .. MaxDepth]
      BY <1>a, ReaderLocalIs
    <2>2. r.depth \in 0 .. MaxDepth /\ MaxDepth \in Nat
      BY <2>1, ServingAssumption
    <2>. QED
      BY <1>a, <2>1, <2>2
  <1>. DEFINE V == DOMAIN h.depth
              asked == Asked(r, h, x)
  <1>2. /\ g \in Hops /\ g.done = h.done /\ g.stood = h.stood /\ g.seen = h.seen
        /\ DOMAIN g.depth = V \cup found /\ found \cap V = {} /\ found \subseteq Ids
        /\ \A y \in V : g.depth[y] = h.depth[y]
        /\ \A y \in found : g.depth[y] = r.depth + 1
        /\ Cardinality(DOMAIN g.depth) <= MaxNodes
        /\ Explored(g, asked)
    BY <1>c DEF Hopped
  <1>3. /\ ~h.done /\ h.stood \subseteq Mentions(d.edges) /\ Mentions(d.edges) \subseteq h.seen
        /\ \A z \in r.frontier : z \in V /\ h.depth[z] = r.depth
        /\ \A z \in V : h.depth[z] <= r.depth + 1 /\ (h.depth[z] = r.depth + 1 <=> z \in r.next)
        /\ r.next \subseteq V /\ (r.frontier = {} => r.next = {})
        /\ \A z \in V : h.depth[z] > 0 => \E y \in V : h.depth[y] = h.depth[z] - 1 /\ {y, z} \in h.seen
    BY <1>a DEF HopsOk
  <1>4. \A z \in V : h.depth[z] \in Nat
    BY DepthsAre DEF Hops
  <1>d. asked = {z \in V : h.depth[z] < r.depth \/ (h.depth[z] = r.depth /\ (z \notin r.frontier \/ z = x))}
    BY DEF Asked
  <1>e. r.next \cup found \in SUBSET Ids /\ r.frontier \ {x} \in SUBSET Ids
    BY <1>1, <1>b
  <1>. HIDE DEF V, asked
  <1>5. \A z \in DOMAIN g.depth : g.depth[z] > 0 =>
          \E y \in DOMAIN g.depth : g.depth[y] = g.depth[z] - 1 /\ {y, z} \in g.seen
    <2>. SUFFICES ASSUME NEW z \in DOMAIN g.depth, g.depth[z] > 0
                  PROVE  \E y \in DOMAIN g.depth : g.depth[y] = g.depth[z] - 1 /\ {y, z} \in g.seen
      OBVIOUS
    <2>1. CASE z \in V
      <3>1. PICK y \in V : h.depth[y] = h.depth[z] - 1 /\ {y, z} \in h.seen
        BY <1>2, <1>3, <2>1
      <3>. QED
        BY <1>2, <2>1, <3>1
    <2>2. CASE z \in found
      <3>1. {x, z} \in h.seen /\ x \in V /\ h.depth[x] = r.depth
        BY <1>3, <1>b, <2>2
      <3>2. g.depth[x] = g.depth[z] - 1 /\ x \in DOMAIN g.depth /\ {x, z} \in g.seen
        BY <1>1, <1>2, <2>2, <3>1
      <3>. QED
        BY <3>2
    <2>. QED
      BY <1>2, <2>1, <2>2
  <1>6. \A z \in DOMAIN g.depth : /\ g.depth[z] <= r.depth + 1
                                  /\ g.depth[z] = r.depth + 1 <=> z \in r.next \cup found
    BY <1>1, <1>2, <1>3
  <1>7. \A z \in DOMAIN g.depth : g.depth[z] \in Nat
    BY <1>1, <1>2, <1>4
  <1>8. r.next \cup found \subseteq DOMAIN g.depth /\ r.frontier \subseteq DOMAIN g.depth
    BY <1>2, <1>3
  <1>9. CASE r.frontier \ {x} # {}
    <2>1. to = [r EXCEPT !.frontier = r.frontier \ {x}, !.next = r.next \cup found]
      BY <1>9 DEF Onward
    <2>a. /\ to \in [at : {"hops"}, frontier : SUBSET Ids, next : SUBSET Ids, depth : 0 .. MaxDepth]
          /\ to.at = "hops" /\ to.frontier = r.frontier \ {x}
          /\ to.next = r.next \cup found /\ to.depth = r.depth
      BY <1>1, <1>e, <2>1
    <2>2. /\ to \in ReaderLocals /\ to.at = "hops" /\ to.frontier = r.frontier \ {x}
          /\ to.next = r.next \cup found /\ to.depth = r.depth
      BY <2>a DEF ReaderLocals
    <2>3. \A z \in to.frontier : z \in DOMAIN g.depth /\ g.depth[z] = to.depth
      BY <1>2, <1>3, <2>2
    <2>4. {z \in DOMAIN g.depth : \/ g.depth[z] < to.depth
                                  \/ g.depth[z] = to.depth /\ z \notin to.frontier} \subseteq asked
      <3>. SUFFICES ASSUME NEW z \in DOMAIN g.depth,
                           g.depth[z] < r.depth \/ (g.depth[z] = r.depth /\ z \notin r.frontier \ {x})
                    PROVE  z \in asked
        BY <2>2
      <3>1. z \in V /\ g.depth[z] = h.depth[z]
        BY <1>1, <1>2
      <3>. QED
        BY <1>d, <3>1
    <2>5. Explored(g, {z \in DOMAIN g.depth : \/ g.depth[z] < to.depth
                                              \/ g.depth[z] = to.depth /\ z \notin to.frontier})
      BY <1>2, <2>4 DEF Explored
    <2>6. /\ \A z \in DOMAIN g.depth :
               g.depth[z] <= to.depth + 1 /\ (g.depth[z] = to.depth + 1 <=> z \in to.next)
          /\ to.next \subseteq DOMAIN g.depth /\ to.frontier # {}
      BY <1>6, <1>8, <1>9, <2>2
    <2>7. HopsOk(d, to, g)
      BY <1>2, <1>3, <1>5, <2>2, <2>3, <2>5, <2>6 DEF HopsOk
    <2>. QED
      BY <1>2, <2>2, <2>7
  <1>10. CASE r.frontier \ {x} = {}
    <2>1. to = [r EXCEPT !.frontier = r.next \cup found, !.next = {}, !.depth = @ + 1]
      BY <1>10 DEF Onward
    <2>a. /\ to \in [at : {"hops"}, frontier : SUBSET Ids, next : SUBSET Ids, depth : 0 .. MaxDepth]
          /\ to.at = "hops" /\ to.frontier = r.next \cup found /\ to.next = {} /\ to.depth = r.depth + 1
      BY <1>1, <1>e, <2>1
    <2>2. /\ to \in ReaderLocals /\ to.at = "hops" /\ to.frontier = r.next \cup found
          /\ to.next = {} /\ to.depth = r.depth + 1
      BY <2>a DEF ReaderLocals
    <2>3. \A z \in to.frontier : z \in DOMAIN g.depth /\ g.depth[z] = to.depth
      BY <1>6, <1>8, <2>2
    <2>4. {z \in DOMAIN g.depth : \/ g.depth[z] < to.depth
                                  \/ g.depth[z] = to.depth /\ z \notin to.frontier} \subseteq asked
      <3>. SUFFICES ASSUME NEW z \in DOMAIN g.depth, g.depth[z] < r.depth + 1 PROVE z \in asked
        BY <1>6, <2>2
      <3>1. z \in V /\ h.depth[z] \in Nat /\ h.depth[z] < r.depth + 1
        BY <1>1, <1>2, <1>4
      <3>2. h.depth[z] < r.depth \/ h.depth[z] = r.depth
        BY <1>1, <3>1
      <3>. QED
        BY <1>10, <1>d, <3>1, <3>2
    <2>5. Explored(g, {z \in DOMAIN g.depth : \/ g.depth[z] < to.depth
                                              \/ g.depth[z] = to.depth /\ z \notin to.frontier})
      BY <1>2, <2>4 DEF Explored
    <2>6. \A z \in DOMAIN g.depth : g.depth[z] <= to.depth + 1 /\ (g.depth[z] = to.depth + 1 <=> z \in to.next)
      BY <1>1, <1>6, <1>7, <2>2
    <2>7. HopsOk(d, to, g)
      BY <1>2, <1>3, <1>5, <2>2, <2>3, <2>5, <2>6 DEF HopsOk
    <2>. QED
      BY <1>2, <2>2, <2>7
  <1>. QED
    BY <1>9, <1>10

LEMMA HopStep ==
  ASSUME ServingInv, NEW c \in Conns, Hop(c)
  PROVE  ServingInv'
  <1>1. /\ c = Reader /\ conn[Reader].at = "hops" /\ UNCHANGED <<scenario, walk, join, ask>> /\ NoWrite
        /\ conn[Reader].depth < MaxDepth /\ ~Full
    BY ReadingIs DEF Hop
  <1>2. PICK r \in ReaderLocals, d \in Databases, h \in Hops : r = conn[Reader] /\ d = db /\ h = hops
    BY ReaderHas
  <1>3. Goes(d, r, h)
    BY <1>1, <1>2, ReaderHas DEF Full, Visited, Goes
  <1>4. PICK x \in conn[c].frontier :
          \E found \in kSubset(Min({Cardinality(Beside(x) \ Visited), MaxNodes - Cardinality(Visited)}),
                               Beside(x) \ Visited) :
            /\ hops' = [hops EXCEPT !.depth = [y \in Visited \cup found |->
                                                 IF y \in found THEN conn[c].depth + 1 ELSE hops.depth[y]]]
            /\ Move(c, IF conn[c].frontier \ {x} # {}
                       THEN [conn[c] EXCEPT !.frontier = conn[c].frontier \ {x}, !.next = conn[c].next \cup found]
                       ELSE [conn[c] EXCEPT !.frontier = conn[c].next \cup found, !.next = {}, !.depth = @ + 1])
    BY DEF Hop
  <1>5. PICK found \in kSubset(Min({Cardinality(Beside(x) \ Visited), MaxNodes - Cardinality(Visited)}),
                               Beside(x) \ Visited) :
            /\ hops' = [hops EXCEPT !.depth = [y \in Visited \cup found |->
                                                 IF y \in found THEN conn[c].depth + 1 ELSE hops.depth[y]]]
            /\ Move(c, IF conn[c].frontier \ {x} # {}
                       THEN [conn[c] EXCEPT !.frontier = conn[c].frontier \ {x}, !.next = conn[c].next \cup found]
                       ELSE [conn[c] EXCEPT !.frontier = conn[c].next \cup found, !.next = {}, !.depth = @ + 1])
    BY <1>4
  <1>6. x \in r.frontier /\ Beside(x) \ Visited = Unvisited(d, h, x)
    BY <1>1, <1>2, <1>4 DEF Beside, Visited, Unvisited
  <1>8. Finds(d, h, x, found)
    BY <1>2, <1>5, <1>6 DEF kSubset, Visited, Finds
  <1>9. PICK g, to : g = Deeper(h, found, r.depth + 1) /\ to = Onward(r, x, found)
    OBVIOUS
  <1>10. hops' = g
    BY <1>1, <1>2, <1>5, <1>9 DEF Deeper, Visited
  <1>11. conn' = [conn EXCEPT ![Reader] = to]
    BY <1>1, <1>2, <1>5, <1>9 DEF Move, Onward
  <1>12. g \in Hops /\ to \in ReaderLocals /\ to.at = "hops" /\ HopsOk(d, to, g)
    BY <1>3, <1>6, <1>8, <1>9, HopOk
  <1>. QED
    BY <1>1, <1>2, <1>10, <1>11, <1>12, HopsMove

LEMMA EndTraverseStep ==
  ASSUME ServingInv, NEW c \in Conns, EndTraverse(c)
  PROVE  ServingInv'
  <1>1. /\ c = Reader /\ conn[Reader].at = "hops" /\ UNCHANGED <<scenario, walk, join, ask>> /\ NoWrite
        /\ Full \/ conn[Reader].depth = MaxDepth \/ conn[Reader].frontier = {}
    BY ReadingIs DEF EndTraverse
  <1>2. PICK r \in ReaderLocals, d \in Databases, h \in Hops : r = conn[Reader] /\ d = db /\ h = hops
    BY ReaderHas
  <1>3. /\ HopsOk(d, r, h) /\ r.at = "hops"
        /\ Cardinality(DOMAIN h.depth) >= MaxNodes \/ r.depth = MaxDepth \/ r.frontier = {}
    BY <1>1, <1>2, ReaderHas DEF Full, Visited
  <1>4. PICK g : g = [h EXCEPT !.done = TRUE]
    OBVIOUS
  <1>5. g \in Hops /\ g.done /\ g.depth = h.depth /\ g.stood = h.stood /\ g.seen = h.seen
    BY <1>4 DEF Hops
  <1>6. r.depth \in Nat /\ \A x \in DOMAIN h.depth : h.depth[x] \in Nat
    <2>1. r.depth \in 0 .. MaxDepth /\ MaxDepth \in Nat
      BY <1>3, ReaderLocalIs, ServingAssumption
    <2>. QED
      BY <2>1, DepthsAre DEF Hops
  <1>7. Explored(g, {x \in DOMAIN g.depth : g.depth[x] < MaxDepth})
    <2>. SUFFICES ASSUME NEW x \in DOMAIN h.depth, h.depth[x] < MaxDepth, NEW y \in Ids, {x, y} \in h.stood,
                         Cardinality(DOMAIN h.depth) >= MaxNodes =>
                           \E z \in DOMAIN h.depth : h.depth[z] >= h.depth[x] + 2
                  PROVE  y \in DOMAIN h.depth /\ h.depth[y] <= h.depth[x] + 1
      BY <1>5 DEF Explored
    <2>1. /\ \A z \in DOMAIN h.depth : h.depth[z] <= r.depth + 1 /\ (h.depth[z] = r.depth + 1 <=> z \in r.next)
          /\ r.frontier = {} => r.next = {}
          /\ Explored(h, {z \in DOMAIN h.depth : \/ h.depth[z] < r.depth
                                                 \/ h.depth[z] = r.depth /\ z \notin r.frontier})
      BY <1>3 DEF HopsOk
    <2>2. h.depth[x] < r.depth \/ (h.depth[x] = r.depth /\ x \notin r.frontier)
      <3>1. CASE Cardinality(DOMAIN h.depth) >= MaxNodes
        <4>1. PICK z \in DOMAIN h.depth : h.depth[z] >= h.depth[x] + 2
          BY <3>1
        <4>. QED
          BY <1>6, <2>1, <4>1
      <3>2. CASE r.depth = MaxDepth
        BY <3>2
      <3>3. CASE r.frontier = {}
        BY <1>6, <2>1, <3>3
      <3>. QED
        BY <1>3, <3>1, <3>2, <3>3
    <2>. QED
      BY <2>1, <2>2 DEF Explored
  <1>8. HopsOk(d, Idle, g)
    BY <1>3, <1>5, <1>7, ReaderHas DEF HopsOk
  <1>9. conn' = [conn EXCEPT ![Reader] = Idle] /\ hops' = g
    BY <1>1, <1>2, <1>4 DEF EndTraverse, Move
  <1>. QED
    BY <1>1, <1>2, <1>5, <1>8, <1>9, ReaderHas, HopsMove


------------------------------------------------------------------------------
(* Queries                                                                 *)

\* A step of a query.
LEMMA QueryMoves ==
  ASSUME ServingInv, NEW to \in ReaderLocals,
         conn[Reader].at \in {"idle", "query"}, to.at \in {"idle", "query"},
         conn' = [conn EXCEPT ![Reader] = to], UNCHANGED <<scenario, walk, join, hops>>, NoWrite, QueryOk(to)
  PROVE  ServingInv'
  <1>1. PICK r \in ReaderLocals, w \in Walks, j \in Joins, h \in Hops :
          r = conn[Reader] /\ w = walk /\ j = join /\ h = hops
    BY ReaderHas
  <1>2. WalkOk(db, r, w) /\ JoinOk(db, r, j) /\ HopsOk(db, r, h)
    BY <1>1, ReaderHas
  <1>3. WalkOk(db, to, w)
    <2>1. r.at # "rows" /\ to.at \notin {"keys", "rows"}
      BY <1>1
    <2>. QED
      BY <1>2, <2>1, WalkRests
  <1>4. JoinOk(db, to, j)
    <2>1. r.at \notin {"scan", "rights"} /\ to.at \notin {"scan", "rights"}
      BY <1>1
    <2>. QED
      BY <1>2, <2>1, JoinRests
  <1>5. HopsOk(db, to, h)
    <2>1. r.at # "hops" /\ to.at # "hops"
      BY <1>1
    <2>. QED
      BY <1>2, <2>1, HopsRest
  <1>6. walk' = w /\ join' = j /\ hops' = h /\ UNCHANGED scenario
    BY <1>1
  <1>. QED
    BY <1>3, <1>4, <1>5, <1>6, ReaderMoves

LEMMA BeginQueryStep ==
  ASSUME ServingInv, NEW c \in Conns, BeginQuery(c)
  PROVE  ServingInv'
  <1>1. /\ c = Reader /\ conn[Reader].at = "idle" /\ UNCHANGED <<scenario, walk, join, hops>> /\ NoWrite
        /\ conn' = [conn EXCEPT ![Reader] = [at |-> "query", ids |-> Live(db, Memories), rows |-> <<>>]]
    BY DEF BeginQuery, Asks, Move
  <1>2. PICK to : to = [at |-> "query", ids |-> Live(db, Memories), rows |-> <<>>]
    OBVIOUS
  <1>3. <<>> \in Seq(MemoryRows) /\ Live(db, Memories) \subseteq Memories
    BY DEF Live
  <1>4. to \in ReaderLocals /\ to.at = "query" /\ to.rows = <<>>
    BY <1>2, <1>3 DEF ReaderLocals
  <1>5. QueryOk(to)
    BY <1>4 DEF QueryOk
  <1>. QED
    BY <1>1, <1>2, <1>4, <1>5, QueryMoves

\* The row of an id: one, or none.
OneRow(t, x) == t \in Seq(MemoryRows) /\ Len(t) <= 1 /\ \A i \in DOMAIN t : t[i].id = x
RowsWith(r, x, t) == [r EXCEPT !.ids = @ \ {x}, !.rows = @ \o t]

LEMMA RowsOf ==
  ASSUME NEW d \in Databases, NEW x \in Memories
  PROVE  OneRow(SetToSeq({row \in Stored(d) : row.id = x}), x)
  <1>. DEFINE S == {row \in Stored(d) : row.id = x}
              m == [id |-> x, fields |-> [updated_at |-> d.records[x], content |-> "text", tags |-> {}]]
  <1>1. PICK t : t = SetToSeq(S)
    OBVIOUS
  <1>2. S \subseteq {m}
    BY DEF Stored
  <1>3. S \subseteq MemoryRows /\ \A row \in S : row.id = x
    <2>. SUFFICES ASSUME NEW row \in S PROVE row \in MemoryRows
      OBVIOUS
    <2>1. Has(d, x) /\ row = m
      BY <1>2 DEF Stored, Live
    <2>2. d.records[x] \in Stamps
      BY <2>1, Kinds, HasIs
    <2>3. {} \in {{}}
      OBVIOUS
    <2>. QED
      BY <2>1, <2>2, <2>3 DEF MemoryRows
  <1>4. Cardinality(S) \in {0, 1} /\ \E f \in [1 .. Cardinality(S) -> S] : IsInjective(f)
    <2>1. CASE S = {}
      <3>1. Cardinality(S) = 0
        BY <2>1, FS_EmptySet
      <3>2. PICK f : f = [i \in 1 .. 0 |-> m]
        OBVIOUS
      <3>3. f \in [1 .. 0 -> S] /\ IsInjective(f)
        BY <3>2 DEF IsInjective
      <3>. QED
        BY <3>1, <3>3
    <2>2. CASE S = {m}
      <3>1. Cardinality(S) = 1
        BY <2>2, FS_Singleton
      <3>2. PICK f : f = [i \in 1 .. 1 |-> m]
        OBVIOUS
      <3>3. f \in [1 .. 1 -> S] /\ IsInjective(f)
        BY <2>2, <3>2 DEF IsInjective
      <3>. QED
        BY <3>1, <3>3
    <2>. HIDE DEF S, m
    <2>. QED
      BY <1>2, <2>1, <2>2
  <1>. HIDE DEF S
  <1>5. t \in [1 .. Cardinality(S) -> S]
    BY <1>1, <1>4 DEF SetToSeq
  <1>6. t \in [1 .. Cardinality(S) -> MemoryRows] /\ \A i \in 1 .. Cardinality(S) : t[i].id = x
    BY <1>3, <1>5
  <1>7. t \in Seq(MemoryRows) /\ Len(t) = Cardinality(S) /\ DOMAIN t = 1 .. Cardinality(S)
    BY <1>4, <1>6
  <1>8. Len(t) <= 1
    BY <1>4, <1>7
  <1>. QED
    BY <1>1, <1>6, <1>7, <1>8 DEF S, OneRow

\* Rows of other ids and at most one of x, which is not to be read again.
LEMMA RowsJoin ==
  ASSUME NEW r \in ReaderLocals, r.at = "query", QueryOk(r), NEW x \in r.ids,
         NEW t, OneRow(t, x), NEW to, to = RowsWith(r, x, t)
  PROVE  to \in ReaderLocals /\ to.at = "query" /\ QueryOk(to)
  <1>a. t \in Seq(MemoryRows) /\ Len(t) <= 1 /\ \A i \in DOMAIN t : t[i].id = x
    BY DEF OneRow
  <1>1. r \in [at : {"query"}, ids : SUBSET Memories, rows : Seq(MemoryRows)]
    BY DEF ReaderLocals, Idle
  <1>2. PICK s \in Seq(MemoryRows) : s = r.rows
    BY <1>1
  <1>3. PICK u : u = s \o t
    OBVIOUS
  <1>4. /\ u \in Seq(MemoryRows) /\ Len(u) = Len(s) + Len(t)
        /\ \A i \in 1 .. Len(u) : u[i] = IF i <= Len(s) THEN s[i] ELSE t[i - Len(s)]
    BY <1>2, <1>3, <1>a
  <1>5. /\ to \in [at : {"query"}, ids : SUBSET Memories, rows : Seq(MemoryRows)]
        /\ to.at = "query" /\ to.ids = r.ids \ {x} /\ to.rows = u
    BY <1>1, <1>2, <1>3, <1>4 DEF RowsWith
  <1>6. to \in ReaderLocals
    BY <1>5 DEF ReaderLocals
  <1>7. /\ \A i \in 1 .. Len(s) : s[i].id \notin r.ids
        /\ \A i, j \in 1 .. Len(s) : s[i].id = s[j].id => i = j
    BY <1>2 DEF QueryOk
  <1>8. Len(s) \in Nat /\ Len(t) \in Nat /\ Len(t) <= 1
    BY <1>a
  <1>9. \A i \in 1 .. Len(t) : t[i].id = x
    BY <1>a
  <1>10. ASSUME NEW i \in 1 .. Len(u)
         PROVE  /\ i \in 1 .. Len(s) => u[i].id = s[i].id /\ u[i].id \notin r.ids
                /\ i \notin 1 .. Len(s) => u[i].id = x /\ i = Len(s) + 1
    <2>1. CASE i \in 1 .. Len(s)
      <3>1. u[i] = s[i]
        BY <1>4, <1>8, <2>1
      <3>. QED
        BY <1>7, <2>1, <3>1
    <2>2. CASE i \notin 1 .. Len(s)
      <3>1. i - Len(s) \in 1 .. Len(t) /\ ~(i <= Len(s)) /\ i = Len(s) + 1
        BY <1>4, <1>8, <2>2
      <3>. QED
        BY <1>4, <1>9, <2>2, <3>1
    <2>. QED
      BY <2>1, <2>2
  <1>11. QueryOk(to)
    <2>1. DOMAIN u = 1 .. Len(u)
      BY <1>4
    <2>2. ASSUME NEW i \in 1 .. Len(u), NEW j \in 1 .. Len(u), u[i].id = u[j].id PROVE i = j
      <3>1. CASE i \in 1 .. Len(s) /\ j \in 1 .. Len(s)
        BY <1>7, <1>10, <2>2, <3>1
      <3>2. CASE i \notin 1 .. Len(s) /\ j \notin 1 .. Len(s)
        BY <1>10, <3>2
      <3>3. CASE i \in 1 .. Len(s) /\ j \notin 1 .. Len(s)
        BY <1>10, <2>2, <3>3
      <3>4. CASE i \notin 1 .. Len(s) /\ j \in 1 .. Len(s)
        BY <1>10, <2>2, <3>4
      <3>. QED
        BY <3>1, <3>2, <3>3, <3>4
    <2>3. \A i \in 1 .. Len(u) : u[i].id \notin r.ids \ {x}
      BY <1>10
    <2>. QED
      BY <1>5, <2>1, <2>2, <2>3 DEF QueryOk
  <1>. QED
    BY <1>5, <1>6, <1>11

LEMMA ReadRowStep ==
  ASSUME ServingInv, NEW c \in Conns, ReadRow(c)
  PROVE  ServingInv'
  <1>1. /\ c = Reader /\ conn[Reader].at = "query" /\ UNCHANGED <<scenario, walk, join, hops>> /\ NoWrite
    BY ReadingIs DEF ReadRow, NoRead
  <1>2. PICK r \in ReaderLocals, d \in Databases : r = conn[Reader] /\ d = db /\ r.at = "query"
    BY <1>1, ReaderHas
  <1>3. PICK x \in conn[c].ids :
          Move(c, [conn[c] EXCEPT !.ids = @ \ {x},
                     !.rows = @ \o SetToSeq({row \in Stored(db) : row.id = x})])
    BY DEF ReadRow
  <1>4. x \in r.ids /\ x \in Memories
    BY <1>1, <1>2, <1>3 DEF ReaderLocals, Idle
  <1>5. PICK t : t = SetToSeq({row \in Stored(d) : row.id = x})
    OBVIOUS
  <1>6. OneRow(t, x)
    BY <1>4, <1>5, RowsOf
  <1>7. PICK to : to = RowsWith(r, x, t)
    OBVIOUS
  <1>8. conn' = [conn EXCEPT ![Reader] = to]
    BY <1>1, <1>2, <1>3, <1>5, <1>7 DEF Move, RowsWith
  <1>9. QueryOk(r)
    BY <1>2, ReaderHas
  <1>10. to \in ReaderLocals /\ to.at = "query" /\ QueryOk(to)
    BY <1>2, <1>4, <1>6, <1>7, <1>9, RowsJoin
  <1>. QED
    BY <1>1, <1>8, <1>10, QueryMoves

LEMMA EndQueryStep ==
  ASSUME ServingInv, NEW c \in Conns, NEW q, EndQuery(c, q)
  PROVE  ServingInv'
  <1>1. /\ c = Reader /\ conn[Reader].at = "query" /\ UNCHANGED <<scenario, walk, join, hops>> /\ NoWrite
        /\ conn' = [conn EXCEPT ![Reader] = Idle]
    BY ReadingIs DEF EndQuery, Move
  <1>2. QueryOk(Idle)
    BY ReaderHas DEF QueryOk
  <1>. QED
    BY <1>1, <1>2, ReaderHas, QueryMoves

------------------------------------------------------------------------------
(* The invariant                                                           *)

LEMMA ServingInit == Init => ServingInv
  <1>. SUFFICES ASSUME Init PROVE ServingInv
    OBVIOUS
  <1>1. scenario \in Scenarios /\ db \in Databases /\ \A x \in UNION db.edges : db.records[x] # Absent
    <2>1. scenario \in Scenarios /\ db \in scenario.start
      BY DEF Init
    <2>. QED
      BY <2>1, ServingAssumption DEF IsScenario, Databases
  <1>2. /\ conn = [c \in Conns |-> Idle] /\ Reader \in Conns /\ Idle.at = "idle"
        /\ Idle \in ReaderLocals /\ Idle \in WriterLocals
    BY ServingAssumption DEF Init, Idle, ReaderLocals, WriterLocals
  <1>3. ledger = [acked |-> {}, unchecked |-> {}, leftover |-> {}, stale |-> {}] /\ ledger \in Ledgers
    BY DEF Init, Ledgers
  <1>4. walk = [done |-> TRUE, cursor |-> NoKey, untouched |-> {}, returned |-> {}, again |-> {},
                shifted |-> FALSE] /\ walk \in Walks
    BY DEF Init, Walks, Cursors
  <1>5. join = NoJoin /\ join \in Joins /\ hops = NoHops /\ hops \in Hops
    BY NoHopsFacts DEF Init, NoJoin, Joins
  <1>6. Typed
    BY <1>1, <1>2, <1>3, <1>4, <1>5 DEF Typed
  <1>7. \A c \in Conns : conn[c] = Idle
    BY <1>2
  <1>8. LinksOk(db, ledger, conn)
    <2>1. Resolves(db, ledger, ledger.leftover \cup DetachedIn(conn))
      BY <1>1 DEF Resolves, Has
    <2>2. Kept(ledger, conn) /\ Checked(db, ledger, conn)
      BY <1>2, <1>7 DEF Kept, Checked
    <2>. QED
      BY <1>3, <2>1, <2>2 DEF LinksOk
  <1>9. WalkOk(db, conn[Reader], walk)
    BY <1>2, <1>4, <1>7 DEF WalkOk
  <1>10. JoinOk(db, conn[Reader], join)
    BY <1>2, <1>5, <1>7 DEF JoinOk, NoJoin
  <1>11. HopsOk(db, conn[Reader], hops)
    BY <1>2, <1>5, <1>7, NoHopsFacts
  <1>12. QueryOk(conn[Reader])
    BY <1>2, <1>7 DEF QueryOk
  <1>. QED
    BY <1>6, <1>8, <1>9, <1>10, <1>11, <1>12 DEF ServingInv

LEMMA ServingStands == ASSUME ServingInv, UNCHANGED vars PROVE ServingInv'
  <1>1. UNCHANGED <<scenario, db, conn, ledger, walk, join, hops>>
    BY DEF vars
  <1>2. Typed'
    BY <1>1 DEF ServingInv, Typed
  <1>. QED
    BY <1>1, <1>2 DEF ServingInv

LEMMA ServingNext == ASSUME ServingInv, Next PROVE ServingInv'
  <1>1. PICK c \in Conns :
          \/ \E w \in scenario.writes : Write(c, w) \/ DeleteEntity(c, w) \/ CheckRight(c, w)
          \/ Detach(c) \/ DetachFails(c) \/ Link(c)
          \/ \E ops \in scenario.pipelined : BeginBatch(c, ops)
          \/ BatchWrite(c)
          \/ \E ops \in scenario.atomic : AtomicBatch(c, ops)
          \/ BeginWalk(c) \/ PageByIndex(c) \/ PageByScan(c) \/ ReadKey(c) \/ GetRow(c)
          \/ BeginJoin(c) \/ ScanRow(c) \/ Neighbours(c) \/ GetRight(c) \/ NextLeft(c) \/ EndJoin(c)
          \/ BeginTraverse(c) \/ Hop(c) \/ EndTraverse(c)
          \/ BeginQuery(c) \/ ReadRow(c) \/ (\E q \in scenario.queries : EndQuery(c, q))
    BY DEF Next
  <1>2. ASSUME NEW w \in scenario.writes, Write(c, w) \/ DeleteEntity(c, w) \/ CheckRight(c, w)
        PROVE  ServingInv'
    BY <1>2, WriteStep, DeleteEntityStep, CheckRightStep
  <1>3. CASE Detach(c) \/ DetachFails(c) \/ Link(c)
    BY <1>3, DetachStep, DetachFailsStep, LinkStep
  <1>4. ASSUME NEW ops \in scenario.pipelined, BeginBatch(c, ops) PROVE ServingInv'
    BY <1>4, BeginBatchStep
  <1>5. CASE BatchWrite(c)
    BY <1>5, BatchWriteStep
  <1>6. ASSUME NEW ops \in scenario.atomic, AtomicBatch(c, ops) PROVE ServingInv'
    BY <1>6, AtomicBatchStep
  <1>7. CASE BeginWalk(c) \/ PageByIndex(c) \/ PageByScan(c) \/ ReadKey(c) \/ GetRow(c)
    BY <1>7, BeginWalkStep, PageByIndexStep, PageByScanStep, ReadKeyStep, GetRowStep
  <1>8. CASE BeginJoin(c) \/ ScanRow(c) \/ Neighbours(c) \/ GetRight(c) \/ NextLeft(c) \/ EndJoin(c)
    BY <1>8, BeginJoinStep, ScanRowStep, NeighboursStep, GetRightStep, NextLeftStep, EndJoinStep
  <1>9. CASE BeginTraverse(c) \/ Hop(c) \/ EndTraverse(c)
    BY <1>9, BeginTraverseStep, HopStep, EndTraverseStep
  <1>10. CASE BeginQuery(c) \/ ReadRow(c)
    BY <1>10, BeginQueryStep, ReadRowStep
  <1>11. ASSUME NEW q \in scenario.queries, EndQuery(c, q) PROVE ServingInv'
    BY <1>11, EndQueryStep
  <1>. QED
    BY <1>1, <1>2, <1>3, <1>4, <1>5, <1>6, <1>7, <1>8, <1>9, <1>10, <1>11

\* The invariant holds of every database, batch and query a history starts from, and of
\* any number of connections.
THEOREM ServingInvariant == Spec => []ServingInv
  <1>1. ServingInv /\ [Next]_vars => ServingInv'
    BY ServingNext, ServingStands
  <1>. QED
    BY <1>1, ServingInit, PTL DEF Spec

------------------------------------------------------------------------------
(* The properties                                                          *)

LEMMA ReaderTyped ==
  ASSUME NEW r \in ReaderLocals, QueryOk(r)
  PROVE  \/ r \in Pending
         \/ r.at = "query" /\ r.ids \subseteq Memories /\ IsInjective([i \in DOMAIN r.rows |-> r.rows[i].id])
         \/ r.at = "rows" /\ Len(r.page) \in 1 .. PageLimit /\ Range(r.page) \subseteq Keys /\ r.last \in Keys
  <1>1. RowKeys \subseteq Keys /\ NoKey \in Keys
    BY DEF RowKeys, Keys, NoKey
  <1>2. CASE r.at = "query"
    <2>1. r.ids \subseteq Memories
      BY <1>2 DEF ReaderLocals, Idle
    <2>2. IsInjective([i \in DOMAIN r.rows |-> r.rows[i].id])
      BY <1>2 DEF QueryOk, IsInjective
    <2>. QED
      BY <1>2, <2>1, <2>2
  <1>3. CASE r.at = "rows"
    <2>1. r.page \in Pages /\ r.last \in Cursors
      BY <1>3, ReaderLocalIs
    <2>2. PICK p : p = r.page
      OBVIOUS
    <2>3. p \in Seq(RowKeys) /\ Len(p) \in 1 .. PageLimit
      BY <2>1, <2>2 DEF Pages
    <2>4. Range(p) \subseteq Keys
      BY <1>1, <2>3 DEF Range
    <2>. QED
      BY <1>1, <1>3, <2>1, <2>2, <2>3, <2>4 DEF Cursors
  <1>4. CASE r.at \notin {"query", "rows"}
    BY <1>4 DEF ReaderLocals, Pending, RowKeys, Idle
  <1>. QED
    BY <1>2, <1>3, <1>4

LEMMA WriterTyped ==
  ASSUME NEW r \in WriterLocals
  PROVE  r \in Pending \/ (r.at = "batch" /\ r.todo \in Seq(Writes) /\ r.todo # <<>>)
  <1>1. CASE r.at = "batch"
    BY <1>1, WriterLocalIs
  <1>2. CASE r.at # "batch"
    BY <1>2 DEF WriterLocals, Pending, Idle
  <1>. QED
    BY <1>1, <1>2

LEMMA ServingTyped == ServingInv => TypeOK
  <1>. SUFFICES ASSUME ServingInv PROVE TypeOK
    OBVIOUS
  <1>1. db \in Databases /\ ledger \in Ledgers /\ walk \in Walks /\ hops \in Hops
    BY DEF ServingInv, Typed
  <1>2. ASSUME NEW c \in Conns
        PROVE  \/ conn[c] \in Pending
               \/ conn[c].at = "query" /\ conn[c].ids \subseteq Memories
                  /\ IsInjective([i \in DOMAIN conn[c].rows |-> conn[c].rows[i].id])
               \/ conn[c].at = "batch" /\ conn[c].todo \in Seq(Writes) /\ conn[c].todo # <<>>
               \/ /\ conn[c].at = "rows" /\ Len(conn[c].page) \in 1 .. PageLimit
                  /\ Range(conn[c].page) \subseteq Keys /\ conn[c].last \in Keys
    <2>1. CASE c = Reader
      BY <2>1, ReaderHas, ReaderTyped
    <2>2. CASE c # Reader
      <3>1. conn[c] \in WriterLocals
        BY <2>2 DEF ServingInv, Typed
      <3>. QED
        BY <3>1, WriterTyped
    <2>. QED
      BY <2>1, <2>2
  <1>3. db \in [records : [Ids -> Stamps \cup {Absent}], edges : SUBSET Edges]
    BY <1>1 DEF Databases
  <1>4. /\ {ledger.acked, ledger.unchecked} \subseteq SUBSET Edges
        /\ ledger.leftover \subseteq Entities /\ ledger.stale \subseteq Conns
    BY <1>1 DEF Ledgers
  <1>5. walk.cursor \in Keys /\ walk.returned \cup walk.again \cup walk.untouched \subseteq Memories
    BY <1>1 DEF Walks, Cursors, RowKeys, Keys, NoKey
  <1>6. Visited \subseteq Ids /\ {hops.stood, hops.seen} \subseteq SUBSET Edges
    <2>1. hops.depth \in Depths /\ {hops.stood, hops.seen} \subseteq SUBSET Edges
      BY <1>1 DEF Hops
    <2>. QED
      BY <2>1, DepthsAre DEF Visited
  <1>. QED
    BY <1>2, <1>3, <1>4, <1>5, <1>6 DEF TypeOK

\* Tables and locals keep their types, and an edge is without one of its records only
\* where the code leaves it behind (delete_across, its failed detach, WriteBatch, and
\* the two steps of link_across).
THEOREM EdgesAlwaysResolve == Spec => []EdgesResolve
  <1>1. ServingInv => EdgesResolve
    <2>. SUFFICES ASSUME ServingInv, NEW g \in db.edges, NEW x \in g
                  PROVE  \/ Has(db, x)
                         \/ g \in Mentions(db.edges) /\ x \in Entities
                            /\ (Detaching(x) \/ x \in ledger.leftover \/ g \in ledger.unchecked)
      BY ServingTyped DEF EdgesResolve
    <2>1. \/ Has(db, x)
          \/ /\ g \cap Memories # {} /\ x \in Entities
             /\ x \in ledger.leftover \cup DetachedIn(conn) \/ g \in ledger.unchecked
      BY DEF ServingInv, LinksOk, Resolves
    <2>2. x \in DetachedIn(conn) => Detaching(x)
      BY DEF DetachedIn, Detaching
    <2>3. g \cap Memories # {} => g \in Mentions(db.edges)
      BY DEF Mentions
    <2>. QED
      BY <2>1, <2>2, <2>3
  <1>. QED
    BY <1>1, ServingInvariant, PTL

\* Only the deletion of one of its ends takes a link that was answered Ok.
THEOREM AckedLinksAlwaysStand == Spec => []AckedLinksStand
  <1>1. ServingInv => AckedLinksStand
    BY DEF ServingInv, LinksOk, AckedLinksStand
  <1>. QED
    BY <1>1, ServingInvariant, PTL

\* Between two pages, a walk in which no chosen row changed before its get has returned
\* exactly the untouched rows up to its cursor, once.
THEOREM WalksAreExact == Spec => []WalkExact
  <1>1. ServingInv => WalkExact
    <2>1. ServingInv => WalkOk(db, conn[Reader], walk)
      BY DEF ServingInv
    <2>. QED
      BY <2>1 DEF WalkOk, WalkExact
  <1>. QED
    BY <1>1, ServingInvariant, PTL

\* A join that is over has every mention that stood, and nothing else than there was.
THEOREM JoinsAreFaithful == Spec => []JoinFaithful
  <1>1. ServingInv => JoinFaithful
    BY DEF ServingInv, JoinOk, JoinFaithful
  <1>. QED
    BY <1>1, ServingInvariant, PTL

------------------------------------------------------------------------------
(* The balls around a root                                                 *)

Spread(S, edges) == S \cup {y \in Ids : \E x \in S : {x, y} \in edges}
Root(h) == {x \in DOMAIN h.depth : h.depth[x] = 0}
IsBall(b, h, edges) == b[0] = Root(h) /\ \A k \in 1 .. MaxDepth : b[k] = Spread(b[k - 1], edges)

LEMMA WithinIs ==
  ASSUME hops \in Hops, NEW edges
  PROVE  IsBall(Within(edges), hops, edges)
  <1>. DEFINE from == {x \in Visited : hops.depth[x] = 0}
              step == [k \in 1 .. MaxDepth |-> [S \in SUBSET Ids |-> Spread(S, edges)]]
  <1>1. MaxDepth \in Nat /\ from \in SUBSET Ids /\ from = Root(hops)
    BY ServingAssumption, DepthsAre DEF Hops, Visited, Root
  <1>. HIDE DEF from
  <1>2. step \in [1 .. MaxDepth -> [SUBSET Ids -> SUBSET Ids]]
    BY DEF Spread
  <1>3. \A k \in 1 .. MaxDepth, S \in SUBSET Ids : step[k][S] = Spread(S, edges)
    OBVIOUS
  <1>. HIDE DEF step
  <1>4. PICK g \in [0 .. MaxDepth -> SUBSET Ids] :
          g[0] = from /\ \A k \in 1 .. MaxDepth : g[k] = step[k][g[k - 1]]
    <2>1. PICK m \in Nat : m = MaxDepth
      BY <1>1
    <2>2. PICK X, f : X = SUBSET Ids /\ f = from
      OBVIOUS
    <2>3. PICK s : s = step
      OBVIOUS
    <2>4. f \in X /\ s \in [1 .. m -> [X -> X]]
      BY <1>1, <1>2, <2>1, <2>2, <2>3
    <2>5. Iterations(m, X, f, s) # {}
      BY <2>4, Iterates
    <2>. QED
      BY <2>1, <2>2, <2>3, <2>5 DEF Iterations
  <1>5. \A k \in 1 .. MaxDepth : k - 1 \in 0 .. MaxDepth /\ g[k] = Spread(g[k - 1], edges)
    BY <1>1, <1>3, <1>4
  <1>6. g = [k \in 0 .. MaxDepth |-> IF k = 0 THEN from ELSE Spread(g[k - 1], edges)]
    <2>1. \A k \in 0 .. MaxDepth : k = 0 \/ k \in 1 .. MaxDepth
      BY <1>1
    <2>. QED
      BY <1>4, <1>5, <2>1
  <1>7. PICK h : /\ Within(edges) = h
                 /\ h = [k \in 0 .. MaxDepth |-> IF k = 0 THEN from ELSE Spread(h[k - 1], edges)]
    <2>. DEFINE ball[k \in 0 .. MaxDepth] ==
                  IF k = 0 THEN {x \in Visited : hops.depth[x] = 0}
                  ELSE ball[k - 1] \cup {y \in Ids : \E x \in ball[k - 1] : {x, y} \in edges}
                ch == CHOOSE h : h = [k \in 0 .. MaxDepth |->
                        IF k = 0 THEN {x \in Visited : hops.depth[x] = 0}
                        ELSE h[k - 1] \cup {y \in Ids : \E x \in h[k - 1] : {x, y} \in edges}]
    <2>1. Within(edges) = ball
      BY DEF Within
    <2>2. ball = ch
      OBVIOUS
    <2>a. g = [k \in 0 .. MaxDepth |->
                 IF k = 0 THEN {x \in Visited : hops.depth[x] = 0}
                 ELSE g[k - 1] \cup {y \in Ids : \E x \in g[k - 1] : {x, y} \in edges}]
      BY <1>6 DEF from, Spread
    <2>3. ch = [k \in 0 .. MaxDepth |->
                  IF k = 0 THEN {x \in Visited : hops.depth[x] = 0}
                  ELSE ch[k - 1] \cup {y \in Ids : \E x \in ch[k - 1] : {x, y} \in edges}]
      BY <2>a, ZenonT(60)
    <2>. HIDE DEF ball, ch
    <2>4. Within(edges) = ch /\ ch = [k \in 0 .. MaxDepth |-> IF k = 0 THEN from ELSE Spread(ch[k - 1], edges)]
      BY <2>1, <2>2, <2>3 DEF from, Spread
    <2>. QED
      BY <2>4
  <1>8. h[0] = from
    BY <1>1, <1>7
  <1>9. ASSUME NEW k \in 1 .. MaxDepth PROVE h[k] = Spread(h[k - 1], edges)
    <2>1. k \in 0 .. MaxDepth /\ k # 0
      OBVIOUS
    <2>. QED
      BY <1>7, <2>1
  <1>. QED
    BY <1>1, <1>7, <1>8, <1>9 DEF IsBall

\* A depth is that of a path over the edges there were.
LEMMA DepthsAreReached ==
  ASSUME NEW d, NEW r, NEW h \in Hops, HopsOk(d, r, h), NEW b, IsBall(b, h, h.seen),
         NEW x \in DOMAIN h.depth
  PROVE  x \in b[h.depth[x]]
  <1>. DEFINE V == DOMAIN h.depth
              P == {k \in 0 .. MaxDepth : \A z \in V : h.depth[z] = k => z \in b[k]}
  <1>1. MaxDepth \in Nat /\ V \subseteq Ids /\ \A z \in V : h.depth[z] \in Nat /\ h.depth[z] <= MaxDepth
    BY ServingAssumption, DepthsAre DEF Hops
  <1>2. 0 \in P
    BY <1>1 DEF IsBall, Root
  <1>3. ASSUME NEW k \in 1 .. MaxDepth, k - 1 \in P PROVE k \in P
    <2>1. k \in 0 .. MaxDepth /\ k > 0
      OBVIOUS
    <2>2. ASSUME NEW z \in V, h.depth[z] = k PROVE z \in b[k]
      <3>1. PICK y \in V : h.depth[y] = h.depth[z] - 1 /\ {y, z} \in h.seen
        BY <2>1, <2>2 DEF HopsOk
      <3>2. y \in b[k - 1]
        BY <1>3, <2>2, <3>1
      <3>. QED
        BY <1>1, <3>1, <3>2 DEF IsBall, Spread
    <2>. QED
      BY <2>1, <2>2
  <1>4. \A k \in 0 .. MaxDepth : k \in P
    <2>. HIDE DEF P
    <2>1. \A k \in 1 .. MaxDepth : k - 1 \in P => k \in P
      BY <1>3
    <2>. QED
      BY <1>1, <1>2, <2>1, UpTo
  <1>. QED
    BY <1>1, <1>4

\* What edges that stood reach is there, as deep at most: all of it, unless the traverse
\* is full, and then two depths below the deepest id it visited.
LEMMA BallsAreVisited ==
  ASSUME NEW d, NEW r, NEW h \in Hops, HopsOk(d, r, h), h.done, NEW b, IsBall(b, h, h.stood),
         NEW n \in 0 .. MaxDepth,
         Cardinality(DOMAIN h.depth) >= MaxNodes => \E u \in DOMAIN h.depth : h.depth[u] >= n + 1
  PROVE  \A z \in b[n] : z \in DOMAIN h.depth /\ h.depth[z] <= n
  <1>. DEFINE V == DOMAIN h.depth
              P == {k \in 0 .. n : \A z \in b[k] : z \in V /\ h.depth[z] <= k}
  <1>1. /\ MaxDepth \in Nat /\ n \in Nat /\ n <= MaxDepth
        /\ \A z \in V : h.depth[z] \in Nat /\ h.depth[z] <= MaxDepth
    BY ServingAssumption, DepthsAre DEF Hops
  <1>2. 0 \in P
    BY <1>1 DEF IsBall, Root
  <1>3. ASSUME NEW k \in 1 .. n, k - 1 \in P PROVE k \in P
    <2>1. k \in 0 .. n /\ k \in 1 .. MaxDepth /\ k - 1 \in Nat
      BY <1>1
    <2>2. ASSUME NEW y \in b[k] PROVE y \in V /\ h.depth[y] <= k
      <3>1. CASE y \in b[k - 1]
        <4>1. y \in V /\ h.depth[y] <= k - 1
          BY <1>3, <3>1
        <4>. QED
          BY <1>1, <2>1, <4>1
      <3>2. CASE y \notin b[k - 1]
        <4>1. PICK z \in b[k - 1] : y \in Ids /\ {z, y} \in h.stood
          BY <2>1, <2>2, <3>2 DEF IsBall, Spread
        <4>2. z \in V /\ h.depth[z] <= k - 1 /\ h.depth[z] < MaxDepth
          BY <1>1, <1>3, <2>1, <4>1
        <4>3. Cardinality(V) >= MaxNodes => \E u \in V : h.depth[u] >= h.depth[z] + 2
          <5>. SUFFICES ASSUME Cardinality(V) >= MaxNodes PROVE \E u \in V : h.depth[u] >= h.depth[z] + 2
            OBVIOUS
          <5>1. PICK u \in V : h.depth[u] >= n + 1
            OBVIOUS
          <5>2. h.depth[u] >= h.depth[z] + 2
            BY <1>1, <2>1, <4>2, <5>1
          <5>. QED
            BY <5>2
        <4>4. Explored(h, {u \in V : h.depth[u] < MaxDepth})
          BY DEF HopsOk
        <4>5. y \in V /\ h.depth[y] <= h.depth[z] + 1
          BY <4>1, <4>2, <4>3, <4>4 DEF Explored
        <4>. QED
          BY <1>1, <2>1, <4>2, <4>5
      <3>. QED
        BY <3>1, <3>2
    <2>. QED
      BY <2>1, <2>2
  <1>4. \A k \in 0 .. n : k \in P
    <2>. HIDE DEF P
    <2>1. \A k \in 1 .. n : k - 1 \in P => k \in P
      BY <1>3
    <2>. QED
      BY <1>1, <1>2, <2>1, UpTo
  <1>5. n \in P
    BY <1>1, <1>4
  <1>. QED
    BY <1>5

\* A depth is the length of a path over mentions there were, shorter than any that stood
\* all along, and a traverse misses nothing that stood unless it is full.
THEOREM TraversesAreFaithful == Spec => []TraverseFaithful
  <1>1. ServingInv => TraverseFaithful
    <2>. SUFFICES ASSUME ServingInv, hops.done PROVE TraverseFaithful
      BY DEF TraverseFaithful
    <2>a. PICK h \in Hops : h = hops /\ h.done
      BY ReaderHas
    <2>1. PICK d, r : h = hops /\ HopsOk(d, r, h) /\ h.done
      BY <2>a, ReaderHas
    <2>2. PICK stood, seen : stood = Within(hops.stood) /\ seen = Within(hops.seen)
      OBVIOUS
    <2>3. IsBall(stood, h, h.stood) /\ IsBall(seen, h, h.seen)
      BY <2>1, <2>2, WithinIs
    <2>4. MaxDepth \in Nat /\ \A x \in DOMAIN h.depth : h.depth[x] \in Nat /\ h.depth[x] <= MaxDepth
      BY ServingAssumption, DepthsAre DEF Hops
    <2>5. ASSUME NEW x \in DOMAIN h.depth
          PROVE  /\ x \in seen[h.depth[x]]
                 /\ h.depth[x] > 0 => x \notin stood[h.depth[x] - 1]
      <3>1. x \in seen[h.depth[x]]
        BY <2>1, <2>3, DepthsAreReached
      <3>2. ASSUME h.depth[x] > 0 PROVE x \notin stood[h.depth[x] - 1]
        <4>1. PICK n \in 0 .. MaxDepth : n = h.depth[x] - 1
          BY <2>4, <3>2
        <4>2. h.depth[x] >= n + 1 /\ ~(h.depth[x] <= n)
          BY <2>4, <4>1
        <4>3. \A z \in stood[n] : z \in DOMAIN h.depth /\ h.depth[z] <= n
          BY <2>1, <2>3, <4>2, BallsAreVisited
        <4>. QED
          BY <4>1, <4>2, <4>3
      <3>. QED
        BY <3>1, <3>2
    <2>6. Cardinality(DOMAIN h.depth) <= MaxNodes
      BY <2>1 DEF HopsOk
    <2>7. ASSUME ~(Cardinality(DOMAIN h.depth) >= MaxNodes) PROVE stood[MaxDepth] \subseteq DOMAIN h.depth
      <3>1. PICK n \in 0 .. MaxDepth : n = MaxDepth
        BY <2>4
      <3>2. \A z \in stood[n] : z \in DOMAIN h.depth /\ h.depth[z] <= n
        BY <2>1, <2>3, <2>7, BallsAreVisited
      <3>. QED
        BY <3>1, <3>2
    <2>. QED
      BY <2>1, <2>2, <2>5, <2>6, <2>7 DEF TraverseFaithful, Visited, Full
  <1>. QED
    BY <1>1, ServingInvariant, PTL
==============================================================================
