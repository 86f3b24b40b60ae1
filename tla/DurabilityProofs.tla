--------------------------- MODULE DurabilityProofs ---------------------------
(***************************************************************************)
(* The files of every store of durability/ open again (OpensAgain), and     *)
(* give the state after some first updates (RecoversPromised), for any ids, *)
(* ages, numbers of updates, generations and crashes.                       *)
(*                                                                         *)
(* FilesInv says which files there are, and what has marked those that do   *)
(* not open.  Story says what they hold: a log holds the updates told since *)
(* its start (Follows), a snapshot leads from its cutoff to that start, or  *)
(* is a state since (Leads), and the generations under LsmStore's log give  *)
(* what the log does not tell (Under).                                      *)
(***************************************************************************)
EXTENDS Durability, TLAPS, FiniteSetTheorems, SequenceTheorems, WellFoundedInduction

LEMMA SmallestOf ==
  ASSUME NEW T \in SUBSET Nat, T # {}
  PROVE  \E m \in T : \A k \in T : m <= k
  <1>. DEFINE R == OpToRel(<, Nat)
  <1>1. IsWellFoundedOn(R, Nat)
    BY NatLessThanWellFounded
  <1>2. \A x, y \in Nat : <<x, y>> \in R <=> x < y
    BY DEF OpToRel
  <1>. HIDE DEF R
  <1>3. PICK m \in T : \A y \in T : ~ (<<y, m>> \in R)
    BY <1>1, WFMin
  <1>4. ASSUME NEW k \in T PROVE m <= k
    <2>1. k \in Nat /\ m \in Nat
      OBVIOUS
    <2>2. ~(k < m)
      BY <1>2, <1>3, <2>1
    <2>. QED
      BY <2>1, <2>2
  <1>. QED
    BY <1>4

\* And a greatest, if they are bounded.
LEMMA GreatestOf ==
  ASSUME NEW n \in Nat, NEW T \in SUBSET (0 .. n), T # {}
  PROVE  \E m \in T : \A k \in T : k <= m
  <1>. DEFINE U == {n - i : i \in T}
  <1>1. U \in SUBSET Nat /\ U # {}
    <2>1. \A i \in T : i \in Int /\ 0 <= i /\ i <= n
      OBVIOUS
    <2>2. \A i \in T : n - i \in Nat
      BY <2>1
    <2>. QED
      BY <2>2
  <1>2. PICK u \in U : \A k \in U : u <= k
    BY <1>1, SmallestOf
  <1>3. PICK m \in T : u = n - m
    OBVIOUS
  <1>4. ASSUME NEW k \in T PROVE k <= m
    <2>1. n - k \in U
      OBVIOUS
    <2>2. n - m <= n - k
      BY <1>2, <1>3, <2>1
    <2>3. k \in Nat /\ m \in Nat
      OBVIOUS
    <2>. QED
      BY <2>2, <2>3
  <1>. QED
    BY <1>4

------------------------------------------------------------------------------
(* Updates                                                                 *)

\* v is the age of x after the updates of f at the indices in at.
Gives(f, u, at, x, v) ==
  \/ (\A i \in at : u[i].id # x) /\ v = f[x]
  \/ \E i \in at : u[i].id = x /\ v = u[i].age /\ \A j \in at : u[j].id = x => j <= i

\* Updated gives each id its latest age.
LEMMA UpdatedGives ==
  ASSUME NEW f, NEW u, NEW n \in Nat, NEW at \in SUBSET (1 .. n)
  PROVE  /\ Updated(f, u, at) = [x \in Ids |-> Updated(f, u, at)[x]]
         /\ \A x \in Ids : Gives(f, u, at, x, Updated(f, u, at)[x])
  <1>1. Updated(f, u, at) = [x \in Ids |-> Updated(f, u, at)[x]]
    BY DEF Updated
  <1>2. ASSUME NEW x \in Ids PROVE Gives(f, u, at, x, Updated(f, u, at)[x])
    <2>. DEFINE of == {i \in at : u[i].id = x}
                m == CHOOSE i \in of : \A j \in of : j <= i
    <2>1. Updated(f, u, at)[x] = IF of = {} THEN f[x] ELSE u[m].age
      BY DEF Updated
    <2>2. of \in SUBSET (0 .. n)
      <3>1. \A i \in 1 .. n : i \in 0 .. n
        OBVIOUS
      <3>. QED
        BY <3>1
    <2>3. CASE of = {}
      BY <2>1, <2>3 DEF Gives
    <2>4. CASE of # {}
      <3>. HIDE DEF of
      <3>1. \E i \in of : \A j \in of : j <= i
        BY <2>2, <2>4, GreatestOf
      <3>2. m \in of /\ \A j \in of : j <= m
        BY <3>1
      <3>. HIDE DEF m
      <3>. QED
        BY <2>1, <2>4, <3>2 DEF Gives, of
    <2>. QED
      BY <2>3, <2>4
  <1>. QED
    BY <1>1, <1>2

\* And nothing else does.
LEMMA GivesOnce ==
  ASSUME NEW f, NEW u, NEW n \in Nat, NEW at \in SUBSET (1 .. n), NEW x, NEW v, NEW w,
         Gives(f, u, at, x, v), Gives(f, u, at, x, w)
  PROVE  v = w
  <1>1. ASSUME NEW i \in at, NEW j \in at, i <= j, j <= i PROVE i = j
    <2>1. i \in Nat /\ j \in Nat
      OBVIOUS
    <2>. QED
      BY <1>1, <2>1
  <1>. QED
    BY <1>1 DEF Gives

LEMMA UpdatedIs ==
  ASSUME NEW f, NEW u, NEW n \in Nat, NEW at \in SUBSET (1 .. n), NEW g,
         g = [x \in Ids |-> g[x]], \A x \in Ids : Gives(f, u, at, x, g[x])
  PROVE  g = Updated(f, u, at)
  <1>. DEFINE h == Updated(f, u, at)
  <1>1. h = [x \in Ids |-> h[x]] /\ \A x \in Ids : Gives(f, u, at, x, h[x])
    BY UpdatedGives
  <1>. HIDE DEF h
  <1>2. \A x \in Ids : g[x] = h[x]
    BY <1>1, GivesOnce
  <1>3. g = h
    BY <1>1, <1>2
  <1>. QED
    BY <1>3 DEF h

LEMMA UpdatedTyped ==
  ASSUME NEW X, NEW f \in [Ids -> X], NEW u, NEW n \in Nat, NEW at \in SUBSET (1 .. n),
         \A i \in at : u[i].age \in X
  PROVE  Updated(f, u, at) \in [Ids -> X]
  <1>. DEFINE h == Updated(f, u, at)
  <1>1. h = [x \in Ids |-> h[x]] /\ \A x \in Ids : Gives(f, u, at, x, h[x])
    BY UpdatedGives
  <1>. HIDE DEF h
  <1>2. \A x \in Ids : h[x] \in X
    BY <1>1 DEF Gives
  <1>3. h \in [Ids -> X]
    BY <1>1, <1>2
  <1>. QED
    BY <1>3 DEF h

\* No update changes nothing.
LEMMA UpdatedNone ==
  ASSUME NEW X, NEW f \in [Ids -> X], NEW u
  PROVE  Updated(f, u, {}) = f
  BY DEF Updated

\* Only the ids and the ages count.
LEMMA SameUpdates ==
  ASSUME NEW f, NEW u, NEW w, NEW at, \A i \in at : u[i].id = w[i].id /\ u[i].age = w[i].age,
         NEW n \in Nat, at \in SUBSET (1 .. n)
  PROVE  Updated(f, u, at) = Updated(f, w, at)
  <1>. DEFINE h == Updated(f, u, at)
  <1>1. h = [x \in Ids |-> h[x]] /\ \A x \in Ids : Gives(f, u, at, x, h[x])
    BY UpdatedGives
  <1>. HIDE DEF h
  <1>2. \A x \in Ids : Gives(f, w, at, x, h[x])
    BY <1>1 DEF Gives
  <1>3. h = Updated(f, w, at)
    BY <1>1, <1>2, UpdatedIs
  <1>. QED
    BY <1>3 DEF h

\* The n updates of u after the first c, at A, are those of w after the first d, at B.
Moves(u, A, c, w, B, d, n) ==
  /\ c \in Nat /\ d \in Nat /\ n \in Nat /\ A = c + 1 .. c + n /\ B = d + 1 .. d + n
  /\ \A i \in 1 .. n : w[d + i].id = u[c + i].id /\ w[d + i].age = u[c + i].age

\* A stretch of one list is a stretch of another.
LEMMA MovedUpdates ==
  ASSUME NEW f, NEW u, NEW A, NEW c, NEW w, NEW B, NEW d, NEW n, Moves(u, A, c, w, B, d, n)
  PROVE  Updated(f, u, A) = Updated(f, w, B)
  <1>. DEFINE h == Updated(f, u, A)
              to(j) == d + (j - c)
  <1>1. c \in Nat /\ d \in Nat /\ n \in Nat /\ A = c + 1 .. c + n /\ B = d + 1 .. d + n
    BY DEF Moves
  <1>2. A \in SUBSET (1 .. c + n) /\ B \in SUBSET (1 .. d + n) /\ c + n \in Nat /\ d + n \in Nat
    BY <1>1
  <1>3. h = [x \in Ids |-> h[x]] /\ \A x \in Ids : Gives(f, u, A, x, h[x])
    <2>1. PICK m \in Nat : A \in SUBSET (1 .. m)
      BY <1>2
    <2>. QED
      BY <2>1, UpdatedGives
  <1>4. \A i \in B : \E j \in A : i = to(j)
    <2>. SUFFICES ASSUME NEW i \in B PROVE \E j \in A : i = to(j)
      OBVIOUS
    <2>1. c + (i - d) \in A /\ i = d + ((c + (i - d)) - c)
      BY <1>1
    <2>. QED
      BY <2>1
  <1>5. \A j \in A : to(j) \in B
    BY <1>1
  <1>6. \A j \in A : w[to(j)].id = u[j].id /\ w[to(j)].age = u[j].age
    <2>. SUFFICES ASSUME NEW j \in A PROVE w[to(j)].id = u[j].id /\ w[to(j)].age = u[j].age
      OBVIOUS
    <2>1. j - c \in 1 .. n /\ j = c + (j - c)
      BY <1>1
    <2>. QED
      BY <2>1 DEF Moves
  <1>7. \A j \in A, k \in A : k <= j => to(k) <= to(j)
    BY <1>1
  <1>. HIDE DEF h, to
  <1>8. ASSUME NEW x \in Ids PROVE Gives(f, w, B, x, h[x])
    <2>1. Gives(f, u, A, x, h[x])
      BY <1>3
    <2>2. CASE (\A j \in A : u[j].id # x) /\ h[x] = f[x]
      BY <1>4, <1>6, <2>2 DEF Gives
    <2>3. ASSUME NEW j \in A, u[j].id = x, h[x] = u[j].age, \A k \in A : u[k].id = x => k <= j
          PROVE Gives(f, w, B, x, h[x])
      <3>1. to(j) \in B /\ w[to(j)].id = x /\ h[x] = w[to(j)].age
        BY <1>5, <1>6, <2>3
      <3>2. \A i \in B : w[i].id = x => i <= to(j)
        BY <1>4, <1>6, <1>7, <2>3
      <3>. QED
        BY <3>1, <3>2 DEF Gives
    <2>. QED
      BY <2>1, <2>2, <2>3 DEF Gives
  <1>9. h = Updated(f, w, B)
    <2>1. PICK m \in Nat : B \in SUBSET (1 .. m)
      BY <1>2
    <2>. QED
      BY <1>3, <1>8, <2>1, UpdatedIs
  <1>. QED
    BY <1>9 DEF h

\* The indices in A are below those in B.
Before(A, B, n) ==
  n \in Nat /\ A \in SUBSET (1 .. n) /\ B \in SUBSET (1 .. n) /\ \A i \in A, j \in B : i < j

\* Updates in two parts, the first before the second.
LEMMA ComposedUpdates ==
  ASSUME NEW f, NEW u, NEW n, NEW A, NEW B, Before(A, B, n)
  PROVE  Updated(Updated(f, u, A), u, B) = Updated(f, u, A \cup B)
  <1>. DEFINE g == Updated(f, u, A)
              h == Updated(g, u, B)
  <1>. USE DEF Before
  <1>1. \A x \in Ids : Gives(f, u, A, x, g[x])
    BY UpdatedGives
  <1>. HIDE DEF g
  <1>2. h = [x \in Ids |-> h[x]] /\ \A x \in Ids : Gives(g, u, B, x, h[x])
    BY UpdatedGives
  <1>. HIDE DEF h
  <1>3. ASSUME NEW x \in Ids PROVE Gives(f, u, A \cup B, x, h[x])
    <2>1. Gives(f, u, A, x, g[x]) /\ Gives(g, u, B, x, h[x])
      BY <1>1, <1>2
    <2>2. CASE (\A i \in B : u[i].id # x) /\ h[x] = g[x]
      BY <2>1, <2>2 DEF Gives
    <2>3. ASSUME NEW j \in B, u[j].id = x, h[x] = u[j].age, \A k \in B : u[k].id = x => k <= j
          PROVE Gives(f, u, A \cup B, x, h[x])
      <3>1. \A k \in A : k <= j
        <4>1. \A k \in A : k < j /\ k \in Nat /\ j \in Nat
          OBVIOUS
        <4>. QED
          BY <4>1
      <3>2. \A k \in A \cup B : u[k].id = x => k <= j
        BY <2>3, <3>1
      <3>. QED
        BY <2>3, <3>2 DEF Gives
    <2>. QED
      BY <2>1, <2>2, <2>3 DEF Gives
  <1>4. h = Updated(f, u, A \cup B)
    BY <1>2, <1>3, UpdatedIs
  <1>. QED
    BY <1>4 DEF h, g

\* One more update.
LEMMA OneMoreUpdate ==
  ASSUME NEW X, NEW f \in [Ids -> X], NEW u, NEW k \in Nat \ {0}, NEW A \in SUBSET (1 .. k - 1)
  PROVE  Updated(f, u, A \cup {k}) =
           IF u[k].id \in Ids THEN [Updated(f, u, A) EXCEPT ![u[k].id] = u[k].age]
           ELSE Updated(f, u, A)
  <1>. DEFINE g == Updated(f, u, A)
              h == IF u[k].id \in Ids THEN [g EXCEPT ![u[k].id] = u[k].age] ELSE g
  <1>1. A \in SUBSET (1 .. k) /\ A \cup {k} \in SUBSET (1 .. k) /\ \A i \in A : i <= k
    OBVIOUS
  <1>2. g = [x \in Ids |-> g[x]] /\ \A x \in Ids : Gives(f, u, A, x, g[x])
    BY <1>1, UpdatedGives
  <1>. HIDE DEF g
  <1>3. /\ h = [x \in Ids |-> h[x]]
        /\ \A x \in Ids : h[x] = IF u[k].id = x THEN u[k].age ELSE g[x]
    BY <1>2
  <1>. HIDE DEF h
  <1>4. ASSUME NEW x \in Ids PROVE Gives(f, u, A \cup {k}, x, h[x])
    <2>1. CASE u[k].id = x
      <3>1. h[x] = u[k].age /\ k <= k
        BY <1>3, <2>1
      <3>2. \A j \in A \cup {k} : j <= k
        BY <1>1, <3>1
      <3>. QED
        BY <2>1, <3>1, <3>2 DEF Gives
    <2>2. CASE u[k].id # x
      <3>1. h[x] = g[x] /\ Gives(f, u, A, x, g[x])
        BY <1>2, <1>3, <2>2
      <3>. QED
        BY <2>2, <3>1 DEF Gives
    <2>. QED
      BY <2>1, <2>2
  <1>5. h = Updated(f, u, A \cup {k})
    BY <1>1, <1>3, <1>4, UpdatedIs
  <1>. QED
    BY <1>5 DEF h, g

------------------------------------------------------------------------------
(* The entries that are read                                               *)

\* read_wal_entries, of a list.
WholeOf(l) ==
  LET tears == {i \in DOMAIN l : l[i] = Torn}
  IN IF tears = {} THEN l ELSE SubSeq(l, 1, (CHOOSE i \in tears : \A j \in tears : i <= j) - 1)

LEMMA EntriesWhole == Entries = WholeOf(log) /\ Entries' = WholeOf(log')
  BY DEF Entries, WholeOf

\* The whole entries before the first torn one.
LEMMA WholeFacts ==
  ASSUME NEW S, Torn \notin S, NEW l \in Seq(S \cup {Torn})
  PROVE  /\ WholeOf(l) \in Seq(S) /\ Len(WholeOf(l)) \in 0 .. Len(l)
         /\ WholeOf(l) = SubSeq(l, 1, Len(WholeOf(l)))
         /\ \A i \in 1 .. Len(WholeOf(l)) : WholeOf(l)[i] = l[i]
         /\ Len(WholeOf(l)) < Len(l) => l[Len(WholeOf(l)) + 1] = Torn
  <1>. DEFINE tears == {i \in DOMAIN l : l[i] = Torn}
              m == CHOOSE i \in tears : \A j \in tears : i <= j
  <1>1. DOMAIN l = 1 .. Len(l) /\ Len(l) \in Nat
    OBVIOUS
  <1>2. CASE tears = {}
    <2>1. WholeOf(l) = l
      BY <1>2 DEF WholeOf
    <2>2. \A i \in 1 .. Len(l) : l[i] \in S
      BY <1>1, <1>2
    <2>3. SubSeq(l, 1, Len(l)) = l
      BY SubSeqFull
    <2>4. SubSeq(l, 1, Len(l)) \in Seq(S)
      BY <1>1, <2>2, SubSeqProperties
    <2>. QED
      BY <1>1, <2>1, <2>3, <2>4
  <1>3. CASE tears # {}
    <2>1. tears \in SUBSET Nat /\ tears \in SUBSET (1 .. Len(l))
      BY <1>1
    <2>2. WholeOf(l) = SubSeq(l, 1, m - 1)
      BY <1>3 DEF WholeOf
    <2>3. \A i \in 1 .. Len(l) : i \notin tears => l[i] \in S
      BY <1>1
    <2>4. \A i \in tears : l[i] = Torn
      OBVIOUS
    <2>. HIDE DEF tears
    <2>5. \E i \in tears : \A j \in tears : i <= j
      BY <1>3, <2>1, SmallestOf
    <2>6. m \in tears /\ \A j \in tears : m <= j
      BY <2>5
    <2>. HIDE DEF m
    <2>7. m \in 1 .. Len(l)
      BY <2>1, <2>6
    <2>8. \A i \in 1 .. m - 1 : i \in 1 .. Len(l) /\ ~(m <= i)
      BY <1>1, <2>7
    <2>9. \A i \in 1 .. m - 1 : l[i] \in S
      BY <2>3, <2>6, <2>8
    <2>10. /\ SubSeq(l, 1, m - 1) \in Seq(S)
           /\ Len(SubSeq(l, 1, m - 1)) = m - 1
           /\ \A i \in 1 .. m - 1 : SubSeq(l, 1, m - 1)[i] = l[i]
      <3>1. m - 1 \in Nat
        BY <1>1, <2>7
      <3>. QED
        BY <2>9, <3>1, SubSeqProperties
    <2>11. l[m] = Torn
      BY <2>4, <2>6
    <2>. QED
      BY <1>1, <2>2, <2>7, <2>10, <2>11
  <1>. QED
    BY <1>2, <1>3

\* And they are the only such beginning.
LEMMA WholeIs ==
  ASSUME NEW S, Torn \notin S, NEW l \in Seq(S \cup {Torn}), NEW n \in 0 .. Len(l),
         \A i \in 1 .. n : l[i] # Torn, n < Len(l) => l[n + 1] = Torn
  PROVE  WholeOf(l) = SubSeq(l, 1, n) /\ Len(WholeOf(l)) = n
  <1>. DEFINE W == WholeOf(l)
              k == Len(W)
  <1>1. /\ W \in Seq(S) /\ k \in 0 .. Len(l) /\ W = SubSeq(l, 1, k)
        /\ \A i \in 1 .. k : W[i] = l[i]
        /\ k < Len(l) => l[k + 1] = Torn
    BY WholeFacts
  <1>2. \A i \in 1 .. k : W[i] \in S
    BY <1>1
  <1>3. \A i \in 1 .. k : l[i] # Torn
    BY <1>1, <1>2
  <1>. HIDE DEF W
  <1>4. Len(l) \in Nat
    OBVIOUS
  <1>5. ~(k < n)
    <2>. SUFFICES ASSUME k < n PROVE FALSE
      OBVIOUS
    <2>1. k + 1 \in 1 .. n /\ k < Len(l)
      BY <1>1, <1>4
    <2>. QED
      BY <1>1, <2>1
  <1>6. ~(n < k)
    <2>. SUFFICES ASSUME n < k PROVE FALSE
      OBVIOUS
    <2>1. n + 1 \in 1 .. k /\ n < Len(l)
      BY <1>1, <1>4
    <2>. QED
      BY <1>3, <2>1
  <1>7. k = n
    BY <1>1, <1>4, <1>5, <1>6
  <1>. QED
    BY <1>1, <1>7 DEF W

\* Nothing torn: everything is read.
LEMMA WholeAll ==
  ASSUME NEW S, Torn \notin S, NEW l \in Seq(S \cup {Torn}), \A i \in DOMAIN l : l[i] # Torn
  PROVE  WholeOf(l) = l
  BY DEF WholeOf

\* An entry behind no torn one is read.
LEMMA WholeAppend ==
  ASSUME NEW S, Torn \notin S, NEW l \in Seq(S \cup {Torn}), \A i \in DOMAIN l : l[i] # Torn, NEW e \in S
  PROVE  WholeOf(Append(l, e)) = Append(l, e) /\ WholeOf(l) = l
  <1>1. Append(l, e) \in Seq(S \cup {Torn}) /\ DOMAIN Append(l, e) = 1 .. Len(l) + 1 /\ DOMAIN l = 1 .. Len(l)
    OBVIOUS
  <1>2. \A i \in 1 .. Len(l) + 1 : Append(l, e)[i] = IF i \in 1 .. Len(l) THEN l[i] ELSE e
    OBVIOUS
  <1>3. \A i \in DOMAIN Append(l, e) : Append(l, e)[i] # Torn
    BY <1>1, <1>2
  <1>. QED
    BY <1>1, <1>3, WholeAll

\* A piece of an entry changes nothing.
LEMMA WholeTorn ==
  ASSUME NEW S, Torn \notin S, NEW l \in Seq(S \cup {Torn})
  PROVE  WholeOf(Append(l, Torn)) = WholeOf(l)
  <1>. DEFINE t == Append(l, Torn)
              k == Len(WholeOf(l))
  <1>1. t \in Seq(S \cup {Torn}) /\ Len(t) = Len(l) + 1 /\ Len(l) \in Nat
    OBVIOUS
  <1>2. (\A i \in 1 .. Len(l) : t[i] = l[i]) /\ t[Len(l) + 1] = Torn
    OBVIOUS
  <1>3. /\ WholeOf(l) \in Seq(S) /\ k \in 0 .. Len(l) /\ WholeOf(l) = SubSeq(l, 1, k)
        /\ \A i \in 1 .. k : WholeOf(l)[i] = l[i]
        /\ k < Len(l) => l[k + 1] = Torn
    BY WholeFacts
  <1>4. \A i \in 1 .. k : WholeOf(l)[i] \in S
    BY <1>3
  <1>. HIDE DEF t, k
  <1>5. \A i \in 1 .. k : i \in 1 .. Len(l)
    BY <1>1, <1>3
  <1>6. \A i \in 1 .. k : t[i] # Torn
    BY <1>2, <1>3, <1>4, <1>5
  <1>7. t[k + 1] = Torn
    <2>1. CASE k < Len(l)
      <3>1. k + 1 \in 1 .. Len(l)
        BY <1>1, <1>3, <2>1
      <3>. QED
        BY <1>2, <1>3, <2>1, <3>1
    <2>2. CASE ~(k < Len(l))
      <3>1. k = Len(l)
        BY <1>1, <1>3, <2>2
      <3>. QED
        BY <1>2, <3>1
    <2>. QED
      BY <2>1, <2>2
  <1>8. k \in 0 .. Len(t)
    BY <1>1, <1>3
  <1>9. WholeOf(t) = SubSeq(t, 1, k)
    BY <1>1, <1>6, <1>7, <1>8, WholeIs
  <1>10. SubSeq(t, 1, k) = SubSeq(l, 1, k)
    <2>1. \A i \in 1 .. k : t[i] = l[i]
      BY <1>2, <1>5
    <2>2. /\ \A i \in 1 .. k : t[i] \in S \cup {Torn}
          /\ \A i \in 1 .. k : l[i] \in S \cup {Torn}
      BY <1>5, <2>1
    <2>3. k \in Int /\ 1 \in Int /\ k \in Nat
      BY <1>1, <1>3
    <2>4. /\ SubSeq(t, 1, k) \in Seq(S \cup {Torn}) /\ Len(SubSeq(t, 1, k)) = k
          /\ \A i \in 1 .. k : SubSeq(t, 1, k)[i] = t[i]
      BY <2>2, <2>3, SubSeqProperties
    <2>5. /\ SubSeq(l, 1, k) \in Seq(S \cup {Torn}) /\ Len(SubSeq(l, 1, k)) = k
          /\ \A i \in 1 .. k : SubSeq(l, 1, k)[i] = l[i]
      BY <2>2, <2>3, SubSeqProperties
    <2>. QED
      BY <2>1, <2>4, <2>5, SeqEqual
  <1>. QED
    BY <1>3, <1>9, <1>10 DEF t

\* The end of the log is lost: the entries before it remain.
LEMMA WholeCut ==
  ASSUME NEW S, Torn \notin S, NEW l \in Seq(S \cup {Torn}), NEW n \in 0 .. Len(l)
  PROVE  LET W == WholeOf(SubSeq(l, 1, n)) IN
         /\ W \in Seq(S)
         /\ Len(W) = IF n < Len(WholeOf(l)) THEN n ELSE Len(WholeOf(l))
         /\ \A i \in 1 .. Len(W) : W[i] = WholeOf(l)[i]
  <1>. DEFINE t == SubSeq(l, 1, n)
              k == Len(WholeOf(l))
              m == IF n < k THEN n ELSE k
  <1>1. Len(l) \in Nat /\ n \in Nat /\ \A i \in 1 .. n : i \in 1 .. Len(l)
    OBVIOUS
  <1>2. t \in Seq(S \cup {Torn}) /\ Len(t) = n /\ \A i \in 1 .. n : t[i] = l[i]
    BY <1>1, SubSeqProperties
  <1>3. /\ WholeOf(l) \in Seq(S) /\ k \in 0 .. Len(l)
        /\ \A i \in 1 .. k : WholeOf(l)[i] = l[i]
        /\ k < Len(l) => l[k + 1] = Torn
    BY WholeFacts
  <1>4. \A i \in 1 .. k : WholeOf(l)[i] \in S
    BY <1>3
  <1>. HIDE DEF t, k
  <1>5. m \in 0 .. n /\ m \in 0 .. k
    BY <1>1, <1>3
  <1>6. \A i \in 1 .. m : i \in 1 .. n /\ i \in 1 .. k
    BY <1>1, <1>3, <1>5
  <1>7. m < n => m = k /\ k < Len(l) /\ m + 1 \in 1 .. n
    BY <1>1, <1>3
  <1>. HIDE DEF m
  <1>8. \A i \in 1 .. m : t[i] # Torn
    BY <1>2, <1>3, <1>4, <1>6
  <1>9. m < Len(t) => t[m + 1] = Torn
    BY <1>2, <1>3, <1>7
  <1>10. Len(WholeOf(t)) = m
    BY <1>2, <1>5, <1>8, <1>9, WholeIs
  <1>11. WholeOf(t) \in Seq(S) /\ \A i \in 1 .. Len(WholeOf(t)) : WholeOf(t)[i] = t[i]
    BY <1>2, WholeFacts
  <1>12. \A i \in 1 .. m : WholeOf(t)[i] = WholeOf(l)[i]
    BY <1>2, <1>3, <1>6, <1>10, <1>11
  <1>. QED
    BY <1>10, <1>11, <1>12 DEF t, k, m

LEMMA WholeEmpty == WholeOf(<<>>) = <<>>
  BY DEF WholeOf

------------------------------------------------------------------------------
(* Types, and which files and steps each store has                          *)

Tables     == UNION {[S -> Ages] : S \in SUBSET Ids}
WalEntries == [seq : 1 .. MaxLog, id : Ids \cup {Unknown}, age : Ages]
Covers     == [cutoff : Nat, ages : [Ids -> Ages]]
Told       == [id : Ids \cup {Unknown}, age : Ages, answer : {"ok", "pending", "error", "not_found"}]

Typed ==
  /\ scenario \in Scenarios /\ ages \in [Ids -> Ages] /\ start \in [Ids -> Ages \cup {Torn}]
  /\ memtable \in Tables /\ generations \in 0 .. MaxFlushes /\ nextSeq \in Nat \ {0}
  /\ log \in Seq(WalEntries \cup {Torn}) /\ synced \in 0 .. Len(log)
  /\ base \in Covers \cup {NoFile, Torn} /\ older \in SUBSET (Covers \cup {NoFile, Torn})
  /\ counted \in {NoFile, Torn} \cup 0 .. MaxFlushes
  /\ ssts \in [1 .. MaxFlushes -> Tables \cup Unread]
  /\ phase \in {"up", "down", "refused"}
  /\ pc \in {"idle", "sync", "checkpoint", "truncate", "sst", "count", "clear"}
  /\ history \in Seq(Told) /\ safe \in Nat /\ floor \in Nat /\ safe <= floor /\ floor <= Len(history)

Placed ==
  /\ pc # "idle" => phase = "up"
  /\ pc = "sync" => store = "wal_fsync" /\ history # <<>> /\ Last(history).answer = "pending"
  /\ pc = "checkpoint" => store \in Checkpointing
  /\ pc = "truncate" => store \in {"wal_fsync", "wal_buffered"} /\ base \in Covers /\ base.ages = ages
  /\ pc \in {"checkpoint", "truncate"} => "checkpoint" \in scenario.calls
  /\ pc \in {"sst", "count", "clear"} => store = "lsm"
  /\ pc = "sst" => generations < MaxFlushes
  /\ store \notin Logged => log = <<>>
  /\ store = "lsm" => base = NoFile
  /\ store = "redb" => base \in Covers
  /\ store # "hybrid" => \A s \in older \cup {base} : s \in Covers => s.cutoff = 0
  /\ base = NoFile => older = {NoFile}
  /\ store # "wal_fsync" => \A i \in DOMAIN history : history[i].answer = "ok" \/ history[i].id = Unknown
  /\ store = "lsm" => \A i \in DOMAIN log : log[i] # Torn => log[i].id # Unknown

\* What may keep the files from opening.
Readable ==
  /\ base = Torn => pc = "checkpoint" \/ spoiled \cap {"file", "power"} # {}
  /\ counted = Torn => pc = "count" \/ "file" \in spoiled
  /\ store \in Snapshots /\ base = NoFile => spoiled \cap {"no_snapshot", "power"} # {}
  /\ \A i \in DOMAIN log : log[i] # Torn /\ log[i].id = Unknown => "unknown" \in spoiled

FilesInv == Typed /\ Placed /\ Readable

LEMMA Kinds ==
  /\ Torn \notin WalEntries /\ Torn \notin Covers /\ NoFile \notin Covers /\ NoFile # Torn
  /\ NoFile \notin Nat /\ Torn \notin Nat /\ Torn \notin Tables
  BY FileAssumption DEF WalEntries, Covers, Tables

\* The store of a scenario does not change.
LEMMA SameScenario == [Next]_vars => scenario' = scenario /\ store' = store
  BY DEF Next, vars, memory, files, tables, life, ghosts, store, UpdateLogged, AppendUnsynced, UpdateState,
    UpdateEngine, UpdateUnknown, SyncOk, SyncFails, AppendFails, BeginCheckpoint, WriteBase, Truncate,
    WriteFails, BeginFlush, WriteSst, WriteCount, ClearMemtable, Kill, PowerLoss, Create, Open,
    OpenMisreads, OpenRefused, Record, AppendEntry, Answered, Settled, EmptyLog

LEMMA TableFacts ==
  ASSUME NEW t
  PROVE  t \in Tables <=> /\ t = [x \in DOMAIN t |-> t[x]] /\ DOMAIN t \subseteq Ids
                          /\ \A x \in DOMAIN t : t[x] \in Ages
  <1>1. ASSUME t \in Tables PROVE /\ t = [x \in DOMAIN t |-> t[x]] /\ DOMAIN t \subseteq Ids
                                  /\ \A x \in DOMAIN t : t[x] \in Ages
    <2>1. PICK S \in SUBSET Ids : t \in [S -> Ages]
      BY <1>1 DEF Tables
    <2>. QED
      BY <2>1
  <1>2. ASSUME t = [x \in DOMAIN t |-> t[x]], DOMAIN t \subseteq Ids, \A x \in DOMAIN t : t[x] \in Ages
        PROVE  t \in Tables
    <2>1. t \in [DOMAIN t -> Ages] /\ DOMAIN t \in SUBSET Ids
      BY <1>2
    <2>. QED
      BY <2>1 DEF Tables
  <1>. QED
    BY <1>1, <1>2

LEMMA EmptyTable == Empty \in Tables /\ DOMAIN Empty = {}
  BY TableFacts DEF Empty

LEMMA WithTable ==
  ASSUME NEW t \in Tables, NEW x \in Ids, NEW age \in Ages
  PROVE  With(t, x, age) \in Tables
  <1>1. DOMAIN t \subseteq Ids /\ \A y \in DOMAIN t : t[y] \in Ages
    BY TableFacts
  <1>2. DOMAIN With(t, x, age) = DOMAIN t \cup {x} /\ DOMAIN t \cup {x} \subseteq Ids
    BY <1>1 DEF With
  <1>3. /\ With(t, x, age) = [y \in DOMAIN With(t, x, age) |-> With(t, x, age)[y]]
        /\ \A y \in DOMAIN With(t, x, age) : With(t, x, age)[y] \in Ages
    BY <1>1, <1>2 DEF With
  <1>. QED
    BY <1>1, <1>2, <1>3, TableFacts

\* What is read of the log.
LEMMA EntriesTyped ==
  ASSUME Typed
  PROVE  /\ Entries \in Seq(WalEntries) /\ Len(Entries) \in 0 .. Len(log) /\ Len(log) \in Nat
         /\ DOMAIN Entries = 1 .. Len(Entries)
         /\ \A i \in 1 .. Len(Entries) :
              /\ i \in DOMAIN log /\ Entries[i] = log[i] /\ Entries[i] \in WalEntries /\ Entries[i] # Torn
              /\ Entries[i].id \in Ids \cup {Unknown} /\ Entries[i].age \in Ages /\ Entries[i].seq \in 1 .. MaxLog
         /\ Replayed \in SUBSET (1 .. Len(Entries))
  <1>1. log \in Seq(WalEntries \cup {Torn}) /\ Torn \notin WalEntries
    BY Kinds DEF Typed
  <1>2. /\ Entries \in Seq(WalEntries) /\ Len(Entries) \in 0 .. Len(log)
        /\ \A i \in 1 .. Len(Entries) : Entries[i] = log[i]
    BY <1>1, EntriesWhole, WholeFacts
  <1>. HIDE DEF Entries
  <1>3. Len(log) \in Nat /\ DOMAIN log = 1 .. Len(log)
    BY <1>1
  <1>4. \A i \in 1 .. Len(Entries) : i \in DOMAIN log /\ Entries[i] \in WalEntries
    BY <1>2, <1>3
  <1>5. DOMAIN Entries = 1 .. Len(Entries)
    BY <1>2
  <1>6. Replayed \in SUBSET (1 .. Len(Entries))
    BY <1>5 DEF Replayed
  <1>7. \A e \in WalEntries : e.id \in Ids \cup {Unknown} /\ e.age \in Ages /\ e.seq \in 1 .. MaxLog
    BY DEF WalEntries
  <1>. QED
    BY <1>1, <1>2, <1>3, <1>4, <1>5, <1>6, <1>7

LEMMA ReplayTyped ==
  ASSUME Typed, NEW X, Ages \subseteq X, NEW f \in [Ids -> X]
  PROVE  Replay(f) \in [Ids -> X]
  <1>1. /\ Replayed \in SUBSET (1 .. Len(Entries)) /\ Len(Entries) \in Nat
        /\ \A i \in Replayed : Entries[i].age \in X
    BY EntriesTyped
  <1>. HIDE DEF Entries, Replayed
  <1>. QED
    BY <1>1, UpdatedTyped DEF Replay

LEMMA ReplayedTableTyped ==
  ASSUME Typed, \A i \in Replayed : Entries[i].id # Unknown
  PROVE  ReplayedTable \in Tables
  <1>1. Replayed \in SUBSET (1 .. Len(Entries)) /\ \A i \in Replayed : Entries[i].id \in Ids
    BY EntriesTyped
  <1>2. Seed \in [Ids -> Ages]
    BY DurabilityAssumption
  <1>3. Replay(Seed) \in [Ids -> Ages]
    BY <1>2, ReplayTyped
  <1>. HIDE DEF Entries, Replayed, Replay
  <1>4. DOMAIN ReplayedTable \subseteq Ids
    BY <1>1 DEF ReplayedTable
  <1>5. /\ ReplayedTable = [x \in DOMAIN ReplayedTable |-> ReplayedTable[x]]
        /\ \A x \in DOMAIN ReplayedTable : ReplayedTable[x] \in Ages
    BY <1>3, <1>4 DEF ReplayedTable
  <1>. QED
    BY <1>4, <1>5, TableFacts

LEMMA ResolvedTyped ==
  ASSUME Typed, NEW t \in Tables, NEW n \in 0 .. MaxFlushes
  PROVE  Resolved(t, n) \in [Ids -> Ages \cup {Torn}]
  <1>1. MaxFlushes \in Nat /\ Seed \in [Ids -> Ages]
    BY DurabilityAssumption
  <1>2. \A x \in DOMAIN t : t[x] \in Ages
    BY TableFacts
  <1>3. ASSUME NEW x \in Ids, Stops(n, x) # {}
        PROVE  ssts[Newest(n, x)] \in Unread \/ ssts[Newest(n, x)][x] \in Ages
    <2>1. Stops(n, x) \in SUBSET (0 .. n) /\ n \in Nat
      BY <1>1 DEF Stops
    <2>2. \E g \in Stops(n, x) : \A h \in Stops(n, x) : h <= g
      BY <1>3, <2>1, GreatestOf
    <2>3. Newest(n, x) \in Stops(n, x)
      BY <2>2 DEF Newest
    <2>4. Newest(n, x) \in 1 .. MaxFlushes /\ (ssts[Newest(n, x)] \in Unread \/ x \in DOMAIN ssts[Newest(n, x)])
      BY <1>1, <2>3 DEF Stops
    <2>5. ssts[Newest(n, x)] \in Tables \cup Unread
      BY <2>4 DEF Typed
    <2>. QED
      BY <2>4, <2>5, TableFacts
  <1>4. \A x \in Ids : Resolved(t, n)[x] \in Ages \cup {Torn}
    BY <1>1, <1>2, <1>3 DEF Resolved
  <1>5. Resolved(t, n) = [x \in Ids |-> Resolved(t, n)[x]]
    BY DEF Resolved
  <1>. QED
    BY <1>4, <1>5

LEMMA CurrentTyped ==
  ASSUME Typed
  PROVE  Current \in [Ids -> Ages \cup {Torn}]
  BY ResolvedTyped DEF Typed, Current

\* What an opening finds.
LEMMA RecoveredTyped ==
  ASSUME Typed, Openable
  PROVE  /\ Counted \in 0 .. MaxFlushes
         /\ store = "lsm" => Recovered \in [Ids -> Ages \cup {Torn}]
         /\ store # "lsm" => Recovered \in [Ids -> Ages]
  <1>1. Counted \in 0 .. MaxFlushes
    BY DurabilityAssumption DEF Counted, Openable, Typed
  <1>2. ReplayedTable \in Tables
    BY ReplayedTableTyped DEF Openable
  <1>3. base = NoFile \/ base.ages \in [Ids -> Ages]
    BY DEF Typed, Openable, Covers
  <1>4. (IF base = NoFile THEN Seed ELSE base.ages) \in [Ids -> Ages]
    BY <1>3, DurabilityAssumption
  <1>. QED
    BY <1>1, <1>2, <1>4, ResolvedTyped, ReplayTyped DEF Recovered

LEMMA NextSeqTyped ==
  ASSUME Typed
  PROVE  /\ NextSeq \in Nat \ {0}
         /\ store = "hybrid" => \A i \in 1 .. Len(Entries) : Entries[i].seq < NextSeq
         /\ store = "hybrid" /\ Entries # <<>> => \E i \in 1 .. Len(Entries) : NextSeq = Entries[i].seq + 1
  <1>1. /\ Entries \in Seq(WalEntries) /\ Len(Entries) \in Nat /\ DOMAIN Entries = 1 .. Len(Entries)
        /\ \A i \in 1 .. Len(Entries) : Entries[i].seq \in 1 .. MaxLog
    BY EntriesTyped
  <1>. HIDE DEF Entries
  <1>2. CASE Entries = <<>>
    BY <1>1, <1>2 DEF NextSeq
  <1>3. CASE Entries # <<>> /\ store # "hybrid"
    <2>1. Len(Entries) \in 1 .. Len(Entries) /\ Last(Entries) = Entries[Len(Entries)]
      BY <1>1, <1>3 DEF Last
    <2>. QED
      BY <1>1, <1>3, <2>1 DEF NextSeq
  <1>4. CASE Entries # <<>> /\ store = "hybrid"
    <2>. DEFINE N == {e.seq : e \in ToSet(Entries)}
                m == CHOOSE n \in N : \A e \in ToSet(Entries) : e.seq <= n
    <2>1. ToSet(Entries) = {Entries[i] : i \in 1 .. Len(Entries)}
      BY <1>1 DEF ToSet
    <2>2. N = {Entries[i].seq : i \in 1 .. Len(Entries)}
      BY <2>1
    <2>3. 1 \in 1 .. Len(Entries) /\ MaxLog \in Nat
      BY <1>1, <1>4, DurabilityAssumption
    <2>4. N # {} /\ N \in SUBSET (0 .. MaxLog)
      <3>1. \A n \in 1 .. MaxLog : n \in 0 .. MaxLog
        OBVIOUS
      <3>2. \A i \in 1 .. Len(Entries) : Entries[i].seq \in 0 .. MaxLog
        BY <1>1, <3>1
      <3>3. N # {}
        BY <2>2, <2>3
      <3>. QED
        BY <2>2, <3>2, <3>3
    <2>5. (\A e \in ToSet(Entries) : e.seq \in N)
      OBVIOUS
    <2>6. \A n \in N : n \in 1 .. MaxLog
      BY <1>1, <2>2
    <2>7. \A i \in 1 .. Len(Entries) : Entries[i].seq \in N
      BY <2>2
    <2>8. \A n \in N : \E i \in 1 .. Len(Entries) : n = Entries[i].seq
      BY <2>2
    <2>9. NextSeq = 1 + m
      BY <1>4 DEF NextSeq
    <2>10. \E n \in N : \A k \in N : k <= n
      <3>. HIDE DEF N
      <3>. QED
        BY <2>3, <2>4, GreatestOf
    <2>11. \E n \in N : \A e \in ToSet(Entries) : e.seq <= n
      BY <2>5, <2>10
    <2>12. m \in N /\ \A e \in ToSet(Entries) : e.seq <= m
      BY <2>11
    <2>13. \A i \in 1 .. Len(Entries) : Entries[i].seq <= m
      BY <2>1, <2>12
    <2>. HIDE DEF m, N
    <2>14. m \in 1 .. MaxLog /\ \E i \in 1 .. Len(Entries) : m = Entries[i].seq
      BY <2>6, <2>8, <2>12
    <2>. QED
      BY <1>1, <2>3, <2>9, <2>13, <2>14
  <1>. QED
    BY <1>2, <1>3, <1>4

\* What an opening makes of the history.
LEMMA ResumedFacts ==
  ASSUME Typed
  PROVE  /\ Resumed \in Seq(Told)
         /\ Len(Resumed) = IF store \in Snapshots THEN floor ELSE Len(history)
         /\ \A i \in 1 .. Len(Resumed) :
              i \in 1 .. Len(history) /\ Resumed[i].id = history[i].id /\ Resumed[i].age = history[i].age
              /\ Resumed[i].answer = "ok"
  <1>. DEFINE kept == IF store \in Snapshots THEN SubSeq(history, 1, floor) ELSE history
              n == IF store \in Snapshots THEN floor ELSE Len(history)
  <1>1. history \in Seq(Told) /\ floor \in 0 .. Len(history) /\ Len(history) \in Nat
    BY DEF Typed
  <1>2. \A i \in 1 .. floor : i \in 1 .. Len(history)
    BY <1>1
  <1>3. \A i \in 1 .. Len(history) : history[i] \in Told
    BY <1>1
  <1>4. kept \in Seq(Told) /\ Len(kept) = n /\ \A i \in 1 .. n : kept[i] = history[i]
    BY <1>1, <1>2, <1>3, SubSeqProperties
  <1>5. n \in Nat /\ \A i \in 1 .. n : i \in 1 .. Len(history)
    BY <1>1
  <1>. HIDE DEF kept, n
  <1>6. Resumed = [i \in 1 .. n |-> [kept[i] EXCEPT !.answer = "ok"]]
    BY <1>4 DEF Resumed, kept
  <1>7. ASSUME NEW e \in Told
        PROVE  /\ [e EXCEPT !.answer = "ok"] \in Told /\ [e EXCEPT !.answer = "ok"].id = e.id
               /\ [e EXCEPT !.answer = "ok"].age = e.age /\ [e EXCEPT !.answer = "ok"].answer = "ok"
    BY DEF Told
  <1>8. \A i \in 1 .. n : kept[i] \in Told /\ kept[i] = history[i]
    BY <1>3, <1>4, <1>5
  <1>9. \A i \in 1 .. n : Resumed[i] \in Told /\ Resumed[i].id = history[i].id
                          /\ Resumed[i].age = history[i].age /\ Resumed[i].answer = "ok"
    BY <1>6, <1>7, <1>8
  <1>10. Resumed \in Seq(Told) /\ Len(Resumed) = n
    BY <1>5, <1>6, <1>9
  <1>. QED
    BY <1>5, <1>9, <1>10 DEF n

LEMMA FilesInit == Init => FilesInv
  <1>. SUFFICES ASSUME Init PROVE FilesInv
    OBVIOUS
  <1>. USE DEF Init
  <1>1. Seed \in [Ids -> Ages] /\ MaxFlushes \in Nat /\ \A s \in Scenarios : IsScenario(s)
    BY DurabilityAssumption
  <1>2. Snapshot(0, Seed) \in Covers /\ Snapshot(0, Seed) \notin {NoFile, Torn} /\ Snapshot(0, Seed).cutoff = 0
    BY <1>1, Kinds DEF Snapshot, Covers
  <1>3. base \in Covers \cup {NoFile, Torn} /\ base # Torn /\ older = {NoFile}
    BY <1>2, Kinds
  <1>4. memtable \in Tables /\ log = <<>> /\ history = <<>>
    BY EmptyTable
  <1>5. ssts \in [1 .. MaxFlushes -> Tables \cup Unread] /\ generations \in 0 .. MaxFlushes
    BY <1>1 DEF Unread
  <1>6. Typed
    BY <1>1, <1>3, <1>4, <1>5 DEF Typed
  <1>7. Placed
    BY <1>2, <1>3, <1>4, Kinds DEF Placed, store
  <1>8. Readable
    BY <1>3, <1>4, Kinds DEF Readable, store
  <1>. QED
    BY <1>6, <1>7, <1>8 DEF FilesInv

\* A record of an update.
LEMMA Recorded ==
  ASSUME Typed, NEW x \in Ids \cup {Unknown}, NEW age \in Ages, NEW answer \in {"ok", "pending", "error", "not_found"},
         Record(x, age, answer)
  PROVE  /\ history' \in Seq(Told) /\ Len(history') = Len(history) + 1 /\ history' # <<>>
         /\ \A i \in 1 .. Len(history) : history'[i] = history[i]
         /\ history'[Len(history) + 1] = [id |-> x, age |-> age, answer |-> answer]
         /\ Last(history') = [id |-> x, age |-> age, answer |-> answer]
  <1>1. [id |-> x, age |-> age, answer |-> answer] \in Told /\ history \in Seq(Told)
    BY DEF Told, Typed
  <1>. QED
    BY <1>1 DEF Record, Last

\* An entry in the log.
LEMMA Appended ==
  ASSUME Typed, Room, NEW x \in Ids \cup {Unknown}, NEW age \in Ages, log' = Append(log, Entry(nextSeq, x, age))
  PROVE  /\ Entry(nextSeq, x, age) \in WalEntries /\ nextSeq \in 1 .. MaxLog
         /\ log' \in Seq(WalEntries \cup {Torn}) /\ Len(log') = Len(log) + 1
         /\ \A i \in 1 .. Len(log) : log'[i] = log[i]
         /\ log'[Len(log) + 1] = Entry(nextSeq, x, age)
  <1>1. nextSeq \in 1 .. MaxLog
    BY DurabilityAssumption DEF Typed, Room
  <1>2. Entry(nextSeq, x, age) \in WalEntries
    BY <1>1 DEF Entry, WalEntries
  <1>3. log \in Seq(WalEntries \cup {Torn})
    BY DEF Typed
  <1>. QED
    BY <1>1, <1>2, <1>3

\* A piece of one.
LEMMA AppendedTorn ==
  ASSUME Typed, log' = Append(log, Torn)
  PROVE  /\ log' \in Seq(WalEntries \cup {Torn}) /\ Len(log') = Len(log) + 1
         /\ \A i \in 1 .. Len(log) : log'[i] = log[i]
         /\ log'[Len(log) + 1] = Torn
  BY DEF Typed

\* The update in progress is answered.
LEMMA SettledFacts ==
  ASSUME Typed, history # <<>>, NEW answer \in {"ok", "pending", "error", "not_found"}, Settled(answer)
  PROVE  /\ history' \in Seq(Told) /\ Len(history') = Len(history) /\ Len(history) \in Nat \ {0}
         /\ \A i \in 1 .. Len(history) : history'[i].id = history[i].id /\ history'[i].age = history[i].age
         /\ \A i \in 1 .. Len(history) : i # Len(history) => history'[i] = history[i]
         /\ history'[Len(history)].answer = answer
         /\ Last(history) = history[Len(history)] /\ Last(history) \in Told
  <1>1. history \in Seq(Told) /\ Len(history) \in Nat \ {0}
    BY DEF Typed
  <1>2. \A i \in 1 .. Len(history) : history[i] \in Told
    BY <1>1
  <1>3. \A e \in Told : [e EXCEPT !.answer = answer] \in Told /\ [e EXCEPT !.answer = answer].id = e.id
          /\ [e EXCEPT !.answer = answer].age = e.age /\ [e EXCEPT !.answer = answer].answer = answer
    BY DEF Told
  <1>4. history' = [history EXCEPT ![Len(history)] = [history[Len(history)] EXCEPT !.answer = answer]]
    BY DEF Settled
  <1>5. Len(history) \in 1 .. Len(history) /\ history[Len(history)] \in Told
    BY <1>1, <1>2
  <1>6. history' \in Seq(Told) /\ Len(history') = Len(history)
    BY <1>1, <1>3, <1>4, <1>5
  <1>7. \A i \in 1 .. Len(history) :
          history'[i] = IF i = Len(history) THEN [history[Len(history)] EXCEPT !.answer = answer] ELSE history[i]
    BY <1>1, <1>4
  <1>8. Last(history) = history[Len(history)]
    BY DEF Last
  <1>. QED
    BY <1>1, <1>3, <1>5, <1>6, <1>7, <1>8

\* An opening: what it leaves in memory, and of the history.
LEMMA OpenTyped == FilesInv /\ Open => Typed'
  <1>. SUFFICES ASSUME FilesInv, Open PROVE Typed'
    OBVIOUS
  <1>. USE DEF FilesInv
  <1>1. /\ Counted \in 0 .. MaxFlushes
        /\ store = "lsm" => Recovered \in [Ids -> Ages \cup {Torn}]
        /\ store # "lsm" => Recovered \in [Ids -> Ages]
    BY RecoveredTyped DEF Open
  <1>2. Recovered \in [Ids -> Ages \cup {Torn}]
    BY <1>1
  <1>3. ReplayedTable \in Tables
    BY ReplayedTableTyped DEF Open, Openable
  <1>4. nextSeq' \in Nat \ {0}
    BY NextSeqTyped DEF Open, Typed
  <1>5. ages' \in [Ids -> Ages] /\ memtable' \in Tables /\ generations' \in 0 .. MaxFlushes
    BY <1>1, <1>3 DEF Open, Typed
  <1>6. /\ start' \in [Ids -> Ages \cup {Torn}] /\ history' \in Seq(Told)
        /\ safe' \in Nat /\ floor' \in Nat /\ safe' <= floor' /\ floor' <= Len(history')
    <2>1. /\ Resumed \in Seq(Told) /\ Len(Resumed) \in Nat /\ floor <= Len(Resumed)
      BY ResumedFacts DEF Typed
    <2>2. CASE scenario.power /\ OnDisk
      BY <1>2, <2>2 DEF Open
    <2>3. CASE ~(scenario.power /\ OnDisk)
      <3>1. start' = start /\ history' = Resumed /\ floor' = Len(Resumed) /\ safe' = safe
        BY <2>3 DEF Open
      <3>. QED
        BY <2>1, <3>1 DEF Typed
    <2>. QED
      BY <2>2, <2>3
  <1>7. UNCHANGED <<files, pc, scenario, crashes>> /\ phase' = "up"
    BY DEF Open
  <1>. QED
    BY <1>4, <1>5, <1>6, <1>7 DEF Typed, files, tables

LEMMA MisreadTyped == FilesInv /\ OpenMisreads => Typed'
  <1>. SUFFICES ASSUME FilesInv, OpenMisreads PROVE Typed'
    OBVIOUS
  <1>. USE DEF FilesInv
  <1>1. Recovered \in [Ids -> Ages] /\ NextSeq \in Nat \ {0}
    BY RecoveredTyped, NextSeqTyped DEF OpenMisreads
  <1>2. ages' \in [Ids -> Ages] /\ nextSeq' \in Nat \ {0} /\ phase' \in {"up", "down", "refused"}
    <2>1. ages \in [Ids -> Ages] /\ nextSeq \in Nat \ {0} /\ NextSeq + 1 \in Nat \ {0}
      BY <1>1 DEF Typed
    <2>2. CASE phase' = "refused" /\ UNCHANGED <<ages, nextSeq>>
      BY <2>1, <2>2
    <2>3. CASE (\E x \in Ids, a \in Ages : ages' = [Recovered EXCEPT ![x] = a])
               /\ nextSeq' = NextSeq + 1 /\ phase' = "up"
      <3>1. PICK x \in Ids, a \in Ages : ages' = [Recovered EXCEPT ![x] = a]
        BY <2>3
      <3>2. ages' \in [Ids -> Ages]
        BY <1>1, <3>1
      <3>. QED
        BY <2>1, <2>3, <3>2
    <2>. QED
      BY <2>2, <2>3 DEF OpenMisreads
  <1>3. UNCHANGED <<memtable, generations, files, pc, scenario, start, crashes, ghosts>>
    BY DEF OpenMisreads
  <1>. QED
    BY <1>2, <1>3 DEF Typed, files, tables, ghosts

LEMMA TypedStep == FilesInv /\ [Next]_vars => Typed'
  <1>. SUFFICES ASSUME FilesInv, [Next]_vars PROVE Typed'
    OBVIOUS
  <1>. USE DEF FilesInv
  <1>1. /\ scenario' = scenario /\ Torn \notin WalEntries /\ Unknown \notin Ids /\ MaxFlushes \in Nat
        /\ Seed \in [Ids -> Ages] /\ Len(log) \in Nat /\ Len(history) \in Nat
    BY SameScenario, Kinds, DurabilityAssumption DEF Typed
  <1>2. CASE UNCHANGED vars
    BY <1>2 DEF Typed, vars, memory, files, tables, life, ghosts
  <1>3. ASSUME NEW x \in Ids, NEW age \in Ages, UpdateLogged(x, age) PROVE Typed'
    <2>1. /\ Room /\ log' = Append(log, Entry(nextSeq, x, age)) /\ Record(x, age, "ok") /\ nextSeq' = nextSeq + 1
          /\ floor' = Len(history') /\ safe' = safe
          /\ UNCHANGED <<generations, synced, base, older, tables, life, pc>>
      BY <1>3 DEF UpdateLogged, AppendEntry, Answered
    <2>2. memtable' \in Tables /\ ages' \in [Ids -> Ages]
      <3>1. memtable \in Tables /\ ages \in [Ids -> Ages]
        BY DEF Typed
      <3>2. With(memtable, x, age) \in Tables
        BY <3>1, WithTable
      <3>. QED
        BY <1>3, <3>1, <3>2 DEF UpdateLogged
    <2>3. history' \in Seq(Told) /\ Len(history') = Len(history) + 1 /\ log' \in Seq(WalEntries \cup {Torn}) /\ Len(log') = Len(log) + 1
      BY <2>1, Recorded, Appended
    <2>. QED
      BY <1>1, <2>1, <2>2, <2>3 DEF Typed, tables, life
  <1>4. ASSUME NEW x \in Ids, NEW age \in Ages, AppendUnsynced(x, age) PROVE Typed'
    <2>1. /\ Room /\ log' = Append(log, Entry(nextSeq, x, age)) /\ Record(x, age, "pending") /\ pc' = "sync"
          /\ UNCHANGED <<memory, synced, base, older, tables, life, floor, safe>>
      BY <1>4 DEF AppendUnsynced, AppendEntry
    <2>2. history' \in Seq(Told) /\ Len(history') = Len(history) + 1 /\ log' \in Seq(WalEntries \cup {Torn}) /\ Len(log') = Len(log) + 1
      BY <2>1, Recorded, Appended
    <2>. QED
      BY <1>1, <2>1, <2>2 DEF Typed, tables, life, memory
  <1>5. ASSUME NEW x \in Ids, NEW age \in Ages, UpdateState(x, age) PROVE Typed'
    <2>1. /\ Record(x, age, "ok") /\ ages' = [ages EXCEPT ![x] = age] /\ floor' = floor /\ safe' = safe
          /\ UNCHANGED <<memtable, generations, nextSeq, files, life, pc, spoiled>>
      BY <1>5 DEF UpdateState, Answered
    <2>2. history' \in Seq(Told) /\ Len(history') = Len(history) + 1
      BY <2>1, Recorded
    <2>. QED
      BY <1>1, <2>1, <2>2 DEF Typed, tables, life, files
  <1>6. ASSUME NEW x \in Ids, NEW age \in Ages, UpdateEngine(x, age) PROVE Typed'
    <2>1. /\ Record(x, age, "ok") /\ ages' = [ages EXCEPT ![x] = age] /\ base' = Snapshot(0, ages')
          /\ floor' = Len(history') /\ safe' = Len(history')
          /\ UNCHANGED <<memtable, generations, nextSeq, log, synced, older, tables, life, pc, spoiled>>
      BY <1>6 DEF UpdateEngine, Answered
    <2>2. ages' \in [Ids -> Ages]
      BY <2>1 DEF Typed
    <2>3. base' \in Covers
      BY <2>1, <2>2 DEF Snapshot, Covers
    <2>4. history' \in Seq(Told) /\ Len(history') = Len(history) + 1
      BY <2>1, Recorded
    <2>. QED
      BY <1>1, <2>1, <2>2, <2>3, <2>4 DEF Typed, tables, life
  <1>7. ASSUME NEW age \in Ages, UpdateUnknown(age) PROVE Typed'
    <2>1. /\ Room /\ log' = Append(log, Entry(nextSeq, Unknown, age)) /\ Record(Unknown, age, "not_found")
          /\ nextSeq' = nextSeq + 1
          /\ UNCHANGED <<ages, memtable, generations, synced, base, older, tables, life, pc, floor, safe>>
      BY <1>7 DEF UpdateUnknown
    <2>2. history' \in Seq(Told) /\ Len(history') = Len(history) + 1 /\ log' \in Seq(WalEntries \cup {Torn}) /\ Len(log') = Len(log) + 1
      BY <2>1, Recorded, Appended
    <2>. QED
      BY <1>1, <2>1, <2>2 DEF Typed, tables, life
  <1>8. CASE SyncOk
    <2>1. /\ pc = "sync" /\ nextSeq' = nextSeq + 1 /\ ages' = [ages EXCEPT ![Last(history).id] = Last(history).age]
          /\ Settled("ok") /\ floor' = Len(history') /\ safe' = Len(history') /\ synced' = Len(log) /\ pc' = "idle"
          /\ UNCHANGED <<memtable, generations, log, base, older, tables, life, spoiled>>
      BY <1>8 DEF SyncOk, Answered
    <2>2. history # <<>>
      BY <2>1 DEF Placed
    <2>3. Last(history) \in Told
      BY <2>1, <2>2, SettledFacts
    <2>4. ages' \in [Ids -> Ages]
      BY <2>1, <2>3 DEF Typed, Told
    <2>. QED
      BY <1>1, <2>1, <2>2, <2>4, SettledFacts DEF Typed, tables, life
  <1>9. CASE SyncFails
    <2>1. pc = "sync" /\ Settled("error") /\ pc' = "idle" /\ UNCHANGED <<memory, files, life, floor, safe, spoiled>>
      BY <1>9 DEF SyncFails
    <2>2. history # <<>>
      BY <2>1 DEF Placed
    <2>. QED
      BY <1>1, <2>1, <2>2, SettledFacts DEF Typed, tables, life, files, memory
  <1>10. CASE AppendFails
    <2>1. log' = Append(log, Torn) /\ UNCHANGED <<memory, synced, base, older, tables, life, ghosts, pc>>
      BY <1>10 DEF AppendFails
    <2>. QED
      BY <1>1, <2>1, AppendedTorn DEF Typed, tables, life, memory, ghosts
  <1>11. CASE BeginCheckpoint
    BY <1>1, <1>11 DEF BeginCheckpoint, Typed, memory, tables, life, ghosts
  <1>12. CASE WriteBase
    <2>1. base' \in Covers
      BY <1>12 DEF WriteBase, Typed, Snapshot, Covers
    <2>. QED
      BY <1>1, <1>12, <2>1 DEF WriteBase, Typed, memory, tables, life
  <1>13. CASE Truncate
    BY <1>1, <1>13, CurrentTyped DEF Truncate, EmptyLog, Typed, memory, tables
  <1>14. CASE WriteFails
    BY <1>1, <1>14 DEF WriteFails, Typed, memory, files, tables, life, ghosts
  <1>15. CASE BeginFlush
    <2>1. ssts' \in [1 .. MaxFlushes -> Tables \cup Unread]
      BY <1>15 DEF BeginFlush, Typed, Unread
    <2>. QED
      BY <1>1, <1>15, <2>1 DEF BeginFlush, Typed, memory, life, ghosts
  <1>16. CASE WriteSst
    <2>1. generations < MaxFlushes
      BY <1>16 DEF WriteSst, Placed
    <2>2. ssts' \in [1 .. MaxFlushes -> Tables \cup Unread] /\ generations' \in 0 .. MaxFlushes
      BY <1>1, <1>16, <2>1 DEF WriteSst, Typed
    <2>. QED
      BY <1>1, <1>16, <2>2 DEF WriteSst, Typed, life, ghosts
  <1>17. CASE WriteCount
    BY <1>1, <1>17 DEF WriteCount, Typed, memory, life, ghosts
  <1>18. CASE ClearMemtable
    BY <1>1, <1>18, CurrentTyped, EmptyTable DEF ClearMemtable, EmptyLog, Typed, tables
  <1>19. CASE Kill
    <2>1. log' = log \/ log' = Append(log, Torn)
      BY <1>19 DEF Kill
    <2>2. log' \in Seq(WalEntries \cup {Torn}) /\ Len(log) <= Len(log')
      BY <1>1, <2>1, AppendedTorn DEF Typed
    <2>. QED
      BY <1>1, <1>19, <2>2 DEF Kill, Typed, memory, tables, ghosts
  <1>20. CASE PowerLoss
    <2>1. PICK n \in synced .. Len(log) : log' = SubSeq(log, 1, n) /\ synced' = n
      BY <1>20 DEF PowerLoss
    <2>2. n \in Nat /\ \A i \in 1 .. n : log[i] \in WalEntries \cup {Torn}
      BY DEF Typed
    <2>3. log' \in Seq(WalEntries \cup {Torn}) /\ Len(log') = n
      BY <2>1, <2>2, SubSeqProperties
    <2>4. base' \in older \cup {base} /\ older' = {base'}
      BY <1>20 DEF PowerLoss
    <2>5. base' \in Covers \cup {NoFile, Torn}
      BY <2>4 DEF Typed
    <2>. QED
      BY <1>1, <1>20, <2>1, <2>2, <2>3, <2>4, <2>5 DEF PowerLoss, Typed, memory, tables
  <1>21. CASE Create
    BY <1>1, <1>21, EmptyTable DEF Create, Typed, tables
  <1>22. CASE Open
    BY <1>22, OpenTyped
  <1>23. CASE OpenMisreads
    BY <1>23, MisreadTyped
  <1>24. CASE OpenRefused
    BY <1>1, <1>24 DEF OpenRefused, Typed, memory, files, tables, ghosts
  <1>. QED
    BY <1>2, <1>3, <1>4, <1>5, <1>6, <1>7, <1>8, <1>9, <1>10, <1>11, <1>12, <1>13, <1>14, <1>15, <1>16, <1>17,
       <1>18, <1>19, <1>20, <1>21, <1>22, <1>23, <1>24 DEF Next

\* Which files a store has, and what its log and its history are made of.
PlacedFiles ==
  /\ store \notin Logged => log = <<>>
  /\ store = "lsm" => base = NoFile
  /\ store = "redb" => base \in Covers
  /\ store # "hybrid" => \A s \in older \cup {base} : s \in Covers => s.cutoff = 0
  /\ base = NoFile => older = {NoFile}

PlacedNames ==
  /\ store # "wal_fsync" => \A i \in DOMAIN history : history[i].answer = "ok" \/ history[i].id = Unknown
  /\ store = "lsm" => \A i \in DOMAIN log : log[i] # Torn => log[i].id # Unknown

LEMMA FilesStep == FilesInv /\ [Next]_vars => PlacedFiles'
  <1>. SUFFICES ASSUME FilesInv, [Next]_vars PROVE PlacedFiles'
    OBVIOUS
  <1>1. PlacedFiles /\ base \in Covers \cup {NoFile, Torn} /\ older \in SUBSET (Covers \cup {NoFile, Torn})
    BY DEF FilesInv, Placed, PlacedFiles, Typed
  <1>2. /\ scenario' = scenario /\ NoFile \notin Covers /\ Torn \notin Covers /\ NoFile # Torn
    BY SameScenario, Kinds
  <1>. USE DEF PlacedFiles, store
  <1>3. ASSUME UNCHANGED <<scenario, base, older>>, store \notin Logged => log' = <<>> PROVE PlacedFiles'
    BY <1>1, <1>3
  <1>4. CASE UNCHANGED vars
    BY <1>1, <1>3, <1>4 DEF vars, files, life
  <1>5. ASSUME NEW x \in Ids, NEW age \in Ages, UpdateLogged(x, age) PROVE PlacedFiles'
    BY <1>1, <1>3, <1>5 DEF UpdateLogged, life
  <1>6. ASSUME NEW x \in Ids, NEW age \in Ages, AppendUnsynced(x, age) PROVE PlacedFiles'
    BY <1>1, <1>3, <1>6 DEF AppendUnsynced, life, Logged
  <1>7. ASSUME NEW x \in Ids, NEW age \in Ages, UpdateState(x, age) PROVE PlacedFiles'
    BY <1>1, <1>3, <1>7 DEF UpdateState, files, life
  <1>8. ASSUME NEW x \in Ids, NEW age \in Ages, UpdateEngine(x, age) PROVE PlacedFiles'
    <2>1. store = "redb" /\ ages' = [ages EXCEPT ![x] = age] /\ base' = Snapshot(0, ages')
          /\ UNCHANGED <<log, older, scenario>>
      BY <1>8 DEF UpdateEngine, life
    <2>2. base' \in Covers /\ base'.cutoff = 0
      <3>1. ages' \in [Ids -> Ages]
        BY <2>1 DEF FilesInv, Typed
      <3>. QED
        BY <2>1, <3>1 DEF Snapshot, Covers
    <2>. QED
      BY <1>1, <1>2, <2>1, <2>2 DEF Logged
  <1>9. ASSUME NEW age \in Ages, UpdateUnknown(age) PROVE PlacedFiles'
    BY <1>1, <1>3, <1>9 DEF UpdateUnknown, life
  <1>10. CASE SyncOk
    BY <1>1, <1>3, <1>10 DEF SyncOk, life
  <1>11. CASE SyncFails
    BY <1>1, <1>3, <1>11 DEF SyncFails, files, life
  <1>12. CASE AppendFails
    BY <1>1, <1>3, <1>12 DEF AppendFails, life
  <1>13. CASE BeginCheckpoint
    <2>1. base' = Torn /\ older' \in {older, older \cup {base, Torn}} /\ log' = log /\ store \in Checkpointing
      BY <1>13 DEF BeginCheckpoint
    <2>2. store # "lsm" /\ store # "redb"
      BY <2>1 DEF Checkpointing, Snapshots
    <2>3. \A s \in older' \cup {base'} : s \in Covers => s \in older \cup {base}
      BY <1>2, <2>1
    <2>. QED
      BY <1>1, <1>2, <2>1, <2>2, <2>3
  <1>14. CASE WriteBase
    <2>1. base' = Snapshot(IF store = "hybrid" THEN nextSeq - 1 ELSE 0, ages) /\ UNCHANGED <<log, older>>
          /\ pc = "checkpoint"
      BY <1>14 DEF WriteBase
    <2>2. store # "lsm" /\ store # "redb"
      BY <2>1 DEF FilesInv, Placed, Checkpointing, Snapshots
    <2>3. base' \in Covers /\ (store # "hybrid" => base'.cutoff = 0)
      BY <2>1 DEF FilesInv, Typed, Snapshot, Covers
    <2>. QED
      BY <1>1, <1>2, <2>1, <2>2, <2>3
  <1>15. CASE Truncate
    BY <1>1, <1>2, <1>3, <1>15 DEF Truncate, EmptyLog
  <1>16. CASE WriteFails
    BY <1>1, <1>3, <1>16 DEF WriteFails, files, life
  <1>17. CASE BeginFlush
    BY <1>1, <1>3, <1>17 DEF BeginFlush, life
  <1>18. CASE WriteSst
    BY <1>1, <1>3, <1>18 DEF WriteSst, life
  <1>19. CASE WriteCount
    BY <1>1, <1>3, <1>19 DEF WriteCount, life
  <1>20. CASE ClearMemtable
    BY <1>1, <1>2, <1>3, <1>20 DEF ClearMemtable, EmptyLog
  <1>21. CASE Kill
    BY <1>1, <1>3, <1>21 DEF Kill
  <1>22. CASE PowerLoss
    <2>1. PICK n \in synced .. Len(log) : log' = SubSeq(log, 1, n)
      BY <1>22 DEF PowerLoss
    <2>2. /\ IF store = "redb" THEN UNCHANGED base ELSE base' \in older \cup {base}
          /\ older' = {base'}
      BY <1>22 DEF PowerLoss
    <2>3. base' \in older \cup {base}
      BY <2>2
    <2>4. log = <<>> => log' = <<>>
      <3>. SUFFICES ASSUME log = <<>> PROVE log' = <<>>
        OBVIOUS
      <3>1. n = 0
        BY DEF FilesInv, Typed
      <3>. QED
        BY <2>1, <3>1, SubSeqEmpty
    <2>5. store = "lsm" => base' = NoFile
      BY <1>1, <2>3
    <2>6. store = "redb" => base' \in Covers
      BY <1>1, <2>2
    <2>. QED
      BY <1>1, <1>2, <2>2, <2>3, <2>4, <2>5, <2>6
  <1>23. CASE Create
    BY <1>1, <1>2, <1>3, <1>23 DEF Create
  <1>24. CASE Open
    BY <1>1, <1>3, <1>24 DEF Open, files
  <1>25. CASE OpenMisreads
    BY <1>1, <1>3, <1>25 DEF OpenMisreads, files
  <1>26. CASE OpenRefused
    BY <1>1, <1>3, <1>26 DEF OpenRefused, files
  <1>. QED
    BY <1>4, <1>5, <1>6, <1>7, <1>8, <1>9, <1>10, <1>11, <1>12, <1>13, <1>14, <1>15, <1>16, <1>17,
       <1>18, <1>19, <1>20, <1>21, <1>22, <1>23, <1>24, <1>25, <1>26 DEF Next

LEMMA NamesStep == FilesInv /\ [Next]_vars => PlacedNames'
  <1>. SUFFICES ASSUME FilesInv, [Next]_vars PROVE PlacedNames'
    OBVIOUS
  <1>. USE DEF FilesInv
  <1>1. /\ PlacedNames /\ scenario' = scenario /\ Unknown \notin Ids
        /\ history \in Seq(Told) /\ log \in Seq(WalEntries \cup {Torn}) /\ Typed'
    BY SameScenario, TypedStep, DurabilityAssumption DEF Placed, PlacedNames, Typed
  <1>2. /\ DOMAIN history = 1 .. Len(history) /\ DOMAIN log = 1 .. Len(log)
        /\ DOMAIN history' = 1 .. Len(history') /\ DOMAIN log' = 1 .. Len(log')
        /\ Len(history) \in Nat /\ Len(log) \in Nat
    <2>1. history' \in Seq(Told) /\ log' \in Seq(WalEntries \cup {Torn})
      BY <1>1 DEF Typed
    <2>2. history \in Seq(Told) /\ log \in Seq(WalEntries \cup {Torn})
      BY <1>1
    <2>. QED
      BY <2>1, <2>2
  <1>. USE DEF PlacedNames, store
  <1>3. ASSUME UNCHANGED <<scenario, history, log>> PROVE PlacedNames'
    BY <1>1, <1>3
  <1>4. ASSUME UNCHANGED log, NEW x \in Ids, NEW age \in Ages, Record(x, age, "ok") PROVE PlacedNames'
    <2>1. /\ Len(history') = Len(history) + 1 /\ \A i \in 1 .. Len(history) : history'[i] = history[i]
          /\ history'[Len(history) + 1] = [id |-> x, age |-> age, answer |-> "ok"]
      BY <1>4, Recorded
    <2>2. \A i \in 1 .. Len(history') : i \in 1 .. Len(history) \/ i = Len(history) + 1
      BY <1>2, <2>1
    <2>3. \A i \in 1 .. Len(history') : i \in 1 .. Len(history) \/ history'[i].answer = "ok"
      BY <2>1, <2>2
    <2>. QED
      BY <1>1, <1>2, <1>4, <2>1, <2>3
  <1>5. CASE UNCHANGED vars
    BY <1>3, <1>5 DEF vars, files, life, ghosts
  <1>6. ASSUME NEW x \in Ids, NEW age \in Ages, UpdateLogged(x, age) PROVE PlacedNames'
    <2>1. Room /\ log' = Append(log, Entry(nextSeq, x, age)) /\ Record(x, age, "ok")
      BY <1>6 DEF UpdateLogged, AppendEntry
    <2>2. /\ Len(history') = Len(history) + 1 /\ \A i \in 1 .. Len(history) : history'[i] = history[i]
          /\ history'[Len(history) + 1] = [id |-> x, age |-> age, answer |-> "ok"]
      BY <2>1, Recorded
    <2>3. /\ Len(log') = Len(log) + 1 /\ \A i \in 1 .. Len(log) : log'[i] = log[i]
          /\ log'[Len(log) + 1].id = x
      <3>1. Entry(nextSeq, x, age).id = x
        BY DEF Entry
      <3>. QED
        BY <2>1, <3>1, Appended
    <2>4. \A i \in 1 .. Len(history') : i \in 1 .. Len(history) \/ i = Len(history) + 1
      BY <1>2, <2>2
    <2>5. \A i \in 1 .. Len(log') : i \in 1 .. Len(log) \/ i = Len(log) + 1
      BY <1>2, <2>3
    <2>6. \A i \in 1 .. Len(history') : i \in 1 .. Len(history) \/ history'[i].answer = "ok"
      BY <2>2, <2>4
    <2>. QED
      BY <1>1, <1>2, <2>2, <2>3, <2>5, <2>6
  <1>7. ASSUME NEW x \in Ids, NEW age \in Ages, AppendUnsynced(x, age) PROVE PlacedNames'
    BY <1>1, <1>7 DEF AppendUnsynced
  <1>8. ASSUME NEW x \in Ids, NEW age \in Ages, UpdateState(x, age) PROVE PlacedNames'
    BY <1>4, <1>8 DEF UpdateState, files
  <1>9. ASSUME NEW x \in Ids, NEW age \in Ages, UpdateEngine(x, age) PROVE PlacedNames'
    BY <1>4, <1>9 DEF UpdateEngine
  <1>10. ASSUME NEW age \in Ages, UpdateUnknown(age) PROVE PlacedNames'
    <2>1. store # "lsm" /\ Record(Unknown, age, "not_found")
      BY <1>10 DEF UpdateUnknown
    <2>2. /\ Len(history') = Len(history) + 1 /\ \A i \in 1 .. Len(history) : history'[i] = history[i]
          /\ history'[Len(history) + 1] = [id |-> Unknown, age |-> age, answer |-> "not_found"]
      BY <2>1, Recorded
    <2>3. \A i \in 1 .. Len(history') : i \in 1 .. Len(history) \/ i = Len(history) + 1
      BY <1>2, <2>2
    <2>4. \A i \in 1 .. Len(history') : i \in 1 .. Len(history) \/ history'[i].id = Unknown
      BY <2>2, <2>3
    <2>. QED
      BY <1>1, <1>2, <2>1, <2>2, <2>4
  <1>11. CASE SyncOk
    BY <1>1, <1>11 DEF SyncOk, Placed
  <1>12. CASE SyncFails
    BY <1>1, <1>12 DEF SyncFails, Placed
  <1>13. ASSUME log' = Append(log, Torn), UNCHANGED <<scenario, history>> PROVE PlacedNames'
    <2>1. /\ Len(log') = Len(log) + 1 /\ \A i \in 1 .. Len(log) : log'[i] = log[i]
          /\ log'[Len(log) + 1] = Torn
      BY <1>13, AppendedTorn
    <2>2. \A i \in 1 .. Len(log') : i \in 1 .. Len(log) \/ i = Len(log) + 1
      BY <1>2, <2>1
    <2>. QED
      BY <1>1, <1>2, <1>13, <2>1, <2>2
  <1>14. CASE AppendFails
    BY <1>13, <1>14 DEF AppendFails, life, ghosts
  <1>15. CASE BeginCheckpoint
    BY <1>3, <1>15 DEF BeginCheckpoint, life, ghosts
  <1>16. CASE WriteBase
    BY <1>3, <1>16 DEF WriteBase, life
  <1>17. ASSUME EmptyLog PROVE PlacedNames'
    BY <1>17 DEF EmptyLog
  <1>18. CASE Truncate
    BY <1>17, <1>18 DEF Truncate
  <1>19. CASE WriteFails
    BY <1>3, <1>19 DEF WriteFails, files, life, ghosts
  <1>20. CASE BeginFlush
    BY <1>3, <1>20 DEF BeginFlush, life, ghosts
  <1>21. CASE WriteSst
    BY <1>3, <1>21 DEF WriteSst, life, ghosts
  <1>22. CASE WriteCount
    BY <1>3, <1>22 DEF WriteCount, life, ghosts
  <1>23. CASE ClearMemtable
    BY <1>17, <1>23 DEF ClearMemtable
  <1>24. CASE Kill
    BY <1>3, <1>13, <1>24 DEF Kill, ghosts
  <1>25. CASE PowerLoss
    <2>1. PICK n \in synced .. Len(log) : log' = SubSeq(log, 1, n)
      BY <1>25 DEF PowerLoss
    <2>2. n \in Nat /\ \A i \in 1 .. n : i \in 1 .. Len(log) /\ log[i] \in WalEntries \cup {Torn}
      <3>1. synced \in Nat /\ Len(log) \in Nat
        BY <1>2 DEF Typed
      <3>2. n \in Nat /\ n <= Len(log)
        BY <3>1
      <3>3. \A i \in 1 .. n : i \in 1 .. Len(log)
        BY <3>1, <3>2
      <3>4. \A i \in 1 .. Len(log) : log[i] \in WalEntries \cup {Torn}
        BY <1>1, <1>2
      <3>. QED
        BY <3>2, <3>3, <3>4
    <2>3. Len(log') = n /\ \A i \in 1 .. n : log'[i] = log[i]
      BY <2>1, <2>2, SubSeqProperties
    <2>4. history' = history
      BY <1>25 DEF PowerLoss
    <2>. QED
      BY <1>1, <1>2, <2>2, <2>3, <2>4
  <1>26. CASE Create
    BY <1>26 DEF Create
  <1>27. CASE Open
    <2>1. log' = log /\ history' \in {<<>>, Resumed}
      BY <1>27 DEF Open, files
    <2>2. \A i \in 1 .. Len(Resumed) : Resumed[i].answer = "ok"
      BY ResumedFacts
    <2>3. \A i \in DOMAIN history' : history'[i].answer = "ok"
      BY <1>2, <2>1, <2>2
    <2>. QED
      BY <1>1, <2>1, <2>3
  <1>28. CASE OpenMisreads
    BY <1>3, <1>28 DEF OpenMisreads, files, ghosts
  <1>29. CASE OpenRefused
    BY <1>3, <1>29 DEF OpenRefused, files, ghosts
  <1>. QED
    BY <1>5, <1>6, <1>7, <1>8, <1>9, <1>10, <1>11, <1>12, <1>14, <1>15, <1>16, <1>18, <1>19, <1>20, <1>21, <1>22,
       <1>23, <1>24, <1>25, <1>26, <1>27, <1>28, <1>29 DEF Next

\* Where the call in progress stands.
PlacedCall ==
  /\ pc # "idle" => phase = "up"
  /\ pc = "sync" => store = "wal_fsync" /\ history # <<>> /\ Last(history).answer = "pending"
  /\ pc = "checkpoint" => store \in Checkpointing
  /\ pc = "truncate" => store \in {"wal_fsync", "wal_buffered"} /\ base \in Covers /\ base.ages = ages
  /\ pc \in {"checkpoint", "truncate"} => "checkpoint" \in scenario.calls
  /\ pc \in {"sst", "count", "clear"} => store = "lsm"
  /\ pc = "sst" => generations < MaxFlushes

LEMMA CallStep == FilesInv /\ [Next]_vars => PlacedCall'
  <1>. SUFFICES ASSUME FilesInv, [Next]_vars PROVE PlacedCall'
    OBVIOUS
  <1>. USE DEF FilesInv
  <1>1. PlacedCall /\ scenario' = scenario
    BY SameScenario DEF Placed, PlacedCall
  <1>. USE DEF PlacedCall, store
  <1>2. ASSUME UNCHANGED <<scenario, pc, phase, history, base, ages, generations>> PROVE PlacedCall'
    BY <1>1, <1>2
  <1>3. ASSUME pc' = "idle" PROVE PlacedCall'
    BY <1>3
  <1>4. CASE UNCHANGED vars
    BY <1>2, <1>4 DEF vars, files, life, ghosts, memory
  <1>5. ASSUME NEW x \in Ids, NEW age \in Ages, UpdateLogged(x, age) \/ UpdateState(x, age) \/ UpdateEngine(x, age)
        PROVE  PlacedCall'
    BY <1>3, <1>5 DEF UpdateLogged, UpdateState, UpdateEngine, Room
  <1>6. ASSUME NEW x \in Ids, NEW age \in Ages, AppendUnsynced(x, age) PROVE PlacedCall'
    <2>1. Record(x, age, "pending") /\ phase = "up" /\ store = "wal_fsync" /\ pc' = "sync" /\ phase' = phase
      BY <1>6 DEF AppendUnsynced, Room, life
    <2>2. history' # <<>> /\ Last(history') = [id |-> x, age |-> age, answer |-> "pending"]
      BY <2>1, Recorded
    <2>3. Last(history').answer = "pending"
      BY <2>2
    <2>. QED
      BY <1>1, <2>1, <2>2, <2>3
  <1>7. ASSUME NEW age \in Ages, UpdateUnknown(age) PROVE PlacedCall'
    BY <1>3, <1>7 DEF UpdateUnknown, Room
  <1>8. CASE SyncOk \/ SyncFails
    BY <1>3, <1>8 DEF SyncOk, SyncFails
  <1>9. CASE AppendFails
    BY <1>3, <1>9 DEF AppendFails, Room
  <1>10. CASE BeginCheckpoint
    BY <1>1, <1>10 DEF BeginCheckpoint, life
  <1>11. CASE WriteBase
    <2>1. base' \in Covers /\ base'.ages = ages
      BY <1>11 DEF WriteBase, Typed, Snapshot, Covers
    <2>. QED
      BY <1>1, <1>11, <2>1 DEF WriteBase, memory, life
  <1>12. CASE Truncate \/ ClearMemtable
    BY <1>3, <1>12 DEF Truncate, ClearMemtable
  <1>13. CASE WriteFails
    BY <1>3, <1>13 DEF WriteFails
  <1>14. CASE BeginFlush
    BY <1>1, <1>14 DEF BeginFlush, life, memory
  <1>15. CASE WriteSst
    BY <1>1, <1>15 DEF WriteSst, life
  <1>16. CASE WriteCount
    BY <1>1, <1>16 DEF WriteCount, life
  <1>17. CASE Kill \/ PowerLoss
    BY <1>3, <1>17 DEF Kill, PowerLoss
  <1>18. CASE Create \/ Open \/ OpenMisreads \/ OpenRefused
    <2>1. pc' = pc /\ phase # "up"
      BY <1>18 DEF Create, Open, OpenMisreads, OpenRefused
    <2>. QED
      BY <1>1, <1>3, <2>1
  <1>. QED
    BY <1>4, <1>5, <1>6, <1>7, <1>8, <1>9, <1>10, <1>11, <1>12, <1>13, <1>14, <1>15, <1>16, <1>17, <1>18 DEF Next

LEMMA PlacedStep == FilesInv /\ [Next]_vars => Placed'
  BY FilesStep, NamesStep, CallStep DEF Placed, PlacedFiles, PlacedNames, PlacedCall

LEMMA ReadableStep == FilesInv /\ [Next]_vars => Readable'
  <1>. SUFFICES ASSUME FilesInv, [Next]_vars PROVE Readable'
    OBVIOUS
  <1>. USE DEF FilesInv
  <1>1. /\ Readable /\ scenario' = scenario /\ NoFile # Torn /\ NoFile \notin Covers /\ Torn \notin Covers
        /\ Torn \notin Nat /\ Torn \notin WalEntries /\ Unknown \notin Ids /\ log \in Seq(WalEntries \cup {Torn})
    BY SameScenario, Kinds, DurabilityAssumption DEF Typed
  <1>2. DOMAIN log = 1 .. Len(log) /\ Len(log) \in Nat
    BY <1>1
  <1>. USE DEF Readable, store
  <1>. DEFINE Known == \A i \in DOMAIN log : log[i] # Torn /\ log[i].id = Unknown => "unknown" \in spoiled
              Kept == UNCHANGED <<scenario, base, counted>> /\ spoiled \subseteq spoiled'
                        /\ (pc' = pc \/ pc \notin {"checkpoint", "count"})
  <1>3. ASSUME UNCHANGED log, spoiled \subseteq spoiled' PROVE Known'
    BY <1>1, <1>3
  <1>4. ASSUME log' = Append(log, Torn), spoiled \subseteq spoiled' PROVE Known'
    <2>1. /\ Len(log') = Len(log) + 1 /\ \A i \in 1 .. Len(log) : log'[i] = log[i]
          /\ log'[Len(log) + 1] = Torn /\ log' \in Seq(WalEntries \cup {Torn})
      BY <1>4, AppendedTorn
    <2>2. \A i \in 1 .. Len(log') : i \in 1 .. Len(log) \/ i = Len(log) + 1
      BY <1>2, <2>1
    <2>3. DOMAIN log' = 1 .. Len(log')
      BY <2>1
    <2>. QED
      BY <1>1, <1>2, <1>4, <2>1, <2>2, <2>3
  <1>5. ASSUME NEW x \in Ids \cup {Unknown}, NEW age \in Ages, Room, log' = Append(log, Entry(nextSeq, x, age)),
               spoiled \subseteq spoiled', x = Unknown => "unknown" \in spoiled'
        PROVE  Known'
    <2>1. /\ Len(log') = Len(log) + 1 /\ \A i \in 1 .. Len(log) : log'[i] = log[i]
          /\ log'[Len(log) + 1] = Entry(nextSeq, x, age) /\ log' \in Seq(WalEntries \cup {Torn})
      BY <1>5, Appended
    <2>2. \A i \in 1 .. Len(log') : i \in 1 .. Len(log) \/ i = Len(log) + 1
      BY <1>2, <2>1
    <2>3. DOMAIN log' = 1 .. Len(log')
      BY <2>1
    <2>4. Entry(nextSeq, x, age).id = x
      BY DEF Entry
    <2>. QED
      BY <1>1, <1>2, <1>5, <2>1, <2>2, <2>3, <2>4
  <1>6. ASSUME Kept, Known' PROVE Readable'
    BY <1>1, <1>6
  <1>7. CASE UNCHANGED vars
    BY <1>3, <1>6, <1>7 DEF vars, files, life, tables
  <1>8. ASSUME NEW x \in Ids, NEW age \in Ages, UpdateLogged(x, age) \/ AppendUnsynced(x, age) PROVE Readable'
    <2>1. Known'
      BY <1>5, <1>8, <1>1 DEF UpdateLogged, AppendUnsynced, AppendEntry
    <2>. QED
      BY <1>6, <1>8, <2>1 DEF UpdateLogged, AppendUnsynced, AppendEntry, Room, tables, life
  <1>9. ASSUME NEW x \in Ids, NEW age \in Ages, UpdateState(x, age) PROVE Readable'
    BY <1>3, <1>6, <1>9 DEF UpdateState, files, tables, life
  <1>10. ASSUME NEW x \in Ids, NEW age \in Ages, UpdateEngine(x, age) PROVE Readable'
    <2>1. base' = Snapshot(0, ages') /\ ages' = [ages EXCEPT ![x] = age] /\ store = "redb"
          /\ UNCHANGED <<log, tables, life, pc, spoiled>>
      BY <1>10 DEF UpdateEngine
    <2>2. base' \in Covers
      <3>1. ages' \in [Ids -> Ages]
        BY <2>1 DEF Typed
      <3>. QED
        BY <2>1, <3>1 DEF Snapshot, Covers
    <2>3. Known'
      BY <1>3, <2>1
    <2>. QED
      BY <1>1, <2>1, <2>2, <2>3 DEF tables, life
  <1>11. ASSUME NEW age \in Ages, UpdateUnknown(age) PROVE Readable'
    <2>1. Known'
      BY <1>5, <1>11 DEF UpdateUnknown
    <2>. QED
      BY <1>6, <1>11, <2>1 DEF UpdateUnknown, tables, life
  <1>12. CASE SyncOk
    BY <1>3, <1>6, <1>12 DEF SyncOk, tables, life
  <1>13. CASE SyncFails
    BY <1>3, <1>6, <1>13 DEF SyncFails, files, tables, life
  <1>14. CASE AppendFails
    BY <1>4, <1>6, <1>14 DEF AppendFails, tables, life
  <1>15. CASE BeginCheckpoint
    <2>1. Known'
      BY <1>3, <1>15 DEF BeginCheckpoint
    <2>. QED
      BY <1>1, <1>15, <2>1 DEF BeginCheckpoint, tables, life
  <1>16. CASE WriteBase
    <2>1. base' \in Covers
      BY <1>16 DEF WriteBase, Typed, Snapshot, Covers
    <2>2. Known'
      BY <1>1, <1>16 DEF WriteBase
    <2>3. counted' = Torn => "file" \in spoiled'
      BY <1>1, <1>16 DEF WriteBase, tables
    <2>. QED
      BY <1>1, <1>16, <2>1, <2>2, <2>3 DEF WriteBase, tables, life
  <1>17. CASE Truncate
    <2>1. Known'
      BY <1>17 DEF Truncate, EmptyLog
    <2>. QED
      BY <1>6, <1>17, <2>1 DEF Truncate, EmptyLog, tables
  <1>18. CASE WriteFails
    <2>1. Known'
      BY <1>3, <1>18 DEF WriteFails, files
    <2>2. UNCHANGED <<base, counted, scenario>>
      BY <1>18 DEF WriteFails, files, tables, life
    <2>. QED
      BY <1>1, <1>18, <2>1, <2>2 DEF WriteFails
  <1>19. CASE BeginFlush
    BY <1>3, <1>6, <1>19 DEF BeginFlush, life
  <1>20. CASE WriteSst
    <2>1. Known'
      BY <1>3, <1>20 DEF WriteSst
    <2>. QED
      BY <1>1, <1>20, <2>1 DEF WriteSst, life
  <1>21. CASE WriteCount
    <2>1. Known' /\ counted' # Torn
      BY <1>1, <1>3, <1>21 DEF WriteCount, Typed
    <2>. QED
      BY <1>1, <1>21, <2>1 DEF WriteCount, life
  <1>22. CASE ClearMemtable
    <2>1. Known'
      BY <1>22 DEF ClearMemtable, EmptyLog
    <2>. QED
      BY <1>6, <1>22, <2>1 DEF ClearMemtable, EmptyLog, tables
  <1>23. CASE Kill
    <2>1. Known'
      BY <1>3, <1>4, <1>23 DEF Kill
    <2>2. UNCHANGED <<base, counted, scenario>> /\ spoiled \cup CutShort \subseteq spoiled'
      BY <1>23 DEF Kill, tables
    <2>. QED
      BY <1>1, <2>1, <2>2 DEF CutShort
  <1>24. CASE PowerLoss
    <2>1. PICK n \in synced .. Len(log) : log' = SubSeq(log, 1, n)
      BY <1>24 DEF PowerLoss
    <2>2. n \in Nat /\ \A i \in 1 .. n : i \in 1 .. Len(log) /\ log[i] \in WalEntries \cup {Torn}
      <3>1. synced \in Nat /\ Len(log) \in Nat
        BY <1>2 DEF Typed
      <3>2. n \in Nat /\ n <= Len(log)
        BY <3>1
      <3>3. \A i \in 1 .. n : i \in 1 .. Len(log)
        BY <3>1, <3>2
      <3>4. \A i \in 1 .. Len(log) : log[i] \in WalEntries \cup {Torn}
        BY <1>1, <1>2
      <3>. QED
        BY <3>2, <3>3, <3>4
    <2>3. Len(log') = n /\ (\A i \in 1 .. n : log'[i] = log[i]) /\ log' \in Seq(WalEntries \cup {Torn})
      BY <2>1, <2>2, SubSeqProperties
    <2>4. spoiled' = spoiled \cup CutShort \cup (IF base' # base THEN {"power"} ELSE {}) /\ counted' = counted
      BY <1>24 DEF PowerLoss, tables
    <2>5. Known'
      BY <1>1, <1>2, <2>2, <2>3, <2>4
    <2>. QED
      BY <1>1, <2>4, <2>5 DEF CutShort
  <1>25. CASE Create
    <2>1. Known'
      BY <1>25 DEF Create
    <2>. QED
      BY <1>6, <1>25, <2>1 DEF Create, tables
  <1>26. CASE Open
    BY <1>3, <1>6, <1>26 DEF Open, files, tables
  <1>27. CASE OpenMisreads
    BY <1>3, <1>6, <1>27 DEF OpenMisreads, files, tables
  <1>28. CASE OpenRefused
    BY <1>3, <1>6, <1>28 DEF OpenRefused, files, tables
  <1>. QED
    BY <1>7, <1>8, <1>9, <1>10, <1>11, <1>12, <1>13, <1>14, <1>15, <1>16, <1>17, <1>18, <1>19, <1>20, <1>21, <1>22,
       <1>23, <1>24, <1>25, <1>26, <1>27, <1>28 DEF Next

LEMMA FilesInvariant == Spec => []FilesInv
  <1>1. FilesInv /\ [Next]_vars => FilesInv'
    BY TypedStep, PlacedStep, ReadableStep DEF FilesInv
  <1>. QED
    BY <1>1, FilesInit, PTL DEF Spec

\* The files of a store open again: what may keep them from it has left its mark.
THEOREM OpensAgainHolds == Spec => []OpensAgain
  <1>1. FilesInv => OpensAgain
    <2>. SUFFICES ASSUME FilesInv, phase = "down", spoiled = {} PROVE Openable
      BY DEF OpensAgain
    <2>. USE DEF FilesInv
    <2>1. pc = "idle"
      BY DEF Placed
    <2>2. base # Torn /\ counted # Torn /\ (store \in Snapshots => base # NoFile)
      BY <2>1 DEF Readable
    <2>3. \A i \in Replayed : Entries[i].id # Unknown
      <3>1. /\ Replayed \in SUBSET (1 .. Len(Entries))
            /\ \A i \in 1 .. Len(Entries) : i \in DOMAIN log /\ Entries[i] = log[i] /\ Entries[i] # Torn
        BY EntriesTyped
      <3>. HIDE DEF Entries, Replayed
      <3>. QED
        BY <3>1 DEF Readable
    <2>. QED
      BY <2>2, <2>3 DEF Openable
  <1>. QED
    BY <1>1, FilesInvariant, PTL

------------------------------------------------------------------------------
(* What the files say of the history                                       *)

Sound == spoiled \cap {"behind", "reused", "stale"} = {}

\* Power was lost, or nothing is left to lose.
Lost == phase = "down" /\ scenario.power /\ OnDisk

Shaped ==
  /\ \A i \in DOMAIN log : log[i] = Torn => i = Len(log)
  /\ store = "hybrid" => /\ \A i \in 1 .. Len(Entries) : Entries[i].seq = i
                         /\ phase = "up" => nextSeq = Len(Entries) + 1

\* The updates since the first off entries are those of the log.
Follows(off) ==
  /\ off \in Nat /\ off + safe <= Len(Entries) /\ off + safe <= synced
  /\ off + floor <= Len(Entries) /\ Len(Entries) <= off + Len(history)
  /\ ~Lost => Len(Entries) = off + Len(history)
  /\ \A i \in 1 .. Len(Entries) - off :
       history[i].id = Entries[off + i].id /\ history[i].age = Entries[off + i].age

Cut(s)  == IF s = NoFile THEN 0 ELSE s.cutoff
Held(s) == IF s = NoFile THEN Seed ELSE s.ages

\* From s the entries e after its cutoff lead to st, where the history h begins, or s is
\* one of the states since.
LeadsIn(s, off, e, st, h) ==
  /\ Cut(s) <= off => Updated(Held(s), e, Cut(s) + 1 .. off) = st
  /\ off < Cut(s) => Cut(s) <= off + Len(h) /\ Held(s) = Updated(st, h, 1 .. Cut(s) - off)

Leads(s, off) ==
  /\ LeadsIn(s, off, Entries, start, history)
  /\ ~Lost => Cut(s) <= Len(Entries)

Untold(x) == \A i \in 1 .. Len(Entries) : Entries[i].id # x

LogStores == {"wal_fsync", "wal_buffered", "hybrid"}

Based(off) ==
  IF store = "hybrid" \/ scenario.power THEN \A s \in older \cup {base} : s # Torn => Leads(s, off)
  ELSE off = 0 /\ (base # Torn => \A x \in Ids : Untold(x) => Held(base)[x] = start[x])

LogInv == store \in LogStores => \E off \in Nat : Follows(off) /\ Based(off)

\* The generations under the log.
Under(n) == \A x \in Ids : Untold(x) => Resolved(Empty, n)[x] = start[x]

LsmInv ==
  store = "lsm" =>
    /\ Follows(0)
    /\ phase = "up" => memtable = ReplayedTable
    /\ \A n \in Nat : (phase = "up" /\ n = generations) \/ (counted # Torn /\ n = Counted) => Under(n)
    /\ phase = "up" /\ counted # Torn => Counted <= generations
    /\ pc \in {"count", "clear"} => generations # 0 /\ ssts[generations] = memtable
    /\ pc = "clear" => counted = generations

\* The state after the first n updates.
First(n) == Updated(start, history, 1 .. n)

SnapshotInv ==
  store \in Snapshots =>
    /\ safe = 0
    /\ base \in Covers => \E n \in floor .. Len(history) : base.ages = First(n) /\ (~Lost => n = floor)
    /\ ~Lost => \A s \in older : s \in Covers => \E n \in 0 .. floor : s.ages = First(n)

EngineInv == store = "redb" => base.ages = First(Len(history))

\* What a reader sees.
Seen == phase = "up" /\ store # "lsm" => ages = After(Len(history), Unanswered)

Parts == Shaped /\ LogInv /\ LsmInv /\ SnapshotInv /\ EngineInv /\ Seen
Story == Sound /\ phase # "refused" => Parts

StoryInv == FilesInv /\ Story

\* Facts that the steps share.
LEMMA Basics ==
  ASSUME FilesInv
  PROVE  /\ Len(history) \in Nat /\ DOMAIN history = 1 .. Len(history) /\ Len(log) \in Nat
         /\ Len(Entries) \in Nat /\ Len(Entries) <= Len(log) /\ floor \in Nat /\ safe \in Nat /\ synced \in Nat
         /\ safe <= floor /\ floor <= Len(history) /\ synced <= Len(log)
         /\ \A i \in 1 .. Len(history) : history[i].age \in Ages /\ history[i] \in Told
         /\ start \in [Ids -> Ages \cup {Torn}]
         /\ \A s \in older \cup {base} : s # Torn => Cut(s) \in Nat /\ Held(s) \in [Ids -> Ages]
         /\ \A s \in older \cup {base} : s # Torn /\ store # "hybrid" => Cut(s) = 0
  <1>1. Typed /\ Placed /\ history \in Seq(Told)
    BY DEF FilesInv, Typed
  <1>2. Len(Entries) \in 0 .. Len(log) /\ Len(log) \in Nat
    BY <1>1, EntriesTyped
  <1>3. \A i \in 1 .. Len(history) : history[i] \in Told
    BY <1>1
  <1>4. \A e \in Told : e.age \in Ages
    BY DEF Told
  <1>5. ASSUME NEW s \in older \cup {base}, s # Torn
        PROVE  Cut(s) \in Nat /\ Held(s) \in [Ids -> Ages] /\ (store # "hybrid" => Cut(s) = 0)
    <2>1. s = NoFile \/ s \in Covers
      BY <1>1, <1>5 DEF Typed
    <2>2. s \in Covers => s.cutoff \in Nat /\ s.ages \in [Ids -> Ages] /\ s # NoFile
      BY Kinds DEF Covers
    <2>. QED
      BY <1>1, <2>1, <2>2, DurabilityAssumption DEF Cut, Held, Placed
  <1>. HIDE DEF Entries
  <1>. QED
    BY <1>1, <1>2, <1>3, <1>4, <1>5 DEF Typed

\* Updates of ids that have no record change nothing.
LEMMA UnknownIgnored ==
  ASSUME NEW f, NEW u, NEW n \in Nat, NEW B \in SUBSET (1 .. n), \A i \in (1 .. n) \ B : u[i].id \notin Ids
  PROVE  Updated(f, u, B) = Updated(f, u, 1 .. n)
  <1>. DEFINE g == Updated(f, u, B)
  <1>1. g = [x \in Ids |-> g[x]] /\ \A x \in Ids : Gives(f, u, B, x, g[x])
    BY UpdatedGives
  <1>. HIDE DEF g
  <1>2. \A x \in Ids : Gives(f, u, 1 .. n, x, g[x])
    BY <1>1 DEF Gives
  <1>3. g = Updated(f, u, 1 .. n)
    BY <1>1, <1>2, UpdatedIs
  <1>. QED
    BY <1>3 DEF g

\* Only wal_fsync leaves an update of a record unanswered.
LEMMA AfterAll ==
  ASSUME FilesInv, store # "wal_fsync"
  PROVE  After(Len(history), Unanswered) = First(Len(history))
  <1>. DEFINE n == Len(history)
              B == (1 .. n) \ Unanswered
  <1>1. n \in Nat /\ DOMAIN history = 1 .. n /\ Unknown \notin Ids
    BY Basics, DurabilityAssumption
  <1>2. \A i \in DOMAIN history : history[i].answer = "ok" \/ history[i].id = Unknown
    BY DEF FilesInv, Placed
  <1>3. \A i \in (1 .. n) \ B : history[i].id \notin Ids
    BY <1>1, <1>2 DEF Unanswered
  <1>4. B \in SUBSET (1 .. n)
    OBVIOUS
  <1>. HIDE DEF n, B
  <1>5. Updated(start, history, B) = Updated(start, history, 1 .. n)
    BY <1>1, <1>3, <1>4, UnknownIgnored
  <1>. QED
    BY <1>5 DEF After, First, B, n

LEMMA LeadsKept ==
  ASSUME NEW s, NEW off \in Nat, Cut(s) \in Nat, NEW e, NEW d, NEW st, NEW h, NEW k,
         \A i \in 1 .. off : d[i] = e[i], Len(h) \in Nat, Len(k) \in Nat, Len(h) <= Len(k),
         \A i \in 1 .. Len(h) : k[i].id = h[i].id /\ k[i].age = h[i].age,
         LeadsIn(s, off, e, st, h)
  PROVE  LeadsIn(s, off, d, st, k)
  <1>1. CASE Cut(s) <= off
    <2>. DEFINE A == Cut(s) + 1 .. off
    <2>1. A \in SUBSET (1 .. off)
      OBVIOUS
    <2>2. \A i \in A : e[i].id = d[i].id /\ e[i].age = d[i].age
      BY <2>1
    <2>. HIDE DEF A
    <2>3. Updated(Held(s), e, A) = Updated(Held(s), d, A)
      BY <2>1, <2>2, SameUpdates
    <2>4. ~(off < Cut(s))
      BY <1>1
    <2>. QED
      BY <1>1, <2>3, <2>4 DEF LeadsIn, A
  <1>2. CASE off < Cut(s)
    <2>. DEFINE A == 1 .. Cut(s) - off
    <2>1. Cut(s) <= off + Len(h) /\ Held(s) = Updated(st, h, A) /\ ~(Cut(s) <= off)
      BY <1>2 DEF LeadsIn
    <2>2. A \in SUBSET (1 .. Len(h)) /\ Cut(s) <= off + Len(k)
      BY <1>2, <2>1
    <2>3. \A i \in A : h[i].id = k[i].id /\ h[i].age = k[i].age
      BY <2>2
    <2>. HIDE DEF A
    <2>4. Updated(st, h, A) = Updated(st, k, A)
      BY <2>2, <2>3, SameUpdates
    <2>. QED
      BY <1>2, <2>1, <2>2, <2>4 DEF LeadsIn, A
  <1>. QED
    BY <1>1, <1>2

\* What is replayed: everything, or what the snapshot of hybrid does not cover.
LEMMA ReplayedIs ==
  ASSUME FilesInv, Shaped, base # Torn
  PROVE  /\ Replayed = Cut(base) + 1 .. Len(Entries)
         /\ store = "lsm" => Replayed = 1 .. Len(Entries)
         /\ store # "lsm" => Recovered = Updated(Held(base), Entries, Replayed)
  <1>1. /\ Len(Entries) \in Nat /\ Cut(base) \in Nat /\ (store # "hybrid" => Cut(base) = 0) /\ Cutoff = Cut(base)
    BY Basics, Kinds DEF Cutoff, Cut
  <1>2. DOMAIN Entries = 1 .. Len(Entries) /\ (store = "hybrid" => \A i \in 1 .. Len(Entries) : Entries[i].seq = i)
    BY EntriesTyped DEF FilesInv, Shaped
  <1>3. store # "lsm" => Recovered = Updated(Held(base), Entries, Replayed)
    BY DEF Recovered, Replay, Held
  <1>. HIDE DEF Entries
  <1>4. CASE store = "hybrid"
    <2>1. Replayed = {i \in 1 .. Len(Entries) : i > Cut(base)}
      BY <1>1, <1>2, <1>4 DEF Replayed
    <2>2. Replayed = Cut(base) + 1 .. Len(Entries)
      BY <1>1, <2>1
    <2>. QED
      BY <1>3, <1>4, <2>2
  <1>5. CASE store # "hybrid"
    <2>1. Replayed = 1 .. Len(Entries)
      BY <1>2, <1>5 DEF Replayed
    <2>2. 1 .. Len(Entries) = Cut(base) + 1 .. Len(Entries)
      BY <1>1, <1>5
    <2>. QED
      BY <1>3, <2>1, <2>2
  <1>. QED
    BY <1>4, <1>5

\* The entries after the first off are the first updates of the history.
LEMMA FollowsMoves ==
  ASSUME FilesInv, NEW off \in Nat, Follows(off), NEW c \in Nat, off <= c, c <= Len(Entries)
  PROVE  Moves(Entries, c + 1 .. Len(Entries), c, history, c - off + 1 .. Len(Entries) - off, c - off, Len(Entries) - c)
  <1>1. Len(Entries) \in Nat
    BY Basics
  <1>2. \A i \in 1 .. Len(Entries) - off :
          history[i].id = Entries[off + i].id /\ history[i].age = Entries[off + i].age
    BY DEF Follows
  <1>. HIDE DEF Entries
  <1>. DEFINE n == Len(Entries) - c
              d == c - off
  <1>3. /\ n \in Nat /\ d \in Nat /\ c + n = Len(Entries) /\ d + n = Len(Entries) - off
    BY <1>1
  <1>4. ASSUME NEW i \in 1 .. n
        PROVE  history[d + i].id = Entries[c + i].id /\ history[d + i].age = Entries[c + i].age
    <2>1. d + i \in 1 .. Len(Entries) - off /\ off + (d + i) = c + i
      BY <1>1
    <2>. QED
      BY <1>2, <2>1
  <1>. QED
    BY <1>3, <1>4 DEF Moves

\* A log that a snapshot begins.
LEMMA RecoveredFromBase ==
  ASSUME FilesInv, Shaped, base # Torn, store # "lsm", NEW off \in Nat, Follows(off), Leads(base, off)
  PROVE  \E n \in floor .. Len(history) : Recovered = First(n) /\ (~Lost => n = Len(history))
  <1>. DEFINE L == Len(Entries)
              c == Cut(base)
              f == Held(base)
  <1>1. L \in Nat /\ c \in Nat /\ floor \in Nat /\ Len(history) \in Nat
    BY Basics
  <1>2. Recovered = Updated(f, Entries, c + 1 .. L)
    BY ReplayedIs
  <1>3. /\ off + floor <= L /\ L <= off + Len(history) /\ (~Lost => L = off + Len(history))
        /\ off <= L
    BY <1>1, Basics DEF Follows
  <1>4. /\ c <= off => Updated(f, Entries, c + 1 .. off) = start
        /\ off < c => c <= off + Len(history) /\ f = Updated(start, history, 1 .. c - off)
        /\ ~Lost => c <= L
    BY DEF Leads, LeadsIn
  <1>5. CASE c <= off
    <2>. DEFINE A == c + 1 .. off
                B == off + 1 .. L
                C == 1 .. L - off
    <2>1. Before(A, B, L) /\ A \cup B = c + 1 .. L
      BY <1>1, <1>3, <1>5 DEF Before
    <2>2. Moves(Entries, off + 1 .. L, off, history, off - off + 1 .. L - off, off - off, L - off)
      BY <1>3, FollowsMoves
    <2>3. off - off = 0 /\ 0 + 1 = 1
      OBVIOUS
    <2>4. Moves(Entries, B, off, history, C, 0, L - off)
      BY <2>2, <2>3
    <2>5. Updated(f, Entries, A) = start
      BY <1>4, <1>5
    <2>. HIDE DEF A, B, C
    <2>6. Updated(Updated(f, Entries, A), Entries, B) = Updated(f, Entries, A \cup B)
      BY <2>1, ComposedUpdates
    <2>7. Recovered = Updated(start, Entries, B)
      BY <1>2, <2>1, <2>5, <2>6
    <2>8. Recovered = Updated(start, history, C)
      BY <2>4, <2>7, MovedUpdates
    <2>9. Recovered = First(L - off)
      BY <2>8 DEF First, C
    <2>10. L - off \in floor .. Len(history) /\ (~Lost => L - off = Len(history))
      BY <1>1, <1>3
    <2>. QED
      BY <2>9, <2>10
  <1>6. CASE off < c /\ c <= L
    <2>. DEFINE A == 1 .. c - off
                B == c - off + 1 .. L - off
                C == c + 1 .. L
    <2>1. Before(A, B, L - off) /\ A \cup B = 1 .. L - off
      BY <1>1, <1>3, <1>6 DEF Before
    <2>2. Moves(Entries, C, c, history, B, c - off, L - c)
      BY <1>1, <1>6, FollowsMoves
    <2>3. f = Updated(start, history, A)
      BY <1>4, <1>6
    <2>. HIDE DEF A, B, C
    <2>4. Updated(f, Entries, C) = Updated(f, history, B)
      BY <2>2, MovedUpdates
    <2>5. Updated(Updated(start, history, A), history, B) = Updated(start, history, A \cup B)
      BY <2>1, ComposedUpdates
    <2>6. Recovered = Updated(start, history, 1 .. L - off)
      BY <1>2, <2>1, <2>3, <2>4, <2>5 DEF C
    <2>7. Recovered = First(L - off)
      BY <2>6 DEF First
    <2>8. L - off \in floor .. Len(history) /\ (~Lost => L - off = Len(history))
      BY <1>1, <1>3
    <2>. QED
      BY <2>7, <2>8
  <1>7. CASE off < c /\ L < c
    <2>1. c + 1 .. L = {}
      BY <1>1, <1>7
    <2>2. f \in [Ids -> Ages]
      BY Basics
    <2>3. Recovered = f
      BY <1>2, <2>1, <2>2, UpdatedNone
    <2>4. f = First(c - off) /\ c <= off + Len(history)
      BY <1>4, <1>7 DEF First
    <2>5. c - off \in floor .. Len(history) /\ Lost
      BY <1>1, <1>3, <1>4, <1>7, <2>4
    <2>. QED
      BY <2>3, <2>4, <2>5
  <1>. QED
    BY <1>1, <1>5, <1>6, <1>7

\* All that the entries tell, from a state that agrees where they tell nothing.
LEMMA RecoveredFromLog ==
  ASSUME FilesInv, NEW f, Follows(0), \A x \in Ids : Untold(x) => f[x] = start[x]
  PROVE  Updated(f, Entries, 1 .. Len(Entries)) = First(Len(Entries))
  <1>. DEFINE A == 1 .. Len(Entries)
              g == Updated(f, Entries, A)
  <1>1. Len(Entries) \in Nat /\ Len(Entries) - 0 = Len(Entries)
    BY Basics
  <1>2. Moves(Entries, 0 + 1 .. Len(Entries), 0, history, 0 - 0 + 1 .. Len(Entries) - 0, 0 - 0, Len(Entries) - 0)
    BY <1>1, FollowsMoves
  <1>3. Moves(Entries, A, 0, history, A, 0, Len(Entries))
    BY <1>1, <1>2
  <1>4. g = [x \in Ids |-> g[x]] /\ \A x \in Ids : Gives(f, Entries, A, x, g[x])
    BY <1>1, UpdatedGives
  <1>. HIDE DEF g
  <1>5. (\A x \in Ids : Gives(start, Entries, A, x, g[x])) /\ A \in SUBSET (1 .. Len(Entries))
    BY <1>4 DEF Gives, Untold
  <1>. HIDE DEF A
  <1>6. g = Updated(start, Entries, A)
    <2>1. PICK n \in Nat : A \in SUBSET (1 .. n)
      BY <1>1, <1>5
    <2>2. g = [x \in Ids |-> g[x]]
      BY <1>4
    <2>. QED
      BY <1>5, <2>1, <2>2, UpdatedIs
  <1>7. g = Updated(start, history, A)
    BY <1>3, <1>6, MovedUpdates
  <1>. QED
    BY <1>7 DEF First, g, A

\* LsmStore's memtable over the generations that begin its log.
LEMMA LsmSees ==
  ASSUME FilesInv, Shaped, store = "lsm", Follows(0), NEW n, Under(n)
  PROVE  Resolved(ReplayedTable, n) = First(Len(Entries))
  <1>. DEFINE A == 1 .. Len(Entries)
              g == Resolved(ReplayedTable, n)
              r == Replay(Seed)
  <1>1. Replayed = A /\ Len(Entries) \in Nat
    <2>1. base # Torn
      BY Kinds DEF FilesInv, Placed
    <2>. QED
      BY <2>1, ReplayedIs, Basics
  <1>2. DOMAIN ReplayedTable = {Entries[i].id : i \in A} /\ \A x \in DOMAIN ReplayedTable : ReplayedTable[x] = r[x]
    BY <1>1 DEF ReplayedTable
  <1>3. \A x \in Ids : Gives(Seed, Entries, A, x, r[x])
    BY <1>1, UpdatedGives DEF Replay
  <1>4. g = [x \in Ids |-> g[x]]
    BY DEF Resolved
  <1>5. \A x \in Ids : x \in DOMAIN ReplayedTable => g[x] = ReplayedTable[x]
    BY DEF Resolved
  <1>6. \A x \in Ids : x \notin DOMAIN ReplayedTable => g[x] = Resolved(Empty, n)[x]
    BY EmptyTable DEF Resolved
  <1>. HIDE DEF g, r, Entries, ReplayedTable
  <1>7. ASSUME NEW x \in Ids PROVE Gives(start, Entries, A, x, g[x])
    <2>1. CASE x \in DOMAIN ReplayedTable
      <3>1. g[x] = r[x] /\ \E i \in A : Entries[i].id = x
        BY <1>2, <1>5, <2>1
      <3>2. Gives(Seed, Entries, A, x, r[x])
        BY <1>3
      <3>. QED
        BY <3>1, <3>2 DEF Gives
    <2>2. CASE x \notin DOMAIN ReplayedTable
      <3>1. \A i \in A : Entries[i].id # x
        BY <1>2, <2>2
      <3>2. g[x] = start[x]
        BY <1>6, <2>2, <3>1 DEF Under, Untold
      <3>. QED
        BY <3>1, <3>2 DEF Gives
    <2>. QED
      BY <2>1, <2>2
  <1>8. g = Updated(start, Entries, A)
    BY <1>1, <1>4, <1>7, UpdatedIs
  <1>9. Updated(start, Entries, A) = First(Len(Entries))
    BY RecoveredFromLog
  <1>. QED
    BY <1>8, <1>9 DEF g

LEMMA Stores ==
  ASSUME FilesInv, PowerSafe
  PROVE  /\ store \in LogStores \cup {"lsm"} \cup Snapshots \cup {"redb"} /\ scenario.power \in BOOLEAN
         /\ store = "lsm" => ~scenario.power
         /\ store \in {"wal_fsync", "wal_buffered"} /\ scenario.power => "checkpoint" \notin scenario.calls
  <1>1. scenario \in Scenarios /\ IsScenario(scenario)
    BY DurabilityAssumption DEF FilesInv, Typed
  <1>. QED
    BY <1>1 DEF IsScenario, PowerSafe, store, LogStores, Logged, Snapshots

\* What an opening finds is the state after some first updates: after all of them, or
\* after those of the last checkpoint, unless power was lost.
LEMMA RecoveredIs ==
  ASSUME FilesInv, PowerSafe, Parts, Openable
  PROVE  \E n \in floor .. Len(history) :
           Recovered = First(n) /\ (~Lost => n = IF store \in Snapshots THEN floor ELSE Len(history))
  <1>. USE DEF Parts
  <1>1. /\ base # Torn /\ counted # Torn /\ (store \in Snapshots => base # NoFile)
        /\ Len(history) \in Nat /\ floor \in Nat /\ floor <= Len(history) /\ Len(Entries) \in Nat
    BY Basics DEF Openable
  <1>2. CASE store \in LogStores
    <2>1. PICK off \in Nat : Follows(off) /\ Based(off)
      BY <1>2 DEF LogInv
    <2>2. store \notin Snapshots /\ store # "lsm"
      BY <1>2 DEF LogStores, Snapshots
    <2>3. CASE store = "hybrid" \/ scenario.power
      <3>1. Leads(base, off)
        BY <1>1, <2>1, <2>3 DEF Based
      <3>2. \E n \in floor .. Len(history) : Recovered = First(n) /\ (~Lost => n = Len(history))
        BY <1>1, <2>1, <2>2, <3>1, RecoveredFromBase
      <3>. QED
        BY <2>2, <3>2
    <2>4. CASE ~(store = "hybrid" \/ scenario.power)
      <3>1. off = 0 /\ \A x \in Ids : Untold(x) => Held(base)[x] = start[x]
        BY <1>1, <2>1, <2>4 DEF Based
      <3>2. Follows(0)
        BY <2>1, <3>1
      <3>3. Cut(base) = 0 /\ Recovered = Updated(Held(base), Entries, Replayed)
            /\ Replayed = Cut(base) + 1 .. Len(Entries)
        BY <1>1, <2>2, <2>4, Basics, ReplayedIs
      <3>4. Recovered = Updated(Held(base), Entries, 1 .. Len(Entries))
        BY <3>3
      <3>5. Recovered = First(Len(Entries))
        BY <3>1, <3>2, <3>4, RecoveredFromLog
      <3>6. ~Lost /\ floor <= Len(Entries) /\ Len(Entries) = Len(history)
        BY <1>1, <2>4, <3>2 DEF Lost, Follows
      <3>. QED
        BY <1>1, <2>2, <3>5, <3>6
    <2>. QED
      BY <2>3, <2>4
  <1>3. CASE store = "lsm"
    <2>4. Counted \in Nat
      BY DurabilityAssumption DEF FilesInv, Typed, Counted, Openable
    <2>1. Follows(0) /\ Under(Counted) /\ ~Lost
      BY <1>1, <1>3, <2>4, Stores DEF LsmInv, Lost
    <2>2. Recovered = First(Len(Entries))
      BY <1>3, <2>1, LsmSees DEF Recovered
    <2>3. Len(Entries) = Len(history) /\ store \notin Snapshots
      BY <1>1, <1>3, <2>1 DEF Follows, Snapshots
    <2>. QED
      BY <1>1, <2>2, <2>3
  <1>4. CASE store \in Snapshots \cup {"redb"}
    <2>1. log = <<>> /\ store # "lsm" /\ store # "hybrid" /\ base \in Covers
      BY <1>1, <1>4 DEF FilesInv, Placed, Typed, Snapshots, Logged
    <2>2. Entries = <<>>
      BY <2>1, EntriesWhole, WholeEmpty
    <2>3. Replayed = {}
      BY <2>2 DEF Replayed
    <2>4. Recovered = Updated(base.ages, Entries, {}) /\ base.ages \in [Ids -> Ages]
      BY <2>1, <2>3, Kinds DEF Recovered, Replay, Covers
    <2>5. Recovered = base.ages
      BY <2>4, UpdatedNone
    <2>6. CASE store \in Snapshots
      BY <2>1, <2>5, <2>6 DEF SnapshotInv
    <2>7. CASE store = "redb"
      <3>1. store \notin Snapshots
        BY <2>7 DEF Snapshots
      <3>. QED
        BY <1>1, <2>5, <2>7, <3>1 DEF EngineInv
    <2>. QED
      BY <1>4, <2>6, <2>7
  <1>. QED
    BY <1>2, <1>3, <1>4, Stores

\* What readers and openings find follows from the invariant.
LEMMA StoryTold ==
  ASSUME FilesInv, PowerSafe, Story, TypeOK
  PROVE  RecoversPromised
  <1>. SUFFICES ASSUME Sound
                PROVE  /\ phase = "up" /\ pc # "sync" => Current = After(Len(history), Unanswered)
                       /\ phase # "refused" /\ Openable =>
                            \E n \in floor .. Len(history), missing \in SUBSET Unanswered : Recovered = After(n, missing)
    BY DEF RecoversPromised, Sound
  <1>. SUFFICES ASSUME phase # "refused" PROVE
                       /\ phase = "up" /\ pc # "sync" => Current = After(Len(history), Unanswered)
                       /\ Openable =>
                            \E n \in floor .. Len(history), missing \in SUBSET Unanswered : Recovered = After(n, missing)
    OBVIOUS
  <1>1. Parts
    BY DEF Story
  <1>2. ASSUME phase = "up" PROVE Current = After(Len(history), Unanswered)
    <2>1. CASE store # "lsm"
      BY <1>1, <1>2, <2>1 DEF Parts, Seen, Current
    <2>2. CASE store = "lsm"
      <3>1. Follows(0) /\ memtable = ReplayedTable /\ Under(generations) /\ Shaped
        <4>1. generations \in Nat
          BY DurabilityAssumption DEF FilesInv, Typed
        <4>. QED
          BY <1>1, <1>2, <2>2, <4>1 DEF Parts, LsmInv
      <3>2. Current = First(Len(Entries))
        BY <2>2, <3>1, LsmSees DEF Current
      <3>3. Len(Entries) = Len(history)
        BY <1>2, <3>1, Basics DEF Follows, Lost
      <3>4. After(Len(history), Unanswered) = First(Len(history))
        BY <2>2, AfterAll
      <3>. QED
        BY <3>2, <3>3, <3>4
    <2>. QED
      BY <2>1, <2>2
  <1>3. ASSUME Openable
        PROVE  \E n \in floor .. Len(history), missing \in SUBSET Unanswered : Recovered = After(n, missing)
    <2>1. PICK n \in floor .. Len(history) : Recovered = First(n)
      BY <1>1, <1>3, RecoveredIs
    <2>2. After(n, {}) = First(n)
      <3>1. (1 .. n) \ {} = 1 .. n
        OBVIOUS
      <3>. QED
        BY <3>1 DEF After, First
    <2>. QED
      BY <2>1, <2>2
  <1>. QED
    BY <1>2, <1>3

LEMMA FilesTyped == FilesInv => TypeOK
  <1>. SUFFICES ASSUME FilesInv PROVE TypeOK
    OBVIOUS
  <1>. USE DEF FilesInv, Typed
  <1>1. /\ DOMAIN memtable \subseteq Ids
        /\ \A g \in 1 .. MaxFlushes : ssts[g] \in Unread \/ DOMAIN ssts[g] \subseteq Ids
    BY TableFacts
  <1>2. \A i \in DOMAIN log : log[i] = Torn \/ log[i] \in [seq : Nat, id : Ids \cup {Unknown}, age : Ages]
    <2>1. \A i \in DOMAIN log : log[i] \in WalEntries \cup {Torn}
      OBVIOUS
    <2>2. WalEntries \subseteq [seq : Nat, id : Ids \cup {Unknown}, age : Ages]
      BY DurabilityAssumption DEF WalEntries
    <2>. QED
      BY <2>1, <2>2
  <1>3. \A i \in DOMAIN history : history[i].answer \in {"ok", "pending", "error", "not_found"}
    <2>1. \A i \in DOMAIN history : history[i] \in Told
      OBVIOUS
    <2>. QED
      BY <2>1 DEF Told
  <1>4. \A b \in older \cup {base} : b \in {NoFile, Torn} \/ b \in [cutoff : Nat, ages : [Ids -> Ages]]
    BY DEF Covers
  <1>. QED
    BY <1>1, <1>2, <1>3, <1>4 DEF TypeOK

------------------------------------------------------------------------------
(* Steps: the log                                                          *)

LEMMA EntriesAppended ==
  ASSUME Typed, \A i \in DOMAIN log : log[i] # Torn, NEW e \in WalEntries, log' = Append(log, e)
  PROVE  /\ Entries = log /\ Len(Entries') = Len(Entries) + 1 /\ Len(log') = Len(log) + 1
         /\ \A i \in 1 .. Len(Entries) : Entries'[i] = Entries[i]
         /\ Entries'[Len(Entries) + 1] = e
         /\ \A i \in DOMAIN log' : log'[i] # Torn
  <1>1. log \in Seq(WalEntries \cup {Torn}) /\ Torn \notin WalEntries
    BY Kinds DEF Typed
  <1>2. WholeOf(Append(log, e)) = Append(log, e) /\ WholeOf(log) = log
    BY <1>1, WholeAppend
  <1>3. Entries = log /\ Entries' = Append(log, e)
    BY <1>2, EntriesWhole
  <1>4. /\ Len(Append(log, e)) = Len(log) + 1 /\ \A i \in 1 .. Len(log) : Append(log, e)[i] = log[i]
        /\ Append(log, e)[Len(log) + 1] = e
    BY <1>1
  <1>5. DOMAIN log = 1 .. Len(log) /\ DOMAIN log' = 1 .. Len(log) + 1 /\ Len(log) \in Nat
    BY <1>1
  <1>6. \A i \in 1 .. Len(log) + 1 : i \in 1 .. Len(log) \/ i = Len(log) + 1
    BY <1>5
  <1>7. \A i \in DOMAIN log' : log'[i] # Torn
    BY <1>1, <1>4, <1>5, <1>6
  <1>. QED
    BY <1>3, <1>4, <1>7

LEMMA EntriesTorn ==
  ASSUME Typed, log' = Append(log, Torn)
  PROVE  Entries' = Entries
  <1>1. log \in Seq(WalEntries \cup {Torn}) /\ Torn \notin WalEntries
    BY Kinds DEF Typed
  <1>2. WholeOf(Append(log, Torn)) = WholeOf(log)
    BY <1>1, WholeTorn
  <1>3. Entries' = WholeOf(Append(log, Torn))
    BY EntriesWhole
  <1>. QED
    BY <1>2, <1>3, EntriesWhole

LEMMA EntriesCut ==
  ASSUME Typed, NEW n \in 0 .. Len(log), log' = SubSeq(log, 1, n)
  PROVE  /\ Len(Entries') = IF n < Len(Entries) THEN n ELSE Len(Entries)
         /\ \A i \in 1 .. Len(Entries') : Entries'[i] = Entries[i]
         /\ Len(log') = n /\ \A i \in 1 .. n : log'[i] = log[i]
  <1>1. log \in Seq(WalEntries \cup {Torn}) /\ Torn \notin WalEntries
    BY Kinds DEF Typed
  <1>2. LET W == WholeOf(SubSeq(log, 1, n)) IN
        /\ Len(W) = IF n < Len(WholeOf(log)) THEN n ELSE Len(WholeOf(log))
        /\ \A i \in 1 .. Len(W) : W[i] = WholeOf(log)[i]
    BY <1>1, WholeCut
  <1>3. Entries' = WholeOf(SubSeq(log, 1, n))
    BY EntriesWhole
  <1>4. n \in Int /\ \A i \in 1 .. n : log[i] \in WalEntries \cup {Torn}
    BY <1>1
  <1>5. Len(log') = n /\ \A i \in 1 .. n : log'[i] = log[i]
    BY <1>4, SubSeqProperties
  <1>. QED
    BY <1>2, <1>3, <1>5, EntriesWhole

LEMMA EntriesEmpty ==
  ASSUME log' = <<>>
  PROVE  Entries' = <<>> /\ Len(Entries') = 0
  BY EntriesWhole, WholeEmpty

\* The only steps that make sound what was not, or leave a refusal, are those of create.
LEMMA SoundBefore ==
  ASSUME [Next]_vars, Sound', phase' # "refused", ~Create
  PROVE  Sound /\ phase # "refused"
  <1>1. spoiled \ {"no_snapshot"} \subseteq spoiled'
    BY DEF Next, vars, UpdateLogged, AppendUnsynced, UpdateState,
      UpdateEngine, UpdateUnknown, SyncOk, SyncFails, AppendFails, BeginCheckpoint, WriteBase, Truncate,
      WriteFails, BeginFlush, WriteSst, WriteCount, ClearMemtable, Kill, PowerLoss, Create, Open,
      OpenMisreads, OpenRefused, AppendEntry
  <1>2. phase' = "refused" \/ phase # "refused"
    BY DEF Next, vars, life, Room, UpdateLogged, AppendUnsynced, UpdateState,
      UpdateEngine, UpdateUnknown, SyncOk, SyncFails, AppendFails, BeginCheckpoint, WriteBase, Truncate,
      WriteFails, BeginFlush, WriteSst, WriteCount, ClearMemtable, Kill, PowerLoss, Open,
      OpenMisreads, OpenRefused
  <1>. QED
    BY <1>1, <1>2 DEF Sound

\* The log of an open store, appended to, emptied or cut.
LEMMA ShapedStep ==
  ASSUME FilesInv, Shaped, [Next]_vars, Sound', phase' # "refused", ~Create
  PROVE  Shaped'
  <1>. USE DEF FilesInv
  <1>1. /\ log \in Seq(WalEntries \cup {Torn}) /\ DOMAIN log = 1 .. Len(log) /\ Len(log) \in Nat /\ Torn \notin WalEntries
        /\ Len(Entries) \in Nat /\ scenario' = scenario /\ Unknown \notin Ids
    BY Basics, Kinds, SameScenario, DurabilityAssumption DEF Typed
  <1>. USE DEF Shaped, store
  <1>2. ASSUME UNCHANGED <<log, nextSeq, phase>> PROVE Shaped'
    <2>1. Entries' = Entries
      BY <1>2 DEF Entries
    <2>. QED
      BY <1>1, <1>2, <2>1
  <1>3. ASSUME UNCHANGED log, phase' # "up" PROVE Shaped'
    <2>1. Entries' = Entries
      BY <1>3 DEF Entries
    <2>. QED
      BY <1>1, <1>3, <2>1
  <1>4. ASSUME log' = <<>>, store # "hybrid" PROVE Shaped'
    BY <1>1, <1>4
  <1>5. ASSUME NEW x \in Ids \cup {Unknown}, NEW age \in Ages, Room, log' = Append(log, Entry(nextSeq, x, age)),
               ~Behind, nextSeq' = nextSeq + 1 \/ store # "hybrid"
        PROVE  Shaped'
    <2>1. \A i \in DOMAIN log : log[i] # Torn
      BY <1>5 DEF Behind
    <2>2. Entry(nextSeq, x, age) \in WalEntries /\ Entry(nextSeq, x, age).seq = nextSeq
      BY <1>5, Appended DEF Entry
    <2>3. /\ Len(Entries') = Len(Entries) + 1
          /\ \A i \in 1 .. Len(Entries) : Entries'[i] = Entries[i]
          /\ Entries'[Len(Entries) + 1] = Entry(nextSeq, x, age)
          /\ \A i \in DOMAIN log' : log'[i] # Torn
      BY <1>5, <2>1, <2>2, EntriesAppended
    <2>4. phase = "up"
      BY <1>5 DEF Room
    <2>5. \A i \in 1 .. Len(Entries') : i \in 1 .. Len(Entries) \/ i = Len(Entries) + 1
      BY <1>1, <2>3
    <2>6. store = "hybrid" => \A i \in 1 .. Len(Entries') : Entries'[i].seq = i
      BY <2>2, <2>3, <2>4, <2>5
    <2>7. store = "hybrid" => nextSeq' = Len(Entries') + 1
      BY <1>1, <1>5, <2>3, <2>4
    <2>. QED
      BY <1>1, <2>3, <2>6, <2>7
  <1>6. ASSUME log' = Append(log, Torn), ~Behind, nextSeq' = nextSeq, phase' = phase \/ phase' # "up" PROVE Shaped'
    <2>1. Entries' = Entries
      BY <1>6, EntriesTorn
    <2>2. /\ Len(log') = Len(log) + 1 /\ (\A i \in 1 .. Len(log) : log'[i] = log[i]) /\ DOMAIN log' = 1 .. Len(log')
      BY <1>1, <1>6, AppendedTorn
    <2>3. \A i \in 1 .. Len(log) : log[i] # Torn
      BY <1>1, <1>6 DEF Behind
    <2>4. \A i \in DOMAIN log' : log'[i] = Torn => i = Len(log')
      <3>1. \A i \in 1 .. Len(log') : i \in 1 .. Len(log) \/ i = Len(log')
        BY <1>1, <2>2
      <3>. QED
        BY <2>2, <2>3, <3>1
    <2>. QED
      BY <1>1, <1>6, <2>1, <2>4
  <1>7. CASE UNCHANGED vars
    BY <1>2, <1>7 DEF vars, memory, files, life
  <1>8. ASSUME NEW x \in Ids, NEW age \in Ages, UpdateLogged(x, age) PROVE Shaped'
    BY <1>5, <1>8 DEF UpdateLogged, AppendEntry, Sound
  <1>9. ASSUME NEW x \in Ids, NEW age \in Ages, AppendUnsynced(x, age) PROVE Shaped'
    BY <1>5, <1>9 DEF AppendUnsynced, AppendEntry, Sound
  <1>10. ASSUME NEW x \in Ids, NEW age \in Ages, UpdateState(x, age) PROVE Shaped'
    BY <1>2, <1>10 DEF UpdateState, files, life
  <1>11. ASSUME NEW x \in Ids, NEW age \in Ages, UpdateEngine(x, age) PROVE Shaped'
    BY <1>2, <1>11 DEF UpdateEngine, life
  <1>12. ASSUME NEW age \in Ages, UpdateUnknown(age) PROVE Shaped'
    BY <1>5, <1>12 DEF UpdateUnknown, Sound
  <1>13. CASE SyncOk
    <2>1. store = "wal_fsync" /\ log' = log
      BY <1>13 DEF SyncOk, Placed
    <2>. QED
      BY <1>1, <2>1
  <1>14. CASE SyncFails
    BY <1>2, <1>14 DEF SyncFails, files, memory, life
  <1>15. CASE AppendFails
    BY <1>6, <1>15 DEF AppendFails, memory, life, Sound
  <1>16. CASE BeginCheckpoint \/ WriteBase
    BY <1>2, <1>16 DEF BeginCheckpoint, WriteBase, memory, life
  <1>17. CASE Truncate
    <2>1. store # "hybrid" /\ log' = <<>>
      BY <1>17 DEF Truncate, Placed, EmptyLog
    <2>. QED
      BY <1>4, <2>1
  <1>18. CASE WriteFails \/ BeginFlush
    BY <1>2, <1>18 DEF WriteFails, BeginFlush, memory, files, life
  <1>19. CASE WriteSst \/ WriteCount
    BY <1>2, <1>19 DEF WriteSst, WriteCount, memory, life
  <1>20. CASE ClearMemtable
    <2>1. store # "hybrid" /\ log' = <<>>
      BY <1>20 DEF ClearMemtable, Placed, EmptyLog
    <2>. QED
      BY <1>4, <2>1
  <1>21. CASE Kill
    <2>1. phase' = "down" /\ nextSeq' = nextSeq
      BY <1>21 DEF Kill, memory
    <2>2. log' = log \/ (log' = Append(log, Torn) /\ (log' # log => ~Behind))
      BY <1>21 DEF Kill, Sound
    <2>. QED
      BY <1>3, <1>6, <2>1, <2>2
  <1>22. CASE PowerLoss
    <2>1. PICK n \in synced .. Len(log) : log' = SubSeq(log, 1, n)
      BY <1>22 DEF PowerLoss
    <2>2. n \in 0 .. Len(log)
      BY <1>1 DEF Typed
    <2>3. /\ Len(Entries') = IF n < Len(Entries) THEN n ELSE Len(Entries)
          /\ \A i \in 1 .. Len(Entries') : Entries'[i] = Entries[i]
          /\ Len(log') = n /\ \A i \in 1 .. n : log'[i] = log[i]
      BY <2>1, <2>2, EntriesCut
    <2>4. \A i \in 1 .. Len(Entries') : i \in 1 .. Len(Entries)
      BY <1>1, <2>2, <2>3
    <2>5. DOMAIN log' = 1 .. n /\ \A i \in 1 .. n : i \in 1 .. Len(log) /\ (i = Len(log) => i = n)
      <3>1. Typed'
        BY TypedStep
      <3>2. DOMAIN log' = 1 .. Len(log')
        BY <3>1 DEF Typed
      <3>3. n \in Nat /\ n <= Len(log)
        BY <2>2
      <3>4. \A i \in 1 .. n : i \in 1 .. Len(log) /\ (i = Len(log) => i = n)
        <4>1. Len(log) \in Nat
          BY <1>1
        <4>. QED
          BY <3>3, <4>1
      <3>. QED
        BY <2>3, <3>2, <3>4
    <2>6. phase' = "down"
      BY <1>22 DEF PowerLoss
    <2>. QED
      BY <1>1, <2>3, <2>4, <2>5, <2>6
  <1>23. CASE Open
    <2>1. log' = log /\ Entries' = Entries
      BY <1>23 DEF Open, files, Entries
    <2>2. store = "hybrid" => nextSeq' = NextSeq
      BY <1>23 DEF Open, Logged
    <2>3. store = "hybrid" => NextSeq = Len(Entries) + 1
      <3>1. SUFFICES ASSUME store = "hybrid" PROVE NextSeq = Len(Entries) + 1
        OBVIOUS
      <3>2. CASE Entries = <<>>
        BY <3>2 DEF NextSeq
      <3>3. CASE Entries # <<>>
        <4>1. /\ NextSeq \in Nat /\ \A i \in 1 .. Len(Entries) : Entries[i].seq < NextSeq
              /\ \E i \in 1 .. Len(Entries) : NextSeq = Entries[i].seq + 1
          BY <3>1, <3>3, NextSeqTyped
        <4>2. \A i \in 1 .. Len(Entries) : Entries[i].seq = i
          BY <3>1
        <4>3. Len(Entries) # 0
          BY <3>3, EntriesTyped
        <4>4. Len(Entries) \in 1 .. Len(Entries)
          BY <1>1, <4>3
        <4>5. Len(Entries) < NextSeq /\ NextSeq <= Len(Entries) + 1
          BY <1>1, <4>1, <4>2, <4>4
        <4>. QED
          BY <1>1, <4>1, <4>5
      <3>. QED
        BY <3>2, <3>3
    <2>. QED
      BY <1>1, <2>1, <2>2, <2>3
  <1>24. CASE OpenMisreads
    BY <1>24 DEF OpenMisreads, Sound
  <1>25. CASE OpenRefused
    BY <1>25 DEF OpenRefused
  <1>. QED
    BY <1>7, <1>8, <1>9, <1>10, <1>11, <1>12, <1>13, <1>14, <1>15, <1>16, <1>17, <1>18, <1>19, <1>20, <1>21, <1>22,
       <1>23, <1>24, <1>25 DEF Next

------------------------------------------------------------------------------
(* Steps: the stores with a log of the whole state                         *)

\* The updates told are the same.
SameHistory ==
  /\ Len(history') = Len(history)
  /\ \A i \in 1 .. Len(history) : history'[i].id = history[i].id /\ history'[i].age = history[i].age

LEMMA FollowsSame ==
  ASSUME FilesInv, NEW off \in Nat, Follows(off), Entries' = Entries, SameHistory,
         UNCHANGED <<floor, safe, synced>>, Lost => Lost'
  PROVE  Follows(off)'
  <1>1. Len(Entries) \in Nat /\ Len(history) \in Nat
    BY Basics
  <1>2. \A i \in 1 .. Len(Entries) - off : i \in 1 .. Len(history)
    BY <1>1 DEF Follows
  <1>. QED
    BY <1>1, <1>2 DEF Follows, SameHistory

LEMMA LeadsSame ==
  ASSUME FilesInv, NEW off \in Nat, NEW s, Cut(s) \in Nat, Leads(s, off), Entries' = Entries, SameHistory,
         start' = start, Lost => Lost'
  PROVE  Leads(s, off)'
  <1>1. Len(history) \in Nat /\ Len(history') = Len(history)
    BY Basics DEF SameHistory
  <1>2. LeadsIn(s, off, Entries, start, history)
    BY DEF Leads
  <1>3. LeadsIn(s, off, Entries', start, history')
    BY <1>1, <1>2, LeadsKept DEF SameHistory
  <1>4. (~Lost)' => Cut(s) <= Len(Entries)'
    BY DEF Leads
  <1>. QED
    BY <1>3, <1>4 DEF Leads

LEMMA BasedSame ==
  ASSUME FilesInv, NEW off \in Nat, Based(off), Entries' = Entries, SameHistory, UNCHANGED <<start, scenario>>,
         base' \in {base, Torn}, older' \subseteq older \cup {base, Torn}, Lost => Lost'
  PROVE  Based(off)'
  <1>. DEFINE All == store = "hybrid" \/ scenario.power
  <1>1. \A s \in older' \cup {base'} : s # Torn => s \in older \cup {base}
    OBVIOUS
  <1>2. All' = All
    BY DEF store
  <1>3. CASE All
    <2>1. ASSUME NEW s \in older' \cup {base'}, s # Torn PROVE Leads(s, off)'
      <3>1. Cut(s) \in Nat
        BY <1>1, <2>1, Basics
      <3>2. Leads(s, off)
        BY <1>1, <1>3, <2>1 DEF Based
      <3>. QED
        BY <3>1, <3>2, LeadsSame
    <2>. QED
      BY <1>2, <1>3, <2>1 DEF Based
  <1>4. CASE ~All
    <2>1. off = 0 /\ (base # Torn => \A x \in Ids : Untold(x) => Held(base)[x] = start[x])
      BY <1>4 DEF Based
    <2>2. \A x \in Ids : Untold(x)' = Untold(x)
      BY DEF Untold
    <2>3. base' # Torn => Held(base)' = Held(base)
      BY DEF Held
    <2>4. base' # Torn => base # Torn
      OBVIOUS
    <2>5. base' # Torn => \A x \in Ids : Untold(x)' => Held(base)'[x] = start'[x]
      BY <2>1, <2>2, <2>3, <2>4
    <2>. QED
      BY <1>2, <1>4, <2>1, <2>5 DEF Based
  <1>. QED
    BY <1>3, <1>4

\* An update that is logged and told.
LEMMA FollowsLogged ==
  ASSUME FilesInv, phase = "up", phase' = "up", UNCHANGED <<synced, safe>>,
         \A i \in DOMAIN log : log[i] # Torn,
         NEW x \in Ids \cup {Unknown}, NEW age \in Ages, NEW answer \in {"ok", "pending", "error", "not_found"},
         Room, log' = Append(log, Entry(nextSeq, x, age)), Record(x, age, answer),
         floor' \in {floor, Len(history')}, NEW off \in Nat, Follows(off)
  PROVE  Follows(off)'
  <1>1. /\ Len(Entries) \in Nat /\ Len(history) \in Nat /\ safe \in Nat /\ floor \in Nat /\ floor <= Len(history)
        /\ ~Lost /\ ~Lost'
    BY Basics DEF Lost
  <1>2. Entry(nextSeq, x, age) \in WalEntries /\ Entry(nextSeq, x, age).id = x /\ Entry(nextSeq, x, age).age = age
    BY Appended DEF Entry, FilesInv
  <1>3. /\ Len(Entries') = Len(Entries) + 1
        /\ \A i \in 1 .. Len(Entries) : Entries'[i] = Entries[i]
        /\ Entries'[Len(Entries) + 1].id = x /\ Entries'[Len(Entries) + 1].age = age
    BY <1>2, EntriesAppended DEF FilesInv
  <1>4. /\ Len(history') = Len(history) + 1 /\ \A i \in 1 .. Len(history) : history'[i] = history[i]
        /\ history'[Len(history) + 1] = [id |-> x, age |-> age, answer |-> answer]
    BY Recorded DEF FilesInv
  <1>5. history'[Len(history) + 1].id = x /\ history'[Len(history) + 1].age = age
    BY <1>4
  <1>6. Len(Entries) = off + Len(history) /\ off + safe <= Len(Entries) /\ off + safe <= synced
        /\ off + floor <= Len(Entries)
    BY <1>1 DEF Follows
  <1>7. ASSUME NEW i \in 1 .. Len(Entries') - off
        PROVE  history'[i].id = Entries'[off + i].id /\ history'[i].age = Entries'[off + i].age
    <2>1. CASE i \in 1 .. Len(Entries) - off
      <3>1. off + i \in 1 .. Len(Entries) /\ i \in 1 .. Len(history)
        BY <1>1, <1>6, <2>1
      <3>2. history[i].id = Entries[off + i].id /\ history[i].age = Entries[off + i].age
        BY <2>1 DEF Follows
      <3>. QED
        BY <1>3, <1>4, <3>1, <3>2
    <2>2. CASE i \notin 1 .. Len(Entries) - off
      <3>1. i = Len(history) + 1 /\ off + i = Len(Entries) + 1
        <4>1. /\ Len(Entries') = Len(Entries) + 1 /\ Len(Entries) = off + Len(history)
              /\ Len(Entries) \in Nat /\ Len(history) \in Nat
          BY <1>1, <1>3, <1>6
        <4>2. Len(Entries') - off = Len(history) + 1 /\ Len(Entries) - off = Len(history)
          BY <4>1
        <4>3. i \in 1 .. Len(history) + 1 /\ i \notin 1 .. Len(history)
          BY <2>2, <4>2
        <4>. QED
          BY <4>1, <4>3
      <3>. QED
        BY <1>3, <1>5, <3>1
    <2>. QED
      BY <2>1, <2>2
  <1>8. /\ off + safe' <= Len(Entries') /\ off + safe' <= synced' /\ off + floor' <= Len(Entries')
        /\ Len(Entries') = off + Len(history')
    BY <1>1, <1>3, <1>4, <1>6
  <1>9. Len(Entries') <= off + Len(history')
    BY <1>1, <1>3, <1>4, <1>8
  <1>. QED
    BY <1>7, <1>8, <1>9 DEF Follows

LEMMA LoggedTold ==
  ASSUME FilesInv, phase = "up", phase' = "up", UNCHANGED <<scenario, start, base, older, synced, safe>>,
         \A i \in DOMAIN log : log[i] # Torn,
         NEW x \in Ids \cup {Unknown}, NEW age \in Ages, NEW answer \in {"ok", "pending", "error", "not_found"},
         Room, log' = Append(log, Entry(nextSeq, x, age)), Record(x, age, answer),
         floor' \in {floor, Len(history')}, NEW off \in Nat, Follows(off), Based(off)
  PROVE  Follows(off)' /\ Based(off)'
  <1>1. /\ Len(Entries) \in Nat /\ Len(history) \in Nat /\ safe \in Nat /\ floor \in Nat /\ floor <= Len(history)
        /\ ~Lost /\ ~Lost'
    BY Basics DEF Lost
  <1>2. Entry(nextSeq, x, age) \in WalEntries /\ Entry(nextSeq, x, age).id = x /\ Entry(nextSeq, x, age).age = age
    BY Appended DEF Entry, FilesInv
  <1>3. /\ Len(Entries') = Len(Entries) + 1
        /\ \A i \in 1 .. Len(Entries) : Entries'[i] = Entries[i]
        /\ Entries'[Len(Entries) + 1].id = x /\ Entries'[Len(Entries) + 1].age = age
    BY <1>2, EntriesAppended DEF FilesInv
  <1>4. /\ Len(history') = Len(history) + 1 /\ \A i \in 1 .. Len(history) : history'[i] = history[i]
        /\ history'[Len(history) + 1] = [id |-> x, age |-> age, answer |-> answer]
    BY Recorded DEF FilesInv
  <1>5. history'[Len(history) + 1].id = x /\ history'[Len(history) + 1].age = age
    BY <1>4
  <1>6. Len(Entries) = off + Len(history) /\ off + safe <= Len(Entries) /\ off + safe <= synced
        /\ off + floor <= Len(Entries)
    BY <1>1 DEF Follows
  <1>8. Follows(off)'
    BY FollowsLogged
  <1>9. Based(off)'
    <2>1. CASE store = "hybrid" \/ scenario.power
      <3>1. ASSUME NEW s \in older \cup {base}, s # Torn PROVE Leads(s, off)'
        <4>1. Cut(s) \in Nat /\ Leads(s, off)
          BY <2>1, <3>1, Basics DEF Based
        <4>2. \A i \in 1 .. off : Entries'[i] = Entries[i]
          <5>1. \A i \in 1 .. off : i \in 1 .. Len(Entries)
            BY <1>1, <1>6
          <5>. QED
            BY <1>3, <5>1
        <4>3. Len(history') \in Nat /\ Len(history) <= Len(history')
              /\ \A i \in 1 .. Len(history) : history'[i].id = history[i].id /\ history'[i].age = history[i].age
          BY <1>1, <1>4
        <4>4. LeadsIn(s, off, Entries, start, history)
          BY <4>1 DEF Leads
        <4>5. LeadsIn(s, off, Entries', start, history')
          BY <1>1, <4>1, <4>2, <4>3, <4>4, LeadsKept
        <4>6. Cut(s) <= Len(Entries')
          BY <1>1, <1>3, <4>1 DEF Leads
        <4>. QED
          BY <4>5, <4>6 DEF Leads
      <3>. QED
        BY <2>1, <3>1 DEF Based, store
    <2>2. CASE ~(store = "hybrid" \/ scenario.power)
      <3>1. \A y \in Ids : Untold(y)' => Untold(y)
        <4>1. \A i \in 1 .. Len(Entries) : i \in 1 .. Len(Entries')
          BY <1>1, <1>3
        <4>. QED
          BY <1>3, <4>1 DEF Untold
      <3>. QED
        BY <2>2, <3>1 DEF Based, store, Held
    <2>. QED
      BY <2>1, <2>2
  <1>. QED
    BY <1>8, <1>9

\* The snapshot of hybrid covers the log; that of wal_fsync and wal_buffered is the state
\* that the log leads to.
LEMMA BaseWritten ==
  ASSUME FilesInv, PowerSafe, Parts, WriteBase, store \in LogStores, NEW off \in Nat, Follows(off), Based(off)
  PROVE  Follows(off)' /\ Based(off)'
  <1>1. /\ Len(Entries) \in Nat /\ Len(history) \in Nat /\ safe \in Nat /\ floor \in Nat /\ floor <= Len(history)
    BY Basics
  <1>2. /\ phase = "up" /\ pc = "checkpoint" /\ floor' = Len(history)
        /\ base' = Snapshot(IF store = "hybrid" THEN nextSeq - 1 ELSE 0, ages)
        /\ UNCHANGED <<phase, log, synced, older, start, history, safe, scenario>>
    BY DEF WriteBase, life
  <1>3. Entries' = Entries /\ ~Lost /\ ~Lost'
    BY <1>2 DEF Entries, Lost
  <1>4. Len(Entries) = off + Len(history)
    BY <1>3 DEF Follows
  <1>5. Follows(off)'
    <2>1. off + floor' <= Len(Entries)
      BY <1>1, <1>2, <1>4
    <2>. QED
      BY <1>2, <1>3, <2>1 DEF Follows
  <1>6. /\ base' # NoFile /\ Cut(base') = (IF store = "hybrid" THEN nextSeq - 1 ELSE 0) /\ Held(base') = ages
        /\ ages \in [Ids -> Ages]
    <2>1. ages \in [Ids -> Ages]
      BY DEF FilesInv, Typed
    <2>2. base' \in Covers
      BY <1>2, <2>1 DEF Snapshot, Covers, FilesInv, Typed
    <2>3. base' # NoFile
      BY <2>2, Kinds
    <2>. QED
      BY <1>2, <2>1, <2>3 DEF Snapshot, Cut, Held
  <1>7. ages = After(Len(history), Unanswered)
    <2>1. store # "lsm"
      BY DEF LogStores
    <2>. QED
      BY <1>2, <2>1 DEF Parts, Seen
  <1>8. CASE store = "hybrid"
    <2>1. nextSeq = Len(Entries) + 1
      BY <1>2, <1>8 DEF Parts, Shaped
    <2>2. Cut(base') = Len(Entries)
      BY <1>1, <1>6, <1>8, <2>1
    <2>3. ages = Updated(start, history, 1 .. Len(history))
      BY <1>7, <1>8, AfterAll DEF First
    <2>4. Len(Entries) - off = Len(history)
      BY <1>1, <1>4
    <2>5. LeadsIn(base', off, Entries, start, history)
      <3>1. ASSUME Cut(base') <= off PROVE Updated(Held(base'), Entries, Cut(base') + 1 .. off) = start
        <4>1. Len(history) = 0 /\ off = Len(Entries)
          BY <1>1, <1>4, <2>2, <3>1
        <4>2. Cut(base') + 1 .. off = {} /\ 1 .. Len(history) = {}
          BY <1>1, <2>2, <4>1
        <4>3. Updated(ages, Entries, {}) = ages
          BY <1>6, UpdatedNone
        <4>4. start \in [Ids -> Ages \cup {Torn}]
          BY Basics
        <4>5. Updated(start, history, {}) = start
          BY <4>4, UpdatedNone
        <4>. QED
          BY <1>6, <2>3, <4>2, <4>3, <4>5
      <3>2. Cut(base') <= off + Len(history) /\ Held(base') = Updated(start, history, 1 .. Cut(base') - off)
        BY <1>1, <1>4, <1>6, <2>2, <2>3, <2>4
      <3>. QED
        BY <3>1, <3>2 DEF LeadsIn
    <2>6. Leads(base, off)'
      BY <1>1, <1>2, <1>3, <2>2, <2>5 DEF Leads
    <2>7. ASSUME NEW s \in older, s # Torn PROVE Leads(s, off)'
      <3>1. Leads(s, off)
        BY <1>8, <2>7 DEF Based
      <3>. QED
        BY <1>2, <1>3, <3>1 DEF Leads
    <2>8. ASSUME NEW s \in older' \cup {base'}, s # Torn PROVE Leads(s, off)'
      <3>1. CASE s \in older
        BY <2>7, <2>8, <3>1
      <3>2. CASE s = base'
        <4>1. LeadsIn(s, off, Entries', start', history') /\ Cut(s) <= Len(Entries')
          BY <1>1, <1>2, <1>3, <2>2, <2>5, <3>2
        <4>. QED
          BY <4>1 DEF Leads
      <3>. QED
        BY <1>2, <2>8, <3>1, <3>2
    <2>. QED
      BY <1>2, <1>5, <1>8, <2>8 DEF Based, store
  <1>9. CASE store # "hybrid"
    <2>1. store \in {"wal_fsync", "wal_buffered"} /\ "checkpoint" \in scenario.calls
      BY <1>2, <1>9 DEF LogStores, FilesInv, Placed
    <2>2. ~scenario.power
      BY <2>1, Stores
    <2>3. off = 0
      BY <1>9, <2>2 DEF Based
    <2>4. ASSUME NEW x \in Ids, Untold(x) PROVE ages[x] = start[x]
      <3>. DEFINE A == (1 .. Len(history)) \ Unanswered
      <3>1. \A i \in 1 .. Len(history) : history[i].id # x
        <4>1. Len(Entries) - 0 = Len(history) /\ \A i \in 1 .. Len(history) : 0 + i = i /\ i \in 1 .. Len(Entries)
          BY <1>1, <1>4, <2>3
        <4>2. \A i \in 1 .. Len(history) : history[i].id = Entries[i].id
          BY <2>3, <4>1 DEF Follows
        <4>. QED
          BY <2>4, <4>1, <4>2 DEF Untold
      <3>2. A \in SUBSET (1 .. Len(history))
        OBVIOUS
      <3>3. ages = Updated(start, history, A)
        BY <1>7 DEF After
      <3>. HIDE DEF A
      <3>4. Gives(start, history, A, x, ages[x])
        <4>1. PICK n \in Nat : A \in SUBSET (1 .. n)
          BY <1>1, <3>2
        <4>. QED
          BY <3>3, <4>1, UpdatedGives
      <3>. QED
        BY <3>1, <3>2, <3>4 DEF Gives
    <2>5. \A x \in Ids : Untold(x)' => Held(base)'[x] = start'[x]
      <3>1. Held(base)' = ages
        BY <1>6 DEF Held
      <3>2. \A x \in Ids : Untold(x)' => Untold(x)
        BY <1>3 DEF Untold
      <3>. QED
        BY <1>2, <2>4, <3>1, <3>2
    <2>. QED
      BY <1>2, <1>5, <1>9, <2>2, <2>3, <2>5 DEF Based, store
  <1>. QED
    BY <1>8, <1>9

\* Power fails: the log is cut behind what was promised, and an older snapshot may be back.
LEMMA PowerLost ==
  ASSUME FilesInv, Parts, PowerLoss, store \in LogStores, NEW off \in Nat, Follows(off), Based(off)
  PROVE  Follows(off)' /\ Based(off)'
  <1>1. /\ Len(Entries) \in Nat /\ Len(history) \in Nat /\ safe \in Nat /\ floor \in Nat /\ safe <= floor
        /\ synced \in Nat /\ synced <= Len(log) /\ Len(log) \in Nat
    BY Basics
  <1>2. PICK n \in synced .. Len(log) : log' = SubSeq(log, 1, n) /\ synced' = n
    BY DEF PowerLoss
  <1>3. /\ scenario.power /\ floor' = safe /\ phase' = "down" /\ older' = {base'} /\ base' \in older \cup {base}
        /\ UNCHANGED <<scenario, start, history, safe>>
    BY DEF PowerLoss, LogStores
  <1>4. n \in Nat /\ n \in 0 .. Len(log) /\ synced <= n
    BY <1>1, <1>2
  <1>5. /\ Len(Entries') = IF n < Len(Entries) THEN n ELSE Len(Entries)
        /\ \A i \in 1 .. Len(Entries') : Entries'[i] = Entries[i]
        /\ Len(log') = n
    BY <1>2, <1>4, EntriesCut DEF FilesInv
  <1>6. Lost'
    BY <1>2, <1>3, <1>5 DEF Lost, OnDisk
  <1>7. /\ off + safe <= Len(Entries) /\ off + safe <= synced /\ Len(Entries) <= off + Len(history)
        /\ \A i \in 1 .. Len(Entries) - off :
             history[i].id = Entries[off + i].id /\ history[i].age = Entries[off + i].age
    BY DEF Follows
  <1>8. /\ off + safe <= Len(Entries') /\ off + safe <= n /\ Len(Entries') <= off + Len(history)
        /\ Len(Entries') <= Len(Entries) /\ Len(Entries') \in Nat
    BY <1>1, <1>4, <1>5, <1>7
  <1>9. ASSUME NEW i \in 1 .. Len(Entries') - off
        PROVE  history'[i].id = Entries'[off + i].id /\ history'[i].age = Entries'[off + i].age
    <2>1. i \in 1 .. Len(Entries) - off /\ off + i \in 1 .. Len(Entries')
      BY <1>1, <1>8
    <2>. QED
      BY <1>3, <1>5, <1>7, <2>1
  <1>10. Follows(off)'
    BY <1>2, <1>3, <1>6, <1>8, <1>9 DEF Follows
  <1>11. ASSUME NEW s \in older' \cup {base'}, s # Torn PROVE Leads(s, off)'
    <2>1. s \in older \cup {base}
      BY <1>3
    <2>2. Leads(s, off) /\ Cut(s) \in Nat
      BY <1>3, <1>11, <2>1, Basics DEF Based
    <2>3. \A i \in 1 .. off : Entries'[i] = Entries[i]
      <3>1. \A i \in 1 .. off : i \in 1 .. Len(Entries')
        BY <1>1, <1>8
      <3>. QED
        BY <1>5, <3>1
    <2>4. LeadsIn(s, off, Entries, start, history)
      BY <2>2 DEF Leads
    <2>5. LeadsIn(s, off, Entries', start, history)
      BY <1>1, <2>2, <2>3, <2>4, LeadsKept
    <2>. QED
      BY <1>3, <1>6, <2>5 DEF Leads
  <1>. QED
    BY <1>3, <1>10, <1>11 DEF Based, store

\* An opening that finds everything goes on with every update.
LEMMA FollowsOpened ==
  ASSUME FilesInv, Open, store \notin Snapshots, ~(scenario.power /\ OnDisk), NEW off \in Nat, Follows(off)
  PROVE  Follows(off)'
  <1>1. /\ Len(Entries) \in Nat /\ Len(history) \in Nat
    BY Basics
  <1>2. /\ start' = start /\ history' = Resumed /\ floor' = Len(Resumed) /\ safe' = safe /\ synced' = synced
        /\ Entries' = Entries /\ ~Lost
    BY DEF Open, Lost, files, Entries
  <1>3. SameHistory
    BY <1>2, ResumedFacts DEF SameHistory, FilesInv
  <1>4. Len(Entries) = off + Len(history) /\ floor' = Len(history)
    BY <1>2, <1>3 DEF Follows, SameHistory
  <1>5. off + floor' <= Len(Entries)
    BY <1>1, <1>4
  <1>6. \A i \in 1 .. Len(Entries) - off : i \in 1 .. Len(history)
    BY <1>1, <1>4
  <1>. QED
    BY <1>1, <1>2, <1>3, <1>4, <1>5, <1>6 DEF Follows, SameHistory

LEMMA LogOpened ==
  ASSUME FilesInv, Parts, Open, Shaped', Sound', store \in LogStores, NEW off \in Nat, Follows(off), Based(off)
  PROVE  \E o \in Nat : Follows(o)' /\ Based(o)'
  <1>1. /\ Len(Entries) \in Nat /\ Len(history) \in Nat /\ safe \in Nat /\ floor \in Nat /\ safe <= floor
        /\ floor <= Len(history) /\ synced \in Nat /\ Len(log) \in Nat /\ Len(Entries) <= Len(log)
    BY Basics
  <1>2. /\ phase = "down" /\ phase' = "up" /\ Openable /\ base # Torn /\ store \notin Snapshots /\ store # "lsm"
        /\ UNCHANGED <<log, synced, base, older, scenario>>
    BY DEF Open, Openable, files, LogStores, Snapshots
  <1>3. Entries' = Entries /\ ~Lost'
    BY <1>2 DEF Entries, Lost
  <1>4. CASE scenario.power /\ OnDisk
    <2>0. PICK L \in Nat : L = Len(Entries)
      BY <1>1
    <2>. DEFINE c == Cut(base)
    <2>1. /\ start' = Recovered /\ history' = <<>> /\ floor' = 0 /\ safe' = 0 /\ synced = Len(log) /\ older = {base}
      BY <1>4 DEF Open, OnDisk
    <2>2. Follows(L)'
      <3>1. Len(history') = 0 /\ 1 .. L - L = {}
        BY <2>0, <2>1
      <3>2. L + 0 = L /\ L <= synced /\ L <= L
        BY <1>1, <2>0, <2>1
      <3>3. Len(Entries') = L /\ synced' = synced
        BY <1>2, <1>3, <2>0
      <3>4. /\ L + safe' <= Len(Entries') /\ L + safe' <= synced' /\ L + floor' <= Len(Entries')
            /\ Len(Entries') <= L + Len(history') /\ Len(Entries') = L + Len(history')
        BY <2>1, <3>1, <3>2, <3>3
      <3>5. \A i \in 1 .. Len(Entries') - L : FALSE
        BY <3>1, <3>3
      <3>. QED
        BY <2>0, <3>4, <3>5 DEF Follows
    <2>3. c \in Nat /\ (store # "hybrid" => c = 0)
      BY <1>2, Basics
    <2>4. c <= L
      <3>1. CASE store = "hybrid"
        <4>1. spoiled' = spoiled \cup (IF nextSeq' <= Cutoff THEN {"reused"} ELSE {})
          BY <3>1 DEF Open
        <4>2. ~(nextSeq' <= Cutoff)
          BY <4>1 DEF Sound
        <4>3. nextSeq' = L + 1
          BY <1>2, <1>3, <2>0, <3>1 DEF Shaped, store
        <4>4. Cutoff = c
          BY <1>2, Kinds DEF Cutoff, Cut
        <4>. QED
          BY <1>1, <2>0, <2>3, <4>2, <4>3, <4>4
      <3>2. CASE store # "hybrid"
        BY <2>0, <2>3, <3>2
      <3>. QED
        BY <3>1, <3>2
    <2>5. Recovered = Updated(Held(base), Entries, c + 1 .. L)
      BY <1>2, <2>0, ReplayedIs DEF Parts
    <2>6. LeadsIn(base, L, Entries, Recovered, <<>>)
      <3>1. ~(L < c)
        BY <2>0, <2>3, <2>4
      <3>. QED
        BY <2>3, <2>4, <2>5, <3>1 DEF LeadsIn
    <2>7. Leads(base, L)'
      BY <1>2, <1>3, <2>0, <2>1, <2>4, <2>6 DEF Leads
    <2>8. Based(L)'
      <3>1. older' \cup {base'} = {base}
        BY <1>2, <2>1
      <3>2. ASSUME NEW s \in older' \cup {base'} PROVE Leads(s, L)'
        <4>1. s = base
          BY <3>1
        <4>2. LeadsIn(s, L, Entries', start', history') /\ Cut(s) <= Len(Entries')
          BY <1>2, <1>3, <2>0, <2>1, <2>4, <2>6, <4>1
        <4>. QED
          BY <4>2 DEF Leads
      <3>. QED
        BY <1>2, <1>4, <3>2 DEF Based
    <2>. QED
      BY <2>2, <2>8
  <1>5. CASE ~(scenario.power /\ OnDisk)
    <2>1. start' = start /\ history' = Resumed /\ floor' = Len(Resumed) /\ safe' = safe
      BY <1>5 DEF Open
    <2>2. SameHistory
      BY <1>2, <2>1, ResumedFacts DEF SameHistory, FilesInv
    <2>3. ~Lost /\ Len(Entries) = off + Len(history) /\ floor' = Len(history)
      BY <1>5, <2>1, <2>2 DEF Follows, Lost, SameHistory
    <2>4. Follows(off)'
      BY <1>2, <1>5, FollowsOpened
    <2>5. Based(off)'
      BY <1>2, <1>3, <2>1, <2>2, <2>3, BasedSame
    <2>. QED
      BY <2>4, <2>5
  <1>. QED
    BY <1>4, <1>5

LEMMA SyncTold ==
  ASSUME FilesInv, SyncOk, NEW off \in Nat, Follows(off), Based(off)
  PROVE  Follows(off)' /\ Based(off)'
  <1>1. /\ Len(Entries) \in Nat /\ Len(history) \in Nat /\ Len(log) \in Nat /\ Len(Entries) <= Len(log)
    BY Basics
  <1>2. /\ phase = "up" /\ pc = "sync" /\ Settled("ok") /\ floor' = Len(history') /\ safe' = Len(history')
        /\ synced' = Len(log) /\ UNCHANGED <<phase, log, base, older, start, scenario>>
    BY DEF SyncOk, Answered, life
  <1>3. history # <<>>
    BY <1>2 DEF FilesInv, Placed
  <1>4. SameHistory
    BY <1>2, <1>3, SettledFacts DEF SameHistory, FilesInv
  <1>5. Entries' = Entries /\ ~Lost /\ ~Lost'
    BY <1>2 DEF Entries, Lost
  <1>6. Len(Entries) = off + Len(history) /\ Len(history') = Len(history)
    BY <1>4, <1>5 DEF Follows, SameHistory
  <1>7. off + Len(history) <= Len(Entries) /\ off + Len(history) <= Len(log)
    BY <1>1, <1>6
  <1>8. \A i \in 1 .. Len(Entries) - off : i \in 1 .. Len(history)
    BY <1>1, <1>6
  <1>9. Follows(off)'
    BY <1>1, <1>2, <1>4, <1>5, <1>6, <1>7, <1>8 DEF Follows, SameHistory
  <1>. QED
    BY <1>2, <1>4, <1>5, <1>9, BasedSame

LEMMA LogStep ==
  ASSUME FilesInv, PowerSafe, Parts, [Next]_vars, Shaped', Sound', phase' # "refused", ~Create, store \in LogStores
  PROVE  LogInv'
  <1>1. PICK off \in Nat : Follows(off) /\ Based(off)
    BY DEF Parts, LogInv
  <1>2. scenario' = scenario /\ store' = store
    BY SameScenario
  <1>3. store \in Logged /\ store # "lsm" /\ store \notin Snapshots /\ store # "redb"
    BY DEF LogStores, Logged, Snapshots
  <1>4. SUFFICES \E o \in Nat : Follows(o)' /\ Based(o)'
    BY DEF LogInv
  <1>5. SUFFICES ASSUME ~(Follows(off)' /\ Based(off)') PROVE \E o \in Nat : Follows(o)' /\ Based(o)'
    OBVIOUS
  <1>6. ASSUME Entries' = Entries, SameHistory, UNCHANGED <<floor, safe, synced, start>>, Lost => Lost',
               base' \in {base, Torn}, older' \subseteq older \cup {base, Torn}
        PROVE  FALSE
    BY <1>1, <1>2, <1>5, <1>6, FollowsSame, BasedSame
  <1>7. ASSUME UNCHANGED <<log, synced, base, older, start, history, floor, safe>>, Lost => Lost' PROVE FALSE
    <2>1. Entries' = Entries /\ SameHistory
      BY <1>7 DEF Entries, SameHistory
    <2>. QED
      BY <1>6, <1>7, <2>1
  <1>8. CASE UNCHANGED vars
    BY <1>7, <1>8 DEF vars, files, life, ghosts, Lost, OnDisk
  <1>9. ASSUME NEW x \in Ids, NEW age \in Ages, UpdateLogged(x, age) PROVE FALSE
    BY <1>1, <1>2, <1>5, <1>9, LoggedTold DEF UpdateLogged, AppendEntry, Answered, Room, life, Sound, Behind
  <1>10. ASSUME NEW x \in Ids, NEW age \in Ages, AppendUnsynced(x, age) PROVE FALSE
    BY <1>1, <1>2, <1>5, <1>10, LoggedTold DEF AppendUnsynced, AppendEntry, Room, life, Sound, Behind
  <1>11. ASSUME NEW x \in Ids, NEW age \in Ages, UpdateState(x, age) \/ UpdateEngine(x, age) PROVE FALSE
    BY <1>3, <1>11 DEF UpdateState, UpdateEngine
  <1>12. ASSUME NEW age \in Ages, UpdateUnknown(age) PROVE FALSE
    BY <1>1, <1>2, <1>5, <1>12, LoggedTold DEF UpdateUnknown, Room, life, Sound, Behind
  <1>13. CASE SyncOk
    BY <1>1, <1>5, <1>13, SyncTold
  <1>14. CASE SyncFails
    <2>1. phase = "up" /\ Settled("error") /\ history # <<>> /\ UNCHANGED <<files, life, floor, safe>>
      BY <1>14 DEF SyncFails, FilesInv, Placed
    <2>2. SameHistory
      BY <2>1, SettledFacts DEF SameHistory, FilesInv
    <2>3. Entries' = Entries /\ ~Lost
      BY <2>1 DEF Entries, files, Lost
    <2>. QED
      BY <1>6, <2>1, <2>2, <2>3 DEF files, life
  <1>15. ASSUME log' = Append(log, Torn), phase = "up", UNCHANGED <<synced, base, older, start, history, floor, safe>>
         PROVE  FALSE
    <2>1. Entries' = Entries
      BY <1>15, EntriesTorn DEF FilesInv
    <2>2. SameHistory /\ ~Lost
      BY <1>15 DEF SameHistory, Lost
    <2>. QED
      BY <1>6, <1>15, <2>1, <2>2
  <1>16. CASE AppendFails
    BY <1>15, <1>16 DEF AppendFails, Room, life, ghosts
  <1>17. CASE BeginCheckpoint
    <2>1. Entries' = Entries /\ SameHistory /\ ~Lost
      BY <1>17 DEF BeginCheckpoint, Entries, SameHistory, Lost, ghosts
    <2>2. base' = Torn /\ older' \subseteq older \cup {base, Torn} /\ UNCHANGED <<floor, safe, synced, start>>
      BY <1>17 DEF BeginCheckpoint, ghosts, life
    <2>. QED
      BY <1>6, <2>1, <2>2
  <1>18. CASE WriteBase
    BY <1>1, <1>5, <1>18, BaseWritten
  <1>19. CASE Truncate
    <2>1. /\ pc = "truncate" /\ phase = "up" /\ EmptyLog /\ UNCHANGED <<memory, base, older, scenario, phase>>
      BY <1>19 DEF Truncate
    <2>2. store \in {"wal_fsync", "wal_buffered"} /\ base \in Covers /\ base.ages = ages /\ "checkpoint" \in scenario.calls
      BY <2>1 DEF FilesInv, Placed
    <2>3. ~scenario.power
      BY <2>2, Stores
    <2>4. /\ start' = ages /\ history' = <<>> /\ floor' = 0 /\ safe' = 0 /\ synced' = 0 /\ log' = <<>>
      BY <1>3, <2>1 DEF EmptyLog, Current
    <2>5. Entries' = <<>> /\ Len(Entries') = 0
      BY <2>4, EntriesEmpty
    <2>6. Follows(0)'
      <3>1. Len(history') = 0 /\ 0 + 0 <= 0 /\ 1 .. 0 - 0 = {}
        BY <2>4
      <3>. QED
        BY <2>4, <2>5, <3>1 DEF Follows
    <2>7. Held(base) = ages
      BY <2>2, Kinds DEF Held
    <2>8. Based(0)'
      BY <1>2, <2>1, <2>2, <2>3, <2>4, <2>7 DEF Based, Held
    <2>. QED
      BY <2>6, <2>8
  <1>20. CASE WriteFails
    BY <1>7, <1>20 DEF WriteFails, files, life, ghosts, Lost
  <1>21. CASE BeginFlush \/ WriteSst \/ WriteCount \/ ClearMemtable
    BY <1>3, <1>21 DEF BeginFlush, WriteSst, WriteCount, ClearMemtable, FilesInv, Placed
  <1>22. CASE Kill
    <2>1. phase = "up" /\ UNCHANGED <<synced, base, older, start, history, floor, safe>>
          /\ (log' = log \/ log' = Append(log, Torn))
      BY <1>22 DEF Kill, ghosts
    <2>. QED
      BY <1>7, <1>15, <2>1 DEF Lost
  <1>23. CASE PowerLoss
    BY <1>1, <1>5, <1>23, PowerLost
  <1>24. CASE Open
    BY <1>1, <1>24, LogOpened
  <1>25. CASE OpenMisreads
    BY <1>25 DEF OpenMisreads, Sound
  <1>26. CASE OpenRefused
    BY <1>26 DEF OpenRefused
  <1>. QED
    BY <1>8, <1>9, <1>10, <1>11, <1>12, <1>13, <1>14, <1>16, <1>17, <1>18, <1>19, <1>20, <1>21, <1>22,
       <1>23, <1>24, <1>25, <1>26 DEF Next

------------------------------------------------------------------------------
(* What a reader sees                                                      *)

\* The updates that were answered Ok.
Oks(h) == {i \in 1 .. Len(h) : h[i].answer = "ok"}

LEMMA SeenIs ==
  ASSUME Typed
  PROVE  Seen <=> (phase = "up" /\ store # "lsm" => ages = Updated(start, history, Oks(history)))
  <1>1. (1 .. Len(history)) \ Unanswered = Oks(history)
    BY DEF Typed, Unanswered, Oks
  <1>. QED
    BY <1>1 DEF Seen, After

LEMMA OksAppend ==
  ASSUME NEW h \in Seq(Told), NEW k \in Seq(Told), Len(k) = Len(h) + 1,
         \A i \in 1 .. Len(h) : k[i] = h[i]
  PROVE  /\ k[Len(h) + 1].answer = "ok" => Oks(k) = Oks(h) \cup {Len(h) + 1}
         /\ k[Len(h) + 1].answer # "ok" => Oks(k) = Oks(h)
  <1>1. Len(h) \in Nat /\ 1 .. Len(k) = 1 .. Len(h) \cup {Len(h) + 1} /\ Len(h) + 1 \notin 1 .. Len(h)
    OBVIOUS
  <1>2. \A i \in 1 .. Len(h) : i \in Oks(k) <=> i \in Oks(h)
    BY <1>1 DEF Oks
  <1>3. Len(h) + 1 \in Oks(k) <=> k[Len(h) + 1].answer = "ok"
    BY <1>1 DEF Oks
  <1>4. Oks(k) \subseteq 1 .. Len(k) /\ Oks(h) \subseteq 1 .. Len(h)
    BY DEF Oks
  <1>. HIDE DEF Oks
  <1>. QED
    BY <1>1, <1>2, <1>3, <1>4

\* An update that was not answered Ok shows nothing.
LEMMA OksSame ==
  ASSUME NEW f, NEW h \in Seq(Told), NEW k, Oks(k) = Oks(h),
         \A i \in 1 .. Len(h) : k[i].id = h[i].id /\ k[i].age = h[i].age
  PROVE  Updated(f, k, Oks(k)) = Updated(f, h, Oks(h))
  <1>1. Oks(h) \in SUBSET (1 .. Len(h)) /\ Len(h) \in Nat
    BY DEF Oks
  <1>. HIDE DEF Oks
  <1>2. \A i \in Oks(h) : h[i].id = k[i].id /\ h[i].age = k[i].age
    BY <1>1
  <1>3. Updated(f, h, Oks(h)) = Updated(f, k, Oks(h))
    BY <1>1, <1>2, SameUpdates
  <1>. QED
    BY <1>3

\* The last update, once it is answered Ok, shows on the others.
Completes(h, k, n) ==
  /\ n \in Nat \ {0} /\ Oks(h) \in SUBSET (1 .. n - 1) /\ Oks(k) = Oks(h) \cup {n}
  /\ \A i \in Oks(h) : k[i].id = h[i].id /\ k[i].age = h[i].age

LEMMA OksOneMore ==
  ASSUME NEW X, NEW f \in [Ids -> X], NEW h, NEW k, NEW n, Completes(h, k, n)
  PROVE  Updated(f, k, Oks(k)) =
           IF k[n].id \in Ids THEN [Updated(f, h, Oks(h)) EXCEPT ![k[n].id] = k[n].age]
           ELSE Updated(f, h, Oks(h))
  <1>1. PICK A : A = Oks(h)
    OBVIOUS
  <1>2. /\ n \in Nat \ {0} /\ A \in SUBSET (1 .. n - 1) /\ Oks(k) = A \cup {n}
        /\ \A i \in A : h[i].id = k[i].id /\ h[i].age = k[i].age
    BY <1>1 DEF Completes
  <1>3. Updated(f, k, A \cup {n}) =
           IF k[n].id \in Ids THEN [Updated(f, k, A) EXCEPT ![k[n].id] = k[n].age] ELSE Updated(f, k, A)
    BY <1>2, OneMoreUpdate
  <1>4. PICK m \in Nat : m = n - 1
    BY <1>2
  <1>5. A \subseteq 1 .. m
    BY <1>2, <1>4
  <1>6. Updated(f, h, A) = Updated(f, k, A)
    BY <1>2, <1>5, SameUpdates
  <1>. QED
    BY <1>1, <1>2, <1>3, <1>6

LEMMA SeenRecorded ==
  ASSUME Typed, NEW x \in Ids, NEW age \in Ages, Record(x, age, "ok"), start' = start
  PROVE  Updated(start, history', Oks(history')) = [Updated(start, history, Oks(history)) EXCEPT ![x] = age]
  <1>1. /\ history \in Seq(Told) /\ history' \in Seq(Told) /\ Len(history') = Len(history) + 1
        /\ \A i \in 1 .. Len(history) : history'[i] = history[i]
        /\ history'[Len(history) + 1] = [id |-> x, age |-> age, answer |-> "ok"]
        /\ start \in [Ids -> Ages \cup {Torn}]
    BY Recorded DEF Typed
  <1>2. Oks(history') = Oks(history) \cup {Len(history) + 1}
    BY <1>1, OksAppend
  <1>3. PICK n \in Nat \ {0} : n = Len(history) + 1
    BY <1>1
  <1>4. Oks(history) \in SUBSET (1 .. n - 1)
    BY <1>1, <1>3 DEF Oks
  <1>5. \A i \in Oks(history) : history'[i].id = history[i].id /\ history'[i].age = history[i].age
    BY <1>1 DEF Oks
  <1>7. Completes(history, history', n)
    BY <1>2, <1>3, <1>4, <1>5 DEF Completes
  <1>. HIDE DEF Oks
  <1>6. Updated(start, history', Oks(history')) =
           IF history'[n].id \in Ids
           THEN [Updated(start, history, Oks(history)) EXCEPT ![history'[n].id] = history'[n].age]
           ELSE Updated(start, history, Oks(history))
    <2>1. start \in [Ids -> Ages \cup {Torn}]
      BY <1>1
    <2>. QED
      BY <1>7, <2>1, OksOneMore
  <1>. QED
    BY <1>1, <1>3, <1>6

LEMMA SeenSettled ==
  ASSUME FilesInv, SyncOk, Seen
  PROVE  ages' = Updated(start, history', Oks(history'))
  <1>1. /\ history # <<>> /\ Last(history).answer = "pending" /\ Settled("ok") /\ store # "lsm" /\ phase = "up"
        /\ ages' = [ages EXCEPT ![Last(history).id] = Last(history).age]
    BY DEF SyncOk, FilesInv, Placed
  <1>2. /\ history' \in Seq(Told) /\ Len(history') = Len(history) /\ Len(history) \in Nat \ {0}
        /\ \A i \in 1 .. Len(history) : history'[i].id = history[i].id /\ history'[i].age = history[i].age
        /\ \A i \in 1 .. Len(history) : i # Len(history) => history'[i] = history[i]
        /\ history'[Len(history)].answer = "ok" /\ history[Len(history)].answer = "pending"
        /\ Last(history) = history[Len(history)] /\ start \in [Ids -> Ages \cup {Torn}]
    BY <1>1, SettledFacts DEF FilesInv, Typed
  <1>3. ages = Updated(start, history, Oks(history)) /\ ages \in [Ids -> Ages]
    BY <1>1, SeenIs DEF FilesInv, Typed
  <1>4. PICK n \in Nat \ {0} : n = Len(history)
    BY <1>2
  <1>5. Oks(history) \in SUBSET (1 .. n - 1) /\ Oks(history') = Oks(history) \cup {n}
    <2>1. \A i \in 1 .. n : i \in 1 .. n - 1 \/ i = n
      BY <1>4
    <2>2. \A i \in 1 .. n - 1 : i \in 1 .. n /\ i # n
      BY <1>4
    <2>3. Len(history') = n /\ Len(history) = n /\ n \in 1 .. n /\ n \notin 1 .. n - 1
      BY <1>2, <1>4
    <2>4. n \in Oks(history') /\ n \notin Oks(history)
      BY <1>2, <1>4, <2>3 DEF Oks
    <2>5. \A i \in 1 .. n - 1 : i \in Oks(history') <=> i \in Oks(history)
      BY <1>2, <1>4, <2>2, <2>3 DEF Oks
    <2>6. Oks(history) \subseteq 1 .. n /\ Oks(history') \subseteq 1 .. n
      BY <2>3 DEF Oks
    <2>. HIDE DEF Oks
    <2>. QED
      BY <2>1, <2>2, <2>3, <2>4, <2>5, <2>6
  <1>6. \A i \in Oks(history) : history'[i].id = history[i].id /\ history'[i].age = history[i].age
    BY <1>2 DEF Oks
  <1>9. Completes(history, history', n)
    BY <1>5, <1>6 DEF Completes
  <1>10. start \in [Ids -> Ages \cup {Torn}]
    BY <1>2
  <1>. HIDE DEF Oks
  <1>7. Updated(start, history', Oks(history')) =
           IF history'[n].id \in Ids
           THEN [Updated(start, history, Oks(history)) EXCEPT ![history'[n].id] = history'[n].age]
           ELSE Updated(start, history, Oks(history))
    BY <1>9, <1>10, OksOneMore
  <1>8. history'[n].id = Last(history).id /\ history'[n].age = Last(history).age
    BY <1>2, <1>4
  <1>. QED
    BY <1>1, <1>3, <1>7, <1>8

\* An emptied history is the state it starts from.
LEMMA SeenEmpty ==
  ASSUME NEW X, NEW f \in [Ids -> X]
  PROVE  Updated(f, <<>>, Oks(<<>>)) = f
  <1>1. Oks(<<>>) = {}
    BY DEF Oks
  <1>. QED
    BY <1>1, UpdatedNone

\* Every store opens with what its files give.
LEMMA SeenOpened ==
  ASSUME FilesInv, PowerSafe, Parts, Open, store # "lsm"
  PROVE  ages' = Updated(start', history', Oks(history'))
  <1>1. phase = "down" /\ Openable /\ ages' = Recovered /\ Recovered \in [Ids -> Ages]
    BY RecoveredTyped DEF Open, FilesInv
  <1>2. CASE scenario.power /\ OnDisk
    <2>1. start' = Recovered /\ history' = <<>>
      BY <1>2 DEF Open
    <2>. QED
      BY <1>1, <2>1, SeenEmpty
  <1>3. CASE ~(scenario.power /\ OnDisk)
    <2>1. start' = start /\ history' = Resumed /\ ~Lost
      BY <1>3 DEF Open, Lost
    <2>9. floor \in Nat /\ Len(history) \in Nat /\ floor <= Len(history)
      BY Basics
    <2>2. PICK n \in Nat : n = (IF store \in Snapshots THEN floor ELSE Len(history)) /\ n <= Len(history)
      BY <2>9
    <2>3. Recovered = First(n)
      BY <1>1, <2>1, <2>2, RecoveredIs
    <2>4. /\ Len(Resumed) = n /\ \A i \in 1 .. n : Resumed[i].id = history[i].id /\ Resumed[i].age = history[i].age
          /\ \A i \in 1 .. n : Resumed[i].answer = "ok"
      BY <2>2, ResumedFacts DEF FilesInv
    <2>5. Oks(Resumed) = 1 .. n
      BY <2>4 DEF Oks
    <2>. HIDE DEF Resumed
    <2>6. PICK A : A = 1 .. n
      OBVIOUS
    <2>7. \A i \in A : history[i].id = Resumed[i].id /\ history[i].age = Resumed[i].age
      BY <2>4, <2>6
    <2>8. Updated(start, history, A) = Updated(start, Resumed, A)
      BY <2>6, <2>7, SameUpdates
    <2>. QED
      BY <1>1, <2>1, <2>3, <2>5, <2>6, <2>8 DEF First
  <1>. QED
    BY <1>2, <1>3

LEMMA SeenStep ==
  ASSUME FilesInv, FilesInv', PowerSafe, Parts, [Next]_vars, Sound', phase' # "refused", ~Create
  PROVE  Seen'
  <1>. USE DEF FilesInv
  <1>1. scenario' = scenario /\ store' = store
    BY SameScenario
  <1>2. SUFFICES ASSUME phase' = "up", store # "lsm" PROVE ages' = Updated(start', history', Oks(history'))
    <2>1. Seen' <=> (phase' = "up" /\ store' # "lsm" => ages' = Updated(start', history', Oks(history')))
      <3>1. (1 .. Len(history')) \ Unanswered' = Oks(history')
        <4>1. DOMAIN history' = 1 .. Len(history')
          BY DEF Typed
        <4>. QED
          BY <4>1 DEF Unanswered, Oks
      <3>. QED
        BY <3>1 DEF Seen, After
    <2>. QED
      BY <1>1, <2>1
  <1>3. /\ phase = "up" => ages = Updated(start, history, Oks(history))
        /\ history \in Seq(Told) /\ history' \in Seq(Told) /\ start \in [Ids -> Ages \cup {Torn}]
    BY <1>2, SeenIs DEF Parts, Typed
  <1>4. CASE UNCHANGED <<phase, ages, start, history>>
    BY <1>2, <1>3, <1>4
  <1>5. CASE UNCHANGED vars
    BY <1>4, <1>5 DEF vars, memory, life, ghosts
  <1>6. ASSUME NEW x \in Ids, NEW age \in Ages, UpdateLogged(x, age) \/ UpdateState(x, age) \/ UpdateEngine(x, age)
        PROVE  ages' = Updated(start', history', Oks(history'))
    <2>1. /\ phase = "up" /\ ages' = [ages EXCEPT ![x] = age] /\ Record(x, age, "ok") /\ start' = start
      BY <1>2, <1>6 DEF UpdateLogged, UpdateState, UpdateEngine, Room, life
    <2>. QED
      BY <1>3, <2>1, SeenRecorded
  <1>7. ASSUME NEW x \in Ids \cup {Unknown}, NEW age \in Ages, NEW answer \in {"pending", "not_found"}, Record(x, age, answer),
               phase = "up", UNCHANGED <<ages, start>>
        PROVE  ages' = Updated(start', history', Oks(history'))
    <2>4. answer \in {"ok", "pending", "error", "not_found"} /\ answer # "ok"
      OBVIOUS
    <2>1. /\ Len(history') = Len(history) + 1 /\ \A i \in 1 .. Len(history) : history'[i] = history[i]
          /\ history'[Len(history) + 1] = [id |-> x, age |-> age, answer |-> answer]
      BY <1>7, <2>4, Recorded
    <2>5. history'[Len(history) + 1].answer # "ok"
      BY <2>1, <2>4
    <2>2. Oks(history') = Oks(history)
      BY <1>3, <2>1, <2>5, OksAppend
    <2>3. Updated(start, history', Oks(history')) = Updated(start, history, Oks(history))
      BY <1>3, <2>1, <2>2, OksSame
    <2>. QED
      BY <1>3, <1>7, <2>3
  <1>8. ASSUME NEW x \in Ids, NEW age \in Ages, AppendUnsynced(x, age)
        PROVE  ages' = Updated(start', history', Oks(history'))
    BY <1>7, <1>8 DEF AppendUnsynced, memory, life, Room
  <1>9. ASSUME NEW age \in Ages, UpdateUnknown(age)
        PROVE  ages' = Updated(start', history', Oks(history'))
    BY <1>7, <1>9 DEF UpdateUnknown, life, Room
  <1>10. CASE SyncOk
    <2>1. start' = start
      BY <1>10 DEF SyncOk, life
    <2>. QED
      BY <1>10, <2>1, SeenSettled DEF Parts
  <1>11. CASE SyncFails
    <2>1. /\ phase = "up" /\ history # <<>> /\ Last(history).answer = "pending" /\ Settled("error")
          /\ UNCHANGED <<ages, start>>
      BY <1>11 DEF SyncFails, Placed, memory, life
    <2>2. /\ Len(history') = Len(history) /\ Len(history) \in Nat \ {0}
          /\ \A i \in 1 .. Len(history) : history'[i].id = history[i].id /\ history'[i].age = history[i].age
          /\ \A i \in 1 .. Len(history) : i # Len(history) => history'[i] = history[i]
          /\ history'[Len(history)].answer = "error" /\ history[Len(history)].answer = "pending"
      BY <2>1, SettledFacts
    <2>3. Oks(history') = Oks(history)
      BY <2>2 DEF Oks
    <2>4. Updated(start, history', Oks(history')) = Updated(start, history, Oks(history))
      BY <1>3, <2>2, <2>3, OksSame
    <2>. QED
      BY <1>3, <2>1, <2>4
  <1>12. CASE AppendFails \/ BeginCheckpoint \/ WriteBase \/ WriteFails
    BY <1>4, <1>12 DEF AppendFails, BeginCheckpoint, WriteBase, WriteFails, memory, life, ghosts
  <1>13. CASE Truncate
    <2>1. start' = ages /\ history' = <<>> /\ ages' = ages /\ ages \in [Ids -> Ages]
      BY <1>2, <1>13 DEF Truncate, EmptyLog, Current, memory, Typed
    <2>. QED
      BY <2>1, SeenEmpty
  <1>14. CASE BeginFlush \/ WriteSst \/ WriteCount \/ ClearMemtable
    BY <1>2, <1>14 DEF BeginFlush, WriteSst, WriteCount, ClearMemtable, Placed
  <1>15. CASE Kill \/ PowerLoss \/ OpenRefused
    BY <1>2, <1>15 DEF Kill, PowerLoss, OpenRefused
  <1>16. CASE Open
    BY <1>2, <1>16, SeenOpened
  <1>17. CASE OpenMisreads
    BY <1>17 DEF OpenMisreads, Sound
  <1>. QED
    BY <1>5, <1>6, <1>8, <1>9, <1>10, <1>11, <1>12, <1>13, <1>14, <1>15, <1>16, <1>17 DEF Next

------------------------------------------------------------------------------
(* The snapshot stores and the engine                                      *)

LEMMA AllOks ==
  ASSUME NEW f, NEW h \in Seq(Told), \A i \in DOMAIN h : h[i].answer = "ok" \/ h[i].id = Unknown
  PROVE  Updated(f, h, Oks(h)) = Updated(f, h, 1 .. Len(h))
  <1>1. PICK n \in Nat : n = Len(h) /\ DOMAIN h = 1 .. n
    OBVIOUS
  <1>2. Oks(h) \in SUBSET (1 .. n) /\ \A i \in (1 .. n) \ Oks(h) : h[i].id \notin Ids
    BY <1>1, DurabilityAssumption DEF Oks
  <1>. HIDE DEF Oks
  <1>. QED
    BY <1>1, <1>2, UnknownIgnored

LEMMA FirstSame ==
  ASSUME NEW n \in Nat, start' = start,
         \A i \in 1 .. n : history'[i].id = history[i].id /\ history'[i].age = history[i].age
  PROVE  First(n)' = First(n)
  <1>1. PICK A : A = 1 .. n
    OBVIOUS
  <1>2. \A i \in A : history'[i].id = history[i].id /\ history'[i].age = history[i].age
    BY <1>1
  <1>3. Updated(start, history', A) = Updated(start, history, A)
    BY <1>1, <1>2, SameUpdates
  <1>. QED
    BY <1>1, <1>3 DEF First

LEMMA FirstNone ==
  ASSUME NEW X, NEW f \in [Ids -> X], NEW u
  PROVE  Updated(f, u, 1 .. 0) = f
  <1>1. 1 .. 0 = {}
    OBVIOUS
  <1>. QED
    BY <1>1, UpdatedNone

\* A store without a log opens with what its file holds.
LEMMA RecoveredFile ==
  ASSUME FilesInv, Shaped, store \notin Logged, base \in Covers
  PROVE  Recovered = base.ages /\ base.ages \in [Ids -> Ages]
  <1>1. base # Torn /\ base # NoFile /\ store # "lsm" /\ store # "hybrid" /\ base.ages \in [Ids -> Ages]
    BY Kinds DEF Logged, Covers
  <1>2. Len(Entries) = 0 /\ Cut(base) = 0
    <2>1. Len(log) = 0
      BY DEF FilesInv, Placed
    <2>. QED
      BY <1>1, <2>1, Basics
  <1>3. Recovered = Updated(Held(base), Entries, Replayed) /\ Replayed = Cut(base) + 1 .. Len(Entries)
    BY <1>1, ReplayedIs
  <1>4. Replayed = {} /\ Held(base) = base.ages
    BY <1>1, <1>2, <1>3 DEF Held
  <1>. QED
    BY <1>1, <1>3, <1>4, UpdatedNone

LEMMA EngineStep ==
  ASSUME FilesInv, FilesInv', PowerSafe, Parts, Seen', [Next]_vars, Sound', phase' # "refused", ~Create, store = "redb"
  PROVE  EngineInv'
  <1>. USE DEF FilesInv
  <1>1. /\ store' = store /\ store \notin Logged /\ store \notin Snapshots /\ store \notin Checkpointing
        /\ base.ages = First(Len(history)) /\ base \in Covers /\ pc = "idle"
    BY SameScenario DEF Logged, Snapshots, Checkpointing, Parts, EngineInv, Placed, Typed
  <1>2. SUFFICES base'.ages = First(Len(history))'
    BY DEF EngineInv
  <1>3. CASE UNCHANGED <<base, start, history>>
    BY <1>1, <1>3 DEF First
  <1>4. CASE UNCHANGED vars
    BY <1>3, <1>4 DEF vars, files, life, ghosts
  <1>5. ASSUME NEW x \in Ids, NEW age \in Ages, UpdateEngine(x, age) PROVE base'.ages = First(Len(history))'
    <2>1. base' = Snapshot(0, ages') /\ phase' = "up" /\ base'.ages = ages'
      BY <1>5 DEF UpdateEngine, Room, life, Snapshot
    <2>2. ages' = Updated(start', history', Oks(history'))
      <3>1. (1 .. Len(history')) \ Unanswered' = Oks(history')
        <4>1. DOMAIN history' = 1 .. Len(history')
          BY DEF Typed
        <4>. QED
          BY <4>1 DEF Unanswered, Oks
      <3>. QED
        BY <1>1, <2>1, <3>1 DEF Seen, After
    <2>3. history' \in Seq(Told) /\ \A i \in DOMAIN history' : history'[i].answer = "ok" \/ history'[i].id = Unknown
      BY <1>1 DEF Typed, Placed
    <2>4. ages' = Updated(start', history', 1 .. Len(history'))
      BY <2>2, <2>3, AllOks
    <2>. QED
      BY <2>1, <2>4 DEF First
  <1>6. ASSUME NEW x \in Ids, NEW age \in Ages, UpdateLogged(x, age) \/ AppendUnsynced(x, age) \/ UpdateState(x, age)
        PROVE  FALSE
    BY <1>1, <1>6 DEF UpdateLogged, AppendUnsynced, UpdateState, Logged
  <1>7. ASSUME NEW age \in Ages, UpdateUnknown(age) PROVE FALSE
    BY <1>1, <1>7 DEF UpdateUnknown
  <1>8. CASE SyncOk \/ SyncFails \/ WriteBase \/ Truncate \/ WriteFails \/ WriteSst \/ WriteCount \/ ClearMemtable
    BY <1>1, <1>8 DEF SyncOk, SyncFails, WriteBase, Truncate, WriteFails, WriteSst, WriteCount, ClearMemtable
  <1>9. CASE AppendFails \/ BeginCheckpoint \/ BeginFlush
    BY <1>1, <1>9 DEF AppendFails, BeginCheckpoint, BeginFlush
  <1>10. CASE Kill \/ PowerLoss
    BY <1>1, <1>3, <1>10 DEF Kill, PowerLoss, ghosts
  <1>11. CASE Open
    <2>1. CASE scenario.power /\ OnDisk
      <3>1. start' = Recovered /\ history' = <<>> /\ base' = base /\ Recovered = base.ages /\ base.ages \in [Ids -> Ages]
        BY <1>1, <1>11, <2>1, RecoveredFile DEF Open, files, Parts
      <3>2. Len(history') = 0
        BY <3>1
      <3>3. Updated(Recovered, history', 1 .. 0) = Recovered
        BY <3>1, FirstNone
      <3>. QED
        BY <3>1, <3>2, <3>3 DEF First
    <2>2. CASE ~(scenario.power /\ OnDisk)
      <3>1. start' = start /\ history' = Resumed /\ base' = base /\ Len(history) \in Nat
        BY <1>11, <2>2, Basics DEF Open, files
      <3>2. Len(Resumed) = Len(history) /\ \A i \in 1 .. Len(history) : Resumed[i].id = history[i].id /\ Resumed[i].age = history[i].age
        BY <1>1, ResumedFacts
      <3>3. PICK n \in Nat : n = Len(history) /\ Len(history') = n
        BY <3>1, <3>2
      <3>4. First(n)' = First(n)
        BY <3>1, <3>2, <3>3, FirstSame
      <3>5. First(n)' = First(Len(history))' /\ First(n) = First(Len(history))
        BY <3>3 DEF First
      <3>. QED
        BY <1>1, <3>1, <3>4, <3>5
    <2>. QED
      BY <2>1, <2>2
  <1>12. CASE OpenMisreads
    BY <1>12 DEF OpenMisreads, Sound
  <1>13. CASE OpenRefused
    BY <1>13 DEF OpenRefused
  <1>. QED
    BY <1>4, <1>5, <1>6, <1>7, <1>8, <1>9, <1>10, <1>11, <1>12, <1>13 DEF Next

LEMMA SnapshotStep ==
  ASSUME FilesInv, FilesInv', PowerSafe, Parts, [Next]_vars, Sound', phase' # "refused", ~Create, store \in Snapshots
  PROVE  SnapshotInv'
  <1>. USE DEF FilesInv
  <1>1. /\ store' = store /\ store \notin Logged /\ store # "redb" /\ store # "lsm" /\ safe = 0 /\ log = <<>>
        /\ base \in Covers => \E n \in floor .. Len(history) : base.ages = First(n) /\ (~Lost => n = floor)
        /\ ~Lost => \A s \in older : s \in Covers => \E n \in 0 .. floor : s.ages = First(n)
        /\ Torn \notin Covers /\ NoFile \notin Covers
    BY SameScenario, Kinds DEF Logged, Snapshots, Parts, SnapshotInv, Placed
  <1>2. Len(history) \in Nat /\ floor \in Nat /\ floor <= Len(history)
    BY Basics
  <1>3. SnapshotInv' <=>
          /\ safe' = 0
          /\ base' \in Covers => \E n \in floor' .. Len(history') : base'.ages = First(n)' /\ (~Lost' => n = floor')
          /\ ~Lost' => \A s \in older' : s \in Covers => \E n \in 0 .. floor' : s.ages = First(n)'
    BY <1>1 DEF SnapshotInv
  <1>4. ASSUME ~Lost PROVE \A s \in older \cup {base} : s \in Covers => \E n \in 0 .. floor : s.ages = First(n)
    <2>1. base \in Covers => base.ages = First(floor)
      BY <1>1, <1>4
    <2>. QED
      BY <1>1, <1>2, <1>4, <2>1
  <1>5. ASSUME UNCHANGED <<start, floor, safe>>, phase = "up", base' \in {base, Torn}, older' \subseteq older \cup {base, Torn},
               Len(history) <= Len(history'), Len(history') \in Nat, \A i \in 1 .. Len(history) : history'[i] = history[i]
        PROVE  SnapshotInv'
    <2>1. ~Lost
      BY <1>5 DEF Lost
    <2>2. ASSUME NEW n \in 0 .. floor PROVE First(n)' = First(n)
      <3>1. n \in Nat /\ \A i \in 1 .. n : i \in 1 .. Len(history)
        BY <1>2
      <3>2. \A i \in 1 .. n : history'[i].id = history[i].id /\ history'[i].age = history[i].age
        BY <1>5, <3>1
      <3>. QED
        BY <1>5, <3>1, <3>2, FirstSame
    <2>3. base' \in Covers => base'.ages = First(floor)' /\ floor \in floor' .. Len(history')
      <3>1. base' \in Covers => base'.ages = First(floor)
        BY <1>1, <1>5, <2>1
      <3>2. PICK n \in 0 .. floor : n = floor
        BY <1>2
      <3>3. First(n)' = First(floor)' /\ First(n) = First(floor)
        BY <1>5, <3>2 DEF First
      <3>4. floor \in floor' .. Len(history')
        BY <1>2, <1>5
      <3>. QED
        BY <2>2, <3>1, <3>3, <3>4
    <2>4. ASSUME NEW s \in older', s \in Covers PROVE \E n \in 0 .. floor' : s.ages = First(n)'
      <3>1. s \in older \cup {base}
        BY <1>1, <1>5, <2>4
      <3>2. PICK n \in 0 .. floor : s.ages = First(n)
        BY <1>4, <2>1, <2>4, <3>1
      <3>. QED
        BY <1>5, <2>2, <3>2
    <2>5. PICK m : m = floor /\ floor' = m
      BY <1>5
    <2>6. First(m)' = First(floor)'
      BY <1>5, <2>5 DEF First
    <2>7. base' \in Covers => m \in floor' .. Len(history') /\ base'.ages = First(m)' /\ m = floor'
      BY <2>3, <2>5, <2>6
    <2>. QED
      BY <1>1, <1>5, <2>4, <2>7 DEF SnapshotInv
  <1>6. CASE UNCHANGED vars
    <2>1. UNCHANGED <<start, history, floor, safe, base, older, Lost>>
      BY <1>6 DEF vars, files, life, ghosts, Lost, OnDisk
    <2>. QED
      BY <1>3, <1>1, <2>1 DEF First
  <1>7. ASSUME UNCHANGED <<start, history, floor, safe>>, phase = "up", base' \in {base, Torn}, older' \subseteq older \cup {base, Torn}
        PROVE  SnapshotInv'
    BY <1>2, <1>5, <1>7
  <1>8. ASSUME NEW x \in Ids, NEW age \in Ages, UpdateState(x, age) PROVE SnapshotInv'
    <2>1. phase = "up" /\ Record(x, age, "ok") /\ UNCHANGED <<start, floor, safe, base, older>>
      BY <1>8 DEF UpdateState, Room, life, files, Answered
    <2>2. Len(history') = Len(history) + 1 /\ \A i \in 1 .. Len(history) : history'[i] = history[i]
      BY <2>1, Recorded
    <2>. QED
      BY <1>2, <1>5, <2>1, <2>2
  <1>9. ASSUME NEW x \in Ids, NEW age \in Ages, UpdateLogged(x, age) \/ AppendUnsynced(x, age) \/ UpdateEngine(x, age)
        PROVE  FALSE
    BY <1>1, <1>9 DEF UpdateLogged, AppendUnsynced, UpdateEngine, Logged
  <1>10. ASSUME NEW age \in Ages, UpdateUnknown(age) PROVE FALSE
    BY <1>1, <1>10 DEF UpdateUnknown
  <1>11. CASE SyncOk \/ SyncFails \/ AppendFails \/ Truncate \/ BeginFlush \/ WriteSst \/ WriteCount \/ ClearMemtable
    BY <1>1, <1>11 DEF SyncOk, SyncFails, AppendFails, Truncate, BeginFlush, WriteSst, WriteCount, ClearMemtable,
      Placed, Logged, Snapshots
  <1>12. CASE BeginCheckpoint
    <2>1. /\ UNCHANGED <<start, history, floor, safe>> /\ phase = "up" /\ base' = Torn
          /\ older' \subseteq older \cup {base, Torn}
      BY <1>12 DEF BeginCheckpoint, life, ghosts
    <2>. QED
      BY <1>7, <2>1
  <1>13. CASE WriteBase
    <2>1. /\ base' = Snapshot(0, ages) /\ floor' = Len(history) /\ phase = "up" /\ ~Lost /\ base'.ages = ages
          /\ UNCHANGED <<start, history, safe, older>>
      BY <1>1, <1>13 DEF WriteBase, life, Snapshot, Logged, Lost
    <2>2. ages = Updated(start, history, Oks(history))
      BY <1>1, <2>1, SeenIs DEF Parts
    <2>3. history \in Seq(Told) /\ \A i \in DOMAIN history : history[i].answer = "ok" \/ history[i].id = Unknown
      BY <1>1 DEF Typed, Placed, Logged
    <2>4. ages = First(Len(history))
      BY <2>2, <2>3, AllOks DEF First
    <2>5. PICK n \in Nat : n = Len(history)
      BY <1>2
    <2>6. base'.ages = First(n)' /\ n \in floor' .. Len(history') /\ n = floor'
      <3>1. First(n)' = First(n) /\ First(n) = First(Len(history))
        BY <2>1, <2>5 DEF First
      <3>. QED
        BY <2>1, <2>4, <2>5, <3>1
    <2>7. ASSUME NEW s \in older', s \in Covers PROVE \E k \in 0 .. floor' : s.ages = First(k)'
      <3>1. PICK k \in 0 .. floor : s.ages = First(k)
        BY <1>1, <2>1, <2>7
      <3>2. k \in 0 .. floor'
        BY <1>2, <2>1
      <3>3. First(k)' = First(k)
        BY <2>1 DEF First
      <3>. QED
        BY <3>1, <3>2, <3>3
    <2>. QED
      BY <1>3, <1>1, <2>1, <2>6, <2>7
  <1>14. CASE WriteFails
    BY <1>7, <1>14 DEF WriteFails, files, life, ghosts
  <1>15. CASE Kill
    BY <1>7, <1>15 DEF Kill, ghosts
  <1>16. CASE PowerLoss
    <2>1. /\ phase = "up" /\ scenario.power /\ base' \in older \cup {base} /\ older' = {base'} /\ floor' = safe
          /\ phase' = "down" /\ UNCHANGED <<scenario, start, history, safe>> /\ \E n \in synced .. Len(log) : log' = SubSeq(log, 1, n) /\ synced' = n
      BY <1>1, <1>16 DEF PowerLoss
    <2>2. ~Lost
      BY <2>1 DEF Lost
    <2>3. Lost'
      <3>1. synced' = Len(log')
        <4>1. Len(log) = 0 /\ synced \in Nat
          BY <1>1, Basics
        <4>2. PICK n \in synced .. Len(log) : log' = SubSeq(log, 1, n) /\ synced' = n
          BY <2>1
        <4>3. n = 0
          BY <4>1, <4>2
        <4>4. Len(log') = 0
          BY <4>2, <4>3
        <4>. QED
          BY <4>2, <4>3, <4>4
      <3>. QED
        BY <2>1, <3>1 DEF Lost, OnDisk
    <2>4. ASSUME base' \in Covers PROVE \E n \in floor' .. Len(history') : base'.ages = First(n)'
      <3>1. PICK n \in 0 .. floor : base'.ages = First(n)
        BY <1>4, <2>1, <2>2, <2>4
      <3>2. n \in floor' .. Len(history')
        BY <1>1, <1>2, <2>1
      <3>3. First(n)' = First(n)
        BY <2>1 DEF First
      <3>. QED
        BY <3>1, <3>2, <3>3
    <2>. QED
      BY <1>3, <1>1, <2>1, <2>3, <2>4
  <1>17. CASE Open
    <2>0. base' = base /\ older' = older /\ Openable /\ base # NoFile /\ base \in Covers /\ ~Lost'
      BY <1>17 DEF Open, files, Openable, Typed, Lost
    <2>1. CASE scenario.power /\ OnDisk
      <3>1. /\ start' = Recovered /\ history' = <<>> /\ floor' = 0 /\ safe' = 0 /\ older = {base}
            /\ Recovered = base.ages /\ base.ages \in [Ids -> Ages]
        BY <1>1, <1>17, <2>0, <2>1, RecoveredFile DEF Open, Parts, OnDisk
      <3>2. Updated(Recovered, history', 1 .. 0) = Recovered
        BY <3>1, FirstNone
      <3>3. base.ages = First(0)'
        BY <3>1, <3>2 DEF First
      <3>4. 0 \in floor' .. Len(history') /\ 0 \in 0 .. floor'
        BY <3>1
      <3>. QED
        BY <1>3, <2>0, <3>1, <3>3, <3>4
    <2>2. CASE ~(scenario.power /\ OnDisk)
      <3>1. start' = start /\ history' = Resumed /\ floor' = Len(Resumed) /\ safe' = safe /\ ~Lost
        BY <1>17, <2>2 DEF Open, Lost
      <3>2. Len(Resumed) = floor /\ \A i \in 1 .. floor : Resumed[i].id = history[i].id /\ Resumed[i].age = history[i].age
        BY <1>1, ResumedFacts
      <3>3. ASSUME NEW n \in 0 .. floor PROVE First(n)' = First(n)
        <4>1. n \in Nat /\ \A i \in 1 .. n : i \in 1 .. floor
          BY <1>2
        <4>. QED
          BY <3>1, <3>2, <4>1, FirstSame
      <3>4. PICK n \in 0 .. floor : n = floor
        BY <1>2
      <3>5. base.ages = First(n)
        BY <1>1, <2>0, <3>1, <3>4 DEF First
      <3>6. n \in floor' .. Len(history') /\ n = floor'
        BY <1>2, <3>1, <3>2, <3>4
      <3>7. base'.ages = First(n)'
        BY <2>0, <3>3, <3>5
      <3>8. ASSUME NEW s \in older', s \in Covers PROVE \E k \in 0 .. floor' : s.ages = First(k)'
        <4>1. PICK k \in 0 .. floor : s.ages = First(k)
          BY <1>1, <2>0, <3>1, <3>8
        <4>2. k \in 0 .. floor' /\ First(k)' = First(k)
          BY <3>1, <3>2, <3>3
        <4>. QED
          BY <4>1, <4>2
      <3>. QED
        BY <1>3, <1>1, <3>1, <3>6, <3>7, <3>8
    <2>. QED
      BY <2>1, <2>2
  <1>18. CASE OpenMisreads
    BY <1>18 DEF OpenMisreads, Sound
  <1>19. CASE OpenRefused
    BY <1>19 DEF OpenRefused
  <1>. QED
    BY <1>6, <1>8, <1>9, <1>10, <1>11, <1>12, <1>13, <1>14, <1>15, <1>16, <1>17, <1>18, <1>19 DEF Next

------------------------------------------------------------------------------
(* LsmStore's memtable and generations                                     *)

LEMMA NewestIn ==
  ASSUME NEW n \in Nat, NEW x, Stops(n, x) # {}
  PROVE  Newest(n, x) \in Stops(n, x) /\ \A h \in Stops(n, x) : h <= Newest(n, x)
  <1>1. Stops(n, x) \in SUBSET (0 .. n)
    BY DEF Stops
  <1>2. \E g \in Stops(n, x) : \A h \in Stops(n, x) : h <= g
    BY <1>1, GreatestOf
  <1>. QED
    BY <1>2 DEF Newest

\* Only the generations that are asked count.
LEMMA ResolvedSame ==
  ASSUME NEW t, NEW n \in Nat, \A g \in 1 .. n : ssts'[g] = ssts[g]
  PROVE  Resolved(t, n)' = Resolved(t, n)
  <1>1. ASSUME NEW x \in Ids PROVE Stops(n, x)' = Stops(n, x) /\ Newest(n, x)' = Newest(n, x)
    <2>1. Stops(n, x)' = Stops(n, x)
      BY DEF Stops
    <2>. QED
      BY <2>1 DEF Newest
  <1>2. ASSUME NEW x \in Ids, Stops(n, x) # {} PROVE ssts'[Newest(n, x)] = ssts[Newest(n, x)]
    <2>1. Newest(n, x) \in 1 .. n
      BY <1>2, NewestIn DEF Stops
    <2>. QED
      BY <2>1
  <1>3. \A x \in Ids :
          /\ (Stops(n, x)' = {}) = (Stops(n, x) = {})
          /\ Stops(n, x) # {} => ssts'[Newest(n, x)'] = ssts[Newest(n, x)]
    BY <1>1, <1>2
  <1>. HIDE DEF Stops, Newest
  <1>. QED
    BY <1>3 DEF Resolved

LEMMA UnderSame ==
  ASSUME NEW n \in Nat, Under(n), \A g \in 1 .. n : ssts'[g] = ssts[g], \A x \in Ids : Untold(x)' => Untold(x),
         start' = start
  PROVE  Under(n)'
  <1>1. Resolved(Empty, n)' = Resolved(Empty, n)
    BY ResolvedSame
  <1>. QED
    BY <1>1 DEF Under

\* The memtable as the newest generation adds nothing to what the log does not tell.
LEMMA UnderWritten ==
  ASSUME NEW n \in Nat, Under(n), \A g \in 1 .. n : ssts'[g] = ssts[g], NEW t, ssts'[n + 1] = t, t \notin Unread,
         \A x \in Ids : Untold(x)' => Untold(x) /\ x \notin DOMAIN t, start' = start
  PROVE  Under(n + 1)'
  <1>1. ASSUME NEW x \in Ids, x \notin DOMAIN t PROVE Resolved(Empty, n + 1)'[x] = Resolved(Empty, n)'[x]
    <2>1. Stops(n + 1, x)' = Stops(n, x)'
      <3>1. 1 .. n + 1 = 1 .. n \cup {n + 1}
        OBVIOUS
      <3>. QED
        BY <1>1, <3>1 DEF Stops
    <2>2. Newest(n + 1, x)' = Newest(n, x)'
      BY <2>1 DEF Newest
    <2>3. x \notin DOMAIN Empty
      BY EmptyTable
    <2>. HIDE DEF Stops, Newest
    <2>. QED
      BY <2>1, <2>2, <2>3 DEF Resolved
  <1>2. Resolved(Empty, n)' = Resolved(Empty, n)
    BY ResolvedSame
  <1>. QED
    BY <1>1, <1>2 DEF Under

\* A cleared memtable is the newest generation.
LEMMA UnderCleared ==
  ASSUME NEW n \in Nat, n # 0, ssts[n] = memtable, memtable \in Tables, memtable \notin Unread, ssts' = ssts,
         start' = Resolved(memtable, n)
  PROVE  Under(n)'
  <1>1. Resolved(Empty, n)' = Resolved(Empty, n)
    BY ResolvedSame
  <1>2. ASSUME NEW x \in Ids PROVE Resolved(Empty, n)[x] = Resolved(memtable, n)[x]
    <2>1. x \notin DOMAIN Empty
      BY EmptyTable
    <2>2. CASE x \in DOMAIN memtable
      <3>1. n \in Stops(n, x) /\ \A h \in Stops(n, x) : h \in Nat
        BY <2>2 DEF Stops
      <3>2. Newest(n, x) \in Nat /\ n <= Newest(n, x) /\ Newest(n, x) <= n
        BY <3>1, NewestIn DEF Stops
      <3>3. Newest(n, x) = n /\ Stops(n, x) # {}
        BY <3>1, <3>2
      <3>. HIDE DEF Newest, Stops
      <3>. QED
        BY <2>1, <2>2, <3>3 DEF Resolved
    <2>3. CASE x \notin DOMAIN memtable
      BY <2>1, <2>3 DEF Resolved
    <2>. QED
      BY <2>2, <2>3
  <1>. QED
    BY <1>1, <1>2 DEF Under

\* The table that the first L entries of e give.
TableOf(e, L) == [y \in {e[i].id : i \in 1 .. L} |-> Updated(Seed, e, 1 .. L)[y]]

\* d has one entry more than the first L of e.
Extends(d, e, L, x, age) ==
  /\ L \in Nat /\ x \in Ids /\ d[L + 1].id = x /\ d[L + 1].age = age
  /\ \A i \in 1 .. L : d[i] = e[i] /\ e[i].id \in Ids

\* One more entry is one more pair of the table.
LEMMA TableWith ==
  ASSUME NEW d, NEW e, NEW L, NEW x, NEW age, Extends(d, e, L, x, age)
  PROVE  TableOf(d, L + 1) = With(TableOf(e, L), x, age)
  <1>. USE DEF Extends
  <1>1. PICK A : A = 1 .. L
    OBVIOUS
  <1>2. PICK k \in Nat \ {0} : k = L + 1
    OBVIOUS
  <1>3. A \in SUBSET (1 .. k - 1) /\ 1 .. L + 1 = A \cup {k} /\ A \in SUBSET (1 .. L)
    BY <1>1, <1>2
  <1>4. Seed \in [Ids -> Ages]
    BY DurabilityAssumption
  <1>5. \A i \in A : d[i].id = e[i].id /\ d[i].age = e[i].age
    BY <1>1
  <1>6. Updated(Seed, d, A) = Updated(Seed, e, A)
    BY <1>3, <1>5, SameUpdates
  <1>7. Updated(Seed, d, A \cup {k}) = [Updated(Seed, d, A) EXCEPT ![x] = age]
    <2>1. Updated(Seed, d, A \cup {k}) =
            IF d[k].id \in Ids THEN [Updated(Seed, d, A) EXCEPT ![d[k].id] = d[k].age] ELSE Updated(Seed, d, A)
      BY <1>3, <1>4, OneMoreUpdate
    <2>. QED
      BY <1>2, <2>1
  <1>8. Updated(Seed, e, A) = [y \in Ids |-> Updated(Seed, e, A)[y]]
    BY <1>3, UpdatedGives
  <1>9. PICK f : f = Updated(Seed, e, A)
    OBVIOUS
  <1>10. PICK g : g = Updated(Seed, d, A \cup {k})
    OBVIOUS
  <1>11. g = [f EXCEPT ![x] = age] /\ f = [y \in Ids |-> f[y]]
    BY <1>6, <1>7, <1>8, <1>9, <1>10
  <1>12. \A y \in Ids : g[y] = IF y = x THEN age ELSE f[y]
    BY <1>11
  <1>13. {d[i].id : i \in A \cup {k}} = {e[i].id : i \in A} \cup {x} /\ \A i \in A : e[i].id \in Ids
    BY <1>1, <1>2
  <1>14. [y \in {d[i].id : i \in A \cup {k}} |-> g[y]] = With([y \in {e[i].id : i \in A} |-> f[y]], x, age)
    BY <1>12, <1>13 DEF With
  <1>. QED
    BY <1>1, <1>3, <1>9, <1>10, <1>14 DEF TableOf

\* A logged update is put into the memtable as every opening will put it.
LEMMA TableLogged ==
  ASSUME FilesInv, store = "lsm", store' = store, \A i \in DOMAIN log : log[i] # Torn, Room,
         NEW x \in Ids, NEW age \in Ages, log' = Append(log, Entry(nextSeq, x, age))
  PROVE  ReplayedTable' = With(ReplayedTable, x, age) /\ \A y \in Ids : Untold(y)' => Untold(y)
  <1>1. Entry(nextSeq, x, age) \in WalEntries /\ Entry(nextSeq, x, age).id = x /\ Entry(nextSeq, x, age).age = age
        /\ log' \in Seq(WalEntries \cup {Torn})
    BY Appended DEF Entry, FilesInv
  <1>2. /\ Len(Entries') = Len(Entries) + 1 /\ \A i \in 1 .. Len(Entries) : Entries'[i] = Entries[i]
        /\ Entries'[Len(Entries) + 1].id = x /\ Entries'[Len(Entries) + 1].age = age
    BY <1>1, EntriesAppended DEF FilesInv
  <1>3. Entries' \in Seq(WalEntries)
    BY <1>1, EntriesWhole, WholeFacts, Kinds
  <1>4. PICK L \in Nat : L = Len(Entries)
    BY Basics
  <1>5. DOMAIN Entries = 1 .. L /\ DOMAIN Entries' = 1 .. L + 1 /\ 1 .. L \subseteq 1 .. L + 1
    BY <1>2, <1>3, <1>4, EntriesTyped DEF FilesInv
  <1>6. \A i \in 1 .. L : Entries'[i] = Entries[i] /\ Entries[i].id \in Ids
    <2>1. \A i \in 1 .. L : /\ i \in DOMAIN log /\ Entries[i] = log[i] /\ Entries[i] # Torn
                            /\ Entries[i].id \in Ids \cup {Unknown}
      BY <1>4, EntriesTyped DEF FilesInv
    <2>2. \A i \in DOMAIN log : log[i] # Torn => log[i].id # Unknown
      BY DEF FilesInv, Placed
    <2>. QED
      BY <1>2, <1>4, <2>1, <2>2
  <1>7. Replayed = 1 .. L /\ Replayed' = 1 .. L + 1
    <2>1. Replayed = DOMAIN Entries /\ Replayed' = DOMAIN Entries'
      BY DEF Replayed
    <2>. QED
      BY <1>5, <2>1
  <1>. HIDE DEF Entries, Replayed
  <1>8. TableOf(Entries', L + 1) = With(TableOf(Entries, L), x, age)
    <2>1. Extends(Entries', Entries, L, x, age)
      BY <1>2, <1>4, <1>6 DEF Extends
    <2>. QED
      BY <2>1, TableWith
  <1>9. ReplayedTable = TableOf(Entries, L)
    BY <1>7 DEF ReplayedTable, Replay, TableOf
  <1>10. ReplayedTable' = TableOf(Entries', L + 1)
    BY <1>7 DEF ReplayedTable, Replay, TableOf
  <1>11. ASSUME NEW y \in Ids, Untold(y)' PROVE Untold(y)
    <2>1. \A i \in 1 .. L + 1 : Entries'[i].id # y
      BY <1>2, <1>4, <1>11 DEF Untold
    <2>. QED
      BY <1>4, <1>5, <1>6, <2>1 DEF Untold
  <1>. QED
    BY <1>8, <1>9, <1>10, <1>11

\* What the log does not tell is not in the table it gives.
LEMMA TableTold ==
  ASSUME FilesInv, store = "lsm", NEW x \in Ids, Untold(x)
  PROVE  x \notin DOMAIN ReplayedTable
  <1>1. Replayed \in SUBSET (1 .. Len(Entries))
    BY EntriesTyped DEF FilesInv
  <1>. HIDE DEF Entries, Replayed
  <1>. QED
    BY <1>1 DEF ReplayedTable, Untold

LEMMA LsmStep ==
  ASSUME FilesInv, PowerSafe, Parts, [Next]_vars, Shaped', Sound', phase' # "refused", ~Create, store = "lsm"
  PROVE  LsmInv'
  <1>. USE DEF FilesInv
  <1>1. /\ scenario' = scenario /\ store' = store /\ ~scenario.power /\ ~Lost /\ ~Lost'
        /\ store \in Logged /\ store \notin Snapshots /\ store # "redb" /\ store # "wal_fsync" /\ store \notin Checkpointing
    BY SameScenario, Stores DEF Lost, Logged, Snapshots, Checkpointing
  <1>2. /\ Follows(0)
        /\ phase = "up" => memtable = ReplayedTable
        /\ \A n \in Nat : (phase = "up" /\ n = generations) \/ (counted # Torn /\ n = Counted) => Under(n)
        /\ phase = "up" /\ counted # Torn => Counted <= generations
        /\ pc \in {"count", "clear"} => generations # 0 /\ ssts[generations] = memtable
        /\ pc = "clear" => counted = generations
    BY DEF Parts, LsmInv
  <1>3. LsmInv' <=>
        /\ Follows(0)'
        /\ phase' = "up" => memtable' = ReplayedTable'
        /\ \A n \in Nat : (phase' = "up" /\ n = generations') \/ (counted' # Torn /\ n = Counted') => Under(n)'
        /\ phase' = "up" /\ counted' # Torn => Counted' <= generations'
        /\ pc' \in {"count", "clear"} => generations' # 0 /\ ssts'[generations'] = memtable'
        /\ pc' = "clear" => counted' = generations'
    BY <1>1 DEF LsmInv
  <1>4. /\ MaxFlushes \in Nat /\ generations \in 0 .. MaxFlushes /\ memtable \in Tables /\ memtable \notin Unread
        /\ counted \in {NoFile, Torn} \cup 0 .. MaxFlushes /\ ssts \in [1 .. MaxFlushes -> Tables \cup Unread]
        /\ (counted # Torn => Counted \in Nat) /\ generations \in Nat
    <2>1. NoFile \notin Tables /\ Torn \notin Tables
      BY FileAssumption, Kinds DEF Tables
    <2>. QED
      BY <2>1, DurabilityAssumption DEF Typed, Unread, Counted
  <1>5. ASSUME Entries' = Entries, SameHistory, UNCHANGED <<start, floor, safe, synced, base>>
        PROVE  /\ Follows(0)' /\ ReplayedTable' = ReplayedTable /\ \A x \in Ids : Untold(x)' <=> Untold(x)
    <2>1. Follows(0)'
      BY <1>1, <1>2, <1>5, FollowsSame
    <2>2. Replayed' = Replayed
      BY <1>1, <1>5 DEF Replayed
    <2>. QED
      BY <1>5, <2>1, <2>2 DEF ReplayedTable, Replay, Untold
  <1>6. ASSUME Entries' = Entries, UNCHANGED <<start, history, floor, safe, synced, base, ssts, counted, generations, memtable>>,
               phase' \in {phase, "down"}, pc' \in {pc, "idle"}
        PROVE  LsmInv'
    <2>1. SameHistory
      BY <1>6 DEF SameHistory
    <2>2. /\ Follows(0)' /\ ReplayedTable' = ReplayedTable /\ \A x \in Ids : Untold(x)' <=> Untold(x)
      BY <1>5, <1>6, <2>1
    <2>3. ASSUME NEW n \in Nat, Under(n) PROVE Under(n)'
      BY <1>6, <2>2, <2>3, UnderSame
    <2>4. Counted' = Counted
      BY <1>6 DEF Counted
    <2>5. phase' = "up" => phase = "up"
      BY <1>6
    <2>6. \A n \in Nat : (phase' = "up" /\ n = generations') \/ (counted' # Torn /\ n = Counted') => Under(n)'
      BY <1>2, <1>6, <2>3, <2>4, <2>5
    <2>. QED
      BY <1>2, <1>3, <1>6, <2>2, <2>4, <2>5, <2>6
  <1>7. CASE UNCHANGED vars
    <2>1. Entries' = Entries
      BY <1>7 DEF vars, files, Entries
    <2>. QED
      BY <1>6, <1>7, <2>1 DEF vars, memory, files, tables, life, ghosts
  <1>8. ASSUME NEW x \in Ids, NEW age \in Ages, UpdateLogged(x, age) PROVE LsmInv'
    <2>1. /\ Room /\ phase = "up" /\ phase' = "up" /\ pc' = "idle" /\ log' = Append(log, Entry(nextSeq, x, age))
          /\ memtable' = With(memtable, x, age) /\ Record(x, age, "ok") /\ floor' = Len(history') /\ safe' = safe
          /\ UNCHANGED <<start, synced, base, ssts, counted, generations>>
      BY <1>1, <1>8 DEF UpdateLogged, AppendEntry, Answered, Room, life, tables
    <2>2. \A i \in DOMAIN log : log[i] # Torn
      BY <1>8 DEF UpdateLogged, AppendEntry, Sound, Behind
    <2>3. Follows(0)'
      BY <1>2, <2>1, <2>2, FollowsLogged
    <2>4. ReplayedTable' = With(ReplayedTable, x, age) /\ \A y \in Ids : Untold(y)' => Untold(y)
      BY <1>1, <2>1, <2>2, TableLogged
    <2>5. ASSUME NEW n \in Nat, Under(n) PROVE Under(n)'
      BY <2>1, <2>4, <2>5, UnderSame
    <2>6. Counted' = Counted
      BY <2>1 DEF Counted
    <2>7. \A n \in Nat : (phase' = "up" /\ n = generations') \/ (counted' # Torn /\ n = Counted') => Under(n)'
      BY <1>2, <2>1, <2>5, <2>6
    <2>. QED
      BY <1>2, <1>3, <2>1, <2>3, <2>4, <2>6, <2>7
  <1>9. ASSUME NEW x \in Ids, NEW age \in Ages, AppendUnsynced(x, age) \/ UpdateState(x, age) \/ UpdateEngine(x, age)
        PROVE  FALSE
    BY <1>1, <1>9 DEF AppendUnsynced, UpdateState, UpdateEngine
  <1>10. ASSUME NEW age \in Ages, UpdateUnknown(age) PROVE FALSE
    BY <1>10 DEF UpdateUnknown
  <1>11. CASE SyncOk \/ SyncFails \/ BeginCheckpoint \/ WriteBase \/ Truncate
    BY <1>1, <1>11 DEF SyncOk, SyncFails, BeginCheckpoint, WriteBase, Truncate, Placed
  <1>12. CASE AppendFails
    <2>1. Entries' = Entries
      BY <1>12, EntriesTorn DEF AppendFails
    <2>. QED
      BY <1>6, <1>12, <2>1 DEF AppendFails, memory, tables, life, ghosts
  <1>13. CASE WriteFails
    <2>1. Entries' = Entries
      BY <1>13 DEF WriteFails, files, Entries
    <2>. QED
      BY <1>6, <1>13, <2>1 DEF WriteFails, memory, files, tables, life, ghosts
  <1>14. CASE BeginFlush
    <2>1. /\ phase = "up" /\ phase' = "up" /\ pc' = "sst" /\ generations < MaxFlushes
          /\ ssts' = [ssts EXCEPT ![generations + 1] = Torn] /\ log' = log
          /\ UNCHANGED <<memory, log, start, history, floor, safe, synced, base, counted>>
      BY <1>14 DEF BeginFlush, life, ghosts
    <2>2. UNCHANGED <<memtable, generations>> /\ Counted' = Counted /\ Entries' = Entries /\ SameHistory
      BY <2>1 DEF memory, Counted, Entries, SameHistory
    <2>3. /\ Follows(0)' /\ ReplayedTable' = ReplayedTable /\ \A x \in Ids : Untold(x)' <=> Untold(x)
      BY <1>5, <2>1, <2>2
    <2>4. ASSUME NEW n \in Nat, Under(n), n <= generations PROVE Under(n)'
      <3>1. \A g \in 1 .. n : ssts'[g] = ssts[g]
        BY <1>4, <2>1, <2>4
      <3>. QED
        BY <2>1, <2>3, <2>4, <3>1, UnderSame
    <2>5. \A n \in Nat : (phase' = "up" /\ n = generations') \/ (counted' # Torn /\ n = Counted') => Under(n)'
      <3>1. generations <= generations
        BY <1>4
      <3>. QED
        BY <1>2, <2>1, <2>2, <2>4, <3>1
    <2>. QED
      BY <1>2, <1>3, <2>1, <2>2, <2>3, <2>5
  <1>15. CASE WriteSst
    <2>1. /\ phase = "up" /\ phase' = "up" /\ pc = "sst" /\ pc' = "count"
          /\ ssts' = [ssts EXCEPT ![generations + 1] = memtable] /\ generations' = generations + 1 /\ counted' = Torn
          /\ UNCHANGED <<memtable, log, start, history, floor, safe, synced, base>>
      BY <1>15 DEF WriteSst, life, ghosts
    <2>2. Entries' = Entries /\ SameHistory /\ generations < MaxFlushes
      BY <2>1 DEF Entries, SameHistory, Placed
    <2>3. /\ Follows(0)' /\ ReplayedTable' = ReplayedTable /\ \A x \in Ids : Untold(x)' <=> Untold(x)
      BY <1>5, <2>1, <2>2
    <2>4. PICK n \in Nat : n = generations
      BY <1>4
    <2>5. n + 1 \in 1 .. MaxFlushes /\ \A g \in 1 .. n : ssts'[g] = ssts[g]
      BY <1>4, <2>1, <2>2, <2>4
    <2>6. ssts'[n + 1] = memtable
      BY <1>4, <2>1, <2>4, <2>5
    <2>7. \A x \in Ids : Untold(x)' => Untold(x) /\ x \notin DOMAIN memtable
      BY <1>2, <2>1, <2>3, TableTold
    <2>8. Under(n)
      BY <1>2, <2>1, <2>4
    <2>9. Under(n + 1)'
      BY <1>4, <2>1, <2>5, <2>6, <2>7, <2>8, UnderWritten
    <2>10. n + 1 # 0 /\ generations' = n + 1
      BY <2>1, <2>4
    <2>. QED
      BY <1>2, <1>3, <2>1, <2>3, <2>6, <2>9, <2>10
  <1>16. CASE WriteCount
    <2>1. /\ phase = "up" /\ phase' = "up" /\ pc = "count" /\ pc' = "clear" /\ counted' = generations
          /\ UNCHANGED <<memory, log, start, history, floor, safe, synced, base, ssts>>
      BY <1>16 DEF WriteCount, life, ghosts
    <2>2. UNCHANGED <<memtable, generations>> /\ Entries' = Entries /\ SameHistory
      BY <2>1 DEF memory, Entries, SameHistory
    <2>3. /\ Follows(0)' /\ ReplayedTable' = ReplayedTable /\ \A x \in Ids : Untold(x)' <=> Untold(x)
      BY <1>5, <2>1, <2>2
    <2>4. Counted' = generations
      BY <1>4, <2>1, Kinds DEF Counted
    <2>5. ASSUME NEW n \in Nat, n = generations PROVE Under(n)'
      <3>1. Under(n)
        BY <1>2, <2>1, <2>5
      <3>. QED
        BY <2>1, <2>3, <3>1, UnderSame
    <2>. QED
      BY <1>2, <1>3, <1>4, <2>1, <2>2, <2>3, <2>4, <2>5
  <1>17. CASE ClearMemtable
    <2>1. /\ phase = "up" /\ phase' = "up" /\ pc = "clear" /\ pc' = "idle" /\ memtable' = Empty /\ log' = <<>> /\ synced' = 0
          /\ start' = Resolved(memtable, generations) /\ history' = <<>> /\ floor' = 0 /\ safe' = 0
          /\ UNCHANGED <<generations, base, ssts, counted>>
      BY <1>17 DEF ClearMemtable, EmptyLog, Current, tables
    <2>2. Entries' = <<>> /\ Len(Entries') = 0
      BY <2>1, EntriesEmpty
    <2>3. Follows(0)'
      <3>1. Len(history') = 0 /\ 0 + 0 <= 0 /\ 1 .. 0 - 0 = {}
        BY <2>1
      <3>. QED
        BY <2>1, <2>2, <3>1 DEF Follows
    <2>4. ReplayedTable' = Empty
      <3>1. Replayed' = {}
        BY <2>2 DEF Replayed
      <3>. QED
        BY <3>1 DEF ReplayedTable, Empty
    <2>5. Counted' = Counted /\ counted = generations /\ Counted = generations
      BY <1>2, <1>4, <2>1, Kinds DEF Counted
    <2>6. ASSUME NEW n \in Nat, n = generations PROVE Under(n)'
      BY <1>2, <1>4, <2>1, <2>6, UnderCleared
    <2>. QED
      BY <1>3, <1>4, <2>1, <2>3, <2>4, <2>5, <2>6
  <1>18. CASE Kill
    <2>1. log' = log \/ log' = Append(log, Torn)
      BY <1>18 DEF Kill
    <2>2. Entries' = Entries
      <3>1. CASE log' = log
        BY <3>1 DEF Entries
      <3>. QED
        BY <2>1, <3>1, EntriesTorn
    <2>. QED
      BY <1>6, <1>18, <2>2 DEF Kill, memory, tables, ghosts
  <1>19. CASE PowerLoss
    BY <1>1, <1>19 DEF PowerLoss
  <1>20. CASE Open
    <2>1. /\ phase = "down" /\ phase' = "up" /\ pc = "idle" /\ pc' = "idle" /\ Openable /\ memtable' = ReplayedTable
          /\ generations' = Counted /\ counted # Torn
          /\ start' = start /\ UNCHANGED <<log, base, ssts, counted>>
      BY <1>1, <1>20 DEF Open, Openable, files, tables, Placed
    <2>2. Follows(0)'
      BY <1>1, <1>2, <1>20, FollowsOpened
    <2>3. Entries' = Entries /\ Counted' = Counted
      BY <2>1 DEF Entries, Counted
    <2>4. ReplayedTable' = ReplayedTable /\ \A x \in Ids : Untold(x)' <=> Untold(x)
      <3>1. Replayed' = Replayed
        BY <1>1, <2>1, <2>3 DEF Replayed
      <3>. QED
        BY <2>3, <3>1 DEF ReplayedTable, Replay, Untold
    <2>5. ASSUME NEW n \in Nat, n = Counted PROVE Under(n)'
      <3>1. Under(n)
        BY <1>2, <2>1, <2>5
      <3>. QED
        BY <2>1, <2>4, <3>1, UnderSame
    <2>6. Counted <= Counted
      BY <1>4, <2>1
    <2>. QED
      BY <1>3, <2>1, <2>2, <2>3, <2>4, <2>5, <2>6
  <1>21. CASE OpenMisreads
    BY <1>21 DEF OpenMisreads, Sound
  <1>22. CASE OpenRefused
    BY <1>22 DEF OpenRefused
  <1>. QED
    BY <1>7, <1>8, <1>9, <1>10, <1>11, <1>12, <1>13, <1>14, <1>15, <1>16, <1>17, <1>18, <1>19, <1>20, <1>21,
       <1>22 DEF Next

------------------------------------------------------------------------------
(* A store that was just created                                           *)

Fresh ==
  /\ phase = "up" /\ pc = "idle" /\ ages = Seed /\ memtable = Empty /\ generations = 0 /\ nextSeq = 1
  /\ log = <<>> /\ synced = 0 /\ counted = NoFile /\ older = {NoFile}
  /\ base = (IF store = "redb" THEN Snapshot(0, Seed) ELSE NoFile)
  /\ start = Seed /\ history = <<>> /\ floor = 0 /\ safe = 0

LEMMA FreshParts == Fresh => Parts
  <1>. SUFFICES ASSUME Fresh PROVE Parts
    OBVIOUS
  <1>. USE DEF Fresh
  <1>1. Entries = <<>> /\ Len(Entries) = 0 /\ Len(history) = 0 /\ Len(log) = 0
    BY EntriesWhole, WholeEmpty
  <1>2. NoFile # Torn /\ NoFile \notin Covers /\ 1 .. 0 = {} /\ Updated(Seed, <<>>, {}) = Seed
    <2>1. Seed \in [Ids -> Ages]
      BY DurabilityAssumption
    <2>2. Updated(Seed, <<>>, {}) = Seed
      BY <2>1, UpdatedNone
    <2>. QED
      BY <2>2, Kinds
  <1>3. Replayed = {}
    BY <1>1 DEF Replayed
  <1>. HIDE DEF Entries, Replayed
  <1>4. Shaped
    BY <1>1 DEF Shaped
  <1>5. Follows(0)
    BY <1>1 DEF Follows
  <1>6. LogInv
    <2>1. ASSUME store \in LogStores PROVE Based(0)
      <3>1. base = NoFile /\ older \cup {base} = {NoFile}
        BY <2>1 DEF LogStores
      <3>2. Leads(NoFile, 0)
        <4>1. Cut(NoFile) = 0 /\ Held(NoFile) = Seed /\ 0 + 1 .. 0 = {}
          BY DEF Cut, Held
        <4>2. LeadsIn(NoFile, 0, Entries, start, history)
          BY <1>1, <1>2, <4>1 DEF LeadsIn
        <4>. QED
          BY <1>1, <4>1, <4>2 DEF Leads
      <3>. QED
        BY <1>2, <3>1, <3>2 DEF Based, Held
    <2>. QED
      BY <1>5, <2>1 DEF LogInv
  <1>7. LsmInv
    <2>1. ReplayedTable = Empty
      BY <1>3 DEF ReplayedTable, Empty
    <2>2. Counted = 0
      BY DEF Counted
    <2>3. Under(0)
      <3>1. \A x \in Ids : Stops(0, x) = {}
        BY <1>2 DEF Stops
      <3>2. \A x \in Ids : Resolved(Empty, 0)[x] = Seed[x]
        BY <3>1, EmptyTable DEF Resolved
      <3>. QED
        BY <3>2 DEF Under
    <2>. QED
      BY <1>5, <2>1, <2>2, <2>3 DEF LsmInv
  <1>8. First(0) = Seed
    BY <1>2 DEF First
  <1>9. SnapshotInv
    <2>1. ASSUME store \in Snapshots PROVE base \notin Covers
      BY <1>2, <2>1 DEF Snapshots
    <2>. QED
      BY <1>2, <2>1 DEF SnapshotInv
  <1>10. EngineInv
    BY <1>1, <1>8 DEF EngineInv, Snapshot
  <1>11. Seen
    <2>1. (1 .. 0) \ Unanswered = {}
      BY <1>2
    <2>. QED
      BY <1>1, <1>2, <2>1 DEF Seen, After
  <1>. QED
    BY <1>4, <1>6, <1>7, <1>9, <1>10, <1>11 DEF Parts

LEMMA FreshPartsNext == Fresh' => Parts'
  BY FreshParts, PTL

LEMMA StoryInit == Init => Story
  <1>1. Init => Fresh
    BY DEF Init, Fresh, store
  <1>. QED
    BY <1>1, FreshParts DEF Story

LEMMA CreateStory ==
  ASSUME FilesInv, Create, Sound'
  PROVE  Parts'
  <1>1. base = NoFile /\ counted = NoFile
    BY DEF Create, Sound
  <1>2. older = {NoFile} /\ store # "redb" /\ pc = "idle"
    BY <1>1, Kinds DEF FilesInv, Placed, Create
  <1>3. Fresh'
    BY <1>1, <1>2 DEF Create, Fresh, store, tables
  <1>. QED
    BY <1>3, FreshPartsNext

------------------------------------------------------------------------------
(* The invariant                                                           *)

LEMMA StoryStep ==
  ASSUME PowerSafe, FilesInv, FilesInv', Story, [Next]_vars
  PROVE  Story'
  <1>. SUFFICES ASSUME Sound', phase' # "refused" PROVE Parts'
    BY DEF Story
  <1>1. CASE Create
    BY <1>1, CreateStory
  <1>2. CASE ~Create
    <2>1. Parts
      BY <1>2, SoundBefore DEF Story
    <2>2. store' = store
      BY SameScenario
    <2>3. Shaped'
      BY <1>2, <2>1, ShapedStep DEF Parts
    <2>4. Seen'
      BY <1>2, <2>1, SeenStep
    <2>5. LogInv'
      <3>1. CASE store \in LogStores
        BY <1>2, <2>1, <2>3, <3>1, LogStep
      <3>. QED
        BY <2>2, <3>1 DEF LogInv
    <2>6. LsmInv'
      <3>1. CASE store = "lsm"
        BY <1>2, <2>1, <2>3, <3>1, LsmStep
      <3>. QED
        BY <2>2, <3>1 DEF LsmInv
    <2>7. SnapshotInv'
      <3>1. CASE store \in Snapshots
        BY <1>2, <2>1, <3>1, SnapshotStep
      <3>. QED
        BY <2>2, <3>1 DEF SnapshotInv
    <2>8. EngineInv'
      <3>1. CASE store = "redb"
        BY <1>2, <2>1, <2>4, <3>1, EngineStep
      <3>. QED
        BY <2>2, <3>1 DEF EngineInv
    <2>. QED
      BY <2>3, <2>4, <2>5, <2>6, <2>7, <2>8 DEF Parts
  <1>. QED
    BY <1>1, <1>2

\* Readers see what was answered, and what the files give is the state after some
\* first updates: every one of them, or those of the last checkpoint, or at least
\* the synced ones after a loss of power.
THEOREM RecoversPromisedHolds == ASSUME PowerSafe PROVE Spec => []RecoversPromised
  <1>1. Init => Story
    BY StoryInit
  <1>2. FilesInv /\ FilesInv' /\ Story /\ [Next]_vars => Story'
    BY StoryStep
  <1>3. FilesInv /\ Story => RecoversPromised
    BY FilesTyped, StoryTold
  <1>. QED
    BY <1>1, <1>2, <1>3, FilesInvariant, PTL DEF Spec

=============================================================================
