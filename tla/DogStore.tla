------------------------------ MODULE DogStore ------------------------------
(***************************************************************************)
(* ProductionStore over MmapAgeStore: the ages of a list of dogs in a      *)
(* mapped file, keyed by id, and the list itself in a companion blob.  The *)
(* caller of create and open brings its own list, in its own order, and    *)
(* open reconciles it with the file; open_portable takes the blob's.       *)
(* Operations hold one lock, so each is one step but for the file          *)
(* operations of create and open, between which the process may die.       *)
(***************************************************************************)
EXTENDS Naturals, FiniteSets, Sequences, Functions

CONSTANTS
  Ids, Ages,
  Lists,      \* the lists callers bring: sequences of [id, age], ids repeated or not
  MaxUpdates, MaxOpens,
  NoFile

Slot == [id : Ids, age : Ages]

ASSUME DogStoreAssumption ==
  /\ Lists \subseteq Seq(Slot) /\ NoFile \notin Seq(Slot)
  /\ MaxUpdates \in Nat /\ MaxOpens \in Nat

VARIABLES
  file,     \* the ages file: the committed slots in order, or NoFile
  blob,     \* the companion: the list it was written from, or NoFile
  list,     \* the records in memory
  position, \* position_index
  phase,    \* "down", "up", or the file operation create or open has yet to do
  unsynced, \* the ages each slot has held since the last flush
  allowed,  \* the ages a reader may find, by id
  told,     \* the list of the last create or open that returned
  cut,      \* whether a crash has fallen between its files since
  updates, opens

files  == <<file, blob, unsynced>>
memory == <<list, position>>
ghosts == <<allowed, told, cut>>
vars   == <<files, memory, phase, ghosts, updates, opens>>

Named(l) == {l[i].id : i \in DOMAIN l}
Live == Named(list)

\* Of slots with the same id, reading keeps the last.
SlotOf(f, x) == CHOOSE p \in DOMAIN f : f[p].id = x /\ \A q \in DOMAIN f : f[q].id = x => q <= p
Positions(f, ids) == [x \in ids |-> SlotOf(f, x)]
Slots(f) == [p \in DOMAIN f |-> {f[p].age}]
Given(l, x) == {l[i].age : i \in {j \in DOMAIN l : l[j].id = x}}

Init ==
  /\ file = NoFile /\ blob = NoFile /\ list = <<>> /\ position = <<>>
  /\ phase = "down" /\ unsynced = <<>>
  /\ allowed = [x \in Ids |-> {}] /\ told = NoFile /\ cut = FALSE
  /\ updates = 0 /\ opens = 0

-----------------------------------------------------------------------------
(* create                                                                  *)

\* write_fresh: the whole image, synced; a list's repeated ids all get slots.
CreateAges(l) ==
  /\ phase = "down" /\ opens < MaxOpens
  /\ file' = l /\ unsynced' = Slots(l)
  /\ list' = l /\ position' = Positions(l, Named(l))
  /\ allowed' = [x \in Ids |-> IF x \in Named(l) THEN Given(l, x) ELSE {}]
  /\ phase' = "create_blob" /\ opens' = opens + 1
  /\ UNCHANGED <<blob, told, cut, updates>>

-----------------------------------------------------------------------------
(* open                                                                    *)

\* Mutation: the caller's order is the file's.
ReconciledInOrder(l) ==
  [f |-> IF Named(l) \subseteq Named(file) THEN file ELSE l,
   p |-> [x \in Named(l) |-> CHOOSE i \in DOMAIN l : l[i].id = x]]

\* What MmapAgeStore::open leaves in the file, and where: if some record has no
\* slot the file is rewritten in the list's order, persisted ages first, and else
\* it is mapped as it is, with the slots of ids that are not in the list.
Reconciled(l) ==
  IF Named(l) \subseteq Named(file)
  THEN [f |-> file, p |-> Positions(file, Named(l))]
  ELSE LET g == [i \in DOMAIN l |->
                   [id |-> l[i].id,
                    age |-> IF l[i].id \in Named(file) THEN file[SlotOf(file, l[i].id)].age
                            ELSE l[i].age]]
       IN [f |-> g, p |-> Positions(g, Named(l))]

\* The blob's fingerprint covers the ids in their order, not the ages.
Fingerprint(l) == [i \in DOMAIN l |-> l[i].id]
\* Mutation: only the count is compared.
IsCurrentCounted(l) == blob # NoFile /\ Len(blob) = Len(l)
IsCurrent(l) == blob # NoFile /\ Fingerprint(blob) = Fingerprint(l)

\* A reader may find the age a record had in the file; of a record that was not in
\* the list before, also the age its caller gives.
Allowing(l) ==
  [x \in Ids |->
     IF x \notin Named(l) THEN allowed[x]
     ELSE IF told # NoFile /\ x \in Named(told) /\ ~cut THEN allowed[x]
     ELSE allowed[x] \cup Given(l, x)]

Reopen(l) ==
  LET r == Reconciled(l) IN
  /\ phase = "down" /\ file # NoFile /\ opens < MaxOpens
  /\ file' = r.f /\ unsynced' = IF r.f = file THEN unsynced ELSE Slots(r.f)
  /\ list' = l /\ position' = r.p /\ allowed' = Allowing(l)
  /\ opens' = opens + 1 /\ UNCHANGED <<blob, updates>>

\* open writes the blob last, and only if its fingerprint differs.
OpenAges(l) ==
  /\ Reopen(l)
  /\ IF IsCurrent(l) THEN phase' = "up" /\ told' = l /\ cut' = FALSE
     ELSE phase' = "open_blob" /\ UNCHANGED <<told, cut>>

\* Encoded before the file was opened, renamed into place after.
WriteBlob ==
  /\ phase \in {"create_blob", "open_blob"}
  /\ blob' = list /\ phase' = "up" /\ told' = list /\ cut' = FALSE
  /\ UNCHANGED <<file, unsynced, memory, allowed, updates, opens>>

OpenPortable ==
  /\ blob # NoFile /\ Reopen(blob)
  /\ phase' = "up" /\ told' = blob /\ cut' = FALSE

-----------------------------------------------------------------------------
(* Operations                                                              *)

\* update_age writes into the mapping.
UpdateAge(x, a) ==
  /\ phase = "up" /\ x \in Live /\ updates < MaxUpdates
  /\ file' = [file EXCEPT ![position[x]].age = a]
  /\ unsynced' = [unsynced EXCEPT ![position[x]] = @ \cup {a}]
  /\ allowed' = [allowed EXCEPT ![x] = {a}] /\ updates' = updates + 1
  /\ UNCHANGED <<blob, memory, phase, told, cut, opens>>

\* msync.
Flush ==
  /\ phase = "up" /\ unsynced' = Slots(file)
  /\ UNCHANGED <<file, blob, memory, phase, ghosts, updates, opens>>

Get(x) == file[position[x]].age

Ascending(S) == CHOOSE s \in [1 .. Cardinality(S) -> S] : \A i, j \in DOMAIN s : i < j => s[i] < s[j]

\* scan_ages: all slots if is_gapless, else those of the records, in order.
Scan ==
  IF Cardinality(DOMAIN position) = Len(file) THEN [p \in DOMAIN file |-> file[p].age]
  ELSE LET at == Ascending(Range(position)) IN [i \in DOMAIN at |-> file[at[i]].age]

Kill ==
  /\ phase # "down" /\ phase' = "down"
  /\ cut' = (cut \/ phase \in {"create_blob", "open_blob"})
  /\ list' = <<>> /\ position' = <<>>
  /\ UNCHANGED <<files, allowed, told, updates, opens>>

\* Each slot is written back, or not, by itself; the process may be dead already.
PowerLoss ==
  /\ file # NoFile /\ phase' = "down"
  /\ cut' = (cut \/ phase \in {"create_blob", "open_blob"})
  /\ \E kept \in [DOMAIN file -> Ages] :
       /\ \A p \in DOMAIN file : kept[p] \in unsynced[p]
       /\ file' = [p \in DOMAIN file |-> [file[p] EXCEPT !.age = kept[p]]]
  /\ unsynced' = Slots(file')
  /\ allowed' = [x \in Ids |-> IF x \in Named(file) THEN allowed[x] \cup unsynced[SlotOf(file, x)]
                               ELSE allowed[x]]
  /\ list' = <<>> /\ position' = <<>>
  /\ UNCHANGED <<blob, told, updates, opens>>

Next ==
  \/ \E l \in Lists : CreateAges(l) \/ OpenAges(l)
  \/ WriteBlob \/ OpenPortable \/ Flush \/ Kill \/ PowerLoss
  \/ \E x \in Ids, a \in Ages : UpdateAge(x, a)

Spec == Init /\ [][Next]_vars

-----------------------------------------------------------------------------
(* Properties                                                              *)

TypeOK ==
  /\ file = NoFile \/ \A p \in DOMAIN file : file[p] \in Slot
  /\ blob \in Lists \cup {NoFile} /\ told \in Lists \cup {NoFile} /\ list \in Lists \cup {<<>>}
  /\ DOMAIN position = Live /\ (file # NoFile => DOMAIN unsynced = DOMAIN file)
  /\ phase \in {"down", "up", "create_blob", "open_blob"}
  /\ allowed \in [Ids -> SUBSET Ages] /\ cut \in BOOLEAN
  /\ updates \in 0 .. MaxUpdates /\ opens \in 0 .. MaxOpens

\* In whatever order a list comes, and whatever was dropped, added or repeated in
\* it, each dog has its own age, the last that was written for it; and a scan
\* returns each live dog's age once ("persisted values are keyed by record
\* identity, not array position").
AgesByIdentity ==
  TypeOK /\ (phase = "up" =>
    /\ \A x \in Live : file[position[x]].id = x /\ Get(x) \in allowed[x]
    /\ \A a \in Ages : Cardinality({i \in DOMAIN Scan : Scan[i] = a})
                       = Cardinality({x \in Live : Get(x) = a}))

\* The two files make a portable pair: open_portable finds the dogs of the last
\* create or open that returned, each with its age in the file, unless a crash has
\* fallen between the two files of a later one.
PortablePair ==
  phase = "down" /\ told # NoFile /\ ~cut =>
    Fingerprint(blob) = Fingerprint(told) /\ Named(blob) \subseteq Named(file)
=============================================================================
