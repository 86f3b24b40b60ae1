----------------------- MODULE TransactionAdapterProofs -----------------------
(***************************************************************************)
(* Transactions against one table, for any programs of any clients, any     *)
(* crashes and any checkpoint threshold.  BaseInv says where each actor, the *)
(* lock, the journal and the stamps of the history can be.  What the table   *)
(* promises its clients follows in the second part: a section for each       *)
(* property, with an invariant that is inductive relative to BaseInv.        *)
(***************************************************************************)
EXTENDS TransactionAdapter, TLAPS, FiniteSetTheorems

------------------------------------------------------------------------------
(* The base invariant                                                      *)

PCs     == {"read", "call", "validate", "journal", "turn", "apply", "leave", "done"}
Answers == {"none", "ok", "not_found", "duplicate", "conflict", "journal"}
Phases  == {"up", "replay", "broken"}
Ordered == {b \in Actors : order[b] > 0}
Entries == {journal[i] : i \in DOMAIN journal}

StateTypes ==
  /\ scenario \in Scenarios
  /\ table \in [Ids -> Values] /\ disk \in [Ids -> SUBSET Values]
  /\ \A x \in Ids : table[x] \in disk[x]
  /\ journal \in Seq(Txs) /\ turn \in 0 .. Len(journal)
  /\ phase \in Phases /\ replayed \in Nat /\ crashes \in Nat
  /\ order \in [Actors -> Nat] /\ first \in [Actors -> Nat]

ActorTypes ==
  /\ pc \in [Actors -> PCs] /\ answer \in [Actors -> Answers]
  /\ at \in [Actors -> Nat] /\ \A a \in Actors : at[a] \in 1 .. Len(Program[a].ids)
  /\ reads = [a \in Actors |-> reads[a]]
  /\ \A a \in Actors : DOMAIN reads[a] \subseteq Ids /\ reads[a] \in [DOMAIN reads[a] -> Values]

\* What the place of a call says of it.
ControlOf(a) ==
  /\ pc[a] \in {"apply", "leave"} => locked = {a}
  /\ pc[a] \notin {"call", "done"} => a \in Txs
  /\ pc[a] = "call" => a \notin Txs
  /\ pc[a] \in {"journal", "turn"} => Journaled
  /\ pc[a] # "done" => answer[a] = "none"
  /\ pc[a] \notin {"validate", "apply", "leave", "done"} => at[a] = 1
  /\ pc[a] = "validate" /\ ~Journaled => at[a] = 1
  /\ pc[a] = "leave" => at[a] = Len(Program[a].ids)
  /\ phase # "up" => pc[a] \in {"read", "call", "done"} /\ DOMAIN reads[a] = {}

LockInv ==
  locked = {} \/ \E a \in Txs : locked = {a} /\ pc[a] \in {"apply", "leave"}

ControlInv == LockInv /\ \A a \in Actors : ControlOf(a)

\* Each batch is in the journal once; those up to the turn are done, and those in the
\* gate and in the section are behind it.
EntryOf(i) ==
  /\ pc[journal[i]] \in {"turn", "apply", "leave", "done"}
  /\ phase = "up" /\ i <= turn => pc[journal[i]] = "done"
  /\ phase = "up" /\ i > turn => answer[journal[i]] \in {"none", "journal"}

EntriesInv ==
  /\ ~Journaled => journal = <<>>
  /\ \A i, j \in DOMAIN journal : journal[i] = journal[j] => i = j
  /\ \A i \in DOMAIN journal : EntryOf(i)
  /\ phase = "replay" => replayed <= Len(journal)

GateOf(a) ==
  Journaled =>
    /\ pc[a] = "turn" => \E i \in DOMAIN journal : i > turn /\ journal[i] = a
    /\ pc[a] \in {"apply", "leave"} => turn < Len(journal) /\ journal[turn + 1] = a

JournalInv == EntriesInv /\ \A a \in Actors : GateOf(a)

\* An actor that has not written yet is nowhere to be seen; one that is applying is
\* where it has been.
Waiting == {"read", "call", "validate", "journal", "turn"}
FreshOf(a) ==
  pc[a] \in Waiting =>
    /\ order[a] = 0
    /\ \A x \in Ids : a \notin disk[x]
    /\ \A b \in Actors : \A y \in DOMAIN reads[b] : reads[b][y] # a
AppliedOf(a) ==
  pc[a] \in {"apply", "leave"} =>
    /\ \A i \in 1 .. Len(Program[a].ids) :
         i < at[a] \/ pc[a] = "leave" => table[Program[a].ids[i]] = a
    /\ \A x \in Ids : table[x] = a => x \in WrittenBy(a)
    /\ ~Journaled => \A x \in WrittenBy(a) : table[x] # Absent
FreshInv == \A a \in Actors : FreshOf(a) /\ AppliedOf(a)

\* The stamps of the history: numbered from 1, no two alike.
OrderInv ==
  /\ \A a \in Actors : /\ order[a] <= Cardinality(Ordered) /\ first[a] <= Cardinality(Ordered)
                       /\ first[a] > 0 <=> order[a] > 0
  /\ \A a, b \in Ordered : order[a] = order[b] => a = b

BaseInv == StateTypes /\ ActorTypes /\ ControlInv /\ JournalInv /\ FreshInv /\ OrderInv


\* What no step of one life of the adapter touches, and the shape of the journal.
Steady ==
  /\ scenario' = scenario /\ scenario \in Scenarios
  /\ Actors' = Actors /\ Program' = Program /\ Txs' = Txs /\ Values' = Values
  /\ Journaled' = Journaled /\ \A b : WrittenBy(b)' = WrittenBy(b)
  /\ Len(journal) \in Nat /\ turn \in Nat /\ turn <= Len(journal)
  /\ DOMAIN journal = 1 .. Len(journal)
  /\ \A i \in 1 .. Len(journal) : journal[i] \in Txs /\ journal[i] \in Actors

OpId(a)   == Program[a].ids[at[a]]
Ops(a)    == Len(Program[a].ids)
Pending   == journal[replayed + 1]
Rewritten == {Program[Pending].ids[i] : i \in Reached(Pending)}

LEMMA ProgramFacts ==
  ASSUME scenario \in Scenarios
  PROVE  /\ IsFiniteSet(Actors) /\ Absent \notin Actors /\ Original \notin Actors
         /\ Absent # Original /\ Loaded \subseteq Ids
         /\ \A a \in Actors :
              /\ Program[a].ids \in Seq(Ids) /\ Len(Program[a].ids) \in Nat \ {0}
              /\ a \in Txs \/ Len(Program[a].ids) = 1
              /\ Program[a].reads \subseteq Ids
              /\ Target(a) \in WrittenBy(a) /\ WrittenBy(a) \subseteq Ids
              /\ a \notin Txs => WrittenBy(a) = {Target(a)}
              /\ \A i \in DOMAIN Program[a].ids : Program[a].ids[i] \in WrittenBy(a)
<1>1. IsScenario(scenario) /\ Absent # Original /\ Loaded \subseteq Ids
  BY ScenarioAssumption
<1>2. ASSUME NEW a \in Actors
      PROVE  /\ Program[a].ids \in Seq(Ids) /\ Program[a].ids # <<>>
             /\ a \notin {Absent, Original} /\ Program[a].reads \subseteq Ids
             /\ Program[a].kind # "tx" => Len(Program[a].ids) = 1
  BY <1>1 DEF IsScenario, Actors, Program
<1>3. IsFiniteSet(Actors)
  BY <1>1 DEF IsScenario, Actors, Program
<1>4. ASSUME NEW a \in Actors
      PROVE  /\ Len(Program[a].ids) \in Nat \ {0}
             /\ a \in Txs \/ Len(Program[a].ids) = 1
             /\ Target(a) \in WrittenBy(a) /\ WrittenBy(a) \subseteq Ids
             /\ a \notin Txs => WrittenBy(a) = {Target(a)}
             /\ \A i \in DOMAIN Program[a].ids : Program[a].ids[i] \in WrittenBy(a)
  <2> DEFINE ids == Program[a].ids
  <2>1. ids \in Seq(Ids) /\ ids # <<>>
    BY <1>2
  <2>2. Len(ids) \in Nat \ {0} /\ DOMAIN ids = 1 .. Len(ids) /\ \A i \in 1 .. Len(ids) : ids[i] \in Ids
    BY <2>1
  <2>3. a \in Txs \/ Len(ids) = 1
    BY <1>2 DEF Txs
  <2> HIDE DEF ids
  <2>4. WrittenBy(a) = {ids[i] : i \in 1 .. Len(ids)} /\ Target(a) = ids[1]
    BY <2>2 DEF WrittenBy, Target, ids
  <2> QED BY <2>2, <2>3, <2>4 DEF ids
<1> QED BY <1>1, <1>2, <1>3, <1>4

LEMMA FixedProgram ==
  ASSUME scenario' = scenario
  PROVE  /\ Actors' = Actors /\ Program' = Program /\ Txs' = Txs /\ Values' = Values
         /\ Journaled' = Journaled
         /\ \A a : WrittenBy(a)' = WrittenBy(a) /\ Effect(a)' = Effect(a) /\ Target(a)' = Target(a)
  BY DEF Actors, Program, Txs, Values, Journaled, WrittenBy, Effect, Target

\* The journal is a sequence of transactions.
LEMMA JournalFacts ==
  ASSUME StateTypes
  PROVE  /\ Len(journal) \in Nat /\ turn \in Nat /\ turn <= Len(journal)
         /\ DOMAIN journal = 1 .. Len(journal)
         /\ \A i \in 1 .. Len(journal) : journal[i] \in Txs /\ journal[i] \in Actors
  BY DEF StateTypes, Txs

\* Every step leaves the scenario as it is.
LEMMA SteadyFacts == ASSUME BaseInv, scenario' = scenario PROVE Steady
  BY FixedProgram, JournalFacts DEF BaseInv, StateTypes, Steady

LEMMA StampFacts ==
  ASSUME scenario \in Scenarios, scenario' = scenario, OrderInv,
         order \in [Actors -> Nat], first \in [Actors -> Nat], NEW a \in Actors, Stamp(a)
  PROVE  /\ order' \in [Actors -> Nat] /\ first' \in [Actors -> Nat] /\ OrderInv'
         /\ order'[a] > 0 /\ first'[a] > 0
         /\ \A b \in Actors : order'[b] <= order'[a]
         /\ \A b, c \in Actors \ {a} : order[b] <= order[c] => order'[b] <= order'[c]
         /\ \A b \in Actors \ {a} : first'[b] = first[b] /\ (order[b] = 0 => order'[b] = 0)
         /\ IF first[a] > 0 THEN first' = first ELSE \A b \in Actors \ {a} : first[b] < first'[a]
<1> DEFINE others == Ordered \ {a}
           now    == 1 + Cardinality(others)
<1>1. IsFiniteSet(Ordered) /\ Cardinality(Ordered) \in Nat /\ others = {b \in Actors : order[b] > 0 /\ b # a}
  <2>1. IsFiniteSet(Actors) /\ Ordered \subseteq Actors
    BY ProgramFacts DEF Ordered
  <2> QED BY <2>1, FS_Subset, FS_CardinalityType DEF Ordered
<1>2. /\ IsFiniteSet(others) /\ now \in Nat \ {0}
      /\ Cardinality(Ordered) = IF order[a] > 0 THEN now ELSE now - 1
  <2>1. IsFiniteSet(others) /\ Cardinality(others) = IF a \in Ordered THEN Cardinality(Ordered) - 1 ELSE Cardinality(Ordered)
    BY <1>1, FS_RemoveElement
  <2>2. Cardinality(others) \in Nat
    BY <2>1, FS_CardinalityType
  <2> QED BY <2>1, <2>2, <1>1 DEF Ordered
<1>3. order' = [b \in Actors |-> IF b = a THEN now
                                 ELSE IF order[a] > 0 /\ order[b] > order[a]
                                 THEN order[b] - 1 ELSE order[b]]
      /\ first' = [first EXCEPT ![a] = IF @ = 0 THEN now ELSE @]
  <2>1. others = {b \in Actors : order[b] > 0 /\ b # a}
    BY <1>1
  <2> QED BY <2>1 DEF Stamp
<1> HIDE DEF now, others
<1>4. order' \in [Actors -> Nat] /\ first' \in [Actors -> Nat]
  BY <1>2, <1>3
<1>5. Actors' = Actors
  BY FixedProgram
<1>6. Ordered' = others \cup {a} /\ Cardinality(Ordered') = now
  <2>1. a \notin others /\ others = Ordered \ {a}
    BY DEF others
  <2>2. Ordered' = others \cup {a}
    BY <1>2, <1>3, <1>5, <2>1 DEF Ordered
  <2>3. Cardinality(others \cup {a}) = Cardinality(others) + 1
    BY <1>2, <2>1, FS_AddElement
  <2>4. Cardinality(others) \in Nat
    BY <1>2, FS_CardinalityType
  <2> QED BY <2>2, <2>3, <2>4 DEF now
<1>7. \A b \in Actors : order[b] <= Cardinality(Ordered) /\ first[b] <= Cardinality(Ordered)
                        /\ (first[b] > 0 <=> order[b] > 0)
  BY DEF OrderInv
<1>8. \A b, c \in Actors : order[b] > 0 /\ order[b] = order[c] => b = c
  BY DEF OrderInv, Ordered
<1>9. \A b \in Actors : order'[b] <= now /\ first'[b] <= now /\ (first'[b] > 0 <=> order'[b] > 0)
  BY <1>2, <1>3, <1>7, <1>8
<1>10. \A b, c \in Actors : order'[b] > 0 /\ order'[b] = order'[c] => b = c
  BY <1>2, <1>3, <1>7, <1>8
<1>11. OrderInv'
  BY <1>5, <1>6, <1>9, <1>10 DEF OrderInv, Ordered
<1>12. IF first[a] > 0 THEN first' = first ELSE \A b \in Actors \ {a} : first[b] < first'[a]
  BY <1>2, <1>3, <1>7
<1> QED BY <1>2, <1>3, <1>4, <1>7, <1>8, <1>9, <1>11, <1>12

\* A refused call keeps the base invariant.
LEMMA CallRefusedBase ==
  ASSUME BaseInv, NEW a \in Actors, CallRefused(a)
  PROVE  BaseInv'
<1> USE DEF BaseInv, Steady, CallRefused, CallRest, Answer, Free, histVars, lifeVars
<1>0. Steady
  BY SteadyFacts
<1>1. StateTypes'
  BY <1>0, ProgramFacts DEF StateTypes, ActorTypes, LockInv, ControlOf, ControlInv, JournalInv, EntriesInv, GateOf, Phases
<1>2. ActorTypes'
  BY <1>0, ProgramFacts DEF StateTypes, ActorTypes, ControlInv, LockInv, ControlOf, PCs, Answers
<1>3. LockInv'
  BY <1>0 DEF StateTypes, ActorTypes, ControlInv, LockInv, ControlOf
<1>4. ASSUME NEW b \in Actors PROVE ControlOf(b)'
  BY <1>0 DEF StateTypes, ActorTypes, ControlInv, LockInv, ControlOf
<1>5. (~Journaled => journal = <<>>)'
  BY <1>0 DEF ControlInv, ControlOf, JournalInv, EntriesInv
<1>6. (\A i, j \in DOMAIN journal : journal[i] = journal[j] => i = j)'
  BY <1>0 DEF JournalInv, EntriesInv
<1>7. ASSUME NEW i \in DOMAIN journal' PROVE EntryOf(i)'
  BY <1>0 DEF StateTypes, ActorTypes, ControlInv, LockInv, ControlOf, JournalInv, EntriesInv, EntryOf, GateOf
<1>8. (phase = "replay" => replayed <= Len(journal))'
  BY <1>0 DEF StateTypes, JournalInv, EntriesInv
<1>9. ASSUME NEW b \in Actors PROVE GateOf(b)'
  BY <1>0 DEF StateTypes, ActorTypes, ControlInv, LockInv, ControlOf, JournalInv, EntriesInv, EntryOf, GateOf
<1>10. ASSUME NEW b \in Actors PROVE FreshOf(b)'
  BY <1>0 DEF StateTypes, ActorTypes, FreshInv, FreshOf, Waiting
<1>11. ASSUME NEW b \in Actors PROVE AppliedOf(b)'
  BY <1>0, ProgramFacts DEF StateTypes, ActorTypes, ControlInv, LockInv, ControlOf, FreshInv, AppliedOf, FreshOf, Waiting
<1>12. OrderInv'
  BY <1>0 DEF OrderInv, Ordered
<1> QED
  BY <1>0, <1>1, <1>2, <1>3, <1>4, <1>5, <1>6, <1>7, <1>8, <1>9, <1>10, <1>11, <1>12
  DEF ControlInv, JournalInv, EntriesInv, FreshInv

\* A read of a session keeps the base invariant.
LEMMA ReadBase ==
  ASSUME BaseInv, NEW a \in Actors, Read(a)
  PROVE  BaseInv'
<1> USE DEF BaseInv, Steady, Read, Free, histVars, lifeVars
<1>0. Steady
  BY SteadyFacts
<1>00. /\ reads' = [b \in Actors |-> IF b = a THEN reads'[a] ELSE reads[b]]
       /\ DOMAIN reads'[a] \subseteq Ids /\ reads'[a] \in [DOMAIN reads'[a] -> Values]
       /\ \A y \in DOMAIN reads'[a] : reads'[a][y] \in {table[x] : x \in Ids} \cup {reads[a][x] : x \in DOMAIN reads[a]}
  <2>1. PICK x \in Program[a].reads : reads' = [reads EXCEPT ![a] = [y \in DOMAIN reads[a] \cup {x} |-> IF y = x THEN table[x] ELSE reads[a][y]]]
    OBVIOUS
  <2>2. x \in Ids /\ table[x] \in Values
    BY <1>0, ProgramFacts DEF StateTypes
  <2> DEFINE new == [y \in DOMAIN reads[a] \cup {x} |-> IF y = x THEN table[x] ELSE reads[a][y]]
  <2>3. new \in [DOMAIN new -> Values] /\ DOMAIN new \subseteq Ids
    BY <2>2 DEF ActorTypes
  <2>4. \A y \in DOMAIN new : new[y] \in {table[z] : z \in Ids} \cup {reads[a][z] : z \in DOMAIN reads[a]}
    BY <2>2
  <2>5. reads' = [b \in Actors |-> IF b = a THEN new ELSE reads[b]]
    BY <2>1 DEF ActorTypes
  <2> HIDE DEF new
  <2> QED BY <2>3, <2>4, <2>5
<1>1. StateTypes'
  BY <1>0, <1>00, ProgramFacts DEF StateTypes, ActorTypes, LockInv, ControlOf, ControlInv, JournalInv, EntriesInv, GateOf, Phases
<1>2. ActorTypes'
  BY <1>0, <1>00 DEF ActorTypes
<1>3. LockInv'
  BY <1>0, <1>00 DEF StateTypes, ActorTypes, ControlInv, LockInv, ControlOf
<1>4. ASSUME NEW b \in Actors PROVE ControlOf(b)'
  BY <1>0, <1>00 DEF StateTypes, ActorTypes, ControlInv, LockInv, ControlOf
<1>5. (~Journaled => journal = <<>>)'
  BY <1>0, <1>00 DEF ControlInv, ControlOf, JournalInv, EntriesInv
<1>6. (\A i, j \in DOMAIN journal : journal[i] = journal[j] => i = j)'
  BY <1>0, <1>00 DEF JournalInv, EntriesInv
<1>7. ASSUME NEW i \in DOMAIN journal' PROVE EntryOf(i)'
  BY <1>0, <1>00 DEF StateTypes, ActorTypes, ControlInv, LockInv, ControlOf, JournalInv, EntriesInv, EntryOf, GateOf
<1>8. (phase = "replay" => replayed <= Len(journal))'
  BY <1>0, <1>00 DEF StateTypes, JournalInv, EntriesInv
<1>9. ASSUME NEW b \in Actors PROVE GateOf(b)'
  BY <1>0, <1>00 DEF StateTypes, ActorTypes, ControlInv, LockInv, ControlOf, JournalInv, EntriesInv, EntryOf, GateOf
<1>10. ASSUME NEW b \in Actors PROVE FreshOf(b)'
  BY <1>0, <1>00 DEF StateTypes, ActorTypes, FreshInv, FreshOf, Waiting
<1>11. ASSUME NEW b \in Actors PROVE AppliedOf(b)'
  BY <1>0, <1>00, ProgramFacts DEF StateTypes, ActorTypes, ControlInv, LockInv, ControlOf, FreshInv, AppliedOf, FreshOf, Waiting
<1>12. OrderInv'
  BY <1>0, <1>00 DEF OrderInv, Ordered
<1> QED
  BY <1>0, <1>1, <1>2, <1>3, <1>4, <1>5, <1>6, <1>7, <1>8, <1>9, <1>10, <1>11, <1>12
  DEF ControlInv, JournalInv, EntriesInv, FreshInv

\* Commit keeps the base invariant.
LEMMA CommitBase ==
  ASSUME BaseInv, NEW a \in Actors, Commit(a)
  PROVE  BaseInv'
<1> USE DEF BaseInv, Steady, Commit, histVars, lifeVars
<1>0. Steady
  BY SteadyFacts
<1>1. StateTypes'
  BY <1>0, ProgramFacts DEF StateTypes, ActorTypes, LockInv, ControlOf, ControlInv, JournalInv, EntriesInv, GateOf, Phases
<1>2. ActorTypes'
  BY <1>0, ProgramFacts DEF StateTypes, ActorTypes, ControlInv, LockInv, ControlOf, PCs, Answers
<1>3. LockInv'
  <2>1. CASE locked = {}
    BY <2>1, <1>0 DEF LockInv
  <2>2. CASE locked # {}
    <3>1. PICK h \in Txs : locked = {h} /\ pc[h] \in {"apply", "leave"}
      BY <2>2 DEF ControlInv, LockInv
    <3>2. h \in Actors /\ h # a /\ pc'[h] = pc[h]
      BY <3>1 DEF Txs, ActorTypes
    <3> QED BY <3>1, <3>2, <1>0 DEF LockInv
  <2> QED BY <2>1, <2>2
<1>4. ASSUME NEW b \in Actors PROVE ControlOf(b)'
  BY <1>0 DEF StateTypes, ActorTypes, ControlInv, LockInv, ControlOf
<1>5. (~Journaled => journal = <<>>)'
  BY <1>0 DEF ControlInv, ControlOf, JournalInv, EntriesInv
<1>6. (\A i, j \in DOMAIN journal : journal[i] = journal[j] => i = j)'
  BY <1>0 DEF JournalInv, EntriesInv
<1>7. ASSUME NEW i \in DOMAIN journal' PROVE EntryOf(i)'
  BY <1>0 DEF StateTypes, ActorTypes, ControlInv, LockInv, ControlOf, JournalInv, EntriesInv, EntryOf, GateOf
<1>8. (phase = "replay" => replayed <= Len(journal))'
  BY <1>0 DEF StateTypes, JournalInv, EntriesInv
<1>9. ASSUME NEW b \in Actors PROVE GateOf(b)'
  BY <1>0 DEF StateTypes, ActorTypes, ControlInv, LockInv, ControlOf, JournalInv, EntriesInv, EntryOf, GateOf
<1>10. ASSUME NEW b \in Actors PROVE FreshOf(b)'
  BY <1>0 DEF StateTypes, ActorTypes, FreshInv, FreshOf, Waiting
<1>11. ASSUME NEW b \in Actors PROVE AppliedOf(b)'
  BY <1>0, ProgramFacts DEF StateTypes, ActorTypes, ControlInv, LockInv, ControlOf, FreshInv, AppliedOf, FreshOf, Waiting
<1>12. OrderInv'
  BY <1>0 DEF OrderInv, Ordered
<1> QED
  BY <1>0, <1>1, <1>2, <1>3, <1>4, <1>5, <1>6, <1>7, <1>8, <1>9, <1>10, <1>11, <1>12
  DEF ControlInv, JournalInv, EntriesInv, FreshInv

\* validate_batch keeps the base invariant.
LEMMA ValidateBase ==
  ASSUME BaseInv, NEW a \in Actors, Validate(a)
  PROVE  BaseInv'
<1> USE DEF BaseInv, Steady, Validate, Answer, Free, histVars, lifeVars
<1>0. Steady
  BY SteadyFacts
<1>1. StateTypes'
  BY <1>0, ProgramFacts DEF StateTypes, ActorTypes, LockInv, ControlOf, ControlInv, JournalInv, EntriesInv, GateOf, Phases
<1>2. ActorTypes'
  <2> DEFINE n == Len(Program[a].ids)
  <2>1. at[a] \in 1 .. n /\ n \in Nat \ {0}
    BY <1>0, ProgramFacts DEF ActorTypes
  <2> HIDE DEF n
  <2>2. pc' \in [Actors -> PCs] /\ answer' \in [Actors -> Answers]
    BY DEF ActorTypes, PCs, Answers
  <2>3. at' \in [Actors -> Nat] /\ \A b \in Actors : b # a => at'[b] = at[b]
    BY <2>1 DEF ActorTypes
  <2>4. at'[a] \in 1 .. n
    BY <2>1 DEF ActorTypes, n
  <2> QED BY <1>0, <2>2, <2>3, <2>4 DEF ActorTypes, n
<1>3. LockInv'
  BY <1>0 DEF StateTypes, ActorTypes, ControlInv, LockInv, ControlOf
<1>4. ASSUME NEW b \in Actors PROVE ControlOf(b)'
  BY <1>0 DEF StateTypes, ActorTypes, ControlInv, LockInv, ControlOf
<1>5. (~Journaled => journal = <<>>)'
  BY <1>0 DEF ControlInv, ControlOf, JournalInv, EntriesInv
<1>6. (\A i, j \in DOMAIN journal : journal[i] = journal[j] => i = j)'
  BY <1>0 DEF JournalInv, EntriesInv
<1>7. ASSUME NEW i \in DOMAIN journal' PROVE EntryOf(i)'
  BY <1>0 DEF StateTypes, ActorTypes, ControlInv, LockInv, ControlOf, JournalInv, EntriesInv, EntryOf, GateOf
<1>8. (phase = "replay" => replayed <= Len(journal))'
  BY <1>0 DEF StateTypes, JournalInv, EntriesInv
<1>9. ASSUME NEW b \in Actors PROVE GateOf(b)'
  BY <1>0 DEF StateTypes, ActorTypes, ControlInv, LockInv, ControlOf, JournalInv, EntriesInv, EntryOf, GateOf
<1>10. ASSUME NEW b \in Actors PROVE FreshOf(b)'
  BY <1>0 DEF StateTypes, ActorTypes, FreshInv, FreshOf, Waiting
<1>11. ASSUME NEW b \in Actors PROVE AppliedOf(b)'
  BY <1>0, ProgramFacts DEF StateTypes, ActorTypes, ControlInv, LockInv, ControlOf, FreshInv, AppliedOf, FreshOf, Waiting
<1>12. OrderInv'
  BY <1>0 DEF OrderInv, Ordered
<1> QED
  BY <1>0, <1>1, <1>2, <1>3, <1>4, <1>5, <1>6, <1>7, <1>8, <1>9, <1>10, <1>11, <1>12
  DEF ControlInv, JournalInv, EntriesInv, FreshInv

\* Appending to the journal keeps the base invariant.
LEMMA JournalBase ==
  ASSUME BaseInv, NEW a \in Actors, Journal(a)
  PROVE  BaseInv'
<1> USE DEF BaseInv, Steady, Journal, histVars, lifeVars
<1>0. Steady
  BY SteadyFacts
<1>00. /\ journal' \in Seq(Txs) /\ Len(journal') = Len(journal) + 1
       /\ DOMAIN journal' = 1 .. Len(journal) + 1
       /\ \A i \in 1 .. Len(journal) : journal'[i] = journal[i]
       /\ journal'[Len(journal) + 1] = a /\ a \in Txs
       /\ \A i \in 1 .. Len(journal) : journal[i] # a
  <2>1. a \in Txs /\ journal \in Seq(Txs)
    BY DEF StateTypes, ControlInv, ControlOf
  <2>2. \A i \in 1 .. Len(journal) : journal[i] # a
    BY <1>0 DEF JournalInv, EntriesInv, EntryOf
  <2> QED BY <2>1, <2>2, <1>0
<1>1. StateTypes'
  BY <1>0, <1>00, ProgramFacts DEF StateTypes, ActorTypes, LockInv, ControlOf, ControlInv, JournalInv, EntriesInv, GateOf, Phases
<1>2. ActorTypes'
  BY <1>0, <1>00, ProgramFacts DEF StateTypes, ActorTypes, ControlInv, LockInv, ControlOf, PCs, Answers
<1>3. LockInv'
  <2>1. CASE locked = {}
    BY <2>1, <1>0 DEF LockInv
  <2>2. CASE locked # {}
    <3>1. PICK h \in Txs : locked = {h} /\ pc[h] \in {"apply", "leave"}
      BY <2>2 DEF ControlInv, LockInv
    <3>2. h \in Actors /\ h # a /\ pc'[h] = pc[h]
      BY <3>1 DEF Txs, ActorTypes
    <3> QED BY <3>1, <3>2, <1>0 DEF LockInv
  <2> QED BY <2>1, <2>2
<1>4. ASSUME NEW b \in Actors PROVE ControlOf(b)'
  BY <1>0, <1>00 DEF StateTypes, ActorTypes, ControlInv, LockInv, ControlOf
<1>5. (~Journaled => journal = <<>>)'
  BY <1>0, <1>00 DEF ControlInv, ControlOf, JournalInv, EntriesInv
<1>6. (\A i, j \in DOMAIN journal : journal[i] = journal[j] => i = j)'
  BY <1>0, <1>00 DEF JournalInv, EntriesInv
<1>7. ASSUME NEW i \in DOMAIN journal' PROVE EntryOf(i)'
  BY <1>0, <1>00 DEF StateTypes, ActorTypes, ControlInv, LockInv, ControlOf, JournalInv, EntriesInv, EntryOf, GateOf
<1>8. (phase = "replay" => replayed <= Len(journal))'
  BY <1>0, <1>00 DEF StateTypes, JournalInv, EntriesInv
<1>9. ASSUME NEW b \in Actors PROVE GateOf(b)'
  <2>1. GateOf(b) /\ turn' = turn /\ turn \in Nat /\ Len(journal) \in Nat /\ turn <= Len(journal)
    BY <1>0 DEF JournalInv
  <2>2. CASE b = a
    <3>1. pc'[b] = "turn" /\ Len(journal) + 1 > turn /\ Len(journal) + 1 \in DOMAIN journal'
      BY <1>00, <2>1, <2>2 DEF ActorTypes
    <3> QED BY <1>00, <2>1, <2>2, <3>1 DEF GateOf
  <2>3. CASE b # a
    <3>1. pc'[b] = pc[b] /\ \A i \in 1 .. Len(journal) : i \in DOMAIN journal' /\ journal'[i] = journal[i]
      BY <1>0, <1>00, <2>3 DEF ActorTypes
    <3>2. turn < Len(journal) => turn + 1 \in 1 .. Len(journal) /\ turn < Len(journal')
      BY <1>00, <2>1
    <3> QED BY <1>0, <2>1, <3>1, <3>2 DEF GateOf
  <2> QED BY <2>2, <2>3
<1>10. ASSUME NEW b \in Actors PROVE FreshOf(b)'
  BY <1>0, <1>00 DEF StateTypes, ActorTypes, FreshInv, FreshOf, Waiting
<1>11. ASSUME NEW b \in Actors PROVE AppliedOf(b)'
  BY <1>0, <1>00, ProgramFacts DEF StateTypes, ActorTypes, ControlInv, LockInv, ControlOf, FreshInv, AppliedOf, FreshOf, Waiting
<1>12. OrderInv'
  BY <1>0, <1>00 DEF OrderInv, Ordered
<1> QED
  BY <1>0, <1>1, <1>2, <1>3, <1>4, <1>5, <1>6, <1>7, <1>8, <1>9, <1>10, <1>11, <1>12
  DEF ControlInv, JournalInv, EntriesInv, FreshInv

\* A failing append, seen from outside: the entry may be there all the same.
Refused(a) ==
  /\ phase = "up" /\ pc[a] = "journal" /\ a \in Txs /\ locked' = locked /\ turn' = turn /\ disk' = disk
  /\ pc' = [pc EXCEPT ![a] = "done"] /\ answer' = [answer EXCEPT ![a] = "journal"]
  /\ scenario' = scenario /\ table' = table /\ at' = at /\ reads' = reads /\ phase' = phase
  /\ replayed' = replayed /\ crashes' = crashes /\ first' = first /\ order' = order
  /\ \/ journal' = journal
     \/ /\ journal' \in Seq(Txs) /\ Len(journal') = Len(journal) + 1
        /\ DOMAIN journal' = 1 .. Len(journal) + 1
        /\ \A i \in 1 .. Len(journal) : journal'[i] = journal[i]
        /\ journal'[Len(journal) + 1] = a
  /\ \A i \in 1 .. Len(journal) : journal[i] # a

\* Every such step has that effect.
LEMMA JournalFailsFacts ==
  ASSUME BaseInv, NEW a \in Actors, JournalFails(a)
  PROVE  Refused(a)
<1> USE DEF BaseInv, Steady
<1>0. Steady
  BY SteadyFacts DEF JournalFails, Answer, histVars, lifeVars
<1>1. Refused(a)
  <2>1. a \in Txs /\ journal \in Seq(Txs)
    BY DEF StateTypes, ControlInv, ControlOf, JournalFails, Answer, histVars, lifeVars
  <2>2. \A i \in 1 .. Len(journal) : journal[i] # a
    BY <1>0 DEF JournalInv, EntriesInv, EntryOf, JournalFails, Answer, histVars, lifeVars
  <2>3. ASSUME journal' = Append(journal, a)
        PROVE  /\ journal' \in Seq(Txs) /\ Len(journal') = Len(journal) + 1
               /\ DOMAIN journal' = 1 .. Len(journal) + 1
               /\ \A i \in 1 .. Len(journal) : journal'[i] = journal[i]
               /\ journal'[Len(journal) + 1] = a
    <3>1. /\ journal' \in Seq(Txs) /\ Len(journal') = Len(journal) + 1
          /\ \A i \in 1 .. Len(journal) : journal'[i] = journal[i]
          /\ journal'[Len(journal) + 1] = a
      BY <2>1, <2>3, <1>0
    <3>2. DOMAIN journal' = 1 .. Len(journal) + 1
      BY <3>1
    <3> QED BY <3>1, <3>2
  <2>4. journal' = Append(journal, a) \/ journal' = journal
    BY DEF JournalFails
  <2> QED BY <2>1, <2>2, <2>3, <2>4 DEF JournalFails, Answer, histVars, lifeVars, Refused
<1> QED BY <1>1

\* So does a failing append.
LEMMA JournalFailsBase ==
  ASSUME BaseInv, NEW a \in Actors, JournalFails(a)
  PROVE  BaseInv'
<1> USE DEF BaseInv, Steady, Refused
<1>00. Refused(a)
  BY JournalFailsFacts
<1>0. Steady
  BY <1>00, SteadyFacts
<1>1. StateTypes'
  BY <1>0, <1>00, ProgramFacts DEF StateTypes, ActorTypes, LockInv, ControlOf, ControlInv, JournalInv, EntriesInv, GateOf, Phases
<1>2. ActorTypes'
  BY <1>0, <1>00, ProgramFacts DEF StateTypes, ActorTypes, ControlInv, LockInv, ControlOf, PCs, Answers
<1>3. LockInv'
  <2>1. CASE locked = {}
    BY <2>1, <1>0, <1>00 DEF LockInv
  <2>2. CASE locked # {}
    <3>1. PICK h \in Txs : locked = {h} /\ pc[h] \in {"apply", "leave"}
      BY <2>2 DEF ControlInv, LockInv
    <3>2. h \in Actors /\ h # a /\ pc'[h] = pc[h]
      BY <3>1, <1>00 DEF Txs, ActorTypes
    <3> QED BY <3>1, <3>2, <1>0, <1>00 DEF LockInv
  <2> QED BY <2>1, <2>2
<1>4. ASSUME NEW b \in Actors PROVE ControlOf(b)'
  BY <1>0, <1>00 DEF StateTypes, ActorTypes, ControlInv, LockInv, ControlOf
<1>5. (~Journaled => journal = <<>>)'
  BY <1>0, <1>00 DEF ControlInv, ControlOf, JournalInv, EntriesInv
<1>6. (\A i, j \in DOMAIN journal : journal[i] = journal[j] => i = j)'
  <2>1. CASE journal' = journal
    BY <2>1, <1>0 DEF JournalInv, EntriesInv
  <2>2. CASE journal' # journal
    BY <2>2, <1>0, <1>00 DEF JournalInv, EntriesInv
  <2> QED BY <2>1, <2>2
<1>7. ASSUME NEW i \in DOMAIN journal' PROVE EntryOf(i)'
  <2>1. ASSUME journal[i] # a, i <= Len(journal) PROVE EntryOf(i)'
    BY <2>1, <1>0, <1>00 DEF ActorTypes, JournalInv, EntriesInv, EntryOf
  <2>2. ASSUME i > Len(journal) PROVE EntryOf(i)'
    BY <2>2, <1>0, <1>00 DEF ActorTypes, EntryOf
  <2> QED BY <2>1, <2>2, <1>0, <1>00
<1>8. (phase = "replay" => replayed <= Len(journal))'
  BY <1>0, <1>00 DEF StateTypes, JournalInv, EntriesInv
<1>9. ASSUME NEW b \in Actors PROVE GateOf(b)'
  <2>1. ASSUME Journaled, pc'[b] = "turn" PROVE \E i \in DOMAIN journal' : i > turn' /\ journal'[i] = b
    <3>1. PICK i \in DOMAIN journal : i > turn /\ journal[i] = b
      BY <2>1, <1>00 DEF JournalInv, GateOf, ActorTypes
    <3>2. i \in DOMAIN journal' /\ journal'[i] = journal[i]
      BY <1>0, <1>00, <3>1
    <3> QED BY <3>1, <3>2, <1>00
  <2>2. ASSUME Journaled, pc'[b] \in {"apply", "leave"} PROVE turn' < Len(journal') /\ journal'[turn' + 1] = b
    <3>1. turn < Len(journal) /\ journal[turn + 1] = b
      BY <2>2, <1>00 DEF JournalInv, GateOf, ActorTypes
    <3> QED BY <1>0, <1>00, <3>1
  <2> QED BY <2>1, <2>2, <1>0 DEF GateOf
<1>10. ASSUME NEW b \in Actors PROVE FreshOf(b)'
  BY <1>0, <1>00 DEF StateTypes, ActorTypes, FreshInv, FreshOf, Waiting
<1>11. ASSUME NEW b \in Actors PROVE AppliedOf(b)'
  BY <1>0, <1>00, ProgramFacts DEF StateTypes, ActorTypes, ControlInv, LockInv, ControlOf, FreshInv, AppliedOf, FreshOf, Waiting
<1>12. OrderInv'
  BY <1>0, <1>00 DEF OrderInv, Ordered
<1> QED
  BY <1>0, <1>1, <1>2, <1>3, <1>4, <1>5, <1>6, <1>7, <1>8, <1>9, <1>10, <1>11, <1>12
  DEF ControlInv, JournalInv, EntriesInv, FreshInv

\* A refused entry skipped, seen from outside.
Skipped ==
  /\ phase = "up" /\ turn < Len(journal) /\ answer[journal[turn + 1]] = "journal" /\ turn' = turn + 1
  /\ locked' = locked /\ pc' = pc /\ answer' = answer /\ journal' = journal /\ disk' = disk
  /\ scenario' = scenario /\ table' = table /\ at' = at /\ reads' = reads /\ phase' = phase
  /\ replayed' = replayed /\ crashes' = crashes /\ first' = first /\ order' = order

\* Every such step has that effect.
LEMMA SkipRefusedFacts ==
  ASSUME BaseInv, SkipRefused
  PROVE  Skipped
<1> USE DEF BaseInv, Steady
<1>0. Steady
  BY SteadyFacts DEF SkipRefused, actorVars, histVars, lifeVars
<1>1. Skipped
  BY DEF SkipRefused, actorVars, histVars, lifeVars, Skipped
<1> QED BY <1>1

\* Skipping a refused entry keeps the base invariant.
LEMMA SkipRefusedBase ==
  ASSUME BaseInv, SkipRefused
  PROVE  BaseInv'
<1> USE DEF BaseInv, Steady, Skipped
<1>00. Skipped
  BY SkipRefusedFacts
<1>0. Steady
  BY <1>00, SteadyFacts
<1>1. StateTypes'
  BY <1>0, <1>00, ProgramFacts DEF StateTypes, ActorTypes, LockInv, ControlOf, ControlInv, JournalInv, EntriesInv, GateOf, Phases
<1>2. ActorTypes'
  BY <1>0, <1>00, ProgramFacts DEF StateTypes, ActorTypes, ControlInv, LockInv, ControlOf, PCs, Answers
<1>3. LockInv'
  BY <1>0, <1>00 DEF StateTypes, ActorTypes, ControlInv, LockInv, ControlOf
<1>4. ASSUME NEW b \in Actors PROVE ControlOf(b)'
  BY <1>0, <1>00 DEF StateTypes, ActorTypes, ControlInv, LockInv, ControlOf
<1>5. (~Journaled => journal = <<>>)'
  BY <1>0, <1>00 DEF ControlInv, ControlOf, JournalInv, EntriesInv
<1>6. (\A i, j \in DOMAIN journal : journal[i] = journal[j] => i = j)'
  BY <1>0, <1>00 DEF JournalInv, EntriesInv
<1>7. ASSUME NEW i \in DOMAIN journal' PROVE EntryOf(i)'
  BY <1>0, <1>00 DEF StateTypes, ActorTypes, ControlInv, LockInv, ControlOf, JournalInv, EntriesInv, EntryOf, GateOf
<1>8. (phase = "replay" => replayed <= Len(journal))'
  BY <1>0, <1>00 DEF StateTypes, JournalInv, EntriesInv
<1>9. ASSUME NEW b \in Actors PROVE GateOf(b)'
  <2>1. ASSUME Journaled, pc'[b] = "turn" PROVE \E i \in DOMAIN journal' : i > turn' /\ journal'[i] = b
    <3>1. PICK i \in DOMAIN journal : i > turn /\ journal[i] = b /\ pc[b] = "turn"
      BY <2>1, <1>00 DEF JournalInv, GateOf, ActorTypes
    <3>2. answer[b] = "none" /\ locked # {b}
      BY <3>1, <1>0 DEF ControlInv, ControlOf, LockInv
    <3>3. i > turn' /\ journal' = journal
      BY <2>1, <3>1, <3>2, <1>0, <1>00 DEF ActorTypes
    <3> QED BY <3>1, <3>3
  <2>2. ASSUME Journaled, pc'[b] \in {"apply", "leave"} PROVE turn' < Len(journal') /\ journal'[turn' + 1] = b
    BY <2>2, <1>0, <1>00 DEF JournalInv, GateOf, ControlInv, ControlOf, ActorTypes
  <2> QED BY <2>1, <2>2, <1>0 DEF GateOf
<1>10. ASSUME NEW b \in Actors PROVE FreshOf(b)'
  BY <1>0, <1>00 DEF StateTypes, ActorTypes, FreshInv, FreshOf, Waiting
<1>11. ASSUME NEW b \in Actors PROVE AppliedOf(b)'
  BY <1>0, <1>00, ProgramFacts DEF StateTypes, ActorTypes, ControlInv, LockInv, ControlOf, FreshInv, AppliedOf, FreshOf, Waiting
<1>12. OrderInv'
  BY <1>0, <1>00 DEF OrderInv, Ordered
<1> QED
  BY <1>0, <1>1, <1>2, <1>3, <1>4, <1>5, <1>6, <1>7, <1>8, <1>9, <1>10, <1>11, <1>12
  DEF ControlInv, JournalInv, EntriesInv, FreshInv

\* A batch at its turn, let in or in conflict.
Entered(a) ==
  /\ turn < Len(journal) /\ journal[turn + 1] = a /\ Journaled /\ a \in Txs
  /\ phase = "up" /\ locked = {} /\ pc[a] = "turn" /\ journal' = journal /\ disk' = disk
  /\ scenario' = scenario /\ table' = table /\ at' = at /\ reads' = reads /\ phase' = phase
  /\ replayed' = replayed /\ crashes' = crashes /\ first' = first /\ order' = order
  /\ \/ /\ locked' = {a} /\ pc' = [pc EXCEPT ![a] = "apply"] /\ answer' = answer /\ turn' = turn
        /\ ~Stale(a)
     \/ /\ locked' = {} /\ pc' = [pc EXCEPT ![a] = "done"]
        /\ answer' = [answer EXCEPT ![a] = "conflict"] /\ turn' = turn + 1

\* Every such step has that effect.
LEMMA EnterFacts ==
  ASSUME BaseInv, NEW a \in Actors, Enter(a)
  PROVE  Entered(a)
<1> USE DEF BaseInv, Steady
<1>0. Steady
  BY SteadyFacts DEF Enter, MyTurn, Answer, Free, histVars, lifeVars
<1>1. Entered(a)
  BY <1>0 DEF ControlInv, ControlOf, JournalInv, GateOf, Enter, MyTurn, Answer, Free, histVars, lifeVars, Entered
<1> QED BY <1>1

\* Entering the section keeps the base invariant.
LEMMA EnterBase ==
  ASSUME BaseInv, NEW a \in Actors, Enter(a)
  PROVE  BaseInv'
<1> USE DEF BaseInv, Steady, Entered
<1>00. Entered(a)
  BY EnterFacts
<1>0. Steady
  BY <1>00, SteadyFacts
<1>1. StateTypes'
  BY <1>0, <1>00, ProgramFacts DEF StateTypes, ActorTypes, LockInv, ControlOf, ControlInv, JournalInv, EntriesInv, GateOf, Phases
<1>2. ActorTypes'
  <2>1. pc' \in [Actors -> PCs] /\ answer' \in [Actors -> Answers]
    BY <1>00 DEF ActorTypes, PCs, Answers
  <2> QED BY <1>0, <1>00, <2>1 DEF ActorTypes
<1>3. LockInv'
  BY <1>0, <1>00 DEF StateTypes, ActorTypes, ControlInv, LockInv, ControlOf
<1>4. ASSUME NEW b \in Actors PROVE ControlOf(b)'
  <2>1. ControlOf(b) /\ locked = {}
    BY <1>00 DEF ControlInv
  <2>2. CASE b = a
    BY <1>0, <1>00, <2>1, <2>2 DEF ActorTypes, ControlOf
  <2>3. CASE b # a
    BY <1>0, <1>00, <2>1, <2>3 DEF ActorTypes, ControlOf
  <2> QED BY <2>2, <2>3
<1>5. (~Journaled => journal = <<>>)'
  BY <1>0, <1>00 DEF ControlInv, ControlOf, JournalInv, EntriesInv
<1>6. (\A i, j \in DOMAIN journal : journal[i] = journal[j] => i = j)'
  BY <1>0, <1>00 DEF JournalInv, EntriesInv
<1>7. ASSUME NEW i \in DOMAIN journal' PROVE EntryOf(i)'
  BY <1>0, <1>00 DEF StateTypes, ActorTypes, ControlInv, LockInv, ControlOf, JournalInv, EntriesInv, EntryOf, GateOf
<1>8. (phase = "replay" => replayed <= Len(journal))'
  BY <1>0, <1>00 DEF StateTypes, JournalInv, EntriesInv
<1>9. ASSUME NEW b \in Actors PROVE GateOf(b)'
  <2>1. ASSUME Journaled, pc'[b] = "turn" PROVE \E i \in DOMAIN journal' : i > turn' /\ journal'[i] = b
    <3>1. PICK i \in DOMAIN journal : i > turn /\ journal[i] = b /\ pc[b] = "turn"
      BY <2>1, <1>00 DEF JournalInv, GateOf, ActorTypes
    <3>2. answer[b] = "none" /\ locked # {b}
      BY <3>1, <1>0 DEF ControlInv, ControlOf, LockInv
    <3>3. i > turn' /\ journal' = journal
      BY <2>1, <3>1, <3>2, <1>0, <1>00 DEF ActorTypes
    <3> QED BY <3>1, <3>3
  <2>2. ASSUME Journaled, pc'[b] \in {"apply", "leave"} PROVE turn' < Len(journal') /\ journal'[turn' + 1] = b
    BY <2>2, <1>0, <1>00 DEF JournalInv, GateOf, ControlInv, ControlOf, ActorTypes
  <2> QED BY <2>1, <2>2, <1>0 DEF GateOf
<1>10. ASSUME NEW b \in Actors PROVE FreshOf(b)'
  BY <1>0, <1>00 DEF StateTypes, ActorTypes, FreshInv, FreshOf, Waiting
<1>11. ASSUME NEW b \in Actors PROVE AppliedOf(b)'
  <2>1. CASE b = a
    <3>1. at[a] = 1 /\ \A x \in Ids : table[x] # a
      BY <1>00, <1>0 DEF StateTypes, ControlInv, ControlOf, FreshInv, FreshOf, Waiting
    <3> QED BY <2>1, <3>1, <1>0, <1>00, ProgramFacts DEF ActorTypes, AppliedOf
  <2>2. CASE b # a
    BY <2>2, <1>0, <1>00 DEF ActorTypes, FreshInv, AppliedOf
  <2> QED BY <2>1, <2>2
<1>12. OrderInv'
  BY <1>0, <1>00 DEF OrderInv, Ordered
<1> QED
  BY <1>0, <1>1, <1>2, <1>3, <1>4, <1>5, <1>6, <1>7, <1>8, <1>9, <1>10, <1>11, <1>12
  DEF ControlInv, JournalInv, EntriesInv, FreshInv

\* So does entering it without a journal.
LEMMA EnterUnjournaledBase ==
  ASSUME BaseInv, NEW a \in Actors, EnterUnjournaled(a)
  PROVE  BaseInv'
<1> USE DEF BaseInv, Steady, EnterUnjournaled, Answer, Free, histVars, lifeVars
<1>0. Steady
  BY SteadyFacts
<1>1. StateTypes'
  BY <1>0, ProgramFacts DEF StateTypes, ActorTypes, LockInv, ControlOf, ControlInv, JournalInv, EntriesInv, GateOf, Phases
<1>2. ActorTypes'
  BY <1>0, ProgramFacts DEF StateTypes, ActorTypes, ControlInv, LockInv, ControlOf, PCs, Answers
<1>3. LockInv'
  BY <1>0 DEF StateTypes, ActorTypes, ControlInv, LockInv, ControlOf
<1>4. ASSUME NEW b \in Actors PROVE ControlOf(b)'
  BY <1>0 DEF StateTypes, ActorTypes, ControlInv, LockInv, ControlOf
<1>5. (~Journaled => journal = <<>>)'
  BY <1>0 DEF ControlInv, ControlOf, JournalInv, EntriesInv
<1>6. (\A i, j \in DOMAIN journal : journal[i] = journal[j] => i = j)'
  BY <1>0 DEF JournalInv, EntriesInv
<1>7. ASSUME NEW i \in DOMAIN journal' PROVE EntryOf(i)'
  BY <1>0 DEF StateTypes, ActorTypes, ControlInv, LockInv, ControlOf, JournalInv, EntriesInv, EntryOf, GateOf
<1>8. (phase = "replay" => replayed <= Len(journal))'
  BY <1>0 DEF StateTypes, JournalInv, EntriesInv
<1>9. ASSUME NEW b \in Actors PROVE GateOf(b)'
  BY <1>0 DEF StateTypes, ActorTypes, ControlInv, LockInv, ControlOf, JournalInv, EntriesInv, EntryOf, GateOf
<1>10. ASSUME NEW b \in Actors PROVE FreshOf(b)'
  BY <1>0 DEF StateTypes, ActorTypes, FreshInv, FreshOf, Waiting
<1>11. ASSUME NEW b \in Actors PROVE AppliedOf(b)'
  BY <1>0, ProgramFacts DEF StateTypes, ActorTypes, ControlInv, LockInv, ControlOf, FreshInv, AppliedOf, FreshOf, Waiting
<1>12. OrderInv'
  BY <1>0 DEF OrderInv, Ordered
<1> QED
  BY <1>0, <1>1, <1>2, <1>3, <1>4, <1>5, <1>6, <1>7, <1>8, <1>9, <1>10, <1>11, <1>12
  DEF ControlInv, JournalInv, EntriesInv, FreshInv

\* The section left, with or without a checkpoint.
Left(a) ==
  /\ Journaled => turn < Len(journal) /\ journal[turn + 1] = a
  /\ ~Journaled => turn' = turn /\ journal' = journal
  /\ phase = "up" /\ locked = {a} /\ locked' = {} /\ pc[a] = "leave"
  /\ pc' = [pc EXCEPT ![a] = "done"] /\ answer' = [answer EXCEPT ![a] = "ok"]
  /\ scenario' = scenario /\ table' = table /\ at' = at /\ reads' = reads /\ phase' = phase
  /\ replayed' = replayed /\ crashes' = crashes /\ first' = first /\ order' = order
  /\ \/ /\ Journaled /\ journal' \in Seq(Txs) /\ Len(journal') = 0 /\ DOMAIN journal' = {}
        /\ turn' = 0 /\ turn + 1 = Len(journal) /\ disk' = [x \in Ids |-> {table[x]}]
     \/ journal' = journal /\ (Journaled => turn' = turn + 1) /\ disk' = disk

\* Every such step has that effect.
LEMMA LeaveFacts ==
  ASSUME BaseInv, NEW a \in Actors, Leave(a)
  PROVE  Left(a)
<1> USE DEF BaseInv, Steady
<1>0. Steady
  BY SteadyFacts DEF Leave, Flush, Answer, histVars, lifeVars
<1>1. Left(a)
  <2>1. <<>> \in Seq(Txs) /\ Len(<<>>) = 0 /\ DOMAIN <<>> = {}
    OBVIOUS
  <2>2. /\ Journaled => turn < Len(journal) /\ journal[turn + 1] = a
        /\ phase = "up" /\ locked = {a} /\ pc[a] = "leave"
    BY <1>0 DEF JournalInv, GateOf, Leave, Flush, Answer, histVars, lifeVars
  <2>3. /\ ~Journaled => turn' = turn /\ journal' = journal
        /\ \/ /\ Journaled /\ journal' = <<>> /\ turn' = 0 /\ turn + 1 = Len(journal)
              /\ disk' = [x \in Ids |-> {table[x]}]
           \/ journal' = journal /\ (Journaled => turn' = turn + 1) /\ disk' = disk
    BY DEF Leave, Flush, AtCheckpoint
  <2> QED BY <2>1, <2>2, <2>3 DEF Left, Leave, Answer, histVars, lifeVars
<1> QED BY <1>1

\* Leaving it keeps the base invariant.
LEMMA LeaveBase ==
  ASSUME BaseInv, NEW a \in Actors, Leave(a)
  PROVE  BaseInv'
<1> USE DEF BaseInv, Steady, Left
<1>00. Left(a)
  BY LeaveFacts
<1>0. Steady
  BY <1>00, SteadyFacts
<1>1. StateTypes'
  <2>1. journal' \in Seq(Txs) /\ turn' \in 0 .. Len(journal')
    <3>1. CASE Journaled
      <4>1. journal \in Seq(Txs) /\ turn \in Nat /\ Len(journal) \in Nat
        BY <1>0 DEF StateTypes
      <4>2. turn < Len(journal)
        BY <3>1, <1>00
      <4> QED BY <3>1, <4>1, <4>2, <1>00
    <3>2. CASE ~Journaled
      BY <3>2, <1>0, <1>00 DEF StateTypes
    <3> QED BY <3>1, <3>2
  <2>2. disk' \in [Ids -> SUBSET Values] /\ \A x \in Ids : table[x] \in disk'[x]
    BY <1>00 DEF StateTypes
  <2> QED BY <1>0, <1>00, <2>1, <2>2 DEF StateTypes
<1>2. ActorTypes'
  BY <1>0, <1>00, ProgramFacts DEF StateTypes, ActorTypes, ControlInv, LockInv, ControlOf, PCs, Answers
<1>3. LockInv'
  BY <1>0, <1>00 DEF StateTypes, ActorTypes, ControlInv, LockInv, ControlOf
<1>4. ASSUME NEW b \in Actors PROVE ControlOf(b)'
  BY <1>0, <1>00 DEF StateTypes, ActorTypes, ControlInv, LockInv, ControlOf
<1>5. (~Journaled => journal = <<>>)'
  BY <1>0, <1>00 DEF ControlInv, ControlOf, JournalInv, EntriesInv
<1>6. (\A i, j \in DOMAIN journal : journal[i] = journal[j] => i = j)'
  <2>1. CASE journal' = journal
    BY <2>1, <1>0 DEF JournalInv, EntriesInv
  <2>2. CASE journal' # journal
    BY <2>2, <1>0, <1>00 DEF JournalInv, EntriesInv
  <2> QED BY <2>1, <2>2
<1>7. ASSUME NEW i \in DOMAIN journal' PROVE EntryOf(i)'
  <2>1. journal' = journal /\ (Journaled => turn' = turn + 1)
    BY <1>00
  <2>2. Journaled
    BY <2>1, <1>0 DEF JournalInv, EntriesInv
  <2>3. journal[i] = a => i = turn + 1
    <3>1. journal[turn + 1] = a /\ turn < Len(journal) /\ i \in DOMAIN journal
      BY <1>00, <2>1, <2>2
    <3>2. turn \in Nat /\ Len(journal) \in Nat /\ DOMAIN journal = 1 .. Len(journal)
      BY <1>0
    <3>3. turn + 1 \in DOMAIN journal
      BY <3>1, <3>2
    <3> QED BY <3>1, <3>3 DEF JournalInv, EntriesInv
  <2>4. CASE journal[i] = a
    BY <2>1, <2>2, <2>3, <2>4, <1>0, <1>00 DEF EntryOf, ActorTypes
  <2>5. CASE journal[i] # a
    BY <2>1, <2>2, <2>5, <1>0, <1>00 DEF JournalInv, EntriesInv, EntryOf, ActorTypes
  <2> QED BY <2>4, <2>5
<1>8. (phase = "replay" => replayed <= Len(journal))'
  BY <1>0, <1>00 DEF StateTypes, JournalInv, EntriesInv
<1>9. ASSUME NEW b \in Actors PROVE GateOf(b)'
  <2>1. ASSUME Journaled, pc'[b] = "turn" PROVE \E i \in DOMAIN journal' : i > turn' /\ journal'[i] = b
    <3>1. b # a /\ pc[b] = "turn"
      BY <2>1, <1>00 DEF ActorTypes
    <3>2. PICK i \in DOMAIN journal : i > turn /\ journal[i] = b
      BY <2>1, <3>1, <1>00 DEF JournalInv, GateOf
    <3>3. journal[turn + 1] = a /\ Journaled
      BY <2>1, <1>0, <1>00
    <3>4. Len(journal) \in Nat /\ i \in Nat /\ i <= Len(journal) /\ turn \in Nat /\ i # turn + 1
      BY <3>1, <3>2, <3>3, <1>0
    <3>5. i > turn + 1
      BY <3>2, <3>4
    <3>6. turn + 1 # Len(journal)
      BY <3>4, <3>5
    <3>7. journal' = journal /\ turn' = turn + 1
      BY <3>3, <3>6, <1>00
    <3> QED BY <3>2, <3>5, <3>7
  <2>2. ~ (pc'[b] \in {"apply", "leave"})
    BY <1>0, <1>00 DEF ControlInv, ControlOf, ActorTypes
  <2> QED BY <2>1, <2>2, <1>0 DEF GateOf
<1>10. ASSUME NEW b \in Actors PROVE FreshOf(b)'
  BY <1>0, <1>00 DEF StateTypes, ActorTypes, FreshInv, FreshOf, Waiting
<1>11. ASSUME NEW b \in Actors PROVE AppliedOf(b)'
  BY <1>0, <1>00, ProgramFacts DEF StateTypes, ActorTypes, ControlInv, LockInv, ControlOf, FreshInv, AppliedOf, FreshOf, Waiting
<1>12. OrderInv'
  BY <1>0, <1>00 DEF OrderInv, Ordered
<1> QED
  BY <1>0, <1>1, <1>2, <1>3, <1>4, <1>5, <1>6, <1>7, <1>8, <1>9, <1>10, <1>11, <1>12
  DEF ControlInv, JournalInv, EntriesInv, FreshInv

\* Opening keeps the base invariant.
LEMMA OpenBase ==
  ASSUME BaseInv, Open
  PROVE  BaseInv'
<1> USE DEF BaseInv, Steady, Open, Flush, actorVars, histVars, lifeVars
<1>0. Steady
  BY SteadyFacts
<1>1. StateTypes'
  BY <1>0, ProgramFacts DEF StateTypes, ActorTypes, LockInv, ControlOf, ControlInv, JournalInv, EntriesInv, GateOf, Phases
<1>2. ActorTypes'
  BY <1>0, ProgramFacts DEF StateTypes, ActorTypes, ControlInv, LockInv, ControlOf, PCs, Answers
<1>3. LockInv'
  BY <1>0 DEF StateTypes, ActorTypes, ControlInv, LockInv, ControlOf
<1>4. ASSUME NEW b \in Actors PROVE ControlOf(b)'
  BY <1>0 DEF StateTypes, ActorTypes, ControlInv, LockInv, ControlOf
<1>5. (~Journaled => journal = <<>>)'
  BY <1>0 DEF ControlInv, ControlOf, JournalInv, EntriesInv
<1>6. (\A i, j \in DOMAIN journal : journal[i] = journal[j] => i = j)'
  BY <1>0 DEF JournalInv, EntriesInv
<1>7. ASSUME NEW i \in DOMAIN journal' PROVE EntryOf(i)'
  BY <1>0 DEF StateTypes, ActorTypes, ControlInv, LockInv, ControlOf, JournalInv, EntriesInv, EntryOf, GateOf
<1>8. (phase = "replay" => replayed <= Len(journal))'
  BY <1>0 DEF StateTypes, JournalInv, EntriesInv
<1>9. ASSUME NEW b \in Actors PROVE GateOf(b)'
  BY <1>0 DEF StateTypes, ActorTypes, ControlInv, LockInv, ControlOf, JournalInv, EntriesInv, EntryOf, GateOf
<1>10. ASSUME NEW b \in Actors PROVE FreshOf(b)'
  BY <1>0 DEF StateTypes, ActorTypes, FreshInv, FreshOf, Waiting
<1>11. ASSUME NEW b \in Actors PROVE AppliedOf(b)'
  BY <1>0, ProgramFacts DEF StateTypes, ActorTypes, ControlInv, LockInv, ControlOf, FreshInv, AppliedOf, FreshOf, Waiting
<1>12. OrderInv'
  BY <1>0 DEF OrderInv, Ordered
<1> QED
  BY <1>0, <1>1, <1>2, <1>3, <1>4, <1>5, <1>6, <1>7, <1>8, <1>9, <1>10, <1>11, <1>12
  DEF ControlInv, JournalInv, EntriesInv, FreshInv

\* A batch stopped at a record that is gone.
Stopped(a) ==
  /\ Journaled => turn < Len(journal) /\ journal[turn + 1] = a
  /\ phase = "up" /\ locked = {a} /\ locked' = {} /\ pc[a] = "apply"
  /\ pc' = [pc EXCEPT ![a] = "done"] /\ answer' = [answer EXCEPT ![a] = "not_found"]
  /\ journal' = journal /\ (Journaled => turn' = turn + 1) /\ (~Journaled => turn' = turn) /\ disk' = disk
  /\ scenario' = scenario /\ table' = table /\ at' = at /\ reads' = reads /\ phase' = phase
  /\ replayed' = replayed /\ crashes' = crashes /\ first' = first /\ order' = order

\* Every such step has that effect.
LEMMA ApplyStopFacts ==
  ASSUME BaseInv, NEW a \in Actors, ApplyOp(a), table[OpId(a)] = Absent
  PROVE  Stopped(a)
<1> USE DEF BaseInv, Steady
<1>0. Steady
  BY SteadyFacts DEF ApplyOp, OpId, Answer, histVars, lifeVars
<1>1. Stopped(a)
  BY <1>0 DEF JournalInv, GateOf, ApplyOp, OpId, Answer, histVars, lifeVars, Stopped
<1> QED BY <1>1

\* Stopping at a record that is gone keeps the base invariant.
LEMMA ApplyStopBase ==
  ASSUME BaseInv, NEW a \in Actors, ApplyOp(a), table[OpId(a)] = Absent
  PROVE  BaseInv'
<1> USE DEF BaseInv, Steady, Stopped
<1>00. Stopped(a)
  BY ApplyStopFacts
<1>0. Steady
  BY <1>00, SteadyFacts
<1>1. StateTypes'
  <2>1. turn' \in 0 .. Len(journal')
    <3>1. CASE Journaled
      BY <3>1, <1>0, <1>00 DEF StateTypes
    <3>2. CASE ~Journaled
      BY <3>2, <1>0, <1>00 DEF StateTypes
    <3> QED BY <3>1, <3>2
  <2> QED BY <1>0, <1>00, <2>1 DEF StateTypes
<1>2. ActorTypes'
  BY <1>0, <1>00, ProgramFacts DEF StateTypes, ActorTypes, ControlInv, LockInv, ControlOf, PCs, Answers
<1>3. LockInv'
  BY <1>0, <1>00 DEF StateTypes, ActorTypes, ControlInv, LockInv, ControlOf
<1>4. ASSUME NEW b \in Actors PROVE ControlOf(b)'
  BY <1>0, <1>00 DEF StateTypes, ActorTypes, ControlInv, LockInv, ControlOf
<1>5. (~Journaled => journal = <<>>)'
  BY <1>0, <1>00 DEF ControlInv, ControlOf, JournalInv, EntriesInv
<1>6. (\A i, j \in DOMAIN journal : journal[i] = journal[j] => i = j)'
  BY <1>0, <1>00 DEF JournalInv, EntriesInv
<1>7. ASSUME NEW i \in DOMAIN journal' PROVE EntryOf(i)'
  <2>2. Journaled
    BY <1>0, <1>00 DEF JournalInv, EntriesInv
  <2>3. journal[i] = a => i = turn + 1
    <3>1. journal[turn + 1] = a /\ turn < Len(journal) /\ i \in DOMAIN journal
      BY <1>00, <2>2
    <3>2. turn \in Nat /\ Len(journal) \in Nat /\ DOMAIN journal = 1 .. Len(journal)
      BY <1>0
    <3>3. turn + 1 \in DOMAIN journal
      BY <3>1, <3>2
    <3> QED BY <3>1, <3>3 DEF JournalInv, EntriesInv
  <2>4. CASE journal[i] = a
    BY <2>2, <2>3, <2>4, <1>0, <1>00 DEF EntryOf, ActorTypes
  <2>5. CASE journal[i] # a
    BY <2>2, <2>5, <1>0, <1>00 DEF JournalInv, EntriesInv, EntryOf, ActorTypes
  <2> QED BY <2>4, <2>5
<1>8. (phase = "replay" => replayed <= Len(journal))'
  BY <1>0, <1>00 DEF StateTypes, JournalInv, EntriesInv
<1>9. ASSUME NEW b \in Actors PROVE GateOf(b)'
  <2>1. ASSUME Journaled, pc'[b] = "turn" PROVE \E i \in DOMAIN journal' : i > turn' /\ journal'[i] = b
    <3>1. b # a /\ pc[b] = "turn"
      BY <2>1, <1>00 DEF ActorTypes
    <3>2. PICK i \in DOMAIN journal : i > turn /\ journal[i] = b
      BY <2>1, <3>1, <1>00 DEF JournalInv, GateOf
    <3>3. journal[turn + 1] = a /\ turn' = turn + 1
      BY <2>1, <1>0, <1>00
    <3>4. i \in Nat /\ turn \in Nat /\ i # turn + 1
      BY <3>1, <3>2, <3>3, <1>0
    <3>5. i > turn + 1
      BY <3>2, <3>4
    <3> QED BY <3>2, <3>3, <3>5, <1>00
  <2>2. ~ (pc'[b] \in {"apply", "leave"})
    BY <1>0, <1>00 DEF ControlInv, ControlOf, ActorTypes
  <2> QED BY <2>1, <2>2, <1>0 DEF GateOf
<1>10. ASSUME NEW b \in Actors PROVE FreshOf(b)'
  BY <1>0, <1>00 DEF StateTypes, ActorTypes, FreshInv, FreshOf, Waiting
<1>11. ASSUME NEW b \in Actors PROVE AppliedOf(b)'
  BY <1>0, <1>00, ProgramFacts DEF StateTypes, ActorTypes, ControlInv, LockInv, ControlOf, FreshInv, AppliedOf, FreshOf, Waiting
<1>12. OrderInv'
  BY <1>0, <1>00 DEF OrderInv, Ordered
<1> QED
  BY <1>0, <1>1, <1>2, <1>3, <1>4, <1>5, <1>6, <1>7, <1>8, <1>9, <1>10, <1>11, <1>12
  DEF ControlInv, JournalInv, EntriesInv, FreshInv

\* A crash, seen from outside.
Crashed ==
  /\ crashes' = crashes + 1 /\ phase' = "replay" /\ replayed' = 0 /\ locked' = {}
  /\ table' \in [Ids -> Values] /\ \A x \in Ids : table'[x] \in disk[x]
  /\ disk' = [x \in Ids |-> {table'[x]}]
  /\ pc' = [a \in Actors |-> IF pc[a] \in {"read", "call"} THEN pc[a] ELSE "done"]
  /\ reads' = [a \in Actors |-> [x \in {} |-> Absent]]
  /\ scenario' = scenario /\ at' = at /\ answer' = answer /\ journal' = journal /\ turn' = turn
  /\ first' = first /\ order' = order

\* Every such step has that effect.
LEMMA CrashFacts ==
  ASSUME BaseInv, Crash
  PROVE  Crashed
<1> USE DEF BaseInv, Steady
<1>0. Steady
  BY SteadyFacts DEF Crash
<1>1. Crashed
  BY <1>0 DEF StateTypes, Crash, histVars, Crashed
<1> QED BY <1>1

\* A crash keeps the base invariant.
LEMMA CrashBase ==
  ASSUME BaseInv, Crash
  PROVE  BaseInv'
<1> USE DEF BaseInv, Steady, Crashed
<1>00. Crashed
  BY CrashFacts
<1>0. Steady
  BY <1>00, SteadyFacts
<1>1. StateTypes'
  BY <1>0, <1>00, ProgramFacts DEF StateTypes, ActorTypes, LockInv, ControlOf, ControlInv, JournalInv, EntriesInv, GateOf, Phases
<1>2. ActorTypes'
  BY <1>0, <1>00, ProgramFacts DEF StateTypes, ActorTypes, ControlInv, LockInv, ControlOf, PCs, Answers
<1>3. LockInv'
  BY <1>0, <1>00 DEF StateTypes, ActorTypes, ControlInv, LockInv, ControlOf
<1>4. ASSUME NEW b \in Actors PROVE ControlOf(b)'
  BY <1>0, <1>00 DEF StateTypes, ActorTypes, ControlInv, LockInv, ControlOf
<1>5. (~Journaled => journal = <<>>)'
  BY <1>0, <1>00 DEF ControlInv, ControlOf, JournalInv, EntriesInv
<1>6. (\A i, j \in DOMAIN journal : journal[i] = journal[j] => i = j)'
  BY <1>0, <1>00 DEF JournalInv, EntriesInv
<1>7. ASSUME NEW i \in DOMAIN journal' PROVE EntryOf(i)'
  BY <1>0, <1>00 DEF StateTypes, ActorTypes, ControlInv, LockInv, ControlOf, JournalInv, EntriesInv, EntryOf, GateOf
<1>8. (phase = "replay" => replayed <= Len(journal))'
  BY <1>0, <1>00 DEF StateTypes, JournalInv, EntriesInv
<1>9. ASSUME NEW b \in Actors PROVE GateOf(b)'
  BY <1>0, <1>00 DEF StateTypes, ActorTypes, ControlInv, LockInv, ControlOf, JournalInv, EntriesInv, EntryOf, GateOf
<1>10. ASSUME NEW b \in Actors PROVE FreshOf(b)'
  BY <1>0, <1>00 DEF StateTypes, ActorTypes, FreshInv, FreshOf, Waiting
<1>11. ASSUME NEW b \in Actors PROVE AppliedOf(b)'
  BY <1>0, <1>00, ProgramFacts DEF StateTypes, ActorTypes, ControlInv, LockInv, ControlOf, FreshInv, AppliedOf, FreshOf, Waiting
<1>12. OrderInv'
  BY <1>0, <1>00 DEF OrderInv, Ordered
<1> QED
  BY <1>0, <1>1, <1>2, <1>3, <1>4, <1>5, <1>6, <1>7, <1>8, <1>9, <1>10, <1>11, <1>12
  DEF ControlInv, JournalInv, EntriesInv, FreshInv

\* One entry replayed, as far as it goes.
ReplayedOne ==
  /\ phase = "replay" /\ replayed < Len(journal) /\ Pending \in Txs /\ Pending \in Actors /\ pc[Pending] = "done"
  /\ replayed \in Nat /\ (Stamp(Pending) \/ (Rewritten = {} /\ UNCHANGED histVars))
  /\ table' = [x \in Ids |-> IF x \in Rewritten THEN Pending ELSE table[x]]
  /\ disk' = [x \in Ids |-> IF x \in Rewritten THEN disk[x] \cup {Pending} ELSE disk[x]]
  /\ order' \in [Actors -> Nat] /\ first' \in [Actors -> Nat] /\ OrderInv'
  /\ \A b \in Actors \ {Pending} : order[b] = 0 => order'[b] = 0
  /\ \/ replayed' = replayed + 1 /\ phase' = phase
     \/ phase' = "broken" /\ replayed' = replayed
  /\ scenario' = scenario /\ locked' = locked /\ pc' = pc /\ at' = at /\ reads' = reads
  /\ answer' = answer /\ journal' = journal /\ turn' = turn /\ crashes' = crashes

\* Every such step has that effect.
LEMMA ReplayBatchFacts ==
  ASSUME BaseInv, ReplayBatch
  PROVE  ReplayedOne
<1> USE DEF BaseInv, Steady
<1>0. Steady
  BY SteadyFacts DEF ReplayBatch, Replay, actorVars
<1>1. ReplayedOne
  <2>1. replayed + 1 \in DOMAIN journal /\ replayed \in Nat
    BY <1>0 DEF StateTypes, Pending, ReplayBatch, Replay, actorVars
  <2>2. Pending \in Txs /\ Pending \in Actors
    BY <2>1, <1>0 DEF Pending
  <2>3. pc[Pending] = "done"
    BY <2>1, <2>2, <1>0 DEF JournalInv, EntriesInv, EntryOf, ControlInv, ControlOf, Pending, ReplayBatch, Replay, actorVars
  <2>4. Stamp(Pending) \/ (Rewritten = {} /\ UNCHANGED histVars)
    <3>1. CASE Reached(Pending) = {}
      BY <3>1 DEF Pending, Rewritten, ReplayBatch, Replay
    <3>2. CASE Reached(Pending) # {}
      <4>1. Replay(Pending, Reached(Pending))
        BY DEF Pending, ReplayBatch
      <4> HIDE DEF Pending
      <4> QED BY <3>2, <4>1, Zenon DEF Replay
    <3> QED BY <3>1, <3>2
  <2>5. /\ order' \in [Actors -> Nat] /\ first' \in [Actors -> Nat] /\ OrderInv'
        /\ \A b \in Actors \ {Pending} : order[b] = 0 => order'[b] = 0
    <3>1. CASE Stamp(Pending)
      BY <2>2, <3>1, <1>0, StampFacts DEF StateTypes
    <3>2. CASE UNCHANGED histVars
      BY <3>2, <1>0 DEF StateTypes, OrderInv, Ordered, histVars
    <3> QED BY <3>1, <3>2, <2>4
  <2> QED BY <2>1, <2>2, <2>3, <2>4, <2>5 DEF Pending, Rewritten, ReplayBatch, Replay, actorVars, ReplayedOne
<1> QED BY <1>1

\* Replaying one entry keeps the base invariant.
LEMMA ReplayBatchBase ==
  ASSUME BaseInv, ReplayBatch
  PROVE  BaseInv'
<1> USE DEF BaseInv, Steady, ReplayedOne
<1>00. ReplayedOne
  BY ReplayBatchFacts
<1>0. Steady
  BY <1>00, SteadyFacts
<1>1. StateTypes'
  <2>1. table' \in [Ids -> Values] /\ disk' \in [Ids -> SUBSET Values] /\ \A x \in Ids : table'[x] \in disk'[x]
    BY <1>00 DEF StateTypes, Values
  <2> QED BY <2>1, <1>0, <1>00 DEF StateTypes, Phases
<1>2. ActorTypes'
  BY <1>0, <1>00, ProgramFacts DEF StateTypes, ActorTypes, ControlInv, LockInv, ControlOf, PCs, Answers
<1>3. LockInv'
  BY <1>0, <1>00 DEF StateTypes, ActorTypes, ControlInv, LockInv, ControlOf
<1>4. ASSUME NEW b \in Actors PROVE ControlOf(b)'
  BY <1>0, <1>00 DEF StateTypes, ActorTypes, ControlInv, LockInv, ControlOf
<1>5. (~Journaled => journal = <<>>)'
  BY <1>0, <1>00 DEF ControlInv, ControlOf, JournalInv, EntriesInv
<1>6. (\A i, j \in DOMAIN journal : journal[i] = journal[j] => i = j)'
  BY <1>0, <1>00 DEF JournalInv, EntriesInv
<1>7. ASSUME NEW i \in DOMAIN journal' PROVE EntryOf(i)'
  BY <1>0, <1>00 DEF StateTypes, ActorTypes, ControlInv, LockInv, ControlOf, JournalInv, EntriesInv, EntryOf, GateOf
<1>8. (phase = "replay" => replayed <= Len(journal))'
  BY <1>0, <1>00 DEF StateTypes, JournalInv, EntriesInv
<1>9. ASSUME NEW b \in Actors PROVE GateOf(b)'
  BY <1>0, <1>00 DEF StateTypes, ActorTypes, ControlInv, LockInv, ControlOf, JournalInv, EntriesInv, EntryOf, GateOf
<1>10. ASSUME NEW b \in Actors PROVE FreshOf(b)'
  BY <1>0, <1>00 DEF ActorTypes, FreshInv, FreshOf, Waiting
<1>11. ASSUME NEW b \in Actors PROVE AppliedOf(b)'
  BY <1>0, <1>00 DEF ControlInv, ControlOf, ActorTypes, AppliedOf
<1>12. OrderInv'
  BY <1>00
<1> QED
  BY <1>0, <1>1, <1>2, <1>3, <1>4, <1>5, <1>6, <1>7, <1>8, <1>9, <1>10, <1>11, <1>12
  DEF ControlInv, JournalInv, EntriesInv, FreshInv

\* A single-record write, seen from outside
CallWritten(a) ==
  /\ phase = "up" /\ locked = {} /\ locked' = {} /\ pc[a] = "call" /\ a \notin Txs
  /\ Effect(a) \in {a, Absent} /\ (Program[a].kind = "delete" <=> Effect(a) = Absent)
  /\ pc' = [pc EXCEPT ![a] = "done"] /\ answer' = [answer EXCEPT ![a] = "ok"]
  /\ at' = at /\ turn' = turn /\ scenario' = scenario /\ reads' = reads /\ journal' = journal /\ phase' = phase
  /\ replayed' = replayed /\ crashes' = crashes
  /\ Target(a) \in Ids /\ Effect(a) \in Values /\ table' = [table EXCEPT ![Target(a)] = Effect(a)]
  /\ disk' \in [Ids -> SUBSET Values]
  /\ \A y \in Ids : table'[y] \in disk'[y] /\ disk'[y] \subseteq disk[y] \cup {Effect(a)} /\ (y # Target(a) => disk'[y] = disk[y])
  /\ Effect(a) = Absent => disk'[Target(a)] = {Absent}
  /\ Stamp(a) /\ order' \in [Actors -> Nat] /\ first' \in [Actors -> Nat] /\ OrderInv'
  /\ \A b \in Actors \ {a} : order[b] = 0 => order'[b] = 0

\* Every such step has that effect.
LEMMA CallWriteFacts ==
  ASSUME BaseInv, NEW a \in Actors, UpdateField(a) \/ InsertRecord(a) \/ ReplaceRecord(a) \/ DeleteRecord(a)
  PROVE  CallWritten(a)
<1> USE DEF BaseInv, Steady
<1>0. Steady
  BY SteadyFacts DEF UpdateField, InsertRecord, ReplaceRecord, DeleteRecord, Call, Free, SlotWrite, LoggedWrite, Answer, CallRest, lifeVars
<1>1. CallWritten(a)
  <2>1. a \notin Txs /\ Effect(a) \in {a, Absent} /\ (Program[a].kind = "delete" <=> Effect(a) = Absent)
    BY <1>0, ProgramFacts DEF ControlInv, ControlOf, Effect, UpdateField, InsertRecord, ReplaceRecord, DeleteRecord, Call, Free, SlotWrite, LoggedWrite, Answer, CallRest, lifeVars
  <2>2. Target(a) \in Ids /\ Effect(a) \in Values /\ table' = [table EXCEPT ![Target(a)] = Effect(a)]
    BY <1>0, <2>1, ProgramFacts DEF Values, Effect, UpdateField, InsertRecord, ReplaceRecord, DeleteRecord, Call, Free, SlotWrite, LoggedWrite, Answer, CallRest, lifeVars
  <2>3. disk' = [disk EXCEPT ![Target(a)] = disk[Target(a)] \cup {Effect(a)}] \/ disk' = [disk EXCEPT ![Target(a)] = {Effect(a)}]
    BY <2>1 DEF Effect, UpdateField, InsertRecord, ReplaceRecord, DeleteRecord, Call, Free, SlotWrite, LoggedWrite, Answer, CallRest, lifeVars
  <2>4. disk' \in [Ids -> SUBSET Values]
        /\ \A y \in Ids : table'[y] \in disk'[y] /\ disk'[y] \subseteq disk[y] \cup {Effect(a)} /\ (y # Target(a) => disk'[y] = disk[y])
    BY <2>2, <2>3 DEF StateTypes
  <2>5. Stamp(a) /\ order' \in [Actors -> Nat] /\ first' \in [Actors -> Nat] /\ OrderInv'
        /\ \A b \in Actors \ {a} : order[b] = 0 => order'[b] = 0
    BY <1>0, StampFacts DEF StateTypes, UpdateField, InsertRecord, ReplaceRecord, DeleteRecord, Call, Free, SlotWrite, LoggedWrite, Answer, CallRest, lifeVars
  <2>6. Effect(a) = Absent => disk'[Target(a)] = {Absent}
    BY <2>1, <2>2 DEF StateTypes, UpdateField, InsertRecord, ReplaceRecord, DeleteRecord, Call, Free, SlotWrite, LoggedWrite, Answer, CallRest, lifeVars
  <2> QED BY <2>1, <2>2, <2>4, <2>5, <2>6 DEF UpdateField, InsertRecord, ReplaceRecord, DeleteRecord, Call, Free, SlotWrite, LoggedWrite, Answer, CallRest, lifeVars, CallWritten
<1> QED BY <1>1

\* A single-record write, to memory or through the log, keeps the base invariant.
LEMMA CallWriteBase ==
  ASSUME BaseInv, NEW a \in Actors, UpdateField(a) \/ InsertRecord(a) \/ ReplaceRecord(a) \/ DeleteRecord(a)
  PROVE  BaseInv'
<1> USE DEF BaseInv, Steady, CallWritten
<1>00. CallWritten(a)
  BY CallWriteFacts
<1>0. Steady
  BY <1>00, SteadyFacts
<1>1. StateTypes'
  BY <1>0, <1>00, ProgramFacts DEF StateTypes, ActorTypes, LockInv, ControlOf, ControlInv, JournalInv, EntriesInv, GateOf, Phases
<1>2. ActorTypes'
  BY <1>0, <1>00, ProgramFacts DEF StateTypes, ActorTypes, ControlInv, LockInv, ControlOf, PCs, Answers
<1>3. LockInv'
  BY <1>0, <1>00 DEF StateTypes, ActorTypes, ControlInv, LockInv, ControlOf
<1>4. ASSUME NEW b \in Actors PROVE ControlOf(b)'
  BY <1>0, <1>00 DEF StateTypes, ActorTypes, ControlInv, LockInv, ControlOf
<1>5. (~Journaled => journal = <<>>)'
  BY <1>0, <1>00 DEF ControlInv, ControlOf, JournalInv, EntriesInv
<1>6. (\A i, j \in DOMAIN journal : journal[i] = journal[j] => i = j)'
  BY <1>0, <1>00 DEF JournalInv, EntriesInv
<1>7. ASSUME NEW i \in DOMAIN journal' PROVE EntryOf(i)'
  BY <1>0, <1>00 DEF StateTypes, ActorTypes, ControlInv, LockInv, ControlOf, JournalInv, EntriesInv, EntryOf, GateOf
<1>8. (phase = "replay" => replayed <= Len(journal))'
  BY <1>0, <1>00 DEF StateTypes, JournalInv, EntriesInv
<1>9. ASSUME NEW b \in Actors PROVE GateOf(b)'
  BY <1>0, <1>00 DEF StateTypes, ActorTypes, ControlInv, LockInv, ControlOf, JournalInv, EntriesInv, EntryOf, GateOf
<1>10. ASSUME NEW b \in Actors PROVE FreshOf(b)'
  <2>1. Absent \notin Actors
    BY <1>0, ProgramFacts
  <2> SUFFICES ASSUME pc'[b] \in Waiting
                PROVE  order'[b] = 0 /\ (\A y \in Ids : b \notin disk'[y])
                       /\ \A c \in Actors : \A y \in DOMAIN reads[c] : reads[c][y] # b
    BY <1>0, <1>00 DEF FreshOf, Waiting
  <2>2. b # a /\ order[b] = 0 /\ (\A y \in Ids : b \notin disk[y])
        /\ \A c \in Actors : \A y \in DOMAIN reads[c] : reads[c][y] # b
    BY <1>00 DEF ActorTypes, FreshInv, FreshOf, Waiting
  <2> QED BY <2>1, <2>2, <1>00
<1>11. ASSUME NEW b \in Actors PROVE AppliedOf(b)'
  BY <1>0, <1>00 DEF ControlInv, ControlOf, ActorTypes, AppliedOf
<1>12. OrderInv'
  BY <1>00
<1> QED
  BY <1>0, <1>1, <1>2, <1>3, <1>4, <1>5, <1>6, <1>7, <1>8, <1>9, <1>10, <1>11, <1>12
  DEF ControlInv, JournalInv, EntriesInv, FreshInv

\* One operation of a batch written, seen from outside
ApplyWritten(a) ==
  /\ phase = "up" /\ locked = {a} /\ locked' = {a} /\ pc[a] = "apply" /\ a \in Txs
  /\ \/ at[a] < Ops(a) /\ at' = [at EXCEPT ![a] = at[a] + 1] /\ pc' = pc
     \/ at[a] = Ops(a) /\ at' = at /\ pc' = [pc EXCEPT ![a] = "leave"]
  /\ answer' = answer /\ turn' = turn /\ scenario' = scenario /\ reads' = reads /\ journal' = journal /\ phase' = phase
  /\ replayed' = replayed /\ crashes' = crashes
  /\ OpId(a) \in Ids /\ a \in Values /\ table' = [table EXCEPT ![OpId(a)] = a]
  /\ disk' \in [Ids -> SUBSET Values]
  /\ \A y \in Ids : table'[y] \in disk'[y] /\ disk'[y] \subseteq disk[y] \cup {a} /\ (y # OpId(a) => disk'[y] = disk[y])
  /\ Stamp(a) /\ order' \in [Actors -> Nat] /\ first' \in [Actors -> Nat] /\ OrderInv'
  /\ \A b \in Actors \ {a} : order[b] = 0 => order'[b] = 0
  /\ Ops(a) \in Nat /\ at[a] \in 1 .. Ops(a) /\ at \in [Actors -> Nat] /\ OpId(a) \in WrittenBy(a)
  /\ table[OpId(a)] # Absent

\* Every such step has that effect.
LEMMA ApplyWriteFacts ==
  ASSUME BaseInv, NEW a \in Actors, ApplyOp(a), table[OpId(a)] # Absent
  PROVE  ApplyWritten(a)
<1> USE DEF BaseInv, Steady
<1>0. Steady
  BY SteadyFacts DEF ApplyOp, OpId, Ops, SlotWrite, lifeVars
<1>1. ApplyWritten(a)
  <2>1. a \in Txs /\ Ops(a) \in Nat /\ at[a] \in 1 .. Ops(a) /\ at \in [Actors -> Nat] /\ OpId(a) \in WrittenBy(a)
    BY <1>0, ProgramFacts DEF ControlInv, ControlOf, ActorTypes, ApplyOp, OpId, Ops, SlotWrite, lifeVars
  <2>2. OpId(a) \in Ids /\ a \in Values /\ table' = [table EXCEPT ![OpId(a)] = a]
    BY <1>0, <2>1, ProgramFacts DEF Values, ApplyOp, OpId, Ops, SlotWrite, lifeVars
  <2>3. disk' = [disk EXCEPT ![OpId(a)] = disk[OpId(a)] \cup {a}] \/ disk' = [disk EXCEPT ![OpId(a)] = {a}]
    BY <2>1 DEF ApplyOp, OpId, Ops, SlotWrite, lifeVars
  <2>4. disk' \in [Ids -> SUBSET Values]
        /\ \A y \in Ids : table'[y] \in disk'[y] /\ disk'[y] \subseteq disk[y] \cup {a} /\ (y # OpId(a) => disk'[y] = disk[y])
    BY <2>2, <2>3 DEF StateTypes
  <2>5. Stamp(a) /\ order' \in [Actors -> Nat] /\ first' \in [Actors -> Nat] /\ OrderInv'
        /\ \A b \in Actors \ {a} : order[b] = 0 => order'[b] = 0
    BY <1>0, StampFacts DEF StateTypes, ApplyOp, OpId, Ops, SlotWrite, lifeVars
  <2>6. \/ at[a] < Ops(a) /\ at' = [at EXCEPT ![a] = at[a] + 1] /\ pc' = pc
        \/ at[a] = Ops(a) /\ at' = at /\ pc' = [pc EXCEPT ![a] = "leave"]
    BY <2>1 DEF ApplyOp, OpId, Ops, SlotWrite, lifeVars
  <2> QED BY <2>1, <2>2, <2>4, <2>5, <2>6 DEF ApplyOp, OpId, Ops, SlotWrite, lifeVars, ApplyWritten
<1> QED BY <1>1

\* Writing one operation of a batch keeps the base invariant.
LEMMA ApplyWriteBase ==
  ASSUME BaseInv, NEW a \in Actors, ApplyOp(a), table[OpId(a)] # Absent
  PROVE  BaseInv'
<1> USE DEF BaseInv, Steady, ApplyWritten
<1>00. ApplyWritten(a)
  BY ApplyWriteFacts
<1>0. Steady
  BY <1>00, SteadyFacts
<1>01. /\ pc' \in [Actors -> PCs] /\ at' \in [Actors -> Nat] /\ pc'[a] \in {"apply", "leave"}
       /\ at'[a] \in 1 .. Ops(a) /\ (pc'[a] = "leave" => at'[a] = Ops(a))
       /\ \A b \in Actors : b # a => pc'[b] = pc[b] /\ at'[b] = at[b]
  <2>1. CASE pc' = pc
    BY <2>1, <1>00 DEF ActorTypes
  <2>2. CASE pc' # pc
    BY <2>2, <1>00 DEF ActorTypes, PCs
  <2> QED BY <2>1, <2>2
<1>02. \A b \in Actors : b # a => pc[b] \notin {"apply", "leave"}
  <2>1. locked = {a}
    BY <1>00
  <2> QED BY <2>1 DEF ControlInv, ControlOf
<1>1. StateTypes'
  <2>1. table' \in [Ids -> Values] /\ disk' \in [Ids -> SUBSET Values] /\ \A y \in Ids : table'[y] \in disk'[y]
    BY <1>00 DEF StateTypes
  <2> QED BY <1>0, <1>00, <2>1 DEF StateTypes
<1>2. ActorTypes'
  BY <1>0, <1>00, <1>01 DEF ActorTypes, Ops
<1>3. LockInv'
  BY <1>0, <1>00, <1>01 DEF LockInv
<1>4. ASSUME NEW b \in Actors PROVE ControlOf(b)'
  <2>1. CASE b # a
    BY <2>1, <1>0, <1>00, <1>01, <1>02 DEF ControlInv, ControlOf
  <2>2. CASE b = a
    BY <2>2, <1>0, <1>00, <1>01 DEF ControlInv, ControlOf, Ops
  <2> QED BY <2>1, <2>2
<1>5. (~Journaled => journal = <<>>)'
  BY <1>0, <1>00 DEF ControlInv, ControlOf, JournalInv, EntriesInv
<1>6. (\A i, j \in DOMAIN journal : journal[i] = journal[j] => i = j)'
  BY <1>0, <1>00 DEF JournalInv, EntriesInv
<1>7. ASSUME NEW i \in DOMAIN journal' PROVE EntryOf(i)'
  <2>1. journal[i] \in Actors /\ i \in DOMAIN journal
    BY <1>0, <1>00
  <2>2. CASE journal[i] # a
    BY <2>1, <2>2, <1>00, <1>01 DEF JournalInv, EntriesInv, EntryOf
  <2>3. CASE journal[i] = a
    BY <2>1, <2>3, <1>00, <1>01 DEF JournalInv, EntriesInv, EntryOf
  <2> QED BY <2>2, <2>3
<1>8. (phase = "replay" => replayed <= Len(journal))'
  BY <1>0, <1>00 DEF StateTypes, JournalInv, EntriesInv
<1>9. ASSUME NEW b \in Actors PROVE GateOf(b)'
  <2>1. CASE b # a
    BY <2>1, <1>0, <1>00, <1>01, <1>02 DEF JournalInv, GateOf
  <2>2. CASE b = a
    BY <2>2, <1>0, <1>00, <1>01 DEF JournalInv, GateOf
  <2> QED BY <2>1, <2>2
<1>10. ASSUME NEW b \in Actors PROVE FreshOf(b)'
  <2>1. pc'[b] \in Waiting => b # a /\ pc[b] \in Waiting
    BY <1>01 DEF Waiting
  <2> SUFFICES ASSUME pc'[b] \in Waiting
                PROVE  order'[b] = 0 /\ (\A y \in Ids : b \notin disk'[y])
                       /\ \A c \in Actors : \A y \in DOMAIN reads[c] : reads[c][y] # b
    BY <1>0, <1>00 DEF FreshOf, Waiting
  <2>2. b # a /\ order[b] = 0 /\ (\A y \in Ids : b \notin disk[y])
        /\ \A c \in Actors : \A y \in DOMAIN reads[c] : reads[c][y] # b
    BY <2>1 DEF FreshInv, FreshOf
  <2> QED BY <2>2, <1>00
<1>11. ASSUME NEW b \in Actors PROVE AppliedOf(b)'
  <2>1. CASE b # a
    BY <2>1, <1>0, <1>00, <1>01, <1>02 DEF AppliedOf
  <2>2. CASE b = a
    <3> DEFINE ids == Program[a].ids
    <3>1. /\ \A i \in 1 .. Ops(a) : i < at[a] => table[ids[i]] = a
          /\ \A y \in Ids : table[y] = a => y \in WrittenBy(a)
          /\ ~Journaled => \A y \in WrittenBy(a) : table[y] # Absent
          /\ \A i \in 1 .. Ops(a) : ids[i] \in WrittenBy(a) /\ ids[i] \in Ids
          /\ WrittenBy(a) \subseteq Ids /\ a # Absent /\ OpId(a) = ids[at[a]]
      <4>1. AppliedOf(a) /\ pc[a] = "apply" /\ a \in Actors /\ OpId(a) = ids[at[a]] /\ Ops(a) = Len(ids)
        BY <1>00 DEF FreshInv, Ops, OpId
      <4>2. /\ WrittenBy(a) \subseteq Ids /\ a # Absent /\ ids \in Seq(Ids)
            /\ \A i \in DOMAIN ids : ids[i] \in WrittenBy(a)
        BY <1>0, ProgramFacts
      <4>3. \A i \in 1 .. Ops(a) : ids[i] \in WrittenBy(a) /\ ids[i] \in Ids
        BY <4>1, <4>2
      <4> QED BY <4>1, <4>2, <4>3 DEF AppliedOf
    <3> HIDE DEF ids
    <3>2. /\ \A i \in 1 .. Ops(a) : i <= at[a] => table'[ids[i]] = a
          /\ \A y \in Ids : table'[y] = a => y \in WrittenBy(a)
          /\ ~Journaled => \A y \in WrittenBy(a) : table'[y] # Absent
      <4>1. \A y \in Ids : table'[y] = IF y = OpId(a) THEN a ELSE table[y]
        BY <1>00 DEF StateTypes
      <4>2. OpId(a) \in WrittenBy(a) /\ at[a] \in 1 .. Ops(a) /\ Ops(a) \in Nat
        BY <1>00
      <4>3. \A i \in 1 .. Ops(a) : i <= at[a] => i < at[a] \/ i = at[a]
        BY <4>2
      <4> QED BY <3>1, <4>1, <4>2, <4>3
    <3>3. \A i \in 1 .. Ops(a) : i < at'[a] \/ pc'[a] = "leave" => table'[ids[i]] = a
      BY <3>2, <1>00, <1>01
    <3> QED BY <2>2, <3>2, <3>3, <1>0 DEF AppliedOf, ids, Ops
  <2> QED BY <2>1, <2>2
<1>12. OrderInv'
  BY <1>00
<1> QED
  BY <1>0, <1>1, <1>2, <1>3, <1>4, <1>5, <1>6, <1>7, <1>8, <1>9, <1>10, <1>11, <1>12
  DEF ControlInv, JournalInv, EntriesInv, FreshInv
\* The base invariant holds when the adapter opens.
LEMMA BaseInit == Init => BaseInv
<1> SUFFICES ASSUME Init PROVE BaseInv
  OBVIOUS
<1> USE DEF Init
<1>1. scenario \in Scenarios /\ phase = "up" /\ crashes = 0 /\ replayed = 0 /\ locked = {}
  OBVIOUS
<1>2. journal \in Seq(Txs) /\ Len(journal) = 0 /\ turn = 0 /\ DOMAIN journal = {}
  OBVIOUS
<1>3. StateTypes
  BY <1>1, <1>2, ProgramFacts DEF StateTypes, Values, Phases
<1>4. ActorTypes
  BY <1>1, ProgramFacts DEF ActorTypes, PCs, Answers
<1>5. ControlInv
  BY <1>1, ProgramFacts DEF ControlInv, ControlOf, LockInv
<1>6. JournalInv
  BY <1>1, <1>2 DEF JournalInv, EntriesInv, GateOf
<1>7. FreshInv
  BY <1>1, ProgramFacts DEF FreshInv, FreshOf, AppliedOf, Waiting
<1>8. OrderInv
  <2>1. Ordered = {}
    BY DEF Ordered
  <2>2. Cardinality(Ordered) = 0
    BY <2>1, FS_EmptySet
  <2> QED BY <2>1, <2>2 DEF OrderInv
<1> QED BY <1>3, <1>4, <1>5, <1>6, <1>7, <1>8 DEF BaseInv

\* A step that changes nothing keeps it.
LEMMA BaseStutter == ASSUME BaseInv, UNCHANGED vars PROVE BaseInv'
<1>1. StateTypes' /\ ActorTypes' /\ OrderInv'
  BY DEF BaseInv, vars, StateTypes, ActorTypes, OrderInv, Ordered, Actors, Program, Txs, Values
<1>2. ControlInv' /\ FreshInv'
  BY DEF BaseInv, vars, ControlInv, LockInv, ControlOf, FreshInv, FreshOf, AppliedOf, Journaled, Actors, Program, Txs, WrittenBy, Waiting
<1>3. JournalInv'
  BY DEF BaseInv, vars, JournalInv, EntriesInv, EntryOf, GateOf, Journaled, Actors, Program, Txs
<1> QED BY <1>1, <1>2, <1>3 DEF BaseInv

\* Every step keeps the base invariant.
LEMMA BaseStep == BaseInv /\ [Next]_vars => BaseInv'
<1> SUFFICES ASSUME BaseInv, [Next]_vars PROVE BaseInv'
  OBVIOUS
<1>1. ASSUME NEW a \in Actors,
             UpdateField(a) \/ InsertRecord(a) \/ ReplaceRecord(a) \/ DeleteRecord(a)
      PROVE  BaseInv'
  <2>1. CASE DeleteRecord(a)
    BY <2>1, CallWriteBase DEF DeleteRecord, Call, LoggedWrite
  <2>2. CASE InsertRecord(a)
    BY <2>2, CallWriteBase DEF InsertRecord, Call, LoggedWrite
  <2>3. CASE UpdateField(a)
    BY <2>3, CallWriteBase DEF UpdateField, Call, SlotWrite
  <2>4. CASE ReplaceRecord(a)
    BY <2>4, CallWriteBase DEF ReplaceRecord, Call, SlotWrite
  <2> QED BY <1>1, <2>1, <2>2, <2>3, <2>4
<1>2. ASSUME NEW a \in Actors, ApplyOp(a) PROVE BaseInv'
  BY <1>2, ApplyWriteBase, ApplyStopBase
<1>3. ASSUME NEW a \in Actors,
             CallRefused(a) \/ Read(a) \/ Commit(a) \/ Validate(a) \/ Journal(a)
               \/ JournalFails(a) \/ Enter(a) \/ EnterUnjournaled(a) \/ Leave(a)
      PROVE  BaseInv'
  BY <1>3, CallRefusedBase, ReadBase, CommitBase, ValidateBase, JournalBase, JournalFailsBase,
     EnterBase, EnterUnjournaledBase, LeaveBase
<1> QED BY <1>1, <1>2, <1>3, SkipRefusedBase, CrashBase, ReplayBatchBase, OpenBase, BaseStutter
        DEF Next

\* In every reachable state the base invariant holds: locks, journal, gate and stamps.
THEOREM BaseInvariant == Spec => []BaseInv
  BY BaseInit, BaseStep, PTL DEF Spec

------------------------------------------------------------------------------
(* Second part: what a table promises its clients *)

\* A transaction leaves its own name.
LEMMA TxEffect == \A a \in Txs : a \in Actors /\ Effect(a) = a
  BY DEF Txs, Effect

\* An append adds its batch to the entries and keeps the others where they are.
LEMMA EntriesGrow ==
  ASSUME BaseInv, NEW a \in Actors, pc[a] = "journal", journal' = Append(journal, a)
  PROVE  /\ DOMAIN journal' = 1 .. Len(journal) + 1 /\ journal'[Len(journal) + 1] = a
         /\ \A i \in 1 .. Len(journal) : journal'[i] = journal[i]
         /\ Entries' = Entries \cup {a}
<1>1. a \in Txs /\ journal \in Seq(Txs) /\ Len(journal) \in Nat /\ DOMAIN journal = 1 .. Len(journal)
  BY JournalFacts DEF BaseInv, StateTypes, ControlInv, ControlOf
<1>2. /\ DOMAIN journal' = 1 .. Len(journal) + 1 /\ journal'[Len(journal) + 1] = a
      /\ \A i \in 1 .. Len(journal) : journal'[i] = journal[i]
  BY <1>1
<1>3. Entries' = Entries \cup {a}
  BY <1>1, <1>2 DEF Entries
<1> QED BY <1>1, <1>2, <1>3

------------------------------------------------------------------------------
(* Snapshot sessions                                                       *)

\* A batch let into the section, journaled or not.
Granted(a) ==
  /\ phase = "up" /\ locked = {} /\ pc[a] \in {"turn", "validate"} /\ at[a] = 1 /\ a \in Txs
  /\ pc' = [pc EXCEPT ![a] = "apply"] /\ answer' = answer /\ ~Stale(a)
  /\ scenario' = scenario /\ table' = table /\ disk' = disk /\ at' = at /\ reads' = reads
  /\ crashes' = crashes /\ phase' = phase /\ order' = order /\ first' = first

\* A session in its section, or past it, wrote over what it read, which is never
\* seen again.
Winner(a) == pc[a] \in {"apply", "leave"} \/ answer[a] = "ok"
Unwritten(a, x) ==
  pc[a] = "apply" /\ \A i \in 1 .. Ops(a) : i < at[a] => Program[a].ids[i] # x
FoundOf(a) == \A x \in DOMAIN reads[a] : reads[a][x] # Absent
ReadOf(a) ==
  Winner(a) => \A x \in DOMAIN reads[a] \cap WrittenBy(a) :
    /\ reads[a][x] \in Actors => pc[reads[a][x]] = "done"
    /\ Unwritten(a, x) => table[x] = reads[a][x]
    /\ ~Unwritten(a, x) => table[x] # reads[a][x]
PairOf(a, b) ==
  a # b /\ Winner(a) /\ Winner(b) =>
    \A x \in DOMAIN reads[a] \cap DOMAIN reads[b] \cap WrittenBy(a) \cap WrittenBy(b) :
      reads[a][x] # reads[b][x]
ReadInv == \A a \in Txs : FoundOf(a) /\ ReadOf(a) /\ \A b \in Txs : PairOf(a, b)

\* What a granted batch knows.
LEMMA GrantedFacts ==
  ASSUME BaseInv, NEW a \in Actors, Enter(a) \/ EnterUnjournaled(a), locked' # {}
  PROVE  Granted(a)
<1>1. CASE Enter(a)
  <2>1. Entered(a)
    BY <1>1, EnterFacts
  <2> QED BY <2>1 DEF Entered, Granted, BaseInv, ControlInv, ControlOf
<1>2. CASE EnterUnjournaled(a)
  BY <1>2 DEF EnterUnjournaled, Free, Granted, BaseInv, ControlInv, ControlOf, lifeVars, histVars
<1> QED BY <1>1, <1>2

\* A step that leaves the table, the snapshots and those in the section alone.
LEMMA ReadQuiet ==
  ASSUME ReadInv, Steady, table' = table, reads' = reads,
         \A b \in Actors : pc[b] = "done" => pc'[b] = "done",
         \A b \in Actors : Winner(b)' => /\ Winner(b) /\ (pc'[b] = "apply" <=> pc[b] = "apply")
                                         /\ (pc'[b] = "apply" => at'[b] = at[b])
  PROVE  ReadInv'
<1> USE DEF Steady
<1>0. Txs \subseteq Actors
  BY DEF Txs
<1>1. ASSUME NEW a \in Txs PROVE FoundOf(a)'
  BY DEF ReadInv, FoundOf
<1>2. ASSUME NEW a \in Txs PROVE ReadOf(a)'
  <2> SUFFICES ASSUME Winner(a)', NEW x \in DOMAIN reads[a] \cap WrittenBy(a)
               PROVE  /\ reads[a][x] \in Actors => pc'[reads[a][x]] = "done"
                      /\ Unwritten(a, x)' => table[x] = reads[a][x]
                      /\ ~Unwritten(a, x)' => table[x] # reads[a][x]
    BY DEF ReadOf
  <2>1. Winner(a) /\ (Unwritten(a, x)' <=> Unwritten(a, x))
    BY <1>0 DEF Unwritten, Ops
  <2> QED BY <2>1 DEF ReadInv, ReadOf
<1>3. ASSUME NEW a \in Txs, NEW b \in Txs PROVE PairOf(a, b)'
  BY <1>0 DEF ReadInv, PairOf
<1> QED BY <1>1, <1>2, <1>3 DEF ReadInv

\* Nothing is read: a crash emptied every snapshot.
LEMMA ReadEmpty ==
  ASSUME Steady, \A b \in Actors : DOMAIN reads'[b] = {}
  PROVE  ReadInv'
<1>1. Txs \subseteq Actors
  BY DEF Txs
<1> QED BY <1>1 DEF Steady, ReadInv, FoundOf, ReadOf, PairOf

\* A single-record write overwrites what others read with a value nobody has read.
LEMMA ReadCall == ASSUME BaseInv, ReadInv, NEW a \in Actors, CallWritten(a) PROVE ReadInv'
<1> USE DEF BaseInv, CallWritten
<1>0. Steady /\ Txs \subseteq Actors
  BY SteadyFacts DEF Txs
<1>1. \A b \in Txs : /\ b # a /\ pc'[b] = pc[b] /\ answer'[b] = answer[b] /\ pc[b] \notin {"apply", "leave"}
  BY <1>0 DEF ControlInv, ControlOf, ActorTypes
<1>2. \A b \in Txs : (Winner(b)' <=> Winner(b)) /\ reads'[b] = reads[b]
                     /\ \A x : ~Unwritten(b, x) /\ ~Unwritten(b, x)'
  BY <1>1 DEF Winner, Unwritten
<1>3. \A b \in Actors : pc[b] = "done" => pc'[b] = "done" /\ b # a
  BY DEF ActorTypes
<1>4. ASSUME NEW b \in Txs PROVE FoundOf(b)'
  BY <1>2 DEF ReadInv, FoundOf
<1>5. ASSUME NEW b \in Txs PROVE ReadOf(b)'
  <2> SUFFICES ASSUME Winner(b)', NEW x \in DOMAIN reads[b] \cap WrittenBy(b)
               PROVE  (reads[b][x] \in Actors => pc'[reads[b][x]] = "done") /\ table'[x] # reads[b][x]
    BY <1>0, <1>2 DEF ReadOf, Steady
  <2>1. /\ reads[b][x] # Absent
        /\ reads[b][x] \in Actors => pc[reads[b][x]] = "done"
        /\ table[x] # reads[b][x]
    BY <1>2 DEF ReadInv, ReadOf, FoundOf
  <2>2. x \in Ids
    BY <1>0 DEF ActorTypes
  <2>3. table'[x] \in {table[x], a, Absent}
    BY <2>2 DEF StateTypes
  <2> QED BY <2>1, <2>3, <1>3
<1>6. ASSUME NEW b \in Txs, NEW c \in Txs PROVE PairOf(b, c)'
  BY <1>0, <1>2 DEF ReadInv, PairOf, Steady
<1> QED BY <1>0, <1>4, <1>5, <1>6 DEF ReadInv, Steady

\* One operation of a batch overwrites what its own session read, and no other's.
LEMMA ReadApply == ASSUME BaseInv, ReadInv, NEW a \in Actors, ApplyWritten(a) PROVE ReadInv'
<1> USE DEF BaseInv, ApplyWritten
<1>0. Steady /\ Txs \subseteq Actors
  BY SteadyFacts DEF Txs
<1>1. \A b \in Actors : b # a => /\ pc'[b] = pc[b] /\ answer'[b] = answer[b] /\ at'[b] = at[b]
                                 /\ pc[b] \notin {"apply", "leave"}
  <2>1. locked = {a}
    OBVIOUS
  <2>2. \A b \in Actors : b # a => pc[b] \notin {"apply", "leave"}
    BY <2>1 DEF ControlInv, ControlOf
  <2> QED BY <2>2 DEF ActorTypes
<1>2. /\ pc[a] = "apply" /\ pc'[a] \in {"apply", "leave"} /\ OpId(a) = Program[a].ids[at[a]]
      /\ Ops(a) \in Nat /\ at[a] \in 1 .. Ops(a)
      /\ \/ pc'[a] = "apply" /\ at'[a] = at[a] + 1
         \/ pc'[a] = "leave" /\ at[a] = Ops(a)
  BY DEF ActorTypes, OpId
<1>3. \A b \in Txs : (Winner(b)' <=> Winner(b)) /\ reads'[b] = reads[b]
  BY <1>0, <1>1, <1>2 DEF Winner
<1>4. \A b \in Txs, x \in Ids : b # a => ~Unwritten(b, x) /\ ~Unwritten(b, x)'
  BY <1>0, <1>1 DEF Unwritten
<1>5. \A x \in WrittenBy(a) : Unwritten(a, x)' <=> Unwritten(a, x) /\ x # OpId(a)
  <2> SUFFICES ASSUME NEW x \in WrittenBy(a)
               PROVE  Unwritten(a, x)' <=> Unwritten(a, x) /\ x # OpId(a)
    OBVIOUS
  <2>1. Program' = Program /\ Ops(a)' = Ops(a)
    BY <1>0 DEF Steady, Ops
  <2>2. CASE pc'[a] = "apply"
    BY <2>1, <2>2, <1>2 DEF Unwritten
  <2>3. CASE pc'[a] = "leave"
    <3>1. PICK i \in DOMAIN Program[a].ids : x = Program[a].ids[i]
      BY DEF WrittenBy
    <3>2. i \in 1 .. Ops(a)
      BY <3>1, <1>0, ProgramFacts DEF Steady, Ops
    <3>3. i = at[a] \/ i < at[a]
      BY <3>2, <2>3, <1>2
    <3> QED BY <2>3, <3>1, <3>2, <3>3, <1>2 DEF Unwritten
  <2> QED BY <2>2, <2>3, <1>2
<1>6. \A b \in Actors : pc[b] = "done" => pc'[b] = "done" /\ b # a
  BY <1>1, <1>2
<1>7. \A x \in Ids : table'[x] = IF x = OpId(a) THEN a ELSE table[x]
  BY DEF StateTypes
<1>8. ASSUME NEW b \in Txs PROVE FoundOf(b)'
  BY <1>3 DEF ReadInv, FoundOf
<1>9. ASSUME NEW b \in Txs PROVE ReadOf(b)'
  <2> SUFFICES ASSUME Winner(b), NEW x \in DOMAIN reads[b] \cap WrittenBy(b)
               PROVE  /\ reads[b][x] \in Actors => pc'[reads[b][x]] = "done"
                      /\ Unwritten(b, x)' => table'[x] = reads[b][x]
                      /\ ~Unwritten(b, x)' => table'[x] # reads[b][x]
    BY <1>0, <1>3 DEF ReadOf, Steady
  <2>1. /\ reads[b][x] # Absent
        /\ reads[b][x] \in Actors => pc[reads[b][x]] = "done"
        /\ Unwritten(b, x) => table[x] = reads[b][x]
        /\ ~Unwritten(b, x) => table[x] # reads[b][x]
    BY DEF ReadInv, ReadOf, FoundOf
  <2>2. x \in Ids
    BY <1>0 DEF ActorTypes
  <2>3. reads[b][x] # a
    BY <2>1, <1>6
  <2>4. CASE b = a
    BY <2>1, <2>2, <2>3, <2>4, <1>5, <1>6, <1>7
  <2>5. CASE b # a
    BY <2>1, <2>2, <2>3, <2>5, <1>4, <1>6, <1>7
  <2> QED BY <2>4, <2>5
<1>10. ASSUME NEW b \in Txs, NEW c \in Txs PROVE PairOf(b, c)'
  BY <1>0, <1>3 DEF ReadInv, PairOf, Steady
<1> QED BY <1>0, <1>8, <1>9, <1>10 DEF ReadInv, Steady

\* A batch let in read what the table still holds, and no earlier winner did.
LEMMA ReadGranted == ASSUME BaseInv, ReadInv, NEW a \in Actors, Granted(a) PROVE ReadInv'
<1> USE DEF BaseInv, Granted
<1>0. Steady /\ Txs \subseteq Actors
  BY SteadyFacts DEF Txs
<1>1. \A b \in Actors : /\ pc[b] \notin {"apply", "leave"}
                        /\ b # a => pc'[b] = pc[b]
  BY DEF ControlInv, ControlOf, ActorTypes
<1>2. /\ pc'[a] = "apply" /\ \A x \in Ids : Unwritten(a, x)'
      /\ Winner(a)'
  BY <1>0, ProgramFacts DEF Unwritten, Steady, Ops, ActorTypes, Winner
<1>3. \A b \in Txs \ {a} : /\ Winner(b)' <=> Winner(b)
                           /\ \A x \in Ids : ~Unwritten(b, x) /\ ~Unwritten(b, x)'
  BY <1>0, <1>1 DEF Winner, Unwritten
<1>4. \A x \in DOMAIN reads[a] : reads[a][x] = table[x] /\ x \in Ids
  BY DEF Stale, ActorTypes
<1>5. \A b \in Actors : pc[b] = "done" => pc'[b] = "done"
  BY <1>1
<1>6. \A x \in Ids : table[x] \in Actors => pc[table[x]] = "done"
  <2> SUFFICES ASSUME NEW x \in Ids, table[x] \in Actors PROVE pc[table[x]] = "done"
    OBVIOUS
  <2>1. table[x] \in disk[x]
    BY DEF StateTypes
  <2>2. pc[table[x]] \notin Waiting
    BY <2>1 DEF FreshInv, FreshOf
  <2> QED BY <2>2, <1>1 DEF Waiting, ActorTypes, PCs
<1>7. ASSUME NEW b \in Txs PROVE FoundOf(b)'
  BY DEF ReadInv, FoundOf
<1>8. ASSUME NEW b \in Txs PROVE ReadOf(b)'
  <2>1. CASE b = a
    <3> SUFFICES ASSUME NEW x \in DOMAIN reads[a] \cap WrittenBy(a)
                 PROVE  /\ reads[a][x] \in Actors => pc'[reads[a][x]] = "done"
                        /\ Unwritten(a, x)' /\ table[x] = reads[a][x]
      BY <1>0, <2>1 DEF ReadOf, Steady
    <3> QED BY <1>2, <1>4, <1>5, <1>6
  <2>2. CASE b # a
    BY <2>2, <1>0, <1>3, <1>5 DEF ReadInv, ReadOf, ActorTypes, Steady
  <2> QED BY <2>1, <2>2
<1>9. ASSUME NEW b \in Txs PROVE PairOf(a, b)' /\ PairOf(b, a)'
  <2> SUFFICES ASSUME b # a, Winner(b), NEW x \in DOMAIN reads[a] \cap DOMAIN reads[b] \cap WrittenBy(a) \cap WrittenBy(b)
               PROVE  reads[a][x] # reads[b][x]
    BY <1>0, <1>3 DEF PairOf, Steady
  <2> QED BY <1>3, <1>4 DEF ReadInv, ReadOf
<1>10. ASSUME NEW b \in Txs, NEW c \in Txs, b # a, c # a PROVE PairOf(b, c)'
  BY <1>0, <1>3, <1>10 DEF ReadInv, PairOf, Steady
<1> QED BY <1>0, <1>7, <1>8, <1>9, <1>10 DEF ReadInv, Steady

\* A session that reads has not won.
LEMMA ReadRead == ASSUME BaseInv, ReadInv, NEW a \in Actors, Read(a) PROVE ReadInv'
<1> USE DEF BaseInv
<1>0. Steady /\ Txs \subseteq Actors /\ table' = table /\ pc' = pc /\ answer' = answer /\ at' = at
  BY SteadyFacts DEF Txs, Read, lifeVars
<1>1. ~Winner(a) /\ ~Winner(a)' /\ \A b \in Actors : Winner(b)' <=> Winner(b)
  BY <1>0 DEF Read, Winner, ControlInv, ControlOf
<1>2. /\ \A b \in Actors : b # a => reads'[b] = reads[b]
      /\ \A x \in DOMAIN reads'[a] : \/ reads'[a][x] = table[x] /\ table[x] # Absent
                                     \/ x \in DOMAIN reads[a] /\ reads'[a][x] = reads[a][x]
  <2>1. PICK x \in Program[a].reads :
          /\ table[x] # Absent
          /\ reads' = [reads EXCEPT ![a] = [y \in DOMAIN reads[a] \cup {x} |->
                                              IF y = x THEN table[x] ELSE reads[a][y]]]
    BY DEF Read
  <2> DEFINE new == [y \in DOMAIN reads[a] \cup {x} |-> IF y = x THEN table[x] ELSE reads[a][y]]
  <2>2. reads'[a] = new /\ \A b \in Actors : b # a => reads'[b] = reads[b]
    BY <2>1 DEF ActorTypes
  <2>3. \A y \in DOMAIN new : \/ new[y] = table[y] /\ table[y] # Absent
                              \/ y \in DOMAIN reads[a] /\ new[y] = reads[a][y]
    BY <2>1
  <2> HIDE DEF new
  <2> QED BY <2>2, <2>3
<1>3. ASSUME NEW b \in Txs PROVE FoundOf(b)'
  BY <1>0, <1>2 DEF ReadInv, FoundOf
<1>4. ASSUME NEW b \in Txs PROVE ReadOf(b)'
  <2>1. CASE b = a
    BY <2>1, <1>1 DEF ReadOf
  <2>2. CASE b # a
    <3>1. reads'[b] = reads[b] /\ \A x : Unwritten(b, x)' <=> Unwritten(b, x)
      BY <2>2, <1>0, <1>2 DEF Unwritten, Ops, Steady
    <3> QED BY <3>1, <1>0, <1>1 DEF ReadInv, ReadOf, Steady
  <2> QED BY <2>1, <2>2
<1>5. ASSUME NEW b \in Txs, NEW c \in Txs PROVE PairOf(b, c)'
  BY <1>0, <1>1, <1>2 DEF ReadInv, PairOf, Steady
<1> QED BY <1>0, <1>3, <1>4, <1>5 DEF ReadInv, Steady

\* Every step keeps ReadInv.
LEMMA ReadStep == ASSUME BaseInv, ReadInv, [Next]_vars PROVE ReadInv'
<1> USE DEF BaseInv
<1>1. ASSUME NEW a \in Actors,
             UpdateField(a) \/ InsertRecord(a) \/ ReplaceRecord(a) \/ DeleteRecord(a)
      PROVE  ReadInv'
  BY <1>1, CallWriteFacts, ReadCall
<1>2. ASSUME NEW a \in Actors, CallRefused(a) \/ Commit(a) \/ Validate(a) \/ Journal(a) \/ JournalFails(a)
      PROVE  ReadInv'
  <2>1. Steady /\ table' = table /\ reads' = reads
    BY <1>2, SteadyFacts
       DEF CallRefused, CallRest, Commit, Validate, Journal, JournalFails, lifeVars
  <2>2. /\ pc[a] \in Waiting /\ pc'[a] \in {"validate", "journal", "turn", "done"} /\ answer[a] = "none"
        /\ answer'[a] # "ok" /\ \A b \in Actors : b # a => pc'[b] = pc[b] /\ at'[b] = at[b] /\ answer'[b] = answer[b]
    BY <1>2 DEF CallRefused, CallRest, Commit, Validate, Journal, JournalFails, Answer, ActorTypes,
                ControlInv, ControlOf, Waiting
  <2> QED BY <2>1, <2>2, ReadQuiet DEF Winner, Waiting
<1>3. ASSUME NEW a \in Actors, Enter(a) \/ EnterUnjournaled(a) PROVE ReadInv'
  <2>1. CASE locked' # {}
    BY <1>3, <2>1, GrantedFacts, ReadGranted
  <2>2. CASE locked' = {}
    <3>1. Steady /\ table' = table /\ reads' = reads
      BY <1>3, SteadyFacts DEF Enter, EnterUnjournaled, lifeVars
    <3>2. /\ pc[a] \in Waiting /\ pc'[a] = "done" /\ answer'[a] # "ok"
          /\ \A b \in Actors : b # a => pc'[b] = pc[b] /\ at'[b] = at[b] /\ answer'[b] = answer[b]
      BY <1>3, <2>2 DEF Enter, EnterUnjournaled, Answer, ActorTypes, Waiting
    <3> QED BY <3>1, <3>2, ReadQuiet DEF Winner, Waiting
  <2> QED BY <2>1, <2>2
<1>4. ASSUME NEW a \in Actors, ApplyOp(a) PROVE ReadInv'
  <2>1. CASE table[OpId(a)] # Absent
    BY <1>4, <2>1, ApplyWriteFacts, ReadApply
  <2>2. CASE table[OpId(a)] = Absent
    <3>1. Stopped(a)
      BY <1>4, <2>2, ApplyStopFacts
    <3>2. Steady
      BY <3>1, SteadyFacts DEF Stopped
    <3>3. /\ pc[a] = "apply" /\ pc'[a] = "done" /\ answer'[a] # "ok" /\ table' = table /\ reads' = reads
          /\ \A b \in Actors : b # a => pc'[b] = pc[b] /\ at'[b] = at[b] /\ answer'[b] = answer[b]
      BY <3>1 DEF Stopped, ActorTypes
    <3> QED BY <3>2, <3>3, ReadQuiet DEF Winner
  <2> QED BY <2>1, <2>2
<1>5. ASSUME NEW a \in Actors, Leave(a) PROVE ReadInv'
  <2>1. Left(a) /\ Steady
    BY <1>5, LeaveFacts, SteadyFacts DEF Left
  <2>2. /\ pc[a] = "leave" /\ pc'[a] = "done" /\ table' = table /\ reads' = reads
        /\ \A b \in Actors : b # a => pc'[b] = pc[b] /\ at'[b] = at[b] /\ answer'[b] = answer[b]
    BY <2>1 DEF Left, ActorTypes
  <2> QED BY <2>1, <2>2, ReadQuiet DEF Winner
<1>6. CASE SkipRefused \/ UNCHANGED vars
  <2>1. /\ Steady /\ table' = table /\ reads' = reads /\ pc' = pc /\ at' = at /\ answer' = answer
    BY <1>6, SteadyFacts DEF SkipRefused, vars, actorVars, lifeVars
  <2> QED BY <2>1, ReadQuiet DEF Winner
<1>7. CASE Crash \/ ReplayBatch \/ Open
  <2>1. Steady
    BY <1>7, SteadyFacts DEF Crash, ReplayBatch, Open
  <2>2. \A b \in Actors : DOMAIN reads'[b] = {}
    BY <1>7 DEF Crash, ReplayBatch, Open, actorVars, ControlInv, ControlOf
  <2> QED BY <2>1, <2>2, ReadEmpty
<1> QED BY <1>1, <1>2, <1>3, <1>4, <1>5, <1>6, <1>7, ReadRead DEF Next

\* NoLostUpdate, for any clients: of two sessions that read one version of a record and
\* both write it, at most one commits (snapshot isolation, ISO-FR-002).
THEOREM SnapshotIsolation == Spec => []NoLostUpdate
<1>1. Init => ReadInv
  BY DEF Init, ReadInv, FoundOf, ReadOf, PairOf, Winner, Txs
<1>2. ReadInv => NoLostUpdate
  BY DEF ReadInv, PairOf, Winner, NoLostUpdate
<1> QED BY <1>1, <1>2, ReadStep, BaseInvariant, PTL DEF Spec

------------------------------------------------------------------------------
(* Refused requests                                                        *)

\* Refused before any of its writes, for good.
Rejected(a) ==
  \/ answer[a] = "conflict" /\ crashes = 0
  \/ answer[a] \in {"not_found", "duplicate"} /\ ~Journaled

\* It is neither in the table nor on disk; the adapter replays only after a crash.
RefusedInv ==
  /\ phase # "up" => crashes > 0
  /\ \A a \in Actors : Rejected(a) => \A x \in Ids : a \notin disk[x]

\* A step that puts nothing new on disk rejects only who never wrote.
LEMMA RefusedQuiet ==
  ASSUME RefusedInv, Steady, crashes' = crashes, phase' = phase \/ phase' = "up",
         \A x \in Ids : disk'[x] \subseteq disk[x],
         \A b \in Actors : Rejected(b)' => Rejected(b) \/ \A x \in Ids : b \notin disk[x]
  PROVE  RefusedInv'
  BY DEF RefusedInv, Steady

\* A step that writes one actor's effect, of an actor that is not refused.
LEMMA RefusedWrite ==
  ASSUME RefusedInv, Steady, crashes' = crashes, phase' = phase, NEW a, NEW v,
         v \in {a, Absent}, Absent \notin Actors, a \in Actors => ~Rejected(a)',
         \A x \in Ids : disk'[x] \subseteq disk[x] \cup {v},
         \A b \in Actors : b # a /\ Rejected(b)' => Rejected(b)
  PROVE  RefusedInv'
  BY DEF RefusedInv, Steady

\* Every step keeps RefusedInv.
LEMMA RefusedStep == ASSUME BaseInv, RefusedInv, [Next]_vars PROVE RefusedInv'
<1> USE DEF BaseInv
<1>0. scenario \in Scenarios /\ Absent \notin Actors
  BY ProgramFacts DEF StateTypes
<1>1. ASSUME NEW a \in Actors,
             UpdateField(a) \/ InsertRecord(a) \/ ReplaceRecord(a) \/ DeleteRecord(a)
      PROVE  RefusedInv'
  <2>1. CallWritten(a) /\ Steady
    BY <1>1, CallWriteFacts, SteadyFacts DEF CallWritten
  <2>2. /\ answer'[a] = "ok" /\ \A b \in Actors : b # a => answer'[b] = answer[b]
        /\ crashes' = crashes /\ phase' = phase /\ Effect(a) \in {a, Absent}
        /\ \A x \in Ids : disk'[x] \subseteq disk[x] \cup {Effect(a)}
    BY <2>1 DEF CallWritten, ActorTypes
  <2> QED BY <1>0, <2>1, <2>2, RefusedWrite DEF Rejected, Steady
<1>2. ASSUME NEW a \in Actors, CallRefused(a) \/ Commit(a) \/ Validate(a) \/ Journal(a) \/ JournalFails(a)
      PROVE  RefusedInv'
  <2>1. Steady /\ disk' = disk /\ crashes' = crashes /\ phase' = phase
    BY <1>2, SteadyFacts
       DEF CallRefused, CallRest, Commit, Validate, Journal, JournalFails, lifeVars
  <2>2. /\ pc[a] \in Waiting /\ \A b \in Actors : b # a => answer'[b] = answer[b]
    BY <1>2 DEF CallRefused, CallRest, Commit, Validate, Journal, JournalFails, Answer, ActorTypes,
                ControlInv, ControlOf, Waiting
  <2>3. \A x \in Ids : a \notin disk[x]
    BY <2>2 DEF FreshInv, FreshOf
  <2> QED BY <2>1, <2>2, <2>3, RefusedQuiet DEF Rejected, Steady
<1>3. ASSUME NEW a \in Actors, Enter(a) \/ EnterUnjournaled(a) PROVE RefusedInv'
  <2>1. Steady /\ disk' = disk /\ crashes' = crashes /\ phase' = phase
    BY <1>3, SteadyFacts DEF Enter, EnterUnjournaled, lifeVars
  <2>2. pc[a] \in Waiting /\ \A b \in Actors : b # a => answer'[b] = answer[b]
    BY <1>3 DEF Enter, EnterUnjournaled, Answer, ActorTypes, Waiting
  <2>3. \A x \in Ids : a \notin disk[x]
    BY <2>2 DEF FreshInv, FreshOf
  <2> QED BY <2>1, <2>2, <2>3, RefusedQuiet DEF Rejected, Steady
<1>4. ASSUME NEW a \in Actors, ApplyOp(a) PROVE RefusedInv'
  <2>1. CASE table[OpId(a)] # Absent
    <3>1. ApplyWritten(a) /\ Steady
      BY <1>4, <2>1, ApplyWriteFacts, SteadyFacts DEF ApplyWritten
    <3>2. /\ answer[a] = "none" /\ answer' = answer /\ crashes' = crashes /\ phase' = phase
          /\ \A x \in Ids : disk'[x] \subseteq disk[x] \cup {a}
      BY <3>1 DEF ApplyWritten, ControlInv, ControlOf
    <3> QED BY <1>0, <3>1, <3>2, RefusedWrite DEF Rejected, Steady
  <2>2. CASE table[OpId(a)] = Absent
    <3>1. Stopped(a) /\ Steady
      BY <1>4, <2>2, ApplyStopFacts, SteadyFacts DEF Stopped
    <3>2. OpId(a) \in WrittenBy(a)
      BY <1>0, ProgramFacts DEF OpId, ActorTypes
    <3>3. Journaled
      BY <2>2, <3>1, <3>2 DEF Stopped, FreshInv, AppliedOf
    <3>4. /\ answer'[a] = "not_found" /\ \A b \in Actors : b # a => answer'[b] = answer[b]
          /\ disk' = disk /\ crashes' = crashes /\ phase' = phase
      BY <3>1 DEF Stopped, ActorTypes
    <3> QED BY <3>1, <3>3, <3>4, RefusedQuiet DEF Rejected, Steady
  <2> QED BY <2>1, <2>2
<1>5. ASSUME NEW a \in Actors, Leave(a) PROVE RefusedInv'
  <2>1. Left(a) /\ Steady
    BY <1>5, LeaveFacts, SteadyFacts DEF Left
  <2>2. /\ answer'[a] = "ok" /\ \A b \in Actors : b # a => answer'[b] = answer[b]
        /\ crashes' = crashes /\ phase' = phase /\ \A x \in Ids : disk'[x] \subseteq disk[x]
    BY <2>1 DEF Left, ActorTypes, StateTypes
  <2> QED BY <2>1, <2>2, RefusedQuiet DEF Rejected, Steady
<1>6. CASE SkipRefused \/ UNCHANGED vars \/ \E a \in Actors : Read(a)
  <2>1. Steady /\ answer' = answer /\ disk' = disk /\ crashes' = crashes /\ phase' = phase
    BY <1>6, SteadyFacts DEF SkipRefused, Read, vars, actorVars, lifeVars
  <2> QED BY <2>1, RefusedQuiet DEF Rejected, Steady
<1>7. CASE Crash
  <2>1. Crashed /\ Steady
    BY <1>7, CrashFacts, SteadyFacts DEF Crashed
  <2>2. crashes' > 0 /\ answer' = answer /\ \A x \in Ids : disk'[x] \subseteq disk[x]
    BY <2>1 DEF Crashed, StateTypes
  <2> QED BY <2>1, <2>2 DEF RefusedInv, Rejected, Steady
<1>8. CASE ReplayBatch
  <2>1. ReplayedOne /\ Steady
    BY <1>8, ReplayBatchFacts, SteadyFacts DEF ReplayedOne
  <2>2. /\ Journaled /\ crashes > 0 /\ crashes' = crashes /\ answer' = answer
    BY <2>1 DEF ReplayedOne, JournalInv, EntriesInv, RefusedInv, Steady
  <2> QED BY <2>1, <2>2 DEF RefusedInv, Rejected, Steady, StateTypes
<1>9. CASE Open
  <2>1. /\ Steady /\ answer' = answer /\ crashes' = crashes /\ phase' = "up"
        /\ \A x \in Ids : disk'[x] \subseteq disk[x]
    BY <1>9, SteadyFacts DEF Open, Flush, actorVars, StateTypes
  <2> QED BY <2>1, RefusedQuiet DEF Rejected, Steady
<1> QED BY <1>1, <1>2, <1>3, <1>4, <1>5, <1>6, <1>7, <1>8, <1>9 DEF Next

\* RefusedInvisibleUnlessReplayed, for any clients: what was refused before any write is
\* never in the table (without a journal, or in conflict while no crash has come).
THEOREM RefusedNeverSeen == Spec => []RefusedInvisibleUnlessReplayed
<1>1. Init => RefusedInv
  BY DEF Init, RefusedInv, Rejected
<1>2. BaseInv /\ RefusedInv => RefusedInvisibleUnlessReplayed
  BY DEF BaseInv, StateTypes, RefusedInv, Rejected, RefusedInvisibleUnlessReplayed
<1> QED BY <1>1, <1>2, RefusedStep, BaseInvariant, PTL DEF Spec

------------------------------------------------------------------------------
(* All or nothing                                                          *)

\* A value at y that the batch a left there, or a writer after it.
Covered(a, y, v) ==
  \E b \in Actors : y \in WrittenBy(b) /\ order[b] >= order[a] /\ v = Effect(b)

\* A journaled batch that a deletion stopped half way.
Exempt(a) == Journaled /\ answer[a] = "not_found"

\* The entries a running replay has not come to.
ToReplay == IF phase = "replay" THEN {journal[i] : i \in replayed + 1 .. Len(journal)} ELSE {}

\* A batch is whole when every value of its records is its own or a later writer's.
WholeIn(a, values) == \A y \in WrittenBy(a) : \A v \in values[y] : Covered(a, y, v)

\* Outside the section and the replay, a batch that shows in the table is whole there;
\* one that is not in the journal and may show on disk is whole there.
TableWhole ==
  phase # "broken" => \A a \in Txs \ (locked \cup ToReplay) :
    ~Exempt(a) /\ (\E x \in WrittenBy(a) : table[x] = a) =>
      \A y \in WrittenBy(a) : Covered(a, y, table[y])
DiskWhole ==
  Journaled => \A a \in Txs \ Entries :
    ~Exempt(a) /\ (\E x \in WrittenBy(a) : a \in disk[x]) => WholeIn(a, disk)
WholeInv == TableWhole /\ DiskWhole

\* What was covered stays so when the stamps keep their order.
LEMMA CoveredKept ==
  ASSUME Steady, NEW w \in Actors, NEW a \in Actors \ {w}, NEW y, NEW v,
         \A b \in Actors : order'[b] <= order'[w],
         \A b, c \in Actors \ {w} : order[b] <= order[c] => order'[b] <= order'[c],
         order \in [Actors -> Nat], order' \in [Actors -> Nat],
         Covered(a, y, v)
  PROVE  Covered(a, y, v)'
<1>1. PICK b \in Actors : y \in WrittenBy(b) /\ order[b] >= order[a] /\ v = Effect(b)
  BY DEF Covered
<1>2. order'[b] >= order'[a]
  BY <1>1
<1> QED BY <1>1, <1>2, FixedProgram DEF Covered, Steady

\* A write by w, of its own effect at its own records, keeps every other batch whole.
LEMMA WholeWrite ==
  ASSUME BaseInv, WholeInv, Steady, NEW w \in Actors, NEW S \in SUBSET WrittenBy(w), Stamp(w),
         \A x \in Ids : table'[x] = IF x \in S THEN Effect(w) ELSE table[x],
         \A x \in Ids : disk'[x] \subseteq disk[x] \cup IF x \in S THEN {Effect(w)} ELSE {},
         Effect(w) \in {w, Absent}, phase # "broken",
         NEW a \in Txs \ {w}, ~Exempt(a)
  PROVE  /\ a \notin locked \cup ToReplay /\ (\E x \in WrittenBy(a) : table'[x] = a) =>
              \A y \in WrittenBy(a) : Covered(a, y, table[y])'
         /\ Journaled /\ a \notin Entries /\ (\E x \in WrittenBy(a) : a \in disk'[x]) => WholeIn(a, disk)'
<1>1. a \in Actors /\ Absent \notin Actors /\ WrittenBy(a) \subseteq Ids /\ order \in [Actors -> Nat]
  BY TxEffect, ProgramFacts DEF BaseInv, StateTypes
<1>2. /\ order' \in [Actors -> Nat] /\ \A b \in Actors : order'[b] <= order'[w]
      /\ \A b, c \in Actors \ {w} : order[b] <= order[c] => order'[b] <= order'[c]
  BY StampFacts DEF BaseInv, StateTypes, Steady
<1>3. \A y \in S : \A v : v = Effect(w) => Covered(a, y, v)'
  BY <1>1, <1>2, FixedProgram DEF Covered, Steady
<1>4. \A y, v : Covered(a, y, v) => Covered(a, y, v)'
  BY <1>1, <1>2, CoveredKept
<1>5. ASSUME a \notin locked \cup ToReplay, NEW x \in WrittenBy(a), table'[x] = a, NEW y \in WrittenBy(a)
      PROVE  \A v : v = table'[y] => Covered(a, y, v)'
  <2>1. table[x] = a
    BY <1>1, <1>5
  <2>2. Covered(a, y, table[y])
    BY <1>5, <2>1 DEF WholeInv, TableWhole
  <2>3. table'[y] = table[y] \/ (y \in S /\ table'[y] = Effect(w))
    BY <1>1
  <2> QED BY <2>2, <2>3, <1>3, <1>4
<1>6. ASSUME Journaled, a \notin Entries, NEW x \in WrittenBy(a), a \in disk'[x], NEW y \in WrittenBy(a), NEW v \in disk'[y]
      PROVE  Covered(a, y, v)'
  <2>1. a \in disk[x]
    BY <1>1, <1>6
  <2>2. \A u \in disk[y] : Covered(a, y, u)
    BY <1>6, <2>1 DEF WholeInv, DiskWhole, WholeIn
  <2>3. v \in disk[y] \/ (y \in S /\ v = Effect(w))
    BY <1>1, <1>6
  <2> QED BY <2>2, <2>3, <1>3, <1>4
<1>7. ASSUME NEW y, \A v : v = table'[y] => Covered(a, y, v)' PROVE Covered(a, y, table[y])'
  BY <1>7 DEF Covered
<1> QED BY <1>5, <1>6, <1>7 DEF WholeIn, Steady

\* What no other batch is troubled by: a step that keeps table, disk and stamps.
LEMMA WholeQuiet ==
  ASSUME WholeInv, Steady, table' = table, disk' = disk, order' = order, phase' = phase,
         replayed' = replayed, locked \subseteq locked', Entries \subseteq Entries', ToReplay' = ToReplay,
         \A a \in Txs : Exempt(a) => Exempt(a)'
  PROVE  WholeInv'
<1>1. \A a, y, v : Covered(a, y, v)' <=> Covered(a, y, v)
  BY FixedProgram DEF Covered, Steady
<1>2. TableWhole'
  BY <1>1 DEF WholeInv, TableWhole, Steady
<1>3. DiskWhole'
  BY <1>1 DEF WholeInv, DiskWhole, WholeIn, Steady
<1> QED BY <1>2, <1>3 DEF WholeInv

\* When the table is flushed, what is whole in it is whole on disk.
LEMMA WholeFlush ==
  ASSUME BaseInv, Steady, table' = table, disk' = [x \in Ids |-> {table[x]}], order' = order,
         \A a \in Txs : ~Exempt(a)' /\ (\E x \in WrittenBy(a) : table[x] = a) =>
                           \A y \in WrittenBy(a) : Covered(a, y, table[y])
  PROVE  WholeInv'
<1>1. \A a, y, v : Covered(a, y, v)' <=> Covered(a, y, v)
  BY FixedProgram DEF Covered, Steady
<1>2. TableWhole'
  BY <1>1 DEF TableWhole, Steady
<1>3. \A a \in Txs : \A y \in WrittenBy(a) : disk'[y] = {table[y]}
  BY ProgramFacts, TxEffect DEF Steady
<1>4. DiskWhole'
  BY <1>1, <1>3 DEF DiskWhole, WholeIn, Steady
<1> QED BY <1>2, <1>4 DEF WholeInv

\* Nothing to replay while the adapter is up.
LEMMA UpNoReplay == ASSUME phase = "up" PROVE ToReplay = {}
  BY DEF ToReplay

\* A batch whose records all hold its name is whole.
LEMMA WholeOwn ==
  ASSUME BaseInv, NEW a \in Txs, \A i \in 1 .. Len(Program[a].ids) : table[Program[a].ids[i]] = a
  PROVE  \A y \in WrittenBy(a) : Covered(a, y, table[y])
<1>1. \A y \in WrittenBy(a) : table[y] = a
  <2>1. DOMAIN Program[a].ids = 1 .. Len(Program[a].ids)
    BY ProgramFacts, TxEffect DEF BaseInv, StateTypes
  <2> QED BY <2>1 DEF WrittenBy
<1>2. a \in Actors /\ order[a] \in Nat
  BY TxEffect DEF BaseInv, StateTypes
<1> QED BY <1>1, <1>2, TxEffect DEF Covered

\* A single-record write keeps batches whole.
LEMMA WholeCall == ASSUME BaseInv, WholeInv, NEW a \in Actors, CallWritten(a) PROVE WholeInv'
<1>0. Steady /\ a \notin Txs
  BY SteadyFacts DEF CallWritten
<1>1. Target(a) \in WrittenBy(a)
  BY <1>0, ProgramFacts DEF Steady
<1>2. ASSUME NEW b \in Txs, ~Exempt(b)
      PROVE  /\ b \notin locked \cup ToReplay /\ (\E x \in WrittenBy(b) : table'[x] = b) =>
                  \A y \in WrittenBy(b) : Covered(b, y, table[y])'
             /\ Journaled /\ b \notin Entries /\ (\E x \in WrittenBy(b) : b \in disk'[x]) => WholeIn(b, disk)'
  <2> DEFINE S == {Target(a)}
  <2>1. /\ \A x \in Ids : table'[x] = IF x \in S THEN Effect(a) ELSE table[x]
        /\ \A x \in Ids : disk'[x] \subseteq disk[x] \cup IF x \in S THEN {Effect(a)} ELSE {}
        /\ Effect(a) \in {a, Absent} /\ phase # "broken" /\ Stamp(a)
    BY DEF CallWritten, BaseInv, StateTypes
  <2>2. S \in SUBSET WrittenBy(a) /\ b \in Txs \ {a}
    BY <1>0, <1>1, <1>2
  <2> HIDE DEF S
  <2> QED BY <2>1, <2>2, <1>0, <1>2, WholeWrite
<1>3. /\ locked' = locked /\ Entries' = Entries /\ phase = "up" /\ phase' = "up" /\ answer' = [answer EXCEPT ![a] = "ok"]
  BY DEF CallWritten, Entries
<1>4. ToReplay = {} /\ ToReplay' = {}
  BY <1>3 DEF ToReplay
<1>5. \A b \in Txs : Exempt(b)' <=> Exempt(b)
  BY <1>0, <1>3, TxEffect DEF Exempt, Steady, BaseInv, ActorTypes
<1> QED BY <1>0, <1>2, <1>3, <1>4, <1>5 DEF WholeInv, TableWhole, DiskWhole, Steady

\* So does an operation of a batch, which is in its section and in the journal.
LEMMA WholeApply == ASSUME BaseInv, WholeInv, NEW a \in Actors, ApplyWritten(a) PROVE WholeInv'
<1>0. Steady /\ a \in Txs /\ Effect(a) = a
  BY SteadyFacts, TxEffect DEF ApplyWritten
<1>1. ASSUME NEW b \in Txs, b # a, ~Exempt(b)
      PROVE  /\ b \notin locked \cup ToReplay /\ (\E x \in WrittenBy(b) : table'[x] = b) =>
                  \A y \in WrittenBy(b) : Covered(b, y, table[y])'
             /\ Journaled /\ b \notin Entries /\ (\E x \in WrittenBy(b) : b \in disk'[x]) => WholeIn(b, disk)'
  <2> DEFINE S == {OpId(a)}
  <2>1. /\ \A x \in Ids : table'[x] = IF x \in S THEN Effect(a) ELSE table[x]
        /\ \A x \in Ids : disk'[x] \subseteq disk[x] \cup IF x \in S THEN {Effect(a)} ELSE {}
        /\ Effect(a) \in {a, Absent} /\ phase # "broken" /\ Stamp(a)
    BY <1>0 DEF ApplyWritten, BaseInv, StateTypes
  <2>2. S \in SUBSET WrittenBy(a) /\ b \in Txs \ {a}
    BY <1>1 DEF ApplyWritten
  <2> HIDE DEF S
  <2> QED BY <2>1, <2>2, <1>0, <1>1, WholeWrite
<1>2. /\ locked' = locked /\ locked = {a} /\ Entries' = Entries /\ phase = "up" /\ phase' = "up" /\ answer' = answer
  BY DEF ApplyWritten, Entries
<1>3. ToReplay = {} /\ ToReplay' = {}
  BY <1>2 DEF ToReplay
<1>4. Journaled => a \in Entries
  <2>1. Journaled => turn < Len(journal) /\ journal[turn + 1] = a
    BY DEF ApplyWritten, BaseInv, JournalInv, GateOf
  <2>2. turn \in Nat /\ Len(journal) \in Nat /\ DOMAIN journal = 1 .. Len(journal)
    BY <1>0 DEF Steady
  <2>3. turn < Len(journal) => turn + 1 \in DOMAIN journal
    BY <2>2
  <2> QED BY <2>1, <2>3 DEF Entries
<1>5. \A b \in Txs : Exempt(b)' <=> Exempt(b)
  BY <1>0, <1>2 DEF Exempt, Steady
<1>6. TableWhole'
  BY <1>0, <1>1, <1>2, <1>3, <1>5 DEF TableWhole, Steady
<1>7. DiskWhole'
  BY <1>0, <1>1, <1>2, <1>4, <1>5 DEF DiskWhole, Steady
<1> QED BY <1>6, <1>7 DEF WholeInv

\* A crash takes the table from disk: without the entries to replay it is whole there.
LEMMA WholeCrash == ASSUME BaseInv, WholeInv, Crashed, Journaled PROVE WholeInv'
<1>0. Steady
  BY SteadyFacts DEF Crashed
<1>1. /\ phase' = "replay" /\ replayed' = 0 /\ locked' = {} /\ answer' = answer /\ Entries' = Entries
      /\ \A x \in Ids : table'[x] \in disk[x] /\ disk'[x] = {table'[x]}
      /\ order' = order
  BY DEF Crashed, Entries
<1>2. ToReplay' = Entries
  <2>1. journal' = journal /\ 0 + 1 .. Len(journal) = DOMAIN journal
    BY <1>0 DEF Crashed, Steady
  <2> QED BY <2>1, <1>1 DEF ToReplay, Entries
<1>3. \A a \in Txs : WrittenBy(a) \subseteq Ids
  BY <1>0, ProgramFacts, TxEffect DEF Steady
<1>4. \A a, y, v : Covered(a, y, v)' <=> Covered(a, y, v)
  BY <1>0, <1>1, FixedProgram DEF Covered, Steady
<1>5. \A b \in Txs : Exempt(b)' <=> Exempt(b)
  BY <1>0, <1>1 DEF Exempt, Steady
<1>6. ASSUME NEW a \in Txs, a \notin Entries, ~Exempt(a), NEW x \in WrittenBy(a), table'[x] = a,
             NEW y \in WrittenBy(a), NEW v, v = table'[y]
      PROVE  Covered(a, y, v)
  <2>1. a \in disk[x] /\ v \in disk[y]
    BY <1>1, <1>3, <1>6
  <2> QED BY <1>6, <2>1 DEF WholeInv, DiskWhole, WholeIn
<1>7. TableWhole'
  <2> SUFFICES ASSUME NEW a \in Txs, a \notin Entries, ~Exempt(a), NEW x \in WrittenBy(a), table'[x] = a,
                      NEW y \in WrittenBy(a)
               PROVE  Covered(a, y, table[y])'
    BY <1>0, <1>1, <1>2, <1>5 DEF TableWhole, Steady
  <2>1. \A v : v = table'[y] => Covered(a, y, v)'
    BY <1>4, <1>6
  <2> QED BY <2>1 DEF Covered
<1>8. DiskWhole'
  <2> SUFFICES ASSUME NEW a \in Txs, a \notin Entries, ~Exempt(a), NEW x \in WrittenBy(a), a \in disk'[x],
                      NEW y \in WrittenBy(a), NEW v \in disk'[y]
               PROVE  Covered(a, y, v)'
    BY <1>0, <1>1, <1>5 DEF DiskWhole, WholeIn, Steady
  <2>1. table'[x] = a /\ v = table'[y]
    BY <1>1, <1>3
  <2> QED BY <2>1, <1>4, <1>6
<1> QED BY <1>7, <1>8 DEF WholeInv

\* What a complete replay of one entry writes: all its records.
LEMMA ReplayedWhole ==
  ASSUME BaseInv, ReplayBatch, phase' # "broken"
  PROVE  Rewritten = WrittenBy(Pending) /\ replayed' = replayed + 1
  BY DEF ReplayBatch, Pending, Rewritten, WrittenBy

\* One entry replayed keeps the others whole, and is whole itself when all of it is.
LEMMA WholeReplay == ASSUME BaseInv, WholeInv, ReplayBatch PROVE WholeInv'
<1>0. Steady /\ ReplayedOne /\ Pending \in Txs /\ Effect(Pending) = Pending /\ Pending \in Actors
  BY ReplayBatchFacts, SteadyFacts, TxEffect DEF ReplayedOne
<1>1. /\ phase = "replay" /\ locked' = locked /\ Entries' = Entries /\ journal' = journal
      /\ answer' = answer /\ Pending \in Entries /\ Journaled
  <2>1. replayed + 1 \in DOMAIN journal
    BY <1>0 DEF ReplayedOne, Steady
  <2> QED BY <1>0, <2>1 DEF ReplayedOne, Entries, Pending, BaseInv, JournalInv, EntriesInv
<1>2. \A b \in Txs : Exempt(b)' <=> Exempt(b)
  BY <1>0, <1>1 DEF Exempt, Steady
<1>3. Rewritten \subseteq WrittenBy(Pending) /\ WrittenBy(Pending) \subseteq Ids
  <2>1. Reached(Pending) \subseteq DOMAIN Program[Pending].ids
    BY DEF Reached
  <2> QED BY <1>0, <2>1, ProgramFacts DEF Rewritten, WrittenBy, Steady
<1>4. \A x \in Ids : /\ table'[x] = IF x \in Rewritten THEN Pending ELSE table[x]
                     /\ disk'[x] \subseteq disk[x] \cup IF x \in Rewritten THEN {Pending} ELSE {}
  BY <1>0 DEF ReplayedOne, BaseInv, StateTypes
<1>5. ASSUME NEW b \in Txs, b # Pending, ~Exempt(b)
      PROVE  /\ b \notin locked \cup ToReplay /\ (\E x \in WrittenBy(b) : table'[x] = b) =>
                  \A y \in WrittenBy(b) : Covered(b, y, table[y])'
             /\ Journaled /\ b \notin Entries /\ (\E x \in WrittenBy(b) : b \in disk'[x]) => WholeIn(b, disk)'
  <2>1. CASE Stamp(Pending)
    <3>1. Rewritten \in SUBSET WrittenBy(Pending) /\ b \in Txs \ {Pending} /\ phase # "broken"
      BY <1>1, <1>3, <1>5
    <3> HIDE DEF Pending, Rewritten
    <3> QED BY <2>1, <3>1, <1>0, <1>4, <1>5, WholeWrite
  <2>2. CASE Rewritten = {} /\ UNCHANGED histVars
    <3>1. table' = table /\ order' = order /\ \A x \in Ids : disk'[x] \subseteq disk[x]
      BY <2>2, <1>0, <1>4 DEF ReplayedOne, BaseInv, StateTypes, histVars
    <3>2. \A y, v : Covered(b, y, v)' <=> Covered(b, y, v)
      BY <1>0, <3>1, FixedProgram DEF Covered, Steady
    <3>3. WrittenBy(b) \subseteq Ids
      BY <1>0, ProgramFacts, TxEffect DEF Steady
    <3> QED BY <3>1, <3>2, <3>3, <1>0, <1>1, <1>5 DEF WholeInv, TableWhole, DiskWhole, WholeIn, Steady
  <2> QED BY <2>1, <2>2, <1>0 DEF ReplayedOne
<1>6. TableWhole'
  <2>1. CASE phase' = "broken"
    BY <2>1 DEF TableWhole
  <2>2. CASE phase' # "broken"
    <3>1. Rewritten = WrittenBy(Pending) /\ replayed' = replayed + 1 /\ phase' = "replay"
      BY <2>2, <1>0, <1>1, ReplayedWhole DEF ReplayedOne
    <3>2. ToReplay \subseteq ToReplay' \cup {Pending}
      <4>1. \A i \in replayed + 1 .. Len(journal) : i = replayed + 1 \/ i \in replayed' + 1 .. Len(journal')
        BY <3>1, <1>0, <1>1 DEF ReplayedOne, Steady
      <4> QED BY <4>1, <1>1, <3>1 DEF ToReplay, Pending
    <3>3. ASSUME NEW p, p = Pending, NEW y \in WrittenBy(p) PROVE Covered(p, y, table[y])'
      <4>1. table'[y] = p /\ p \in Actors /\ Effect(p)' = p /\ WrittenBy(p)' = WrittenBy(p)
        BY <3>1, <3>3, <1>0, <1>3, <1>4, FixedProgram DEF Steady
      <4>2. order'[p] \in Nat
        BY <1>0, <3>3 DEF ReplayedOne
      <4> QED BY <1>0, <3>3, <4>1, <4>2 DEF Covered, Steady
    <3>4. ASSUME NEW b \in Txs, b \notin locked \cup ToReplay', ~Exempt(b), \E x \in WrittenBy(b) : table'[x] = b,
                 NEW y \in WrittenBy(b)
          PROVE  Covered(b, y, table[y])'
      <4>1. CASE b = Pending
        BY <3>3, <4>1
      <4>2. CASE b # Pending
        BY <3>2, <3>4, <4>2, <1>5
      <4> QED BY <4>1, <4>2
    <3> QED BY <3>4, <1>0, <1>1, <1>2 DEF TableWhole, Steady
  <2> QED BY <2>1, <2>2
<1>7. DiskWhole'
  BY <1>0, <1>1, <1>2, <1>5 DEF DiskWhole, Steady
<1> QED BY <1>6, <1>7 DEF WholeInv

\* Leaving the section: the batch wrote all its records, and a checkpoint flushes.
LEMMA WholeLeave == ASSUME BaseInv, WholeInv, NEW a \in Actors, Left(a) PROVE WholeInv'
<1>0. Steady /\ a \in Txs
  BY SteadyFacts DEF Left, BaseInv, ControlInv, ControlOf
<1>1. \A y \in WrittenBy(a) : Covered(a, y, table[y])
  <2>1. \A i \in 1 .. Len(Program[a].ids) : table[Program[a].ids[i]] = a
    BY DEF Left, BaseInv, FreshInv, AppliedOf
  <2> QED BY <2>1, <1>0, WholeOwn
<1>2. /\ phase = "up" /\ phase' = "up" /\ locked = {a} /\ locked' = {} /\ table' = table /\ order' = order
      /\ answer' = [answer EXCEPT ![a] = "ok"]
      /\ \/ disk' = [x \in Ids |-> {table[x]}]
         \/ disk' = disk /\ Entries' = Entries
  BY DEF Left, Entries
<1>3. ToReplay = {} /\ ToReplay' = {}
  BY <1>2 DEF ToReplay
<1>4. \A b \in Txs : Exempt(b) <=> Exempt(b)' \/ (b = a /\ Exempt(a))
  BY <1>0, <1>2, TxEffect DEF Exempt, Steady, BaseInv, ActorTypes
<1>5. ~Exempt(a)
  BY DEF Left, BaseInv, ControlInv, ControlOf, Exempt
<1>6. \A b \in Txs : ~Exempt(b)' /\ (\E x \in WrittenBy(b) : table[x] = b) =>
                        \A y \in WrittenBy(b) : Covered(b, y, table[y])
  BY <1>1, <1>2, <1>3, <1>4, <1>5 DEF WholeInv, TableWhole
<1>7. \A b, y, v : Covered(b, y, v)' <=> Covered(b, y, v)
  BY <1>0, <1>2, FixedProgram DEF Covered, Steady
<1>8. CASE disk' = [x \in Ids |-> {table[x]}]
  BY <1>0, <1>2, <1>6, <1>8, WholeFlush
<1>9. CASE disk' = disk /\ Entries' = Entries
  <2>1. TableWhole'
    BY <1>0, <1>2, <1>6, <1>7 DEF TableWhole, Steady
  <2>2. DiskWhole'
    BY <1>0, <1>4, <1>5, <1>7, <1>9 DEF WholeInv, DiskWhole, WholeIn, Steady
  <2> QED BY <2>1, <2>2 DEF WholeInv
<1> QED BY <1>2, <1>8, <1>9

\* Stopping: a journaled batch is exempt, and without a journal nothing is missing.
LEMMA WholeStop == ASSUME BaseInv, WholeInv, NEW a \in Actors, Stopped(a), table[OpId(a)] = Absent PROVE WholeInv'
<1>0. Steady
  BY SteadyFacts DEF Stopped
<1>1. Journaled
  <2>1. OpId(a) \in WrittenBy(a)
    BY <1>0, ProgramFacts DEF OpId, BaseInv, ActorTypes, Steady
  <2> QED BY <2>1 DEF Stopped, BaseInv, FreshInv, AppliedOf
<1>2. /\ phase = "up" /\ phase' = "up" /\ locked = {a} /\ locked' = {} /\ table' = table /\ order' = order
      /\ disk' = disk /\ Entries' = Entries /\ answer' = [answer EXCEPT ![a] = "not_found"]
  BY DEF Stopped, Entries
<1>3. ToReplay = {} /\ ToReplay' = {}
  BY <1>2 DEF ToReplay
<1>4. Exempt(a)' /\ \A b \in Txs : Exempt(b) => Exempt(b)'
  BY <1>0, <1>1, <1>2, TxEffect DEF Exempt, Steady, BaseInv, ActorTypes
<1>5. \A b, y, v : Covered(b, y, v)' <=> Covered(b, y, v)
  BY <1>0, <1>2, FixedProgram DEF Covered, Steady
<1>6. TableWhole'
  BY <1>0, <1>2, <1>3, <1>4, <1>5 DEF WholeInv, TableWhole, Steady
<1>7. DiskWhole'
  BY <1>0, <1>2, <1>4, <1>5 DEF WholeInv, DiskWhole, WholeIn, Steady
<1> QED BY <1>6, <1>7 DEF WholeInv

\* Opening: every entry is replayed, and the table is flushed.
LEMMA WholeOpen == ASSUME BaseInv, WholeInv, Open PROVE WholeInv'
<1>0. Steady
  BY SteadyFacts DEF Open
<1>1. /\ phase = "replay" /\ replayed = Len(journal) /\ table' = table /\ answer' = answer /\ order' = order
      /\ disk' = [x \in Ids |-> {table[x]}]
  BY DEF Open, Flush, actorVars, histVars
<1>2. locked = {} /\ ToReplay = {}
  <2>1. locked = {}
    BY <1>1, TxEffect DEF BaseInv, ControlInv, LockInv, ControlOf
  <2>2. replayed + 1 .. Len(journal) = {}
    BY <1>0, <1>1 DEF Steady
  <2> QED BY <2>1, <2>2, <1>1 DEF ToReplay
<1>3. \A a \in Txs : ~Exempt(a)' /\ (\E x \in WrittenBy(a) : table[x] = a) =>
                        \A y \in WrittenBy(a) : Covered(a, y, table[y])
  BY <1>0, <1>1, <1>2 DEF WholeInv, TableWhole, Exempt, Steady
<1> QED BY <1>0, <1>1, <1>3, WholeFlush

\* The hypothesis of AllOrNothing: only an adapter with a journal outlives a crash.
CrashNeedsJournal == \A s \in Scenarios : s.crashes > 0 => s.journaled

\* Every step keeps WholeInv.
LEMMA WholeStep == ASSUME CrashNeedsJournal, BaseInv, WholeInv, [Next]_vars PROVE WholeInv'
<1>1. ASSUME NEW a \in Actors,
             UpdateField(a) \/ InsertRecord(a) \/ ReplaceRecord(a) \/ DeleteRecord(a)
      PROVE  WholeInv'
  BY <1>1, CallWriteFacts, WholeCall
<1>2. ASSUME NEW a \in Actors, CallRefused(a) \/ Read(a) \/ Commit(a) \/ Validate(a) \/ Journal(a) \/ JournalFails(a)
      PROVE  WholeInv'
  <2>1. /\ Steady /\ table' = table /\ disk' = disk /\ order' = order /\ locked' = locked
        /\ phase = "up" /\ phase' = phase /\ replayed' = replayed
    BY <1>2, SteadyFacts DEF CallRefused, CallRest, Read, Commit, Validate, Journal, JournalFails, lifeVars, histVars, Free
  <2>2. Entries \subseteq Entries'
    <3>1. CASE journal' = journal
      BY <3>1 DEF Entries
    <3>2. CASE journal' # journal
      <4>1. pc[a] = "journal" /\ journal' = Append(journal, a)
        BY <1>2, <3>2 DEF CallRefused, CallRest, Read, Commit, Validate, Journal, JournalFails
      <4> QED BY <4>1, EntriesGrow
    <3> QED BY <3>1, <3>2
  <2>3. ToReplay = {} /\ ToReplay' = {}
    BY <2>1 DEF ToReplay
  <2>4. pc[a] # "done" /\ \A b \in Actors : b # a => answer'[b] = answer[b]
    BY <1>2 DEF CallRefused, CallRest, Read, Commit, Validate, Journal, JournalFails, Answer, BaseInv, ActorTypes
  <2>5. \A b \in Txs : Exempt(b) => Exempt(b)'
    BY <2>1, <2>4, TxEffect DEF Exempt, Steady, BaseInv, ControlInv, ControlOf
  <2> QED BY <2>1, <2>2, <2>3, <2>5, WholeQuiet
<1>3. ASSUME NEW a \in Actors, Enter(a) \/ EnterUnjournaled(a) PROVE WholeInv'
  <2>1. /\ Steady /\ table' = table /\ disk' = disk /\ order' = order /\ locked = {}
        /\ phase = "up" /\ phase' = phase /\ replayed' = replayed /\ journal' = journal
    BY <1>3, SteadyFacts DEF Enter, EnterUnjournaled, lifeVars, histVars, Free
  <2>2. ToReplay = {} /\ ToReplay' = {} /\ Entries' = Entries
    BY <2>1 DEF ToReplay, Entries
  <2>3. pc[a] # "done" /\ \A b \in Actors : b # a => answer'[b] = answer[b]
    BY <1>3 DEF Enter, EnterUnjournaled, Answer, BaseInv, ActorTypes
  <2>4. \A b \in Txs : Exempt(b) => Exempt(b)'
    BY <2>1, <2>3, TxEffect DEF Exempt, Steady, BaseInv, ControlInv, ControlOf
  <2> QED BY <2>1, <2>2, <2>4, WholeQuiet
<1>4. ASSUME NEW a \in Actors, ApplyOp(a) PROVE WholeInv'
  BY <1>4, ApplyWriteFacts, ApplyStopFacts, WholeApply, WholeStop
<1>5. ASSUME NEW a \in Actors, Leave(a) PROVE WholeInv'
  BY <1>5, LeaveFacts, WholeLeave
<1>6. CASE SkipRefused \/ UNCHANGED vars
  <2>1. /\ Steady /\ table' = table /\ disk' = disk /\ order' = order /\ locked' = locked
        /\ phase' = phase /\ replayed' = replayed /\ journal' = journal /\ answer' = answer
    BY <1>6, SteadyFacts DEF SkipRefused, vars, actorVars, lifeVars, histVars
  <2>2. ToReplay' = ToReplay /\ Entries' = Entries /\ \A b \in Txs : Exempt(b) => Exempt(b)'
    BY <2>1 DEF ToReplay, Entries, Exempt, Steady
  <2> QED BY <2>1, <2>2, WholeQuiet
<1>7. CASE Crash
  <2>1. Journaled
    <3>1. scenario \in Scenarios /\ crashes \in Nat /\ crashes < scenario.crashes /\ scenario.crashes \in Nat
      BY <1>7, ScenarioAssumption DEF BaseInv, StateTypes, Crash, IsScenario
    <3> QED BY <3>1 DEF CrashNeedsJournal, Journaled
  <2> QED BY <1>7, <2>1, CrashFacts, WholeCrash
<1> QED BY <1>1, <1>2, <1>3, <1>4, <1>5, <1>6, <1>7, WholeReplay, WholeOpen DEF Next

\* The types of the run's invariant follow from the base invariant.
LEMMA BaseTypes == BaseInv => TypeOK
<1> SUFFICES ASSUME BaseInv PROVE TypeOK
  OBVIOUS
<1>1. Cardinality(locked) <= 1 /\ locked \subseteq Actors
  <2>1. CASE locked = {}
    BY <2>1, FS_EmptySet
  <2>2. CASE locked # {}
    <3>1. PICK h \in Txs : locked = {h}
      BY <2>2 DEF BaseInv, ControlInv, LockInv
    <3>2. Cardinality({h}) = 1
      BY FS_Singleton
    <3> QED BY <3>1, <3>2, TxEffect
  <2> QED BY <2>1, <2>2
<1>2. \A a \in Actors : at[a] \in DOMAIN Program[a].ids
  BY ProgramFacts DEF BaseInv, StateTypes, ActorTypes
<1> QED BY <1>1, <1>2 DEF TypeOK, BaseInv, StateTypes, ActorTypes, PCs, Answers, Phases

\* AllOrNothing, for any clients: a transaction is visible whole or not at all, before
\* and after any crash that a journal outlives.
THEOREM Atomicity == ASSUME CrashNeedsJournal PROVE Spec => []AllOrNothing
<1>1. Init => WholeInv
  <2> SUFFICES ASSUME Init PROVE WholeInv
    OBVIOUS
  <2>1. scenario \in Scenarios /\ \A x \in Ids : table[x] \in {Original, Absent} /\ disk[x] = {table[x]}
    BY DEF Init
  <2>2. \A a \in Txs : a \notin {Original, Absent} /\ WrittenBy(a) \subseteq Ids
    BY <2>1, ProgramFacts, TxEffect
  <2> QED BY <2>1, <2>2 DEF WholeInv, TableWhole, DiskWhole
<1>2. BaseInv /\ WholeInv => AllOrNothing
  <2> SUFFICES ASSUME BaseInv, WholeInv PROVE AllOrNothing
    OBVIOUS
  <2>1. Free => locked = {} /\ ToReplay = {} /\ phase = "up"
    BY DEF Free, ToReplay
  <2> QED BY <2>1, BaseTypes DEF AllOrNothing, WholeInv, TableWhole, Exempt, Covered
<1> QED BY <1>1, <1>2, WholeStep, BaseInvariant, PTL DEF Spec

------------------------------------------------------------------------------
(* Acknowledged writes                                                     *)

\* A value at x of a writer that first wrote no earlier than a did.
Since(a, x, v) == \E b \in Actors : x \in WrittenBy(b) /\ first[b] >= first[a] /\ v = Effect(b)
Acked == {a \in Actors : answer[a] = "ok"}
Crashes == scenario.crashes > 0

\* What is acknowledged has written; a batch in its section wrote last, and one behind
\* the turn has not written.
AckBase ==
  /\ phase # "up" => Crashes
  /\ \A a \in Acked : first[a] > 0
  /\ \A a \in Actors : pc[a] = "leave" => first[a] > 0
  /\ \A a \in Actors : pc[a] \in {"apply", "leave"} /\ first[a] > 0 => \A b \in Actors : first[b] <= first[a]
  /\ \A i \in DOMAIN journal : phase = "up" /\ i > turn /\ journal[i] \notin locked => first[journal[i]] = 0

\* Later entries of the journal wrote later, and entries wrote after what is
\* acknowledged and no longer in it.
After(a, b) == first[b] = 0 \/ first[b] > first[a]
JournalAcked ==
  /\ \A a \in (Acked \cap Txs) \ Entries : \A b \in Entries : After(a, b)
  /\ \A i, j \in DOMAIN journal : i < j /\ journal[i] \in Acked => After(journal[i], journal[j])

\* An acknowledged write stands in the table, once a replay has come to it, and on disk
\* when no entry would bring it back.
TableAcked ==
  \A a \in Acked :
    phase = "up" \/ (phase = "replay" /\ \E i \in 1 .. replayed : journal[i] = a) =>
      \A x \in WrittenBy(a) : Since(a, x, table[x])
DiskAcked ==
  \A a \in Acked \ Entries : \A x \in WrittenBy(a) : \A v \in disk[x] :
    IF a \in Txs THEN Since(a, x, v) ELSE v = Absent

\* The hypothesis of AckedStand: where a crash may come, every write is a transaction of
\* a journaled adapter, or a deletion, which is logged.
LoggedWritesOnly ==
  \A s \in Scenarios : s.crashes > 0 =>
    s.journaled /\ \A a \in DOMAIN s.program : s.program[a].kind \in {"tx", "delete"}
AckedInv == AckBase /\ TableAcked /\ (Crashes => DiskAcked /\ JournalAcked)

\* A stamped writer's effect is the latest, or it wrote before.
LEMMA SinceKept ==
  ASSUME BaseInv, Steady, NEW w \in Actors, Stamp(w),
         NEW a \in Actors, first[a] > 0, NEW x, NEW v, Since(a, x, v)
  PROVE  Since(a, x, v)'
<1>1. first' \in [Actors -> Nat] /\ first \in [Actors -> Nat] /\ \A b \in Actors : first'[b] >= first[b] /\ (first[b] > 0 => first'[b] = first[b])
  <2>1. OrderInv /\ order \in [Actors -> Nat] /\ first \in [Actors -> Nat] /\ scenario' = scenario /\ scenario \in Scenarios
    BY DEF BaseInv, StateTypes, Steady
  <2>2. /\ first' \in [Actors -> Nat] /\ \A b \in Actors \ {w} : first'[b] = first[b]
        /\ IF first[w] > 0 THEN first' = first ELSE \A b \in Actors \ {w} : first[b] < first'[w]
    BY <2>1, StampFacts
  <2>3. first[w] = 0 => first'[w] >= first[w]
    BY <2>1, <2>2
  <2> QED BY <2>1, <2>2, <2>3
<1>2. PICK b \in Actors : x \in WrittenBy(b) /\ first[b] >= first[a] /\ v = Effect(b)
  BY DEF Since
<1>3. first'[b] >= first'[a]
  BY <1>1, <1>2
<1> QED BY <1>2, <1>3, FixedProgram DEF Since, Steady

\* The stamp of a write puts it after what is acknowledged, unless it wrote before.
LEMMA SinceWritten ==
  ASSUME BaseInv, Steady, NEW w \in Actors, Stamp(w), NEW a \in Actors, first[a] > 0,
         After(a, w) \/ first[w] >= first[a], NEW x \in WrittenBy(w), NEW v, v = Effect(w)
  PROVE  Since(a, x, v)'
<1>1. /\ first' \in [Actors -> Nat] /\ first \in [Actors -> Nat] /\ first'[w] > 0
      /\ IF first[w] > 0 THEN first' = first ELSE \A b \in Actors \ {w} : first[b] < first'[w] /\ first'[b] = first[b]
  BY StampFacts DEF BaseInv, StateTypes, Steady
<1>2. first'[w] >= first'[a]
  BY <1>1 DEF After
<1> QED BY <1>2, FixedProgram DEF Since, Steady

\* Stamps keep JournalAcked and the bounds of AckBase.
LEMMA StampAfter ==
  ASSUME BaseInv, Steady, NEW w \in Actors, Stamp(w), NEW a \in Actors, first[a] > 0, NEW b \in Actors \ {a}, After(a, b)
  PROVE  After(a, b)'
<1>1. /\ first' \in [Actors -> Nat] /\ first \in [Actors -> Nat] /\ first'[w] > 0
      /\ IF first[w] > 0 THEN first' = first ELSE \A c \in Actors \ {w} : first[c] < first'[w] /\ first'[c] = first[c]
  BY StampFacts DEF BaseInv, StateTypes, Steady
<1> QED BY <1>1 DEF After

\* A step that keeps table, disk, stamps and journal, and acknowledges nothing.
LEMMA AckedQuiet ==
  ASSUME BaseInv, AckedInv, Steady, table' = table, disk' = disk, first' = first, phase' = phase, replayed' = replayed,
         Acked' = Acked, journal' = journal,
         \A a \in Actors : pc'[a] \in {"apply", "leave"} => pc[a] = pc'[a] \/ (pc'[a] = "apply" /\ first[a] = 0),
         phase = "up" => \A i \in DOMAIN journal : i > turn' /\ journal[i] \notin locked' => first[journal[i]] = 0
  PROVE  AckedInv'
<1>1. \A a, x, v : Since(a, x, v)' <=> Since(a, x, v)
  BY FixedProgram DEF Since, Steady
<1>2. AckBase'
  BY DEF AckedInv, AckBase, Crashes, Steady
<1>3. TableAcked'
  BY <1>1 DEF AckedInv, TableAcked, Steady
<1>4. Crashes' <=> Crashes
  BY DEF Crashes, Steady
<1>5. ASSUME Crashes PROVE DiskAcked' /\ JournalAcked'
  BY <1>1, <1>5 DEF AckedInv, DiskAcked, JournalAcked, After, Entries, Steady
<1> QED BY <1>2, <1>3, <1>4, <1>5 DEF AckedInv

\* Who has not written yet has no stamp.
LEMMA FreshUnstamped == ASSUME BaseInv, NEW a \in Actors, pc[a] \in Waiting PROVE first[a] = 0
  BY DEF BaseInv, StateTypes, FreshInv, FreshOf, OrderInv

\* A single-record write, where crashes may come a deletion.
LEMMA AckedCall ==
  ASSUME LoggedWritesOnly, BaseInv, AckedInv, NEW a \in Actors, CallWritten(a)
  PROVE  AckedInv'
<1>0. Steady /\ a \notin Txs /\ phase = "up" /\ phase' = "up" /\ locked = {} /\ locked' = {} /\ journal' = journal /\ turn' = turn
  BY SteadyFacts DEF CallWritten
<1>1. WrittenBy(a) = {Target(a)} /\ Target(a) \in Ids /\ \A b \in Actors : WrittenBy(b) \subseteq Ids
  BY <1>0, ProgramFacts DEF Steady
<1>2. Acked' = Acked \cup {a} /\ a \notin Acked
  <2>1. pc[a] = "call" /\ answer' = [answer EXCEPT ![a] = "ok"] /\ ControlOf(a) /\ answer \in [Actors -> Answers]
    BY DEF CallWritten, BaseInv, ActorTypes, ControlInv
  <2> QED BY <1>0, <2>1 DEF Acked, ControlOf, Steady
<1>3. first[a] = 0
  BY FreshUnstamped DEF CallWritten, Waiting
<1>4. /\ first' \in [Actors -> Nat] /\ first \in [Actors -> Nat] /\ first'[a] > 0
      /\ \A b \in Actors \ {a} : first'[b] = first[b] /\ first[b] < first'[a]
      /\ Stamp(a)
  <2>1. Stamp(a) /\ first \in [Actors -> Nat] /\ order \in [Actors -> Nat] /\ OrderInv /\ scenario' = scenario /\ scenario \in Scenarios
    BY <1>0 DEF CallWritten, BaseInv, StateTypes, Steady
  <2>2. ~(first[a] > 0)
    BY <1>3
  <2>3. /\ first' \in [Actors -> Nat] /\ first'[a] > 0
        /\ \A b \in Actors \ {a} : first'[b] = first[b]
        /\ IF first[a] > 0 THEN first' = first ELSE \A b \in Actors \ {a} : first[b] < first'[a]
    BY <2>1, StampFacts
  <2> QED BY <2>1, <2>2, <2>3
<1>5. ASSUME NEW c \in Acked', NEW x \in WrittenBy(c), NEW v,
             (c # a /\ Since(c, x, v)) \/ (x = Target(a) /\ v = Effect(a))
      PROVE  Since(c, x, v)'
  <2>1. CASE c = a
    BY <1>0, <1>1, <1>4, <1>5, <2>1, FixedProgram DEF Since, Steady
  <2>2. CASE c # a
    <3>1. c \in Acked /\ c \in Actors /\ first[c] > 0
      BY <1>2, <2>2 DEF AckedInv, AckBase, Acked
    <3>2. CASE Since(c, x, v)
      BY <1>0, <1>4, <3>1, <3>2, SinceKept
    <3>3. CASE x = Target(a) /\ v = Effect(a)
      <4>1. After(c, a) /\ x \in WrittenBy(a)
        BY <1>1, <1>3, <3>3 DEF After
      <4> QED BY <1>0, <1>4, <3>1, <3>3, <4>1, SinceWritten
    <3> QED BY <1>5, <3>2, <3>3
  <2> QED BY <2>1, <2>2
<1>6. AckBase'
  <2>1. \A b \in Actors : pc'[b] \notin {"apply", "leave"}
    BY <1>0 DEF CallWritten, BaseInv, ControlInv, ControlOf, ActorTypes
  <2>2. \A i \in DOMAIN journal : journal[i] \in Actors /\ journal[i] # a
    BY <1>0 DEF Steady
  <2> QED BY <1>0, <1>2, <1>4, <2>1, <2>2 DEF AckedInv, AckBase, Crashes, Acked, Steady
<1>7. TableAcked'
  <2> SUFFICES ASSUME NEW c \in Acked', NEW x \in WrittenBy(c), NEW v, v = table'[x] PROVE Since(c, x, v)'
    BY <1>0 DEF TableAcked, Since, Steady
  <2>1. c \in Actors /\ x \in Ids
    BY <1>0, <1>1 DEF Acked, Steady
  <2>2. v = IF x = Target(a) THEN Effect(a) ELSE table[x]
    BY <2>1 DEF CallWritten, BaseInv, StateTypes
  <2>3. (c # a /\ Since(c, x, v)) \/ (x = Target(a) /\ v = Effect(a))
    BY <1>0, <1>1, <1>2, <2>2 DEF AckedInv, TableAcked
  <2> QED BY <1>5, <2>3
<1>8. ASSUME Crashes PROVE DiskAcked'
  <2>1. Effect(a) = Absent
    BY <1>0, <1>8 DEF CallWritten, LoggedWritesOnly, Crashes, Steady, Txs, Actors, Program
  <2>2. \A c \in Acked' \ Entries : c \in Actors
    BY <1>0 DEF Acked, Steady
  <2>3. ASSUME NEW c \in Acked' \ Entries, NEW x \in WrittenBy(c), NEW v \in disk'[x]
        PROVE  IF c \in Txs THEN Since(c, x, v)' ELSE v = Absent
    <3>1. x \in Ids
      BY <1>1, <2>2
    <3>2. CASE c = a
      BY <1>0, <1>1, <2>1, <2>3, <3>2 DEF CallWritten
    <3>3. CASE c # a
      <4>1. c \in Acked \ Entries
        BY <1>2, <3>3
      <4>2. \A u \in disk[x] : IF c \in Txs THEN Since(c, x, u) ELSE u = Absent
        BY <1>8, <4>1 DEF AckedInv, DiskAcked
      <4>3. v \in disk[x] \/ (x = Target(a) /\ v = Effect(a))
        BY <3>1 DEF CallWritten
      <4> QED BY <1>5, <2>1, <3>3, <4>2, <4>3
    <3> QED BY <3>2, <3>3
  <2>4. Entries' = Entries
    BY <1>0 DEF Entries
  <2> QED BY <1>0, <2>3, <2>4 DEF DiskAcked, Steady
<1>9. ASSUME Crashes PROVE JournalAcked'
  <2>1. Entries' = Entries /\ Entries \subseteq Actors /\ a \notin Entries
    BY <1>0 DEF Entries, Steady
  <2>2. ASSUME NEW c \in Actors, c # a, NEW b \in Entries, After(c, b) PROVE After(c, b)'
    BY <1>4, <2>1, <2>2 DEF After
  <2>3. (Acked' \cap Txs) \ Entries = (Acked \cap Txs) \ Entries /\ Acked \subseteq Actors
    BY <1>0, <1>2 DEF Acked
  <2>4. \A i \in DOMAIN journal : journal[i] \in Entries /\ (journal[i] \in Acked' <=> journal[i] \in Acked)
    BY <1>2, <2>1 DEF Entries
  <2> QED BY <1>0, <1>2, <1>9, <2>1, <2>2, <2>3, <2>4 DEF AckedInv, JournalAcked, Steady
<1>10. Crashes' <=> Crashes
  BY <1>0 DEF Crashes, Steady
<1> QED BY <1>6, <1>7, <1>8, <1>9, <1>10 DEF AckedInv

\* Where crashes may come the adapter has a journal, and a single-record write deletes.
LEMMA AckedCrashes ==
  ASSUME LoggedWritesOnly, BaseInv, Crashes
  PROVE  Journaled /\ \A a \in Actors \ Txs : Effect(a) = Absent
  BY DEF LoggedWritesOnly, BaseInv, StateTypes, Crashes, Journaled, Actors, Program, Txs, Effect

\* A transaction's write after, or of, an acknowledged one keeps it; on disk it is never at
\* a record that was deleted.
LEMMA AckedWrite ==
  ASSUME BaseInv, AckedInv, Steady, NEW w \in Txs, Stamp(w), NEW S \in SUBSET WrittenBy(w),
         \A y \in Ids : table'[y] = IF y \in S THEN w ELSE table[y],
         \A y \in Ids : disk'[y] \subseteq disk[y] \cup IF y \in S THEN {w} ELSE {},
         \A y \in S : table[y] # Absent,
         NEW c \in Acked, NEW x \in WrittenBy(c)
  PROVE  /\ /\ After(c, w) \/ first[w] >= first[c]
            /\ x \in S \/ Since(c, x, table[x])
            => \A v : v = table'[x] => Since(c, x, v)'
         /\ /\ c \in Txs => After(c, w) \/ first[w] >= first[c]
            /\ Crashes /\ c \notin Entries
            => \A v \in disk'[x] : IF c \in Txs THEN Since(c, x, v)' ELSE v = Absent
<1>1. c \in Actors /\ first[c] > 0 /\ w \in Actors /\ Effect(w) = w
  BY TxEffect DEF Acked, AckedInv, AckBase
<1>2. x \in Ids
  BY <1>1, ProgramFacts DEF Steady
<1>3. \A v : Since(c, x, v) => Since(c, x, v)'
  BY <1>1, SinceKept
<1>4. ASSUME After(c, w) \/ first[w] >= first[c], x \in S PROVE \A v : v = w => Since(c, x, v)'
  BY <1>1, <1>4, SinceWritten
<1>5. ASSUME After(c, w) \/ first[w] >= first[c], x \in S \/ Since(c, x, table[x])
      PROVE  \A v : v = table'[x] => Since(c, x, v)'
  BY <1>2, <1>3, <1>4, <1>5
<1>6. ASSUME c \in Txs => After(c, w) \/ first[w] >= first[c], Crashes, c \notin Entries, NEW v \in disk'[x]
      PROVE  IF c \in Txs THEN Since(c, x, v)' ELSE v = Absent
  <2>1. \A u \in disk[x] : IF c \in Txs THEN Since(c, x, u) ELSE u = Absent
    BY <1>6 DEF AckedInv, DiskAcked
  <2>2. v \in disk[x] \/ (x \in S /\ v = w)
    BY <1>2, <1>6
  <2>3. CASE c \in Txs
    BY <1>3, <1>4, <1>6, <2>1, <2>2, <2>3
  <2>4. CASE c \notin Txs
    <3>1. table[x] \in disk[x]
      BY <1>2 DEF BaseInv, StateTypes
    <3>2. x \notin S
      BY <2>1, <2>4, <3>1
    <3> QED BY <2>1, <2>2, <2>4, <3>2
  <2> QED BY <2>3, <2>4
<1> QED BY <1>5, <1>6

\* A stamp keeps the order in which entries wrote after acknowledged ones.
LEMMA AckedOrder ==
  ASSUME BaseInv, AckedInv, Steady, NEW w \in Actors, Stamp(w), Crashes, Acked' = Acked, journal' = journal
  PROVE  JournalAcked'
<1>1. Entries' = Entries /\ Entries \subseteq Actors /\ Acked \subseteq Actors
  BY DEF Entries, Steady, Acked
<1>2. \A c \in Acked : \A b \in Actors \ {c} : After(c, b) => After(c, b)'
  BY <1>1, StampAfter DEF AckedInv, AckBase
<1>3. \A c \in (Acked \cap Txs) \ Entries : \A b \in Entries : After(c, b)'
  BY <1>1, <1>2 DEF AckedInv, JournalAcked
<1>4. \A i, j \in DOMAIN journal : i < j /\ journal[i] \in Acked => After(journal[i], journal[j])'
  <2> SUFFICES ASSUME NEW i \in DOMAIN journal, NEW j \in DOMAIN journal, i < j, journal[i] \in Acked
               PROVE  After(journal[i], journal[j])'
    OBVIOUS
  <2>1. i # j /\ journal[i] # journal[j] /\ journal[j] \in Actors
    BY DEF BaseInv, JournalInv, EntriesInv, Steady
  <2>2. After(journal[i], journal[j])
    BY DEF AckedInv, JournalAcked
  <2>3. \A c \in Acked, b \in Actors : c # b /\ After(c, b) /\ c = journal[i] /\ b = journal[j] => After(journal[i], journal[j])'
    BY <1>2 DEF After
  <2> QED BY <2>1, <2>2, <2>3
<1> QED BY <1>1, <1>3, <1>4 DEF JournalAcked, Steady

\* An operation of a batch.
LEMMA AckedApply ==
  ASSUME BaseInv, AckedInv, NEW a \in Actors, ApplyWritten(a)
  PROVE  AckedInv'
<1>0. Steady /\ a \in Txs /\ Effect(a) = a /\ Stamp(a) /\ phase = "up" /\ phase' = "up" /\ locked = {a} /\ locked' = {a}
      /\ journal' = journal /\ turn' = turn /\ replayed' = replayed /\ Entries' = Entries
  BY SteadyFacts, TxEffect DEF ApplyWritten, Entries
<1>1. Acked' = Acked /\ Acked \subseteq Actors /\ (Crashes' <=> Crashes)
  BY <1>0 DEF ApplyWritten, Acked, Crashes, Steady
<1>2. first' \in [Actors -> Nat] /\ first \in [Actors -> Nat] /\ first'[a] > 0
      /\ (\A b \in Actors \ {a} : first'[b] = first[b])
      /\ (first[a] > 0 => first' = first) /\ (first[a] = 0 => \A b \in Actors \ {a} : first[b] < first'[a])
  <2>1. /\ first' \in [Actors -> Nat] /\ first'[a] > 0
        /\ \A b \in Actors \ {a} : first'[b] = first[b]
        /\ IF first[a] > 0 THEN first' = first ELSE \A b \in Actors \ {a} : first[b] < first'[a]
    BY <1>0, StampFacts DEF BaseInv, StateTypes, Steady
  <2>2. first \in [Actors -> Nat]
    BY DEF BaseInv, StateTypes
  <2> QED BY <2>1, <2>2
<1>3. first[a] > 0 => \A b \in Actors : first[b] <= first[a]
  BY DEF ApplyWritten, AckedInv, AckBase
<1>4. ASSUME NEW c \in Acked, NEW x \in WrittenBy(c)
      PROVE  /\ \A v : v = table'[x] => Since(c, x, v)'
             /\ Crashes /\ c \notin Entries => \A v \in disk'[x] : IF c \in Txs THEN Since(c, x, v)' ELSE v = Absent
  <2>1. After(c, a) \/ first[a] >= first[c]
    BY <1>1, <1>2, <1>3 DEF After
  <2>2. Since(c, x, table[x])
    BY <1>0 DEF AckedInv, TableAcked
  <2>3. /\ \A y \in Ids : table'[y] = IF y \in {OpId(a)} THEN a ELSE table[y]
        /\ \A y \in Ids : disk'[y] \subseteq disk[y] \cup IF y \in {OpId(a)} THEN {a} ELSE {}
        /\ \A y \in {OpId(a)} : table[y] # Absent
        /\ {OpId(a)} \in SUBSET WrittenBy(a)
    BY DEF ApplyWritten, BaseInv, StateTypes
  <2> QED BY <1>0, <2>1, <2>2, <2>3, AckedWrite
<1>5. AckBase'
  <2>1. \A b \in Actors : pc'[b] \in {"apply", "leave"} => b = a
    BY <1>0 DEF ApplyWritten, BaseInv, ActorTypes, ControlInv, ControlOf
  <2>2. \A b \in Acked : first'[b] > 0
    BY <1>1, <1>2 DEF AckedInv, AckBase
  <2>3. \A b \in Actors : first'[b] <= first'[a]
    BY <1>2, <1>3
  <2>4. \A i \in DOMAIN journal : journal[i] \in Actors /\ (journal[i] # a => first'[journal[i]] = first[journal[i]])
    BY <1>0, <1>2 DEF Steady
  <2>5. \A i \in DOMAIN journal : i > turn /\ journal[i] \notin locked => first'[journal[i]] = 0
    BY <1>0, <2>4 DEF AckedInv, AckBase
  <2> QED BY <1>0, <1>1, <1>2, <2>1, <2>2, <2>3, <2>5 DEF AckBase, Steady
<1>6. TableAcked'
  <2>1. \A c \in Acked : \A x \in WrittenBy(c) : Since(c, x, table[x])'
    BY <1>4 DEF Since
  <2> QED BY <1>0, <1>1, <2>1 DEF TableAcked, Steady
<1>7. ASSUME Crashes PROVE DiskAcked'
  BY <1>0, <1>1, <1>4, <1>7 DEF DiskAcked, Steady
<1>8. ASSUME Crashes PROVE JournalAcked'
  BY <1>0, <1>1, <1>8, AckedOrder
<1> QED BY <1>1, <1>5, <1>6, <1>7, <1>8 DEF AckedInv

\* Leaving the section acknowledges the batch: it is in the table, and in the journal or
\* flushed.
LEMMA AckedLeave ==
  ASSUME LoggedWritesOnly, BaseInv, AckedInv, NEW a \in Actors, Left(a)
  PROVE  AckedInv'
<1>0. /\ Steady /\ a \in Txs /\ Effect(a) = a /\ phase = "up" /\ phase' = "up" /\ locked = {a} /\ locked' = {}
      /\ table' = table /\ first' = first /\ replayed' = replayed
  BY SteadyFacts, TxEffect DEF Left, BaseInv, ControlInv, ControlOf
<1>1. Acked' = Acked \cup {a} /\ Acked \subseteq Actors /\ (Crashes' <=> Crashes)
  BY <1>0 DEF Left, BaseInv, ActorTypes, Acked, Crashes, Steady
<1>2. first[a] > 0 /\ first \in [Actors -> Nat]
  BY DEF Left, AckedInv, AckBase, BaseInv, StateTypes
<1>3. \A a1, x, v : Since(a1, x, v)' <=> Since(a1, x, v)
  BY <1>0, FixedProgram DEF Since, Steady
<1>4. \A x \in WrittenBy(a) : Since(a, x, table[x])
  <2>1. \A i \in 1 .. Len(Program[a].ids) : table[Program[a].ids[i]] = a
    BY DEF Left, BaseInv, FreshInv, AppliedOf
  <2>2. DOMAIN Program[a].ids = 1 .. Len(Program[a].ids)
    BY <1>0, ProgramFacts DEF Steady
  <2>3. \A x \in WrittenBy(a) : table[x] = a
    BY <2>1, <2>2 DEF WrittenBy
  <2> QED BY <1>0, <1>2, <2>3 DEF Since
<1>5. \A c \in Acked' : \A x \in WrittenBy(c) : Since(c, x, table[x])
  BY <1>0, <1>1, <1>4 DEF AckedInv, TableAcked
<1>6. Journaled => turn < Len(journal) /\ journal[turn + 1] = a /\ turn + 1 \in DOMAIN journal
  <2>1. Journaled => turn < Len(journal) /\ journal[turn + 1] = a
    BY DEF Left, BaseInv, JournalInv, GateOf
  <2>2. turn < Len(journal) => turn + 1 \in DOMAIN journal
    BY <1>0 DEF Steady
  <2> QED BY <2>1, <2>2
<1>7. \/ Journaled /\ DOMAIN journal' = {} /\ Entries' = {} /\ disk' = [x \in Ids |-> {table[x]}]
      \/ journal' = journal /\ Entries' = Entries /\ disk' = disk /\ (Journaled => turn' = turn + 1)
  BY DEF Left, Entries
<1>8. AckBase'
  <2>1. \A b \in Actors : pc'[b] \notin {"apply", "leave"}
    BY <1>0 DEF Left, BaseInv, ActorTypes, ControlInv, ControlOf
  <2>2. \A i \in DOMAIN journal' : i > turn' => first[journal'[i]] = 0
    <3>1. CASE DOMAIN journal' = {}
      BY <3>1
    <3>2. CASE journal' = journal /\ Journaled /\ turn' = turn + 1
      <4> SUFFICES ASSUME NEW i \in DOMAIN journal, i > turn + 1 PROVE first[journal[i]] = 0
        BY <3>2
      <4>1. i > turn /\ i # turn + 1
        BY <1>0 DEF Steady
      <4>2. journal[i] # a
        BY <1>6, <3>2, <4>1 DEF BaseInv, JournalInv, EntriesInv
      <4> QED BY <1>0, <4>1, <4>2 DEF AckedInv, AckBase
    <3>3. CASE journal' = journal /\ ~Journaled
      BY <3>3 DEF BaseInv, JournalInv, EntriesInv
    <3> QED BY <1>7, <3>1, <3>2, <3>3
  <2> QED BY <1>0, <1>1, <1>2, <2>1, <2>2 DEF AckedInv, AckBase, Steady
<1>9. TableAcked'
  BY <1>0, <1>3, <1>5 DEF TableAcked, Steady
<1>10. ASSUME Crashes PROVE DiskAcked'
  <2>1. Journaled /\ a \in Entries /\ Entries \subseteq Txs
    BY <1>0, <1>6, <1>10, AckedCrashes DEF Entries, Steady
  <2>2. CASE disk' = disk /\ Entries' = Entries
    BY <1>0, <1>1, <1>3, <1>10, <2>1, <2>2 DEF AckedInv, DiskAcked, Steady
  <2>3. CASE disk' = [x \in Ids |-> {table[x]}]
    <3>1. \A c \in Acked' : \A x \in WrittenBy(c) : x \in Ids
      BY <1>0, <1>1, ProgramFacts DEF Steady
    <3>2. ASSUME NEW c \in Acked', c \notin Txs, NEW x \in WrittenBy(c) PROVE table[x] = Absent
      <4>1. c \in Acked \ Entries
        BY <1>0, <1>1, <2>1, <3>2
      <4>2. table[x] \in disk[x]
        BY <3>1, <3>2 DEF BaseInv, StateTypes
      <4> QED BY <1>10, <3>2, <4>1, <4>2 DEF AckedInv, DiskAcked
    <3> QED BY <1>0, <1>3, <1>5, <2>3, <3>1, <3>2 DEF DiskAcked, Steady
  <2> QED BY <1>7, <2>2, <2>3
<1>11. ASSUME Crashes PROVE JournalAcked'
  <2>1. CASE DOMAIN journal' = {} /\ Entries' = {}
    BY <2>1 DEF JournalAcked
  <2>2. CASE journal' = journal /\ Entries' = Entries
    <3>1. Journaled /\ a \in Entries
      BY <1>6, <1>11, AckedCrashes DEF Entries
    <3>2. ASSUME NEW i \in DOMAIN journal, NEW j \in DOMAIN journal, i < j, journal[i] = a
          PROVE  After(journal[i], journal[j])
      <4>1. i = turn + 1
        BY <1>6, <3>1, <3>2 DEF BaseInv, JournalInv, EntriesInv
      <4>2. j > turn /\ j # turn + 1
        BY <1>0, <3>2, <4>1 DEF Steady
      <4>3. journal[j] # a
        BY <1>6, <3>1, <4>2 DEF BaseInv, JournalInv, EntriesInv
      <4> QED BY <1>0, <4>2, <4>3 DEF AckedInv, AckBase, After
    <3> QED BY <1>0, <1>1, <1>11, <2>2, <3>1, <3>2 DEF AckedInv, JournalAcked, After, Steady
  <2> QED BY <1>7, <2>1, <2>2
<1> QED BY <1>1, <1>8, <1>9, <1>10, <1>11 DEF AckedInv

\* Appending an entry: its batch has not written, so it comes after all the others.
LEMMA AckedAppend ==
  ASSUME BaseInv, AckedInv, Steady, NEW a \in Actors, pc[a] = "journal", journal' = Append(journal, a),
         phase = "up", phase' = "up", table' = table, disk' = disk, first' = first, locked' = locked,
         turn' = turn, replayed' = replayed, Acked' = Acked,
         \A b \in Actors : pc'[b] \in {"apply", "leave"} => pc'[b] = pc[b]
  PROVE  AckedInv'
<1>1. /\ DOMAIN journal' = 1 .. Len(journal) + 1 /\ journal'[Len(journal) + 1] = a
      /\ \A i \in 1 .. Len(journal) : journal'[i] = journal[i]
      /\ Entries' = Entries \cup {a}
  BY EntriesGrow
<1>2. first[a] = 0
  BY FreshUnstamped DEF Waiting
<1>3. \A b, x, v : Since(b, x, v)' <=> Since(b, x, v)
  BY FixedProgram DEF Since, Steady
<1>4. AckBase'
  <2>1. \A i \in DOMAIN journal' : i = Len(journal) + 1 \/ i \in DOMAIN journal
    BY <1>1 DEF Steady
  <2>2. \A i \in DOMAIN journal : journal'[i] = journal[i]
    BY <1>1 DEF Steady
  <2>3. \A i \in DOMAIN journal' : i > turn /\ journal'[i] \notin locked => first[journal'[i]] = 0
    BY <1>1, <1>2, <2>1, <2>2 DEF AckedInv, AckBase
  <2> QED BY <2>3 DEF AckedInv, AckBase, Crashes, Steady
<1>5. TableAcked'
  BY <1>3 DEF AckedInv, TableAcked, Steady
<1>6. Crashes => DiskAcked'
  BY <1>1, <1>3 DEF AckedInv, DiskAcked, Steady
<1>7. ASSUME Crashes PROVE JournalAcked'
  <2>1. ASSUME NEW i \in DOMAIN journal', NEW j \in DOMAIN journal', i < j, journal'[i] \in Acked
        PROVE  After(journal'[i], journal'[j])
    <3>1. i \in DOMAIN journal /\ (j = Len(journal) + 1 \/ j \in DOMAIN journal)
      BY <1>1, <2>1 DEF Steady
    <3>2. journal'[i] = journal[i] /\ (j \in DOMAIN journal => journal'[j] = journal[j])
      BY <1>1, <3>1 DEF Steady
    <3> QED BY <1>1, <1>2, <1>7, <2>1, <3>1, <3>2 DEF AckedInv, JournalAcked, After
  <2>2. \A c \in (Acked \cap Txs) \ Entries : \A b \in Entries' : After(c, b)
    BY <1>1, <1>2, <1>7 DEF AckedInv, JournalAcked, After
  <2> QED BY <1>1, <2>1, <2>2 DEF JournalAcked, After, Steady
<1> QED BY <1>4, <1>5, <1>6, <1>7 DEF AckedInv, Crashes, Steady

\* A crash: what is acknowledged and not in the journal is on disk.
LEMMA AckedCrash ==
  ASSUME BaseInv, AckedInv, Crash
  PROVE  AckedInv'
<1>0. Steady /\ Crashed
  BY SteadyFacts, CrashFacts DEF Crashed
<1>1. Crashes
  BY ScenarioAssumption DEF Crash, Crashes, BaseInv, StateTypes, IsScenario
<1>2. /\ phase' = "replay" /\ replayed' = 0 /\ first' = first /\ Acked' = Acked /\ Acked \subseteq Actors
      /\ Entries' = Entries /\ journal' = journal /\ (Crashes' <=> Crashes)
  BY <1>0 DEF Crashed, Acked, Entries, Crashes, Steady
<1>3. \A b, x, v : Since(b, x, v)' <=> Since(b, x, v)
  BY <1>0, <1>2, FixedProgram DEF Since, Steady
<1>4. AckBase'
  <2>1. \A b \in Actors : pc'[b] \notin {"apply", "leave"}
    BY <1>0 DEF Crashed
  <2> QED BY <1>0, <1>1, <1>2, <2>1 DEF AckedInv, AckBase, Steady
<1>5. TableAcked'
  BY <1>2 DEF TableAcked
<1>6. DiskAcked'
  <2>1. \A c \in Acked : \A x \in WrittenBy(c) : \A v \in disk'[x] : v \in disk[x]
    BY <1>0, <1>2, ProgramFacts DEF Crashed, Steady
  <2> QED BY <1>0, <1>1, <1>2, <1>3, <2>1 DEF AckedInv, DiskAcked, Steady
<1>7. JournalAcked'
  BY <1>0, <1>1, <1>2 DEF AckedInv, JournalAcked, After, Steady
<1> QED BY <1>4, <1>5, <1>6, <1>7 DEF AckedInv

\* Opening: the table is what the replay made of the disk, and is flushed.
LEMMA AckedOpen ==
  ASSUME LoggedWritesOnly, BaseInv, AckedInv, Open
  PROVE  AckedInv'
<1>0. Steady
  BY SteadyFacts DEF Open
<1>1. /\ phase = "replay" /\ phase' = "up" /\ replayed = Len(journal) /\ table' = table /\ first' = first
      /\ disk' = [x \in Ids |-> {table[x]}] /\ DOMAIN journal' = {} /\ pc' = pc /\ Acked' = Acked /\ Entries' = {}
      /\ Acked \subseteq Actors /\ (Crashes' <=> Crashes)
  <2>1. /\ phase = "replay" /\ phase' = "up" /\ replayed = Len(journal) /\ table' = table /\ first' = first
        /\ disk' = [x \in Ids |-> {table[x]}] /\ journal' = <<>> /\ pc' = pc /\ answer' = answer
    BY DEF Open, Flush, actorVars, histVars
  <2>2. DOMAIN journal' = {}
    BY <2>1
  <2> QED BY <1>0, <2>1, <2>2 DEF Acked, Entries, Crashes, Steady
<1>2. Crashes /\ \A a \in Actors \ Txs : Effect(a) = Absent
  BY <1>1, AckedCrashes DEF AckedInv, AckBase
<1>3. \A b, x, v : Since(b, x, v)' <=> Since(b, x, v)
  BY <1>0, <1>1, FixedProgram DEF Since, Steady
<1>4. \A c \in Acked : \A x \in WrittenBy(c) : x \in Ids /\ table[x] \in disk[x]
  BY <1>0, <1>1, ProgramFacts DEF BaseInv, StateTypes, Steady
<1>5. Entries \subseteq Txs
  BY <1>0 DEF Entries, Steady
<1>6. \A c \in Acked \ Txs : \A x \in WrittenBy(c) : table[x] = Absent
  BY <1>2, <1>4, <1>5 DEF AckedInv, DiskAcked
<1>7. ASSUME NEW c \in Acked, NEW x \in WrittenBy(c) PROVE Since(c, x, table[x])
  <2>1. CASE c \in Entries
    <3>1. \E i \in 1 .. replayed : journal[i] = c
      BY <1>0, <1>1, <2>1 DEF Entries, Steady
    <3> QED BY <1>1, <3>1 DEF AckedInv, TableAcked
  <2>2. CASE c \in Txs \ Entries
    BY <1>2, <1>4, <2>2 DEF AckedInv, DiskAcked
  <2>3. CASE c \notin Txs
    <3>1. table[x] = Effect(c) /\ c \in Actors /\ first[c] \in Nat
      BY <1>1, <1>2, <1>6, <2>3 DEF BaseInv, StateTypes
    <3> QED BY <3>1 DEF Since
  <2> QED BY <2>1, <2>2, <2>3
<1>8. AckBase'
  <2>1. \A b \in Actors : pc[b] \notin {"apply", "leave"}
    BY <1>1 DEF BaseInv, ControlInv, ControlOf
  <2> QED BY <1>0, <1>1, <2>1 DEF AckedInv, AckBase, Steady
<1>9. TableAcked'
  BY <1>0, <1>1, <1>3, <1>7 DEF TableAcked, Steady
<1>10. DiskAcked'
  BY <1>0, <1>1, <1>3, <1>4, <1>6, <1>7 DEF DiskAcked, Steady
<1>11. JournalAcked'
  BY <1>1 DEF JournalAcked
<1> QED BY <1>8, <1>9, <1>10, <1>11 DEF AckedInv

\* One entry replayed: it wrote after what is acknowledged, or is acknowledged itself.
LEMMA AckedReplay ==
  ASSUME BaseInv, AckedInv, ReplayBatch
  PROVE  AckedInv'
<1>0. Steady /\ ReplayedOne /\ Pending \in Txs /\ Effect(Pending) = Pending /\ Pending \in Actors
  BY ReplayBatchFacts, SteadyFacts, TxEffect DEF ReplayedOne
<1>1. /\ phase = "replay" /\ Acked' = Acked /\ Acked \subseteq Actors /\ journal' = journal /\ Entries' = Entries
      /\ pc' = pc /\ turn' = turn /\ (Crashes' <=> Crashes)
  <2>1. phase = "replay" /\ answer' = answer /\ journal' = journal /\ pc' = pc /\ turn' = turn
    BY <1>0 DEF ReplayedOne
  <2> QED BY <1>0, <2>1 DEF Acked, Entries, Crashes, Steady
<1>2. Crashes
  BY <1>1 DEF AckedInv, AckBase
<1>3. replayed + 1 \in DOMAIN journal /\ Pending \in Entries
  <2>1. replayed + 1 \in DOMAIN journal
    BY <1>0 DEF ReplayedOne, Steady
  <2> QED BY <2>1 DEF Entries, Pending
<1>4. /\ \A y \in Ids : table'[y] = IF y \in Rewritten THEN Pending ELSE table[y]
      /\ \A y \in Ids : disk'[y] \subseteq disk[y] \cup IF y \in Rewritten THEN {Pending} ELSE {}
      /\ Rewritten \in SUBSET WrittenBy(Pending)
      /\ \A y \in Rewritten : table[y] # Absent
  <2>1. \A i \in Reached(Pending) : i \in DOMAIN Program[Pending].ids /\ i \in 1 .. i /\ table[Program[Pending].ids[i]] # Absent
    <3>1. DOMAIN Program[Pending].ids = 1 .. Len(Program[Pending].ids) /\ Len(Program[Pending].ids) \in Nat
      BY <1>0, ProgramFacts DEF Steady
    <3> QED BY <3>1 DEF Reached
  <2>2. \A y \in Rewritten : y \in WrittenBy(Pending) /\ table[y] # Absent
    BY <2>1 DEF Rewritten, WrittenBy
  <2> QED BY <1>0, <2>2 DEF ReplayedOne, BaseInv, StateTypes
<1>5. ASSUME phase' # "broken" PROVE phase' = "replay" /\ replayed' = replayed + 1 /\ Rewritten = WrittenBy(Pending)
  BY <1>0, <1>1, <1>5 DEF ReplayBatch, ReplayedOne, Pending, Rewritten, WrittenBy
<1>6. \A c \in Acked : c \notin Entries \/ (\E i \in 1 .. replayed + 1 : journal[i] = c) =>
        (c \in Txs => After(c, Pending) \/ first[Pending] >= first[c])
  <2> SUFFICES ASSUME NEW c \in Acked, c \in Txs, c \notin Entries \/ (\E i \in 1 .. replayed + 1 : journal[i] = c)
               PROVE  After(c, Pending) \/ first[Pending] >= first[c]
    OBVIOUS
  <2>1. CASE c \notin Entries
    BY <1>2, <1>3, <2>1 DEF AckedInv, JournalAcked
  <2>2. CASE \E i \in 1 .. replayed + 1 : journal[i] = c
    <3>1. PICK i \in 1 .. replayed + 1 : journal[i] = c
      BY <2>2
    <3>2. CASE i = replayed + 1
      <4>1. c = Pending /\ first[c] \in Nat
        BY <1>1, <3>1, <3>2 DEF Pending, BaseInv, StateTypes
      <4> QED BY <4>1
    <3>3. CASE i # replayed + 1
      <4>1. replayed \in Nat /\ i < replayed + 1 /\ i \in DOMAIN journal
        BY <1>0, <1>3, <3>1, <3>3 DEF ReplayedOne, Steady
      <4>2. After(journal[i], journal[replayed + 1])
        BY <1>2, <1>3, <3>1, <4>1 DEF AckedInv, JournalAcked
      <4> QED BY <3>1, <4>2 DEF After, Pending
    <3> QED BY <3>2, <3>3
  <2> QED BY <2>1, <2>2
<1>7. CASE Stamp(Pending)
  <2>1. first' \in [Actors -> Nat] /\ \A c \in Acked : first'[c] > 0
    <3>1. PICK w \in Actors : w = Pending
      BY <1>0
    <3>2. /\ first' \in [Actors -> Nat] /\ first'[w] > 0
          /\ \A b \in Actors \ {w} : first'[b] = first[b]
      BY <1>0, <1>7, <3>1, StampFacts DEF BaseInv, StateTypes, Steady
    <3> QED BY <1>1, <3>2 DEF AckedInv, AckBase
  <2>2. ASSUME NEW c \in Acked, NEW x \in WrittenBy(c)
        PROVE  /\ /\ After(c, Pending) \/ first[Pending] >= first[c]
                  /\ x \in Rewritten \/ Since(c, x, table[x])
                  => \A v : v = table'[x] => Since(c, x, v)'
               /\ c \notin Entries => \A v \in disk'[x] : IF c \in Txs THEN Since(c, x, v)' ELSE v = Absent
    <3>1. /\ /\ After(c, Pending) \/ first[Pending] >= first[c]
             /\ x \in Rewritten \/ Since(c, x, table[x])
             => \A v : v = table'[x] => Since(c, x, v)'
          /\ /\ c \in Txs => After(c, Pending) \/ first[Pending] >= first[c]
             /\ Crashes /\ c \notin Entries
             => \A v \in disk'[x] : IF c \in Txs THEN Since(c, x, v)' ELSE v = Absent
      <4> HIDE DEF Pending, Rewritten
      <4> QED BY <1>0, <1>1, <1>4, <1>7, AckedWrite
    <3> QED BY <1>2, <1>6, <3>1
  <2>3. AckBase'
    <3>1. \A b \in Actors : pc[b] \notin {"apply", "leave"}
      BY <1>1 DEF BaseInv, ControlInv, ControlOf
    <3>2. phase' # "up"
      BY <1>0, <1>1 DEF ReplayedOne
    <3> QED BY <1>0, <1>1, <1>2, <2>1, <3>1, <3>2 DEF AckBase, Steady
  <2>4. TableAcked'
    <3>1. CASE phase' = "broken"
      BY <3>1 DEF TableAcked
    <3>2. CASE phase' # "broken"
      <4> SUFFICES ASSUME NEW c \in Acked, NEW i \in 1 .. replayed', journal[i] = c, NEW x \in WrittenBy(c)
                   PROVE  \A v : v = table'[x] => Since(c, x, v)'
        BY <1>0, <1>1, <1>5, <3>2 DEF TableAcked, Since, Steady
      <4>1. i \in 1 .. replayed + 1 /\ i \in DOMAIN journal /\ c \in Txs
        BY <1>0, <1>3, <1>5, <3>2 DEF ReplayedOne, Steady
      <4>2. After(c, Pending) \/ first[Pending] >= first[c]
        BY <1>6, <4>1
      <4>3. x \in Rewritten \/ Since(c, x, table[x])
        <5>1. CASE i = replayed + 1
          BY <1>5, <3>2, <5>1 DEF Pending
        <5>2. CASE i # replayed + 1
          <6>1. i \in 1 .. replayed
            BY <1>0, <4>1, <5>2 DEF ReplayedOne
          <6> QED BY <1>1, <6>1 DEF AckedInv, TableAcked
        <5> QED BY <5>1, <5>2
      <4> QED BY <2>2, <4>2, <4>3
    <3> QED BY <3>1, <3>2
  <2>5. DiskAcked'
    BY <1>0, <1>1, <2>2 DEF DiskAcked, Steady
  <2>6. JournalAcked'
    <3>1. \A w \in Actors : w = Pending => JournalAcked'
      BY <1>0, <1>1, <1>2, <1>7, AckedOrder
    <3> QED BY <1>0, <3>1
  <2> QED BY <2>3, <2>4, <2>5, <2>6 DEF AckedInv
<1>8. CASE Rewritten = {} /\ UNCHANGED histVars
  <2>1. phase' = "broken" /\ first' = first /\ \A y \in Ids : disk'[y] \subseteq disk[y]
    <3>1. WrittenBy(Pending) # {}
      BY <1>0, ProgramFacts DEF Steady
    <3> QED BY <1>4, <1>5, <1>8, <3>1 DEF histVars
  <2>2. \A b, x, v : Since(b, x, v)' <=> Since(b, x, v)
    BY <1>0, <2>1, FixedProgram DEF Since, Steady
  <2>3. \A b \in Actors : pc[b] \notin {"apply", "leave"}
    BY <1>1 DEF BaseInv, ControlInv, ControlOf
  <2>4. AckBase'
    BY <1>0, <1>1, <1>2, <2>1, <2>3 DEF AckedInv, AckBase, Steady
  <2>5. TableAcked'
    BY <2>1 DEF TableAcked
  <2>6. DiskAcked'
    <3>1. \A c \in Acked : WrittenBy(c) \subseteq Ids
      BY <1>0, <1>1, ProgramFacts DEF Steady
    <3> QED BY <1>0, <1>1, <1>2, <2>1, <2>2, <3>1 DEF AckedInv, DiskAcked, Steady
  <2>7. JournalAcked'
    BY <1>0, <1>1, <1>2, <2>1 DEF AckedInv, JournalAcked, After, Steady
  <2> QED BY <2>4, <2>5, <2>6, <2>7 DEF AckedInv
<1> QED BY <1>0, <1>7, <1>8 DEF ReplayedOne

\* Every step keeps AckedInv.
LEMMA AckedStep == ASSUME LoggedWritesOnly, BaseInv, AckedInv, [Next]_vars PROVE AckedInv'
<1>1. ASSUME NEW a \in Actors,
             UpdateField(a) \/ InsertRecord(a) \/ ReplaceRecord(a) \/ DeleteRecord(a)
      PROVE  AckedInv'
  BY <1>1, CallWriteFacts, AckedCall
<1>2. ASSUME NEW a \in Actors, CallRefused(a) \/ Read(a) \/ Commit(a) \/ Validate(a) PROVE AckedInv'
  <2>1. /\ Steady /\ table' = table /\ disk' = disk /\ first' = first /\ locked' = locked /\ journal' = journal
        /\ phase' = phase /\ replayed' = replayed /\ turn' = turn
    BY <1>2, SteadyFacts DEF CallRefused, CallRest, Read, Commit, Validate, lifeVars, histVars, Free
  <2>2. Acked' = Acked
    BY <1>2, <2>1 DEF CallRefused, CallRest, Read, Commit, Validate, Answer, Acked, BaseInv, ActorTypes, ControlInv, ControlOf, Steady
  <2>3. \A b \in Actors : pc'[b] \in {"apply", "leave"} => pc[b] = pc'[b]
    BY <1>2 DEF CallRefused, CallRest, Read, Commit, Validate, Answer, BaseInv, ActorTypes
  <2>4. phase = "up" => \A i \in DOMAIN journal : i > turn' /\ journal[i] \notin locked' => first[journal[i]] = 0
    BY <2>1 DEF AckedInv, AckBase
  <2> QED BY <2>1, <2>2, <2>3, <2>4, AckedQuiet
<1>3. ASSUME NEW a \in Actors, Journal(a) \/ JournalFails(a) PROVE AckedInv'
  <2>1. /\ Steady /\ table' = table /\ disk' = disk /\ first' = first /\ locked' = locked /\ pc[a] = "journal"
        /\ phase = "up" /\ phase' = "up" /\ replayed' = replayed /\ turn' = turn
        /\ (journal' = journal \/ journal' = Append(journal, a))
    BY <1>3, SteadyFacts DEF Journal, JournalFails, lifeVars, histVars
  <2>2. Acked' = Acked
    BY <1>3, <2>1 DEF Journal, JournalFails, Answer, Acked, BaseInv, ActorTypes, ControlInv, ControlOf, Steady
  <2>3. \A b \in Actors : pc'[b] \in {"apply", "leave"} => pc'[b] = pc[b]
    BY <1>3 DEF Journal, JournalFails, Answer, BaseInv, ActorTypes
  <2>4. \A i \in DOMAIN journal : i > turn' /\ journal[i] \notin locked' => first[journal[i]] = 0
    BY <2>1 DEF AckedInv, AckBase
  <2>5. CASE journal' = journal
    BY <2>1, <2>2, <2>3, <2>4, <2>5, AckedQuiet
  <2>6. CASE journal' = Append(journal, a)
    BY <2>1, <2>2, <2>3, <2>6, AckedAppend
  <2> QED BY <2>1, <2>5, <2>6
<1>4. ASSUME NEW a \in Actors, Enter(a) \/ EnterUnjournaled(a) PROVE AckedInv'
  <2>1. /\ Steady /\ table' = table /\ disk' = disk /\ first' = first /\ locked = {} /\ journal' = journal
        /\ phase = "up" /\ phase' = phase /\ replayed' = replayed
        /\ turn' = turn \/ turn' = turn + 1
    BY <1>4, SteadyFacts DEF Enter, EnterUnjournaled, lifeVars, histVars, Free
  <2>2. Acked' = Acked
    BY <1>4, <2>1 DEF Enter, EnterUnjournaled, Answer, Acked, BaseInv, ActorTypes, ControlInv, ControlOf, Steady
  <2>3. first[a] = 0
    BY <1>4, FreshUnstamped DEF Enter, EnterUnjournaled, Waiting
  <2>4. \A b \in Actors : pc'[b] \in {"apply", "leave"} => pc[b] = pc'[b] \/ (pc'[b] = "apply" /\ first[b] = 0)
    BY <1>4, <2>3 DEF Enter, EnterUnjournaled, Answer, BaseInv, ActorTypes
  <2>5. \A i \in DOMAIN journal : i > turn' => i > turn
    BY <2>1 DEF Steady
  <2>6. \A i \in DOMAIN journal : i > turn' /\ journal[i] \notin locked' => first[journal[i]] = 0
    BY <2>1, <2>5 DEF AckedInv, AckBase
  <2> QED BY <2>1, <2>2, <2>4, <2>6, AckedQuiet
<1>5. ASSUME NEW a \in Actors, ApplyOp(a), table[OpId(a)] = Absent PROVE AckedInv'
  <2>1. Stopped(a) /\ Steady
    BY <1>5, ApplyStopFacts, SteadyFacts DEF Stopped
  <2>2. Acked' = Acked
    BY <2>1 DEF Stopped, Acked, BaseInv, ActorTypes, ControlInv, ControlOf, Steady
  <2>3. \A b \in Actors : pc'[b] \in {"apply", "leave"} => pc[b] = pc'[b]
    BY <2>1 DEF Stopped, BaseInv, ActorTypes
  <2>4. ASSUME NEW i \in DOMAIN journal, i > turn' PROVE first[journal[i]] = 0
    <3>1. Journaled /\ turn' = turn + 1
      BY <2>1, <2>4 DEF Stopped, BaseInv, JournalInv, EntriesInv
    <3>2. i > turn /\ i # turn + 1 /\ turn + 1 \in DOMAIN journal
      BY <2>1, <2>4, <3>1 DEF Steady
    <3>3. journal[turn + 1] = a /\ locked = {a}
      BY <2>1, <3>1 DEF Stopped, BaseInv, JournalInv, GateOf
    <3>4. journal[i] # a
      BY <3>2, <3>3 DEF BaseInv, JournalInv, EntriesInv
    <3> QED BY <2>1, <3>2, <3>3, <3>4 DEF Stopped, AckedInv, AckBase
  <2>5. table' = table /\ disk' = disk /\ first' = first /\ journal' = journal /\ phase' = phase /\ replayed' = replayed
    BY <2>1 DEF Stopped
  <2> QED BY <2>1, <2>2, <2>3, <2>4, <2>5, AckedQuiet
<1>6. ASSUME NEW a \in Actors, ApplyOp(a) PROVE AckedInv'
  BY <1>5, <1>6, ApplyWriteFacts, AckedApply
<1>7. ASSUME NEW a \in Actors, Leave(a) PROVE AckedInv'
  BY <1>7, LeaveFacts, AckedLeave
<1>8. CASE SkipRefused \/ UNCHANGED vars
  <2>1. /\ Steady /\ table' = table /\ disk' = disk /\ first' = first /\ locked' = locked /\ pc' = pc
        /\ phase' = phase /\ replayed' = replayed /\ journal' = journal /\ answer' = answer
        /\ turn' = turn \/ turn' = turn + 1
    BY <1>8, SteadyFacts DEF SkipRefused, vars, actorVars, lifeVars, histVars
  <2>2. Acked' = Acked /\ \A i \in DOMAIN journal : i > turn' => i > turn
    BY <2>1 DEF Acked, Steady
  <2>3. phase = "up" => \A i \in DOMAIN journal : i > turn' /\ journal[i] \notin locked' => first[journal[i]] = 0
    BY <2>1, <2>2 DEF AckedInv, AckBase
  <2> QED BY <2>1, <2>2, <2>3, AckedQuiet
<1> QED BY <1>1, <1>2, <1>3, <1>4, <1>6, <1>7, <1>8, AckedCrash, AckedReplay, AckedOpen DEF Next

\* AckedStand, for any clients whose writes are logged where a crash may come: an
\* acknowledged write stands until a later writer replaces it, across crashes and replays.
THEOREM AcknowledgedWritesStand == ASSUME LoggedWritesOnly PROVE Spec => []AckedStand
<1>1. Init => AckedInv
  <2> SUFFICES ASSUME Init PROVE AckedInv
    OBVIOUS
  <2>1. Acked = {} /\ phase = "up" /\ DOMAIN journal = {} /\ \A a \in Actors : pc[a] \notin {"apply", "leave"}
    BY DEF Init, Acked
  <2> QED BY <2>1 DEF AckedInv, AckBase, TableAcked, DiskAcked, JournalAcked
<1>2. BaseInv /\ AckedInv => AckedStand
  BY DEF AckedInv, TableAcked, AckedStand, Free, Acked, Since
<1> QED BY <1>1, <1>2, AckedStep, BaseInvariant, PTL DEF Spec

==============================================================================
