----------------------------- MODULE CommitProofs -----------------------------
(***************************************************************************)
(* What a commit answers.  On the server: the safety of group commit for   *)
(* any number of threads, batches and crashes.  IndInv is inductive,       *)
(* action by action; the properties the runs check on small instances      *)
(* follow from it.  At the client: that it stays in step with the server   *)
(* and answers what the server did, by ClientInv, stage by stage, for      *)
(* every server version, table, token, limit and number of connections.    *)
(***************************************************************************)
EXTENDS CommitGroup, Client, TLAPS, WellFoundedInduction

\* Updating a Boolean-valued function with a Boolean (a fact for Zenon: the
\* SMT encoding keeps formulas and Boolean values apart).
LEMMA BooleanUpdate ==
  ASSUME NEW f \in [Threads -> BOOLEAN], NEW t \in Threads, NEW b \in BOOLEAN
  PROVE  [f EXCEPT ![t] = b] \in [Threads -> BOOLEAN]
  BY Zenon

\* The first incomplete entry exists and is not past the end of the file.
LEMMA ReadableEndIsMin ==
  ASSUME appended \in Nat, torn \subseteq Nat
  PROVE  /\ ReadableEnd \in torn \cup {appended}
         /\ \A q \in torn \cup {appended} : ReadableEnd <= q
<1> DEFINE S == torn \cup {appended}
<1>1. S \subseteq Nat /\ S # {}
  OBVIOUS
<1> HIDE DEF S
<1>2. PICK p \in S : \A q \in S : <<q, p>> \notin OpToRel(<, Nat)
  BY <1>1, WFMin, NatLessThanWellFounded, Zenon
<1>3. \A q \in S : q \in Nat /\ p \in Nat => ~(q < p)
  BY <1>2, Zenon DEF OpToRel
<1>4. \E r \in S : \A q \in S : r <= q
  BY <1>1, <1>3
<1>5. ReadableEnd = CHOOSE r \in S : \A q \in S : r <= q
  BY DEF ReadableEnd, S
<1>6. ReadableEnd \in S /\ \A q \in S : ReadableEnd <= q
  BY <1>4, <1>5
<1> QED BY <1>6 DEF S

\* Initially the inductive invariant holds.
LEMMA IndInvInit == Init => IndInv
<1> SUFFICES ASSUME Init PROVE IndInv
  OBVIOUS
<1> USE DEF Init
<1>1. Types
  <2>1. GroupTypes
    BY DEF GroupTypes
  <2>2. FileTypes
    <3>1. {0} \subseteq Nat /\ {} \subseteq Nat
      OBVIOUS
    <3> QED BY <3>1 DEF FileTypes
  <2>3. LifeTypes
    BY DEF LifeTypes, Phases
  <2>4. ThreadTypes
    BY DEF ThreadTypes, PCs
  <2> QED BY <2>1, <2>2, <2>3, <2>4 DEF Types
<1>2. CountersInRange /\ ThreadInv /\ DurableInv
  BY DEF CountersInRange, ThreadInv, DurableInv, Holding
<1>3. StoreInv /\ AppliedInv /\ RecoveryInv
  BY DEF StoreInv, AppliedInv, RecoveryInv
<1> QED BY <1>1, <1>2, <1>3 DEF IndInv, TypeOK

\* AppendBatch keeps the inductive invariant.
LEMMA AppendInv ==
  ASSUME IndInv, NEW t \in Threads, AppendBatch(t)
  PROVE  IndInv'
<1> USE DEF IndInv, TypeOK, Types, GroupTypes, ThreadTypes, FileTypes, LifeTypes,
            groupVars, threadVars, fileVars, storeVars, lifeVars, histVars,
            AppendBatch
<1>1. GroupTypes'
  OBVIOUS
<1>2. ThreadTypes'
  BY DEF PCs
<1>3. FileTypes'
  OBVIOUS
<1>4. LifeTypes'
  BY DEF Phases
<1>5. CountersInRange'
  BY DEF CountersInRange, ThreadInv, Holding
<1>6. ThreadInv'
  BY DEF CountersInRange, ThreadInv, Holding
<1>7. DurableInv'
  BY DEF CountersInRange, ThreadInv, Holding, DurableInv
<1>8. StoreInv'
  BY DEF CountersInRange, ThreadInv, Holding, DurableInv, StoreInv, AppliedInv
<1>9. AppliedInv'
  BY DEF CountersInRange, ThreadInv, Holding, DurableInv, StoreInv, AppliedInv
<1>10. RecoveryInv'
  BY DEF CountersInRange, ThreadInv, Holding, DurableInv, StoreInv, AppliedInv, RecoveryInv
<1> QED BY <1>1, <1>2, <1>3, <1>4, <1>5, <1>6, <1>7, <1>8, <1>9, <1>10

\* AppendFails keeps the inductive invariant.
LEMMA AppendFailsInv ==
  ASSUME IndInv, NEW t \in Threads, AppendFails(t)
  PROVE  IndInv'
<1> USE DEF IndInv, TypeOK, Types, GroupTypes, ThreadTypes, FileTypes, LifeTypes,
            groupVars, threadVars, fileVars, storeVars, lifeVars, histVars,
            AppendFails
<1>1. GroupTypes'
  OBVIOUS
<1>2. ThreadTypes'
  BY DEF PCs
<1>3. FileTypes'
  OBVIOUS
<1>4. LifeTypes'
  BY DEF Phases
<1>5. CountersInRange'
  BY DEF CountersInRange, ThreadInv, Holding
<1>6. ThreadInv'
  BY DEF CountersInRange, ThreadInv, Holding
<1>7. DurableInv'
  BY DEF CountersInRange, ThreadInv, Holding, DurableInv
<1>8. StoreInv'
  BY DEF CountersInRange, ThreadInv, Holding, DurableInv, StoreInv, AppliedInv
<1>9. AppliedInv'
  BY DEF CountersInRange, ThreadInv, Holding, DurableInv, StoreInv, AppliedInv
<1>10. RecoveryInv'
  BY DEF CountersInRange, ThreadInv, Holding, DurableInv, StoreInv, AppliedInv, RecoveryInv
<1> QED BY <1>1, <1>2, <1>3, <1>4, <1>5, <1>6, <1>7, <1>8, <1>9, <1>10

\* Lead keeps the inductive invariant.
LEMMA LeadInv ==
  ASSUME IndInv, NEW t \in Threads, Lead(t)
  PROVE  IndInv'
<1> USE DEF IndInv, TypeOK, Types, GroupTypes, ThreadTypes, FileTypes, LifeTypes,
            groupVars, threadVars, fileVars, storeVars, lifeVars, histVars,
            Lead
<1>1. GroupTypes'
  OBVIOUS
<1>2. ThreadTypes'
  BY DEF PCs
<1>3. FileTypes'
  OBVIOUS
<1>4. LifeTypes'
  BY DEF Phases
<1>5. CountersInRange'
  BY DEF CountersInRange, ThreadInv, Holding
<1>6. ThreadInv'
  BY DEF CountersInRange, ThreadInv, Holding
<1>7. DurableInv'
  BY DEF CountersInRange, ThreadInv, Holding, DurableInv
<1>8. StoreInv'
  BY DEF CountersInRange, ThreadInv, Holding, DurableInv, StoreInv, AppliedInv
<1>9. AppliedInv'
  BY DEF CountersInRange, ThreadInv, Holding, DurableInv, StoreInv, AppliedInv
<1>10. RecoveryInv'
  BY DEF CountersInRange, ThreadInv, Holding, DurableInv, StoreInv, AppliedInv, RecoveryInv
<1> QED BY <1>1, <1>2, <1>3, <1>4, <1>5, <1>6, <1>7, <1>8, <1>9, <1>10

\* SyncOk keeps the inductive invariant.
LEMMA SyncOkInv ==
  ASSUME IndInv, NEW t \in Threads, SyncOk(t)
  PROVE  IndInv'
<1> USE DEF IndInv, TypeOK, Types, GroupTypes, ThreadTypes, FileTypes, LifeTypes,
            groupVars, threadVars, fileVars, storeVars, lifeVars, histVars,
            SyncOk, TurnGate, Notified, Max2, NeedsCheckpoint
<1>1. GroupTypes'
  OBVIOUS
<1>2. ThreadTypes'
  <2>1. pc' \in [Threads -> PCs] /\ token' \subseteq Threads
    BY DEF PCs
  <2>2. seq' \in [Threads -> Nat] /\ upto' \in [Threads -> Nat]
    OBVIOUS
  <2>3. refused' \in [Threads -> BOOLEAN]
    <3>1. refused' = [refused EXCEPT ![t] = (failedUpto >= seq[t])]
      OBVIOUS
    <3>2. (failedUpto >= seq[t]) \in BOOLEAN
      OBVIOUS
    <3> QED BY <3>1, <3>2, BooleanUpdate, Zenon
  <2>4. due' \in [Threads -> BOOLEAN]
    OBVIOUS
  <2> QED BY <2>1, <2>2, <2>3, <2>4
<1>3. FileTypes'
  OBVIOUS
<1>4. LifeTypes'
  BY DEF Phases
<1>5. CountersInRange'
  BY DEF CountersInRange, ThreadInv, Holding
<1>6. ThreadInv'
  <2>1. \A u \in Threads : /\ (pc'[u] # "idle" => pc[u] # "idle") /\ seq'[u] = seq[u]
                           /\ (u # t /\ Holding(u)' => Holding(u))
                           /\ (pc'[u] = "sync" => pc[u] = "sync" /\ upto'[u] = upto[u])
    BY DEF Holding
  <2>2. phase = "up" /\ phase' = "up" /\ Holding(t)' => seq[t] = nextApply
    BY DEF ThreadInv, Holding, PCs
  <2>3. Holding(t)' => seq[t] = nextApply
    BY DEF Holding
  <2> QED BY <2>1, <2>3 DEF ThreadInv
<1>7. DurableInv'
  <2>1. phase' = "up" => durable' <= synced'
    BY DEF DurableInv, ThreadInv
  <2>2. ASSUME NEW s \in syncFailed' PROVE s <= failedUpto'
    BY <2>2 DEF DurableInv
  <2>3. ASSUME NEW u \in Threads, (pc[u] \in {"park", "gate"} \/ Holding(u))',
               ~(refused[u])'
        PROVE  (seq[u] <= durable /\ seq[u] \notin syncFailed)'
    <3>1. CASE u = t
      <4>1. refused' = [refused EXCEPT ![t] = (failedUpto >= seq[t])]
        OBVIOUS
      <4>2. ~(failedUpto >= seq[t])
        <5>1. refused'[t] = (failedUpto >= seq[t])
          BY <4>1, Zenon
        <5> QED BY <2>3, <3>1, <5>1, Zenon
      <4> QED BY <3>1, <4>2 DEF DurableInv, ThreadInv
    <3>2. CASE u # t
      <4>1. (pc[u] \in {"park", "gate"} \/ Holding(u)) /\ ~refused[u]
        BY <2>3, <3>2 DEF Holding
      <4>2. seq[u] <= durable /\ seq[u] \notin syncFailed
        BY <4>1 DEF DurableInv
      <4> QED BY <4>2
    <3> QED BY <3>1, <3>2
  <2> QED BY <2>1, <2>2, <2>3 DEF DurableInv
<1>8. StoreInv'
  BY DEF CountersInRange, ThreadInv, Holding, DurableInv, StoreInv, AppliedInv
<1>9. AppliedInv'
  BY DEF CountersInRange, ThreadInv, Holding, DurableInv, StoreInv, AppliedInv
<1>10. RecoveryInv'
  BY DEF CountersInRange, ThreadInv, Holding, DurableInv, StoreInv, AppliedInv, RecoveryInv
<1> QED BY <1>1, <1>2, <1>3, <1>4, <1>5, <1>6, <1>7, <1>8, <1>9, <1>10

\* SyncFails keeps the inductive invariant.
LEMMA SyncFailsInv ==
  ASSUME IndInv, NEW t \in Threads, SyncFails(t)
  PROVE  IndInv'
<1> USE DEF IndInv, TypeOK, Types, GroupTypes, ThreadTypes, FileTypes, LifeTypes,
            groupVars, threadVars, fileVars, storeVars, lifeVars, histVars,
            SyncFails, TurnGate, Notified, Max2, NeedsCheckpoint
<1>1. GroupTypes'
  OBVIOUS
<1>2. ThreadTypes'
  BY DEF PCs
<1>3. FileTypes'
  OBVIOUS
<1>4. LifeTypes'
  <2>1. durable + 1 .. upto[t] \subseteq Nat
    OBVIOUS
  <2>2. syncFailed' \subseteq Nat
    BY <2>1
  <2> QED BY <2>2 DEF Phases
<1>5. CountersInRange'
  BY DEF CountersInRange, ThreadInv, Holding
<1>6. ThreadInv'
  <2>1. \A u \in Threads : /\ (pc'[u] # "idle" => pc[u] # "idle") /\ seq'[u] = seq[u]
                           /\ (u # t /\ Holding(u)' => Holding(u))
                           /\ (pc'[u] = "sync" => pc[u] = "sync" /\ upto'[u] = upto[u])
    BY DEF Holding
  <2>2. phase = "up" /\ phase' = "up" /\ Holding(t)' => seq[t] = nextApply
    BY DEF ThreadInv, Holding, PCs
  <2>3. Holding(t)' => seq[t] = nextApply
    BY DEF Holding
  <2> QED BY <2>1, <2>3 DEF ThreadInv
<1>7. DurableInv'
  <2>1. phase' = "up" => durable' <= synced'
    BY DEF DurableInv, ThreadInv
  <2>2. ASSUME NEW s \in syncFailed' PROVE s <= failedUpto'
    BY <2>2 DEF DurableInv
  <2>3. ASSUME NEW u \in Threads, (pc[u] \in {"park", "gate"} \/ Holding(u))',
               ~(refused[u])'
        PROVE  (seq[u] <= durable /\ seq[u] \notin syncFailed)'
    <3>1. CASE u = t
      BY <2>3, <3>1 DEF DurableInv, ThreadInv, Holding
    <3>2. CASE u # t
      <4>1. (pc[u] \in {"park", "gate"} \/ Holding(u)) /\ ~refused[u]
        BY <2>3, <3>2 DEF Holding
      <4>2. seq[u] <= durable /\ seq[u] \notin syncFailed
        BY <4>1 DEF DurableInv
      <4> QED BY <4>2
    <3> QED BY <3>1, <3>2
  <2> QED BY <2>1, <2>2, <2>3 DEF DurableInv
<1>8. StoreInv'
  BY DEF CountersInRange, ThreadInv, Holding, DurableInv, StoreInv, AppliedInv
<1>9. AppliedInv'
  BY DEF CountersInRange, ThreadInv, Holding, DurableInv, StoreInv, AppliedInv
<1>10. RecoveryInv'
  BY DEF CountersInRange, ThreadInv, Holding, DurableInv, StoreInv, AppliedInv, RecoveryInv
<1> QED BY <1>1, <1>2, <1>3, <1>4, <1>5, <1>6, <1>7, <1>8, <1>9, <1>10

\* Recheck keeps the inductive invariant.
LEMMA RecheckInv ==
  ASSUME IndInv, NEW t \in Threads, Recheck(t)
  PROVE  IndInv'
<1> USE DEF IndInv, TypeOK, Types, GroupTypes, ThreadTypes, FileTypes, LifeTypes,
            groupVars, threadVars, fileVars, storeVars, lifeVars, histVars,
            Recheck, TurnGate, NeedsCheckpoint
<1>1. GroupTypes'
  OBVIOUS
<1>2. ThreadTypes'
  <2>1. pc' \in [Threads -> PCs]
    BY DEF PCs
  <2>2. refused' \in [Threads -> BOOLEAN]
    <3>1. UNCHANGED refused \/ refused' = [refused EXCEPT ![t] = (failedUpto >= seq[t])]
      OBVIOUS
    <3>2. (failedUpto >= seq[t]) \in BOOLEAN
      OBVIOUS
    <3> QED BY <3>1, <3>2, BooleanUpdate, Zenon
  <2>3. due' \in [Threads -> BOOLEAN]
    OBVIOUS
  <2> QED BY <2>1, <2>2, <2>3
<1>3. FileTypes'
  OBVIOUS
<1>4. LifeTypes'
  BY DEF Phases
<1>5. CountersInRange'
  BY DEF CountersInRange, ThreadInv, Holding
<1>6. ThreadInv'
  BY DEF CountersInRange, ThreadInv, Holding
<1>7. DurableInv'
  <2>1. ASSUME NEW u \in Threads, (pc[u] \in {"park", "gate"} \/ Holding(u))',
               ~(refused[u])'
        PROVE  (seq[u] <= durable /\ seq[u] \notin syncFailed)'
    <3>1. CASE u = t
      <4>0. failedUpto >= seq[t] \/ durable >= seq[t]
        BY <2>1, <3>1 DEF Holding
      <4>1. refused' = [refused EXCEPT ![t] = (failedUpto >= seq[t])]
        BY <4>0
      <4>2. ~(failedUpto >= seq[t])
        <5>1. refused'[t] = (failedUpto >= seq[t])
          BY <4>1, Zenon
        <5> QED BY <2>1, <3>1, <5>1, Zenon
      <4> QED BY <3>1, <4>0, <4>2 DEF DurableInv
    <3>2. CASE u # t
      BY <2>1, <3>2 DEF DurableInv, Holding
    <3> QED BY <3>1, <3>2
  <2> QED BY <2>1 DEF DurableInv
<1>8. StoreInv'
  BY DEF CountersInRange, ThreadInv, Holding, DurableInv, StoreInv, AppliedInv
<1>9. AppliedInv'
  BY DEF CountersInRange, ThreadInv, Holding, DurableInv, StoreInv, AppliedInv
<1>10. RecoveryInv'
  BY DEF CountersInRange, ThreadInv, Holding, DurableInv, StoreInv, AppliedInv, RecoveryInv
<1> QED BY <1>1, <1>2, <1>3, <1>4, <1>5, <1>6, <1>7, <1>8, <1>9, <1>10

\* ParkReturns keeps the inductive invariant.
LEMMA ParkReturnsInv ==
  ASSUME IndInv, NEW t \in Threads, ParkReturns(t)
  PROVE  IndInv'
<1> USE DEF IndInv, TypeOK, Types, GroupTypes, ThreadTypes, FileTypes, LifeTypes,
            groupVars, threadVars, fileVars, storeVars, lifeVars, histVars,
            ParkReturns
<1>1. GroupTypes'
  OBVIOUS
<1>2. ThreadTypes'
  BY DEF PCs
<1>3. FileTypes'
  OBVIOUS
<1>4. LifeTypes'
  BY DEF Phases
<1>5. CountersInRange'
  BY DEF CountersInRange, ThreadInv, Holding
<1>6. ThreadInv'
  BY DEF CountersInRange, ThreadInv, Holding
<1>7. DurableInv'
  BY DEF CountersInRange, ThreadInv, Holding, DurableInv
<1>8. StoreInv'
  BY DEF CountersInRange, ThreadInv, Holding, DurableInv, StoreInv, AppliedInv
<1>9. AppliedInv'
  BY DEF CountersInRange, ThreadInv, Holding, DurableInv, StoreInv, AppliedInv
<1>10. RecoveryInv'
  BY DEF CountersInRange, ThreadInv, Holding, DurableInv, StoreInv, AppliedInv, RecoveryInv
<1> QED BY <1>1, <1>2, <1>3, <1>4, <1>5, <1>6, <1>7, <1>8, <1>9, <1>10

\* SpuriousUnpark keeps the inductive invariant.
LEMMA SpuriousUnparkInv ==
  ASSUME IndInv, NEW t \in Threads, SpuriousUnpark(t)
  PROVE  IndInv'
<1> USE DEF IndInv, TypeOK, Types, GroupTypes, ThreadTypes, FileTypes, LifeTypes,
            groupVars, threadVars, fileVars, storeVars, lifeVars, histVars,
            SpuriousUnpark
<1>1. GroupTypes'
  OBVIOUS
<1>2. ThreadTypes'
  BY DEF PCs
<1>3. FileTypes'
  OBVIOUS
<1>4. LifeTypes'
  BY DEF Phases
<1>5. CountersInRange'
  BY DEF CountersInRange, ThreadInv, Holding
<1>6. ThreadInv'
  BY DEF CountersInRange, ThreadInv, Holding
<1>7. DurableInv'
  BY DEF CountersInRange, ThreadInv, Holding, DurableInv
<1>8. StoreInv'
  BY DEF CountersInRange, ThreadInv, Holding, DurableInv, StoreInv, AppliedInv
<1>9. AppliedInv'
  BY DEF CountersInRange, ThreadInv, Holding, DurableInv, StoreInv, AppliedInv
<1>10. RecoveryInv'
  BY DEF CountersInRange, ThreadInv, Holding, DurableInv, StoreInv, AppliedInv, RecoveryInv
<1> QED BY <1>1, <1>2, <1>3, <1>4, <1>5, <1>6, <1>7, <1>8, <1>9, <1>10

\* Regate keeps the inductive invariant.
LEMMA RegateInv ==
  ASSUME IndInv, NEW t \in Threads, Regate(t)
  PROVE  IndInv'
<1> USE DEF IndInv, TypeOK, Types, GroupTypes, ThreadTypes, FileTypes, LifeTypes,
            groupVars, threadVars, fileVars, storeVars, lifeVars, histVars,
            Regate, TurnGate, NeedsCheckpoint
<1>1. GroupTypes'
  OBVIOUS
<1>2. ThreadTypes'
  BY DEF PCs
<1>3. FileTypes'
  OBVIOUS
<1>4. LifeTypes'
  BY DEF Phases
<1>5. CountersInRange'
  BY DEF CountersInRange, ThreadInv, Holding
<1>6. ThreadInv'
  BY DEF CountersInRange, ThreadInv, Holding
<1>7. DurableInv'
  BY DEF CountersInRange, ThreadInv, Holding, DurableInv
<1>8. StoreInv'
  BY DEF CountersInRange, ThreadInv, Holding, DurableInv, StoreInv, AppliedInv
<1>9. AppliedInv'
  BY DEF CountersInRange, ThreadInv, Holding, DurableInv, StoreInv, AppliedInv
<1>10. RecoveryInv'
  BY DEF CountersInRange, ThreadInv, Holding, DurableInv, StoreInv, AppliedInv, RecoveryInv
<1> QED BY <1>1, <1>2, <1>3, <1>4, <1>5, <1>6, <1>7, <1>8, <1>9, <1>10

\* Apply keeps the inductive invariant.
LEMMA ApplyInv ==
  ASSUME IndInv, NEW t \in Threads, Apply(t)
  PROVE  IndInv'
<1> USE DEF IndInv, TypeOK, Types, GroupTypes, ThreadTypes, FileTypes, LifeTypes,
            groupVars, threadVars, fileVars, storeVars, lifeVars, histVars,
            Apply
<1>1. GroupTypes'
  OBVIOUS
<1>2. ThreadTypes'
  BY DEF PCs
<1>3. FileTypes'
  <2>1. seq[t] \in Nat
    OBVIOUS
  <2> QED BY <2>1
<1>4. LifeTypes'
  BY DEF Phases
<1>5. CountersInRange'
  BY DEF CountersInRange, ThreadInv, Holding
<1>6. ThreadInv'
  BY DEF CountersInRange, ThreadInv, Holding
<1>7. DurableInv'
  BY DEF CountersInRange, ThreadInv, Holding, DurableInv
<1>8. StoreInv'
  <2>1. phase = "up" /\ seq[t] \in Nat /\ mem < seq[t] /\ disk' \subseteq disk \cup {seq[t]}
    BY DEF ThreadInv, AppliedInv
  <2>2. truncated <= seq[t] /\ seq[t] <= durable /\ seq[t] \notin syncFailed
    BY <2>1 DEF DurableInv, StoreInv, Holding
  <2>3. mem' \in disk' /\ mem' = seq[t]
    OBVIOUS
  <2>4. ASSUME NEW v \in disk'
        PROVE  truncated <= v /\ v <= mem' /\ v <= durable /\ v \notin syncFailed
    <3>1. v \in disk \/ v = seq[t]
      BY <2>1, <2>4
    <3> QED BY <2>1, <2>2, <2>3, <3>1 DEF StoreInv
  <2> QED BY <2>3, <2>4 DEF StoreInv
<1>9. AppliedInv'
  BY DEF CountersInRange, ThreadInv, Holding, DurableInv, StoreInv, AppliedInv
<1>10. RecoveryInv'
  BY DEF CountersInRange, ThreadInv, Holding, DurableInv, StoreInv, AppliedInv, RecoveryInv
<1> QED BY <1>1, <1>2, <1>3, <1>4, <1>5, <1>6, <1>7, <1>8, <1>9, <1>10

\* ApplyFails keeps the inductive invariant.
LEMMA ApplyFailsInv ==
  ASSUME IndInv, NEW t \in Threads, ApplyFails(t)
  PROVE  IndInv'
<1> USE DEF IndInv, TypeOK, Types, GroupTypes, ThreadTypes, FileTypes, LifeTypes,
            groupVars, threadVars, fileVars, storeVars, lifeVars, histVars,
            ApplyFails
<1>1. GroupTypes'
  OBVIOUS
<1>2. ThreadTypes'
  BY DEF PCs
<1>3. FileTypes'
  OBVIOUS
<1>4. LifeTypes'
  BY DEF Phases
<1>5. CountersInRange'
  BY DEF CountersInRange, ThreadInv, Holding
<1>6. ThreadInv'
  BY DEF CountersInRange, ThreadInv, Holding
<1>7. DurableInv'
  BY DEF CountersInRange, ThreadInv, Holding, DurableInv
<1>8. StoreInv'
  BY DEF CountersInRange, ThreadInv, Holding, DurableInv, StoreInv, AppliedInv
<1>9. AppliedInv'
  BY DEF CountersInRange, ThreadInv, Holding, DurableInv, StoreInv, AppliedInv
<1>10. RecoveryInv'
  BY DEF CountersInRange, ThreadInv, Holding, DurableInv, StoreInv, AppliedInv, RecoveryInv
<1> QED BY <1>1, <1>2, <1>3, <1>4, <1>5, <1>6, <1>7, <1>8, <1>9, <1>10

\* Refuse keeps the inductive invariant.
LEMMA RefuseInv ==
  ASSUME IndInv, NEW t \in Threads, Refuse(t)
  PROVE  IndInv'
<1> USE DEF IndInv, TypeOK, Types, GroupTypes, ThreadTypes, FileTypes, LifeTypes,
            groupVars, threadVars, fileVars, storeVars, lifeVars, histVars,
            Refuse
<1>1. GroupTypes'
  OBVIOUS
<1>2. ThreadTypes'
  BY DEF PCs
<1>3. FileTypes'
  OBVIOUS
<1>4. LifeTypes'
  BY DEF Phases
<1>5. CountersInRange'
  BY DEF CountersInRange, ThreadInv, Holding
<1>6. ThreadInv'
  BY DEF CountersInRange, ThreadInv, Holding
<1>7. DurableInv'
  BY DEF CountersInRange, ThreadInv, Holding, DurableInv
<1>8. StoreInv'
  BY DEF CountersInRange, ThreadInv, Holding, DurableInv, StoreInv, AppliedInv
<1>9. AppliedInv'
  BY DEF CountersInRange, ThreadInv, Holding, DurableInv, StoreInv, AppliedInv
<1>10. RecoveryInv'
  BY DEF CountersInRange, ThreadInv, Holding, DurableInv, StoreInv, AppliedInv, RecoveryInv
<1> QED BY <1>1, <1>2, <1>3, <1>4, <1>5, <1>6, <1>7, <1>8, <1>9, <1>10

\* Truncate keeps the inductive invariant.
LEMMA TruncateInv ==
  ASSUME IndInv, NEW t \in Threads, Truncate(t)
  PROVE  IndInv'
<1> USE DEF IndInv, TypeOK, Types, GroupTypes, ThreadTypes, FileTypes, LifeTypes,
            groupVars, threadVars, fileVars, storeVars, lifeVars, histVars,
            Truncate, TruncateJournal
<1>1. GroupTypes'
  OBVIOUS
<1>2. ThreadTypes'
  BY DEF PCs
<1>3. FileTypes'
  OBVIOUS
<1>4. LifeTypes'
  BY DEF Phases
<1>5. CountersInRange'
  BY DEF CountersInRange, ThreadInv, Holding
<1>6. ThreadInv'
  BY DEF CountersInRange, ThreadInv, Holding
<1>7. DurableInv'
  BY DEF CountersInRange, ThreadInv, Holding, DurableInv
<1>8. StoreInv'
  BY DEF CountersInRange, ThreadInv, Holding, DurableInv, StoreInv, AppliedInv
<1>9. AppliedInv'
  BY DEF CountersInRange, ThreadInv, Holding, DurableInv, StoreInv, AppliedInv
<1>10. RecoveryInv'
  BY DEF CountersInRange, ThreadInv, Holding, DurableInv, StoreInv, AppliedInv, RecoveryInv
<1> QED BY <1>1, <1>2, <1>3, <1>4, <1>5, <1>6, <1>7, <1>8, <1>9, <1>10

\* ReleaseTurn keeps the inductive invariant.
LEMMA ReleaseTurnInv ==
  ASSUME IndInv, NEW t \in Threads, ReleaseTurn(t)
  PROVE  IndInv'
<1> USE DEF IndInv, TypeOK, Types, GroupTypes, ThreadTypes, FileTypes, LifeTypes,
            groupVars, threadVars, fileVars, storeVars, lifeVars, histVars,
            ReleaseTurn
<1>1. GroupTypes'
  OBVIOUS
<1>2. ThreadTypes'
  BY DEF PCs
<1>3. FileTypes'
  OBVIOUS
<1>4. LifeTypes'
  BY DEF Phases
<1>5. CountersInRange'
  BY DEF CountersInRange, ThreadInv, Holding
<1>6. ThreadInv'
  BY DEF CountersInRange, ThreadInv, Holding
<1>7. DurableInv'
  BY DEF CountersInRange, ThreadInv, Holding, DurableInv
<1>8. StoreInv'
  BY DEF CountersInRange, ThreadInv, Holding, DurableInv, StoreInv, AppliedInv
<1>9. AppliedInv'
  BY DEF CountersInRange, ThreadInv, Holding, DurableInv, StoreInv, AppliedInv
<1>10. RecoveryInv'
  BY DEF CountersInRange, ThreadInv, Holding, DurableInv, StoreInv, AppliedInv, RecoveryInv
<1> QED BY <1>1, <1>2, <1>3, <1>4, <1>5, <1>6, <1>7, <1>8, <1>9, <1>10

\* Crash keeps the inductive invariant.
LEMMA CrashInv ==
  ASSUME IndInv, Crash
  PROVE  IndInv'
<1> USE DEF IndInv, TypeOK, Types, GroupTypes, ThreadTypes, FileTypes, LifeTypes,
            groupVars, threadVars, fileVars, storeVars, lifeVars, histVars,
            Crash
<1>1. GroupTypes'
  OBVIOUS
<1>2. ThreadTypes'
  BY DEF PCs
<1>3. FileTypes'
  OBVIOUS
<1>4. LifeTypes'
  BY DEF Phases
<1>5. CountersInRange'
  BY DEF CountersInRange, ThreadInv, Holding
<1>6. ThreadInv'
  BY DEF CountersInRange, ThreadInv, Holding
<1>7. DurableInv'
  BY DEF CountersInRange, ThreadInv, Holding, DurableInv
<1>8. StoreInv'
  BY DEF CountersInRange, ThreadInv, Holding, DurableInv, StoreInv, AppliedInv
<1>9. AppliedInv'
  BY DEF CountersInRange, ThreadInv, Holding, DurableInv, StoreInv, AppliedInv
<1>10. RecoveryInv'
  <2>1. \A s \in acked : TornAt = {} => s <= synced
    <3>1. ASSUME phase = "up", NEW s \in acked PROVE s <= synced
      <4>1. s <= mem /\ mem <= durable /\ durable <= synced /\ s \in Nat
        BY <3>1 DEF AppliedInv, StoreInv, DurableInv
      <4> QED BY <4>1
    <3> QED BY <3>1 DEF RecoveryInv
  <2> QED BY <2>1 DEF RecoveryInv
<1> QED BY <1>1, <1>2, <1>3, <1>4, <1>5, <1>6, <1>7, <1>8, <1>9, <1>10

\* OpenJournal keeps the inductive invariant.
LEMMA OpenJournalInv ==
  ASSUME IndInv, OpenJournal
  PROVE  IndInv'
<1> USE DEF IndInv, TypeOK, Types, GroupTypes, ThreadTypes, FileTypes, LifeTypes,
            groupVars, threadVars, fileVars, storeVars, lifeVars, histVars,
            OpenJournal, Max2
<1>0. /\ ReadableEnd \in Nat /\ ReadableEnd <= appended
      /\ truncated <= ReadableEnd /\ (torn = {} => ReadableEnd = appended)
  <2>1. ReadableEnd \in torn \cup {appended} /\ ReadableEnd <= appended
    BY ReadableEndIsMin
  <2>2. truncated <= appended /\ \A p \in torn : truncated <= p
    BY DEF RecoveryInv, StoreInv
  <2> QED BY <2>1, <2>2
<1>1. GroupTypes'
  BY <1>0
<1>2. ThreadTypes'
  BY <1>0 DEF PCs
<1>3. FileTypes'
  BY <1>0
<1>4. LifeTypes'
  BY <1>0 DEF Phases
<1>5. CountersInRange'
  BY <1>0 DEF CountersInRange, ThreadInv, Holding
<1>6. ThreadInv'
  BY <1>0 DEF CountersInRange, ThreadInv, Holding
<1>7. DurableInv'
  BY <1>0 DEF CountersInRange, ThreadInv, Holding, DurableInv
<1>8. StoreInv'
  BY <1>0 DEF CountersInRange, ThreadInv, Holding, DurableInv, StoreInv, AppliedInv
<1>9. AppliedInv'
  BY <1>0 DEF CountersInRange, ThreadInv, Holding, DurableInv, StoreInv, AppliedInv
<1>10. RecoveryInv'
  BY <1>0 DEF CountersInRange, ThreadInv, Holding, DurableInv, StoreInv, AppliedInv, RecoveryInv
<1> QED BY <1>1, <1>2, <1>3, <1>4, <1>5, <1>6, <1>7, <1>8, <1>9, <1>10

\* ReplayBatch keeps the inductive invariant.
LEMMA ReplayBatchInv ==
  ASSUME IndInv, ReplayBatch
  PROVE  IndInv'
<1> USE DEF IndInv, TypeOK, Types, GroupTypes, ThreadTypes, FileTypes, LifeTypes,
            groupVars, threadVars, fileVars, storeVars, lifeVars, histVars,
            ReplayBatch
<1>1. GroupTypes'
  OBVIOUS
<1>2. ThreadTypes'
  BY DEF PCs
<1>3. FileTypes'
  OBVIOUS
<1>4. LifeTypes'
  BY DEF Phases
<1>5. CountersInRange'
  BY DEF CountersInRange, ThreadInv, Holding
<1>6. ThreadInv'
  BY DEF CountersInRange, ThreadInv, Holding
<1>7. DurableInv'
  BY DEF CountersInRange, ThreadInv, Holding, DurableInv
<1>8. StoreInv'
  <2>1. truncated <= replayed + 1
    BY DEF RecoveryInv
  <2>2. \A v \in disk' : truncated <= v
    BY <2>1 DEF StoreInv
  <2> QED BY <2>2 DEF StoreInv
<1>9. AppliedInv'
  BY DEF CountersInRange, ThreadInv, Holding, DurableInv, StoreInv, AppliedInv
<1>10. RecoveryInv'
  BY DEF CountersInRange, ThreadInv, Holding, DurableInv, StoreInv, AppliedInv, RecoveryInv
<1> QED BY <1>1, <1>2, <1>3, <1>4, <1>5, <1>6, <1>7, <1>8, <1>9, <1>10

\* FlushReplayed keeps the inductive invariant.
LEMMA FlushReplayedInv ==
  ASSUME IndInv, FlushReplayed
  PROVE  IndInv'
<1> USE DEF IndInv, TypeOK, Types, GroupTypes, ThreadTypes, FileTypes, LifeTypes,
            groupVars, threadVars, fileVars, storeVars, lifeVars, histVars,
            FlushReplayed
<1>1. GroupTypes'
  OBVIOUS
<1>2. ThreadTypes'
  BY DEF PCs
<1>3. FileTypes'
  OBVIOUS
<1>4. LifeTypes'
  BY DEF Phases
<1>5. CountersInRange'
  BY DEF CountersInRange, ThreadInv, Holding
<1>6. ThreadInv'
  BY DEF CountersInRange, ThreadInv, Holding
<1>7. DurableInv'
  BY DEF CountersInRange, ThreadInv, Holding, DurableInv
<1>8. StoreInv'
  BY DEF CountersInRange, ThreadInv, Holding, DurableInv, StoreInv, AppliedInv
<1>9. AppliedInv'
  BY DEF CountersInRange, ThreadInv, Holding, DurableInv, StoreInv, AppliedInv
<1>10. RecoveryInv'
  BY DEF CountersInRange, ThreadInv, Holding, DurableInv, StoreInv, AppliedInv, RecoveryInv
<1> QED BY <1>1, <1>2, <1>3, <1>4, <1>5, <1>6, <1>7, <1>8, <1>9, <1>10

\* Reopen keeps the inductive invariant.
LEMMA ReopenInv ==
  ASSUME IndInv, Reopen
  PROVE  IndInv'
<1> USE DEF IndInv, TypeOK, Types, GroupTypes, ThreadTypes, FileTypes, LifeTypes,
            groupVars, threadVars, fileVars, storeVars, lifeVars, histVars,
            Reopen
<1>1. GroupTypes'
  OBVIOUS
<1>2. ThreadTypes'
  BY DEF PCs
<1>3. FileTypes'
  OBVIOUS
<1>4. LifeTypes'
  BY DEF Phases
<1>5. CountersInRange'
  BY DEF CountersInRange, ThreadInv, Holding
<1>6. ThreadInv'
  BY DEF CountersInRange, ThreadInv, Holding
<1>7. DurableInv'
  BY DEF CountersInRange, ThreadInv, Holding, DurableInv
<1>8. StoreInv'
  BY DEF CountersInRange, ThreadInv, Holding, DurableInv, StoreInv, AppliedInv
<1>9. AppliedInv'
  BY DEF CountersInRange, ThreadInv, Holding, DurableInv, StoreInv, AppliedInv
<1>10. RecoveryInv'
  BY DEF CountersInRange, ThreadInv, Holding, DurableInv, StoreInv, AppliedInv, RecoveryInv
<1> QED BY <1>1, <1>2, <1>3, <1>4, <1>5, <1>6, <1>7, <1>8, <1>9, <1>10

\* Every step keeps the inductive invariant.
LEMMA IndInvStep == IndInv /\ [Next]_vars => IndInv'
<1> SUFFICES ASSUME IndInv, [Next]_vars PROVE IndInv'
  OBVIOUS
<1>1. CASE UNCHANGED vars
  <2> USE <1>1 DEF vars, groupVars, threadVars, fileVars, storeVars, lifeVars, histVars
  <2>1. Types'
    BY DEF IndInv, TypeOK, Types, GroupTypes, ThreadTypes, FileTypes, LifeTypes
  <2>2. (CountersInRange /\ ThreadInv /\ DurableInv)'
    BY DEF IndInv, TypeOK, CountersInRange, ThreadInv, DurableInv, Holding
  <2>3. (StoreInv /\ AppliedInv /\ RecoveryInv)'
    BY DEF IndInv, StoreInv, AppliedInv, RecoveryInv
  <2> QED BY <2>1, <2>2, <2>3 DEF IndInv, TypeOK
<1>2. CASE Next
  BY <1>2, AppendInv, AppendFailsInv, LeadInv, SyncOkInv, SyncFailsInv,
     RecheckInv, ParkReturnsInv, SpuriousUnparkInv, RegateInv, ApplyInv,
     ApplyFailsInv, RefuseInv, TruncateInv, ReleaseTurnInv,
     CrashInv, OpenJournalInv, ReplayBatchInv, FlushReplayedInv, ReopenInv
     DEF Next, Step
<1> QED BY <1>1, <1>2

\* The inductive invariant always holds.
THEOREM Invariance == Spec => []IndInv
  BY IndInvInit, IndInvStep, PTL DEF Spec

\* Type correctness: every variable keeps its type and no counter runs ahead of
\* the journal (GroupState).
THEOREM TypeCorrect == Spec => []TypeOK
<1>1. IndInv => TypeOK
  BY DEF IndInv
<1> QED BY <1>1, Invariance, PTL

\* What reaches the store is durable in the journal first, and never belongs to
\* a batch whose fsync failed (commit, GRP-FR-005).
THEOREM WriteAheadHolds == Spec => []WriteAhead
<1>1. IndInv => WriteAhead
  <2> SUFFICES ASSUME IndInv, phase = "up", NEW v \in disk
               PROVE  v <= synced /\ v \notin syncFailed
    BY DEF WriteAhead
  <2>1. v \in Nat /\ durable \in Nat /\ synced \in Nat
    BY DEF IndInv, TypeOK, Types, GroupTypes, FileTypes
  <2> QED BY <2>1 DEF IndInv, DurableInv, StoreInv
<1> QED BY <1>1, Invariance, PTL

\* The turn gate admits one batch at a time, in sequence order (GRP-FR-003).
THEOREM OneTurnHolds == Spec => []OneTurn
<1>1. IndInv => OneTurn
  BY DEF IndInv, ThreadInv, OneTurn, Holding
<1> QED BY <1>1, Invariance, PTL

\* A checkpoint never drops an entry the files still need (GRP-FR-004).
THEOREM TruncatedIsOnDiskHolds == Spec => []TruncatedIsOnDisk
<1>1. IndInv => TruncatedIsOnDisk
  BY DEF IndInv, StoreInv, TruncatedIsOnDisk
<1> QED BY <1>1, Invariance, PTL

\* When no failing append leaves part of an entry behind, recovery restores
\* every acknowledged batch, whatever crashed when (JRN-FR-002, JRN-FR-003).
THEOREM AckedSurviveHolds == ASSUME TornAt = {} PROVE Spec => []AckedSurvive
<1>1. IndInv => AckedSurvive
  <2> SUFFICES ASSUME IndInv, phase # "up", NEW s \in acked PROVE s <= RecoveredValue
    BY DEF AckedSurvive
  <2>1. torn = {} /\ s <= synced /\ synced <= appended /\ truncated <= mem /\ s \in Nat
    BY DEF IndInv, RecoveryInv, StoreInv, TypeOK, Types, LifeTypes
  <2>2. ReadableEnd = appended
    BY <2>1, ReadableEndIsMin DEF IndInv, TypeOK, Types, GroupTypes, FileTypes
  <2> QED BY <2>1, <2>2 DEF RecoveredValue, IndInv, RecoveryInv, TypeOK, Types,
                            GroupTypes, FileTypes, LifeTypes
<1> QED BY <1>1, Invariance, PTL

\* Batches are applied in journal order (GRP-FR-003: "replay order equals apply
\* order").
THEOREM ApplyInOrderHolds == Spec => ApplyInOrder
<1>1. IndInv /\ [Next]_vars => [phase = "up" /\ phase' = "up" => mem' >= mem]_vars
  <2> SUFFICES ASSUME IndInv, Next, phase = "up", phase' = "up" PROVE mem' >= mem
    OBVIOUS
  <2> USE DEF IndInv, TypeOK, Types, FileTypes, ThreadTypes, storeVars
  <2>1. ASSUME NEW t \in Threads, Apply(t) PROVE mem' >= mem
    BY <2>1 DEF Apply, AppliedInv
  <2>2. ASSUME NEW t \in Threads, ~Apply(t),
               AppendBatch(t) \/ AppendFails(t) \/ Step(t) \/ SpuriousUnpark(t)
        PROVE  mem' = mem
    BY <2>2 DEF AppendBatch, AppendFails, Step, SpuriousUnpark, Lead, SyncOk, SyncFails,
      Recheck, ParkReturns, Regate, ApplyFails, Refuse, Truncate, ReleaseTurn
  <2> QED BY <2>1, <2>2 DEF Next, Crash, OpenJournal, ReplayBatch, FlushReplayed, Reopen
<1> QED BY <1>1, Invariance, PTL DEF Spec, ApplyInOrder

\* The register's value while the adapter is open and while it is not.
RegValue == IF phase = "up" THEN mem ELSE RecoveredValue

\* Recovered values are numbers, and with no partial append the journal is
\* readable to its end.
LEMMA RegValueType ==
  ASSUME TornAt = {}, IndInv
  PROVE  ReadableEnd = appended /\ RecoveredValue \in Nat /\ RegValue \in Nat
<1> USE DEF IndInv, TypeOK, Types, GroupTypes, FileTypes, LifeTypes
<1>1. ReadableEnd = appended
  BY ReadableEndIsMin DEF RecoveryInv
<1> QED BY <1>1 DEF RecoveredValue, RegValue

\* Steps of the open adapter: apply moves the register, the release of a turn
\* acknowledges, everything else is invisible.
LEMMA ThreadRefines ==
  ASSUME IndInv, NEW t \in Threads,
         AppendBatch(t) \/ AppendFails(t) \/ Step(t) \/ SpuriousUnpark(t)
  PROVE  [Register!RegNext]_(Register!regVars)
<1> USE DEF IndInv, TypeOK, Types, GroupTypes, ThreadTypes, FileTypes, LifeTypes
<1>1. phase = "up" /\ phase' = "up"
  BY DEF ThreadInv, lifeVars, AppendBatch, AppendFails, Step, SpuriousUnpark, Lead, SyncOk,
    SyncFails, Recheck, ParkReturns, Regate, Apply, ApplyFails, Refuse, Truncate, ReleaseTurn
<1>2. CASE Apply(t)
  <2>1. mem' \in Nat /\ mem' > mem /\ UNCHANGED acked
    BY <1>2 DEF Apply, AppliedInv, histVars
  <2> QED BY <1>1, <2>1 DEF Register!RegNext, Register!RegApply
<1>3. CASE ReleaseTurn(t)
  <2>1. UNCHANGED mem /\ (acked' = acked \/ (acked' = acked \cup {seq[t]} /\ seq[t] = mem))
    BY <1>3 DEF ReleaseTurn, AppliedInv, storeVars
  <2> QED BY <1>1, <2>1 DEF Register!RegNext, Register!RegAck, Register!regVars
<1>4. CASE ~Apply(t) /\ ~ReleaseTurn(t)
  <2>1. UNCHANGED <<mem, acked>>
    BY <1>4 DEF storeVars, histVars, AppendBatch, AppendFails, Step, SpuriousUnpark, Lead,
      SyncOk, SyncFails, Recheck, ParkReturns, Regate, ApplyFails, Refuse, Truncate
  <2> QED BY <1>1, <2>1 DEF Register!regVars
<1> QED BY <1>2, <1>3, <1>4

\* Crashes and the steps of recovery.
LEMMA RecoveryRefines ==
  ASSUME TornAt = {}, IndInv, IndInv',
         Crash \/ OpenJournal \/ ReplayBatch \/ FlushReplayed \/ Reopen
  PROVE  [Register!RegNext]_(Register!regVars)
<1> USE DEF IndInv, TypeOK, Types, GroupTypes, FileTypes, LifeTypes, RecoveredValue
<1>1. ReadableEnd = appended /\ torn = {}
  BY RegValueType DEF RecoveryInv
<1>2. CASE Crash
  <2>1. ReadableEnd' = appended' /\ RecoveredValue' \in Nat
    <3>1. torn' = {}
      BY DEF RecoveryInv
    <3>2. ReadableEnd' \in torn' \cup {appended'}
      <4>1. appended' \in Nat /\ torn' \subseteq Nat
        OBVIOUS
      <4>2. ReadableEnd' = CHOOSE p \in torn' \cup {appended'} :
                             \A q \in torn' \cup {appended'} : p <= q
        BY DEF ReadableEnd
      <4> QED BY <3>1, <4>1, <4>2
    <3> QED BY <3>1, <3>2
  <2>2. phase' = "down" /\ UNCHANGED acked
    BY <1>2 DEF Crash, histVars
  <2>3. \A s \in acked : s <= RecoveredValue'
    BY <2>1, <2>2 DEF RecoveryInv, StoreInv
  <2> QED BY <2>1, <2>2, <2>3 DEF Register!RegNext, Register!RegCrash
<1>3. CASE OpenJournal
  BY <1>1, <1>3 DEF OpenJournal, Max2, StoreInv, storeVars, histVars, Register!regVars
<1>4. CASE ReplayBatch
  BY <1>1, <1>4 DEF ReplayBatch, groupVars, fileVars, histVars, Register!regVars
<1>5. CASE FlushReplayed
  BY <1>1, <1>5 DEF FlushReplayed, groupVars, fileVars, histVars, Register!regVars
<1>6. CASE Reopen
  BY <1>6 DEF Reopen, Register!RegNext, Register!RegReopen
<1> QED BY <1>2, <1>3, <1>4, <1>5, <1>6

\* Without partial appends the journaled adapter implements the register that
\* loses no acknowledged batch, for any threads, batches and crashes.
THEOREM Refinement == ASSUME TornAt = {} PROVE Spec => ImplementsRegister
<1>1. Init => Register!RegInit
  BY DEF Init, Register!RegInit
<1>2. IndInv /\ IndInv' /\ [Next]_vars => [Register!RegNext]_(Register!regVars)
  <2> SUFFICES ASSUME IndInv, IndInv', [Next]_vars
               PROVE  [Register!RegNext]_(Register!regVars)
    OBVIOUS
  <2>1. CASE UNCHANGED vars
    BY <2>1 DEF vars, groupVars, fileVars, storeVars, lifeVars, histVars,
      Register!regVars, RecoveredValue, ReadableEnd
  <2>2. CASE Next
    BY <2>2, ThreadRefines, RecoveryRefines DEF Next
  <2> QED BY <2>1, <2>2
<1> QED BY <1>1, <1>2, Invariance, PTL DEF Spec, ImplementsRegister, Register!RegSpec

\* Who notifies the threads that wait: while a sync is said to be in flight, some
\* thread is leading one.
WakeInv ==
  /\ NoLostWakeup
  /\ phase = "up" /\ syncing => \E u \in Threads : pc[u] \in {"lead", "sync"}

\* The turn gate lets through, or parks and registers, the thread whose turn is later.
LEMMA TurnGateWakes ==
  ASSUME IndInv, NEW t \in Threads, NEW err, NEW others, others \in [Threads -> PCs],
         pc[t] # "idle", UNCHANGED <<seq, nextApply, token>>,
         \A u \in Threads \ {t} : others[u] = "park" => pc[u] = "park",
         TurnGate(t, err, others), NoLostWakeup
  PROVE  /\ pc'[t] \in {"park", "turn"} /\ \A u \in Threads \ {t} : pc'[u] = others[u]
         /\ \A u \in Threads : pc'[u] = "park" =>
              u \in token' \/ (u \in turnWaiters' /\ nextApply' < seq'[u])
<1> USE DEF IndInv, TypeOK, Types, GroupTypes, ThreadTypes
<1>1. pc'[t] \in {"park", "turn"} /\ \A u \in Threads \ {t} : pc'[u] = others[u]
  BY DEF TurnGate
<1>2. pc'[t] = "park" => t \in turnWaiters' /\ nextApply # seq[t]
  BY DEF TurnGate
<1>3. nextApply <= seq[t] /\ nextApply \in Nat /\ seq[t] \in Nat
  BY DEF ThreadInv
<1>4. turnWaiters \subseteq turnWaiters'
  BY DEF TurnGate
<1> QED BY <1>1, <1>2, <1>3, <1>4 DEF NoLostWakeup

\* Every step keeps a notification, a token or a release coming.
LEMMA WakeStep ==
  ASSUME IndInv, WakeInv, [Next]_vars
  PROVE  WakeInv'
<1> USE DEF IndInv, TypeOK, Types, GroupTypes, ThreadTypes, groupVars, threadVars, lifeVars
<1>1. \A t \in Threads : pc[t] # "idle" => phase = "up"
  BY DEF ThreadInv
<1>2. CASE UNCHANGED vars
  BY <1>2 DEF vars, WakeInv, NoLostWakeup
<1>3. ASSUME NEW t \in Threads, AppendBatch(t) PROVE WakeInv'
  BY <1>3 DEF AppendBatch, WakeInv, NoLostWakeup, ThreadInv
<1>4. ASSUME NEW t \in Threads, AppendFails(t) PROVE WakeInv'
  BY <1>4 DEF AppendFails, WakeInv, NoLostWakeup
<1>5. ASSUME NEW t \in Threads, Lead(t) PROVE WakeInv'
  BY <1>5 DEF Lead, WakeInv, NoLostWakeup
<1>6. ASSUME NEW t \in Threads, SyncOk(t) \/ SyncFails(t) PROVE WakeInv'
  <2>1. PICK err : TurnGate(t, err, Notified)
    BY <1>6 DEF SyncOk, SyncFails
  <2>2. pc[t] = "sync" /\ ~syncing' /\ UNCHANGED <<seq, nextApply, token, phase>>
    BY <1>6 DEF SyncOk, SyncFails
  <2>3. Notified \in [Threads -> PCs] /\ \A u \in Threads : Notified[u] # "wait"
    BY DEF Notified, PCs
  <2>4. \A u \in Threads : Notified[u] = "park" => pc[u] = "park"
    BY DEF Notified
  <2>5. /\ pc'[t] \in {"park", "turn"} /\ \A u \in Threads \ {t} : pc'[u] = Notified[u]
        /\ \A u \in Threads : pc'[u] = "park" =>
             u \in token' \/ (u \in turnWaiters' /\ nextApply' < seq'[u])
    BY <2>1, <2>2, <2>3, <2>4, TurnGateWakes DEF WakeInv
  <2> QED BY <2>2, <2>3, <2>5 DEF WakeInv, NoLostWakeup
<1>7. ASSUME NEW t \in Threads, Recheck(t) \/ Regate(t) PROVE WakeInv'
  <2>1. pc[t] \in {"woken", "gate"} /\ UNCHANGED <<seq, nextApply, token, phase>>
    BY <1>7 DEF Recheck, Regate
  <2>2. CASE \E err : TurnGate(t, err, pc) /\ UNCHANGED syncing
    <3>1. /\ pc'[t] \in {"park", "turn"} /\ \A u \in Threads \ {t} : pc'[u] = pc[u]
          /\ \A u \in Threads : pc'[u] = "park" =>
               u \in token' \/ (u \in turnWaiters' /\ nextApply' < seq'[u])
      BY <2>1, <2>2, TurnGateWakes DEF WakeInv
    <3> QED BY <2>1, <2>2, <3>1 DEF WakeInv, NoLostWakeup
  <2>3. CASE ~\E err : TurnGate(t, err, pc) /\ UNCHANGED syncing
    <3>1. /\ syncing' = TRUE /\ UNCHANGED turnWaiters
          /\ pc' = [pc EXCEPT ![t] = IF syncing THEN "wait" ELSE "lead"]
      BY <1>7, <2>3 DEF Recheck, Regate
    <3> QED BY <1>1, <2>1, <3>1 DEF WakeInv, NoLostWakeup
  <2> QED BY <2>2, <2>3
<1>8. ASSUME NEW t \in Threads, ParkReturns(t) \/ SpuriousUnpark(t) PROVE WakeInv'
  BY <1>8 DEF ParkReturns, SpuriousUnpark, WakeInv, NoLostWakeup
<1>9. ASSUME NEW t \in Threads, Apply(t) \/ ApplyFails(t) \/ Refuse(t) \/ Truncate(t) PROVE WakeInv'
  BY <1>9 DEF Apply, ApplyFails, Refuse, Truncate, WakeInv, NoLostWakeup
<1>10. ASSUME NEW t \in Threads, ReleaseTurn(t) PROVE WakeInv'
  <2> DEFINE next == {u \in turnWaiters : seq[u] = nextApply + 1}
  <2>1. /\ pc[t] = "release" /\ nextApply' = nextApply + 1 /\ turnWaiters' = turnWaiters \ next
        /\ token' = token \cup next /\ pc' = [pc EXCEPT ![t] = "idle"]
        /\ UNCHANGED <<seq, syncing, phase>>
    BY <1>10 DEF ReleaseTurn
  <2>2. \A u \in Threads : pc'[u] = "park" => pc[u] = "park"
    BY <2>1
  <2>3. \A u \in Threads : u \in turnWaiters /\ nextApply < seq[u] =>
          u \in next \/ (u \in turnWaiters' /\ nextApply' < seq[u])
    BY <2>1
  <2> HIDE DEF next
  <2>4. \A u \in Threads : pc'[u] = "park" =>
          u \in token' \/ (u \in turnWaiters' /\ nextApply' < seq'[u])
    BY <2>1, <2>2, <2>3 DEF WakeInv, NoLostWakeup
  <2>5. \A u \in Threads : pc[u] \in {"lead", "sync"} <=> pc'[u] \in {"lead", "sync"}
    BY <2>1
  <2>6. \A u \in Threads : pc'[u] = "wait" => pc[u] = "wait"
    BY <2>1
  <2> QED BY <2>1, <2>4, <2>5, <2>6 DEF WakeInv, NoLostWakeup
<1>11. CASE Crash
  BY <1>11 DEF Crash, WakeInv, NoLostWakeup
<1>12. CASE OpenJournal \/ ReplayBatch \/ FlushReplayed
  BY <1>12 DEF OpenJournal, ReplayBatch, FlushReplayed, WakeInv, NoLostWakeup
<1>13. CASE Reopen
  BY <1>1, <1>13 DEF Reopen, WakeInv, NoLostWakeup
<1> QED BY <1>2, <1>3, <1>4, <1>5, <1>6, <1>7, <1>8, <1>9, <1>10, <1>11, <1>12, <1>13
       DEF Next, Step

\* No wakeup is lost: who waits on the condvar has a leader that will notify it, and
\* who is parked holds a token or is registered with a sequence yet to be released.
THEOREM NoLostWakeupHolds == Spec => []NoLostWakeup
<1>1. Init => WakeInv
  BY DEF Init, WakeInv, NoLostWakeup
<1>2. WakeInv => NoLostWakeup
  BY DEF WakeInv
<1> QED BY <1>1, <1>2, WakeStep, Invariance, PTL DEF Spec

------------------------------------------------------------------------------
(* The client                                                              *)

\* InStep and AnswersTrue speak of the moments between two calls.  The invariant
\* says what holds inside one: for each stage of each method, what its request
\* finds and what each reply to it means.


Kinds == DOMAIN Since

\* The request each stage of a method waits for the reply to.
Asks(stage) ==
  CASE stage \in {"token", "authenticate"}            -> "authenticate"
    [] stage \in {"schema", "use_schema", "of_schema"} -> "schema"
    [] stage \in {"relations", "use_relations"}        -> "relations"
    [] stage \in {"use", "of_use", "of_back"}          -> "use"
    [] stage = "of_tables"                             -> "tables"
    [] stage \in {"update", "stage"}                   -> "update"
    [] OTHER                                           -> stage

\* The replies it may get, and those it never gets.
Answers(stage) ==
  CASE stage = "hello"                                  -> {"hello"}
    [] stage = "schema"                                 -> {"schema", "err"}
    [] stage = "relations"                              -> {"relations", "err"}
    [] stage \in {"use_schema", "of_schema"}            -> {"schema"}
    [] stage = "use_relations"                          -> {"relations"}
    [] stage = "of_tables"                              -> {"tables", "err"}
    [] stage = "join"                                   -> {"rows", "err"}
    [] stage = "update"                                 -> {"ok", "not_found", "staged", "err"}
    [] stage = "replace"                                -> {"ok", "not_found", "err"}
    [] stage = "stage"                                  -> {"staged", "err"}
    [] stage = "commit"                                 -> {"ok", "failed", "err"}
    [] stage \in {"of_back", "rollback"}                -> {"ok"}
    [] OTHER                                            -> {"ok", "err"}

Stages == Connecting \cup
  {"authenticate", "use", "use_schema", "use_relations", "join", "of_tables", "of_use", "of_schema",
   "of_back", "update", "insert", "replace", "begin", "stage", "commit", "rollback"}

Refusals == {"unauthenticated", "unauthorized", "session_open", "malformed", "no_session",
             "session_full", "duplicate"}


Said == Refusals \cup
  {"none", "connected", "io", "ok", "updated", "not_found", "unexpected", "created", "unsupported",
   "replaced", "begun", "staged", "committed", "failed", "rolled_back"}

Tokens == {"read_only", "read_write", "wrong", None}

\* The stages in which the connection may be on another table than the client.
Away == {"use", "use_schema", "use_relations", "of_use", "of_schema", "of_back"}

LinkTyped ==
  /\ link \in [open : BOOLEAN, server : Nat \ {0}, negotiated : Nat \ {0}, table : Tables,
               session : Nat \cup {None}, class : Tokens]
  /\ link.negotiated <= link.server

ClientTyped ==
  client \in [up : BOOLEAN, version : Nat \ {0}, schema : Tables \cup {None},
              relations : Tables \cup {None}, table : Tables \cup {None},
              schemas : SUBSET (Tables \X Tables), handle : BOOLEAN]

CallTyped == call \in [stage : Stages \cup {"idle"}, arg : Tables \cup Tokens, back : Tables \cup {None}]

HistoryTyped ==
  history \in [answer : Said, did : {history.did}, told : Nat, left : BOOLEAN, strange : BOOLEAN]

Typed ==
  /\ scenario \in Scenarios /\ stored \in SUBSET Tables /\ wire.at \in {"quiet", "request", "reply"}
  /\ LinkTyped /\ ClientTyped /\ CallTyped /\ HistoryTyped

\* Whatever became of the connection.
Always ==
  /\ ~history.strange
  /\ \A p \in client.schemas : p[1] = p[2]
  /\ call.stage = "idle" => call = Idle /\ wire = Quiet
  /\ wire.at = "reply" => link.open
  /\ call.stage # "idle" => (client.up <=> call.stage \notin Connecting)
  /\ ~client.up => client.table = None /\ client.relations = None /\ client.schemas = {} /\ ~client.handle
  /\ Len(history.did) <= 1
  /\ call.stage \in Connecting => ~history.left /\ history.did = <<>>
  /\ call.stage = "of_tables" => client.table = None
  /\ call.stage \in {"of_use", "of_schema", "of_back"} => call.back = Here
  /\ call.stage \in Away \cup {"of_tables", "join"} => call.arg \in Tables
  /\ call.stage \in {"hello", "token", "authenticate"} => call.arg \in Tokens
  /\ call.stage \in {"token", "authenticate"} => call.arg # None
  /\ call.stage \in {"authenticate", "update", "insert", "replace", "begin", "commit", "rollback", "use"} => ~client.handle
  /\ call.stage = "stage" => client.handle

\* No request goes out in a version the server does not speak.
InVersion ==
  /\ client.handle => client.version >= Since["begin"]
  /\ client.up => client.relations = IF client.version < Since["relations"] THEN None ELSE Here
  /\ call.stage \notin {"idle", "hello"} => client.version >= Since[Asks(call.stage)]
  /\ call.stage \in Away => client.version >= Since["use"]
  /\ link.open /\ (client.up \/ call.stage \in {"token", "schema", "relations"}) =>
       client.version = link.negotiated

\* What is on the wire of a method under way.
OnWire ==
  link.open /\ call.stage # "idle" =>
    /\ wire.at = "request" =>
         /\ wire.kind = Asks(call.stage)
         /\ wire.kind \in {"update", "insert", "replace", "join"} => wire.schema = client.schema
         /\ call.stage \in {"authenticate", "token", "use", "of_use"} => wire.arg = call.arg
         /\ call.stage = "of_back" => wire.arg = call.back
         /\ call.stage = "hello" => wire.arg = ProtocolVersion
    /\ wire.at = "reply" =>
         /\ wire.kind \in Answers(call.stage)
         /\ wire.kind = "err" => wire.arg \in Refusals /\ (wire.arg = "duplicate" => call.stage = "insert")
         /\ call.stage = "hello" => wire.arg = link.negotiated
         /\ wire.kind \in {"schema", "relations"} => wire.arg = link.table
         /\ wire.kind = "tables" => wire.arg = Primary
    /\ wire.at # "quiet"

Answered(kind) == wire.at = "reply" /\ wire.kind = kind
Live == link.open /\ (client.up \/ call.stage # "idle")

\* The table the connection is on, and the schema the client holds for it.
OnTable ==
  Live =>
    /\ link.table = CASE call.stage \in {"use_schema", "use_relations", "of_schema"} -> call.arg
                      [] call.stage \in {"use", "of_use"} /\ Answered("ok")           -> call.arg
                      [] call.stage = "of_back" /\ wire.at = "request"                -> link.table
                      [] OTHER                                                        -> Here
    /\ call.stage \notin {"hello", "token", "schema"} =>
         client.schema = IF call.stage = "use_relations" THEN call.arg ELSE Here

\* The session of the connection, and what the client knows of it.
InSession ==
  Live =>
    /\ client.handle =>
         ~history.left /\ link.session = IF call.stage = "stage" /\ Answered("staged")
                                         THEN history.told + 1 ELSE history.told
    /\ call.stage \in {"commit", "rollback"} =>
         ~history.left /\ link.session = IF Answered("ok") \/ Answered("failed") THEN None ELSE history.told
    /\ call.stage = "begin" /\ Answered("ok") => ~history.left /\ link.session = 0
    /\ ~client.handle /\ call.stage \notin {"commit", "rollback"} /\ ~(call.stage = "begin" /\ Answered("ok")) =>
         (history.left <=> link.session # None)
    /\ call.stage \in {"use_schema", "use_relations", "of_schema", "of_back"} => link.session = None
    /\ call.stage \in {"use", "of_use"} /\ Answered("ok") => link.session = None
    /\ client.up \/ call.stage = "relations" \/ Answered("schema") => link.class # None

\* What the server has done for the method under way.
Done ==
  /\ link.open /\ call.stage # "idle" =>
       history.did = IF Answered("ok") /\ call.stage \in {"update", "insert", "replace", "commit"}
                     THEN <<[kind |-> call.stage, table |-> link.table,
                             n |-> IF call.stage = "commit" THEN history.told ELSE 1]>>
                     ELSE <<>>
  /\ AnswersTrue

ClientInv == Typed /\ Always /\ InVersion /\ OnWire /\ OnTable /\ InSession /\ Done

LEMMA SinceIs ==
  /\ Since["hello"] = 2 /\ Since["authenticate"] = 1 /\ Since["schema"] = 1 /\ Since["relations"] = 12
  /\ Since["tables"] = 16 /\ Since["use"] = 16 /\ Since["begin"] = 3 /\ Since["commit"] = 3
  /\ Since["rollback"] = 3 /\ Since["update"] = 1 /\ Since["insert"] = 13 /\ Since["replace"] = 15
  /\ Since["join"] = 12
  /\ DOMAIN Since = {"hello", "authenticate", "schema", "relations", "tables", "use", "begin", "commit",
                     "rollback", "update", "insert", "replace", "join"}
  BY DEF Since

LEMMA ScenarioIs ==
  ASSUME Typed
  PROVE  /\ scenario.servers \subseteq Nat \ {0} /\ scenario.configured \in BOOLEAN
         /\ scenario.require_hello \in BOOLEAN /\ scenario.tokens \subseteq Tokens
  BY ClientAssumption DEF Typed, IsScenario, Tokens

LEMMA First ==
  ASSUME NEW r
  PROVE  Append(<<>>, r) = <<r>>
  OBVIOUS

\* What a request the server has not answered belongs to.
LEMMA Requested ==
  ASSUME ClientInv, wire.at = "request", link.open
  PROVE  /\ call.stage \in Stages /\ wire.kind = Asks(call.stage) /\ wire.kind \in DOMAIN Since
         /\ history.did = <<>>
         /\ \A kind \in {"hello", "insert", "replace", "commit", "begin", "rollback"} :
              wire.kind = kind => call.stage = kind
         /\ wire.kind = "update" =>
              call.stage = IF link.session = None \/ history.left THEN "update" ELSE "stage"
  <1>1. call.stage \in Stages /\ wire.kind = Asks(call.stage)
    BY DEF ClientInv, OnWire, Always, Quiet, Typed, CallTyped
  <1>2. history.did = <<>>
    BY <1>1 DEF ClientInv, Done, Answered, Stages, Connecting
  <1>3. wire.kind \in DOMAIN Since
    BY <1>1, SinceIs DEF Asks, Stages, Connecting
  <1>4. \A kind \in {"hello", "insert", "replace", "commit", "begin", "rollback"} :
          wire.kind = kind => call.stage = kind
    BY <1>1 DEF Asks, Stages, Connecting
  <1>5. ASSUME wire.kind = "update"
        PROVE  call.stage = IF link.session = None \/ history.left THEN "update" ELSE "stage"
    <2>1. call.stage \in {"update", "stage"}
      BY <1>1, <1>5 DEF Asks, Stages, Connecting
    <2>2. Live
      BY <2>1 DEF Live
    <2>3. call.stage = "stage" => link.session # None /\ ~history.left
      BY <2>2, ClientAssumption DEF ClientInv, InSession, Always, Answered, Typed, HistoryTyped
    <2>4. call.stage = "update" => link.session = None \/ history.left
      BY <2>2 DEF ClientInv, InSession, Always, Answered
    <2>. QED
      BY <2>1, <2>3, <2>4
  <1>. QED
    BY <1>1, <1>2, <1>3, <1>4, <1>5

\* The server knows it, reads its tags as the client wrote them and finds its version spoken.
LEMMA Understood ==
  ASSUME ClientInv, wire.at = "request", link.open, wire.kind # "hello"
  PROVE  Known /\ ~Misread /\ Refusal # "malformed"
  <1>1. call.stage \in Stages /\ wire.kind = Asks(call.stage) /\ call.stage # "hello"
    BY Requested DEF Asks, Stages, Connecting
  <1>2. link.negotiated >= Since[wire.kind]
    <2>1. CASE client.up \/ call.stage \in {"token", "schema", "relations"}
      BY <1>1, <2>1, SinceIs DEF ClientInv, InVersion, Stages, Connecting
    <2>. QED
      BY <1>1, <2>1 DEF ClientInv, Always, Stages, Connecting
  <1>3. Known
    BY <1>1, <1>2, SinceIs DEF Known, ClientInv, Typed, LinkTyped, Asks, Stages, Connecting
  <1>4. ~Misread
    BY <1>1 DEF ClientInv, OnWire, OnTable, Misread, Live, Answered, Away, Asks, Stages, Connecting
  <1>5. Refusal # "malformed"
    <2>1. wire.kind \in DOMAIN Since
      BY <1>1, SinceIs, Zenon DEF Asks, Stages, Connecting
    <2>2. link.negotiated \in Nat /\ Since[wire.kind] \in Nat
      BY <2>1, SinceIs DEF ClientInv, Typed, LinkTyped
    <2>3. ~(link.negotiated < Since[wire.kind])
      BY <1>2, <2>2
    <2>. QED
      BY <2>3, Zenon DEF Refusal
  <1>. QED
    BY <1>3, <1>4, <1>5

LEMMA Unstrange ==
  ASSUME ClientInv
  PROVE  /\ history = [history EXCEPT !.strange = FALSE]
         /\ \A d : [history EXCEPT !.did = d, !.strange = FALSE] = [history EXCEPT !.did = d]
  BY DEF ClientInv, Typed, HistoryTyped, Always

LEMMA InitInv ==
  ASSUME ClientInit
  PROVE  ClientInv
  <1>1. PICK s \in Scenarios : scenario = s /\ s.configured \in BOOLEAN
    BY ClientAssumption DEF ClientInit, IsScenario
  <1>2. LinkTyped
    <2>1. link = [open |-> FALSE, server |-> 1, negotiated |-> 1, table |-> Primary, session |-> None,
                  class |-> IF scenario.configured THEN None ELSE "read_write"]
      BY DEF ClientInit, Fresh
    <2>. QED
      BY <1>1, <2>1, ClientAssumption DEF LinkTyped, Tokens
  <1>3. ClientTyped /\ CallTyped /\ HistoryTyped
    BY DEF ClientInit, NoClient, Idle, ClientTyped, CallTyped, HistoryTyped, Said, Tokens
  <1>4. Typed
    BY <1>1, <1>2, <1>3 DEF ClientInit, Typed, Quiet
  <1>5. Always
    BY DEF ClientInit, Always, NoClient, Idle, Quiet, Connecting, Away
  <1>6. InVersion /\ OnWire /\ OnTable /\ InSession /\ Done
    BY <1>2 DEF ClientInit, InVersion, OnWire, OnTable, InSession, Done, AnswersTrue, Live, Fresh, NoClient, Idle,
                Quiet, Away, LinkTyped
  <1>. QED
    BY <1>4, <1>5, <1>6 DEF ClientInv

LEMMA StepConnect ==
  ASSUME ClientInv, NEW v \in scenario.servers, NEW bearer \in scenario.tokens, Connect(bearer, v)
  PROVE  ClientInv'
  <1>1. Typed'
    <2>1. v \in Nat \ {0} /\ scenario.configured \in BOOLEAN /\ bearer \in Tokens
      BY ScenarioIs DEF ClientInv
    <2>2. LinkTyped'
      BY <2>1, ClientAssumption DEF Connect, Fresh, LinkTyped, Tokens
    <2>3. CallTyped'
      BY <2>1 DEF Connect, Idle, CallTyped, ClientInv, Typed, Stages, Connecting
    <2>4. HistoryTyped'
      BY DEF Connect, HistoryTyped, ClientInv, Typed
    <2>. QED
      BY <2>2, <2>3, <2>4 DEF Connect, Send, ClientInv, Typed, ClientTyped
  <1>2. Always'
    BY ClientAssumption, SinceIs, ScenarioIs
       DEF ClientInv, Connect, Typed, Always, OnWire, LinkTyped, ClientTyped, CallTyped,
          HistoryTyped, Quiet, Idle, Connecting, Here, Tokens, Away, Asks, Answers, Refusals,
          Stages, Said, Fresh, Send
  <1>3. InVersion'
    BY DEF ClientInv, Connect, Always, InVersion, Quiet, Idle, Connecting, Here, Tokens, Away,
       Asks, Fresh, Send
  <1>4. OnWire'
    BY DEF ClientInv, Connect, Always, OnWire, Quiet, Idle, Connecting, Here, Tokens, Away,
       Asks, Answers, Refusals, Fresh, Send
  <1>5. OnTable'
    BY DEF ClientInv, Connect, Always, OnTable, Quiet, Idle, Connecting, Here, Tokens, Away,
       Answered, Live, Fresh, Send
  <1>6. InSession'
    BY DEF ClientInv, Connect, Always, InSession, Quiet, Idle, Connecting, Here, Tokens, Away,
       Answered, Live, Fresh, Send
  <1>7. Done'
    BY DEF ClientInv, Connect, Always, Done, Quiet, Idle, Connecting, Here, Tokens, Away,
       AnswersTrue, Answered, Fresh, Send
  <1>. QED
    BY <1>1, <1>2, <1>3, <1>4, <1>5, <1>6, <1>7 DEF ClientInv

LEMMA StepHelloAnswered ==
  ASSUME ClientInv, HelloAnswered
  PROVE  ClientInv'
  <1>1. Typed'
    BY ClientAssumption
       DEF ClientInv, HelloAnswered, Typed, Always, OnWire, OnTable, InSession, LinkTyped,
          ClientTyped, CallTyped, HistoryTyped, Quiet, Idle, Connecting, Here, Tokens, Away,
          Asks, Answers, Refusals, Answered, Live, Stages, Said, Got, AfterHello, Send
  <1>2. Always'
    BY ClientAssumption
       DEF ClientInv, HelloAnswered, Typed, Always, LinkTyped, ClientTyped, CallTyped,
          HistoryTyped, Quiet, Idle, Connecting, Here, Tokens, Away, Stages, Said, Refusals,
          Got, AfterHello, Send
  <1>3. InVersion'
    BY ClientAssumption, SinceIs, ScenarioIs
       DEF ClientInv, HelloAnswered, Typed, Always, InVersion, OnWire, LinkTyped, ClientTyped,
          CallTyped, HistoryTyped, Quiet, Idle, Connecting, Here, Tokens, Away, Asks, Answers,
          Refusals, Stages, Said, Got, AfterHello, Send
  <1>4. OnWire'
    BY ClientAssumption
       DEF ClientInv, HelloAnswered, Typed, Always, OnWire, LinkTyped, ClientTyped, CallTyped,
          HistoryTyped, Quiet, Idle, Connecting, Here, Tokens, Away, Asks, Answers, Refusals,
          Stages, Said, Got, AfterHello, Send
  <1>5. OnTable'
    BY ClientAssumption
       DEF ClientInv, HelloAnswered, Typed, Always, OnTable, LinkTyped, ClientTyped, CallTyped,
          HistoryTyped, Quiet, Idle, Connecting, Here, Tokens, Away, Answered, Live, Stages,
          Said, Refusals, Got, AfterHello, Send
  <1>6. InSession'
    BY ClientAssumption
       DEF ClientInv, HelloAnswered, Typed, Always, InSession, LinkTyped, ClientTyped,
          CallTyped, HistoryTyped, Quiet, Idle, Connecting, Here, Tokens, Away, Answered, Live,
          Stages, Said, Refusals, Got, AfterHello, Send
  <1>7. Done'
    BY DEF ClientInv, HelloAnswered, Always, Done, Quiet, Idle, Connecting, Here, Tokens, Away,
       AnswersTrue, Answered, Got, AfterHello, Send
  <1>. QED
    BY <1>1, <1>2, <1>3, <1>4, <1>5, <1>6, <1>7 DEF ClientInv

LEMMA StepFallBack ==
  ASSUME ClientInv, NEW v \in scenario.servers, FallBack(v)
  PROVE  ClientInv'
  <1>1. v \in Nat \ {0} /\ scenario.configured \in BOOLEAN
    BY ScenarioIs DEF ClientInv
  <1>2. call.stage = "hello" /\ ~client.up /\ call.arg \in Tokens /\ ~history.left /\ history.did = <<>>
    BY DEF FallBack, ClientInv, Always, Connecting
  <1>3. /\ link' = [open |-> TRUE, server |-> v, negotiated |-> 1, table |-> Primary, session |-> None,
                    class |-> IF scenario.configured THEN None ELSE "read_write"]
        /\ client' = [client EXCEPT !.version = 1] /\ UNCHANGED <<scenario, stored, history>>
    BY DEF FallBack, AfterHello, Fresh
  <1>4. \/ call' = [call EXCEPT !.stage = "schema"] /\ call.arg = None
           /\ wire' = [at |-> "request", kind |-> "schema", arg |-> None, schema |-> client.schema]
        \/ call' = [call EXCEPT !.stage = "token"] /\ call.arg # None
           /\ wire' = [at |-> "request", kind |-> "authenticate", arg |-> call.arg, schema |-> client.schema]
    BY DEF FallBack, AfterHello, Send
  <1>5. Typed'
    BY <1>1, <1>2, <1>3, <1>4, ClientAssumption
       DEF ClientInv, Typed, LinkTyped, ClientTyped, CallTyped, HistoryTyped, Tokens, Stages, Connecting
  <1>6. Always'
    BY <1>1, <1>2, <1>3, <1>4
       DEF ClientInv, Always, Typed, ClientTyped, CallTyped, LinkTyped, Connecting, Away, Here
  <1>7. InVersion'
    BY <1>1, <1>2, <1>3, <1>4, ClientAssumption, SinceIs
       DEF ClientInv, Always, Typed, ClientTyped, CallTyped, LinkTyped, InVersion, Asks, Away, Here, Connecting
  <1>8. OnWire'
    BY <1>1, <1>2, <1>3, <1>4
       DEF ClientInv, Typed, CallTyped, ClientTyped, OnWire, Asks
  <1>9. OnTable'
    BY <1>1, <1>2, <1>3, <1>4
       DEF ClientInv, Always, Typed, ClientTyped, CallTyped, OnTable, Live, Answered, Here
  <1>10. InSession'
    BY <1>1, <1>2, <1>3, <1>4
       DEF ClientInv, Always, Typed, ClientTyped, CallTyped, LinkTyped, InSession, Live, Answered
  <1>11. Done'
    BY <1>1, <1>2, <1>3, <1>4
       DEF ClientInv, Typed, ClientTyped, CallTyped, Done, AnswersTrue, Answered, Idle
  <1>. QED
    BY <1>5, <1>6, <1>7, <1>8, <1>9, <1>10, <1>11 DEF ClientInv

LEMMA StepTokenAccepted ==
  ASSUME ClientInv, TokenAccepted
  PROVE  ClientInv'
  <1>1. Typed'
    BY DEF ClientInv, TokenAccepted, Typed, Always, LinkTyped, ClientTyped, CallTyped,
       HistoryTyped, Quiet, Idle, Connecting, Here, Tokens, Away, Stages, Said, Refusals, Go,
       Got, Send
  <1>2. Always'
    BY DEF ClientInv, TokenAccepted, Always, Quiet, Idle, Connecting, Here, Tokens, Away, Go,
       Got, Send
  <1>3. InVersion'
    BY ClientAssumption, SinceIs, ScenarioIs
       DEF ClientInv, TokenAccepted, Typed, Always, InVersion, OnWire, LinkTyped, ClientTyped,
          CallTyped, HistoryTyped, Quiet, Idle, Connecting, Here, Tokens, Away, Asks, Answers,
          Refusals, Stages, Said, Go, Got, Send
  <1>4. OnWire'
    BY DEF ClientInv, TokenAccepted, Always, OnWire, Quiet, Idle, Connecting, Here, Tokens,
       Away, Asks, Answers, Refusals, Go, Got, Send
  <1>5. OnTable'
    BY DEF ClientInv, TokenAccepted, Always, OnTable, Quiet, Idle, Connecting, Here, Tokens,
       Away, Answered, Live, Go, Got, Send
  <1>6. InSession'
    BY DEF ClientInv, TokenAccepted, Always, InSession, Quiet, Idle, Connecting, Here, Tokens,
       Away, Answered, Live, Go, Got, Send
  <1>7. Done'
    BY DEF ClientInv, TokenAccepted, Always, Done, Quiet, Idle, Connecting, Here, Tokens, Away,
       AnswersTrue, Answered, Go, Got, Send
  <1>. QED
    BY <1>1, <1>2, <1>3, <1>4, <1>5, <1>6, <1>7 DEF ClientInv

LEMMA StepDescribed ==
  ASSUME ClientInv, Described
  PROVE  ClientInv'
  <1>1. CASE client.version >= 12
    <2>1. Got("schema", "schema") /\ client' = [client EXCEPT !.schema = wire.arg] /\ Go("relations", "relations", None)
      BY <1>1 DEF Described
    <2>2. Typed'
      BY <1>1, <2>1, ClientAssumption
         DEF ClientInv, Typed, Always, OnWire, Got, Go, Send, LinkTyped, ClientTyped, CallTyped,
            HistoryTyped, Said, Stages, Tokens, Connecting, Idle, Quiet
    <2>3. Always'
      BY <1>1, <2>1
         DEF ClientInv, Always, Typed, ClientTyped, LinkTyped, Done, Answered, Got, Go, Send,
            Connecting, Away, Here, Idle, Quiet
    <2>4. InVersion'
      BY <1>1, <2>1, ClientAssumption, SinceIs
         DEF ClientInv, Always, Typed, ClientTyped, LinkTyped, InVersion, Got, Go, Send, Asks,
            Away, Here, Connecting, Idle, Quiet
    <2>5. OnWire'
      BY <1>1, <2>1
         DEF ClientInv, Always, OnWire, Got, Go, Send, Asks, Idle, Quiet
    <2>6. OnTable'
      BY <1>1, <2>1
         DEF ClientInv, Always, Typed, ClientTyped, LinkTyped, OnWire, OnTable, Got, Go, Send,
            Live, Answered, Here, Connecting, Idle, Quiet
    <2>7. InSession'
      BY <1>1, <2>1
         DEF ClientInv, Always, Typed, ClientTyped, LinkTyped, InSession, Got, Go, Send, Live,
            Answered, Connecting, Idle, Quiet
    <2>8. Done'
      BY <1>1, <2>1
         DEF ClientInv, Always, Done, AnswersTrue, Got, Go, Send, Answered, Here, Connecting,
            Idle, Quiet
    <2>. QED
      BY <2>2, <2>3, <2>4, <2>5, <2>6, <2>7, <2>8 DEF ClientInv
  <1>2. CASE ~(client.version >= 12)
    <2>1. Got("schema", "schema") /\ client' = [client EXCEPT !.schema = wire.arg, !.up = TRUE] /\ Return("connected")
      BY <1>2 DEF Described
    <2>2. Typed'
      BY <1>2, <2>1, ClientAssumption
         DEF ClientInv, Typed, Always, OnWire, Got, Return, Idle, Quiet, LinkTyped, ClientTyped,
            CallTyped, HistoryTyped, Said, Stages, Tokens, Connecting
    <2>3. Always'
      BY <1>2, <2>1
         DEF ClientInv, Always, Typed, ClientTyped, LinkTyped, Done, Answered, Got, Return,
            Idle, Quiet, Connecting, Away, Here
    <2>4. InVersion'
      BY <1>2, <2>1, ClientAssumption, SinceIs
         DEF ClientInv, Always, Typed, ClientTyped, LinkTyped, InVersion, Got, Return, Idle,
            Quiet, Asks, Away, Here, Connecting
    <2>5. OnWire'
      BY <1>2, <2>1
         DEF ClientInv, Always, OnWire, Got, Return, Idle, Quiet, Asks
    <2>6. OnTable'
      BY <1>2, <2>1
         DEF ClientInv, Always, Typed, ClientTyped, LinkTyped, OnWire, OnTable, Got, Return,
            Idle, Quiet, Live, Answered, Here, Connecting
    <2>7. InSession'
      BY <1>2, <2>1
         DEF ClientInv, Always, Typed, ClientTyped, LinkTyped, InSession, Got, Return, Idle,
            Quiet, Live, Answered, Connecting
    <2>8. Done'
      BY <1>2, <2>1
         DEF ClientInv, Always, Done, AnswersTrue, Got, Return, Idle, Quiet, Answered, Here,
            Connecting
    <2>. QED
      BY <2>2, <2>3, <2>4, <2>5, <2>6, <2>7, <2>8 DEF ClientInv
  <1>. QED
    BY <1>1, <1>2

LEMMA StepRelationsListed ==
  ASSUME ClientInv, RelationsListed
  PROVE  ClientInv'
  <1>1. Typed'
    BY ClientAssumption
       DEF ClientInv, RelationsListed, Typed, Always, OnWire, OnTable, InSession, LinkTyped,
          ClientTyped, CallTyped, HistoryTyped, Quiet, Idle, Connecting, Here, Tokens, Away,
          Asks, Answers, Refusals, Answered, Live, Stages, Said, Return, Got
  <1>2. Always'
    BY DEF ClientInv, RelationsListed, Always, Quiet, Idle, Connecting, Here, Tokens, Away,
       Return, Got
  <1>3. InVersion'
    BY ClientAssumption, SinceIs, ScenarioIs
       DEF ClientInv, RelationsListed, Typed, Always, InVersion, OnWire, OnTable, InSession,
          Done, LinkTyped, ClientTyped, CallTyped, HistoryTyped, Quiet, Idle, Connecting, Here,
          Tokens, Away, Asks, Answers, Refusals, Answered, Live, AnswersTrue, Stages, Said,
          Return, Got
  <1>4. OnWire'
    BY DEF ClientInv, RelationsListed, Always, OnWire, Quiet, Idle, Connecting, Here, Tokens,
       Away, Asks, Answers, Refusals, Return, Got
  <1>5. OnTable'
    BY DEF ClientInv, RelationsListed, Always, OnTable, Quiet, Idle, Connecting, Here, Tokens,
       Away, Answered, Live, Return, Got
  <1>6. InSession'
    BY DEF ClientInv, RelationsListed, Always, InSession, Quiet, Idle, Connecting, Here, Tokens,
       Away, Answered, Live, Return, Got
  <1>7. Done'
    BY DEF ClientInv, RelationsListed, Always, Done, Quiet, Idle, Connecting, Here, Tokens,
       Away, AnswersTrue, Answered, Return, Got
  <1>. QED
    BY <1>1, <1>2, <1>3, <1>4, <1>5, <1>6, <1>7 DEF ClientInv

LEMMA StepBroken ==
  ASSUME ClientInv, Broken
  PROVE  ClientInv'
  <1>1. Typed'
    BY DEF ClientInv, Broken, Typed, Always, LinkTyped, ClientTyped, CallTyped, HistoryTyped,
       Quiet, Idle, Connecting, Here, Tokens, Away, Stages, Said, Refusals, NoClient, Return
  <1>2. Always'
    BY DEF ClientInv, Broken, Always, Quiet, Idle, Connecting, Here, Tokens, Away, NoClient,
       Return
  <1>3. InVersion'
    BY DEF ClientInv, Broken, Always, InVersion, Quiet, Idle, Connecting, Here, Tokens, Away,
       Asks, NoClient, Return
  <1>4. OnWire'
    BY DEF ClientInv, Broken, Always, OnWire, Quiet, Idle, Connecting, Here, Tokens, Away, Asks,
       Answers, Refusals, NoClient, Return
  <1>5. OnTable'
    BY DEF ClientInv, Broken, Always, OnTable, Quiet, Idle, Connecting, Here, Tokens, Away,
       Answered, Live, NoClient, Return
  <1>6. InSession'
    BY DEF ClientInv, Broken, Always, InSession, Quiet, Idle, Connecting, Here, Tokens, Away,
       Answered, Live, NoClient, Return
  <1>7. Done'
    BY DEF ClientInv, Broken, Always, Done, Quiet, Idle, Connecting, Here, Tokens, Away,
       AnswersTrue, Answered, NoClient, Return
  <1>. QED
    BY <1>1, <1>2, <1>3, <1>4, <1>5, <1>6, <1>7 DEF ClientInv

LEMMA StepClose ==
  ASSUME ClientInv, Close
  PROVE  ClientInv'
  <1>1. Typed'
    <2>1. LinkTyped'
      BY DEF Close, ClientInv, Typed, LinkTyped
    <2>2. ClientTyped'
      BY DEF Close, NoClient, ClientTyped
    <2>. QED
      BY <2>1, <2>2 DEF Close, ClientInv, Typed, CallTyped, HistoryTyped
  <1>2. Always'
    BY DEF ClientInv, Close, Always, Quiet, Idle, Connecting, Here, Tokens, Away, NoClient
  <1>3. InVersion'
    BY DEF ClientInv, Close, Always, InVersion, Quiet, Idle, Connecting, Here, Tokens, Away,
       Asks, NoClient
  <1>4. OnWire'
    BY DEF ClientInv, Close, Always, OnWire, Quiet, Idle, Connecting, Here, Tokens, Away, Asks,
       Answers, Refusals, NoClient
  <1>5. OnTable'
    BY DEF ClientInv, Close, Always, OnTable, Quiet, Idle, Connecting, Here, Tokens, Away,
       Answered, Live, NoClient
  <1>6. InSession'
    BY DEF ClientInv, Close, Always, InSession, Quiet, Idle, Connecting, Here, Tokens, Away,
       Answered, Live, NoClient
  <1>7. Done'
    BY DEF ClientInv, Close, Always, Done, Quiet, Idle, Connecting, Here, Tokens, Away,
       AnswersTrue, Answered, NoClient
  <1>. QED
    BY <1>1, <1>2, <1>3, <1>4, <1>5, <1>6, <1>7 DEF ClientInv

LEMMA StepAuthenticate ==
  ASSUME ClientInv, NEW bearer \in scenario.tokens, Authenticate(bearer)
  PROVE  ClientInv'
  <1>1. Typed'
    BY SMTT(30), ClientAssumption, SinceIs, ScenarioIs
       DEF ClientInv, Authenticate, Typed, Always, OnWire, LinkTyped, ClientTyped, CallTyped,
          HistoryTyped, Quiet, Idle, Connecting, Here, Tokens, Away, Asks, Answers, Refusals,
          Stages, Said, Start, Send
  <1>2. Always'
    BY ClientAssumption, SinceIs, ScenarioIs
       DEF ClientInv, Authenticate, Typed, Always, OnWire, LinkTyped, ClientTyped, CallTyped,
          HistoryTyped, Quiet, Idle, Connecting, Here, Tokens, Away, Asks, Answers, Refusals,
          Stages, Said, Start, Send
  <1>3. InVersion'
    BY ClientAssumption, SinceIs, ScenarioIs
       DEF ClientInv, Authenticate, Typed, Always, InVersion, OnWire, LinkTyped, ClientTyped,
          CallTyped, HistoryTyped, Quiet, Idle, Connecting, Here, Tokens, Away, Asks, Answers,
          Refusals, Stages, Said, Start, Send
  <1>4. OnWire'
    BY DEF ClientInv, Authenticate, Always, OnWire, Quiet, Idle, Connecting, Here, Tokens, Away,
       Asks, Answers, Refusals, Start, Send
  <1>5. OnTable'
    BY DEF ClientInv, Authenticate, Always, OnTable, Quiet, Idle, Connecting, Here, Tokens,
       Away, Answered, Live, Start, Send
  <1>6. InSession'
    BY DEF ClientInv, Authenticate, Always, InSession, Quiet, Idle, Connecting, Here, Tokens,
       Away, Answered, Live, Start, Send
  <1>7. Done'
    BY DEF ClientInv, Authenticate, Always, Done, Quiet, Idle, Connecting, Here, Tokens, Away,
       AnswersTrue, Answered, Start, Send
  <1>. QED
    BY <1>1, <1>2, <1>3, <1>4, <1>5, <1>6, <1>7 DEF ClientInv

LEMMA StepAuthenticated ==
  ASSUME ClientInv, Authenticated
  PROVE  ClientInv'
  <1>1. Typed'
    BY DEF ClientInv, Authenticated, Typed, Always, LinkTyped, ClientTyped, CallTyped,
       HistoryTyped, Quiet, Idle, Connecting, Here, Tokens, Away, Stages, Said, Refusals,
       Return, Got
  <1>2. Always'
    BY DEF ClientInv, Authenticated, Always, Quiet, Idle, Connecting, Here, Tokens, Away,
       Return, Got
  <1>3. InVersion'
    BY DEF ClientInv, Authenticated, Always, InVersion, Quiet, Idle, Connecting, Here, Tokens,
       Away, Asks, Return, Got
  <1>4. OnWire'
    BY DEF ClientInv, Authenticated, Always, OnWire, Quiet, Idle, Connecting, Here, Tokens,
       Away, Asks, Answers, Refusals, Return, Got
  <1>5. OnTable'
    BY DEF ClientInv, Authenticated, Always, OnTable, Quiet, Idle, Connecting, Here, Tokens,
       Away, Answered, Live, Return, Got
  <1>6. InSession'
    BY DEF ClientInv, Authenticated, Always, InSession, Quiet, Idle, Connecting, Here, Tokens,
       Away, Answered, Live, Return, Got
  <1>7. Done'
    BY DEF ClientInv, Authenticated, Always, Done, Quiet, Idle, Connecting, Here, Tokens, Away,
       AnswersTrue, Answered, Return, Got
  <1>. QED
    BY <1>1, <1>2, <1>3, <1>4, <1>5, <1>6, <1>7 DEF ClientInv

LEMMA StepUseTable ==
  ASSUME ClientInv, NEW t \in Tables, UseTable(t)
  PROVE  ClientInv'
  <1>1. Typed'
    BY DEF ClientInv, UseTable, Typed, Always, LinkTyped, ClientTyped, CallTyped, HistoryTyped,
       Quiet, Idle, Connecting, Here, Tokens, Away, Stages, Said, Refusals, Start, Send
  <1>2. Always'
    BY DEF ClientInv, UseTable, Always, Quiet, Idle, Connecting, Here, Tokens, Away, Start, Send
  <1>3. InVersion'
    BY DEF ClientInv, UseTable, Always, InVersion, Quiet, Idle, Connecting, Here, Tokens, Away,
       Asks, Start, Send
  <1>4. OnWire'
    BY DEF ClientInv, UseTable, Always, OnWire, Quiet, Idle, Connecting, Here, Tokens, Away,
       Asks, Answers, Refusals, Start, Send
  <1>5. OnTable'
    BY DEF ClientInv, UseTable, Always, OnTable, Quiet, Idle, Connecting, Here, Tokens, Away,
       Answered, Live, Start, Send
  <1>6. InSession'
    BY DEF ClientInv, UseTable, Always, InSession, Quiet, Idle, Connecting, Here, Tokens, Away,
       Answered, Live, Start, Send
  <1>7. Done'
    BY DEF ClientInv, UseTable, Always, Done, Quiet, Idle, Connecting, Here, Tokens, Away,
       AnswersTrue, Answered, Start, Send
  <1>. QED
    BY <1>1, <1>2, <1>3, <1>4, <1>5, <1>6, <1>7 DEF ClientInv

LEMMA StepUseAnswered ==
  ASSUME ClientInv, UseAnswered
  PROVE  ClientInv'
  <1>1. Typed'
    BY DEF ClientInv, UseAnswered, Typed, Always, LinkTyped, ClientTyped, CallTyped,
       HistoryTyped, Quiet, Idle, Connecting, Here, Tokens, Away, Stages, Said, Refusals, Go,
       Got, Send
  <1>2. Always'
    BY DEF ClientInv, UseAnswered, Always, Quiet, Idle, Connecting, Here, Tokens, Away, Go, Got,
       Send
  <1>3. InVersion'
    BY ClientAssumption, SinceIs, ScenarioIs
       DEF ClientInv, UseAnswered, Typed, Always, InVersion, OnWire, LinkTyped, ClientTyped,
          CallTyped, HistoryTyped, Quiet, Idle, Connecting, Here, Tokens, Away, Asks, Answers,
          Refusals, Stages, Said, Go, Got, Send
  <1>4. OnWire'
    BY DEF ClientInv, UseAnswered, Always, OnWire, Quiet, Idle, Connecting, Here, Tokens, Away,
       Asks, Answers, Refusals, Go, Got, Send
  <1>5. OnTable'
    BY DEF ClientInv, UseAnswered, Always, OnTable, Quiet, Idle, Connecting, Here, Tokens, Away,
       Answered, Live, Go, Got, Send
  <1>6. InSession'
    BY DEF ClientInv, UseAnswered, Always, InSession, Quiet, Idle, Connecting, Here, Tokens,
       Away, Answered, Live, Go, Got, Send
  <1>7. Done'
    BY DEF ClientInv, UseAnswered, Always, Done, Quiet, Idle, Connecting, Here, Tokens, Away,
       AnswersTrue, Answered, Go, Got, Send
  <1>. QED
    BY <1>1, <1>2, <1>3, <1>4, <1>5, <1>6, <1>7 DEF ClientInv

LEMMA StepUseDescribed ==
  ASSUME ClientInv, UseDescribed
  PROVE  ClientInv'
  <1>1. Typed'
    <2>1. wire.arg \in Tables /\ call.stage = "use_schema"
      BY DEF UseDescribed, Got, ClientInv, Always, OnWire, Typed, LinkTyped, Idle, Quiet
    <2>2. ClientTyped'
      BY <2>1 DEF UseDescribed, ClientInv, Typed, ClientTyped
    <2>3. CallTyped'
      BY DEF UseDescribed, Go, ClientInv, Typed, CallTyped, Stages
    <2>. QED
      BY <2>2, <2>3 DEF UseDescribed, Go, Send, ClientInv, Typed, LinkTyped, HistoryTyped
  <1>2. Always'
    BY DEF ClientInv, UseDescribed, Always, Quiet, Idle, Connecting, Here, Tokens, Away, Go,
       Got, Send
  <1>3. InVersion'
    BY ClientAssumption, SinceIs, ScenarioIs
       DEF ClientInv, UseDescribed, Typed, Always, InVersion, OnWire, LinkTyped, ClientTyped,
          CallTyped, HistoryTyped, Quiet, Idle, Connecting, Here, Tokens, Away, Asks, Answers,
          Refusals, Stages, Said, Go, Got, Send
  <1>4. OnWire'
    BY DEF ClientInv, UseDescribed, Always, OnWire, Quiet, Idle, Connecting, Here, Tokens, Away,
       Asks, Answers, Refusals, Go, Got, Send
  <1>5. OnTable'
    BY ClientAssumption, SinceIs, ScenarioIs
       DEF ClientInv, UseDescribed, Typed, Always, OnWire, OnTable, LinkTyped, ClientTyped,
          CallTyped, HistoryTyped, Quiet, Idle, Connecting, Here, Tokens, Away, Asks, Answers,
          Refusals, Answered, Live, Stages, Said, Go, Got, Send
  <1>6. InSession'
    BY DEF ClientInv, UseDescribed, Always, InSession, Quiet, Idle, Connecting, Here, Tokens,
       Away, Answered, Live, Go, Got, Send
  <1>7. Done'
    BY DEF ClientInv, UseDescribed, Always, Done, Quiet, Idle, Connecting, Here, Tokens, Away,
       AnswersTrue, Answered, Go, Got, Send
  <1>. QED
    BY <1>1, <1>2, <1>3, <1>4, <1>5, <1>6, <1>7 DEF ClientInv

LEMMA StepUseListed ==
  ASSUME ClientInv, UseListed
  PROVE  ClientInv'
  <1>1. Typed'
    <2>1. call.arg \in Tables /\ wire.arg = link.table /\ client.schema = call.arg
      BY DEF UseListed, Got, ClientInv, Always, OnWire, OnTable, Live, Answered, Away, Idle, Quiet
    <2>2. PICK s : s = client.schemas \cup {<<call.arg, client.schema>>}
      OBVIOUS
    <2>3. client' = [client EXCEPT !.relations = wire.arg, !.table = call.arg, !.schemas = s]
      BY <2>2 DEF UseListed
    <2>4. s \in SUBSET (Tables \X Tables)
      BY <2>1, <2>2 DEF ClientInv, Typed, ClientTyped
    <2>5. ClientTyped'
      BY <2>1, <2>3, <2>4 DEF ClientInv, Typed, ClientTyped, LinkTyped
    <2>. QED
      BY <2>5 DEF UseListed, Return, Idle, Quiet, ClientInv, Typed, LinkTyped, CallTyped, HistoryTyped, Said, Tokens
  <1>2. Always'
    BY ClientAssumption
       DEF ClientInv, UseListed, Typed, Always, OnWire, OnTable, InSession, LinkTyped,
          ClientTyped, CallTyped, HistoryTyped, Quiet, Idle, Connecting, Here, Tokens, Away,
          Asks, Answers, Refusals, Answered, Live, Stages, Said, Return, Got
  <1>3. InVersion'
    BY ClientAssumption, SinceIs, ScenarioIs
       DEF ClientInv, UseListed, Typed, Always, InVersion, OnWire, OnTable, InSession, Done,
          LinkTyped, ClientTyped, CallTyped, HistoryTyped, Quiet, Idle, Connecting, Here,
          Tokens, Away, Asks, Answers, Refusals, Answered, Live, AnswersTrue, Stages, Said,
          Return, Got
  <1>4. OnWire'
    BY DEF ClientInv, UseListed, Always, OnWire, Quiet, Idle, Connecting, Here, Tokens, Away,
       Asks, Answers, Refusals, Return, Got
  <1>5. OnTable'
    BY ClientAssumption
       DEF ClientInv, UseListed, Typed, Always, OnWire, OnTable, InSession, LinkTyped,
          ClientTyped, CallTyped, HistoryTyped, Quiet, Idle, Connecting, Here, Tokens, Away,
          Asks, Answers, Refusals, Answered, Live, Stages, Said, Return, Got
  <1>6. InSession'
    BY DEF ClientInv, UseListed, Always, InSession, Quiet, Idle, Connecting, Here, Tokens, Away,
       Answered, Live, Return, Got
  <1>7. Done'
    BY DEF ClientInv, UseListed, Always, Done, Quiet, Idle, Connecting, Here, Tokens, Away,
       AnswersTrue, Answered, Return, Got
  <1>. QED
    BY <1>1, <1>2, <1>3, <1>4, <1>5, <1>6, <1>7 DEF ClientInv

LEMMA StepJoin ==
  ASSUME ClientInv, NEW t \in Tables, Join(t)
  PROVE  ClientInv'
  <1>1. Typed'
    BY DEF ClientInv, Join, Typed, Always, LinkTyped, ClientTyped, CallTyped, HistoryTyped,
       Quiet, Idle, Connecting, Here, Tokens, Away, Stages, Said, Refusals, Start, Send
  <1>2. Always'
    BY ClientAssumption
       DEF ClientInv, Join, Typed, Always, LinkTyped, ClientTyped, CallTyped, HistoryTyped,
          Quiet, Idle, Connecting, Here, Tokens, Away, Stages, Said, Refusals, Start, Send
  <1>3. InVersion'
    BY ClientAssumption, SinceIs, ScenarioIs
       DEF ClientInv, Join, Typed, Always, InVersion, OnWire, LinkTyped, ClientTyped, CallTyped,
          HistoryTyped, Quiet, Idle, Connecting, Here, Tokens, Away, Asks, Answers, Refusals,
          Stages, Said, Start, Send
  <1>4. OnWire'
    BY DEF ClientInv, Join, Always, OnWire, Quiet, Idle, Connecting, Here, Tokens, Away, Asks,
       Answers, Refusals, Start, Send
  <1>5. OnTable'
    BY DEF ClientInv, Join, Always, OnTable, Quiet, Idle, Connecting, Here, Tokens, Away,
       Answered, Live, Start, Send
  <1>6. InSession'
    BY SMTT(30), ClientAssumption
       DEF ClientInv, Join, Typed, Always, OnWire, OnTable, InSession, LinkTyped, ClientTyped,
          CallTyped, HistoryTyped, Quiet, Idle, Connecting, Here, Tokens, Away, Asks, Answers,
          Refusals, Answered, Live, Stages, Said, Start, Send
  <1>7. Done'
    BY ClientAssumption
       DEF ClientInv, Join, Typed, Always, OnWire, OnTable, InSession, Done, LinkTyped,
          ClientTyped, CallTyped, HistoryTyped, Quiet, Idle, Connecting, Here, Tokens, Away,
          Asks, Answers, Refusals, Answered, Live, AnswersTrue, Stages, Said, Start, Send
  <1>. QED
    BY <1>1, <1>2, <1>3, <1>4, <1>5, <1>6, <1>7 DEF ClientInv

LEMMA StepOfTables ==
  ASSUME ClientInv, OfTables
  PROVE  ClientInv'
  <1>1. Typed'
    <2>1. wire.arg = Primary
      BY DEF OfTables, Got, ClientInv, Always, OnWire, Idle, Quiet
    <2>2. CallTyped'
      BY <2>1, ClientAssumption DEF OfTables, ClientInv, Typed, CallTyped, Stages
    <2>. QED
      BY <2>2 DEF OfTables, Send, ClientInv, Typed, LinkTyped, ClientTyped, HistoryTyped
  <1>2. Always'
    BY ClientAssumption, SinceIs, ScenarioIs
       DEF ClientInv, OfTables, Typed, Always, OnWire, LinkTyped, ClientTyped, CallTyped,
          HistoryTyped, Quiet, Idle, Connecting, Here, Tokens, Away, Asks, Answers, Refusals,
          Stages, Said, Send, Got
  <1>3. InVersion'
    BY ClientAssumption, SinceIs, ScenarioIs
       DEF ClientInv, OfTables, Typed, Always, InVersion, OnWire, LinkTyped, ClientTyped,
          CallTyped, HistoryTyped, Quiet, Idle, Connecting, Here, Tokens, Away, Asks, Answers,
          Refusals, Stages, Said, Send, Got
  <1>4. OnWire'
    BY DEF ClientInv, OfTables, Always, OnWire, Quiet, Idle, Connecting, Here, Tokens, Away,
       Asks, Answers, Refusals, Send, Got
  <1>5. OnTable'
    BY DEF ClientInv, OfTables, Always, OnTable, Quiet, Idle, Connecting, Here, Tokens, Away,
       Answered, Live, Send, Got
  <1>6. InSession'
    BY DEF ClientInv, OfTables, Always, InSession, Quiet, Idle, Connecting, Here, Tokens, Away,
       Answered, Live, Send, Got
  <1>7. Done'
    BY DEF ClientInv, OfTables, Always, Done, Quiet, Idle, Connecting, Here, Tokens, Away,
       AnswersTrue, Answered, Send, Got
  <1>. QED
    BY <1>1, <1>2, <1>3, <1>4, <1>5, <1>6, <1>7 DEF ClientInv

LEMMA StepOfUse ==
  ASSUME ClientInv, OfUse
  PROVE  ClientInv'
  <1>1. Typed'
    BY DEF ClientInv, OfUse, Typed, Always, LinkTyped, ClientTyped, CallTyped, HistoryTyped,
       Quiet, Idle, Connecting, Here, Tokens, Away, Stages, Said, Refusals, Go, Got, Send
  <1>2. Always'
    BY DEF ClientInv, OfUse, Always, Quiet, Idle, Connecting, Here, Tokens, Away, Go, Got, Send
  <1>3. InVersion'
    BY ClientAssumption, SinceIs, ScenarioIs
       DEF ClientInv, OfUse, Typed, Always, InVersion, OnWire, LinkTyped, ClientTyped,
          CallTyped, HistoryTyped, Quiet, Idle, Connecting, Here, Tokens, Away, Asks, Answers,
          Refusals, Stages, Said, Go, Got, Send
  <1>4. OnWire'
    BY DEF ClientInv, OfUse, Always, OnWire, Quiet, Idle, Connecting, Here, Tokens, Away, Asks,
       Answers, Refusals, Go, Got, Send
  <1>5. OnTable'
    BY DEF ClientInv, OfUse, Always, OnTable, Quiet, Idle, Connecting, Here, Tokens, Away,
       Answered, Live, Go, Got, Send
  <1>6. InSession'
    BY DEF ClientInv, OfUse, Always, InSession, Quiet, Idle, Connecting, Here, Tokens, Away,
       Answered, Live, Go, Got, Send
  <1>7. Done'
    BY DEF ClientInv, OfUse, Always, Done, Quiet, Idle, Connecting, Here, Tokens, Away,
       AnswersTrue, Answered, Go, Got, Send
  <1>. QED
    BY <1>1, <1>2, <1>3, <1>4, <1>5, <1>6, <1>7 DEF ClientInv

LEMMA StepOfSchema ==
  ASSUME ClientInv, OfSchema
  PROVE  ClientInv'
  <1>1. Typed'
    BY ClientAssumption
       DEF ClientInv, OfSchema, Typed, Always, OnWire, OnTable, InSession, LinkTyped,
          ClientTyped, CallTyped, HistoryTyped, Quiet, Idle, Connecting, Here, Tokens, Away,
          Asks, Answers, Refusals, Answered, Live, Stages, Said, Go, Got, Send
  <1>2. Always'
    BY ClientAssumption
       DEF ClientInv, OfSchema, Typed, Always, OnWire, OnTable, InSession, LinkTyped,
          ClientTyped, CallTyped, HistoryTyped, Quiet, Idle, Connecting, Here, Tokens, Away,
          Asks, Answers, Refusals, Answered, Live, Stages, Said, Go, Got, Send
  <1>3. InVersion'
    BY DEF ClientInv, OfSchema, Always, InVersion, Quiet, Idle, Connecting, Here, Tokens, Away,
       Asks, Go, Got, Send
  <1>4. OnWire'
    BY DEF ClientInv, OfSchema, Always, OnWire, Quiet, Idle, Connecting, Here, Tokens, Away,
       Asks, Answers, Refusals, Go, Got, Send
  <1>5. OnTable'
    BY DEF ClientInv, OfSchema, Always, OnTable, Quiet, Idle, Connecting, Here, Tokens, Away,
       Answered, Live, Go, Got, Send
  <1>6. InSession'
    BY DEF ClientInv, OfSchema, Always, InSession, Quiet, Idle, Connecting, Here, Tokens, Away,
       Answered, Live, Go, Got, Send
  <1>7. Done'
    BY DEF ClientInv, OfSchema, Always, Done, Quiet, Idle, Connecting, Here, Tokens, Away,
       AnswersTrue, Answered, Go, Got, Send
  <1>. QED
    BY <1>1, <1>2, <1>3, <1>4, <1>5, <1>6, <1>7 DEF ClientInv

LEMMA StepOfBack ==
  ASSUME ClientInv, OfBack
  PROVE  ClientInv'
  <1>1. Typed'
    BY DEF ClientInv, OfBack, Typed, Always, LinkTyped, ClientTyped, CallTyped, HistoryTyped,
       Quiet, Idle, Connecting, Here, Tokens, Away, Stages, Said, Refusals, Go, Got, Send
  <1>2. Always'
    BY DEF ClientInv, OfBack, Always, Quiet, Idle, Connecting, Here, Tokens, Away, Go, Got, Send
  <1>3. InVersion'
    BY ClientAssumption, SinceIs, ScenarioIs
       DEF ClientInv, OfBack, Typed, Always, InVersion, OnWire, LinkTyped, ClientTyped,
          CallTyped, HistoryTyped, Quiet, Idle, Connecting, Here, Tokens, Away, Asks, Answers,
          Refusals, Stages, Said, Go, Got, Send
  <1>4. OnWire'
    BY DEF ClientInv, OfBack, Always, OnWire, Quiet, Idle, Connecting, Here, Tokens, Away, Asks,
       Answers, Refusals, Go, Got, Send
  <1>5. OnTable'
    BY DEF ClientInv, OfBack, Always, OnTable, Quiet, Idle, Connecting, Here, Tokens, Away,
       Answered, Live, Go, Got, Send
  <1>6. InSession'
    BY DEF ClientInv, OfBack, Always, InSession, Quiet, Idle, Connecting, Here, Tokens, Away,
       Answered, Live, Go, Got, Send
  <1>7. Done'
    BY DEF ClientInv, OfBack, Always, Done, Quiet, Idle, Connecting, Here, Tokens, Away,
       AnswersTrue, Answered, Go, Got, Send
  <1>. QED
    BY <1>1, <1>2, <1>3, <1>4, <1>5, <1>6, <1>7 DEF ClientInv

LEMMA StepJoined ==
  ASSUME ClientInv, Joined
  PROVE  ClientInv'
  <1>1. Typed'
    BY DEF ClientInv, Joined, Typed, Always, LinkTyped, ClientTyped, CallTyped, HistoryTyped,
       Quiet, Idle, Connecting, Here, Tokens, Away, Stages, Said, Refusals, Return, Got
  <1>2. Always'
    BY DEF ClientInv, Joined, Always, Quiet, Idle, Connecting, Here, Tokens, Away, Return, Got
  <1>3. InVersion'
    BY DEF ClientInv, Joined, Always, InVersion, Quiet, Idle, Connecting, Here, Tokens, Away,
       Asks, Return, Got
  <1>4. OnWire'
    BY DEF ClientInv, Joined, Always, OnWire, Quiet, Idle, Connecting, Here, Tokens, Away, Asks,
       Answers, Refusals, Return, Got
  <1>5. OnTable'
    BY DEF ClientInv, Joined, Always, OnTable, Quiet, Idle, Connecting, Here, Tokens, Away,
       Answered, Live, Return, Got
  <1>6. InSession'
    BY DEF ClientInv, Joined, Always, InSession, Quiet, Idle, Connecting, Here, Tokens, Away,
       Answered, Live, Return, Got
  <1>7. Done'
    BY DEF ClientInv, Joined, Always, Done, Quiet, Idle, Connecting, Here, Tokens, Away,
       AnswersTrue, Answered, Return, Got
  <1>. QED
    BY <1>1, <1>2, <1>3, <1>4, <1>5, <1>6, <1>7 DEF ClientInv

LEMMA StepUpdate ==
  ASSUME ClientInv, Update
  PROVE  ClientInv'
  <1>1. Typed'
    BY DEF ClientInv, Update, Typed, Always, LinkTyped, ClientTyped, CallTyped, HistoryTyped,
       Quiet, Idle, Connecting, Here, Tokens, Away, Stages, Said, Refusals, Start, Send
  <1>2. Always'
    BY DEF ClientInv, Update, Always, Quiet, Idle, Connecting, Here, Tokens, Away, Start, Send
  <1>3. InVersion'
    BY ClientAssumption, SinceIs, ScenarioIs
       DEF ClientInv, Update, Typed, Always, InVersion, OnWire, LinkTyped, ClientTyped,
          CallTyped, HistoryTyped, Quiet, Idle, Connecting, Here, Tokens, Away, Asks, Answers,
          Refusals, Stages, Said, Start, Send
  <1>4. OnWire'
    BY DEF ClientInv, Update, Always, OnWire, Quiet, Idle, Connecting, Here, Tokens, Away, Asks,
       Answers, Refusals, Start, Send
  <1>5. OnTable'
    BY DEF ClientInv, Update, Always, OnTable, Quiet, Idle, Connecting, Here, Tokens, Away,
       Answered, Live, Start, Send
  <1>6. InSession'
    BY DEF ClientInv, Update, Always, InSession, Quiet, Idle, Connecting, Here, Tokens, Away,
       Answered, Live, Start, Send
  <1>7. Done'
    BY DEF ClientInv, Update, Always, Done, Quiet, Idle, Connecting, Here, Tokens, Away,
       AnswersTrue, Answered, Start, Send
  <1>. QED
    BY <1>1, <1>2, <1>3, <1>4, <1>5, <1>6, <1>7 DEF ClientInv

LEMMA StepUpdated ==
  ASSUME ClientInv, Updated
  PROVE  ClientInv'
  <1>1. Typed'
    BY DEF ClientInv, Updated, Typed, Always, LinkTyped, ClientTyped, CallTyped, HistoryTyped,
       Quiet, Idle, Connecting, Here, Tokens, Away, Stages, Said, Refusals, Return
  <1>2. Always'
    BY DEF ClientInv, Updated, Always, Quiet, Idle, Connecting, Here, Tokens, Away, Return
  <1>3. InVersion'
    BY DEF ClientInv, Updated, Always, InVersion, Quiet, Idle, Connecting, Here, Tokens, Away,
       Asks, Return
  <1>4. OnWire'
    BY DEF ClientInv, Updated, Always, OnWire, Quiet, Idle, Connecting, Here, Tokens, Away,
       Asks, Answers, Refusals, Return
  <1>5. OnTable'
    BY DEF ClientInv, Updated, Always, OnTable, Quiet, Idle, Connecting, Here, Tokens, Away,
       Answered, Live, Return
  <1>6. InSession'
    BY DEF ClientInv, Updated, Always, InSession, Quiet, Idle, Connecting, Here, Tokens, Away,
       Answered, Live, Return
  <1>7. Done'
    BY ClientAssumption
       DEF ClientInv, Updated, Typed, Always, OnWire, OnTable, InSession, Done, LinkTyped,
          ClientTyped, CallTyped, HistoryTyped, Quiet, Idle, Connecting, Here, Tokens, Away,
          Asks, Answers, Refusals, Answered, Live, AnswersTrue, Stages, Said, Return
  <1>. QED
    BY <1>1, <1>2, <1>3, <1>4, <1>5, <1>6, <1>7 DEF ClientInv

LEMMA StepUpsert ==
  ASSUME ClientInv, Upsert
  PROVE  ClientInv'
  <1>1. Typed'
    BY DEF ClientInv, Upsert, Typed, Always, LinkTyped, ClientTyped, CallTyped, HistoryTyped,
       Quiet, Idle, Connecting, Here, Tokens, Away, Stages, Said, Refusals, Start, Send
  <1>2. Always'
    BY DEF ClientInv, Upsert, Always, Quiet, Idle, Connecting, Here, Tokens, Away, Start, Send
  <1>3. InVersion'
    BY DEF ClientInv, Upsert, Always, InVersion, Quiet, Idle, Connecting, Here, Tokens, Away,
       Asks, Start, Send
  <1>4. OnWire'
    BY DEF ClientInv, Upsert, Always, OnWire, Quiet, Idle, Connecting, Here, Tokens, Away, Asks,
       Answers, Refusals, Start, Send
  <1>5. OnTable'
    BY DEF ClientInv, Upsert, Always, OnTable, Quiet, Idle, Connecting, Here, Tokens, Away,
       Answered, Live, Start, Send
  <1>6. InSession'
    BY DEF ClientInv, Upsert, Always, InSession, Quiet, Idle, Connecting, Here, Tokens, Away,
       Answered, Live, Start, Send
  <1>7. Done'
    BY DEF ClientInv, Upsert, Always, Done, Quiet, Idle, Connecting, Here, Tokens, Away,
       AnswersTrue, Answered, Start, Send
  <1>. QED
    BY <1>1, <1>2, <1>3, <1>4, <1>5, <1>6, <1>7 DEF ClientInv

LEMMA StepInserted ==
  ASSUME ClientInv, Inserted
  PROVE  ClientInv'
  <1>1. Typed'
    BY DEF ClientInv, Inserted, Typed, Always, LinkTyped, ClientTyped, CallTyped, HistoryTyped,
       Quiet, Idle, Connecting, Here, Tokens, Away, Stages, Said, Refusals, Return, Got
  <1>2. Always'
    BY DEF ClientInv, Inserted, Always, Quiet, Idle, Connecting, Here, Tokens, Away, Return, Got
  <1>3. InVersion'
    BY DEF ClientInv, Inserted, Always, InVersion, Quiet, Idle, Connecting, Here, Tokens, Away,
       Asks, Return, Got
  <1>4. OnWire'
    BY DEF ClientInv, Inserted, Always, OnWire, Quiet, Idle, Connecting, Here, Tokens, Away,
       Asks, Answers, Refusals, Return, Got
  <1>5. OnTable'
    BY DEF ClientInv, Inserted, Always, OnTable, Quiet, Idle, Connecting, Here, Tokens, Away,
       Answered, Live, Return, Got
  <1>6. InSession'
    BY DEF ClientInv, Inserted, Always, InSession, Quiet, Idle, Connecting, Here, Tokens, Away,
       Answered, Live, Return, Got
  <1>7. Done'
    BY ClientAssumption
       DEF ClientInv, Inserted, Typed, Always, OnWire, OnTable, InSession, Done, LinkTyped,
          ClientTyped, CallTyped, HistoryTyped, Quiet, Idle, Connecting, Here, Tokens, Away,
          Asks, Answers, Refusals, Answered, Live, AnswersTrue, Stages, Said, Return, Got
  <1>. QED
    BY <1>1, <1>2, <1>3, <1>4, <1>5, <1>6, <1>7 DEF ClientInv

LEMMA StepDuplicate ==
  ASSUME ClientInv, Duplicate
  PROVE  ClientInv'
  <1>1. Typed'
    BY DEF ClientInv, Duplicate, Typed, Always, LinkTyped, ClientTyped, CallTyped, HistoryTyped,
       Quiet, Idle, Connecting, Here, Tokens, Away, Stages, Said, Refusals, Go, Return, Got,
       Send
  <1>2. Always'
    BY ClientAssumption
       DEF ClientInv, Duplicate, Typed, Always, OnWire, OnTable, InSession, LinkTyped,
          ClientTyped, CallTyped, HistoryTyped, Quiet, Idle, Connecting, Here, Tokens, Away,
          Asks, Answers, Refusals, Answered, Live, Stages, Said, Go, Return, Got, Send
  <1>3. InVersion'
    BY ClientAssumption
       DEF ClientInv, Duplicate, Typed, Always, InVersion, OnWire, OnTable, InSession,
          LinkTyped, ClientTyped, CallTyped, HistoryTyped, Quiet, Idle, Connecting, Here,
          Tokens, Away, Asks, Answers, Refusals, Answered, Live, Stages, Said, Go, Return, Got,
          Send
  <1>4. OnWire'
    BY ClientAssumption
       DEF ClientInv, Duplicate, Typed, Always, OnWire, OnTable, InSession, LinkTyped,
          ClientTyped, CallTyped, HistoryTyped, Quiet, Idle, Connecting, Here, Tokens, Away,
          Asks, Answers, Refusals, Answered, Live, Stages, Said, Go, Return, Got, Send
  <1>5. OnTable'
    BY ClientAssumption
       DEF ClientInv, Duplicate, Typed, Always, OnWire, OnTable, InSession, LinkTyped,
          ClientTyped, CallTyped, HistoryTyped, Quiet, Idle, Connecting, Here, Tokens, Away,
          Asks, Answers, Refusals, Answered, Live, Stages, Said, Go, Return, Got, Send
  <1>6. InSession'
    BY ClientAssumption
       DEF ClientInv, Duplicate, Typed, Always, OnWire, OnTable, InSession, LinkTyped,
          ClientTyped, CallTyped, HistoryTyped, Quiet, Idle, Connecting, Here, Tokens, Away,
          Asks, Answers, Refusals, Answered, Live, Stages, Said, Go, Return, Got, Send
  <1>7. Done'
    BY ClientAssumption
       DEF ClientInv, Duplicate, Typed, Always, OnWire, OnTable, InSession, Done, LinkTyped,
          ClientTyped, CallTyped, HistoryTyped, Quiet, Idle, Connecting, Here, Tokens, Away,
          Asks, Answers, Refusals, Answered, Live, AnswersTrue, Stages, Said, Go, Return, Got,
          Send
  <1>. QED
    BY <1>1, <1>2, <1>3, <1>4, <1>5, <1>6, <1>7 DEF ClientInv

LEMMA StepReplaced ==
  ASSUME ClientInv, Replaced
  PROVE  ClientInv'
  <1>1. Typed'
    BY DEF ClientInv, Replaced, Typed, Always, LinkTyped, ClientTyped, CallTyped, HistoryTyped,
       Quiet, Idle, Connecting, Here, Tokens, Away, Stages, Said, Refusals, Return
  <1>2. Always'
    BY DEF ClientInv, Replaced, Always, Quiet, Idle, Connecting, Here, Tokens, Away, Return
  <1>3. InVersion'
    BY DEF ClientInv, Replaced, Always, InVersion, Quiet, Idle, Connecting, Here, Tokens, Away,
       Asks, Return
  <1>4. OnWire'
    BY DEF ClientInv, Replaced, Always, OnWire, Quiet, Idle, Connecting, Here, Tokens, Away,
       Asks, Answers, Refusals, Return
  <1>5. OnTable'
    BY DEF ClientInv, Replaced, Always, OnTable, Quiet, Idle, Connecting, Here, Tokens, Away,
       Answered, Live, Return
  <1>6. InSession'
    BY DEF ClientInv, Replaced, Always, InSession, Quiet, Idle, Connecting, Here, Tokens, Away,
       Answered, Live, Return
  <1>7. Done'
    BY ClientAssumption
       DEF ClientInv, Replaced, Typed, Always, OnWire, OnTable, InSession, Done, LinkTyped,
          ClientTyped, CallTyped, HistoryTyped, Quiet, Idle, Connecting, Here, Tokens, Away,
          Asks, Answers, Refusals, Answered, Live, AnswersTrue, Stages, Said, Return
  <1>. QED
    BY <1>1, <1>2, <1>3, <1>4, <1>5, <1>6, <1>7 DEF ClientInv

LEMMA StepBegin ==
  ASSUME ClientInv, Begin
  PROVE  ClientInv'
  <1>1. Typed'
    BY DEF ClientInv, Begin, Typed, Always, LinkTyped, ClientTyped, CallTyped, HistoryTyped,
       Quiet, Idle, Connecting, Here, Tokens, Away, Stages, Said, Refusals, Start, Send
  <1>2. Always'
    BY DEF ClientInv, Begin, Always, Quiet, Idle, Connecting, Here, Tokens, Away, Start, Send
  <1>3. InVersion'
    BY DEF ClientInv, Begin, Always, InVersion, Quiet, Idle, Connecting, Here, Tokens, Away,
       Asks, Start, Send
  <1>4. OnWire'
    BY DEF ClientInv, Begin, Always, OnWire, Quiet, Idle, Connecting, Here, Tokens, Away, Asks,
       Answers, Refusals, Start, Send
  <1>5. OnTable'
    BY DEF ClientInv, Begin, Always, OnTable, Quiet, Idle, Connecting, Here, Tokens, Away,
       Answered, Live, Start, Send
  <1>6. InSession'
    BY DEF ClientInv, Begin, Always, InSession, Quiet, Idle, Connecting, Here, Tokens, Away,
       Answered, Live, Start, Send
  <1>7. Done'
    BY DEF ClientInv, Begin, Always, Done, Quiet, Idle, Connecting, Here, Tokens, Away,
       AnswersTrue, Answered, Start, Send
  <1>. QED
    BY <1>1, <1>2, <1>3, <1>4, <1>5, <1>6, <1>7 DEF ClientInv

LEMMA StepBegun ==
  ASSUME ClientInv, Begun
  PROVE  ClientInv'
  <1>1. Typed'
    BY DEF ClientInv, Begun, Typed, Always, LinkTyped, ClientTyped, CallTyped, HistoryTyped,
       Quiet, Idle, Connecting, Here, Tokens, Away, Stages, Said, Refusals, Got
  <1>2. Always'
    BY DEF ClientInv, Begun, Always, Quiet, Idle, Connecting, Here, Tokens, Away, Got
  <1>3. InVersion'
    BY DEF ClientInv, Begun, Always, InVersion, Quiet, Idle, Connecting, Here, Tokens, Away,
       Asks, Got
  <1>4. OnWire'
    BY DEF ClientInv, Begun, Always, OnWire, Quiet, Idle, Connecting, Here, Tokens, Away, Asks,
       Answers, Refusals, Got
  <1>5. OnTable'
    BY DEF ClientInv, Begun, Always, OnTable, Quiet, Idle, Connecting, Here, Tokens, Away,
       Answered, Live, Got
  <1>6. InSession'
    BY DEF ClientInv, Begun, Always, InSession, Quiet, Idle, Connecting, Here, Tokens, Away,
       Answered, Live, Got
  <1>7. Done'
    BY DEF ClientInv, Begun, Always, Done, Quiet, Idle, Connecting, Here, Tokens, Away,
       AnswersTrue, Answered, Got
  <1>. QED
    BY <1>1, <1>2, <1>3, <1>4, <1>5, <1>6, <1>7 DEF ClientInv

LEMMA StepStage ==
  ASSUME ClientInv, Stage
  PROVE  ClientInv'
  <1>1. Typed'
    BY DEF ClientInv, Stage, Typed, Always, LinkTyped, ClientTyped, CallTyped, HistoryTyped,
       Quiet, Idle, Connecting, Here, Tokens, Away, Stages, Said, Refusals, Start, Send
  <1>2. Always'
    BY DEF ClientInv, Stage, Always, Quiet, Idle, Connecting, Here, Tokens, Away, Start, Send
  <1>3. InVersion'
    BY ClientAssumption, SinceIs, ScenarioIs
       DEF ClientInv, Stage, Typed, Always, InVersion, OnWire, LinkTyped, ClientTyped,
          CallTyped, HistoryTyped, Quiet, Idle, Connecting, Here, Tokens, Away, Asks, Answers,
          Refusals, Stages, Said, Start, Send
  <1>4. OnWire'
    BY DEF ClientInv, Stage, Always, OnWire, Quiet, Idle, Connecting, Here, Tokens, Away, Asks,
       Answers, Refusals, Start, Send
  <1>5. OnTable'
    BY ClientAssumption
       DEF ClientInv, Stage, Typed, Always, OnWire, OnTable, InSession, LinkTyped, ClientTyped,
          CallTyped, HistoryTyped, Quiet, Idle, Connecting, Here, Tokens, Away, Asks, Answers,
          Refusals, Answered, Live, Stages, Said, Start, Send
  <1>6. InSession'
    BY DEF ClientInv, Stage, Always, InSession, Quiet, Idle, Connecting, Here, Tokens, Away,
       Answered, Live, Start, Send
  <1>7. Done'
    BY DEF ClientInv, Stage, Always, Done, Quiet, Idle, Connecting, Here, Tokens, Away,
       AnswersTrue, Answered, Start, Send
  <1>. QED
    BY <1>1, <1>2, <1>3, <1>4, <1>5, <1>6, <1>7 DEF ClientInv

LEMMA StepStaged ==
  ASSUME ClientInv, Staged
  PROVE  ClientInv'
  <1>1. Typed'
    <2>1. PICK n \in Nat : n = history.told
      BY DEF ClientInv, Typed, HistoryTyped
    <2>2. n + 1 \in Nat
      OBVIOUS
    <2>3. history' = [history EXCEPT !.answer = "staged", !.told = n + 1]
      BY <2>1 DEF Staged
    <2>4. HistoryTyped'
      BY <2>2, <2>3 DEF ClientInv, Typed, HistoryTyped, Said
    <2>. QED
      BY <2>4 DEF Staged, Idle, Quiet, ClientInv, Typed, LinkTyped, ClientTyped, CallTyped, Tokens
  <1>2. Always'
    BY DEF ClientInv, Staged, Always, Quiet, Idle, Connecting, Here, Tokens, Away, Got
  <1>3. InVersion'
    BY DEF ClientInv, Staged, Always, InVersion, Quiet, Idle, Connecting, Here, Tokens, Away,
       Asks, Got
  <1>4. OnWire'
    BY DEF ClientInv, Staged, Always, OnWire, Quiet, Idle, Connecting, Here, Tokens, Away, Asks,
       Answers, Refusals, Got
  <1>5. OnTable'
    BY DEF ClientInv, Staged, Always, OnTable, Quiet, Idle, Connecting, Here, Tokens, Away,
       Answered, Live, Got
  <1>6. InSession'
    BY DEF ClientInv, Staged, Always, InSession, Quiet, Idle, Connecting, Here, Tokens, Away,
       Answered, Live, Got
  <1>7. Done'
    BY DEF ClientInv, Staged, Always, Done, Quiet, Idle, Connecting, Here, Tokens, Away,
       AnswersTrue, Answered, Got
  <1>. QED
    BY <1>1, <1>2, <1>3, <1>4, <1>5, <1>6, <1>7 DEF ClientInv

LEMMA StepCommit ==
  ASSUME ClientInv, Commit
  PROVE  ClientInv'
  <1>1. Typed'
    BY DEF ClientInv, Commit, Typed, Always, LinkTyped, ClientTyped, CallTyped, HistoryTyped,
       Quiet, Idle, Connecting, Here, Tokens, Away, Stages, Said, Refusals, Start, Send
  <1>2. Always'
    BY DEF ClientInv, Commit, Always, Quiet, Idle, Connecting, Here, Tokens, Away, Start, Send
  <1>3. InVersion'
    BY ClientAssumption, SinceIs, ScenarioIs
       DEF ClientInv, Commit, Typed, Always, InVersion, OnWire, LinkTyped, ClientTyped,
          CallTyped, HistoryTyped, Quiet, Idle, Connecting, Here, Tokens, Away, Asks, Answers,
          Refusals, Stages, Said, Start, Send
  <1>4. OnWire'
    BY DEF ClientInv, Commit, Always, OnWire, Quiet, Idle, Connecting, Here, Tokens, Away, Asks,
       Answers, Refusals, Start, Send
  <1>5. OnTable'
    BY ClientAssumption
       DEF ClientInv, Commit, Typed, Always, OnWire, OnTable, InSession, LinkTyped, ClientTyped,
          CallTyped, HistoryTyped, Quiet, Idle, Connecting, Here, Tokens, Away, Asks, Answers,
          Refusals, Answered, Live, Stages, Said, Start, Send
  <1>6. InSession'
    BY DEF ClientInv, Commit, Always, InSession, Quiet, Idle, Connecting, Here, Tokens, Away,
       Answered, Live, Start, Send
  <1>7. Done'
    BY DEF ClientInv, Commit, Always, Done, Quiet, Idle, Connecting, Here, Tokens, Away,
       AnswersTrue, Answered, Start, Send
  <1>. QED
    BY <1>1, <1>2, <1>3, <1>4, <1>5, <1>6, <1>7 DEF ClientInv

LEMMA StepCommitted ==
  ASSUME ClientInv, Committed
  PROVE  ClientInv'
  <1>1. Typed'
    BY DEF ClientInv, Committed, Typed, Always, LinkTyped, ClientTyped, CallTyped, HistoryTyped,
       Quiet, Idle, Connecting, Here, Tokens, Away, Stages, Said, Refusals, Return
  <1>2. Always'
    BY DEF ClientInv, Committed, Always, Quiet, Idle, Connecting, Here, Tokens, Away, Return
  <1>3. InVersion'
    BY DEF ClientInv, Committed, Always, InVersion, Quiet, Idle, Connecting, Here, Tokens, Away,
       Asks, Return
  <1>4. OnWire'
    BY DEF ClientInv, Committed, Always, OnWire, Quiet, Idle, Connecting, Here, Tokens, Away,
       Asks, Answers, Refusals, Return
  <1>5. OnTable'
    BY DEF ClientInv, Committed, Always, OnTable, Quiet, Idle, Connecting, Here, Tokens, Away,
       Answered, Live, Return
  <1>6. InSession'
    BY ClientAssumption
       DEF ClientInv, Committed, Typed, Always, OnWire, OnTable, InSession, LinkTyped,
          ClientTyped, CallTyped, HistoryTyped, Quiet, Idle, Connecting, Here, Tokens, Away,
          Asks, Answers, Refusals, Answered, Live, Stages, Said, Return
  <1>7. Done'
    BY ClientAssumption
       DEF ClientInv, Committed, Typed, Always, OnWire, OnTable, InSession, Done, LinkTyped,
          ClientTyped, CallTyped, HistoryTyped, Quiet, Idle, Connecting, Here, Tokens, Away,
          Asks, Answers, Refusals, Answered, Live, AnswersTrue, Stages, Said, Return
  <1>. QED
    BY <1>1, <1>2, <1>3, <1>4, <1>5, <1>6, <1>7 DEF ClientInv

LEMMA StepRollback ==
  ASSUME ClientInv, Rollback
  PROVE  ClientInv'
  <1>1. Typed'
    BY DEF ClientInv, Rollback, Typed, Always, LinkTyped, ClientTyped, CallTyped, HistoryTyped,
       Quiet, Idle, Connecting, Here, Tokens, Away, Stages, Said, Refusals, Start, Send
  <1>2. Always'
    BY DEF ClientInv, Rollback, Always, Quiet, Idle, Connecting, Here, Tokens, Away, Start, Send
  <1>3. InVersion'
    BY ClientAssumption, SinceIs, ScenarioIs
       DEF ClientInv, Rollback, Typed, Always, InVersion, OnWire, LinkTyped, ClientTyped,
          CallTyped, HistoryTyped, Quiet, Idle, Connecting, Here, Tokens, Away, Asks, Answers,
          Refusals, Stages, Said, Start, Send
  <1>4. OnWire'
    BY DEF ClientInv, Rollback, Always, OnWire, Quiet, Idle, Connecting, Here, Tokens, Away,
       Asks, Answers, Refusals, Start, Send
  <1>5. OnTable'
    BY ClientAssumption
       DEF ClientInv, Rollback, Typed, Always, OnWire, OnTable, InSession, LinkTyped,
          ClientTyped, CallTyped, HistoryTyped, Quiet, Idle, Connecting, Here, Tokens, Away,
          Asks, Answers, Refusals, Answered, Live, Stages, Said, Start, Send
  <1>6. InSession'
    BY DEF ClientInv, Rollback, Always, InSession, Quiet, Idle, Connecting, Here, Tokens, Away,
       Answered, Live, Start, Send
  <1>7. Done'
    BY DEF ClientInv, Rollback, Always, Done, Quiet, Idle, Connecting, Here, Tokens, Away,
       AnswersTrue, Answered, Start, Send
  <1>. QED
    BY <1>1, <1>2, <1>3, <1>4, <1>5, <1>6, <1>7 DEF ClientInv

LEMMA StepRolledBack ==
  ASSUME ClientInv, RolledBack
  PROVE  ClientInv'
  <1>1. Typed'
    BY DEF ClientInv, RolledBack, Typed, Always, LinkTyped, ClientTyped, CallTyped,
       HistoryTyped, Quiet, Idle, Connecting, Here, Tokens, Away, Stages, Said, Refusals,
       Return, Got
  <1>2. Always'
    BY DEF ClientInv, RolledBack, Always, Quiet, Idle, Connecting, Here, Tokens, Away, Return,
       Got
  <1>3. InVersion'
    BY DEF ClientInv, RolledBack, Always, InVersion, Quiet, Idle, Connecting, Here, Tokens,
       Away, Asks, Return, Got
  <1>4. OnWire'
    BY DEF ClientInv, RolledBack, Always, OnWire, Quiet, Idle, Connecting, Here, Tokens, Away,
       Asks, Answers, Refusals, Return, Got
  <1>5. OnTable'
    BY DEF ClientInv, RolledBack, Always, OnTable, Quiet, Idle, Connecting, Here, Tokens, Away,
       Answered, Live, Return, Got
  <1>6. InSession'
    BY DEF ClientInv, RolledBack, Always, InSession, Quiet, Idle, Connecting, Here, Tokens,
       Away, Answered, Live, Return, Got
  <1>7. Done'
    BY DEF ClientInv, RolledBack, Always, Done, Quiet, Idle, Connecting, Here, Tokens, Away,
       AnswersTrue, Answered, Return, Got
  <1>. QED
    BY <1>1, <1>2, <1>3, <1>4, <1>5, <1>6, <1>7 DEF ClientInv

LEMMA StepRefused ==
  ASSUME ClientInv, Refused
  PROVE  ClientInv'
  <1>1. Typed'
    <2>1. wire.arg \in Said
      BY DEF ClientInv, OnWire, Always, Refused, Said, Idle, Quiet
    <2>2. PICK left \in BOOLEAN : left = (history.left \/ (call.stage = "commit" /\ link.session # None))
      OBVIOUS
    <2>3. history' = [history EXCEPT !.answer = wire.arg, !.left = left]
      BY <2>2 DEF Refused
    <2>4. HistoryTyped'
      BY <2>1, <2>2, <2>3 DEF ClientInv, Typed, HistoryTyped
    <2>5. ClientTyped'
      BY DEF Refused, NoClient, ClientInv, Typed, ClientTyped
    <2>. QED
      BY <2>4, <2>5 DEF Refused, Idle, Quiet, ClientInv, Typed, LinkTyped, CallTyped, Tokens
  <1>2. Always'
    BY DEF ClientInv, Refused, Always, Quiet, Idle, Connecting, Here, Tokens, Away, NoClient
  <1>3. InVersion'
    BY DEF ClientInv, Refused, Always, InVersion, Quiet, Idle, Connecting, Here, Tokens, Away,
       Asks, NoClient
  <1>4. OnWire'
    BY DEF ClientInv, Refused, Always, OnWire, Quiet, Idle, Connecting, Here, Tokens, Away,
       Asks, Answers, Refusals, NoClient
  <1>5. OnTable'
    BY ClientAssumption
       DEF ClientInv, Refused, Typed, Always, OnWire, OnTable, InSession, LinkTyped,
          ClientTyped, CallTyped, HistoryTyped, Quiet, Idle, Connecting, Here, Tokens, Away,
          Asks, Answers, Refusals, Answered, Live, Stages, Said, NoClient
  <1>6. InSession'
    BY ClientAssumption
       DEF ClientInv, Refused, Typed, Always, OnWire, OnTable, InSession, LinkTyped,
          ClientTyped, CallTyped, HistoryTyped, Quiet, Idle, Connecting, Here, Tokens, Away,
          Asks, Answers, Refusals, Answered, Live, Stages, Said, NoClient
  <1>7. Done'
    BY ClientAssumption, SinceIs, ScenarioIs
       DEF ClientInv, Refused, Typed, Always, OnWire, Done, LinkTyped, ClientTyped, CallTyped,
          HistoryTyped, Quiet, Idle, Connecting, Here, Tokens, Away, Asks, Answers, Refusals,
          AnswersTrue, Answered, Stages, Said, NoClient
  <1>. QED
    BY <1>1, <1>2, <1>3, <1>4, <1>5, <1>6, <1>7 DEF ClientInv

LEMMA StepUndecoded ==
  ASSUME ClientInv, Undecoded
  PROVE  ClientInv'
  <1>1. Typed'
    <2>1. LinkTyped'
      BY DEF Undecoded, ClientInv, Typed, LinkTyped
    <2>2. HistoryTyped'
      BY DEF Undecoded, ClientInv, Typed, HistoryTyped
    <2>. QED
      BY <2>1, <2>2 DEF Undecoded, Quiet, ClientInv, Typed, ClientTyped, CallTyped
  <1>2. Always'
    BY SMTT(30), ClientAssumption, SinceIs, ScenarioIs
       DEF ClientInv, Undecoded, Typed, Always, InVersion, OnWire, OnTable, LinkTyped,
          ClientTyped, CallTyped, HistoryTyped, Quiet, Idle, Connecting, Here, Tokens, Away,
          Asks, Answers, Refusals, Answered, Live, Stages, Said, Known
  <1>3. InVersion'
    BY DEF ClientInv, Undecoded, Always, InVersion, Quiet, Idle, Connecting, Here, Tokens, Away,
       Asks, Known
  <1>4. OnWire'
    BY DEF ClientInv, Undecoded, Always, OnWire, Quiet, Idle, Connecting, Here, Tokens, Away,
       Asks, Answers, Refusals, Known
  <1>5. OnTable'
    BY DEF ClientInv, Undecoded, Always, OnTable, Quiet, Idle, Connecting, Here, Tokens, Away,
       Answered, Live, Known
  <1>6. InSession'
    BY DEF ClientInv, Undecoded, Always, InSession, Quiet, Idle, Connecting, Here, Tokens, Away,
       Answered, Live, Known
  <1>7. Done'
    BY DEF ClientInv, Undecoded, Always, Done, Quiet, Idle, Connecting, Here, Tokens, Away,
       AnswersTrue, Answered, Known
  <1>. QED
    BY <1>1, <1>2, <1>3, <1>4, <1>5, <1>6, <1>7 DEF ClientInv

LEMMA StepServeHello ==
  ASSUME ClientInv, ServeHello
  PROVE  ClientInv'
  <1>1. Typed'
    BY ClientAssumption
       DEF ClientInv, ServeHello, Typed, Always, OnWire, OnTable, InSession, LinkTyped,
          ClientTyped, CallTyped, HistoryTyped, Quiet, Idle, Connecting, Here, Tokens, Away,
          Asks, Answers, Refusals, Answered, Live, Stages, Said, Asked, Known, Reply
  <1>2. Always'
    BY DEF ClientInv, ServeHello, Always, Quiet, Idle, Connecting, Here, Tokens, Away, Asked,
       Known, Reply
  <1>3. InVersion'
    BY ClientAssumption, SinceIs, ScenarioIs
       DEF ClientInv, ServeHello, Typed, Always, InVersion, OnWire, LinkTyped, ClientTyped,
          CallTyped, HistoryTyped, Quiet, Idle, Connecting, Here, Tokens, Away, Asks, Answers,
          Refusals, Stages, Said, Asked, Known, Reply
  <1>4. OnWire'
    BY DEF ClientInv, ServeHello, Always, OnWire, Quiet, Idle, Connecting, Here, Tokens, Away,
       Asks, Answers, Refusals, Asked, Known, Reply
  <1>5. OnTable'
    BY ClientAssumption, SinceIs, ScenarioIs
       DEF ClientInv, ServeHello, Typed, Always, OnWire, OnTable, LinkTyped, ClientTyped,
          CallTyped, HistoryTyped, Quiet, Idle, Connecting, Here, Tokens, Away, Asks, Answers,
          Refusals, Answered, Live, Stages, Said, Asked, Known, Reply
  <1>6. InSession'
    BY DEF ClientInv, ServeHello, Always, InSession, Quiet, Idle, Connecting, Here, Tokens,
       Away, Answered, Live, Asked, Known, Reply
  <1>7. Done'
    BY DEF ClientInv, ServeHello, Always, Done, Quiet, Idle, Connecting, Here, Tokens, Away,
       AnswersTrue, Answered, Asked, Known, Reply
  <1>. QED
    BY <1>1, <1>2, <1>3, <1>4, <1>5, <1>6, <1>7 DEF ClientInv

LEMMA StepServeAuthenticate ==
  ASSUME ClientInv, ServeAuthenticate
  PROVE  ClientInv'
  <1>1. Typed'
    <2>1. wire.arg = call.arg /\ call.arg \in Tokens
      BY Requested DEF ServeAuthenticate, Asked, ClientInv, OnWire, Always, Asks, Stages, Connecting
    <2>2. LinkTyped'
      BY <2>1 DEF ServeAuthenticate, ClientInv, Typed, LinkTyped
    <2>. QED
      BY <2>2 DEF ServeAuthenticate, Reply, ClientInv, Typed, ClientTyped, CallTyped, HistoryTyped
  <1>2. Always'
    BY ClientAssumption
       DEF ClientInv, ServeAuthenticate, Typed, Always, LinkTyped, ClientTyped, CallTyped,
          HistoryTyped, Quiet, Idle, Connecting, Here, Tokens, Away, Stages, Said, Refusals,
          Asked, Reply
  <1>3. InVersion'
    BY ClientAssumption
       DEF ClientInv, ServeAuthenticate, Typed, Always, InVersion, LinkTyped, ClientTyped,
          CallTyped, HistoryTyped, Quiet, Idle, Connecting, Here, Tokens, Away, Asks, Stages,
          Said, Refusals, Asked, Reply
  <1>4. OnWire'
    BY DEF ClientInv, ServeAuthenticate, Always, OnWire, Quiet, Idle, Connecting, Here, Tokens,
       Away, Asks, Answers, Refusals, Asked, Reply
  <1>5. OnTable'
    BY SMTT(30), ClientAssumption, SinceIs, ScenarioIs
       DEF ClientInv, ServeAuthenticate, Typed, Always, OnWire, OnTable, LinkTyped, ClientTyped,
          CallTyped, HistoryTyped, Quiet, Idle, Connecting, Here, Tokens, Away, Asks, Answers,
          Refusals, Answered, Live, Stages, Said, Asked, Reply
  <1>6. InSession'
    <2>1. call.stage \in {"token", "authenticate"} /\ wire.arg = call.arg /\ call.arg # None
      BY Requested DEF ServeAuthenticate, Asked, ClientInv, OnWire, Always, Asks, Stages, Connecting
    <2>2. Live /\ ~Answered("schema")'
      BY <2>1 DEF ServeAuthenticate, Asked, Reply, Live, Answered
    <2>3. link'.session = link.session /\ (link.class # None => link'.class # None)
      BY <2>1 DEF ServeAuthenticate, ClientInv, Typed, LinkTyped
    <2>4. UNCHANGED <<client, call, history>>
      BY DEF ServeAuthenticate, Reply
    <2>. QED
      BY <2>1, <2>2, <2>3, <2>4 DEF ClientInv, InSession
  <1>7. Done'
    BY ClientAssumption, SinceIs, ScenarioIs
       DEF ClientInv, ServeAuthenticate, Typed, Always, OnWire, Done, LinkTyped, ClientTyped,
          CallTyped, HistoryTyped, Quiet, Idle, Connecting, Here, Tokens, Away, Asks, Answers,
          Refusals, AnswersTrue, Answered, Stages, Said, Asked, Reply
  <1>. QED
    BY <1>1, <1>2, <1>3, <1>4, <1>5, <1>6, <1>7 DEF ClientInv

LEMMA StepRefuse ==
  ASSUME ClientInv, RefuseRequest
  PROVE  ClientInv'
  <1>1. Typed'
    BY SMTT(30) DEF ClientInv, RefuseRequest, Typed, Always, LinkTyped, ClientTyped, CallTyped, HistoryTyped,
       Quiet, Idle, Connecting, Here, Tokens, Away, Stages, Said, Refusals, Asked, Known, Reply,
       Misread, Refusal
  <1>2. Always'
    <2>1. ~Misread /\ Refusal # "malformed"
      BY Understood DEF RefuseRequest, Asked
    <2>2. history'.strange = FALSE /\ history'.left = history.left /\ history'.did = history.did
          /\ wire'.at = "reply" /\ UNCHANGED <<client, call, link>>
      BY <2>1 DEF RefuseRequest, Reply, ClientInv, Typed, HistoryTyped, Always
    <2>. QED
      BY <2>2, Requested DEF RefuseRequest, Asked, ClientInv, Always, Connecting, Away, Here, Stages
  <1>3. InVersion'
    BY DEF ClientInv, RefuseRequest, Always, InVersion, Quiet, Idle, Connecting, Here, Tokens, Away,
       Asks, Asked, Known, Reply, Misread, Refusal
  <1>4. OnWire'
    <2>1. call.stage \in Stages /\ wire.kind = Asks(call.stage) /\ wire.kind # "hello" /\ wire.kind # "authenticate"
      BY Requested DEF RefuseRequest, Asked
    <2>2. Refusal \in Refusals /\ (Refusal = "duplicate" => wire.kind = "insert")
      BY DEF RefuseRequest, Refusal, Refusals
    <2>3. Refusal = "duplicate" => call.stage = "insert"
      BY <2>2, Requested DEF RefuseRequest, Asked
    <2>4. "err" \in Answers(call.stage)
      <3>1. CASE call.stage \in {"use_schema", "of_schema", "use_relations", "of_back", "rollback"}
        <4>1. Live /\ client.up
          BY <3>1 DEF Live, RefuseRequest, Asked, ClientInv, Always, Connecting
        <4>2. link.class # None /\ (call.stage # "rollback" => link.session = None)
          BY <3>1, <4>1 DEF ClientInv, InSession
        <4>3. call.stage = "rollback" => link.session # None
          BY <3>1, <4>1, ClientAssumption
             DEF RefuseRequest, Asked, ClientInv, InSession, Typed, HistoryTyped, Answered
        <4>4. Refusal # "malformed"
          BY <2>1, Understood DEF RefuseRequest, Asked
        <4>. QED
          BY <2>1, <3>1, <4>2, <4>3, <4>4, SinceIs DEF RefuseRequest, Refusal, Asks
      <3>2. CASE call.stage = "hello"
        BY <2>1, <3>2 DEF Asks
      <3>. QED
        BY <2>1, <3>1, <3>2 DEF Answers, Asks
    <2>. QED
      BY <2>1, <2>2, <2>3, <2>4 DEF RefuseRequest, Reply, OnWire, Asks, Stages, Connecting
  <1>5. OnTable'
    BY ClientAssumption, SinceIs, ScenarioIs
       DEF ClientInv, RefuseRequest, Typed, Always, InVersion, OnWire, OnTable, InSession, Done,
          LinkTyped, ClientTyped, CallTyped, HistoryTyped, Quiet, Idle, Connecting, Here,
          Tokens, Away, Asks, Answers, Refusals, Answered, Live, AnswersTrue, Stages, Said,
          Asked, Known, Reply, Misread, Refusal
  <1>6. InSession'
    BY DEF ClientInv, RefuseRequest, Always, InSession, Quiet, Idle, Connecting, Here, Tokens, Away,
       Answered, Live, Asked, Known, Reply, Misread, Refusal
  <1>7. Done'
    BY DEF ClientInv, RefuseRequest, Always, Done, Quiet, Idle, Connecting, Here, Tokens, Away,
       AnswersTrue, Answered, Asked, Known, Reply, Misread, Refusal
  <1>. QED
    BY <1>1, <1>2, <1>3, <1>4, <1>5, <1>6, <1>7 DEF ClientInv

LEMMA StepServeRead ==
  ASSUME ClientInv, ServeRead
  PROVE  ClientInv'
  <1>1. Typed'
    BY ClientAssumption
       DEF ClientInv, ServeRead, Typed, Always, OnWire, OnTable, InSession, LinkTyped,
          ClientTyped, CallTyped, HistoryTyped, Quiet, Idle, Connecting, Here, Tokens, Away,
          Asks, Answers, Refusals, Answered, Live, Stages, Said, Reply, Serves, DoesNothing,
          Asked, Known, Refusal, Misread
  <1>2. Always'
    BY ClientAssumption
       DEF ClientInv, ServeRead, Typed, Always, OnWire, OnTable, InSession, LinkTyped,
          ClientTyped, CallTyped, HistoryTyped, Quiet, Idle, Connecting, Here, Tokens, Away,
          Asks, Answers, Refusals, Answered, Live, Stages, Said, Reply, Serves, DoesNothing,
          Asked, Known, Refusal, Misread
  <1>3. InVersion'
    BY ClientAssumption
       DEF ClientInv, ServeRead, Typed, Always, InVersion, LinkTyped, ClientTyped, CallTyped,
          HistoryTyped, Quiet, Idle, Connecting, Here, Tokens, Away, Asks, Stages, Said,
          Refusals, Reply, Serves, DoesNothing, Asked, Known, Refusal, Misread
  <1>4. OnWire'
    BY ClientAssumption
       DEF ClientInv, ServeRead, Typed, Always, OnWire, LinkTyped, ClientTyped, CallTyped,
          HistoryTyped, Quiet, Idle, Connecting, Here, Tokens, Away, Asks, Answers, Refusals,
          Stages, Said, Reply, Serves, DoesNothing, Asked, Known, Refusal, Misread
  <1>5. OnTable'
    BY ClientAssumption, SinceIs, ScenarioIs
       DEF ClientInv, ServeRead, Typed, Always, OnWire, OnTable, LinkTyped, ClientTyped,
          CallTyped, HistoryTyped, Quiet, Idle, Connecting, Here, Tokens, Away, Asks, Answers,
          Refusals, Answered, Live, Stages, Said, Reply, Serves, DoesNothing, Asked, Known,
          Refusal, Misread
  <1>6. InSession'
    <2>1. link' = [link EXCEPT !.table = link'.table] /\ UNCHANGED <<client, call, history.left, history.told>>
      BY DEF ServeRead, DoesNothing, Reply, ClientInv, Typed, LinkTyped, HistoryTyped
    <2>2. call.stage \in Stages /\ wire.kind = Asks(call.stage) /\ wire'.kind # "failed" /\ Live
      BY Requested DEF ServeRead, Serves, Asked, Reply, Live, Stages, Connecting
    <2>3. call.stage \notin {"stage", "begin", "commit", "rollback"}
      BY <2>2 DEF ServeRead, Serves, Asked, Asks
    <2>4. wire.kind = "use" => link.session = None
      BY DEF ServeRead, Serves, Asked, Refusal
    <2>5. link.class # None
      BY DEF ServeRead, Serves, Refusal
    <2>6. call.stage \in {"use", "of_use", "of_back"} => wire.kind = "use"
      BY <2>2 DEF Asks
    <2>. QED
      BY <2>1, <2>2, <2>3, <2>4, <2>5, <2>6
         DEF ClientInv, Typed, LinkTyped, InSession, Live, Answered, ServeRead, Serves, Asked
  <1>7. Done'
    BY ClientAssumption, SinceIs, ScenarioIs
       DEF ClientInv, ServeRead, Typed, Always, OnWire, Done, LinkTyped, ClientTyped, CallTyped,
          HistoryTyped, Quiet, Idle, Connecting, Here, Tokens, Away, Asks, Answers, Refusals,
          AnswersTrue, Answered, Stages, Said, Reply, Serves, DoesNothing, Asked, Known,
          Refusal, Misread
  <1>. QED
    BY <1>1, <1>2, <1>3, <1>4, <1>5, <1>6, <1>7 DEF ClientInv

LEMMA StepServeWrite ==
  ASSUME ClientInv, ServeWrite
  PROVE  ClientInv'
  <1>1. PICK r : r = [kind |-> wire.kind, table |-> link.table, n |-> 1]
    OBVIOUS
  <1>2. history.did = <<>> /\ link.open /\ wire.at = "request" /\ wire.kind \in {"update", "insert", "replace"} /\ wire.kind = call.stage
    BY Requested DEF ServeWrite, Serves, Asked, ClientInv, InSession
  <1>3. (history.strange \/ Misread) = FALSE
    BY <1>2, Understood DEF ClientInv, Always
  <1>4. Append(history.did, r) = <<r>>
    BY <1>2, First
  <1>5. Live /\ client.up /\ ~client.handle
    BY <1>2 DEF Live, ClientInv, Always, Connecting
  <1>6. wire.kind # "commit" /\ (history.left <=> link.session # None) /\ link.class # None
    BY <1>2, <1>5 DEF ClientInv, InSession, Answered
  <1>7. InVersion'
    BY DEF ClientInv, ServeWrite, Always, InVersion, Quiet, Idle, Connecting, Here, Tokens,
       Away, Asks, Reply, Serves, Does, DoesNothing, Asked, Known, Refusal, Misread
  <1>8. OnWire'
    BY ClientAssumption
       DEF ClientInv, ServeWrite, Typed, Always, OnWire, OnTable, InSession, LinkTyped,
          ClientTyped, CallTyped, HistoryTyped, Quiet, Idle, Connecting, Here, Tokens, Away,
          Asks, Answers, Refusals, Answered, Live, Stages, Said, Reply, Serves, Does,
          DoesNothing, Asked, Known, Refusal, Misread
  <1>9. OnTable'
    BY ClientAssumption, SinceIs, ScenarioIs
       DEF ClientInv, ServeWrite, Typed, Always, OnWire, OnTable, LinkTyped, ClientTyped,
          CallTyped, HistoryTyped, Quiet, Idle, Connecting, Here, Tokens, Away, Asks, Answers,
          Refusals, Answered, Live, Stages, Said, Reply, Serves, Does, DoesNothing, Asked,
          Known, Refusal, Misread
  <1>10. CASE wire.kind = "insert" \/ link.table \in stored
    <2>1. /\ history' = [history EXCEPT !.did = <<r>>] /\ wire' = [at |-> "reply", kind |-> "ok", arg |-> None]
          /\ link' = link /\ stored' = stored \cup {link.table} /\ UNCHANGED <<scenario, client, call, connects>>
      BY <1>1, <1>2, <1>3, <1>4, <1>10, Unstrange DEF ServeWrite, Does, DoesNothing, Reply
    <2>2. Typed'
      BY <2>1, ClientAssumption DEF ClientInv, Typed, LinkTyped, ClientTyped, CallTyped, HistoryTyped
    <2>3. Always'
      BY <1>2, <2>1 DEF ClientInv, Always, Typed, HistoryTyped, LinkTyped, Connecting, Away, Here
    <2>4. InSession'
      BY <1>2, <1>5, <1>6, <2>1 DEF ClientInv, Typed, LinkTyped, HistoryTyped, InSession, Answered
    <2>5. Done'
      BY <1>1, <1>2, <1>5, <1>6, <2>1
         DEF ClientInv, Typed, LinkTyped, HistoryTyped, Done, AnswersTrue, Answered, Idle
    <2>. QED
      BY <1>7, <1>8, <1>9, <2>2, <2>3, <2>4, <2>5 DEF ClientInv
  <1>11. CASE ~(wire.kind = "insert" \/ link.table \in stored)
    <2>1. /\ history' = history /\ wire' = [at |-> "reply", kind |-> "not_found", arg |-> None]
          /\ link' = link /\ stored' = stored /\ UNCHANGED <<scenario, client, call, connects>>
      BY <1>1, <1>2, <1>3, <1>4, <1>11, Unstrange DEF ServeWrite, Does, DoesNothing, Reply
    <2>2. Typed'
      BY <2>1, ClientAssumption DEF ClientInv, Typed, LinkTyped, ClientTyped, CallTyped, HistoryTyped
    <2>3. Always'
      BY <1>2, <2>1 DEF ClientInv, Always, Typed, HistoryTyped, LinkTyped, Connecting, Away, Here
    <2>4. InSession'
      BY <1>2, <1>5, <1>6, <2>1 DEF ClientInv, Typed, LinkTyped, HistoryTyped, InSession, Answered
    <2>5. Done'
      BY <1>1, <1>2, <1>5, <1>6, <2>1
         DEF ClientInv, Typed, LinkTyped, HistoryTyped, Done, AnswersTrue, Answered, Idle
    <2>. QED
      BY <1>7, <1>8, <1>9, <2>2, <2>3, <2>4, <2>5 DEF ClientInv
  <1>. QED
    BY <1>10, <1>11

LEMMA StepServeBegin ==
  ASSUME ClientInv, ServeBegin
  PROVE  ClientInv'
  <1>1. Typed'
    BY DEF ClientInv, ServeBegin, Typed, Always, LinkTyped, ClientTyped, CallTyped,
       HistoryTyped, Quiet, Idle, Connecting, Here, Tokens, Away, Stages, Said, Refusals, Reply,
       Serves, Asked, Known, Refusal
  <1>2. Always'
    BY DEF ClientInv, ServeBegin, Always, Quiet, Idle, Connecting, Here, Tokens, Away, Reply,
       Serves, Asked, Known, Refusal
  <1>3. InVersion'
    BY DEF ClientInv, ServeBegin, Always, InVersion, Quiet, Idle, Connecting, Here, Tokens,
       Away, Asks, Reply, Serves, Asked, Known, Refusal
  <1>4. OnWire'
    BY DEF ClientInv, ServeBegin, Always, OnWire, Quiet, Idle, Connecting, Here, Tokens, Away,
       Asks, Answers, Refusals, Reply, Serves, Asked, Known, Refusal
  <1>5. OnTable'
    BY ClientAssumption, SinceIs, ScenarioIs
       DEF ClientInv, ServeBegin, Typed, Always, OnWire, OnTable, LinkTyped, ClientTyped,
          CallTyped, HistoryTyped, Quiet, Idle, Connecting, Here, Tokens, Away, Asks, Answers,
          Refusals, Answered, Live, Stages, Said, Reply, Serves, Asked, Known, Refusal
  <1>6. InSession'
    BY ClientAssumption, SinceIs, ScenarioIs
       DEF ClientInv, ServeBegin, Typed, Always, OnWire, InSession, LinkTyped, ClientTyped,
          CallTyped, HistoryTyped, Quiet, Idle, Connecting, Here, Tokens, Away, Asks, Answers,
          Refusals, Answered, Live, Stages, Said, Reply, Serves, Asked, Known, Refusal
  <1>7. Done'
    <2>1. link.open /\ link'.open /\ call' = call /\ history' = history
      BY DEF ServeBegin, Serves, Asked, Reply, ClientInv, Typed, LinkTyped
    <2>2. call.stage \notin {"idle", "update", "insert", "replace", "commit"}
      BY <2>1 DEF ServeBegin, Serves, Asked, ClientInv, OnWire, Always, Quiet, Asks
    <2>3. history.did = <<>>
      BY <2>1, <2>2 DEF ClientInv, Done
    <2>4. AnswersTrue'
      BY <2>1, <2>2 DEF AnswersTrue, Idle
    <2>. QED
      BY <2>1, <2>2, <2>3, <2>4 DEF Done
  <1>. QED
    BY <1>1, <1>2, <1>3, <1>4, <1>5, <1>6, <1>7 DEF ClientInv

LEMMA StepServeStage ==
  ASSUME ClientInv, ServeStage
  PROVE  ClientInv'
  <1>1. Typed'
    BY DEF ClientInv, ServeStage, Typed, Always, LinkTyped, ClientTyped, CallTyped,
       HistoryTyped, Quiet, Idle, Connecting, Here, Tokens, Away, Stages, Said, Refusals, Reply,
       Serves, DoesNothing, Asked, Known, Refusal, Misread
  <1>2. Always'
    BY ClientAssumption
       DEF ClientInv, ServeStage, Typed, Always, OnWire, OnTable, InSession, LinkTyped,
          ClientTyped, CallTyped, HistoryTyped, Quiet, Idle, Connecting, Here, Tokens, Away,
          Asks, Answers, Refusals, Answered, Live, Stages, Said, Reply, Serves, DoesNothing,
          Asked, Known, Refusal, Misread
  <1>3. InVersion'
    BY DEF ClientInv, ServeStage, Always, InVersion, Quiet, Idle, Connecting, Here, Tokens,
       Away, Asks, Reply, Serves, DoesNothing, Asked, Known, Refusal, Misread
  <1>4. OnWire'
    BY DEF ClientInv, ServeStage, Always, OnWire, Quiet, Idle, Connecting, Here, Tokens, Away,
       Asks, Answers, Refusals, Reply, Serves, DoesNothing, Asked, Known, Refusal, Misread
  <1>5. OnTable'
    BY ClientAssumption, SinceIs, ScenarioIs
       DEF ClientInv, ServeStage, Typed, Always, OnWire, OnTable, LinkTyped, ClientTyped,
          CallTyped, HistoryTyped, Quiet, Idle, Connecting, Here, Tokens, Away, Asks, Answers,
          Refusals, Answered, Live, Stages, Said, Reply, Serves, DoesNothing, Asked, Known,
          Refusal, Misread
  <1>6. InSession'
    <2>1. PICK n \in Nat : n = link.session
      BY DEF ServeStage, ClientInv, Typed, LinkTyped
    <2>2. link'.session = n + 1 /\ link'.class = link.class
      BY <2>1 DEF ServeStage, ClientInv, Typed, LinkTyped
    <2>3. /\ Answered("staged")' /\ ~Answered("ok")' /\ ~Answered("failed")' /\ ~Answered("schema")'
          /\ UNCHANGED <<client, call, history.left, history.told>> /\ Live
      BY DEF ServeStage, Serves, Asked, DoesNothing, Reply, Answered, Live, ClientInv, Typed, HistoryTyped,
             Always, Quiet
    <2>4. call.stage = IF history.left THEN "update" ELSE "stage"
      BY Requested DEF ServeStage, Serves, Asked
    <2>5. n + 1 # None
      BY ClientAssumption
    <2>6. CASE history.left
      BY <2>2, <2>3, <2>4, <2>5, <2>6 DEF ClientInv, InSession
    <2>7. CASE ~history.left
      <3>1. client.handle /\ n = history.told
        BY <2>1, <2>3, <2>4, <2>7
           DEF ClientInv, Always, InSession, Answered, ServeStage, Serves, Asked
      <3>. QED
        BY <2>2, <2>3, <2>4, <2>7, <3>1 DEF ClientInv, InSession
    <2>. QED
      BY <2>6, <2>7
  <1>7. Done'
    BY DEF ClientInv, ServeStage, Always, Done, Quiet, Idle, Connecting, Here, Tokens, Away,
       AnswersTrue, Answered, Reply, Serves, DoesNothing, Asked, Known, Refusal, Misread
  <1>. QED
    BY <1>1, <1>2, <1>3, <1>4, <1>5, <1>6, <1>7 DEF ClientInv

LEMMA StepServeCommit ==
  ASSUME ClientInv, ServeCommit
  PROVE  ClientInv'
  <1>1. PICK r : r = [kind |-> "commit", table |-> link.table, n |-> link.session]
    OBVIOUS
  <1>2. history.did = <<>> /\ link.open /\ wire.at = "request" /\ wire.kind \in {"commit"} /\ wire.kind = call.stage
    BY Requested DEF ServeCommit, Serves, Asked, ClientInv, InSession
  <1>3. (history.strange \/ Misread) = FALSE
    BY <1>2, Understood DEF ClientInv, Always
  <1>4. Append(history.did, r) = <<r>>
    BY <1>2, First
  <1>5. Live /\ client.up /\ ~client.handle
    BY <1>2 DEF Live, ClientInv, Always, Connecting
  <1>6. ~history.left /\ link.session = history.told
    BY <1>2, <1>5 DEF ClientInv, InSession, Answered
  <1>7. InVersion'
    BY DEF ClientInv, ServeCommit, Always, InVersion, Quiet, Idle, Connecting, Here, Tokens,
       Away, Asks, Reply, Serves, Does, DoesNothing, Asked, Known, Refusal, Misread
  <1>8. OnWire'
    BY DEF ClientInv, ServeCommit, Always, OnWire, Quiet, Idle, Connecting, Here, Tokens, Away,
       Asks, Answers, Refusals, Reply, Serves, Does, DoesNothing, Asked, Known, Refusal, Misread
  <1>9. OnTable'
    BY <1>2, <1>5 DEF ServeCommit, Reply, ClientInv, Typed, LinkTyped, OnTable, Live, Answered, Here
  <1>10. CASE link.session = 0 \/ link.table \in stored
    <2>1. /\ history' = [history EXCEPT !.did = <<r>>] /\ wire' = [at |-> "reply", kind |-> "ok", arg |-> None]
          /\ link' = [link EXCEPT !.session = None] /\ stored' = stored /\ UNCHANGED <<scenario, client, call, connects>>
      BY <1>1, <1>2, <1>3, <1>4, <1>10, Unstrange DEF ServeCommit, Does, DoesNothing, Reply
    <2>2. Typed'
      BY <2>1, ClientAssumption DEF ClientInv, Typed, LinkTyped, ClientTyped, CallTyped, HistoryTyped
    <2>3. Always'
      BY <1>2, <2>1 DEF ClientInv, Always, Typed, HistoryTyped, LinkTyped, Connecting, Away, Here
    <2>4. InSession'
      BY <1>2, <1>5, <1>6, <2>1 DEF ClientInv, Typed, LinkTyped, HistoryTyped, InSession, Answered
    <2>5. Done'
      BY <1>1, <1>2, <1>5, <1>6, <2>1
         DEF ClientInv, Typed, LinkTyped, HistoryTyped, Done, AnswersTrue, Answered, Idle
    <2>. QED
      BY <1>7, <1>8, <1>9, <2>2, <2>3, <2>4, <2>5 DEF ClientInv
  <1>11. CASE ~(link.session = 0 \/ link.table \in stored)
    <2>1. /\ history' = history /\ wire' = [at |-> "reply", kind |-> "failed", arg |-> 0]
          /\ link' = [link EXCEPT !.session = None] /\ stored' = stored /\ UNCHANGED <<scenario, client, call, connects>>
      BY <1>1, <1>2, <1>3, <1>4, <1>11, Unstrange DEF ServeCommit, Does, DoesNothing, Reply
    <2>2. Typed'
      BY <2>1, ClientAssumption DEF ClientInv, Typed, LinkTyped, ClientTyped, CallTyped, HistoryTyped
    <2>3. Always'
      BY <1>2, <2>1 DEF ClientInv, Always, Typed, HistoryTyped, LinkTyped, Connecting, Away, Here
    <2>4. InSession'
      BY <1>2, <1>5, <1>6, <2>1 DEF ClientInv, Typed, LinkTyped, HistoryTyped, InSession, Answered
    <2>5. Done'
      BY <1>1, <1>2, <1>5, <1>6, <2>1
         DEF ClientInv, Typed, LinkTyped, HistoryTyped, Done, AnswersTrue, Answered, Idle
    <2>. QED
      BY <1>7, <1>8, <1>9, <2>2, <2>3, <2>4, <2>5 DEF ClientInv
  <1>. QED
    BY <1>10, <1>11

LEMMA StepCut ==
  ASSUME ClientInv, Cut
  PROVE  ClientInv'
  <1>1. Typed'
    <2>1. LinkTyped'
      BY DEF Cut, ClientInv, Typed, LinkTyped
    <2>. QED
      BY <2>1 DEF Cut, Quiet, ClientInv, Typed, ClientTyped, CallTyped, HistoryTyped
  <1>2. Always'
    BY DEF ClientInv, Cut, Always, Quiet, Idle, Connecting, Here, Tokens, Away
  <1>3. InVersion'
    BY DEF ClientInv, Cut, Always, InVersion, Quiet, Idle, Connecting, Here, Tokens, Away, Asks
  <1>4. OnWire'
    BY DEF ClientInv, Cut, Always, OnWire, Quiet, Idle, Connecting, Here, Tokens, Away, Asks,
       Answers, Refusals
  <1>5. OnTable'
    BY DEF ClientInv, Cut, Always, OnTable, Quiet, Idle, Connecting, Here, Tokens, Away,
       Answered, Live
  <1>6. InSession'
    BY DEF ClientInv, Cut, Always, InSession, Quiet, Idle, Connecting, Here, Tokens, Away,
       Answered, Live
  <1>7. Done'
    BY DEF ClientInv, Cut, Always, Done, Quiet, Idle, Connecting, Here, Tokens, Away,
       AnswersTrue, Answered
  <1>. QED
    BY <1>1, <1>2, <1>3, <1>4, <1>5, <1>6, <1>7 DEF ClientInv

LEMMA StepOtherWrites ==
  ASSUME ClientInv, NEW t \in Tables, OtherWrites(t)
  PROVE  ClientInv'
  <1>1. Typed'
    BY DEF ClientInv, OtherWrites, Typed, Always, LinkTyped, ClientTyped, CallTyped,
       HistoryTyped, Quiet, Idle, Connecting, Here, Tokens, Away, Stages, Said, Refusals
  <1>2. Always'
    BY DEF ClientInv, OtherWrites, Always, Quiet, Idle, Connecting, Here, Tokens, Away
  <1>3. InVersion'
    BY DEF ClientInv, OtherWrites, Always, InVersion, Quiet, Idle, Connecting, Here, Tokens,
       Away, Asks
  <1>4. OnWire'
    BY DEF ClientInv, OtherWrites, Always, OnWire, Quiet, Idle, Connecting, Here, Tokens, Away,
       Asks, Answers, Refusals
  <1>5. OnTable'
    BY DEF ClientInv, OtherWrites, Always, OnTable, Quiet, Idle, Connecting, Here, Tokens, Away,
       Answered, Live
  <1>6. InSession'
    BY DEF ClientInv, OtherWrites, Always, InSession, Quiet, Idle, Connecting, Here, Tokens,
       Away, Answered, Live
  <1>7. Done'
    BY DEF ClientInv, OtherWrites, Always, Done, Quiet, Idle, Connecting, Here, Tokens, Away,
       AnswersTrue, Answered
  <1>. QED
    BY <1>1, <1>2, <1>3, <1>4, <1>5, <1>6, <1>7 DEF ClientInv


LEMMA StepInv ==
  ASSUME ClientInv, [ClientNext]_clientVars
  PROVE  ClientInv'
  <1>1. CASE Calls
    BY <1>1, StepAuthenticate, StepUseTable, StepJoin, StepUpdate, StepUpsert, StepBegin,
       StepStage, StepCommit, StepRollback, StepClose DEF Calls
  <1>2. CASE Replies
    BY <1>2, StepHelloAnswered, StepTokenAccepted, StepDescribed, StepRelationsListed,
       StepAuthenticated, StepUseAnswered, StepUseDescribed, StepUseListed, StepOfTables,
       StepOfUse, StepOfSchema, StepOfBack, StepJoined, StepUpdated, StepInserted,
       StepDuplicate, StepReplaced, StepBegun, StepStaged, StepCommitted, StepRolledBack,
       StepRefused DEF Replies
  <1>3. CASE Server
    BY <1>3, StepUndecoded, StepServeHello, StepServeAuthenticate, StepRefuse, StepServeRead,
       StepServeWrite, StepServeBegin, StepServeStage, StepServeCommit DEF Server
  <1>4. CASE \E v \in scenario.servers : FallBack(v) \/ \E bearer \in scenario.tokens : Connect(bearer, v)
    BY <1>4, StepFallBack, StepConnect
  <1>5. CASE Broken \/ Cut
    BY <1>5, StepBroken, StepCut
  <1>6. CASE \E t \in Tables : OtherWrites(t)
    BY <1>6, StepOtherWrites
  <1>7. CASE UNCHANGED clientVars
    BY <1>7 DEF clientVars, ClientInv, Typed, LinkTyped, ClientTyped, CallTyped, HistoryTyped, Always, InVersion,
                OnWire, OnTable, InSession, Done, AnswersTrue, Live, Answered, Here
  <1>. QED
    BY <1>1, <1>2, <1>3, <1>4, <1>5, <1>6, <1>7 DEF ClientNext

-------------------------------------------------------------------------------
\* Every state of the client, its connection and the server's side of it is one of those
\* the stages allow, whatever the servers' versions, the tokens, the cuts and the other writers.
THEOREM ClientInvariant == ClientSpec => []ClientInv
  <1>1. ClientInv /\ [ClientNext]_clientVars => ClientInv'
    BY StepInv
  <1>. QED
    BY <1>1, InitInv, PTL DEF ClientSpec

\* Between two calls the client and its connection agree on the version, the table, the
\* schema and relations it holds, and the session; no frame was ever in another's version
\* or tags (connect_with, use_table, schema_of, Session).
THEOREM StaysInStep == ClientSpec => []InStep
  <1>1. ClientInv => InStep
    <2> SUFFICES ASSUME ClientInv PROVE InStep
      OBVIOUS
    <2>1. ~history.strange /\ \A p \in client.schemas : p[1] = p[2]
      BY DEF ClientInv, Always
    <2>2. ASSUME client.up, link.open, call = Idle
          PROVE  /\ client.version = link.negotiated /\ Here = link.table /\ client.schema = link.table
                 /\ client.relations = IF client.version >= 12 THEN link.table ELSE None
                 /\ history.left \/ link.session = IF client.handle THEN history.told ELSE None
      <3>1. Live /\ call.stage = "idle" /\ wire = Quiet
        BY <2>2 DEF Live, Idle, ClientInv, Always
      <3>2. client.version = link.negotiated /\ Here = link.table /\ client.schema = link.table
        BY <2>2, <3>1 DEF ClientInv, InVersion, OnTable, Away, Answered, Quiet
      <3>3. client.relations = IF client.version >= 12 THEN link.table ELSE None
        BY <2>2, <3>1, <3>2, SinceIs, ClientAssumption
           DEF ClientInv, Typed, ClientTyped, InVersion
      <3>4. history.left \/ link.session = IF client.handle THEN history.told ELSE None
        BY <2>2, <3>1 DEF ClientInv, InSession, Answered, Quiet
      <3>. QED
        BY <3>2, <3>3, <3>4
    <2>. QED
      BY <2>1, <2>2 DEF InStep
  <1>. QED
    BY <1>1, ClientInvariant, PTL

\* What a call answered is what the server did for it (upsert, update, commit and the reads).
THEOREM AnswersAreTrue == ClientSpec => []AnswersTrue
  <1>1. ClientInv => AnswersTrue
    BY DEF ClientInv, Done
  <1>. QED
    BY <1>1, ClientInvariant, PTL
===============================================================================
