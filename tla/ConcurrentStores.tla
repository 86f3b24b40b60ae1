--------------------------- MODULE ConcurrentStores ---------------------------
(***************************************************************************)
(* The four stores of src/concurrency that threads may share: one RwLock     *)
(* around CanonicalCachedStore, a lock for each of several shards, a DashMap, *)
(* and a thread that owns the store and is sent requests.                    *)
(*                                                                          *)
(* What a lock covers is one step where it covers one access to the data; the *)
(* RwLock of the cached store covers two, and is kept.  Locks are never      *)
(* poisoned, since nothing panics under them.                                *)
(***************************************************************************)
EXTENDS Naturals, Sequences

CONSTANTS
  Threads, Dogs, Known, AgeRange, None,  \* AgeMap's; its Ages is AgeRange
  Shards   \* how many

ASSUME StoresAssumption ==
  /\ Known \subseteq Dogs /\ Known # {} /\ Shards \in Nat \ {0}
  /\ None \notin Threads /\ None \notin BOOLEAN /\ \A found \in SUBSET AgeRange : found # None

VARIABLES
  variant, \* fixed from the start
  part,    \* the shard of each dog, fixed from the start
  records, \* the canonical maps, all shards
  cache,   \* the packed ages, by the dog each belongs to
  lock,    \* the one RwLock: its writer, or None, and its readers
  queue,   \* the requests sent to the actor, each with its thread
  call     \* what each thread has asked, and what it holds of the answer

storesVars == <<variant, part, records, cache, lock, queue, call>>

Idle     == [op |-> "idle"]
Requests == [op : {"get"}, id : Dogs] \cup [op : {"update"}, id : Dogs, age : AgeRange] \cup [op : {"scan"}]

\* shard_index routes by the id, DashMap by a hash of its own.
StoresInit ==
  /\ variant \in {"global_rwlock", "sharded", "dashmap", "actor"}
  /\ part \in [Known -> 1 .. Shards]
  /\ records \in [Known -> AgeRange] /\ cache = records
  /\ lock = [writer |-> None, readers |-> {}] /\ queue = <<>>
  /\ call = [t \in Threads |-> Idle]

At(t, op, at) == call[t] # Idle /\ call[t].req.op = op /\ call[t].at = at
Step(t, at, answer) == call' = [call EXCEPT ![t].at = at, ![t].answer = answer]
Found(x) == {records[y] : y \in Known \cap {x}}
Fixed == UNCHANGED <<variant, part>>

Call(t) ==
  /\ call[t] = Idle
  /\ \E r \in Requests :
       call' = [call EXCEPT ![t] = [req |-> r, answer |-> IF r.op = "scan" THEN <<>> ELSE None,
                                    at |-> "called", shard |-> 1]]
  /\ UNCHANGED <<records, cache, lock, queue>> /\ Fixed

Return(t) ==
  /\ call[t] # Idle /\ call[t].at = "done"
  /\ call' = [call EXCEPT ![t] = Idle]
  /\ lock' = [writer |-> IF lock.writer = t THEN None ELSE lock.writer, readers |-> lock.readers \ {t}]
  /\ UNCHANGED <<records, cache, queue>> /\ Fixed

------------------------------------------------------------------------------
(* GlobalRwLockStore                                                       *)

ReadLock(t) ==
  /\ variant = "global_rwlock" /\ (At(t, "get", "called") \/ At(t, "scan", "called"))
  /\ lock.writer = None /\ lock' = [lock EXCEPT !.readers = @ \cup {t}]
  /\ Step(t, "held", call[t].answer)
  /\ UNCHANGED <<records, cache, queue>> /\ Fixed

WriteLock(t) ==
  /\ variant = "global_rwlock" /\ At(t, "update", "called")
  /\ lock = [writer |-> None, readers |-> {}] /\ lock' = [lock EXCEPT !.writer = t]
  /\ Step(t, "held", None)
  /\ UNCHANGED <<records, cache, queue>> /\ Fixed

GetHeld(t) ==
  /\ At(t, "get", "held") /\ Step(t, "done", Found(call[t].req.id))
  /\ UNCHANGED <<records, cache, lock, queue>> /\ Fixed

ScanHeld(t) ==
  /\ At(t, "scan", "held") /\ Step(t, "done", cache)
  /\ UNCHANGED <<records, cache, lock, queue>> /\ Fixed

\* update_age of the cached store: the record first.
UpdateHeld(t) ==
  /\ At(t, "update", "held")
  /\ LET x == call[t].req.id IN
     IF x \in Known
     THEN Step(t, "cache", TRUE) /\ records' = [records EXCEPT ![x] = call[t].req.age]
     ELSE Step(t, "done", FALSE) /\ UNCHANGED records
  /\ UNCHANGED <<cache, lock, queue>> /\ Fixed

\* Mutation: the cache is left for the next scan to rebuild.
WriteThroughLater(t) ==
  /\ At(t, "update", "cache") /\ Step(t, "done", TRUE)
  /\ UNCHANGED <<records, cache, lock, queue>> /\ Fixed

\* Then the cache, at the record's position.
WriteThrough(t) ==
  /\ At(t, "update", "cache") /\ Step(t, "done", TRUE)
  /\ cache' = [cache EXCEPT ![call[t].req.id] = call[t].req.age]
  /\ UNCHANGED <<records, lock, queue>> /\ Fixed

------------------------------------------------------------------------------
(* ShardedStore and DashMapStore                                           *)

Split == variant \in {"sharded", "dashmap"}

GetInShard(t) ==
  /\ Split /\ At(t, "get", "called") /\ Step(t, "done", Found(call[t].req.id))
  /\ UNCHANGED <<records, cache, lock, queue>> /\ Fixed

UpdateInShard(t) ==
  /\ Split /\ At(t, "update", "called")
  /\ LET x == call[t].req.id IN
     /\ Step(t, "done", x \in Known)
     /\ records' = IF x \in Known THEN [records EXCEPT ![x] = call[t].req.age] ELSE records
  /\ UNCHANGED <<cache, lock, queue>> /\ Fixed

\* One shard after the other, each under its own lock.
ScanShard(t) ==
  /\ Split /\ At(t, "scan", "called")
  /\ LET k    == call[t].shard
         here == {x \in Known : part[x] = k}
         seen == call[t].answer
     IN call' = [call EXCEPT ![t].answer = [x \in DOMAIN seen \cup here |->
                                              IF x \in here THEN records[x] ELSE seen[x]],
                             ![t].shard = k + 1, ![t].at = IF k = Shards THEN "done" ELSE @]
  /\ UNCHANGED <<records, cache, lock, queue>> /\ Fixed

------------------------------------------------------------------------------
(* ActorStore                                                              *)

Send(t) ==
  /\ variant = "actor" /\ call[t] # Idle /\ call[t].at = "called"
  /\ queue' = Append(queue, t) /\ Step(t, "sent", call[t].answer)
  /\ UNCHANGED <<records, cache, lock>> /\ Fixed

\* The worker takes one request, serves it and answers on the caller's own channel.
Serve ==
  /\ queue # <<>> /\ queue' = Tail(queue)
  /\ LET t == Head(queue)
         r == call[t].req
     IN
     CASE r.op = "get"  -> Step(t, "done", Found(r.id)) /\ UNCHANGED <<records, cache>>
       [] r.op = "scan" -> Step(t, "done", cache) /\ UNCHANGED <<records, cache>>
       [] OTHER -> /\ Step(t, "done", r.id \in Known)
                   /\ records' = [x \in Known |-> IF x = r.id THEN r.age ELSE records[x]]
                   /\ cache' = [x \in Known |-> IF x = r.id THEN r.age ELSE cache[x]]
  /\ UNCHANGED lock /\ Fixed

------------------------------------------------------------------------------
StoresNext ==
  \/ \E t \in Threads :
       \/ Call(t) \/ Return(t)
       \/ ReadLock(t) \/ WriteLock(t) \/ GetHeld(t) \/ ScanHeld(t) \/ UpdateHeld(t) \/ WriteThrough(t)
       \/ GetInShard(t) \/ UpdateInShard(t) \/ ScanShard(t)
       \/ Send(t)
  \/ Serve

StoresSpec == StoresInit /\ [][StoresNext]_storesVars

------------------------------------------------------------------------------
(* Properties                                                              *)

\* Each variant is an AgeMap: gets and updates of any threads happen one after the
\* other, in an order that keeps that of calls which do not overlap, so none is lost
\* or seen half; scans are of one instant behind the RwLock and in the actor, and
\* never of a cache behind its records; over shards they meet each dog once.
AgeMapOfStores ==
  INSTANCE AgeMap WITH
    Ages  <- AgeRange,
    ages  <- records,
    whole <- ~Split,
    call  <- [t \in Threads |-> IF call[t] = Idle THEN Idle
                                ELSE [req |-> call[t].req, answer |-> call[t].answer]]

ImplementsAgeMap == AgeMapOfStores!Spec
===============================================================================
