-------------------------------- MODULE AgeMap --------------------------------
(***************************************************************************)
(* What the variants of concurrency/mod.rs promise their threads: a map from *)
(* dogs to ages in which each get and each update_age happens at one instant *)
(* between its call and its return, and a scan_ages looks at every dog once: *)
(* at one instant in some variants, at several in the others.                *)
(***************************************************************************)
EXTENDS Naturals

CONSTANTS
  Threads, Dogs,
  Known,          \* the dogs the store was built with
  Ages,
  None            \* no answer yet

VARIABLES
  ages, \* of the known dogs
  call, \* what each thread has asked, and been answered
  whole \* is a scan one instant?

vars == <<ages, call, whole>>

Idle     == [op |-> "idle"]
Requests == [op : {"get"}, id : Dogs] \cup [op : {"update"}, id : Dogs, age : Ages] \cup [op : {"scan"}]

Init ==
  /\ ages \in [Known -> Ages] /\ whole \in BOOLEAN
  /\ call = [t \in Threads |-> Idle]

Asks(t, op) == call[t] # Idle /\ call[t].req.op = op
Answer(t, a) == call' = [call EXCEPT ![t].answer = a]

Call(t) ==
  /\ call[t] = Idle
  /\ \E r \in Requests :
       call' = [call EXCEPT ![t] = [req |-> r, answer |-> IF r.op = "scan" THEN <<>> ELSE None]]
  /\ UNCHANGED <<ages, whole>>

Get(t) ==
  /\ Asks(t, "get") /\ call[t].answer = None
  /\ Answer(t, {ages[x] : x \in Known \cap {call[t].req.id}})
  /\ UNCHANGED <<ages, whole>>

Update(t) ==
  /\ Asks(t, "update") /\ call[t].answer = None
  /\ LET x == call[t].req.id IN
     /\ Answer(t, x \in Known)
     /\ ages' = IF x \in Known THEN [ages EXCEPT ![x] = call[t].req.age] ELSE ages
  /\ UNCHANGED whole

\* Some of the dogs not yet looked at; all of them if scans are whole.
Look(t) ==
  /\ Asks(t, "scan")
  /\ \E S \in (SUBSET (Known \ DOMAIN call[t].answer)) \ {{}} :
       /\ whole => S = Known
       /\ LET seen == call[t].answer IN
          Answer(t, [x \in DOMAIN seen \cup S |-> IF x \in S THEN ages[x] ELSE seen[x]])
  /\ UNCHANGED <<ages, whole>>

Return(t) ==
  /\ call[t] # Idle
  /\ IF Asks(t, "scan") THEN DOMAIN call[t].answer = Known ELSE call[t].answer # None
  /\ call' = [call EXCEPT ![t] = Idle] /\ UNCHANGED <<ages, whole>>

Next == \E t \in Threads : Call(t) \/ Get(t) \/ Update(t) \/ Look(t) \/ Return(t)

Spec == Init /\ [][Next]_vars
===============================================================================
