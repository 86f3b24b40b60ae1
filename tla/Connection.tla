------------------------------ MODULE Connection ------------------------------
(***************************************************************************)
(* The connection threads of server/serve.rs: handle_connection with its    *)
(* handshake, authentication, gates and transaction sessions, the failure   *)
(* table they share, and the tables they serve.                             *)
(*                                                                          *)
(* A request is one step, from the gates to the reply, except Authenticate, *)
(* which takes the failure table's mutex twice.  apply_transaction is       *)
(* atomic here; TransactionAdapter looks inside it.  A reply that cannot be *)
(* sent ends the connection: Disconnect after the request.                  *)
(***************************************************************************)
EXTENDS Naturals, Sequences, FiniteSets, Functions, FiniteSetsExt

CONSTANTS
  Connections, Peers,
  PeerOf,            \* Connections -> Peers
  Tables, Primary, Ids,
  Absent,            \* no record
  Bad,               \* a value of a kind no field has
  MaxStagedOps, MaxTrackedReads, MaxAuthFailures, MaxTrackedPeers,
  Limit, Window,     \* RateLimit, if a scenario has one
  ProtocolVersion,   \* the newest version this server speaks
  MaxTime,           \* bound: the clock
  Scenarios          \* see IsScenario

\* A record has a field clients may update and one they may not, in the order
\* get lists them.
FieldSeq  == <<"title", "status">>
Fields    == Range(FieldSeq)
Updatable == {"status"}
Values    == 0 .. 2

Ops     == [id : Ids, field : Fields, value : Values \cup {Bad}]
Records == [Fields -> Values]
Classes == {"read_only", "read_write"}
Flags   == {"read_your_writes", "validate_on_stage", "snapshot_isolation"}
Kinds   == {"hello", "authenticate", "begin", "begin_with", "rollback", "commit", "get",
            "update", "transaction", "insert", "replace", "delete", "use"}

\* clients: the connections there are; kinds, ops, values, versions, flags, presented:
\* what they send; tokens, certificates: the classes a token, or a client's certificate,
\* grants; limited: is there a rate limit?
IsScenario(s) ==
  /\ s.clients \subseteq Connections /\ s.certificates \subseteq Classes
  /\ s.values \subseteq Values
  /\ s.kinds \subseteq Kinds /\ s.ops \subseteq Ops
  /\ s.versions \subseteq Nat /\ s.flags \subseteq SUBSET Flags
  /\ s.tokens \subseteq Classes /\ s.presented \subseteq Classes \cup {"wrong"}
  /\ s.limited \in BOOLEAN

ASSUME ConnectionAssumption ==
  /\ \A s \in Scenarios : IsScenario(s)
  /\ IsFiniteSet(Connections) /\ Connections # {}
  /\ PeerOf \in [Connections -> Peers] /\ Primary \in Tables /\ Absent \notin Records
  /\ {MaxStagedOps, MaxTrackedReads, MaxTime, ProtocolVersion} \subseteq Nat
  /\ {MaxAuthFailures, MaxTrackedPeers, Limit, Window} \subseteq Nat \ {0}

VARIABLES
  scenario, \* fixed from the start
  tables,   \* Tables -> Ids -> a record, or Absent
  conn,     \* Connections -> the locals of handle_connection
  peers,    \* FailureTable: tracked peers -> their window
  now,      \* Instant::now
  reply,    \* the last reply, and whose it was
  gone      \* history: the records deleted

vars == <<scenario, tables, conn, peers, now, reply, gone>>

NoReads == [k \in {} |-> 0]

\* began and seen are history: the session's table, and every value its reads
\* returned.
Opened(class) ==
  [alive |-> TRUE, class |-> class, first |-> TRUE, version |-> 1, table |-> Primary,
   session |-> FALSE, staged |-> <<>>, flags |-> {}, reads |-> NoReads,
   failures |-> 0, noting |-> FALSE,
   began |-> Primary, seen |-> NoReads]

Configured == scenario.tokens \cup scenario.certificates # {}

\* A certificate's class, or else read_write exactly if nothing is configured.
InitialClasses == scenario.certificates \cup {IF Configured THEN "none" ELSE "read_write"}

Closed == [Opened("none") EXCEPT !.alive = FALSE]

Init ==
  /\ scenario \in Scenarios
  /\ tables = [t \in Tables |-> [x \in Ids |-> [f \in Fields |-> 0]]]
  /\ conn = [c \in Connections |-> Closed]
  /\ peers = [p \in {} |-> 0] /\ now = 0
  /\ reply = [to |-> CHOOSE c \in Connections : TRUE, code |-> "none"]
  /\ gone = {}

------------------------------------------------------------------------------
Ready(c) == conn[c].alive /\ ~conn[c].noting
May(kind) == kind \in scenario.kinds

\* Every request but the first is not the first.
Answer(c, new, code) ==
  /\ conn' = [conn EXCEPT ![c] = [new EXCEPT !.first = FALSE]]
  /\ reply' = [to |-> c, code |-> code]

Rest == UNCHANGED <<scenario, peers, now>>
NoWrite == UNCHANGED <<tables, gone>>

\* serve_tables: a thread for each connection accepted.
Accept(c) ==
  /\ c \in scenario.clients /\ ~conn[c].alive
  /\ \E class \in InitialClasses : conn' = [conn EXCEPT ![c] = Opened(class)]
  /\ UNCHANGED reply /\ NoWrite /\ Rest

\* A framing error, end of stream, or a reply that cannot be sent.
Disconnect(c) ==
  /\ Ready(c)
  /\ conn' = [conn EXCEPT ![c] = Closed]
  /\ UNCHANGED reply /\ NoWrite /\ Rest

\* Hello: only the first frame, and at least version 1.
Hello(c) ==
  /\ Ready(c) /\ May("hello")
  /\ \E v \in scenario.versions :
       IF conn[c].first /\ v # 0
       THEN Answer(c, [conn[c] EXCEPT !.version = Min({v, ProtocolVersion})], "hello")
       ELSE Answer(c, conn[c], "malformed")
  /\ NoWrite /\ Rest

------------------------------------------------------------------------------
(* Authenticate and the failure table                                      *)

Expired(w) == now - w.started >= Window

Throttled(p) == p \in DOMAIN peers /\ ~Expired(peers[p]) /\ peers[p].failures >= Limit

\* Mutation: nothing is evicted when no window has expired.
EvictedExpiredOnly(p) ==
  IF p \in DOMAIN peers \/ Cardinality(DOMAIN peers) < MaxTrackedPeers THEN {{}}
  ELSE {{q \in DOMAIN peers : Expired(peers[q])}}

\* What note_failure may drop to make room: nothing if there is room, the
\* expired windows, or else one of the oldest.
Evicted(p) ==
  LET old == {q \in DOMAIN peers : Expired(peers[q])}
  IN IF p \in DOMAIN peers \/ Cardinality(DOMAIN peers) < MaxTrackedPeers THEN {{}}
     ELSE IF old # {} THEN {old}
     ELSE {{q} : q \in {q \in DOMAIN peers :
                          \A r \in DOMAIN peers : peers[q].started <= peers[r].started}}

NoteFailure(p) ==
  \E dropped \in Evicted(p) :
    peers' = [q \in (DOMAIN peers \ dropped) \cup {p} |->
                IF q # p THEN peers[q]
                ELSE IF p \in DOMAIN peers /\ ~Expired(peers[p])
                THEN [peers[p] EXCEPT !.failures = @ + 1]
                ELSE [started |-> now, failures |-> 1]]

\* One more failure; the last one ends the connection.
CountFailure(c) ==
  LET more == [conn[c] EXCEPT !.failures = @ + 1, !.noting = FALSE]
  IN Answer(c, IF more.failures >= MaxAuthFailures THEN Closed ELSE more, "unauthenticated")

\* Refused before the token is looked at; it counts against the connection only.
AuthThrottled(c) ==
  /\ Ready(c) /\ May("authenticate") /\ Configured
  /\ scenario.limited /\ Throttled(PeerOf[c])
  /\ CountFailure(c)
  /\ NoWrite /\ Rest

\* Not throttled: a known token changes the class, another is a failure still
\* to be noted.  With nothing configured Authenticate does nothing.
AuthCheck(c) ==
  /\ Ready(c) /\ May("authenticate")
  /\ ~Configured \/ ~(scenario.limited /\ Throttled(PeerOf[c]))
  /\ \E token \in scenario.presented :
       \/ ~Configured /\ Answer(c, conn[c], "ok")
       \/ token \in scenario.tokens /\ Answer(c, [conn[c] EXCEPT !.class = token], "ok")
       \/ /\ Configured /\ token \notin scenario.tokens
          /\ conn' = [conn EXCEPT ![c].noting = TRUE, ![c].first = FALSE]
          /\ UNCHANGED reply
  /\ NoWrite /\ Rest

AuthNote(c) ==
  /\ conn[c].noting
  /\ IF scenario.limited THEN NoteFailure(PeerOf[c]) ELSE UNCHANGED peers
  /\ CountFailure(c)
  /\ UNCHANGED <<scenario, now>> /\ NoWrite

\* Time passes; only the failure table reads the clock.
Tick == /\ scenario.limited /\ now < MaxTime /\ now' = now + 1
        /\ UNCHANGED <<scenario, conn, peers, reply>> /\ NoWrite

------------------------------------------------------------------------------
(* The gates                                                               *)

\* Mutation: the ReadOnly gate forgets Commit.
WritesNoCommit == {"update", "transaction", "insert", "replace", "delete"}
Writes == {"update", "transaction", "commit", "insert", "replace", "delete"}

RuntimeWrites == {"insert", "replace", "delete"}
SessionKinds  == {"begin", "begin_with", "commit", "rollback", "use"}

\* The version a request needs; kinds not listed need none.
MinVersion == [k \in Kinds |->
  CASE k \in {"begin", "commit", "rollback"} -> 3
    [] k = "begin_with" -> 5
    [] k = "insert" -> 13
    [] k = "replace" -> 15
    [] k = "use" -> 16
    [] k = "delete" -> 17
    [] OTHER -> 1]

FlagVersion == [f \in Flags |-> CASE f = "read_your_writes" -> 5
                                  [] f = "validate_on_stage" -> 6
                                  [] OTHER -> 7]

Admitted(c, kind) ==
  /\ Ready(c) /\ May(kind) /\ conn[c].class # "none"
  /\ ~(conn[c].class = "read_only" /\ kind \in Writes)

\* A flag the connection's version does not have: the request is Malformed.
Unknown(c, flags) == \E f \in flags : conn[c].version < FlagVersion[f]

TooOld(c, kind) == conn[c].version < MinVersion[kind]

\* Mutation: Use is allowed in a session.
MisplacedNotUse(c, kind) ==
  IF kind \in {"commit", "rollback"} THEN ~conn[c].session
  ELSE conn[c].session /\ kind \in RuntimeWrites \cup {"begin", "begin_with", "transaction"}

\* NoSession or SessionOpen.
Misplaced(c, kind) ==
  IF kind \in {"commit", "rollback"} THEN ~conn[c].session
  ELSE conn[c].session /\ kind \in RuntimeWrites \cup {"begin", "begin_with", "transaction", "use"}

Accepts(c, kind) == Admitted(c, kind) /\ ~TooOld(c, kind) /\ ~Misplaced(c, kind)

\* Which of the two refusals comes first depends on the request; a Commit
\* refused for want of a session finds nothing to clear.
Refuse(c, kind) ==
  /\ Ready(c) /\ May(kind) /\ kind \notin {"hello", "authenticate"}
  /\ \/ conn[c].class = "none" /\ Answer(c, conn[c], "unauthenticated")
     \/ /\ conn[c].class = "read_only" /\ kind \in Writes
        /\ Answer(c, conn[c], "unauthorized")
     \/ /\ Admitted(c, kind) /\ Misplaced(c, kind)
        /\ ~(kind \in SessionKinds /\ TooOld(c, kind))
        /\ Answer(c, conn[c], IF conn[c].session THEN "session_open" ELSE "no_session")
     \/ /\ Admitted(c, kind)
        /\ \/ TooOld(c, kind)
           \/ kind = "begin_with" /\ \E flags \in scenario.flags : Unknown(c, flags)
        /\ ~(kind \in RuntimeWrites /\ Misplaced(c, kind))
        /\ Answer(c, conn[c], "malformed")
  /\ NoWrite /\ Rest

------------------------------------------------------------------------------
(* Sessions                                                                *)

OpenSession(c, flags) ==
  Answer(c, [conn[c] EXCEPT !.session = TRUE, !.staged = <<>>, !.flags = flags,
                            !.reads = NoReads, !.seen = NoReads, !.began = conn[c].table], "ok")

CloseSession(c) ==
  [conn[c] EXCEPT !.session = FALSE, !.staged = <<>>, !.flags = {}, !.reads = NoReads,
                  !.seen = NoReads]

Begin(c) ==
  /\ Accepts(c, "begin") /\ OpenSession(c, {})
  /\ NoWrite /\ Rest

BeginWith(c) ==
  /\ Accepts(c, "begin_with")
  /\ \E flags \in scenario.flags :
       ~Unknown(c, flags) /\ OpenSession(c, flags)
  /\ NoWrite /\ Rest

Rollback(c) ==
  /\ Accepts(c, "rollback") /\ Answer(c, CloseSession(c), "ok")
  /\ NoWrite /\ Rest

Here(c) == tables[conn[c].table]

\* validate_op: the record exists, the field may be updated, the kind is right.
ValidOp(c, op) == Here(c)[op.id] # Absent /\ op.field \in Updatable /\ op.value # Bad

ValidBatch(c, batch) == \A i \in DOMAIN batch : ValidOp(c, batch[i])

Applied(c, batch) ==
  LET after[i \in 0 .. Len(batch)] ==
        IF i = 0 THEN Here(c)
        ELSE [after[i - 1] EXCEPT ![batch[i].id][batch[i].field] = batch[i].value]
  IN after[Len(batch)]

Write(c, table) == tables' = [tables EXCEPT ![conn[c].table] = table] /\ UNCHANGED gone

\* Mutation: the first staged write of a field counts, not the last.
OverlayFirst(c, x) ==
  [f \in Fields |->
     LET staged == conn[c].staged
         ours == {i \in DOMAIN staged : staged[i].id = x /\ staged[i].field = f}
         op == staged[CHOOSE i \in ours : \A j \in ours : i <= j]
     IN IF f \in Updatable /\ ours # {} /\ op.value # Bad THEN op.value ELSE Here(c)[x][f]]

\* overlay_staged: the last staged write of each field, if it could apply.
Overlay(c, x) ==
  [f \in Fields |->
     LET staged == conn[c].staged
         ours == {i \in DOMAIN staged : staged[i].id = x /\ staged[i].field = f}
         op == staged[CHOOSE i \in ours : \A j \in ours : j <= i]
     IN IF f \in Updatable /\ ours # {} /\ op.value # Bad THEN op.value ELSE Here(c)[x][f]]

\* record_read_set: a tracked key takes the new value, a new one needs room.
TrackOne(r, key, value) ==
  IF key \in DOMAIN r \/ Cardinality(DOMAIN r) < MaxTrackedReads
  THEN [k \in DOMAIN r \cup {key} |-> IF k = key THEN value ELSE r[k]]
  ELSE r

Track(reads, x, fields) ==
  LET after[i \in 0 .. Len(FieldSeq)] ==
        IF i = 0 THEN reads ELSE TrackOne(after[i - 1], <<x, FieldSeq[i]>>, fields[FieldSeq[i]])
  IN after[Len(FieldSeq)]

See(seen, x, fields) ==
  [k \in DOMAIN seen \cup ({x} \X Fields) |-> IF k[1] = x THEN fields[k[2]] ELSE seen[k]]

Snapshot(c) == "snapshot_isolation" \in conn[c].flags

\* Mutation: the read set holds what the session was shown.
GetByIdOverlaid(c) ==
  /\ Accepts(c, "get")
  /\ \E x \in Ids :
       /\ Here(c)[x] # Absent
       /\ Answer(c, IF Snapshot(c)
                    THEN [conn[c] EXCEPT !.reads = Track(@, x, Overlay(c, x)),
                                         !.seen = See(@, x, Here(c)[x])]
                    ELSE conn[c], "record")
  /\ NoWrite /\ Rest

\* GetById: the committed fields are tracked, then overlaid for the client.
GetById(c) ==
  /\ Accepts(c, "get")
  /\ \E x \in Ids :
       IF Here(c)[x] = Absent THEN Answer(c, conn[c], "not_found")
       ELSE Answer(c, IF Snapshot(c)
                      THEN [conn[c] EXCEPT !.reads = Track(@, x, Here(c)[x]),
                                           !.seen = See(@, x, Here(c)[x])]
                      ELSE conn[c], "record")
  /\ NoWrite /\ Rest

\* Mutation: a validating session validates nothing.
StageUnvalidated(c) ==
  /\ Accepts(c, "update") /\ conn[c].session
  /\ \E op \in scenario.ops :
       IF Len(conn[c].staged) >= MaxStagedOps THEN Answer(c, conn[c], "session_full")
       ELSE Answer(c, [conn[c] EXCEPT !.staged = Append(@, op)], "staged")
  /\ NoWrite /\ Rest

\* UpdateField in a session.
Stage(c) ==
  /\ Accepts(c, "update") /\ conn[c].session
  /\ \E op \in scenario.ops :
       IF "validate_on_stage" \in conn[c].flags /\ ~ValidOp(c, op)
       THEN Answer(c, conn[c], "invalid")
       ELSE IF Len(conn[c].staged) >= MaxStagedOps THEN Answer(c, conn[c], "session_full")
       ELSE Answer(c, [conn[c] EXCEPT !.staged = Append(@, op)], "staged")
  /\ NoWrite /\ Rest

\* The session ends whether or not its batch applies.
Commit(c) ==
  /\ Accepts(c, "commit")
  /\ LET current == \A k \in DOMAIN conn[c].reads :
                      Here(c)[k[1]] # Absent /\ Here(c)[k[1]][k[2]] = conn[c].reads[k]
     IN \/ /\ ValidBatch(c, conn[c].staged) /\ current
           /\ Write(c, Applied(c, conn[c].staged))
           /\ Answer(c, CloseSession(c), "committed")
        \/ /\ ~(ValidBatch(c, conn[c].staged) /\ current)
           /\ NoWrite
           /\ Answer(c, CloseSession(c), "transaction_failed")
  /\ Rest

------------------------------------------------------------------------------
(* Writes outside a session, and Use                                       *)

\* UpdateField, and Transaction with up to two operations.
WriteNow(c) ==
  /\ \/ Accepts(c, "update") /\ ~conn[c].session
     \/ Accepts(c, "transaction")
  /\ \E batch \in {<<op>> : op \in scenario.ops}
                  \cup (IF May("transaction") THEN scenario.ops \X scenario.ops ELSE {}) :
       \/ ValidBatch(c, batch) /\ Write(c, Applied(c, batch)) /\ Answer(c, conn[c], "ok")
       \/ ~ValidBatch(c, batch) /\ NoWrite /\ Answer(c, conn[c], "invalid")
  /\ Rest

Insert(c) ==
  /\ Accepts(c, "insert")
  /\ \E x \in Ids, v \in scenario.values :
       \/ /\ Here(c)[x] = Absent
          /\ Write(c, [Here(c) EXCEPT ![x] = [f \in Fields |-> v]]) /\ Answer(c, conn[c], "ok")
       \/ Here(c)[x] # Absent /\ NoWrite /\ Answer(c, conn[c], "duplicate")
  /\ Rest

Replace(c) ==
  /\ Accepts(c, "replace")
  /\ \E x \in Ids, v \in scenario.values :
       \/ /\ Here(c)[x] # Absent
          /\ Write(c, [Here(c) EXCEPT ![x] = [f \in Fields |-> v]]) /\ Answer(c, conn[c], "ok")
       \/ Here(c)[x] = Absent /\ NoWrite /\ Answer(c, conn[c], "not_found")
  /\ Rest

Delete(c) ==
  /\ Accepts(c, "delete")
  /\ \E x \in Ids :
       \/ /\ Here(c)[x] # Absent
          /\ tables' = [tables EXCEPT ![conn[c].table][x] = Absent]
          /\ gone' = gone \cup {<<conn[c].table, x>>} /\ Answer(c, conn[c], "ok")
       \/ Here(c)[x] = Absent /\ NoWrite /\ Answer(c, conn[c], "not_found")
  /\ Rest

Use(c) ==
  /\ Accepts(c, "use")
  /\ \E t \in Tables : Answer(c, [conn[c] EXCEPT !.table = t], "ok")
  /\ NoWrite /\ Rest

------------------------------------------------------------------------------
Next ==
  \/ \E c \in Connections :
       \/ Accept(c) \/ Disconnect(c) \/ Hello(c)
       \/ AuthThrottled(c) \/ AuthCheck(c) \/ AuthNote(c)
       \/ \E kind \in Kinds : Refuse(c, kind)
       \/ Begin(c) \/ BeginWith(c) \/ Rollback(c) \/ GetById(c) \/ Stage(c) \/ Commit(c)
       \/ WriteNow(c) \/ Insert(c) \/ Replace(c) \/ Delete(c) \/ Use(c)
  \/ Tick

Spec == Init /\ [][Next]_vars

------------------------------------------------------------------------------
(* Properties                                                              *)

\* The types of handle_connection's locals and of the failure table.
TypeOK ==
  /\ tables \in [Tables -> [Ids -> Records \cup {Absent}]]
  /\ \A c \in Connections : LET k == conn[c] IN
       /\ k.alive \in BOOLEAN /\ k.first \in BOOLEAN /\ k.session \in BOOLEAN
       /\ k.class \in Classes \cup {"none"} /\ k.version \in Nat /\ k.table \in Tables
       /\ k.staged \in Seq(Ops) /\ Len(k.staged) <= MaxStagedOps /\ k.flags \subseteq Flags
       /\ k.reads \in [DOMAIN k.reads -> Values] /\ Cardinality(DOMAIN k.reads) <= MaxTrackedReads
       /\ k.failures < MaxAuthFailures
  /\ DOMAIN peers \subseteq Peers /\ now \in 0 .. MaxTime
  /\ \A p \in DOMAIN peers : peers[p].started \in 0 .. now /\ peers[p].failures \in Nat \ {0}
  /\ reply.to \in Connections

\* The locals keep their types, and a session is one connection's, at one version
\* and on one table from Begin to Commit: what it stages is meant for the table it
\* began on, and it never has a feature its connection's version lacks.
SessionSound ==
  TypeOK /\ \A c \in Connections : LET k == conn[c] IN
    /\ k.session => /\ k.alive /\ k.table = k.began /\ k.version >= 3
                    /\ \A f \in k.flags : k.version >= FlagVersion[f]
    /\ ~k.session => k.staged = <<>> /\ k.flags = {} /\ k.reads = NoReads

\* What a read-your-writes session reads is what its Commit would leave, should
\* it succeed ("the read must not pretend otherwise").
ReadYourWrites ==
  \A c \in Connections :
    conn[c].session /\ ValidBatch(c, conn[c].staged) =>
      \A x \in Ids : Here(c)[x] # Absent => Overlay(c, x) = Applied(c, conn[c].staged)[x]

\* What a validating session has staged stays valid until Commit, unless the
\* record was deleted (validate_op: "`Ok` here is `Ok` at `Commit`").
ValidatedStaysValid ==
  \A c \in Connections : "validate_on_stage" \in conn[c].flags =>
    \A i \in DOMAIN conn[c].staged : LET op == conn[c].staged[i] IN
      ValidOp(c, op) \/ <<conn[c].began, op.id>> \in gone

\* Tables change only for a connection that has the read-write class when its
\* request is served, whatever class it had when it began a session.
WritesAuthorized == [][tables' # tables => conn[reply'.to].class = "read_write"]_vars

\* A snapshot session that tracked all it read commits only if all of it still
\* holds: the value it was shown last, not one it staged.
SnapshotCommits ==
  [][reply'.code = "committed" =>
       LET k == conn[reply'.to] IN
         Snapshot(reply'.to) /\ DOMAIN k.reads = DOMAIN k.seen =>
           \A key \in DOMAIN k.seen : Here(reply'.to)[key[1]] # Absent
                                      /\ Here(reply'.to)[key[1]][key[2]] = k.seen[key]]_vars

\* Throttling reads the failure table and notes a failure in two critical
\* sections, so a window may exceed its budget, but by no more than the other
\* connections of the peer; and the table never tracks more peers than it may
\* (RL-FR-003).
FailuresBounded ==
  /\ \A p \in DOMAIN peers :
       peers[p].failures < Limit + Cardinality({c \in Connections : PeerOf[c] = p})
  /\ Cardinality(DOMAIN peers) <= MaxTrackedPeers
==============================================================================
