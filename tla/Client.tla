-------------------------------- MODULE Client --------------------------------
(***************************************************************************)
(* SchemaDrivenClient of server/client.rs against a server that may be older, *)
(* reset connections and let others change its records: connect_with with its *)
(* fallback, the tables and their cached schemas, sessions, upsert.  Every    *)
(* method is a few round trips; between the two halves of one the connection  *)
(* may be cut, and between two of them others write.                          *)
(*                                                                           *)
(* The server is Connection's, cut down to the requests made here: one record *)
(* in each table, values left out.  A call the client refuses by itself       *)
(* changes nothing and is no step.                                            *)
(***************************************************************************)
EXTENDS Integers, Sequences, FiniteSets

CONSTANTS
  Tables, Primary,  \* a relation of Primary leads to the records of every other table
  None,             \* no token, no table, no session
  ProtocolVersion,  \* this build's
  MaxStagedOps,
  MaxConnects,      \* bound: connections opened
  Scenarios         \* see IsScenario

\* servers: the versions of the servers behind the address; tokens: those the
\* application presents; configured: does the server know any?; require_hello: the option.
IsScenario(s) ==
  /\ s.servers \subseteq Nat \ {0} /\ s.configured \in BOOLEAN /\ s.require_hello \in BOOLEAN
  /\ s.tokens \subseteq {"read_only", "read_write", "wrong", None}

ASSUME ClientAssumption ==
  /\ Primary \in Tables /\ None \notin Tables /\ None \notin Nat
  /\ {ProtocolVersion, MaxStagedOps, MaxConnects} \subseteq Nat \ {0}
  /\ \A s \in Scenarios : IsScenario(s)

VARIABLES
  scenario, \* fixed from the start
  link,     \* the connection, and the server's state for it
  wire,     \* the request or the reply on its way
  client,   \* the fields of SchemaDrivenClient; handle: is there a Session?
  call,     \* the method under way: the reply it waits for, and its locals
  stored,   \* the tables in which the record is
  history,  \* see ClientInit
  connects

clientVars == <<scenario, link, wire, client, call, stored, history, connects>>

Quiet == [at |-> "quiet"]
Idle  == [stage |-> "idle", arg |-> None, back |-> None]
Connecting == {"hello", "token", "schema", "relations"}
Here == IF client.table = None THEN Primary ELSE client.table

\* The version each request came with.
Since ==
  [kind \in {"hello", "authenticate", "schema", "relations", "tables", "use", "begin", "commit",
             "rollback", "update", "insert", "replace", "join"} |->
     CASE kind = "hello" -> 2 [] kind \in {"begin", "commit", "rollback"} -> 3
       [] kind \in {"relations", "join"} -> 12 [] kind = "insert" -> 13 [] kind = "replace" -> 15
       [] kind \in {"tables", "use"} -> 16 [] OTHER -> 1]

Fresh(v) ==
  [open |-> TRUE, server |-> v, negotiated |-> 1, table |-> Primary, session |-> None,
   class |-> IF scenario.configured THEN None ELSE "read_write"]

NoClient == [up |-> FALSE, version |-> 1, schema |-> None, relations |-> None, table |-> None,
             schemas |-> {}, handle |-> FALSE]

ClientInit ==
  /\ scenario \in Scenarios
  /\ link = [Fresh(1) EXCEPT !.open = FALSE] /\ wire = Quiet
  /\ client = NoClient /\ call = Idle
  /\ stored \in SUBSET Tables
     \* answer: the last call's; did: the writes the server made for it; told: the writes
     \* the open Session was told are staged; left: was a Commit refused at the gates?;
     \* strange: was a request in the wrong version, or in another table's tags?
  /\ history = [answer |-> "none", did |-> <<>>, told |-> 0, left |-> FALSE, strange |-> FALSE]
  /\ connects = 0

------------------------------------------------------------------------------
(* Round trips                                                             *)

Send(kind, arg) == wire' = [at |-> "request", kind |-> kind, arg |-> arg, schema |-> client.schema]

\* A method's first round trip, and its next.
Start(stage, arg, kind, sent) ==
  /\ client.up /\ call = Idle
  /\ call' = [stage |-> stage, arg |-> arg, back |-> client.table] /\ Send(kind, sent)
  /\ history' = [history EXCEPT !.did = <<>>]
  /\ UNCHANGED <<scenario, link, stored, connects>>

Go(stage, kind, arg) ==
  /\ call' = [call EXCEPT !.stage = stage] /\ Send(kind, arg)
  /\ UNCHANGED <<scenario, link, stored, history, connects>>

Return(answer) ==
  /\ call' = Idle /\ wire' = Quiet
  /\ history' = [history EXCEPT !.answer = answer]
  /\ UNCHANGED <<scenario, link, stored, connects>>

Got(stage, kind) == wire.at = "reply" /\ call.stage = stage /\ wire.kind = kind

\* A typed refusal.  A Session whose Commit was refused is gone all the same.
Refused ==
  /\ wire.at = "reply" /\ wire.kind = "err"
  /\ ~(call.stage = "insert" /\ wire.arg = "duplicate")
  /\ call' = Idle /\ wire' = Quiet
  /\ history' = [history EXCEPT !.answer = wire.arg,
                                !.left = @ \/ (call.stage = "commit" /\ link.session # None)]
  /\ client' = IF call.stage \in Connecting THEN NoClient ELSE client
  /\ UNCHANGED <<scenario, link, stored, connects>>

------------------------------------------------------------------------------
(* connect_with                                                            *)

Connect(bearer, v) ==
  /\ ~client.up /\ call = Idle /\ connects < MaxConnects
  /\ link' = Fresh(v) /\ connects' = connects + 1
  /\ call' = [Idle EXCEPT !.stage = "hello", !.arg = bearer] /\ Send("hello", ProtocolVersion)
  /\ history' = [history EXCEPT !.did = <<>>, !.left = FALSE]
  /\ UNCHANGED <<scenario, client, stored>>

AfterHello ==
  /\ IF call.arg = None THEN call' = [call EXCEPT !.stage = "schema"] /\ Send("schema", None)
     ELSE call' = [call EXCEPT !.stage = "token"] /\ Send("authenticate", call.arg)
  /\ UNCHANGED <<scenario, stored, history>>

HelloAnswered ==
  /\ Got("hello", "hello")
  /\ client' = [client EXCEPT !.version = wire.arg] /\ AfterHello
  /\ UNCHANGED <<link, connects>>

\* The connection was closed under the Hello: once more without it, as version 1.
FallBack(v) ==
  /\ call.stage = "hello" /\ ~link.open /\ ~scenario.require_hello /\ connects < MaxConnects
  /\ link' = Fresh(v) /\ connects' = connects + 1
  /\ client' = [client EXCEPT !.version = 1] /\ AfterHello

TokenAccepted ==
  Got("token", "ok") /\ Go("schema", "schema", None) /\ UNCHANGED client

Described ==
  /\ Got("schema", "schema")
  /\ IF client.version >= 12
     THEN client' = [client EXCEPT !.schema = wire.arg] /\ Go("relations", "relations", None)
     ELSE client' = [client EXCEPT !.schema = wire.arg, !.up = TRUE] /\ Return("connected")

RelationsListed ==
  /\ Got("relations", "relations")
  /\ client' = [client EXCEPT !.relations = wire.arg, !.up = TRUE] /\ Return("connected")

\* Any method but connect_with's Hello: the error is the answer, the client stays.
Broken ==
  /\ call # Idle /\ ~link.open
  /\ client' = IF call.stage \in Connecting THEN NoClient ELSE client
  /\ Return("io")

Close ==
  /\ client.up /\ call = Idle /\ ~client.handle
  /\ client' = NoClient /\ link' = [link EXCEPT !.open = FALSE]
  /\ UNCHANGED <<scenario, wire, call, stored, history, connects>>

Authenticate(bearer) ==
  /\ ~client.handle /\ bearer # None /\ UNCHANGED client
  /\ Start("authenticate", bearer, "authenticate", bearer)

Authenticated == Got("authenticate", "ok") /\ Return("ok") /\ UNCHANGED client

------------------------------------------------------------------------------
(* Tables                                                                  *)

\* use_table: select, describe, list the relations; the fields follow one by one.
UseTable(t) ==
  /\ client.version >= Since["use"] /\ ~client.handle
  /\ Start("use", t, "use", t) /\ UNCHANGED client

UseAnswered == Got("use", "ok") /\ Go("use_schema", "schema", None) /\ UNCHANGED client

UseDescribed ==
  /\ Got("use_schema", "schema") /\ client' = [client EXCEPT !.schema = wire.arg]
  /\ Go("use_relations", "relations", None)

UseListed ==
  /\ Got("use_relations", "relations")
  /\ client' = [client EXCEPT !.relations = wire.arg, !.table = call.arg,
                              !.schemas = @ \cup {<<call.arg, client.schema>>}]
  /\ Return("ok")

\* query_join of Primary's rows with another table's: schema_of first, unless it is
\* cached.  A Session's query is the client's.
Join(t) ==
  /\ client.relations = Primary /\ t # Primary /\ UNCHANGED client
  /\ IF \E p \in client.schemas : p[1] = t THEN Start("join", t, "join", t)
     ELSE /\ client.version >= Since["use"]
          /\ IF client.table = None THEN Start("of_tables", t, "tables", None)
             ELSE Start("of_use", t, "use", t)

OfTables ==
  /\ Got("of_tables", "tables") /\ UNCHANGED <<client, scenario, link, stored, history, connects>>
  /\ call' = [call EXCEPT !.stage = "of_use", !.back = wire.arg] /\ Send("use", call.arg)

\* A Describe is never refused where the Use before it was served.
OfUse == Got("of_use", "ok") /\ Go("of_schema", "schema", None) /\ UNCHANGED client

\* Mutation: the connection is left on the other table.
OfSchemaStays ==
  /\ Got("of_schema", "schema") /\ Go("join", "join", call.arg)
  /\ client' = [client EXCEPT !.schemas = @ \cup {<<call.arg, wire.arg>>}]

OfSchema ==
  /\ Got("of_schema", "schema") /\ Go("of_back", "use", call.back)
  /\ client' = [client EXCEPT !.schemas = @ \cup {<<call.arg, wire.arg>>}]

OfBack == Got("of_back", "ok") /\ Go("join", "join", call.arg) /\ UNCHANGED client

Joined == Got("join", "rows") /\ Return("ok") /\ UNCHANGED client

------------------------------------------------------------------------------
(* Writes                                                                  *)

Update ==
  ~client.handle /\ Start("update", None, "update", None) /\ UNCHANGED client

Updated ==
  /\ wire.at = "reply" /\ call.stage = "update" /\ wire.kind # "err" /\ UNCHANGED client
  /\ Return(CASE wire.kind = "ok" -> "updated" [] wire.kind = "not_found" -> "not_found"
              [] OTHER -> "unexpected")

Upsert ==
  /\ client.version >= Since["insert"] /\ ~client.handle
  /\ Start("insert", None, "insert", None) /\ UNCHANGED client

Inserted == Got("insert", "ok") /\ Return("created") /\ UNCHANGED client

\* replace has its own version gate.
Duplicate ==
  /\ Got("insert", "err") /\ wire.arg = "duplicate" /\ UNCHANGED client
  /\ IF client.version >= Since["replace"] THEN Go("replace", "replace", None)
     ELSE Return("unsupported")

\* Mutation: whatever replace finds, the record is replaced.
ReplacedAnyway ==
  /\ wire.at = "reply" /\ call.stage = "replace" /\ wire.kind # "err" /\ UNCHANGED client
  /\ Return("replaced")

Replaced ==
  /\ wire.at = "reply" /\ call.stage = "replace" /\ wire.kind # "err" /\ UNCHANGED client
  /\ Return(IF wire.kind = "ok" THEN "replaced" ELSE "unexpected")

------------------------------------------------------------------------------
(* Session                                                                 *)

Begin ==
  /\ client.version >= Since["begin"] /\ ~client.handle
  /\ Start("begin", None, "begin", None) /\ UNCHANGED client

Begun ==
  /\ Got("begin", "ok") /\ client' = [client EXCEPT !.handle = TRUE]
  /\ call' = Idle /\ wire' = Quiet
  /\ history' = [history EXCEPT !.answer = "begun", !.told = 0]
  /\ UNCHANGED <<scenario, link, stored, connects>>

Stage == client.handle /\ Start("stage", None, "update", None) /\ UNCHANGED client

Staged ==
  /\ Got("stage", "staged") /\ call' = Idle /\ wire' = Quiet /\ UNCHANGED client
  /\ history' = [history EXCEPT !.answer = "staged", !.told = @ + 1]
  /\ UNCHANGED <<scenario, link, stored, connects>>

\* The Session is gone before the reply.
Commit ==
  /\ client.handle /\ client' = [client EXCEPT !.handle = FALSE]
  /\ Start("commit", None, "commit", None)

Committed ==
  /\ wire.at = "reply" /\ call.stage = "commit" /\ wire.kind # "err" /\ UNCHANGED client
  /\ Return(IF wire.kind = "ok" THEN "committed" ELSE "failed")

\* rollback, and the drop of a Session that neither committed nor rolled back.
Rollback ==
  /\ client.handle /\ client' = [client EXCEPT !.handle = FALSE]
  /\ Start("rollback", None, "rollback", None)

RolledBack == Got("rollback", "ok") /\ Return("rolled_back") /\ UNCHANGED client

------------------------------------------------------------------------------
(* The server                                                              *)

Asked(kinds) == wire.at = "request" /\ link.open /\ wire.kind \in kinds
Known == link.server >= Since[wire.kind]

Reply(kind, arg) ==
  /\ wire' = [at |-> "reply", kind |-> kind, arg |-> arg]
  /\ UNCHANGED <<scenario, client, call, connects>>

\* A frame the server cannot decode ends the connection.
Undecoded ==
  /\ wire.at = "request" /\ link.open /\ ~Known
  /\ link' = [link EXCEPT !.open = FALSE] /\ wire' = Quiet
  /\ history' = [history EXCEPT !.strange = @ \/ wire.kind # "hello"]
  /\ UNCHANGED <<scenario, client, call, stored, connects>>

ServeHello ==
  /\ Asked({"hello"}) /\ Known
  /\ LET v == IF wire.arg < link.server THEN wire.arg ELSE link.server IN
     link' = [link EXCEPT !.negotiated = v] /\ Reply("hello", v)
  /\ UNCHANGED <<stored, history>>

ServeAuthenticate ==
  /\ Asked({"authenticate"})
  /\ IF ~scenario.configured THEN Reply("ok", None) /\ UNCHANGED link
     ELSE IF wire.arg = "wrong" THEN Reply("err", "unauthenticated") /\ UNCHANGED link
     ELSE Reply("ok", None) /\ link' = [link EXCEPT !.class = wire.arg]
  /\ UNCHANGED <<stored, history>>

\* Field and relation tags are those of the schema the client has.
Misread ==
  wire.kind \in {"update", "insert", "replace", "join"} /\ wire.schema # link.table

Refusal ==
  CASE link.class = None -> "unauthenticated"
    [] link.class = "read_only" /\ wire.kind \in {"update", "commit", "insert", "replace"} ->
         "unauthorized"
    [] link.session # None /\ wire.kind \in {"insert", "replace"} -> "session_open"
    [] link.negotiated < Since[wire.kind] -> "malformed"
    [] link.session # None /\ wire.kind \in {"begin", "use"} -> "session_open"
    [] link.session = None /\ wire.kind \in {"commit", "rollback"} -> "no_session"
    [] link.session = MaxStagedOps /\ wire.kind = "update" -> "session_full"
    [] wire.kind = "insert" /\ link.table \in stored -> "duplicate"
    [] OTHER -> "none"

Serves(kinds) == Asked(kinds) /\ Known /\ Refusal = "none"

\* Every request but Hello and Authenticate meets the gates.
RefuseRequest ==
  /\ Asked(DOMAIN Since \ {"hello", "authenticate"}) /\ Known /\ Refusal # "none"
  /\ Reply("err", Refusal)
  /\ history' = [history EXCEPT !.strange = @ \/ Refusal = "malformed" \/ Misread]
  /\ UNCHANGED <<link, stored>>

Does(kind, n) ==
  history' = [history EXCEPT !.did = Append(@, [kind |-> kind, table |-> link.table, n |-> n]),
                             !.strange = @ \/ Misread]
DoesNothing == history' = [history EXCEPT !.strange = @ \/ Misread]

ServeRead ==
  /\ Serves({"schema", "relations", "tables", "join", "use"}) /\ DoesNothing /\ UNCHANGED stored
  /\ IF wire.kind = "use"
     THEN link' = [link EXCEPT !.table = wire.arg] /\ Reply("ok", None)
     ELSE /\ UNCHANGED link
          /\ CASE wire.kind = "tables" -> Reply("tables", Primary)
               [] wire.kind = "join"   -> Reply("rows", None)
               [] OTHER                -> Reply(wire.kind, link.table)

ServeWrite ==
  /\ Serves({"update", "insert", "replace"}) /\ (wire.kind = "update" => link.session = None)
  /\ UNCHANGED link
  /\ IF wire.kind = "insert" \/ link.table \in stored
     THEN /\ stored' = stored \cup {link.table} /\ Does(wire.kind, 1) /\ Reply("ok", None)
     ELSE DoesNothing /\ UNCHANGED stored /\ Reply("not_found", None)

ServeBegin ==
  /\ Serves({"begin", "rollback"}) /\ Reply("ok", None)
  /\ link' = [link EXCEPT !.session = IF wire.kind = "begin" THEN 0 ELSE None]
  /\ UNCHANGED <<stored, history>>

ServeStage ==
  /\ Serves({"update"}) /\ link.session # None
  /\ link' = [link EXCEPT !.session = @ + 1] /\ Reply("staged", link.session)
  /\ DoesNothing /\ UNCHANGED stored

\* All or nothing: a staged write needs its record.
ServeCommit ==
  /\ Serves({"commit"}) /\ link' = [link EXCEPT !.session = None] /\ UNCHANGED stored
  /\ IF link.session = 0 \/ link.table \in stored
     THEN Does("commit", link.session) /\ Reply("ok", None)
     ELSE DoesNothing /\ Reply("failed", 0)

\* The connection is cut, with what is on the wire.
Cut ==
  /\ link.open /\ link' = [link EXCEPT !.open = FALSE] /\ wire' = Quiet
  /\ UNCHANGED <<scenario, client, call, stored, history, connects>>

\* Other connections insert and delete.
OtherWrites(t) ==
  /\ stored' = IF t \in stored THEN stored \ {t} ELSE stored \cup {t}
  /\ UNCHANGED <<scenario, link, wire, client, call, history, connects>>

------------------------------------------------------------------------------
Calls ==
  \/ \E bearer \in scenario.tokens : Authenticate(bearer)
  \/ \E t \in Tables : UseTable(t) \/ Join(t)
  \/ Update \/ Upsert \/ Begin \/ Stage \/ Commit \/ Rollback \/ Close

Replies ==
  \/ HelloAnswered \/ TokenAccepted \/ Described \/ RelationsListed \/ Authenticated
  \/ UseAnswered \/ UseDescribed \/ UseListed \/ OfTables \/ OfUse \/ OfSchema \/ OfBack \/ Joined
  \/ Updated \/ Inserted \/ Duplicate \/ Replaced
  \/ Begun \/ Staged \/ Committed \/ RolledBack \/ Refused

Server ==
  \/ Undecoded \/ ServeHello \/ ServeAuthenticate \/ RefuseRequest
  \/ ServeRead \/ ServeWrite \/ ServeBegin \/ ServeStage \/ ServeCommit

ClientNext ==
  \/ \E v \in scenario.servers :
       FallBack(v) \/ \E bearer \in scenario.tokens : Connect(bearer, v)
  \/ Calls \/ Replies \/ Server \/ Broken \/ Cut
  \/ \E t \in Tables : OtherWrites(t)

ClientSpec == ClientInit /\ [][ClientNext]_clientVars

------------------------------------------------------------------------------
(* Properties                                                              *)

\* Between two calls a live connection and its client agree: on the version, on the
\* table and whose schema and relations those are, on whether a session is open and
\* how much is staged in it (unless its Commit was refused at the gates, which leaves
\* it open behind a Session that is gone); and no request was ever in a version the
\* server does not speak ("never sent a frame it cannot decode"), or in the tags of
\* another table than serves it.
InStep ==
  /\ ~history.strange /\ \A p \in client.schemas : p[1] = p[2]
  /\ client.up /\ link.open /\ call = Idle =>
       /\ client.version = link.negotiated /\ Here = link.table /\ client.schema = link.table
       /\ client.relations = IF client.version >= 12 THEN link.table ELSE None
       /\ history.left \/ link.session = IF client.handle THEN history.told ELSE None

\* What a call answered is what was done for it, in the table the client is on: one
\* write if it says so, the staged writes of the session if it says they are in
\* place, nothing if it refuses, and never more than one write if the answer was lost.
AnswersTrue ==
  LET did == history.did IN
  call = Idle /\ client.up =>
    CASE history.answer = "created"   -> did = <<[kind |-> "insert", table |-> Here, n |-> 1]>>
      [] history.answer = "replaced"  -> did = <<[kind |-> "replace", table |-> Here, n |-> 1]>>
      [] history.answer = "updated"   -> did = <<[kind |-> "update", table |-> Here, n |-> 1]>>
      [] history.answer = "committed" -> did = <<[kind |-> "commit", table |-> Here, n |-> history.told]>>
      [] history.answer = "io"        -> Len(did) <= 1
      [] OTHER                        -> did = <<>>
===============================================================================
