---------------------------- MODULE MCConnection ----------------------------
(* Scenarios for Connection: each varies what its properties turn on. *)
EXTENDS Connection, TLC

CONSTANTS k1, k2, k3, p1, p2, t1, t2, r1, r2

\* Two connections from one address.
Two == k1 :> p1 @@ k2 :> p1 @@ k3 :> p2

Op(x, f, v) == [id |-> x, field |-> f, value |-> v]

Quiet == [clients |-> {k1}, kinds |-> {}, ops |-> {}, values |-> {}, versions |-> {}, flags |-> {},
          tokens |-> {}, presented |-> {}, certificates |-> {}, limited |-> FALSE]

\* Two reading sessions, and staging of several operations on one field.
Snapshots ==
  [Quiet EXCEPT !.clients = {k1, k3}, !.versions = {22},
                !.kinds = {"hello", "begin_with", "get", "update", "commit"},
                !.ops = {Op(r1, "status", 1), Op(r1, "status", 2)},
                !.flags = {{"read_your_writes", "snapshot_isolation"}}]

\* A validating session beside a client that inserts, replaces and deletes.
Validating ==
  [Quiet EXCEPT !.clients = {k1, k3}, !.versions = {22},
                !.kinds = {"hello", "begin_with", "update", "commit", "rollback", "insert",
                           "replace", "delete"},
                !.ops = {Op(r1, "status", 1), Op(r1, "status", Bad), Op(r1, "title", 1)},
                !.flags = {{"validate_on_stage"}}, !.values = {0, 2}]

\* One client, every request, at every version that decides something.
Versions ==
  [Quiet EXCEPT !.versions = {0, 3, 5, 6, 7, 13, 15, 16, 17, 23}, !.kinds = Kinds \ {"get"},
                !.presented = {"read_write"},
                !.ops = {Op(r1, "status", 1)}, !.flags = SUBSET Flags]

\* Tokens of both classes, and certificates, around sessions.
Classed ==
  [Quiet EXCEPT !.clients = {k1, k3}, !.versions = {22}, !.ops = {Op(r1, "status", 1)},
                !.kinds = {"hello", "authenticate", "begin", "update", "commit", "delete"},
                !.tokens = Classes, !.presented = Classes, !.certificates = {"read_only"}]

\* Certificates of both classes and no token: no request authenticates.
Certified ==
  [Quiet EXCEPT !.clients = {k1, k2}, !.versions = {22}, !.ops = {Op(r1, "status", 1)},
                !.kinds = {"authenticate", "begin", "update", "commit", "delete"},
                !.presented = {"wrong"}, !.certificates = Classes, !.limited = TRUE]

\* Failures of three connections from two addresses.
Throttling ==
  [Quiet EXCEPT !.clients = Connections, !.kinds = {"authenticate"}, !.tokens = {"read_write"},
                !.presented = {"read_write", "wrong"}, !.limited = TRUE]

All == {Snapshots, Validating, Versions, Classed, Certified, Throttling}
=============================================================================
