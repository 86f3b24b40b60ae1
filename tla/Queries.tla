------------------------------- MODULE Queries -------------------------------
(***************************************************************************)
(* What server/serve.rs makes of the rows of a scan: Query filters and cuts   *)
(* them, Aggregate filters, groups and reduces them.  Operators over a         *)
(* sequence of rows in the order of the scan; and IsAnswer, what the answer   *)
(* has to be, said of the rows alone.                                        *)
(***************************************************************************)
EXTENDS Integers, Sequences, FiniteSets, SequencesExt, FiniteSetsExt

CONSTANTS
  Schema,  \* field -> "i64", "str" or "list", the kind of its values
  IntMax,  \* the largest i64
  Panicked \* no answer: the connection's thread died

ASSUME QueriesAssumption == IntMax \in Nat /\ DOMAIN Schema # {}

\* A row: its id, and fields, a function.  A request q: filter, predicates that must
\* all hold; limit, of rows or groups; by, the fields to group by; func and of, the
\* one aggregate that stands for several, and its field or NoField.
NoField  == "none"
Ordering == {"lt", "le", "gt", "ge"}

ValidPredicate(p) ==
  /\ p.field \in DOMAIN Schema /\ p.kind = Schema[p.field] /\ p.kind # "list"
  /\ p.op \in Ordering => p.kind = "i64"

\* The requests that are not refused before the scan.
Valid(q) ==
  /\ \A p \in q.filter : ValidPredicate(p)
  /\ q.kind = "aggregate" =>
       /\ q.by \subseteq {f \in DOMAIN Schema : Schema[f] # "list"}
       /\ IF q.func = "count" THEN q.of = NoField
          ELSE q.of \in DOMAIN Schema /\ Schema[q.of] = "i64"

Matches(row, p) ==
  LET v == row.fields[p.field] IN
  CASE p.op = "eq" -> v = p.value
    [] p.op = "ne" -> v # p.value
    [] p.op = "lt" -> v < p.value
    [] p.op = "le" -> v <= p.value
    [] p.op = "gt" -> v > p.value
    [] p.op = "ge" -> v >= p.value

Passes(row, q) == \A p \in q.filter : Matches(row, p)
KeyOf(row, q)  == [f \in q.by |-> row.fields[f]]
Least(n, m)    == IF n < m THEN n ELSE m
Limited(s, q)  == SubSeq(s, 1, Least(q.limit, Len(s)))

------------------------------------------------------------------------------
(* Evaluation                                                              *)

\* Rows join the bucket of their key, or open it.  Without a field to group by there is
\* one bucket, whatever matches.
Buckets(rows, q) ==
  LET Into(bs, row) ==
        IF \E i \in DOMAIN bs : bs[i].key = KeyOf(row, q)
        THEN [i \in DOMAIN bs |-> IF bs[i].key = KeyOf(row, q)
                                  THEN [bs[i] EXCEPT !.rows = Append(@, row)] ELSE bs[i]]
        ELSE Append(bs, [key |-> KeyOf(row, q), rows |-> <<row>>])
  IN FoldLeft(Into, IF q.by = {} THEN <<[key |-> <<>>, rows |-> <<>>]>> ELSE <<>>, rows)

InRange(n) == -IntMax - 1 <= n /\ n <= IntMax
Wrapped(n) == ((n + IntMax + 1) % (2 * (IntMax + 1))) - (IntMax + 1)

\* sum() of i64: overflow panics in a build that checks arithmetic, and wraps in others.
Summed(values, checked) ==
  FoldLeft(LAMBDA n, v : IF n = Panicked THEN n
                         ELSE IF InRange(n + v) THEN n + v
                         ELSE IF checked THEN Panicked ELSE Wrapped(n + v),
           0, values)

\* The extreme value met first; of none, the zero of the field's kind.
Extreme(values, largest) ==
  IF values = <<>> THEN 0
  ELSE FoldLeft(LAMBDA best, v : IF v # best /\ (v > best) = largest THEN v ELSE best,
                Head(values), Tail(values))

\* An average is its sum and how many; one of nothing is 0.  A field that is no number
\* is "unreachable!".
Reduce(rows, q, checked) ==
  LET values == [i \in DOMAIN rows |-> rows[i].fields[q.of]]
      total  == Summed(values, checked) IN
  CASE q.func = "count" -> Len(rows)
    [] q.func # "count" /\ Schema[q.of] # "i64" -> IF rows = <<>> THEN 0 ELSE Panicked
    [] q.func = "sum" -> total
    [] q.func = "avg" -> IF total = Panicked THEN total ELSE [sum |-> total, of |-> Len(rows)]
    [] q.func = "min" -> Extreme(values, FALSE)
    [] q.func = "max" -> Extreme(values, TRUE)

\* Mutation: the limit is on what is looked at.
EvaluateLimitedRows(rows, q, checked) ==
  LET passing == SelectSeq(Limited(rows, q), LAMBDA row : Passes(row, q)) IN
  IF q.kind = "query" THEN passing
  ELSE LET buckets == Buckets(passing, q) IN
       [i \in DOMAIN buckets |-> [key |-> buckets[i].key, value |-> Reduce(buckets[i].rows, q, checked)]]

\* Every group is reduced before the limit cuts them.
Evaluate(rows, q, checked) ==
  LET passing == SelectSeq(rows, LAMBDA row : Passes(row, q)) IN
  IF q.kind = "query" THEN Limited(passing, q)
  ELSE LET buckets == Buckets(passing, q)
           groups  == [i \in DOMAIN buckets |->
                         [key |-> buckets[i].key, value |-> Reduce(buckets[i].rows, q, checked)]]
       IN IF \E i \in DOMAIN groups : groups[i].value = Panicked THEN Panicked
          ELSE Limited(groups, q)

------------------------------------------------------------------------------
(* What an answer has to be, for a table: a set of rows                    *)

Total(R, f) == MapThenSumSet(LAMBDA row : row.fields[f], R)

IsValue(value, R, q) ==
  CASE q.func = "count" -> value = Cardinality(R)
    [] q.func = "sum" -> InRange(Total(R, q.of)) => value = Total(R, q.of)
    [] q.func = "avg" -> /\ value.of = Cardinality(R)
                         /\ InRange(Total(R, q.of)) => value.sum = Total(R, q.of)
    [] q.func \in {"min", "max"} ->
         IF R = {} THEN value = 0
         ELSE /\ \E row \in R : row.fields[q.of] = value
              /\ \A row \in R : IF q.func = "min" THEN value <= row.fields[q.of]
                                                  ELSE row.fields[q.of] <= value

\* The rows that pass, or a group for each key among them with the value of its
\* function, or as many of these as the limit allows; only a sum that no i64 can
\* hold may be answered otherwise, or not at all.
IsAnswer(answer, table, q) ==
  LET passing == {row \in table : Passes(row, q)}
      keys    == IF q.by = {} THEN {<<>>} ELSE {KeyOf(row, q) : row \in passing}
      With(k) == {row \in passing : KeyOf(row, q) = k} IN
  IF q.kind = "query"
  THEN /\ ToSet(answer) \subseteq passing /\ IsInjective(answer)
       /\ Len(answer) = Least(q.limit, Cardinality(passing))
  ELSE IF answer = Panicked
  THEN q.func \in {"sum", "avg"} /\ \E k \in keys : ~InRange(Total(With(k), q.of))
  ELSE /\ Len(answer) = Least(q.limit, Cardinality(keys))
       /\ IsInjective([i \in DOMAIN answer |-> answer[i].key])
       /\ \A i \in DOMAIN answer :
            answer[i].key \in keys /\ IsValue(answer[i].value, With(answer[i].key), q)
==============================================================================
