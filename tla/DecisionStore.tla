---------------------------- MODULE DecisionStore ----------------------------
(* The tables the decision workflows write (predictions, value_bets and       *)
(* decision_logs) behind Database.session(): one READ COMMITTED transaction   *)
(* per session, committed when the session's block ends normally and rolled   *)
(* back when it raises.  PostgreSQL itself is external; what is used of it is *)
(*   - a statement sees the committed rows and the session's own rows;        *)
(*   - INSERT ... ON CONFLICT DO NOTHING waits while another open transaction *)
(*     holds an uncommitted row with the same primary key;                    *)
(*   - a statement that fails aborts the whole transaction: its rows are gone *)
(*     at once, every later statement of the session raises, and a COMMIT of  *)
(*     it is silently a ROLLBACK.                                             *)
(* A row is a record with a field "table"; equality of rows is equality of    *)
(* primary keys.                                                              *)
EXTENDS Naturals, FiniteSets

CONSTANT Sessions

VARIABLES rows,     \* the committed rows
          pending,  \* the uncommitted rows of each session
          aborted   \* whether a statement of the session's transaction failed

storeVars == <<rows, pending, aborted>>

StoreInit ==
  /\ rows = {}
  /\ pending = [s \in Sessions |-> {}]
  /\ aborted = [s \in Sessions |-> FALSE]

\* What a SELECT of session s returns.
Sees(s) == rows \cup pending[s]

\* Another open transaction holds one of the rows.
Contended(s, new) == \E t \in Sessions \ {s} : pending[t] \cap new # {}

\* add_if_absent: INSERT ... ON CONFLICT DO NOTHING.
InsertIfAbsent(s, new) ==
  /\ ~aborted[s]
  /\ ~Contended(s, new)
  /\ pending' = [pending EXCEPT ![s] = @ \cup (new \ rows)]
  /\ UNCHANGED <<rows, aborted>>

\* An INSERT of a row whose id is a fresh uuid4: nothing to wait for.
Insert(s, row) ==
  /\ ~aborted[s]
  /\ pending' = [pending EXCEPT ![s] = @ \cup {row}]
  /\ UNCHANGED <<rows, aborted>>

\* A statement of session s fails on the server and the caller swallows it.
StatementFails(s) ==
  /\ ~aborted[s]
  /\ pending' = [pending EXCEPT ![s] = {}]
  /\ aborted' = [aborted EXCEPT ![s] = TRUE]
  /\ UNCHANGED rows

\* The session's block ended normally.
Commit(s) ==
  /\ rows' = rows \cup pending[s]
  /\ pending' = [pending EXCEPT ![s] = {}]
  /\ aborted' = [aborted EXCEPT ![s] = FALSE]

\* The session's block raised, or its process or connection is gone.
Rollback(s) ==
  /\ pending' = [pending EXCEPT ![s] = {}]
  /\ aborted' = [aborted EXCEPT ![s] = FALSE]
  /\ UNCHANGED rows
=============================================================================
