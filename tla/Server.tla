------------------------------- MODULE Server -------------------------------
(***************************************************************************)
(* The network store (trimtab/server.py): a threading HTTP server whose    *)
(* threads share one Store and so one database connection, at the          *)
(* granularity of SQL statements.  Statements of all threads fall into one *)
(* open transaction, every thread sees them at once, and whoever commits   *)
(* first makes all of them durable.  Nothing in the store rolls back.      *)
(*                                                                         *)
(* A row holds the number of the request that wrote it last, a deletion    *)
(* included.  Requests are the writing routes of dispatch; what the routes *)
(* read is abstracted to the check of promote, which may refuse.           *)
(***************************************************************************)
EXTENDS Naturals, Sequences, FiniteSets

CONSTANTS
  Threads,       \* handler threads
  Rows,          \* rows of the store
  Routes,        \* route -> [checked, writes]: the rows each of its statements writes
  Dialects,      \* the databases to consider: "sqlite", "postgres"
  MaxRequests,   \* bound on requests
  MaxFailures    \* bound on failing statements, failing commits and restarts

ASSUME ServerAssumption ==
  /\ \A q \in DOMAIN Routes : Routes[q] \in [checked : BOOLEAN, writes : Seq(SUBSET Rows)]
  /\ Dialects \subseteq {"sqlite", "postgres"}
  /\ MaxRequests \in Nat /\ MaxFailures \in Nat

VARIABLES
  dialect,    \* which database the server was started on
  db,         \* row -> writer, as the shared connection sees it
  disk,       \* row -> writer, as it is durable
  aborted,    \* Postgres: the transaction has failed and ignores statements
  thread,     \* thread -> what it is doing
  answer,     \* request -> what its client was told
  wrote,      \* history: row -> the requests that wrote it, in order
  poisoned,   \* history: a statement failed on Postgres in this transaction or before
  failures    \* number of failures so far

vars == <<dialect, db, disk, aborted, thread, answer, wrote, poisoned, failures>>

-----------------------------------------------------------------------------
Requests == 1 .. Len(answer)
Free == [pc |-> "free", request |-> 0, left |-> <<>>]

TypeOK ==
  /\ dialect \in Dialects
  /\ db \in [Rows -> 0 .. MaxRequests]
  /\ disk \in [Rows -> 0 .. MaxRequests]
  /\ aborted \in BOOLEAN
  /\ thread \in [Threads ->
       [pc : {"free", "check", "execute", "commit", "answer"}, request : 0 .. MaxRequests,
        left : Seq(SUBSET Rows)]]
  /\ answer \in Seq({"none", "ok", "refused", "dropped"})
  /\ wrote \in [Rows -> Seq(1 .. MaxRequests)]
  /\ poisoned \in BOOLEAN
  /\ failures \in 0 .. MaxFailures

Init ==
  /\ dialect \in Dialects
  /\ db = [k \in Rows |-> 0]
  /\ disk = db
  /\ aborted = FALSE
  /\ thread = [t \in Threads |-> Free]
  /\ answer = <<>>
  /\ wrote = [k \in Rows |-> <<>>]
  /\ poisoned = FALSE
  /\ failures = 0

At(t, pc) == thread[t].pc = pc
Goto(t, pc) == thread' = [thread EXCEPT ![t].pc = pc]
n(t) == thread[t].request

\* With these statements left the request executes, without any it commits.
Onward(left) == IF left = <<>> THEN "commit" ELSE "execute"

\* The request is over and its client told what.
End(t, what) ==
  /\ thread' = [thread EXCEPT ![t] = Free]
  /\ answer' = [answer EXCEPT ![n(t)] = what]

Fail == failures < MaxFailures /\ failures' = failures + 1

-----------------------------------------------------------------------------
(* One request: _route, dispatch, and the methods of Store.                *)

Receive(t, q) ==
  /\ At(t, "free")
  /\ Len(answer) < MaxRequests
  /\ answer' = Append(answer, "none")
  /\ thread' = [thread EXCEPT ![t] =
       [pc |-> IF Routes[q].checked THEN "check" ELSE Onward(Routes[q].writes),
        request |-> Len(answer) + 1, left |-> Routes[q].writes]]
  /\ UNCHANGED <<dialect, db, disk, aborted, wrote, poisoned, failures>>

\* The reading routes, and the requests without the token, change nothing.
Read(t) == At(t, "free") /\ UNCHANGED vars

\* The version of a promote exists and belongs to the group, or not: 400, 404.
Check(t) ==
  /\ At(t, "check")
  /\ ~aborted
  /\ \/ Goto(t, Onward(thread[t].left)) /\ UNCHANGED answer
     \/ End(t, "refused")
  /\ UNCHANGED <<dialect, db, disk, aborted, wrote, poisoned, failures>>

\* _exec: the statement joins the connection's open transaction.
Execute(t) ==
  LET rows == Head(thread[t].left) IN
  /\ At(t, "execute")
  /\ ~aborted
  /\ db' = [k \in Rows |-> IF k \in rows THEN n(t) ELSE db[k]]
  /\ wrote' = [k \in Rows |-> IF k \in rows THEN Append(wrote[k], n(t)) ELSE wrote[k]]
  /\ thread' = [thread EXCEPT ![t].left = Tail(@), ![t].pc = Onward(Tail(thread[t].left))]
  /\ UNCHANGED <<dialect, disk, aborted, answer, poisoned, failures>>

\* Mutant: the answer is on its way before the commit.
CommitLater(t) ==
  /\ At(t, "commit")
  /\ Goto(t, "answer")
  /\ UNCHANGED <<dialect, db, disk, aborted, answer, wrote, poisoned, failures>>

\* A commit publishes the statements of every thread.  On Postgres the commit
\* of a failed transaction is a rollback, and does not raise.
Commit(t) ==
  /\ At(t, "commit")
  /\ IF aborted THEN db' = disk /\ UNCHANGED disk ELSE disk' = db /\ UNCHANGED db
  /\ aborted' = FALSE
  /\ Goto(t, "answer")
  /\ UNCHANGED <<dialect, answer, wrote, poisoned, failures>>

\* Mutant: a method that returns None is answered with null, not with ok.
AnswerNull(t) ==
  /\ At(t, "answer")
  /\ End(t, "null")
  /\ UNCHANGED <<dialect, db, disk, aborted, wrote, poisoned, failures>>

Answer(t) ==
  /\ At(t, "answer")
  /\ End(t, "ok")
  /\ UNCHANGED <<dialect, db, disk, aborted, wrote, poisoned, failures>>

-----------------------------------------------------------------------------
(* Failures: an exception that is neither a KeyError nor a ValueError ends *)
(* the thread without an answer, and what it executed stays.               *)

\* Mutant: SQLite's transaction is lost with the statement, as on Postgres.
StatementPoisons(t) ==
  /\ At(t, "check") \/ At(t, "execute")
  /\ Fail
  /\ End(t, "dropped")
  /\ aborted' = TRUE
  /\ UNCHANGED <<dialect, db, disk, wrote, poisoned>>

\* The database is locked by another process, a statement deadlocks with one.
StatementFails(t) ==
  /\ At(t, "check") \/ At(t, "execute")
  /\ ~aborted
  /\ Fail
  /\ End(t, "dropped")
  /\ aborted' = (dialect = "postgres")
  /\ poisoned' = (poisoned \/ aborted')
  /\ UNCHANGED <<dialect, db, disk, wrote>>

\* In a failed transaction every statement fails, reads included.
StatementIgnored(t) ==
  /\ At(t, "check") \/ At(t, "execute")
  /\ aborted
  /\ End(t, "dropped")
  /\ UNCHANGED <<dialect, db, disk, aborted, wrote, poisoned, failures>>

\* SQLite's commit finds the database locked; the transaction stays open.
CommitBusy(t) ==
  /\ At(t, "commit")
  /\ dialect = "sqlite"
  /\ Fail
  /\ End(t, "dropped")
  /\ UNCHANGED <<dialect, db, disk, aborted, wrote, poisoned>>

\* The answer does not reach its client, which gives up after its timeout.
AnswerLost(t) ==
  /\ At(t, "answer")
  /\ Fail
  /\ End(t, "dropped")
  /\ UNCHANGED <<dialect, db, disk, aborted, wrote, poisoned>>

\* The process dies and the Deployment starts it again.
Restart ==
  /\ Fail
  /\ db' = disk
  /\ aborted' = FALSE
  /\ thread' = [t \in Threads |-> Free]
  /\ answer' = [i \in Requests |-> IF answer[i] = "none" THEN "dropped" ELSE answer[i]]
  /\ UNCHANGED <<dialect, disk, wrote, poisoned>>

Step(t) == Check(t) \/ Execute(t) \/ StatementIgnored(t) \/ Commit(t) \/ Answer(t)

Next ==
  \/ \E t \in Threads :
       \/ \E q \in DOMAIN Routes : Receive(t, q)
       \/ Read(t)
       \/ Step(t)
       \/ StatementFails(t) \/ CommitBusy(t) \/ AnswerLost(t)
  \/ Restart

Spec == Init /\ [][Next]_vars
LiveSpec == Spec /\ \A t \in Threads : WF_vars(Step(t))

-----------------------------------------------------------------------------
(* Properties. *)

WroteTo(k) == {wrote[k][j] : j \in DOMAIN wrote[k]}

\* Of the writers w of a row, a wrote no later than b.
NotAfter(w, a, b) == a = b \/ \E i, j \in DOMAIN w : i < j /\ w[i] = a /\ w[j] = b

\* An acknowledged write is durable (Store: a commit before every return):
\* each row that a request answered with 200 wrote holds that write or a later
\* one on disk, although threads share the transaction, statements and commits
\* fail halfway and the server restarts.  On Postgres this stops at the first
\* statement that fails: the commit of another thread then rolls back.
AckedIsDurable ==
  ~poisoned =>
    \A i \in Requests : answer[i] = "ok" =>
      \A k \in Rows : i \in WroteTo(k) => NotAfter(wrote[k], i, disk[k])

\* One failure costs one request (ThreadingHTTPServer): on SQLite a server
\* whose database stops failing answers every request, with a result.
Serves ==
  dialect = "sqlite" =>
    \A i \in 1 .. MaxRequests :
      (i \in Requests /\ failures = MaxFailures /\ answer[i] = "none")
        ~> (i \in Requests /\ answer[i] \in {"ok", "refused"})

-----------------------------------------------------------------------------
(* The inductive invariant of the safety proofs. *)

\* A request is handled by one thread until it is answered.
ThreadsOwn ==
  \A t \in Threads : ~At(t, "free") =>
    /\ n(t) \in Requests
    /\ answer[n(t)] = "none"
    /\ \A u \in Threads : ~At(u, "free") /\ n(u) = n(t) => u = t
    /\ At(t, "execute") => thread[t].left # <<>>

WritersKnown == \A k \in Rows : WroteTo(k) \subseteq Requests

Committed(i) == answer[i] = "ok" \/ \E t \in Threads : At(t, "answer") /\ n(t) = i
Standing(i)  == answer[i] = "ok" \/ \E t \in Threads : ~At(t, "free") /\ n(t) = i

\* The connection sees every write of a request that is answered or still at
\* work, and the disk holds it once the request is past its commit.
WritesStand ==
  ~poisoned =>
    \A k \in Rows : \A i \in WroteTo(k) :
      /\ Standing(i) => NotAfter(wrote[k], i, db[k])
      /\ Committed(i) => NotAfter(wrote[k], i, disk[k])

SrvInv == TypeOK /\ ThreadsOwn /\ WritersKnown /\ (aborted => poisoned) /\ WritesStand
=============================================================================
