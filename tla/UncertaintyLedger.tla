-------------------------- MODULE UncertaintyLedger --------------------------
(***************************************************************************)
(* The uncertainty ledger, src/lub/ledger/store.py: log_query, log_answer  *)
(* and log_score of processes that share one SQLite file.                  *)
(*                                                                         *)
(* A log_ method is one INSERT in a transaction of its own, and is tried   *)
(* again when SQLite finds the database locked.  A row says which call of  *)
(* log_ wrote it: the step of the recording of an answer, and which one.   *)
(* SQLite is external: one writer at a time, AUTOINCREMENT ids, a          *)
(* transaction that a failed statement leaves open.                        *)
(***************************************************************************)
EXTENDS Naturals, FiniteSets

CONSTANTS
  Procs, NoProc,
  MaxAttempts,   \* _RETRY_MAX_ATTEMPTS
  MaxFaults      \* bound: crashes, and failures of SQLite beside a held lock

ASSUME LedgerAssumption ==
  /\ NoProc \notin Procs
  /\ MaxAttempts \in Nat \ {0} /\ MaxFaults \in Nat

VARIABLES
  rows,      \* what is committed
  lastId,    \* table -> the last id given, in what is committed
  open,      \* process -> the rows of its open transaction
  lock,      \* the process that holds the write lock
  log,       \* process -> its call of a log_ method
  refused,   \* history: the calls that raised
  faults

lvars == <<rows, lastId, open, lock, log, refused, faults>>

Tables == {"queries", "answers", "uq_scores"}
Table(step) ==
  CASE step = 1 -> "queries" [] step = 2 -> "answers" [] OTHER -> "uq_scores"

NoLog == [at |-> "out", ask |-> 0, step |-> 0, ref |-> 0, attempt |-> 0, id |-> 0]

LedgerInit ==
  /\ rows = {} /\ lastId = [n \in Tables |-> 0]
  /\ open = [p \in Procs |-> {}] /\ lock = NoProc
  /\ log = [p \in Procs |-> NoLog]
  /\ refused = {} /\ faults = 0

Fault == faults < MaxFaults /\ faults' = faults + 1

---------------------------------------------------------------------------

\* A call of log_query (step 1), log_answer (2) or log_score (3 and on).
StartLog(p, ask, step, ref) ==
  log' = [log EXCEPT ![p] = [at |-> "insert", ask |-> ask, step |-> step,
                             ref |-> ref, attempt |-> 1, id |-> 0]]

OpenRows(p, n) == Cardinality({r \in open[p] : r.table = n})
NextId(p) ==
  LET n == Table(log[p].step) IN lastId[n] + OpenRows(p, n) + 1

Row(p) == [table |-> Table(log[p].step), id |-> NextId(p),
           ask |-> log[p].ask, step |-> log[p].step, ref |-> log[p].ref]

Insert(p) ==
  /\ log[p].at = "insert" /\ lock \in {NoProc, p}
  /\ lock' = p
  /\ open' = [open EXCEPT ![p] = @ \cup {Row(p)}]
  /\ log' = [log EXCEPT ![p].at = "commit", ![p].id = NextId(p)]
  /\ UNCHANGED <<rows, lastId, refused, faults>>

\* commit, and the method returns the id of the row.
Commit(p) ==
  /\ log[p].at = "commit"
  /\ rows' = rows \cup open[p]
  /\ lastId' = [n \in Tables |-> lastId[n] + OpenRows(p, n)]
  /\ open' = [open EXCEPT ![p] = {}] /\ lock' = NoProc
  /\ log' = [log EXCEPT ![p].at = "returned"]
  /\ UNCHANGED <<refused, faults>>

Unlocked(p) == IF lock = p THEN NoProc ELSE lock

\* Mutant: _tx passes the error on and leaves its transaction open.
NoRollback(p) == UNCHANGED <<open, lock>>

\* _tx when its body or its commit raised.
Rollback(p) == open' = [open EXCEPT ![p] = {}] /\ lock' = Unlocked(p)

Raise(p) ==
  /\ log' = [log EXCEPT ![p].at = "raised"]
  /\ refused' = refused \cup {[ask |-> log[p].ask, step |-> log[p].step]}

\* "locked" or "busy": tried again after a nap, a limited number of times.
TryAgain(p) ==
  /\ Rollback(p)
  /\ \/ /\ log[p].attempt < MaxAttempts
        /\ log' = [log EXCEPT ![p].at = "asleep", ![p].attempt = @ + 1]
        /\ UNCHANGED refused
     \/ log[p].attempt = MaxAttempts /\ Raise(p)
  /\ UNCHANGED <<rows, lastId>>

Locked(p) ==
  /\ log[p].at = "insert" /\ lock \notin {NoProc, p}
  /\ TryAgain(p) /\ UNCHANGED faults

\* Where the file has no WAL, a reader may hold the commit up.
CommitBusy(p) == log[p].at = "commit" /\ Fault /\ TryAgain(p)

WakeUp(p) ==
  /\ log[p].at = "asleep"
  /\ log' = [log EXCEPT ![p].at = "insert"]
  /\ UNCHANGED <<rows, lastId, open, lock, refused, faults>>

\* A full disk, an I/O error: the statement or the commit raises for good.
Breaks(p) ==
  /\ log[p].at \in {"insert", "commit"} /\ Fault
  /\ Rollback(p) /\ Raise(p)
  /\ UNCHANGED <<rows, lastId>>

LedgerStep(p) ==
  Insert(p) \/ Commit(p) \/ Locked(p) \/ CommitBusy(p) \/ WakeUp(p) \/ Breaks(p)

\* The process dies: SQLite gives its transaction and its lock up.
Die(p) ==
  /\ Fault
  /\ open' = [open EXCEPT ![p] = {}] /\ lock' = Unlocked(p)
  /\ log' = [log EXCEPT ![p] = NoLog]
  /\ UNCHANGED <<rows, lastId, refused>>

---------------------------------------------------------------------------

\* "The wrapped method is expected to be idempotent across the retry boundary":
\* however often a write is tried, it is stored once when it returned, under
\* the id it returned, and not at all when it raised, then or later.
StoredOnce ==
  /\ \A r, s \in rows : r.ask = s.ask /\ r.step = s.step => r = s
  /\ \A p \in Procs : log[p].at = "returned" =>
       \E r \in rows : /\ r.ask = log[p].ask /\ r.step = log[p].step
                       /\ r.id = log[p].id
  /\ \A c \in refused : \A r \in rows : ~(r.ask = c.ask /\ r.step = c.step)
=============================================================================
