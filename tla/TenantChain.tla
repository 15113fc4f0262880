----------------------------- MODULE TenantChain -----------------------------
(***************************************************************************)
(* The Postgres audit store, bridge-ui/backend/scale/audit_postgres.py:    *)
(* one hash chain per tenant, appended to by several processes.            *)
(*                                                                         *)
(* The threads of a process share one connection, and so one transaction:  *)
(* a row another thread has inserted is committed or rolled back with      *)
(* whatever thread commits or rolls back first, and a statement that fails *)
(* spoils the transaction for all.  A lock per tenant keeps two threads of *)
(* a process off one chain; the primary key is what keeps two processes    *)
(* off one seq.  An insert of a key that another open transaction holds    *)
(* waits for it, and the connection with it.  READ COMMITTED, the default. *)
(***************************************************************************)
EXTENDS HashChain

CONSTANTS
  Processes, Threads, Home,   \* Home: the process a thread belongs to
  Tenants, NoWork,
  MaxAppends,   \* bound: calls of append
  MaxCrashes    \* bound: crashes

ASSUME TenantAssumption ==
  /\ IsFiniteSet(Processes) /\ Home \in [Threads -> Processes]
  /\ MaxAppends \in Nat /\ Body = 1..MaxAppends

VARIABLES
  table,    \* tenant -> its committed rows
  open,     \* process -> what its transaction has inserted, by tenant
  spoilt,   \* processes whose transaction a failed statement has spoilt
  at, work, \* where each thread is, and what it appends
  acked,    \* history: what append has returned
  appends, crashes

vars == <<table, open, spoilt, at, work, acked, appends, crashes>>

NoRows == [n \in Tenants |-> {}]

Init ==
  /\ table = NoRows
  /\ open = [p \in Processes |-> NoRows]
  /\ spoilt = {}
  /\ at = [t \in Threads |-> "idle"]
  /\ work = [t \in Threads |-> NoWork]
  /\ acked = {}
  /\ appends = 0 /\ crashes = 0

---------------------------------------------------------------------------

Goto(t, here, there) == at[t] = here /\ at' = [at EXCEPT ![t] = there]
Mates(t)   == {u \in Threads \ {t} : Home[u] = Home[t]}
Locked(t, n) == \E u \in Mates(t) : at[u] # "idle" /\ work[u].tenant = n

\* psycopg runs one statement of a connection at a time.
ConnectionFree(t) == \A u \in Mates(t) : at[u] # "waiting"
Spoilt(t) == Home[t] \in spoilt

Holders(t) ==   \* the other transactions that have inserted the thread's key
  {p \in Processes \ {Home[t]} :
    \E e \in open[p][work[t].tenant] : e.seq = work[t].row.seq}
\* Mutant: no primary key.
NeverTaken(t) == FALSE

Taken(t) == \E e \in table[work[t].tenant] : e.seq = work[t].row.seq

Row(rows, body) ==
  LET s == LastSeq(rows) + 1 IN
  [seq |-> s, prev |-> LastHash(rows), hash |-> Digest(s, LastHash(rows), body), body |-> body]

\* append up to its INSERT: the tenant's lock, and the head of its chain.  A
\* SELECT in a spoilt transaction raises, and the append has changed nothing.
ReadHead(t, n) ==
  /\ appends < MaxAppends /\ appends' = appends + 1
  /\ ~Locked(t, n) /\ ConnectionFree(t) /\ ~Spoilt(t)
  /\ Goto(t, "idle", "insert")
  /\ LET seen == table[n] \cup open[Home[t]][n] IN
       work' = [work EXCEPT ![t] =
                 [tenant |-> n, row |-> Row(seen, appends + 1), wrecked |-> FALSE]]
  /\ UNCHANGED <<table, open, spoilt, acked, crashes>>

\* The SELECT fails.  It is outside the try, so that nothing rolls back: until a
\* mate's append ends the transaction, every SELECT of the process raises.
ReadHeadBreaks(t, n) ==
  /\ appends < MaxAppends /\ appends' = appends + 1
  /\ at[t] = "idle" /\ ~Locked(t, n) /\ ConnectionFree(t)
  /\ spoilt' = spoilt \cup {Home[t]}
  /\ UNCHANGED <<table, open, at, work, acked, crashes>>

Fails(t, here) ==
  /\ Goto(t, here, "rollback")
  /\ spoilt' = spoilt \cup {Home[t]}
  /\ UNCHANGED <<table, open, work, acked, appends, crashes>>

InsertRuns(t) == at[t] = "waiting" \/ (at[t] = "insert" /\ ConnectionFree(t))

\* Mutant: ON CONFLICT DO UPDATE.
InsertUpserts(t) ==
  /\ InsertRuns(t)
  /\ ~Spoilt(t) /\ Holders(t) = {}
  /\ Goto(t, at[t], "commit")
  /\ table' = [table EXCEPT ![work[t].tenant] = {e \in @ : e.seq # work[t].row.seq}]
  /\ open' = [open EXCEPT ![Home[t]][work[t].tenant] = @ \cup {work[t].row}]
  /\ UNCHANGED <<spoilt, work, acked, appends, crashes>>

\* The INSERT: it waits for whoever has the key, and a key that has been
\* committed is a UniqueViolation.
Insert(t) ==
  /\ InsertRuns(t)
  /\ ~Spoilt(t) /\ Holders(t) = {} /\ ~Taken(t)
  /\ Goto(t, at[t], "commit")
  /\ open' = [open EXCEPT ![Home[t]][work[t].tenant] = @ \cup {work[t].row}]
  /\ UNCHANGED <<table, spoilt, work, acked, appends, crashes>>

InsertWaits(t) ==
  /\ Goto(t, "insert", "waiting")
  /\ ConnectionFree(t) /\ ~Spoilt(t) /\ Holders(t) # {}
  /\ UNCHANGED <<table, open, spoilt, work, acked, appends, crashes>>

\* Mutant: ON CONFLICT DO NOTHING.
InsertIgnored(t) ==
  /\ InsertRuns(t)
  /\ ~Spoilt(t) /\ Taken(t)
  /\ Goto(t, at[t], "commit")
  /\ UNCHANGED <<table, open, spoilt, work, acked, appends, crashes>>

InsertRefused(t) ==
  /\ InsertRuns(t)
  /\ Spoilt(t) \/ Taken(t)
  /\ Fails(t, at[t])

\* Postgres breaks a circle of transactions that wait for each other, and a
\* statement may fail for reasons of its own.
Awaits(p, q) == \E u \in Threads : Home[u] = p /\ at[u] = "waiting" /\ q \in Holders(u)
Circle(t) == \E S \in SUBSET Processes :
  /\ Home[t] \in S
  /\ \A p \in S : (\E q \in S : Awaits(p, q)) /\ (\E q \in S : Awaits(q, p))
DeadlockBroken(t) == at[t] = "waiting" /\ Circle(t) /\ Fails(t, "waiting")
InsertBreaks(t) == ConnectionFree(t) /\ Fails(t, "insert")

\* The transaction of thread t's process ends: its rows are in the table or gone.
Ends(t, kept) ==
  LET p == Home[t] IN
    /\ table' = IF kept THEN [n \in Tenants |-> table[n] \cup open[p][n]] ELSE table
    /\ open' = [open EXCEPT ![p] = NoRows]
    /\ spoilt' = spoilt \ {p}
    /\ work' = [u \in Threads |->
                 IF u = t THEN NoWork
                 ELSE IF u \in Mates(t) /\ at[u] = "commit" /\ ~kept
                      THEN [work[u] EXCEPT !.wrecked = TRUE]
                      ELSE work[u]]

\* commit, which rolls a spoilt transaction back without an error, and return.
Commit(t) ==
  /\ ConnectionFree(t)
  /\ Goto(t, "commit", "idle")
  /\ Ends(t, ~Spoilt(t))
  /\ acked' = acked \cup {[work[t] EXCEPT !.wrecked = @ \/ Spoilt(t)]}
  /\ UNCHANGED <<appends, crashes>>

CommitBreaks(t) == ConnectionFree(t) /\ Fails(t, "commit")

\* Mutant: raises and leaves the transaction as it is.
RaiseOnly(t) ==
  /\ Goto(t, "rollback", "idle")
  /\ work' = [work EXCEPT ![t] = NoWork]
  /\ UNCHANGED <<table, open, spoilt, acked, appends, crashes>>

\* The except clause: rollback and RuntimeError.
Rollback(t) ==
  /\ ConnectionFree(t)
  /\ Goto(t, "rollback", "idle")
  /\ Ends(t, FALSE)
  /\ UNCHANGED <<acked, appends, crashes>>

Crash(p) ==
  /\ crashes < MaxCrashes /\ crashes' = crashes + 1
  /\ open' = [open EXCEPT ![p] = NoRows]
  /\ spoilt' = spoilt \ {p}
  /\ at'   = [t \in Threads |-> IF Home[t] = p THEN "idle" ELSE at[t]]
  /\ work' = [t \in Threads |-> IF Home[t] = p THEN NoWork ELSE work[t]]
  /\ UNCHANGED <<table, acked, appends>>

Advance(t) ==
  \/ Insert(t) \/ InsertWaits(t) \/ InsertRefused(t) \/ InsertBreaks(t)
  \/ DeadlockBroken(t)
  \/ Commit(t) \/ CommitBreaks(t) \/ Rollback(t)

Next ==
  \/ \E t \in Threads : Advance(t)
  \/ \E t \in Threads, n \in Tenants : ReadHead(t, n) \/ ReadHeadBreaks(t, n)
  \/ \E p \in Processes : Crash(p)

Spec == Init /\ [][Next]_vars

---------------------------------------------------------------------------

\* Two processes that read one head do not fork a tenant's chain: what has been
\* committed for a tenant is one gapless chain, whoever commits it and whatever
\* is rolled back under whom.
OneChainPerTenant == \A n \in Tenants : Intact(table[n]) /\ Dense(table[n])

\* No append, refused or not, replaces a row.
RowsStay == [][\A n \in Tenants : table[n] \subseteq table'[n]]_table

\* What append returned is in the table, unless a mate's failure ended their
\* transaction under it: append returns in that case as well.
AckedIsStored ==
  \A a \in acked : a.row \in table[a.tenant] \/ a.wrecked

\* The appends never wait for each other for good: while one is under way, one
\* can go on.  A row left open by a call that has raised would hold the others.
NeverStuck ==
  (\E t \in Threads : at[t] # "idle") =>
    \E t \in Threads :
      \/ at[t] \notin {"idle", "waiting"} /\ ConnectionFree(t)
      \/ at[t] = "waiting" /\ (Holders(t) = {} \/ Circle(t))
=============================================================================
