--------------------------- MODULE TenantChainProofs ---------------------------
(***************************************************************************)
(* Theorems about TenantChain, for any number of processes, threads and    *)
(* tenants and any order of their statements.                              *)
(*                                                                         *)
(* The one idea: a row can only be inserted where the committed chain of   *)
(* its tenant ends (the head it was read from has not moved, or its seq is *)
(* taken), and only one transaction at a time can have inserted there.  So *)
(* whatever is committed continues the chain.                              *)
(*                                                                         *)
(* Nobody waits for good: when every running call waits, a smallest set of *)
(* processes that await each other is a circle, which Postgres breaks.     *)
(***************************************************************************)
EXTENDS TenantChain, HashChainProofs, FiniteSetTheorems

Work == [tenant : Tenants, row : Entry, wrecked : BOOLEAN]
Active(t) == at[t] # "idle"

Typed ==
  /\ table \in [Tenants -> SUBSET Entry]
  /\ open \in [Processes -> [Tenants -> SUBSET Entry]]
  /\ at \in [Threads -> {"idle", "insert", "waiting", "commit", "rollback"}]
  /\ DOMAIN work = Threads
  /\ \A t \in Threads : Active(t) => work[t] \in Work
  /\ appends \in 0..MaxAppends

\* The lock of a tenant: two threads of a process are not on one chain.
Apart ==
  \A t, u \in Threads :
    t # u /\ Home[t] = Home[u] /\ Active(t) /\ Active(u) =>
      work[t].tenant # work[u].tenant

\* What a transaction has inserted is the row of a call that has not returned.
Owned ==
  \A p \in Processes, n \in Tenants : \A e \in open[p][n] :
    \E t \in Threads : /\ Home[t] = p /\ at[t] \in {"commit", "rollback"}
                       /\ work[t].tenant = n /\ work[t].row = e

Grown(n) ==
  Chain(table[n]) /\ EndsAt(table[n], LastSeq(table[n]), LastHash(table[n]))

\* A row fits behind a table.
Fits(rows, e) == e.seq = LastSeq(rows) + 1 /\ e.prev = LastHash(rows)

\* The row of a call continues the chain it was read from, or that chain has
\* grown past it.
Ready(t) ==
  Active(t) =>
    LET rows == table[work[t].tenant]
        e    == work[t].row
    IN /\ Sealed(e) /\ e.seq > 0 /\ e.seq <= LastSeq(rows) + 1
       /\ e.seq = LastSeq(rows) + 1 => Fits(rows, e)

\* Open rows continue their chain, and one transaction at most has any.
OpenFits == \A p \in Processes, n \in Tenants : \A e \in open[p][n] : Fits(table[n], e)
Alone ==
  \A p, q \in Processes, n \in Tenants : open[p][n] # {} /\ open[q][n] # {} => p = q

\* A call that is about to commit has its row in the transaction or the table,
\* or knows that it was rolled back.
Placed ==
  \A t \in Threads : at[t] = "commit" =>
    \/ work[t].row \in table[work[t].tenant] \cup open[Home[t]][work[t].tenant]
    \/ work[t].wrecked

IInv ==
  /\ Typed /\ Apart /\ Owned /\ OpenFits /\ Alone /\ Placed
  /\ \A n \in Tenants : Grown(n)
  /\ \A t \in Threads : Ready(t)

\* The end of a chain, in numbers.
LEMMA EndFacts ==
  ASSUME NEW rows \in SUBSET Entry, Chain(rows),
         EndsAt(rows, LastSeq(rows), LastHash(rows))
  PROVE  /\ LastSeq(rows) \in Nat /\ LastHash(rows) \in Digests
         /\ \A e \in rows : e.seq <= LastSeq(rows)
         /\ \A s \in 1..LastSeq(rows) : \E e \in rows : e.seq = s
<1>1. HasNewest(rows)
  BY EndsAtLast
<1>2. ASSUME NEW s \in 1..LastSeq(rows) PROVE \E e \in rows : e.seq = s
  <2>1. rows # {}
    BY <1>2 DEF LastSeq
  <2>2. PICK e \in rows : e.seq = LastSeq(rows)
    BY <2>1 DEF EndsAt
  <2> QED BY <1>2, <2>2 DEF Chain, Dense
<1> QED BY <1>1, <1>2, LastIsARow

\* The row that append makes behind a table fits there.
LEMMA RowFits ==
  ASSUME NEW rows \in SUBSET Entry, HasNewest(rows), NEW body \in Body
  PROVE  /\ Row(rows, body) \in Entry /\ Sealed(Row(rows, body))
         /\ Fits(rows, Row(rows, body)) /\ Row(rows, body).seq > 0
<1>1. LastSeq(rows) \in Nat /\ LastHash(rows) \in Digests
  BY LastIsARow
<1>2. <<LastSeq(rows) + 1, body>> \in Nat \X Body
  BY <1>1
<1>3. Append(LastHash(rows), <<LastSeq(rows) + 1, body>>) \in Digests
  BY <1>1, <1>2 DEF Digests
<1> QED BY <1>1, <1>3 DEF Row, Entry, Sealed, Digest, Fits

\* Nobody has a row of a process open that is not a mate's.
LEMMA OneOwner ==
  ASSUME IInv, NEW t \in Threads, Active(t), NEW e \in open[Home[t]][work[t].tenant]
  PROVE  e = work[t].row
<1>1. Home[t] \in Processes /\ work[t].tenant \in Tenants
  BY TenantAssumption DEF IInv, Typed, Work
<1>2. PICK u \in Threads : /\ Home[u] = Home[t] /\ at[u] \in {"commit", "rollback"}
                           /\ work[u].tenant = work[t].tenant /\ work[u].row = e
  BY <1>1 DEF IInv, Owned
<1> QED BY <1>2 DEF IInv, Apart, Active

LEMMA InitHolds == Init => IInv
<1> SUFFICES ASSUME Init PROVE IInv
  OBVIOUS
<1>1. EndsAt({}, LastSeq({}), LastHash({})) /\ Chain({})
  BY DEF EndsAt, LastSeq, LastHash, Chain, Intact, Dense
<1>2. Typed
  BY TenantAssumption DEF Init, NoRows, Typed, Active
<1>3. /\ Apart /\ Owned /\ OpenFits /\ Alone /\ Placed
      /\ \A t \in Threads : Ready(t)
  BY DEF Init, NoRows, Apart, Owned, OpenFits, Alone, Placed, Ready, Active
<1>4. \A n \in Tenants : Grown(n)
  BY <1>1 DEF Init, NoRows, Grown
<1> QED BY <1>2, <1>3, <1>4 DEF IInv

---------------------------------------------------------------------------
\* A tenant's lock shows that no row of its process is open: the head that is
\* read is the committed one.
LEMMA ReadHeadStep ==
  ASSUME IInv, NEW t \in Threads, NEW n \in Tenants, ReadHead(t, n)
  PROVE  IInv'
<1> DEFINE rows == table[n]
           row  == Row(rows, appends + 1)
<1>1. Home[t] \in Processes /\ rows \in SUBSET Entry /\ ~Active(t)
  BY TenantAssumption DEF IInv, Typed, ReadHead, Goto, Active
<1>2. open[Home[t]][n] = {}
  <2> SUFFICES ASSUME NEW e \in open[Home[t]][n] PROVE FALSE
    OBVIOUS
  <2>1. PICK u \in Threads : /\ Home[u] = Home[t] /\ at[u] \in {"commit", "rollback"}
                             /\ work[u].tenant = n
    BY <1>1 DEF IInv, Owned
  <2>2. u \in Mates(t)
    BY <1>1, <2>1 DEF Mates, Active
  <2> QED BY <2>1, <2>2 DEF ReadHead, Locked
<1>3. /\ row \in Entry /\ Sealed(row) /\ Fits(rows, row) /\ row.seq > 0
      /\ row.seq <= LastSeq(rows) + 1
  <2>1. Chain(rows) /\ EndsAt(rows, LastSeq(rows), LastHash(rows))
    BY DEF IInv, Grown
  <2>2. appends + 1 \in Body /\ HasNewest(rows) /\ LastSeq(rows) \in Nat
    BY <1>1, <2>1, EndsAtLast, EndFacts, TenantAssumption DEF IInv, Typed, ReadHead
  <2> QED BY <1>1, <2>2, RowFits DEF Fits
<1>4. /\ UNCHANGED <<table, open>>
      /\ at' = [at EXCEPT ![t] = "insert"]
      /\ work' = [work EXCEPT ![t] = [tenant |-> n, row |-> row, wrecked |-> FALSE]]
      /\ appends' = appends + 1 /\ appends < MaxAppends
  <2>1. table[n] \cup open[Home[t]][n] = rows
    BY <1>2
  <2> QED BY <2>1 DEF ReadHead, Goto
<1> HIDE DEF row
<1>5. at'[t] = "insert" /\ work'[t] = [tenant |-> n, row |-> row, wrecked |-> FALSE]
  BY <1>4 DEF IInv, Typed
<1>6. \A u \in Threads \ {t} : at'[u] = at[u] /\ work'[u] = work[u]
  BY <1>4 DEF IInv, Typed
<1>7. Typed'
  <2>1. work'[t] \in Work
    BY <1>3, <1>5 DEF Work
  <2>2. \A u \in Threads \ {t} : Active(u)' => work'[u] \in Work
    BY <1>6 DEF IInv, Typed, Active
  <2>3. DOMAIN work' = Threads
    BY <1>4 DEF IInv, Typed
  <2>4. at' \in [Threads -> {"idle", "insert", "waiting", "commit", "rollback"}]
    BY <1>4 DEF IInv, Typed
  <2>5. appends' \in 0..MaxAppends
    BY <1>4, TenantAssumption DEF IInv, Typed
  <2> QED BY <1>4, <2>1, <2>2, <2>3, <2>4, <2>5 DEF IInv, Typed
<1>8. Apart'
  <2> SUFFICES ASSUME NEW u \in Threads, u # t, Home[u] = Home[t], Active(u)'
               PROVE  work'[u].tenant # n
    BY <1>5, <1>6 DEF IInv, Apart, Active
  <2>1. u \in Mates(t) /\ at[u] # "idle" /\ work'[u] = work[u]
    BY <1>6 DEF Mates, Active
  <2> QED BY <2>1 DEF ReadHead, Locked
<1>9. Owned' /\ OpenFits' /\ Alone'
  BY <1>1, <1>4, <1>6 DEF IInv, Owned, OpenFits, Alone, Active
<1>10. Placed' /\ \A m \in Tenants : Grown(m)'
  BY <1>4, <1>5, <1>6 DEF IInv, Placed, Grown
<1>11. \A u \in Threads : Ready(u)'
  BY <1>3, <1>4, <1>5, <1>6 DEF IInv, Ready, Active
<1> QED BY <1>7, <1>8, <1>9, <1>10, <1>11 DEF IInv

\* Where nobody has committed the row's seq, its chain has not moved since the
\* head was read; and who has a row open there has this very key.
LEMMA InsertStep ==
  ASSUME IInv, NEW t \in Threads, Insert(t)
  PROVE  IInv'
<1> DEFINE p == Home[t]
           n == work[t].tenant
           e == work[t].row
<1>1. /\ p \in Processes /\ Active(t) /\ work[t] \in Work /\ n \in Tenants /\ e \in Entry
      /\ at[t] \in {"insert", "waiting"}
  BY TenantAssumption DEF IInv, Typed, Insert, InsertRuns, Active, Work
<1>2. /\ open' = [open EXCEPT ![p][n] = @ \cup {e}]
      /\ at' = [at EXCEPT ![t] = "commit"]
      /\ UNCHANGED <<table, work, appends>>
  BY DEF Insert, Goto
<1>3. /\ open'[p][n] = open[p][n] \cup {e}
      /\ \A q \in Processes, m \in Tenants :
           q # p \/ m # n => open'[q][m] = open[q][m]
      /\ open' \in [Processes -> [Tenants -> SUBSET Entry]]
  BY <1>1, <1>2 DEF IInv, Typed
<1>4. at'[t] = "commit" /\ \A u \in Threads \ {t} : at'[u] = at[u]
  BY <1>2 DEF IInv, Typed
<1>5. Fits(table[n], e)
  <2>1. /\ table[n] \in SUBSET Entry /\ Chain(table[n])
        /\ EndsAt(table[n], LastSeq(table[n]), LastHash(table[n]))
    BY <1>1 DEF IInv, Typed, Grown
  <2>2. LastSeq(table[n]) \in Nat
        /\ \A s \in 1..LastSeq(table[n]) : \E f \in table[n] : f.seq = s
    BY <2>1, EndFacts
  <2>3. e.seq \in Nat /\ e.seq > 0 /\ e.seq <= LastSeq(table[n]) + 1
    BY <1>1 DEF IInv, Ready, Entry
  <2>4. e.seq \notin 1..LastSeq(table[n])
    BY <2>2 DEF Insert, Taken
  <2>5. e.seq = LastSeq(table[n]) + 1
    BY <2>2, <2>3, <2>4
  <2> QED BY <1>1, <2>5 DEF IInv, Ready
<1>6. \A q \in Processes \ {p} : open[q][n] = {}
  <2> SUFFICES ASSUME NEW q \in Processes \ {p}, NEW f \in open[q][n] PROVE FALSE
    OBVIOUS
  <2>1. f.seq = e.seq
    BY <1>1, <1>5 DEF IInv, OpenFits, Fits
  <2> QED BY <2>1 DEF Insert, Holders
<1>7. Typed'
  <2>1. \A u \in Threads : Active(u)' => work'[u] \in Work
    BY <1>1, <1>2, <1>4 DEF IInv, Typed, Active
  <2>2. at' \in [Threads -> {"idle", "insert", "waiting", "commit", "rollback"}]
    BY <1>2 DEF IInv, Typed
  <2> QED BY <1>2, <1>3, <2>1, <2>2 DEF IInv, Typed
<1>8. Apart' /\ Placed'
  BY <1>1, <1>2, <1>3, <1>4, TenantAssumption DEF IInv, Apart, Placed, Active, Typed, Work
<1>9. Owned'
  <2> SUFFICES ASSUME NEW q \in Processes, NEW m \in Tenants, NEW f \in open'[q][m]
               PROVE  \E u \in Threads : /\ Home[u] = q /\ at'[u] \in {"commit", "rollback"}
                                         /\ work'[u].tenant = m /\ work'[u].row = f
    BY DEF Owned
  <2>1. CASE q = p /\ m = n /\ f = e
    BY <1>2, <1>4, <2>1
  <2>2. CASE f \in open[q][m]
    <3>1. PICK u \in Threads : /\ Home[u] = q /\ at[u] \in {"commit", "rollback"}
                               /\ work[u].tenant = m /\ work[u].row = f
      BY <2>2 DEF IInv, Owned
    <3> QED BY <1>1, <1>2, <1>4, <3>1
  <2> QED BY <1>3, <2>1, <2>2
<1>10. OpenFits' /\ Alone'
  BY <1>2, <1>3, <1>5, <1>6 DEF IInv, OpenFits, Alone
<1>11. (\A m \in Tenants : Grown(m)') /\ \A u \in Threads : Ready(u)'
  BY <1>1, <1>2, <1>4 DEF IInv, Grown, Ready, Active
<1> QED BY <1>7, <1>8, <1>9, <1>10, <1>11 DEF IInv

\* A thread waits, or is to roll back; its row stays where it is.
LEMMA QuietStep ==
  ASSUME IInv, NEW t \in Threads, NEW there \in {"waiting", "rollback"},
         Active(t), there = "waiting" => at[t] = "insert",
         at' = [at EXCEPT ![t] = there], UNCHANGED <<table, open, work, appends>>
  PROVE  IInv'
<1>1. at'[t] = there /\ \A u \in Threads \ {t} : at'[u] = at[u]
  BY DEF IInv, Typed
<1>2. \A u \in Threads : Active(u)' <=> Active(u)
  BY <1>1 DEF Active
<1>3. \A u \in Threads : at[u] \in {"commit", "rollback"} => at'[u] \in {"commit", "rollback"}
  BY <1>1
<1>4. Typed' /\ Apart'
  BY <1>1, <1>2 DEF IInv, Typed, Apart
<1>5. Owned' /\ OpenFits' /\ Alone' /\ Placed'
  BY <1>1, <1>3 DEF IInv, Owned, OpenFits, Alone, Placed
<1>6. (\A m \in Tenants : Grown(m)') /\ \A u \in Threads : Ready(u)'
  BY <1>2 DEF IInv, Grown, Ready
<1> QED BY <1>4, <1>5, <1>6 DEF IInv

\* A transaction that ends leaves what a chain ends with: at most one row of a
\* tenant was open, and it fits.
LEMMA EndStep ==
  ASSUME IInv, NEW t \in Threads, NEW kept \in BOOLEAN,
         at[t] \in {"commit", "rollback"}, Ends(t, kept),
         at' = [at EXCEPT ![t] = "idle"], UNCHANGED appends
  PROVE  IInv'
<1> DEFINE p == Home[t]
           mine(n) == IF kept THEN open[p][n] ELSE {}
<1>1. /\ p \in Processes
      /\ \A n \in Tenants : table'[n] = table[n] \cup mine(n)
      /\ table' \in [Tenants -> SUBSET Entry]
  BY TenantAssumption DEF IInv, Typed, Ends
<1>2. /\ \A n \in Tenants : open'[p][n] = {}
      /\ \A q \in Processes \ {p} : open'[q] = open[q]
      /\ open' \in [Processes -> [Tenants -> SUBSET Entry]]
  BY <1>1 DEF IInv, Typed, Ends, NoRows
<1>3. at'[t] = "idle" /\ \A u \in Threads \ {t} : at'[u] = at[u]
  BY DEF IInv, Typed
<1>4. \A u \in Threads \ {t} : Active(u) =>
        /\ work'[u] \in Work
        /\ work'[u].tenant = work[u].tenant /\ work'[u].row = work[u].row
        /\ work[u].wrecked => work'[u].wrecked
        /\ ~kept /\ at[u] = "commit" /\ Home[u] = p => work'[u].wrecked
  <2> SUFFICES ASSUME NEW u \in Threads \ {t}, Active(u)
               PROVE  /\ work'[u] \in Work
                      /\ work'[u].tenant = work[u].tenant /\ work'[u].row = work[u].row
                      /\ work[u].wrecked => work'[u].wrecked
                      /\ ~kept /\ at[u] = "commit" /\ Home[u] = p => work'[u].wrecked
    OBVIOUS
  <2>1. work[u] \in Work
    BY DEF IInv, Typed
  <2>2. CASE Home[u] = p /\ at[u] = "commit" /\ ~kept
    <3>1. work'[u] = [work[u] EXCEPT !.wrecked = TRUE]
      BY <2>2 DEF Ends, Mates
    <3> QED BY <2>1, <3>1 DEF Work
  <2>3. CASE ~(Home[u] = p /\ at[u] = "commit" /\ ~kept)
    <3>1. work'[u] = work[u]
      BY <2>3 DEF Ends, Mates
    <3> QED BY <2>1, <2>3, <3>1
  <2> QED BY <2>2, <2>3
<1>5. \A u \in Threads : Active(u)' => u # t /\ Active(u)
  BY <1>3 DEF Active
<1>6. Typed'
  <2>1. DOMAIN work' = Threads
    BY DEF Ends
  <2>2. at' \in [Threads -> {"idle", "insert", "waiting", "commit", "rollback"}]
    BY DEF IInv, Typed
  <2> QED BY <1>1, <1>2, <1>4, <1>5, <2>1, <2>2 DEF IInv, Typed
<1>7. Apart'
  BY <1>4, <1>5 DEF IInv, Apart
<1>8. ASSUME NEW n \in Tenants
      PROVE  \/ table'[n] = table[n]
             \/ /\ \A q \in Processes : open'[q][n] = {}
                /\ \E e \in Entry : /\ table'[n] = table[n] \cup {e}
                                    /\ Fits(table[n], e) /\ Sealed(e)
  <2>1. CASE mine(n) = {}
    BY <1>1, <2>1
  <2>2. CASE mine(n) # {}
    <3>1. PICK e \in mine(n) : TRUE
      BY <2>2
    <3>2. e \in open[p][n] /\ mine(n) = open[p][n] /\ e \in Entry
      BY <1>1, <3>1 DEF IInv, Typed
    <3>3. PICK u \in Threads : /\ Home[u] = p /\ at[u] \in {"commit", "rollback"}
                               /\ work[u].tenant = n /\ work[u].row = e
      BY <1>1, <3>2 DEF IInv, Owned
    <3>4. open[p][n] = {e}
      BY <3>2, <3>3, OneOwner DEF Active
    <3>5. Fits(table[n], e) /\ Sealed(e)
      BY <1>1, <3>2, <3>3 DEF IInv, OpenFits, Ready, Active
    <3>6. \A q \in Processes : open'[q][n] = {}
      BY <1>1, <1>2, <3>2 DEF IInv, Alone
    <3> QED BY <1>1, <3>2, <3>4, <3>5, <3>6
  <2> QED BY <2>1, <2>2
<1>9. ASSUME NEW n \in Tenants, NEW e \in Entry, table'[n] = table[n] \cup {e},
             Fits(table[n], e), Sealed(e)
      PROVE  /\ Grown(n)' /\ LastSeq(table[n]) \in Nat
             /\ LastSeq(table'[n]) = LastSeq(table[n]) + 1
  <2>1. /\ table[n] \in SUBSET Entry /\ Chain(table[n])
        /\ EndsAt(table[n], LastSeq(table[n]), LastHash(table[n]))
    BY DEF IInv, Typed, Grown
  <2>2. LastSeq(table[n]) \in Nat
    BY <2>1, EndFacts
  <2>3. EndsAt(table[n], e.seq - 1, e.prev)
    BY <1>9, <2>1, <2>2 DEF Fits
  <2>4. Chain(table'[n]) /\ EndsAt(table'[n], e.seq, e.hash)
    BY <1>9, <2>1, <2>3, ChainExtends
  <2>5. LastSeq(table'[n]) = e.seq /\ LastHash(table'[n]) = e.hash
    BY <1>1, <2>4, EndsAtLast
  <2> QED BY <1>9, <2>2, <2>4, <2>5 DEF Grown, Fits
<1>10. \A n \in Tenants : Grown(n)'
  BY <1>8, <1>9 DEF IInv, Grown
<1>11. Owned'
  <2> SUFFICES ASSUME NEW q \in Processes, NEW n \in Tenants, NEW e \in open'[q][n]
               PROVE  \E u \in Threads : /\ Home[u] = q /\ at'[u] \in {"commit", "rollback"}
                                         /\ work'[u].tenant = n /\ work'[u].row = e
    BY DEF Owned
  <2>1. q # p /\ e \in open[q][n]
    BY <1>2
  <2>2. PICK u \in Threads : /\ Home[u] = q /\ at[u] \in {"commit", "rollback"}
                             /\ work[u].tenant = n /\ work[u].row = e
    BY <2>1 DEF IInv, Owned
  <2> QED BY <1>3, <1>4, <2>1, <2>2 DEF Active
<1>12. OpenFits' /\ Alone'
  <2>1. Alone'
    BY <1>1, <1>2 DEF IInv, Alone
  <2>2. OpenFits'
    <3> SUFFICES ASSUME NEW q \in Processes, NEW n \in Tenants, NEW e \in open'[q][n]
                 PROVE  Fits(table'[n], e)
      BY DEF OpenFits
    <3>1. q # p /\ e \in open[q][n]
      BY <1>2
    <3>2. table'[n] = table[n]
      BY <1>8, <3>1
    <3> QED BY <3>1, <3>2 DEF IInv, OpenFits
  <2> QED BY <2>1, <2>2
<1>13. Placed'
  <2> SUFFICES ASSUME NEW u \in Threads, at'[u] = "commit", ~work'[u].wrecked
               PROVE  work'[u].row \in table'[work'[u].tenant] \cup open'[Home[u]][work'[u].tenant]
    BY DEF Placed
  <2>1. /\ u # t /\ at[u] = "commit" /\ Active(u)
        /\ work'[u].tenant = work[u].tenant /\ work'[u].row = work[u].row
        /\ ~work[u].wrecked /\ (Home[u] = p => kept)
        /\ work[u].tenant \in Tenants /\ Home[u] \in Processes
    BY <1>3, <1>4, TenantAssumption DEF Active, IInv, Typed, Work
  <2>2. work[u].row \in table[work[u].tenant] \cup open[Home[u]][work[u].tenant]
    BY <2>1 DEF IInv, Placed
  <2> QED BY <1>1, <1>2, <2>1, <2>2
<1>14. ASSUME NEW u \in Threads PROVE Ready(u)'
  <2> SUFFICES ASSUME Active(u)'
               PROVE  /\ Sealed(work'[u].row) /\ work'[u].row.seq > 0
                      /\ work'[u].row.seq <= LastSeq(table'[work'[u].tenant]) + 1
                      /\ work'[u].row.seq = LastSeq(table'[work'[u].tenant]) + 1 =>
                           Fits(table'[work'[u].tenant], work'[u].row)
    BY DEF Ready
  <2> DEFINE n == work[u].tenant
             e == work[u].row
  <2>1. /\ u # t /\ Active(u) /\ work'[u].tenant = n /\ work'[u].row = e
        /\ n \in Tenants /\ e.seq \in Nat
    BY <1>4, <1>5 DEF IInv, Typed, Work, Entry
  <2>2. /\ Sealed(e) /\ e.seq > 0 /\ e.seq <= LastSeq(table[n]) + 1
        /\ e.seq = LastSeq(table[n]) + 1 => Fits(table[n], e)
    BY <2>1 DEF IInv, Ready
  <2>3. CASE table'[n] = table[n]
    BY <2>1, <2>2, <2>3
  <2>4. CASE table'[n] # table[n]
    <3>1. LastSeq(table[n]) \in Nat /\ LastSeq(table'[n]) = LastSeq(table[n]) + 1
      BY <1>8, <1>9, <2>1, <2>4
    <3> QED BY <2>1, <2>2, <3>1
  <2> QED BY <2>3, <2>4
<1> QED BY <1>6, <1>7, <1>10, <1>11, <1>12, <1>13, <1>14 DEF IInv

\* A process that dies takes its open rows and its calls with it.
LEMMA CrashStep ==
  ASSUME IInv, NEW p \in Processes, Crash(p)
  PROVE  IInv'
<1>1. /\ UNCHANGED <<table, appends>>
      /\ \A n \in Tenants : open'[p][n] = {}
      /\ \A q \in Processes \ {p} : open'[q] = open[q]
      /\ open' \in [Processes -> [Tenants -> SUBSET Entry]]
  BY DEF IInv, Typed, Crash, NoRows
<1>2. /\ \A t \in Threads : Home[t] = p => at'[t] = "idle"
      /\ \A t \in Threads : Home[t] # p => at'[t] = at[t] /\ work'[t] = work[t]
      /\ at' \in [Threads -> {"idle", "insert", "waiting", "commit", "rollback"}]
      /\ DOMAIN work' = Threads
  BY DEF IInv, Typed, Crash
<1>3. \A t \in Threads : Active(t)' => Active(t) /\ Home[t] # p /\ work'[t] = work[t]
  BY <1>2 DEF Active
<1>4. Typed' /\ Apart'
  BY <1>1, <1>2, <1>3 DEF IInv, Typed, Apart
<1>5. Owned' /\ OpenFits' /\ Alone'
  BY <1>1, <1>2 DEF IInv, Owned, OpenFits, Alone
<1>6. Placed'
  BY <1>1, <1>2, TenantAssumption DEF IInv, Placed
<1>7. (\A n \in Tenants : Grown(n)') /\ \A t \in Threads : Ready(t)'
  BY <1>1, <1>3 DEF IInv, Grown, Ready
<1> QED BY <1>4, <1>5, <1>6, <1>7 DEF IInv

LEMMA StepHolds == IInv /\ [Next]_vars => IInv'
<1> SUFFICES ASSUME IInv, [Next]_vars PROVE IInv'
  OBVIOUS
<1>1. ASSUME NEW t \in Threads, Fails(t, at[t]), Active(t) PROVE IInv'
  BY <1>1, QuietStep DEF Fails, Goto
<1>2. ASSUME NEW t \in Threads, Advance(t) PROVE IInv'
  <2>1. CASE Insert(t)
    BY <2>1, InsertStep
  <2>2. CASE InsertWaits(t)
    BY <2>2, QuietStep DEF InsertWaits, Goto, Active
  <2>3. CASE InsertRefused(t)
    BY <1>1, <2>3 DEF InsertRefused, InsertRuns, Active
  <2>4. CASE InsertBreaks(t)
    <3>1. at[t] = "insert"
      BY <2>4 DEF InsertBreaks, Fails, Goto
    <3> QED BY <1>1, <2>4, <3>1 DEF InsertBreaks, Active
  <2>5. CASE DeadlockBroken(t)
    BY <1>1, <2>5 DEF DeadlockBroken, Active
  <2>6. CASE Commit(t)
    <3>1. (~Spoilt(t)) \in BOOLEAN
      BY DEF Spoilt
    <3> QED BY <2>6, <3>1, EndStep DEF Commit, Goto
  <2>7. CASE CommitBreaks(t)
    <3>1. at[t] = "commit"
      BY <2>7 DEF CommitBreaks, Fails, Goto
    <3> QED BY <1>1, <2>7, <3>1 DEF CommitBreaks, Active
  <2>8. CASE Rollback(t)
    BY <2>8, EndStep DEF Rollback, Goto
  <2> QED BY <1>2, <2>1, <2>2, <2>3, <2>4, <2>5, <2>6, <2>7, <2>8 DEF Advance
<1>3. CASE UNCHANGED vars
  <2>1. UNCHANGED <<table, open, at, work, appends>>
    BY <1>3 DEF vars
  <2>2. Typed' /\ Apart' /\ Owned'
    BY <2>1 DEF IInv, Typed, Apart, Owned, Active
  <2>3. OpenFits' /\ Alone' /\ Placed'
    BY <2>1 DEF IInv, OpenFits, Alone, Placed
  <2>4. (\A n \in Tenants : Grown(n)') /\ \A t \in Threads : Ready(t)'
    BY <2>1 DEF IInv, Grown, Ready, Active
  <2> QED BY <2>2, <2>3, <2>4 DEF IInv
<1>4. ASSUME NEW t \in Threads, NEW n \in Tenants, ReadHeadBreaks(t, n) PROVE IInv'
  <2>1. UNCHANGED <<table, open, at, work>> /\ appends' \in 0..MaxAppends
    BY <1>4, TenantAssumption DEF ReadHeadBreaks, IInv, Typed
  <2>2. Typed' /\ Apart' /\ Owned'
    BY <2>1 DEF IInv, Typed, Apart, Owned, Active
  <2>3. OpenFits' /\ Alone' /\ Placed'
    BY <2>1 DEF IInv, OpenFits, Alone, Placed
  <2>4. (\A m \in Tenants : Grown(m)') /\ \A u \in Threads : Ready(u)'
    BY <2>1 DEF IInv, Grown, Ready, Active
  <2> QED BY <2>2, <2>3, <2>4 DEF IInv
<1> QED BY <1>2, <1>3, <1>4, ReadHeadStep, CrashStep DEF Next

LEMMA IInvAlways == Spec => []IInv
BY InitHolds, StepHolds, PTL DEF Spec

\* No fork: what is committed for a tenant is one gapless chain, however many
\* processes append to it and whatever is rolled back under whom.
THEOREM NoForkEver == Spec => []OneChainPerTenant
<1>1. IInv => OneChainPerTenant
  BY DEF IInv, Grown, Chain, OneChainPerTenant
<1> QED BY <1>1, IInvAlways, PTL

\* No append, refused, repeated or rolled back, takes a committed row away.
THEOREM CommittedStays == Spec => RowsStay
<1>1. IInv /\ [Next]_vars => [\A n \in Tenants : table[n] \subseteq table'[n]]_table
  <2> SUFFICES ASSUME IInv, [Next]_vars, NEW n \in Tenants, table' # table
               PROVE  table[n] \subseteq table'[n]
    OBVIOUS
  <2>1. ASSUME NEW t \in Threads, NEW kept, Ends(t, kept)
        PROVE  table[n] \subseteq table'[n]
    BY <2>1 DEF Ends
  <2> QED
    BY <2>1 DEF Next, Advance, ReadHead, ReadHeadBreaks, Insert, InsertWaits, InsertRefused, InsertBreaks,
       DeadlockBroken, Commit, CommitBreaks, Rollback, Crash, Fails, vars
<1> QED BY <1>1, IInvAlways, PTL DEF Spec, RowsStay

\* An acknowledged row is in the table for good, unless a mate's rollback ended
\* the transaction it was in.
THEOREM AckedSurvives == Spec => []AckedIsStored
<1>1. Init => AckedIsStored
  BY DEF Init, AckedIsStored
<1>2. IInv /\ AckedIsStored /\ [Next]_vars
        /\ [\A n \in Tenants : table[n] \subseteq table'[n]]_table
        /\ (\A a \in acked : a.tenant \in Tenants) => AckedIsStored'
  <2> SUFFICES ASSUME IInv, AckedIsStored, [Next]_vars,
                      [\A n \in Tenants : table[n] \subseteq table'[n]]_table,
                      \A a \in acked : a.tenant \in Tenants
               PROVE  AckedIsStored'
    OBVIOUS
  <2>1. \A a \in acked : a.row \in table'[a.tenant] \/ a.wrecked
    BY DEF AckedIsStored
  <2>2. ASSUME NEW t \in Threads, Commit(t) PROVE AckedIsStored'
    <3> DEFINE a == [work[t] EXCEPT !.wrecked = @ \/ Spoilt(t)]
    <3>1. /\ at[t] = "commit" /\ work[t] \in Work /\ Home[t] \in Processes
      BY <2>2, TenantAssumption DEF Commit, Goto, IInv, Typed, Active
    <3>2. a.row = work[t].row /\ a.tenant = work[t].tenant
          /\ a.wrecked = (work[t].wrecked \/ Spoilt(t)) /\ a.tenant \in Tenants
      BY <3>1 DEF Work
    <3>3. a.row \in table'[a.tenant] \/ a.wrecked
      <4> SUFFICES ASSUME ~Spoilt(t), ~work[t].wrecked PROVE a.row \in table'[a.tenant]
        BY <3>2
      <4>1. work[t].row \in table[work[t].tenant] \cup open[Home[t]][work[t].tenant]
        BY <3>1 DEF IInv, Placed
      <4>2. table'[work[t].tenant] =
              table[work[t].tenant] \cup open[Home[t]][work[t].tenant]
        BY <2>2, <3>2 DEF Commit, Ends
      <4> QED BY <3>2, <4>1, <4>2
    <3>4. acked' = acked \cup {a}
      BY <2>2 DEF Commit
    <3> QED BY <2>1, <3>3, <3>4 DEF AckedIsStored
  <2>3. CASE acked' = acked
    BY <2>1, <2>3 DEF AckedIsStored
  <2> QED
    BY <2>2, <2>3 DEF Next, Advance, ReadHead, ReadHeadBreaks, Insert, InsertWaits, InsertRefused,
       InsertBreaks, DeadlockBroken, CommitBreaks, Rollback, Crash, Fails, vars
<1>3. Init => \A a \in acked : a.tenant \in Tenants
  BY DEF Init
<1>4. IInv /\ (\A a \in acked : a.tenant \in Tenants) /\ [Next]_vars
        => (\A a \in acked : a.tenant \in Tenants)'
  <2> SUFFICES ASSUME IInv, \A a \in acked : a.tenant \in Tenants, [Next]_vars
               PROVE  \A a \in acked' : a.tenant \in Tenants
    OBVIOUS
  <2>1. ASSUME NEW t \in Threads, Commit(t) PROVE \A a \in acked' : a.tenant \in Tenants
    <3>1. work[t] \in Work
      BY <2>1 DEF Commit, Goto, IInv, Typed, Active
    <3>2. [work[t] EXCEPT !.wrecked = @ \/ Spoilt(t)].tenant \in Tenants
      BY <3>1 DEF Work
    <3> QED BY <2>1, <3>2 DEF Commit
  <2>2. CASE acked' = acked
    BY <2>2
  <2> QED
    BY <2>1, <2>2 DEF Next, Advance, ReadHead, ReadHeadBreaks, Insert, InsertWaits, InsertRefused,
       InsertBreaks, DeadlockBroken, CommitBreaks, Rollback, Crash, Fails, vars
<1> QED BY <1>1, <1>2, <1>3, <1>4, IInvAlways, CommittedStays, PTL DEF Spec, RowsStay

---------------------------------------------------------------------------
\* A set of numbers has a least one.
LEMMA LeastNat ==
  ASSUME NEW T \in SUBSET Nat, T # {}
  PROVE  \E n \in T : \A m \in T : n <= m
<1> DEFINE R == OpToRel(<, Nat)
<1>1. IsWellFoundedOn(R, Nat)
  BY NatLessThanWellFounded
<1>2. \A x, y \in Nat : y < x => <<y, x>> \in R
  BY DEF OpToRel
<1> HIDE DEF R
<1>3. \E x \in T : \A y \in T : ~(<<y, x>> \in R)
  BY <1>1, WFMin
<1>4. PICK n \in T : \A m \in T : ~(<<m, n>> \in R)
  BY <1>3
<1>5. \A m \in T : n \in Nat /\ m \in Nat /\ ~(m < n)
  BY <1>2, <1>4
<1>6. \A m \in T : n <= m
  BY <1>5
<1> QED BY <1>6

\* Processes each of which awaits one of them.
Closed(S) == \A p \in S : \E q \in S : Awaits(p, q)

\* The smallest such set is a circle: each of them is awaited by one as well.
LEMMA SmallestIsCircle ==
  ASSUME NEW W \in SUBSET Processes, W # {}, Closed(W)
  PROVE  \E S \in SUBSET W : S # {} /\ Closed(S) /\ \A p \in S : \E q \in S : Awaits(q, p)
<1> DEFINE Good == {S \in SUBSET W : S # {} /\ Closed(S)}
           Sizes == {Cardinality(S) : S \in Good}
<1>1. \A S \in Good : IsFiniteSet(S) /\ Cardinality(S) \in Nat
  BY TenantAssumption, FS_Subset, FS_CardinalityType
<1>2. Sizes \in SUBSET Nat /\ Sizes # {}
  <2>1. W \in Good
    OBVIOUS
  <2> QED BY <1>1, <2>1
<1>3. PICK n \in Sizes : \A m \in Sizes : n <= m
  BY <1>2, LeastNat
<1>4. PICK S \in Good : \A U \in Good : Cardinality(S) <= Cardinality(U)
  BY <1>3
<1> DEFINE U == {p \in S : \E q \in S : Awaits(q, p)}
<1>5. U # {} /\ U \in SUBSET S
  BY <1>4 DEF Closed
<1>6. Closed(U)
  BY <1>4 DEF Closed
<1>7. U \in Good
  BY <1>4, <1>5, <1>6
<1>8. U = S
  <2>1. Cardinality(S) <= Cardinality(U)
    BY <1>4, <1>7
  <2> HIDE DEF U, Good
  <2>2. IsFiniteSet(S) /\ Cardinality(S) \in Nat /\ Cardinality(U) \in Nat
    BY <1>1, <1>4, <1>7
  <2>3. ASSUME U # S PROVE Cardinality(U) < Cardinality(S)
    BY <1>5, <2>2, <2>3, FS_Subset
  <2> QED BY <2>1, <2>2, <2>3
<1> QED BY <1>4, <1>8

\* The appends never wait for each other for good: while a call is under way,
\* one can go on, or Postgres finds a circle to break.  However many processes
\* and tenants the circle goes through.
THEOREM SomebodyGoesOn == Spec => []NeverStuck
<1>1. ASSUME IInv, \E t \in Threads : Active(t),
             \A t \in Threads : at[t] \notin {"idle", "waiting"} => ~ConnectionFree(t),
             \A t \in Threads : at[t] = "waiting" => Holders(t) # {}
      PROVE  \E t \in Threads : at[t] = "waiting" /\ Circle(t)
  <2> DEFINE W == {p \in Processes : \E t \in Threads : Home[t] = p /\ at[t] = "waiting"}
  <2>1. ASSUME NEW t \in Threads, Active(t) PROVE Home[t] \in W
    <3>1. Home[t] \in Processes
      BY TenantAssumption
    <3>2. at[t] = "waiting" \/ \E u \in Mates(t) : at[u] = "waiting"
      BY <1>1, <2>1 DEF Active, ConnectionFree
    <3> QED BY <3>1, <3>2 DEF Mates
  <2>2. ASSUME NEW p \in W PROVE \E q \in W : Awaits(p, q)
    <3>1. PICK u \in Threads : Home[u] = p /\ at[u] = "waiting"
      OBVIOUS
    <3>2. PICK q \in Holders(u) : TRUE
      BY <1>1, <3>1
    <3>3. q \in Processes /\ open[q][work[u].tenant] # {} /\ work[u].tenant \in Tenants
      BY <1>1, <3>1, <3>2 DEF Holders, IInv, Typed, Active, Work
    <3>4. PICK v \in Threads : Home[v] = q /\ at[v] \in {"commit", "rollback"}
      BY <1>1, <3>3 DEF IInv, Owned
    <3>5. q \in W
      BY <2>1, <3>4 DEF Active
    <3> QED BY <3>1, <3>2, <3>5 DEF Awaits
  <2>3. W \in SUBSET Processes /\ W # {} /\ Closed(W)
    BY <1>1, <2>1, <2>2 DEF Closed
  <2> HIDE DEF W
  <2>4. PICK S \in SUBSET W :
          S # {} /\ Closed(S) /\ \A p \in S : \E q \in S : Awaits(q, p)
    BY <2>3, SmallestIsCircle
  <2>5. PICK p \in S : TRUE
    BY <2>4
  <2>6. PICK t \in Threads : Home[t] = p /\ at[t] = "waiting"
    BY <2>4, <2>5 DEF Closed, Awaits
  <2>7. Circle(t)
    BY <2>3, <2>4, <2>6 DEF Circle, Closed
  <2> QED BY <2>6, <2>7
<1>2. IInv => NeverStuck
  BY <1>1 DEF NeverStuck, Active
<1> QED BY <1>2, IInvAlways, PTL
=============================================================================
