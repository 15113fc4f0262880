------------------------------ MODULE HashChain ------------------------------
(***************************************************************************)
(* Chained audit entries and the check that a set of them is a chain, as   *)
(* the audit trail's boot-time validation and its verify endpoint do it.   *)
(*                                                                         *)
(* A digest is the list of everything it covers, so two digests are equal  *)
(* exactly when the chains below them are: an ideal sha256.  Entries are   *)
(* kept in sets and ordered by seq: a deque is only ever extended by a     *)
(* larger seq, and every read of a table is ORDER BY seq.  Of an entry's   *)
(* payload only the "query" key ever changes, so a body stands for it.     *)
(***************************************************************************)
EXTENDS Integers, FiniteSets, Sequences

CONSTANT Body   \* what the "query" of an entry may be

Digests == Seq(Nat \X Body)
Entry   == [seq : Nat, prev : Digests, hash : Digests, body : Body]

Genesis == <<>>
Digest(s, prev, body) == Append(prev, <<s, body>>)
Sealed(e) == e.hash = Digest(e.seq, e.prev, e.body)

\* Mutant: the verifier compares an entry with every earlier one.
EarlierAtAll(rows, a, b) == a.seq < b.seq

Adjacent(rows, a, b) ==
  /\ a.seq < b.seq
  /\ \A c \in rows : ~(a.seq < c.seq /\ c.seq < b.seq)

\* Every hash recomputes, every link holds, and only a chain that shows its
\* entry 1 is held to the genesis anchor.
Intact(rows) ==
  /\ \A e \in rows : Sealed(e) /\ (e.seq = 1 => e.prev = Genesis)
  /\ \A a, b \in rows : Adjacent(rows, a, b) => b.prev = a.hash

IsNewest(rows, e) == e \in rows /\ \A f \in rows : f.seq <= e.seq
Newest(rows)   == CHOOSE e \in rows : IsNewest(rows, e)

\* Mutant: the position of the last row instead of its seq.
LastPosition(rows) == Cardinality(rows) - 1

LastSeq(rows)  == IF rows = {} THEN 0 ELSE Newest(rows).seq

LastHash(rows) == IF rows = {} THEN Genesis ELSE Newest(rows).hash

\* Nothing is missing below the newest entry.
Dense(rows) == \A e \in rows : \A n \in 1 .. e.seq : \E f \in rows : f.seq = n
=============================================================================
