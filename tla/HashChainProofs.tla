---------------------------- MODULE HashChainProofs ----------------------------
(***************************************************************************)
(* What both stores of audit entries rest on: how a chain ends, and that a *)
(* sealed entry put behind its end makes a longer chain.                   *)
(***************************************************************************)
EXTENDS HashChain, TLAPS

(***************************************************************************)
(* Tables of entries.  That they are finite is not shown: that each has a  *)
(* newest row is what the proofs need of them.                             *)
(***************************************************************************)
HasNewest(rows) == rows # {} => \E e \in rows : IsNewest(rows, e)

\* A table that verifies, misses nothing, and whose last row is unique.
EndsAt(rows, s, h) ==
  \/ rows = {} /\ s = 0 /\ h = Genesis
  \/ \E e \in rows : /\ s = e.seq /\ h = e.hash
                     /\ \A f \in rows : f # e => f.seq < e.seq

Chain(rows) == Intact(rows) /\ Dense(rows) /\ (\A e \in rows : e.seq > 0)

\* Where a chain ends is what LastSeq and LastHash read there.
LEMMA EndsAtLast ==
  ASSUME NEW rows \in SUBSET Entry, NEW s, NEW h, EndsAt(rows, s, h)
  PROVE  LastSeq(rows) = s /\ LastHash(rows) = h /\ HasNewest(rows)
<1>1. CASE rows = {}
  BY <1>1 DEF EndsAt, LastSeq, LastHash, HasNewest
<1>2. CASE rows # {}
  <2>1. PICK e \in rows : /\ s = e.seq /\ h = e.hash
                          /\ \A f \in rows : f # e => f.seq < e.seq
    BY <1>2 DEF EndsAt
  <2>2. \A f \in rows : f.seq \in Nat
    BY DEF Entry
  <2>3. IsNewest(rows, e)
    BY <2>1, <2>2 DEF IsNewest
  <2>4. \A f : IsNewest(rows, f) => f = e
    BY <2>1, <2>2 DEF IsNewest
  <2>5. Newest(rows) = e
    BY <2>3, <2>4 DEF Newest, IsNewest
  <2> QED
    BY <1>2, <2>1, <2>3, <2>5 DEF LastSeq, LastHash, HasNewest
<1> QED
  BY <1>1, <1>2

\* The last row of a table that has one is a row of it.
LEMMA LastIsARow ==
  ASSUME NEW rows \in SUBSET Entry, HasNewest(rows)
  PROVE  /\ LastSeq(rows) \in Nat /\ LastHash(rows) \in Digests
         /\ \A e \in rows : e.seq <= LastSeq(rows)
<1>1. CASE rows = {}
  BY <1>1 DEF LastSeq, LastHash, Digests, Genesis
<1>2. CASE rows # {}
  <2>1. IsNewest(rows, Newest(rows))
    BY <1>2 DEF HasNewest, Newest, IsNewest
  <2> QED
    BY <1>2, <2>1 DEF LastSeq, LastHash, IsNewest, Entry
<1> QED
  BY <1>1, <1>2

\* A sealed entry that continues a chain makes a longer chain.
LEMMA ChainExtends ==
  ASSUME NEW rows \in SUBSET Entry, NEW e \in Entry,
         Chain(rows), EndsAt(rows, e.seq - 1, e.prev), Sealed(e)
  PROVE  Chain(rows \cup {e}) /\ EndsAt(rows \cup {e}, e.seq, e.hash)
<1> DEFINE all == rows \cup {e}
<1>1. \A f \in all : f.seq \in Nat
  BY DEF Entry
<1>2. \A f \in rows : f.seq < e.seq
  BY <1>1 DEF EndsAt
<1>3. EndsAt(all, e.seq, e.hash)
  BY <1>2 DEF EndsAt
<1>4. \A f \in all : f.seq > 0
  BY <1>1, <1>2 DEF Chain, EndsAt
<1>5. \A f \in all : Sealed(f) /\ (f.seq = 1 => f.prev = Genesis)
  BY <1>1, <1>2, <1>4 DEF Chain, Intact, EndsAt
<1>6. ASSUME NEW a \in all, NEW b \in all, Adjacent(all, a, b)
      PROVE  b.prev = a.hash
  <2>1. CASE b = e
    <3>1. a \in rows /\ \A f \in rows : ~(a.seq < f.seq /\ f.seq < e.seq)
      BY <2>1, <1>1, <1>6 DEF Adjacent
    <3> QED
      BY <2>1, <3>1, <1>1, <1>2 DEF EndsAt
  <2>2. CASE b # e
    <3>1. a \in rows /\ b \in rows /\ Adjacent(rows, a, b)
      BY <2>2, <1>1, <1>2, <1>6 DEF Adjacent
    <3> QED
      BY <3>1 DEF Chain, Intact
  <2> QED
    BY <2>1, <2>2
<1>7. Dense(all)
  <2> SUFFICES ASSUME NEW f \in all, NEW n \in 1 .. f.seq
               PROVE  \E g \in all : g.seq = n
    BY DEF Dense
  <2>1. CASE f \in rows
    BY <2>1 DEF Chain, Dense
  <2>2. CASE f = e /\ n = e.seq
    BY <2>2
  <2>3. CASE f = e /\ n # e.seq
    <3>1. n \in 1 .. (e.seq - 1)
      BY <2>3, <1>1
    <3>2. PICK g \in rows : g.seq = e.seq - 1
      BY <3>1, <1>1 DEF EndsAt
    <3> QED
      BY <3>1, <3>2 DEF Chain, Dense
  <2> QED
    BY <2>1, <2>2, <2>3
<1> QED
  BY <1>3, <1>4, <1>5, <1>6, <1>7 DEF Chain, Intact
================================================================================
