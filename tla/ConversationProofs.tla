-------------------------- MODULE ConversationProofs --------------------------
(***************************************************************************)
(* Theorems about Conversation, for any number of threads, sessions, turns *)
(* and faults: what customers were told is on record, the KPIs follow the  *)
(* trail, and closed sessions stay closed.                                 *)
(*                                                                         *)
(* The one idea: bytes are only ever put behind the end of the file, and   *)
(* what ends it is either a whole line, which nothing is added to, or a    *)
(* ragged one, which holds no whole line yet.                              *)
(*                                                                         *)
(* The sessions (Kept): two threads never answer one turn, and in the store *)
(* in memory a thread works on the stored session itself, so that a session *)
(* only ever goes on (Grows).                                              *)
(* The cache (CacheInv): its entries lie in the file, in their order, on   *)
(* places no later write touches (Stays).  What a replay loads is read     *)
(* line by line; what it picks is shown by looking at the first line where *)
(* it would be otherwise (LeastNat).  The KPIs count what is in the cache  *)
(* (KpisInv).                                                              *)
(***************************************************************************)
EXTENDS Conversation, SequenceTheorems, FiniteSetTheorems, TLAPS

Records == [turn : Nat, decision : AuditDecisions, escalated : BOOLEAN]
Pieces  == [entry : Records, part : {"line", "torn", "bare"}]
Files   == Seq(Seq(Pieces))

\* No line is empty, and only the last piece of a line has its newline.
Formed(file) ==
  \A k \in DOMAIN file :
    /\ file[k] # <<>>
    /\ \A i \in DOMAIN file[k] : i < Len(file[k]) => file[k][i].part # "line"

\* Entry e is in the file as a line that ends.
Lies(file, e) ==
  \E k \in DOMAIN file : \E i \in DOMAIN file[k] :
    file[k][i].entry = e /\ file[k][i].part = "line"

\* Lines of single pieces.
LEMMA LinesFacts ==
  ASSUME NEW pieces \in Seq(Pieces)
  PROVE  /\ Lines(pieces) \in Files /\ Formed(Lines(pieces))
         /\ Len(Lines(pieces)) = Len(pieces)
         /\ \A i \in 1..Len(pieces) : Lines(pieces)[i] = <<pieces[i]>>
<1>1. /\ DOMAIN pieces = 1..Len(pieces) /\ Len(pieces) \in Nat
      /\ \A i \in 1..Len(pieces) : pieces[i] \in Pieces
  BY LenProperties, ElementOfSeq
<1>2. \A i \in 1..Len(pieces) : <<pieces[i]>> \in Seq(Pieces)
  BY <1>1
<1>3. Lines(pieces) = [i \in 1..Len(pieces) |-> <<pieces[i]>>]
  BY <1>1 DEF Lines
<1>4. Lines(pieces) \in Files /\ Len(Lines(pieces)) = Len(pieces)
  BY <1>1, <1>2, <1>3 DEF Files
<1>5. Formed(Lines(pieces))
  BY <1>1, <1>3 DEF Formed
<1> QED BY <1>1, <1>3, <1>4, <1>5

\* Files put one behind the other.
LEMMA JoinFacts ==
  ASSUME NEW f \in Files, NEW g \in Files, Formed(f), Formed(g)
  PROVE  /\ f \o g \in Files /\ Formed(f \o g)
         /\ \A e : Lies(f, e) \/ Lies(g, e) => Lies(f \o g, e)
<1>1. /\ f \o g \in Files /\ Len(f \o g) = Len(f) + Len(g)
      /\ Len(f) \in Nat /\ Len(g) \in Nat
      /\ DOMAIN f = 1..Len(f) /\ DOMAIN g = 1..Len(g)
      /\ DOMAIN (f \o g) = 1..(Len(f) + Len(g))
      /\ \A k \in 1..Len(f) : (f \o g)[k] = f[k]
      /\ \A k \in 1..Len(g) : (f \o g)[Len(f) + k] = g[k]
      /\ \A k \in 1..(Len(f) + Len(g)) : k \in 1..Len(f) \/ k - Len(f) \in 1..Len(g)
  BY ConcatProperties, LenProperties DEF Files
<1>2. \A k \in 1..(Len(f) + Len(g)) : (f \o g)[k] = IF k <= Len(f) THEN f[k] ELSE g[k - Len(f)]
  BY ConcatProperties DEF Files
<1>3. Formed(f \o g)
  BY <1>1, <1>2 DEF Formed
<1>4. ASSUME NEW e, Lies(f, e) PROVE Lies(f \o g, e)
  <2>1. PICK k \in 1..Len(f) : \E i \in DOMAIN f[k] :
          f[k][i].entry = e /\ f[k][i].part = "line"
    BY <1>1, <1>4 DEF Lies
  <2>2. k \in DOMAIN (f \o g) /\ (f \o g)[k] = f[k]
    BY <1>1
  <2> QED BY <2>1, <2>2 DEF Lies
<1>5. ASSUME NEW e, Lies(g, e) PROVE Lies(f \o g, e)
  <2>1. PICK k \in 1..Len(g) : \E i \in DOMAIN g[k] :
          g[k][i].entry = e /\ g[k][i].part = "line"
    BY <1>1, <1>5 DEF Lies
  <2>2. Len(f) + k \in DOMAIN (f \o g) /\ (f \o g)[Len(f) + k] = g[k]
    BY <1>1
  <2> QED BY <2>1, <2>2 DEF Lies
<1> QED BY <1>1, <1>3, <1>4, <1>5

\* What a file that is put behind another ends with.
LEMMA JoinEnd ==
  ASSUME NEW f \in Files, NEW g \in Files, Len(g) # 0
  PROVE  /\ Len(f) \in Nat /\ Len(f \o g) = Len(f) + Len(g)
         /\ f \o g # <<>> /\ Last(f \o g) = g[Len(g)]
<1>1. Len(f) \in Nat /\ Len(g) \in Nat \ {0}
  BY LenProperties DEF Files
<1>2. /\ Len(f \o g) = Len(f) + Len(g)
      /\ \A i \in 1..(Len(f) + Len(g)) :
           (f \o g)[i] = IF i <= Len(f) THEN f[i] ELSE g[i - Len(f)]
  BY ConcatProperties DEF Files
<1>3. (f \o g)[Len(f) + Len(g)] = g[Len(g)]
  <2>1. /\ Len(f) + Len(g) \in 1..(Len(f) + Len(g)) /\ ~(Len(f) + Len(g) <= Len(f))
        /\ (Len(f) + Len(g)) - Len(f) = Len(g)
    BY <1>1
  <2> QED BY <1>2, <2>1
<1>4. Len(f \o g) # 0
  BY <1>1, <1>2
<1>5. f \o g # <<>>
  BY <1>4, EmptySeq
<1> QED BY <1>1, <1>2, <1>3, <1>5 DEF Last

\* The ragged end of a file: its last line holds no piece that ends, and the
\* file before it is a file.
LEMMA RaggedEnd ==
  ASSUME NEW f \in Files, Formed(f), Ragged(f)
  PROVE  /\ Last(f) \in Seq(Pieces) /\ Last(f) # <<>> /\ Len(f) \in Nat \ {0}
         /\ \A i \in DOMAIN Last(f) : Last(f)[i].part # "line"
         /\ Front(f) \in Files /\ Formed(Front(f))
         /\ \A e : Lies(f, e) => Lies(Front(f), e)
<1>1. /\ Len(f) \in Nat \ {0} /\ DOMAIN f = 1..Len(f)
      /\ \A k \in 1..Len(f) : f[k] \in Seq(Pieces)
  BY LenProperties, ElementOfSeq, EmptySeq DEF Files, Ragged
<1>2. /\ Last(f) = f[Len(f)] /\ Last(f) \in Seq(Pieces) /\ Last(f) # <<>>
      /\ Len(f) \in DOMAIN f
  BY <1>1 DEF Last, Formed
<1>3. \A i \in DOMAIN Last(f) : Last(f)[i].part # "line"
  <2>1. /\ Len(Last(f)) \in Nat /\ DOMAIN Last(f) = 1..Len(Last(f))
    BY <1>2, LenProperties
  <2>2. Last(f)[Len(Last(f))].part # "line"
    BY DEF Ragged, Last
  <2>3. \A i \in DOMAIN Last(f) : i < Len(Last(f)) => Last(f)[i].part # "line"
    BY <1>2 DEF Formed
  <2> QED BY <2>1, <2>2, <2>3
<1>4. /\ Front(f) \in Files /\ DOMAIN Front(f) = 1..(Len(f) - 1)
      /\ \A k \in 1..(Len(f) - 1) : Front(f)[k] = f[k]
  <2> DEFINE n == Len(f) - 1
  <2>1. n \in Nat /\ \A k \in 1..n : f[k] \in Seq(Pieces)
    BY <1>1
  <2> HIDE DEF n
  <2>2. /\ SubSeq(f, 1, n) \in Seq(Seq(Pieces))
        /\ Len(SubSeq(f, 1, n)) = IF 1 <= n THEN n - 1 + 1 ELSE 0
        /\ \A k \in 1 .. n - 1 + 1 : SubSeq(f, 1, n)[k] = f[1 + k - 1]
    BY <2>1, SubSeqProperties
  <2>3. Len(SubSeq(f, 1, n)) = n /\ \A k \in 1..n : SubSeq(f, 1, n)[k] = f[k]
    BY <2>1, <2>2
  <2>4. DOMAIN SubSeq(f, 1, n) = 1..n
    BY <2>2, <2>3, LenProperties
  <2> QED BY <2>2, <2>3, <2>4 DEF Front, Files, n
<1>5. Formed(Front(f))
  BY <1>1, <1>4 DEF Formed
<1>6. ASSUME NEW e, Lies(f, e) PROVE Lies(Front(f), e)
  <2>1. PICK k \in 1..Len(f) : \E i \in DOMAIN f[k] :
          f[k][i].entry = e /\ f[k][i].part = "line"
    BY <1>1, <1>6 DEF Lies
  <2>2. ASSUME k = Len(f) PROVE FALSE
    <3>1. f[k] = Last(f)
      BY <1>2, <2>2
    <3> QED BY <1>3, <2>1, <3>1
  <2>3. k \in 1..(Len(f) - 1)
    <3>1. k \in 1..Len(f) /\ k # Len(f)
      BY <2>1, <2>2
    <3>2. Len(f) \in Nat
      BY <1>1
    <3> QED BY <3>1, <3>2
  <2>4. k \in DOMAIN Front(f) /\ Front(f)[k] = f[k]
    BY <1>4, <2>3
  <2> QED BY <2>1, <2>4 DEF Lies
<1> QED BY <1>1, <1>2, <1>3, <1>4, <1>5, <1>6

\* Writing behind the end of a file keeps its lines, makes lines of what was
\* written whole, and ends as ragged as what was written.
LEMMA LaidFacts ==
  ASSUME NEW f \in Files, NEW pieces \in Seq(Pieces), Formed(f),
         cut \in BOOLEAN, cut => Ragged(f)
  PROVE  /\ Laid(f, pieces) \in Files /\ Formed(Laid(f, pieces))
         /\ \A e : Lies(f, e) => Lies(Laid(f, pieces), e)
         /\ \A i \in 1..Len(pieces) : pieces[i].part = "line" =>
              Lies(Laid(f, pieces), pieces[i].entry)
         /\ pieces # <<>> /\ pieces[Len(pieces)].part # "line" => Ragged(Laid(f, pieces))
<1> DEFINE new == Laid(f, pieces)
<1>1. Len(pieces) \in Nat /\ \A i \in 1..Len(pieces) : pieces[i] \in Pieces
  BY LenProperties, ElementOfSeq
<1>2. CASE pieces = <<>>
  BY <1>1, <1>2, EmptySeq DEF Laid
<1>3. CASE pieces # <<>> /\ ~Ragged(f)
  <2>1. new = f \o Lines(pieces)
    BY <1>3 DEF Laid
  <2>2. /\ new \in Files /\ Formed(new)
        /\ \A e : Lies(f, e) \/ Lies(Lines(pieces), e) => Lies(new, e)
    BY <2>1, LinesFacts, JoinFacts
  <2>3. ASSUME NEW i \in 1..Len(pieces), pieces[i].part = "line"
        PROVE  Lies(Lines(pieces), pieces[i].entry)
    <3>1. /\ i \in DOMAIN Lines(pieces) /\ Lines(pieces)[i] = <<pieces[i]>>
      BY <1>1, LinesFacts, LenProperties DEF Files
    <3>2. 1 \in DOMAIN <<pieces[i]>> /\ <<pieces[i]>>[1] = pieces[i]
      OBVIOUS
    <3> QED BY <2>3, <3>1, <3>2 DEF Lies
  <2>4. ASSUME pieces[Len(pieces)].part # "line" PROVE Ragged(new)
    <3>1. Len(pieces) \in Nat \ {0}
      BY <1>3, EmptySeq
    <3>2. new # <<>> /\ Last(new) = Lines(pieces)[Len(pieces)]
      BY <2>1, <3>1, LinesFacts, JoinEnd
    <3>3. Last(new) = <<pieces[Len(pieces)]>>
      BY <3>1, <3>2, LinesFacts
    <3>4. Last(Last(new)) = pieces[Len(pieces)]
      BY <3>3 DEF Last
    <3> QED BY <2>4, <3>2, <3>4 DEF Ragged
  <2> QED BY <1>3, <2>2, <2>3, <2>4
<1>4. CASE pieces # <<>> /\ Ragged(f)
  <2> DEFINE old  == IF cut THEN Front(Last(f)) ELSE Last(f)
             line == Append(old, Head(pieces))
             head == Append(Front(f), line)
             rest == Tail(pieces)
  <2>1. new = head \o Lines(rest)
    BY <1>4 DEF Laid
  <2>2. /\ Len(pieces) \in Nat \ {0} /\ Head(pieces) = pieces[1] /\ Head(pieces) \in Pieces
        /\ rest \in Seq(Pieces) /\ Len(rest) = Len(pieces) - 1
        /\ \A i \in 1..(Len(pieces) - 1) : rest[i] = pieces[i + 1]
    BY <1>4, EmptySeq, HeadTailProperties
  <2>3. old \in Seq(Pieces) /\ \A i \in DOMAIN old : old[i].part # "line"
    <3>1. Last(f) \in Seq(Pieces) /\ \A i \in DOMAIN Last(f) : Last(f)[i].part # "line"
      BY <1>4, RaggedEnd
    <3>2. /\ Len(Last(f)) \in Nat \ {0} /\ DOMAIN Last(f) = 1..Len(Last(f))
          /\ \A i \in 1..Len(Last(f)) : Last(f)[i] \in Pieces
      BY <1>4, <3>1, RaggedEnd, EmptySeq, LenProperties, ElementOfSeq
    <3> DEFINE l == Last(f)
               n == Len(l) - 1
    <3>3. n \in Nat /\ \A i \in 1..n : l[i] \in Pieces /\ l[i].part # "line"
      BY <3>1, <3>2
    <3> HIDE DEF l, n
    <3>4. /\ SubSeq(l, 1, n) \in Seq(Pieces)
          /\ Len(SubSeq(l, 1, n)) = IF 1 <= n THEN n - 1 + 1 ELSE 0
          /\ \A i \in 1 .. n - 1 + 1 : SubSeq(l, 1, n)[i] = l[1 + i - 1]
      BY <3>3, SubSeqProperties
    <3>5. Len(SubSeq(l, 1, n)) = n /\ \A i \in 1..n : SubSeq(l, 1, n)[i] = l[i]
      BY <3>3, <3>4
    <3>6. \A i \in DOMAIN SubSeq(l, 1, n) : SubSeq(l, 1, n)[i].part # "line"
      BY <3>3, <3>4, <3>5, LenProperties
    <3> QED BY <3>1, <3>4, <3>6 DEF Front, l, n
  <2> HIDE DEF old
  <2>4. /\ line \in Seq(Pieces) /\ Len(line) = Len(old) + 1 /\ Len(old) \in Nat
        /\ line[Len(old) + 1] = Head(pieces) /\ DOMAIN line = 1..(Len(old) + 1)
        /\ \A i \in 1..Len(old) : line[i] = old[i] /\ line[i].part # "line"
    <3>1. Len(old) \in Nat /\ DOMAIN old = 1..Len(old)
      BY <2>3, LenProperties
    <3> QED BY <2>2, <2>3, <3>1
  <2> HIDE DEF line
  <2>5. /\ Front(f) \in Files /\ Formed(Front(f)) /\ Len(Front(f)) \in Nat
        /\ \A e : Lies(f, e) => Lies(Front(f), e)
    BY <1>4, RaggedEnd, LenProperties DEF Files
  <2>6. /\ <<line>> \in Files /\ Formed(<<line>>) /\ head = Front(f) \o <<line>>
        /\ Len(<<line>>) = 1 /\ <<line>>[1] = line /\ DOMAIN <<line>> = {1}
    <3>1. <<line>> \in Files /\ head = Front(f) \o <<line>>
      BY <2>4, <2>5 DEF Files
    <3>2. Len(<<line>>) = 1 /\ <<line>>[1] = line /\ DOMAIN <<line>> = {1}
      OBVIOUS
    <3>3. line # <<>>
      BY <2>4, EmptySeq
    <3>4. \A i \in DOMAIN line : i < Len(line) => line[i].part # "line"
      BY <2>4
    <3> QED BY <3>1, <3>2, <3>3, <3>4 DEF Formed
  <2>7. /\ head \in Files /\ Formed(head)
        /\ \A e : Lies(f, e) \/ Lies(<<line>>, e) => Lies(head, e)
    <3>1. \A e : Lies(Front(f), e) \/ Lies(<<line>>, e) => Lies(head, e)
      BY <2>5, <2>6, JoinFacts
    <3> QED BY <2>5, <2>6, <3>1, JoinFacts
  <2>11. head # <<>> /\ Last(head) = line
    <3>1. Len(<<line>>) = 1 /\ <<line>>[1] = line
      BY <2>6
    <3>2. /\ Front(f) \o <<line>> # <<>>
          /\ Last(Front(f) \o <<line>>) = <<line>>[Len(<<line>>)]
      <4>1. Front(f) \in Files /\ <<line>> \in Files /\ Len(<<line>>) # 0
        BY <2>5, <2>6
      <4> HIDE DEF line
      <4> QED BY <4>1, JoinEnd
    <3> QED BY <2>6, <3>1, <3>2
  <2> HIDE DEF head, rest
  <2>8. /\ new \in Files /\ Formed(new)
        /\ \A e : Lies(head, e) \/ Lies(Lines(rest), e) => Lies(new, e)
    BY <2>1, <2>2, <2>7, LinesFacts, JoinFacts
  <2>9. ASSUME NEW i \in 1..Len(pieces), pieces[i].part = "line"
        PROVE  Lies(new, pieces[i].entry)
    <3>1. CASE i = 1
      <4>1. Lies(<<line>>, pieces[i].entry)
        <5>1. Len(old) + 1 \in DOMAIN line /\ line[Len(old) + 1] = pieces[i]
          BY <2>2, <2>4, <3>1
        <5>2. 1 \in DOMAIN <<line>> /\ <<line>>[1] = line
          OBVIOUS
        <5> QED BY <2>9, <5>1, <5>2 DEF Lies
      <4> QED BY <2>7, <2>8, <4>1
    <3>2. CASE i # 1
      <4> DEFINE j == i - 1
      <4>1. /\ j \in 1..Len(rest) /\ rest[j] = pieces[i]
        BY <2>2, <3>2
      <4>2. /\ j \in DOMAIN Lines(rest) /\ Lines(rest)[j] = <<rest[j]>>
        BY <2>2, <4>1, LinesFacts, LenProperties DEF Files
      <4>3. 1 \in DOMAIN <<rest[j]>> /\ <<rest[j]>>[1] = pieces[i]
        BY <4>1
      <4>4. Lies(Lines(rest), pieces[i].entry)
        BY <2>9, <4>2, <4>3 DEF Lies
      <4> QED BY <2>8, <4>4
    <3> QED BY <3>1, <3>2
  <2>10. ASSUME pieces[Len(pieces)].part # "line" PROVE Ragged(new)
    <3>1. CASE Len(pieces) = 1
      <4>1. Lines(rest) = <<>>
        <5>1. Len(Lines(rest)) = 0 /\ Lines(rest) \in Files
          <6>1. Lines(rest) \in Files /\ Len(Lines(rest)) = Len(rest)
            BY <2>2, LinesFacts
          <6>2. Len(rest) = 0
            BY <2>2, <3>1
          <6> QED BY <6>1, <6>2
        <5> QED BY <5>1, EmptySeq DEF Files
      <4>2. new = head
        BY <2>1, <2>7, <4>1, ConcatEmptySeq DEF Files
      <4>3. Last(line) = pieces[1]
        BY <2>2, <2>4 DEF Last
      <4> QED BY <2>11, <2>10, <3>1, <4>2, <4>3 DEF Ragged
    <3>2. CASE Len(pieces) # 1
      <4> DEFINE n == Len(rest)
      <4>1. n \in Nat \ {0} /\ rest[n] = pieces[Len(pieces)]
        BY <2>2, <3>2
      <4>2. Lines(rest) \in Files /\ Len(Lines(rest)) = n /\ Lines(rest)[n] = <<rest[n]>>
        BY <2>2, <4>1, LinesFacts
      <4>3. new # <<>> /\ Last(new) = <<rest[n]>>
        BY <2>1, <2>7, <4>1, <4>2, JoinEnd
      <4>4. Last(Last(new)) = pieces[Len(pieces)]
        BY <4>1, <4>3 DEF Last
      <4> QED BY <2>10, <4>3, <4>4 DEF Ragged
    <3> QED BY <3>1, <3>2
  <2> QED BY <2>5, <2>7, <2>8, <2>9, <2>10
<1> QED BY <1>2, <1>3, <1>4

---------------------------------------------------------------------------
(* The trail. *)

TrailInv ==
  /\ disk \in Files /\ Formed(disk)
  /\ buffer \in Seq(Records)
  /\ cut \in BOOLEAN /\ (cut => Ragged(disk))
  /\ \A e \in acked : Lies(disk, e)

\* A line that ends holds its entry for who reads the file.
LEMMA LiesOnDisk ==
  ASSUME disk \in Files, Formed(disk), NEW e, Lies(disk, e)
  PROVE  OnDisk(e)
<1>1. PICK k \in DOMAIN disk : \E i \in DOMAIN disk[k] :
        disk[k][i].entry = e /\ disk[k][i].part = "line"
  BY DEF Lies
<1>2. PICK i \in DOMAIN disk[k] : disk[k][i].entry = e /\ disk[k][i].part = "line"
  BY <1>1
<1>3. Len(disk[k]) \in Nat /\ DOMAIN disk[k] = 1..Len(disk[k])
  <2>1. disk[k] \in Seq(Pieces)
    BY ElementOfSeq, LenProperties DEF Files
  <2> QED BY <2>1, LenProperties
<1>4. \A j \in 1..(i - 1) : disk[k][j].part # "line"
  BY <1>3 DEF Formed
<1>5. Holds(k, i, e)
  BY <1>2, <1>4 DEF Holds
<1>6. <<k, i>> \in Places(e)
  BY <1>2, <1>5 DEF Places
<1> QED BY <1>6 DEF OnDisk

\* The pieces of a write.
LEMMA WrittenFacts ==
  ASSUME NEW queue \in Seq(Records), NEW n \in 0..Len(queue),
         NEW left \in {"none", "torn", "bare"}, left # "none" => n < Len(queue)
  PROVE  LET pieces == Written(queue, n, left) IN
         /\ pieces \in Seq(Pieces)
         /\ \A i \in 1..n : i \in 1..Len(pieces) /\ pieces[i] = Piece(queue[i], "line")
         /\ left # "none" => pieces # <<>> /\ pieces[Len(pieces)].part # "line"
         /\ n = 0 /\ left = "none" => pieces = <<>>
<1> DEFINE m      == IF left = "none" THEN n ELSE n + 1
           pieces == Written(queue, n, left)
<1>1. /\ Len(queue) \in Nat /\ n \in Nat /\ m \in 0..Len(queue) /\ n <= m
      /\ \A i \in 1..Len(queue) : queue[i] \in Records
  BY LenProperties, ElementOfSeq
<1>2. pieces = [i \in 1..m |-> Piece(queue[i], IF i <= n THEN "line" ELSE left)]
  BY DEF Written
<1>3. \A i \in 1..m : /\ Piece(queue[i], IF i <= n THEN "line" ELSE left) \in Pieces \/ left = "none"
                      /\ left = "none" => i <= n
  BY <1>1 DEF Piece, Pieces
<1>4. \A i \in 1..m : Piece(queue[i], IF i <= n THEN "line" ELSE left) \in Pieces
  BY <1>1, <1>3 DEF Piece, Pieces
<1> HIDE DEF m, pieces
<1>5. pieces \in Seq(Pieces) /\ Len(pieces) = m
  BY <1>1, <1>2, <1>4
<1>6. \A i \in 1..n : i \in 1..Len(pieces) /\ pieces[i] = Piece(queue[i], "line")
  BY <1>1, <1>2, <1>5
<1>7. ASSUME left # "none" PROVE pieces # <<>> /\ pieces[Len(pieces)].part # "line"
  <2>1. m = n + 1 /\ m \in 1..m
    BY <1>1, <1>7 DEF m
  <2>2. pieces[m] = Piece(queue[m], left)
    BY <1>1, <1>2, <2>1
  <2>3. pieces # <<>>
    BY <1>1, <1>5, <2>1, EmptySeq
  <2> QED BY <1>5, <2>2, <2>3 DEF Piece
<1>8. ASSUME n = 0, left = "none" PROVE pieces = <<>>
  BY <1>5, <1>8, EmptySeq DEF m
<1> QED BY <1>5, <1>6, <1>7, <1>8 DEF pieces

\* What a write makes of the file.
LEMMA WriteFacts ==
  ASSUME TrailInv,
         NEW queue \in Seq(Records), NEW n \in 0..Len(queue),
         NEW left \in {"none", "torn", "bare"}, left # "none" => n < Len(queue)
  PROVE  LET new == Laid(disk, Written(queue, n, left)) IN
         /\ new \in Files /\ Formed(new)
         /\ \A e \in acked : Lies(new, e)
         /\ \A i \in 1..n : Lies(new, queue[i])
         /\ left # "none" => Ragged(new)
         /\ n = 0 /\ left = "none" => new = disk
<1> DEFINE pieces == Written(queue, n, left)
           new    == Laid(disk, pieces)
<1>1. /\ pieces \in Seq(Pieces)
      /\ \A i \in 1..n : i \in 1..Len(pieces) /\ pieces[i] = Piece(queue[i], "line")
      /\ left # "none" => pieces # <<>> /\ pieces[Len(pieces)].part # "line"
      /\ n = 0 /\ left = "none" => pieces = <<>>
  BY WrittenFacts
<1> HIDE DEF pieces
<1>2. /\ new \in Files /\ Formed(new)
      /\ \A e : Lies(disk, e) => Lies(new, e)
      /\ \A i \in 1..Len(pieces) : pieces[i].part = "line" => Lies(new, pieces[i].entry)
      /\ pieces # <<>> /\ pieces[Len(pieces)].part # "line" => Ragged(new)
  BY <1>1, LaidFacts DEF TrailInv
<1>3. ASSUME NEW i \in 1..n PROVE Lies(new, queue[i])
  <2>1. i \in 1..Len(pieces) /\ pieces[i].part = "line" /\ pieces[i].entry = queue[i]
    <3>1. i \in 1..Len(pieces) /\ pieces[i] = Piece(queue[i], "line")
      BY <1>1
    <3> QED BY <3>1 DEF Piece
  <2> HIDE DEF new
  <2>2. Lies(new, pieces[i].entry)
    BY <1>2, <2>1
  <2> QED BY <2>1, <2>2
<1>4. pieces = <<>> => new = disk
  BY DEF Laid
<1> QED BY <1>1, <1>2, <1>3, <1>4 DEF TrailInv, pieces

\* Every write of log_decision, finished or not, keeps the trail.
LEMMA FlushKeeps ==
  ASSUME TrailInv,
         NEW queue \in Seq(Records), NEW n \in 0..Len(queue),
         NEW left \in {"none", "torn", "bare"}, left # "none" => n < Len(queue),
         Flush(queue, n, left),
         acked' = acked \/ (\E i \in 1..n : acked' = acked \cup {queue[i]})
  PROVE  TrailInv'
<1>1. /\ disk' \in Files /\ Formed(disk')
      /\ \A e \in acked : Lies(disk', e)
      /\ \A i \in 1..n : Lies(disk', queue[i])
      /\ left # "none" => Ragged(disk')
      /\ n = 0 /\ left = "none" => disk' = disk
  BY WriteFacts DEF Flush
<1>2. \A e \in acked' : Lies(disk', e)
  BY <1>1
<1>3. buffer' \in Seq(Records)
  <2>1. /\ n + 1 \in 1..(Len(queue) + 1) /\ Len(queue) \in Nat
        /\ \A i \in (n + 1)..Len(queue) : queue[i] \in Records
    BY LenProperties, ElementOfSeq
  <2>2. SubSeq(queue, n + 1, Len(queue)) \in Seq(Records)
    BY <2>1, SubSeqProperties
  <2> QED BY <2>2 DEF Flush
<1>4. cut' \in BOOLEAN /\ (cut' => Ragged(disk'))
  <2>1. CASE n = 0 /\ left = "none"
    BY <1>1, <2>1 DEF Flush, TrailInv
  <2>2. CASE ~(n = 0 /\ left = "none")
    BY <1>1, <2>2 DEF Flush
  <2> QED BY <2>1, <2>2
<1> QED BY <1>1, <1>2, <1>3, <1>4 DEF TrailInv

LEMMA LogKeeps ==
  ASSUME TrailInv, NEW e \in Records, Log(e)
  PROVE  TrailInv' /\ acked' = acked \cup {e}
<1> DEFINE queue == Append(buffer, e)
           n     == Len(buffer) + 1
<1>1. /\ Len(buffer) \in Nat /\ queue \in Seq(Records) /\ Len(queue) = n /\ queue[n] = e
  BY LenProperties, AppendProperties DEF TrailInv
<1>2. n \in 0..Len(queue) /\ n \in 1..n
  BY <1>1
<1>3. Flush(queue, n, "none") /\ acked' = acked \cup {e}
  BY DEF Log
<1>4. \E i \in 1..n : acked' = acked \cup {queue[i]}
  BY <1>1, <1>2, <1>3
<1> HIDE DEF queue, n
<1> QED BY <1>1, <1>2, <1>3, <1>4, FlushKeeps

LEMMA LogFailsKeeps ==
  ASSUME TrailInv, NEW e \in Records, LogFails(e)
  PROVE  TrailInv' /\ acked' = acked
<1> DEFINE queue == Append(buffer, e)
<1>1. /\ Len(buffer) \in Nat /\ queue \in Seq(Records) /\ Len(queue) = Len(buffer) + 1
  BY LenProperties, AppendProperties DEF TrailInv
<1> HIDE DEF queue
<1>2. PICK n \in 0..Len(queue), left \in {"none", "torn", "bare"} :
        Stops(queue, n, left) /\ Flush(queue, n, left)
  BY <1>1 DEF LogFails, queue
<1>3. acked' = acked
  BY DEF LogFails
<1> QED BY <1>1, <1>2, <1>3, FlushKeeps DEF Stops

LEMMA ReopenKeeps ==
  ASSUME TrailInv, Reopen
  PROVE  TrailInv' /\ acked' = acked
<1>1. PICK n \in 0..Len(buffer), left \in {"none", "torn", "bare"} :
        /\ Stops(buffer, n, left)
        /\ disk' = Laid(disk, Written(buffer, n, left))
  BY DEF Reopen
<1>2. disk' \in Files /\ Formed(disk') /\ \A e \in acked : Lies(disk', e)
  BY <1>1, WriteFacts DEF Stops, TrailInv
<1>3. buffer' = <<>> /\ cut' = FALSE /\ acked' = acked
  BY DEF Reopen
<1>4. buffer' \in Seq(Records)
  BY <1>3
<1> QED BY <1>2, <1>3, <1>4 DEF TrailInv

---------------------------------------------------------------------------
(* The threads. *)

\* A function on threads, of whatever.
OfThreads(f) == f = [t \in Threads |-> f[t]]

\* Where a thread can be.
Posts == {"idle", "customer", "put customer", "dispatch", "reply", "put reply",
          "flag", "put flag", "audit", "metrics"}

\* A thread that is at work carries a turn, and has its entry acknowledged
\* before it gets to the metrics.
JobsInv ==
  /\ turns \in Nat
  /\ at \in [Threads -> Posts] /\ OfThreads(job)
  /\ \A t \in Threads : at[t] # "idle" => "turn" \in DOMAIN job[t] /\ job[t].turn \in Nat
  /\ \A t \in Threads : at[t] = "metrics" => Entry(t) \in acked /\ Valid(Entry(t))

\* An entry bears out an answer.
Bears(e, a) ==
  /\ e.turn = a.turn /\ e.escalated = a.escalated /\ e.decision \in AuditDecisions
  /\ IF a.escalated THEN e.decision \notin {"passthrough", "unknown"}
     ELSE e.decision = a.decision

Told == \A a \in answered : \E e \in acked : e \in Records /\ Bears(e, a)

Inv == TrailInv /\ JobsInv /\ Told

\* A record with one field set is what it was in another.
LEMMA SetKeeps ==
  ASSUME NEW t \in Threads, OfThreads(job),
         NEW field \in {"held", "outcome"}, NEW value,
         Set(t, field, value), "turn" \in DOMAIN job[t]
  PROVE  /\ OfThreads(job')
         /\ \A u \in Threads : u # t => job'[u] = job[u]
         /\ "turn" \in DOMAIN job'[t] /\ job'[t].turn = job[t].turn
<1>1. job' = [u \in Threads |-> IF u = t THEN [job[t] EXCEPT ![field] = value] ELSE job[u]]
  BY DEF Set, OfThreads
<1>2. job'[t] = [job[t] EXCEPT ![field] = value]
  BY <1>1
<1>3. OfThreads(job') /\ \A u \in Threads : u # t => job'[u] = job[u]
  BY <1>1 DEF OfThreads
<1>4. "turn" \in DOMAIN job'[t] /\ job'[t].turn = job[t].turn
  BY <1>2
<1> QED BY <1>3, <1>4

\* One thread moves, the others stay where they are.
LEMMA MoveKeeps ==
  ASSUME JobsInv, NEW t \in Threads, NEW there \in Posts,
         at' = [at EXCEPT ![t] = there],
         OfThreads(job'),
         \A u \in Threads : u # t => job'[u] = job[u],
         there # "idle" => "turn" \in DOMAIN job'[t] /\ job'[t].turn \in Nat,
         there = "metrics" => Entry(t)' \in acked' /\ Valid(Entry(t))',
         acked \subseteq acked', turns' \in Nat
  PROVE  JobsInv'
<1>1. /\ at' \in [Threads -> Posts] /\ at'[t] = there
      /\ \A u \in Threads : u # t => at'[u] = at[u]
  BY DEF JobsInv
<1>2. \A u \in Threads : at'[u] # "idle" => "turn" \in DOMAIN job'[u] /\ job'[u].turn \in Nat
  BY <1>1 DEF JobsInv
<1>3. ASSUME NEW u \in Threads, at'[u] = "metrics"
      PROVE  Entry(u)' \in acked' /\ Valid(Entry(u))'
  <2>1. CASE u = t
    BY <1>1, <1>3, <2>1
  <2>2. CASE u # t
    <3>1. job'[u] = job[u] /\ at[u] = "metrics"
      BY <1>1, <1>3, <2>2
    <3>2. Entry(u)' = Entry(u)
      BY <3>1 DEF Entry
    <3> QED BY <3>1, <3>2 DEF JobsInv, Valid
  <2> QED BY <2>1, <2>2
<1> QED BY <1>1, <1>2, <1>3 DEF JobsInv

\* A thread that only works on a field of its job, away from the trail.
LEMMA FieldKeeps ==
  ASSUME Inv, NEW t \in Threads, NEW there \in Posts \ {"metrics"},
         at[t] # "idle", at' = [at EXCEPT ![t] = there],
         NEW field \in {"held", "outcome"}, NEW value, Set(t, field, value),
         UNCHANGED <<tvars, answered, turns>>
  PROVE  Inv'
<1>1. /\ OfThreads(job')
      /\ \A u \in Threads : u # t => job'[u] = job[u]
      /\ "turn" \in DOMAIN job'[t] /\ job'[t].turn = job[t].turn
  BY SetKeeps DEF Inv, JobsInv
<1>2. JobsInv'
  BY <1>1, MoveKeeps DEF Inv, JobsInv, tvars
<1> QED BY <1>2 DEF Inv, TrailInv, Told, tvars

\* The entry of a turn bears out what its customer is told.
LEMMA EntryBears ==
  ASSUME NEW t \in Threads, Entry(t) \in Records, NEW session
  PROVE  Bears(Entry(t), [turn |-> job[t].turn, session |-> session,
                          decision |-> Decision(job[t].outcome),
                          escalated |-> Escalated(job[t].outcome)])
<1> DEFINE outcome == job[t].outcome
           a == [turn |-> job[t].turn, session |-> session,
                 decision |-> Decision(outcome), escalated |-> Escalated(outcome)]
<1>1. /\ Entry(t).turn = job[t].turn /\ Entry(t).decision = Label(outcome)
      /\ Entry(t).escalated = Escalated(outcome) /\ Entry(t).decision \in AuditDecisions
  BY DEF Entry, Records
<1>2. /\ a.turn = job[t].turn /\ a.decision = Decision(outcome)
      /\ a.escalated = Escalated(outcome)
  OBVIOUS
<1>3. IF Escalated(outcome) THEN Label(outcome) \notin {"passthrough", "unknown"}
      ELSE Label(outcome) = Decision(outcome)
  BY DEF Escalated, Label, Decision, Verdicts
<1> HIDE DEF a, outcome
<1>4. Bears(Entry(t), a)
  BY <1>1, <1>2, <1>3 DEF Bears
<1> QED BY <1>4 DEF a, outcome

\* A thread that ends its job, by then acknowledged if it answers.
LEMMA DoneKeeps ==
  ASSUME Inv, NEW t \in Threads, Done(t), TrailInv', acked \subseteq acked',
         \/ answered' = answered
         \/ Tell(t) /\ Entry(t) \in acked' /\ Entry(t) \in Records,
         turns' = turns
  PROVE  Inv'
<1>1. JobsInv'
  <2>1. /\ at' = [at EXCEPT ![t] = "idle"] /\ OfThreads(job')
        /\ \A u \in Threads : u # t => job'[u] = job[u]
    <3>1. OfThreads(job) /\ job' = [job EXCEPT ![t] = NoJob]
      BY DEF Done, Inv, JobsInv
    <3>2. job' = [u \in Threads |-> IF u = t THEN NoJob ELSE job[u]]
      BY <3>1 DEF OfThreads
    <3> QED BY <3>2 DEF Done, OfThreads
  <2> QED BY <2>1, MoveKeeps DEF Inv, JobsInv, Posts
<1>2. Told'
  <2>1. CASE answered' = answered
    BY <2>1 DEF Inv, Told
  <2>2. CASE Tell(t) /\ Entry(t) \in acked' /\ Entry(t) \in Records
    <3>1. PICK a : answered' = answered \cup {a} /\ Bears(Entry(t), a)
      BY <2>2, EntryBears DEF Tell
    <3>2. \A b \in answered : \E e \in acked' : e \in Records /\ Bears(e, b)
      BY DEF Inv, Told
    <3> QED BY <2>2, <3>1, <3>2 DEF Told
  <2> QED BY <2>1, <2>2
<1> QED BY <1>1, <1>2 DEF Inv

LEMMA EntryIsRecord ==
  ASSUME JobsInv, NEW t \in Threads, at[t] # "idle", Valid(Entry(t))
  PROVE  Entry(t) \in Records
<1>1. job[t].turn \in Nat /\ Label(job[t].outcome) \in AuditDecisions
  BY DEF JobsInv, Valid, Entry
<1>2. Escalated(job[t].outcome) \in BOOLEAN
  BY DEF Escalated
<1> QED BY <1>1, <1>2 DEF Entry, Records

LEMMA InitInv == Init => Inv
<1> SUFFICES ASSUME Init PROVE Inv
  OBVIOUS
<1>1. TrailInv
  <2>1. /\ disk = <<>> /\ buffer = <<>> /\ cut = FALSE /\ acked = {}
    BY DEF Init, TrailInit
  <2>2. disk \in Files /\ buffer \in Seq(Records) /\ DOMAIN disk = {}
    BY <2>1 DEF Files
  <2> QED BY <2>1, <2>2 DEF TrailInv, Formed
<1>2. JobsInv
  <2>1. /\ turns = 0 /\ at = [t \in Threads |-> "idle"] /\ job = [t \in Threads |-> NoJob]
    BY DEF Init
  <2> QED BY <2>1 DEF JobsInv, OfThreads, Posts
<1>3. Told
  BY DEF Init, Told
<1> QED BY <1>1, <1>2, <1>3 DEF Inv

LEMMA StepInv == Inv /\ [Next]_vars => Inv'
<1> SUFFICES ASSUME Inv, [Next]_vars PROVE Inv'
  OBVIOUS
<1>0. TrailInv /\ JobsInv /\ Told
  BY DEF Inv
<1> USE <1>0
<1>1. ASSUME NEW t \in Threads, NEW s \in Sessions, Receive(t, s) PROVE Inv'
  <2>1. /\ at' = [at EXCEPT ![t] = "customer"] /\ turns' = turns + 1
        /\ job' = [job EXCEPT ![t] = Job("message", s, turns + 1)]
        /\ UNCHANGED <<tvars, answered>>
    BY <1>1 DEF Receive, Goto
  <2>2. /\ OfThreads(job')
        /\ \A u \in Threads : u # t => job'[u] = job[u]
        /\ "turn" \in DOMAIN job'[t] /\ job'[t].turn \in Nat
    <3>1. OfThreads(job) /\ turns \in Nat
      BY DEF JobsInv
    <3>2. job' = [u \in Threads |-> IF u = t THEN job'[t] ELSE job[u]]
      BY <2>1, <3>1 DEF OfThreads
    <3>3. "turn" \in DOMAIN job'[t] /\ job'[t].turn \in Nat
      BY <2>1, <3>1 DEF Job, OfThreads
    <3> QED BY <3>2, <3>3 DEF OfThreads
  <2>3. JobsInv'
    <3>1. acked' = acked /\ "customer" \in Posts \ {"metrics"}
      BY <2>1 DEF Posts, tvars
    <3>2. turns \in Nat /\ turns' = turns + 1
      BY <2>1 DEF JobsInv
    <3>3. turns' \in Nat
      BY <3>2
    <3> QED BY <2>1, <2>2, <3>1, <3>3, MoveKeeps
  <2> QED BY <2>1, <2>3 DEF Inv, TrailInv, Told, tvars
<1>2. ASSUME NEW t \in Threads, NEW s \in Sessions, NEW kind, Close(t, s, kind) PROVE Inv'
  <2>1. /\ at' = [at EXCEPT ![t] = "flag"] /\ turns' = turns
        /\ job' = [job EXCEPT ![t] = Job(kind, s, 0)]
        /\ UNCHANGED <<tvars, answered>>
    BY <1>2 DEF Close, Goto
  <2>2. /\ OfThreads(job')
        /\ \A u \in Threads : u # t => job'[u] = job[u]
        /\ "turn" \in DOMAIN job'[t] /\ job'[t].turn \in Nat
    <3>1. OfThreads(job) /\ turns \in Nat
      BY DEF JobsInv
    <3>2. job' = [u \in Threads |-> IF u = t THEN job'[t] ELSE job[u]]
      BY <2>1, <3>1 DEF OfThreads
    <3>3. "turn" \in DOMAIN job'[t] /\ job'[t].turn \in Nat
      BY <2>1, <3>1 DEF Job, OfThreads
    <3> QED BY <3>2, <3>3 DEF OfThreads
  <2>3. JobsInv'
    BY <2>1, <2>2, MoveKeeps DEF JobsInv, Posts, tvars
  <2> QED BY <2>1, <2>3 DEF Inv, TrailInv, Told, tvars
<1>3. ASSUME NEW t \in Threads, Load(t) PROVE Inv'
  <2>1. at[t] # "idle" /\ UNCHANGED <<tvars, answered, turns>>
    BY <1>3 DEF Load
  <2>2. CASE Done(t)
    BY <2>1, <2>2, DoneKeeps DEF TrailInv, tvars
  <2>3. CASE ~Done(t)
    <3> DEFINE there == IF at[t] = "customer" THEN "put customer" ELSE "put reply"
    <3>1. at' = [at EXCEPT ![t] = there] /\ Set(t, "held", store[job[t].sid])
      BY <1>3, <2>3 DEF Load
    <3>2. there \in Posts \ {"metrics"}
      BY DEF Posts
    <3> QED BY <2>1, <3>1, <3>2, FieldKeeps
  <2> QED BY <2>2, <2>3
<1>4. ASSUME NEW t \in Threads, StoreCustomer(t) PROVE Inv'
  BY <1>4, FieldKeeps DEF StoreCustomer, StoreTurn, Goto, Posts
<1>5. ASSUME NEW t \in Threads, Dispatch(t) PROVE Inv'
  BY <1>5, FieldKeeps DEF Dispatch, Goto, Posts
<1>6. ASSUME NEW t \in Threads, StoreReply(t) PROVE Inv'
  BY <1>6, FieldKeeps DEF StoreReply, StoreTurn, Goto, Posts
<1>7. ASSUME NEW t \in Threads, LoadFlag(t) PROVE Inv'
  BY <1>7, FieldKeeps DEF LoadFlag, Goto, Posts
<1>8. ASSUME NEW t \in Threads, StoreFlag(t) PROVE Inv'
  <2>1. at[t] # "idle" /\ UNCHANGED <<tvars, answered, turns>>
    BY <1>8 DEF StoreFlag
  <2>2. CASE Done(t)
    BY <2>1, <2>2, DoneKeeps DEF TrailInv, tvars
  <2>3. CASE ~Done(t)
    <3>1. at' = [at EXCEPT ![t] = "audit"] /\ Set(t, "held", NoSession)
      BY <1>8, <2>3 DEF StoreFlag
    <3> QED BY <2>1, <3>1, FieldKeeps DEF Posts
  <2> QED BY <2>2, <2>3
<1>9. ASSUME NEW t \in Threads, Audit(t) PROVE Inv'
  <2>1. /\ at[t] = "audit" /\ Entry(t) \in Records /\ turns' = turns
        /\ TrailInv' /\ acked' = acked \cup {Entry(t)} /\ Valid(Entry(t))
    BY <1>9, EntryIsRecord, LogKeeps DEF Audit
  <2>2. CASE job[t].outcome = "raise"
    BY <1>9, <2>1, <2>2, DoneKeeps DEF Audit
  <2>3. CASE job[t].outcome # "raise"
    <3>1. at' = [at EXCEPT ![t] = "metrics"] /\ UNCHANGED <<answered, job>>
      BY <1>9, <2>3 DEF Audit, Goto
    <3>2. Entry(t)' = Entry(t)
      BY <3>1 DEF Entry
    <3>3. /\ OfThreads(job') /\ \A u \in Threads : job'[u] = job[u]
          /\ "turn" \in DOMAIN job'[t] /\ job'[t].turn \in Nat
      BY <2>1, <3>1 DEF JobsInv
    <3>4. Entry(t)' \in acked' /\ Valid(Entry(t))'
      BY <2>1, <3>2 DEF Valid
    <3>5. JobsInv'
      BY <2>1, <3>1, <3>3, <3>4, MoveKeeps DEF JobsInv, Posts
    <3> QED BY <2>1, <3>1, <3>5 DEF Inv, Told
  <2> QED BY <2>2, <2>3
<1>10. ASSUME NEW t \in Threads, AuditFails(t) PROVE Inv'
  <2>1. TrailInv' /\ acked' = acked
    BY <1>10, EntryIsRecord, LogFailsKeeps DEF AuditFails
  <2> QED BY <1>10, <2>1, DoneKeeps DEF AuditFails
<1>11. ASSUME NEW t \in Threads, Count(t) PROVE Inv'
  <2>1. /\ Entry(t) \in acked /\ Tell(t) /\ Done(t) /\ UNCHANGED <<tvars, turns>>
        /\ Entry(t) \in Records
    BY <1>11, EntryIsRecord DEF Count, JobsInv
  <2> QED BY <2>1, DoneKeeps DEF TrailInv, tvars
<1>12. ASSUME Restart PROVE Inv'
  <2>1. TrailInv' /\ acked' = acked
    BY <1>12, ReopenKeeps DEF Restart
  <2>2. JobsInv'
    BY <1>12 DEF Restart, JobsInv, OfThreads, Posts
  <2>3. Told'
    BY <1>12, <2>1 DEF Restart, Told
  <2> QED BY <2>1, <2>2, <2>3 DEF Inv
<1>13. ASSUME UNCHANGED vars PROVE Inv'
  <2>1. UNCHANGED <<tvars, at, job, answered, turns>>
    BY <1>13 DEF vars
  <2>2. \A t \in Threads : Entry(t)' = Entry(t)
    BY <2>1 DEF Entry
  <2> QED BY <2>1, <2>2 DEF Inv, TrailInv, JobsInv, Told, Valid, tvars
<1>14. ASSUME NEW t \in Threads, AuditInvalid(t) PROVE Inv'
  BY <1>14, DoneKeeps DEF AuditInvalid, TrailInv, tvars
<1> QED BY <1>1, <1>2, <1>3, <1>4, <1>5, <1>6, <1>7, <1>8, <1>9, <1>10,
           <1>11, <1>12, <1>13, <1>14 DEF Next

\* For whatever a customer was told there is an entry that says whether the turn
\* was escalated, under the decision told unless it was: over any number of torn
\* writes, refused entries, restarts and crossing turns (orchestrator.py, audit.py).
THEOREM AuditFirst == Spec => []AnswersHaveEvidence
<1>1. Spec => []Inv
  BY InitInv, StepInv, PTL DEF Spec
<1>2. Inv => AnswersHaveEvidence
  <2> SUFFICES ASSUME Inv, NEW a \in answered
               PROVE  \E d \in AuditDecisions :
                 /\ OnDisk([turn |-> a.turn, decision |-> d, escalated |-> a.escalated])
                 /\ IF a.escalated THEN d \notin {"passthrough", "unknown"} ELSE d = a.decision
    BY DEF AnswersHaveEvidence
  <2>1. PICK e \in acked : e \in Records /\ Bears(e, a)
    BY DEF Inv, Told
  <2>2. OnDisk(e)
    BY LiesOnDisk DEF Inv, TrailInv
  <2>3. e = [turn |-> a.turn, decision |-> e.decision, escalated |-> a.escalated]
    BY <2>1 DEF Records, Bears
  <2>4. PICK d \in AuditDecisions : d = e.decision
    BY <2>1 DEF Bears
  <2> QED BY <2>1, <2>2, <2>3, <2>4 DEF Bears
<1> QED BY <1>1, <1>2, PTL

\* Whatever log_decision has acknowledged is in the file for good, whole, behind
\* nothing but what an ended process left on its line: through failed writes of
\* any shape, restarts and ragged ends (audit.py).
THEOREM AckedOnDisk == Spec => []EvidenceOnDisk
<1>1. Spec => []Inv
  BY InitInv, StepInv, PTL DEF Spec
<1>2. Inv => EvidenceOnDisk
  BY LiesOnDisk DEF Inv, TrailInv, EvidenceOnDisk
<1> QED BY <1>1, <1>2, PTL

---------------------------------------------------------------------------
(* The sessions. *)

Putting(t)   == at[t] \in {"put customer", "put reply", "put flag"}
Answering(t) == at[t] # "idle" /\ job[t].kind = "message"

SessionsTyped ==
  /\ turns \in Nat /\ backend \in {"memory", "sqlite"}
  /\ at \in [Threads -> Posts]
  /\ job \in [Threads -> Jobs \cup {NoJob}]
  /\ store \in [Sessions -> Session \cup {NoSession}]
  /\ \A t \in Threads : at[t] # "idle" =>
       /\ job[t] \in Jobs /\ store[job[t].sid] # NoSession
       /\ at[t] \notin {"flag", "put flag"} => job[t].kind = "message"
       /\ Putting(t) => job[t].held # NoSession

\* No two threads answer one turn.
TurnsApart ==
  /\ \A t \in Threads : Answering(t) => job[t].turn <= turns
  /\ \A t, u \in Threads :
       Answering(t) /\ Answering(u) /\ job[t].turn = job[u].turn => t = u

\* What a thread has still to put into the log.
Unsaid(t, who) ==
  \/ at[t] \in {"customer", "put customer"}
  \/ at[t] \in {"dispatch", "reply", "put reply"} /\ who = "reply"

Has(log, who, n) == \E i \in DOMAIN log : log[i] = <<who, n>>

\* A log has no turn twice, and none that is still to come.
Sound(log) ==
  /\ \A i, j \in DOMAIN log : log[i] = log[j] => i = j
  /\ \A i \in DOMAIN log : log[i][2] <= turns
  /\ \A t \in Threads, who \in {"customer", "reply"} :
       Unsaid(t, who) => ~Has(log, who, job[t].turn)

\* ... be it in the store or held by a thread about to put it there.
LogsSound ==
  /\ \A s \in Sessions : store[s] # NoSession => Sound(store[s].log)
  /\ \A t \in Threads : Putting(t) => Sound(job[t].held.log)

SessionsInv == SessionsTyped /\ TurnsApart /\ LogsSound

\* Setting a field of a job leaves the others as they are.
LEMMA JobSet ==
  ASSUME NEW j \in Jobs
  PROVE  /\ \A v \in Session \cup {NoSession} :
              /\ [j EXCEPT !["held"] = v] \in Jobs
              /\ [j EXCEPT !["held"] = v].held = v
              /\ [j EXCEPT !["held"] = v].kind = j.kind
              /\ [j EXCEPT !["held"] = v].sid = j.sid
              /\ [j EXCEPT !["held"] = v].turn = j.turn
              /\ [j EXCEPT !["held"] = v].outcome = j.outcome
         /\ \A v \in Outcomes :
              /\ [j EXCEPT !["outcome"] = v] \in Jobs
              /\ [j EXCEPT !["outcome"] = v].outcome = v
              /\ [j EXCEPT !["outcome"] = v].kind = j.kind
              /\ [j EXCEPT !["outcome"] = v].sid = j.sid
              /\ [j EXCEPT !["outcome"] = v].turn = j.turn
              /\ [j EXCEPT !["outcome"] = v].held = j.held
BY DEF Jobs

\* The session a thread is about to change is one.
LEMMA HeldFacts ==
  ASSUME SessionsTyped, NEW t \in Threads, Putting(t)
  PROVE  /\ job[t] \in Jobs /\ job[t].sid \in Sessions
         /\ store[job[t].sid] \in Session /\ Held(t) \in Session
<1>1. at[t] # "idle"
  BY DEF Putting
<1>2. /\ job[t] \in Jobs /\ job[t].held # NoSession /\ store[job[t].sid] # NoSession
  BY <1>1 DEF SessionsTyped
<1>3. job[t].held \in Session /\ job[t].sid \in Sessions
  BY <1>2 DEF Jobs
<1> QED BY <1>2, <1>3 DEF Held, SessionsTyped

\* What adding a turn, or setting a flag, makes of a session.
LEMMA SessionSet ==
  ASSUME NEW session \in Session
  PROVE  /\ \A who \in {"customer", "reply"}, n \in Nat :
              LET next == [session EXCEPT !.log = Append(@, <<who, n>>)] IN
              /\ next \in Session /\ next.id = session.id
              /\ next.log = Append(session.log, <<who, n>>)
              /\ next.escalated = session.escalated /\ next.resolved = session.resolved
         /\ LET next == [session EXCEPT !.resolved = TRUE] IN
              /\ next \in Session /\ next.id = session.id /\ next.log = session.log
              /\ next.escalated = session.escalated /\ next.resolved
         /\ LET next == [session EXCEPT !.escalated = TRUE] IN
              /\ next \in Session /\ next.id = session.id /\ next.log = session.log
              /\ next.escalated /\ next.resolved = session.resolved
<1>1. session.log \in Seq(Said)
  BY DEF Session
<1>2. \A who \in {"customer", "reply"}, n \in Nat : Append(session.log, <<who, n>>) \in Seq(Said)
  BY <1>1, AppendProperties DEF Said
<1> QED BY <1>2 DEF Session

---------------------------------------------------------------------------
\* What thread t does, as far as the sessions go: it gets to a post with a job,
\* and leaves one session, at most, other than it was.
Step(t, there, next, s, session) ==
  /\ at' = [at EXCEPT ![t] = there]
  /\ job' = [job EXCEPT ![t] = next]
  /\ store' = [store EXCEPT ![s] = session]
  /\ backend' = backend

LEMMA TypedStep ==
  ASSUME SessionsTyped, NEW t \in Threads, NEW there \in Posts, NEW s \in Sessions,
         NEW next \in Jobs \cup {NoJob}, NEW session \in Session \cup {NoSession},
         Step(t, there, next, s, session), turns' \in Nat,
         store[s] # NoSession => session # NoSession,
         there # "idle" =>
           /\ next \in Jobs /\ next.sid = s /\ session # NoSession
           /\ there \notin {"flag", "put flag"} => next.kind = "message"
           /\ there \in {"put customer", "put reply", "put flag"} => next.held # NoSession
  PROVE  SessionsTyped'
<1>1. /\ at' \in [Threads -> Posts] /\ job' \in [Threads -> Jobs \cup {NoJob}]
      /\ store' \in [Sessions -> Session \cup {NoSession}]
      /\ backend' \in {"memory", "sqlite"}
  BY DEF Step, SessionsTyped
<1>2. /\ at'[t] = there /\ job'[t] = next /\ store'[s] = session
      /\ \A u \in Threads \ {t} : at'[u] = at[u] /\ job'[u] = job[u]
      /\ \A r \in Sessions : store[r] # NoSession => store'[r] # NoSession
  BY DEF Step, SessionsTyped
<1>3. ASSUME NEW u \in Threads, at'[u] # "idle"
      PROVE  /\ job'[u] \in Jobs /\ store'[job'[u].sid] # NoSession
             /\ at'[u] \notin {"flag", "put flag"} => job'[u].kind = "message"
             /\ Putting(u)' => job'[u].held # NoSession
  <2>1. CASE u = t
    BY <1>2, <1>3, <2>1 DEF Putting
  <2>2. CASE u # t
    <3>1. /\ job[u] \in Jobs /\ store[job[u].sid] # NoSession
          /\ at[u] \notin {"flag", "put flag"} => job[u].kind = "message"
          /\ Putting(u) => job[u].held # NoSession
      BY <1>2, <1>3, <2>2 DEF SessionsTyped
    <3>2. job[u].sid \in Sessions
      BY <3>1 DEF Jobs
    <3> QED BY <1>2, <2>2, <3>1, <3>2 DEF Putting
  <2> QED BY <2>1, <2>2
<1> QED BY <1>1, <1>3 DEF SessionsTyped

\* A thread keeps its turn to the end, or begins the next one.
Turns(t) ==
  \/ turns' = turns /\ (Answering(t)' => Answering(t) /\ job'[t].turn = job[t].turn)
  \/ turns' = turns + 1 /\ job'[t].turn = turns + 1

LEMMA TurnsStep ==
  ASSUME SessionsTyped, TurnsApart, NEW t \in Threads, Turns(t),
         \A u \in Threads \ {t} : at'[u] = at[u] /\ job'[u] = job[u]
  PROVE  TurnsApart'
<1>1. \A u \in Threads \ {t} : Answering(u)' <=> Answering(u)
  BY DEF Answering
<1>2. \A u \in Threads : Answering(u) => job[u].turn \in Nat
  BY DEF Answering, SessionsTyped, Jobs
<1>3. turns \in Nat
  BY DEF SessionsTyped
<1>4. CASE turns' = turns /\ (Answering(t)' => Answering(t) /\ job'[t].turn = job[t].turn)
  BY <1>1, <1>4 DEF TurnsApart
<1>5. CASE turns' = turns + 1 /\ job'[t].turn = turns + 1
  BY <1>1, <1>2, <1>3, <1>5 DEF TurnsApart
<1> QED BY <1>4, <1>5 DEF Turns

\* What a thread still has to say was unsaid before, or is a turn of its own.
LEMMA SoundStays ==
  ASSUME SessionsTyped, NEW t \in Threads, NEW log \in Seq(Said), Sound(log),
         \A u \in Threads \ {t} : at'[u] = at[u] /\ job'[u] = job[u],
         turns' \in {turns, turns + 1},
         \A who \in {"customer", "reply"} : Unsaid(t, who)' =>
           (Unsaid(t, who) /\ job'[t].turn = job[t].turn) \/ job'[t].turn = turns + 1
  PROVE  Sound(log)'
<1>1. turns \in Nat /\ turns' \in Nat /\ \A i \in DOMAIN log : log[i][2] \in Nat
  <2>1. \A i \in DOMAIN log : log[i] \in Said
    BY LenProperties, ElementOfSeq
  <2>2. \A e \in Said : e[2] \in Nat
    BY DEF Said
  <2>3. turns \in Nat
    BY DEF SessionsTyped
  <2> QED BY <2>1, <2>2, <2>3
<1>2. \A i \in DOMAIN log : log[i][2] <= turns' /\ log[i][2] # turns + 1
  BY <1>1 DEF Sound
<1>3. ASSUME NEW u \in Threads, NEW who \in {"customer", "reply"}, Unsaid(u, who)'
      PROVE  ~Has(log, who, job'[u].turn)
  <2>1. CASE u # t
    BY <1>3, <2>1 DEF Sound, Unsaid
  <2>2. CASE u = t /\ Unsaid(t, who) /\ job'[t].turn = job[t].turn
    BY <2>2 DEF Sound
  <2>3. CASE u = t /\ job'[t].turn = turns + 1
    BY <1>2, <2>3 DEF Has
  <2> QED BY <1>3, <2>1, <2>2, <2>3
<1> QED BY <1>2, <1>3 DEF Sound

\* A thread says its turn once.
LEMMA SoundGrows ==
  ASSUME SessionsTyped, TurnsApart, NEW t \in Threads, NEW log \in Seq(Said), Sound(log),
         NEW who \in {"customer", "reply"}, Unsaid(t, who), ~Unsaid(t, who)',
         \A u \in Threads \ {t} : at'[u] = at[u] /\ job'[u] = job[u],
         turns' = turns, job'[t].turn = job[t].turn,
         \A v \in {"customer", "reply"} : Unsaid(t, v)' => Unsaid(t, v)
  PROVE  Sound(Append(log, <<who, job[t].turn>>))'
<1> DEFINE n    == job[t].turn
           next == Append(log, <<who, n>>)
<1>1. Sound(log)'
  BY SoundStays
<1>2. at[t] \notin {"idle", "flag", "put flag"}
  BY DEF Unsaid
<1>3. Answering(t) /\ n \in Nat /\ n <= turns
  <2>1. Answering(t) /\ n \in Nat
    BY <1>2 DEF Answering, SessionsTyped, Jobs
  <2> QED BY <2>1 DEF TurnsApart
<1>4. /\ Len(log) \in Nat /\ DOMAIN log = 1..Len(log) /\ DOMAIN next = 1..(Len(log) + 1)
      /\ \A i \in 1..Len(log) : next[i] = log[i]
      /\ next[Len(log) + 1] = <<who, n>>
  BY <1>3, LenProperties, AppendProperties DEF Said
<1>5. \A i \in DOMAIN log : log[i] # <<who, n>>
  BY DEF Sound, Has
<1> HIDE DEF next, n
<1>6. \A i, j \in DOMAIN next : next[i] = next[j] => i = j
  <2> SUFFICES ASSUME NEW i \in DOMAIN next, NEW j \in DOMAIN next, next[i] = next[j]
               PROVE  i = j
    OBVIOUS
  <2>1. CASE i \in DOMAIN log /\ j \in DOMAIN log
    BY <1>4, <2>1 DEF Sound
  <2>2. CASE i \notin DOMAIN log /\ j \notin DOMAIN log
    BY <1>4, <2>2
  <2>3. CASE i \in DOMAIN log /\ j \notin DOMAIN log
    BY <1>4, <1>5, <2>3
  <2>4. CASE i \notin DOMAIN log /\ j \in DOMAIN log
    BY <1>4, <1>5, <2>4
  <2> QED BY <2>1, <2>2, <2>3, <2>4
<1>7. \A i \in DOMAIN next : next[i][2] <= turns'
  <2>1. \A i \in DOMAIN log : log[i][2] <= turns'
    BY <1>1 DEF Sound
  <2>2. ASSUME NEW i \in DOMAIN next PROVE next[i][2] <= turns'
    <3>1. CASE i \in DOMAIN log
      BY <1>4, <2>1, <3>1
    <3>2. CASE i \notin DOMAIN log
      BY <1>3, <1>4, <3>2
    <3> QED BY <3>1, <3>2
  <2> QED BY <2>2
<1>8. ASSUME NEW u \in Threads, NEW v \in {"customer", "reply"}, Unsaid(u, v)'
      PROVE  ~Has(next, v, job'[u].turn)
  <2>1. ~Has(log, v, job'[u].turn)
    BY <1>1, <1>8 DEF Sound
  <2>2. <<v, job'[u].turn>> # <<who, n>>
    <3>1. CASE u = t
      BY <1>8, <3>1
    <3>2. CASE u # t
      <4>1. Answering(u) /\ job'[u].turn = job[u].turn
        BY <1>8, <3>2 DEF Unsaid, Answering, SessionsTyped
      <4> QED BY <1>3, <3>2, <4>1 DEF TurnsApart, n
    <3> QED BY <3>1, <3>2
  <2> QED BY <1>4, <2>1, <2>2 DEF Has
<1> QED BY <1>6, <1>7, <1>8 DEF Sound, next, n

\* The logs after a step that leaves all but one session as it is.
LEMMA LogsStep ==
  ASSUME SessionsTyped, LogsSound, NEW t \in Threads, NEW there, NEW s \in Sessions,
         NEW next, NEW session, Step(t, there, next, s, session),
         turns' \in {turns, turns + 1},
         \A who \in {"customer", "reply"} : Unsaid(t, who)' =>
           (Unsaid(t, who) /\ job'[t].turn = job[t].turn) \/ job'[t].turn = turns + 1,
         session # NoSession => Sound(session.log)',
         there \in {"put customer", "put reply", "put flag"} => Sound(next.held.log)'
  PROVE  LogsSound'
<1>1. /\ at'[t] = there /\ job'[t] = next /\ store'[s] = session
      /\ \A u \in Threads \ {t} : at'[u] = at[u] /\ job'[u] = job[u]
      /\ \A r \in Sessions \ {s} : store'[r] = store[r]
  BY DEF Step, SessionsTyped
<1>2. ASSUME NEW r \in Sessions, store'[r] # NoSession PROVE Sound(store[r].log)'
  <2>1. CASE r = s
    BY <1>1, <1>2, <2>1 DEF Sound
  <2>2. CASE r # s
    <3>1. store[r] # NoSession /\ store[r].log \in Seq(Said)
      BY <1>1, <1>2, <2>2 DEF SessionsTyped, Session
    <3>2. PICK log \in Seq(Said) : log = store[r].log
      BY <3>1
    <3>3. Sound(log)
      BY <3>1, <3>2 DEF LogsSound
    <3>4. Sound(log)'
      BY <1>1, <3>3, SoundStays
    <3>5. store'[r].log = log
      BY <1>1, <2>2, <3>2
    <3> QED BY <3>4, <3>5 DEF Sound
  <2> QED BY <2>1, <2>2
<1>3. ASSUME NEW u \in Threads, Putting(u)' PROVE Sound(job[u].held.log)'
  <2>1. CASE u = t
    BY <1>1, <1>3, <2>1 DEF Putting, Sound
  <2>2. CASE u # t
    <3>1. Putting(u) /\ job'[u] = job[u]
      BY <1>1, <1>3, <2>2 DEF Putting
    <3>2. job[u].held.log \in Seq(Said)
      <4>1. at[u] # "idle"
        BY <3>1 DEF Putting
      <4>2. job[u] \in Jobs /\ job[u].held # NoSession
        BY <3>1, <4>1 DEF SessionsTyped
      <4>3. job[u].held \in Session
        BY <4>2 DEF Jobs
      <4> QED BY <4>3 DEF Session
    <3>3. PICK log \in Seq(Said) : log = job[u].held.log
      BY <3>2
    <3>4. Sound(log)
      BY <3>1, <3>3 DEF LogsSound
    <3>5. Sound(log)'
      BY <1>1, <3>4, SoundStays
    <3>6. job'[u].held.log = log
      BY <3>1, <3>3
    <3> QED BY <3>5, <3>6 DEF Sound
  <2> QED BY <2>1, <2>2
<1> QED BY <1>2, <1>3 DEF LogsSound

LEMMA TurnsFacts ==
  ASSUME SessionsTyped, NEW t \in Threads, Turns(t)
  PROVE  turns \in Nat /\ turns' \in Nat /\ turns' \in {turns, turns + 1}
<1>1. turns \in Nat
  BY DEF SessionsTyped
<1>2. turns' = turns \/ turns' = turns + 1
  BY DEF Turns
<1> QED BY <1>1, <1>2

\* A thread that goes on has nothing more to say than before.
GoesOn(t) ==
  \A who \in {"customer", "reply"} :
    Unsaid(t, who)' => turns' = turns + 1 \/ Unsaid(t, who)

LEMMA UnsaidStep ==
  ASSUME SessionsTyped, SessionsTyped', NEW t \in Threads, Turns(t), GoesOn(t)
  PROVE  \A who \in {"customer", "reply"} : Unsaid(t, who)' =>
           (Unsaid(t, who) /\ job'[t].turn = job[t].turn) \/ job'[t].turn = turns + 1
<1> SUFFICES ASSUME NEW who \in {"customer", "reply"}, Unsaid(t, who)'
             PROVE  (Unsaid(t, who) /\ job'[t].turn = job[t].turn) \/ job'[t].turn = turns + 1
  OBVIOUS
<1>1. Answering(t)'
  BY DEF Unsaid, Answering, SessionsTyped
<1>2. CASE turns' = turns
  <2>1. turns' # turns + 1
    BY <1>2, TurnsFacts
  <2>2. job'[t].turn = job[t].turn
    BY <1>1, <2>1 DEF Turns
  <2> QED BY <2>1, <2>2 DEF GoesOn
<1>3. CASE turns' = turns + 1
  <2>1. turns' # turns
    BY <1>3, TurnsFacts
  <2> QED BY <2>1 DEF Turns
<1>4. turns' = turns \/ turns' = turns + 1
  BY TurnsFacts
<1> QED BY <1>2, <1>3, <1>4

\* All of it, for a thread that goes on or begins, with a session out of the
\* store or a copy it holds, or with one turn more in it.
LEMMA SessionsStep ==
  ASSUME SessionsInv, NEW t \in Threads, NEW there \in Posts, NEW s \in Sessions,
         NEW next \in Jobs \cup {NoJob}, NEW session \in Session \cup {NoSession},
         Step(t, there, next, s, session), Turns(t), GoesOn(t),
         store[s] # NoSession => session # NoSession,
         there # "idle" =>
           /\ next \in Jobs /\ next.sid = s /\ session # NoSession
           /\ there \notin {"flag", "put flag"} => next.kind = "message"
           /\ there \in {"put customer", "put reply", "put flag"} =>
                next.held # NoSession /\ Sound(next.held.log),
         session = NoSession \/ Sound(session.log) \/ Sound(session.log)'
  PROVE  SessionsInv'
<1>1. SessionsTyped /\ TurnsApart /\ LogsSound
  BY DEF SessionsInv
<1>2. /\ at'[t] = there /\ job'[t] = next
      /\ \A u \in Threads \ {t} : at'[u] = at[u] /\ job'[u] = job[u]
  BY <1>1 DEF Step, SessionsTyped
<1>3. turns' \in Nat /\ turns' \in {turns, turns + 1}
  BY <1>1, TurnsFacts
<1>4. SessionsTyped'
  BY <1>1, <1>3, TypedStep
<1>5. TurnsApart'
  BY <1>1, <1>2, TurnsStep
<1>6. \A who \in {"customer", "reply"} : Unsaid(t, who)' =>
        (Unsaid(t, who) /\ job'[t].turn = job[t].turn) \/ job'[t].turn = turns + 1
  BY <1>1, <1>4, UnsaidStep
<1>7. ASSUME NEW held \in Session, Sound(held.log) PROVE Sound(held.log)'
  <2>1. PICK log \in Seq(Said) : log = held.log
    BY DEF Session
  <2>2. Sound(log)
    BY <1>7, <2>1
  <2>3. Sound(log)'
    BY <1>1, <1>2, <1>3, <1>6, <2>2, SoundStays
  <2> QED BY <2>1, <2>3
<1>8. session # NoSession => Sound(session.log)'
  BY <1>7
<1>9. there \in {"put customer", "put reply", "put flag"} => Sound(next.held.log)'
  <2> SUFFICES ASSUME there \in {"put customer", "put reply", "put flag"}
               PROVE  Sound(next.held.log)'
    OBVIOUS
  <2>1. next \in Jobs /\ next.held # NoSession /\ Sound(next.held.log)
    OBVIOUS
  <2>2. next.held \in Session
    BY <2>1 DEF Jobs
  <2>3. PICK held \in Session : held = next.held
    BY <2>2
  <2>4. Sound(held.log)
    BY <2>1, <2>3
  <2> QED BY <1>7, <2>3, <2>4
<1>10. LogsSound'
  BY <1>1, <1>3, <1>6, <1>8, <1>9, LogsStep
<1> QED BY <1>4, <1>5, <1>10 DEF SessionsInv

---------------------------------------------------------------------------
(* The sessions in memory, where nothing a thread puts takes back what       *)
(* another has put.                                                          *)

Exchanged(log, n) ==
  \E i, j \in DOMAIN log :
    i < j /\ log[i] = <<"customer", n>> /\ log[j] = <<"reply", n>>

IdsApart ==
  /\ \A s \in Sessions : store[s] # NoSession => store[s].id <= turns
  /\ \A s, r \in Sessions :
       store[s] # NoSession /\ store[r] # NoSession /\ store[s].id = store[r].id => s = r

\* How far the turn of a thread has got in its session.
Course(t) ==
  Answering(t) =>
    LET session == store[job[t].sid]
        n       == job[t].turn
    IN /\ at[t] \in {"dispatch", "reply", "put reply"} => Has(session.log, "customer", n)
       /\ at[t] \in {"flag", "put flag", "audit", "metrics"} => Exchanged(session.log, n)
       /\ at[t] \in {"audit", "metrics"} /\ Escalated(job[t].outcome) => session.escalated

Recorded(a) ==
  /\ a.session \in Nat /\ a.session <= turns
  /\ \A s \in Sessions : store[s] # NoSession /\ store[s].id = a.session =>
       /\ Exchanged(store[s].log, a.turn)
       /\ a.escalated => store[s].escalated

MemoryInv ==
  backend = "memory" =>
    /\ IdsApart
    /\ \A t \in Threads : Course(t)
    /\ \A a \in answered : Recorded(a)

\* A session that has gone on.
Grows(old, new) ==
  /\ new.id = old.id
  /\ \A i \in DOMAIN old.log : i \in DOMAIN new.log /\ new.log[i] = old.log[i]
  /\ old.escalated => new.escalated
  /\ old.resolved => new.resolved

\* A step at which every session in memory goes on, unless the process ends.
AllGoOn ==
  backend = "memory" => \A s \in Sessions :
    store[s] # NoSession /\ store'[s] # NoSession => Grows(store[s], store'[s])

LEMMA GrowingKeeps ==
  ASSUME NEW old, NEW new, Grows(old, new), NEW n
  PROVE  /\ \A who : Has(old.log, who, n) => Has(new.log, who, n)
         /\ Exchanged(old.log, n) => Exchanged(new.log, n)
BY DEF Grows, Has, Exchanged

LEMMA AppendingGrows ==
  ASSUME NEW log \in Seq(Said), NEW who \in {"customer", "reply"}, NEW n \in Nat,
         NEW new, new = Append(log, <<who, n>>)
  PROVE  /\ \A i \in DOMAIN log : i \in DOMAIN new /\ new[i] = log[i]
         /\ Has(new, who, n)
         /\ who = "reply" /\ Has(log, "customer", n) => Exchanged(new, n)
<1>1. /\ Len(log) \in Nat /\ DOMAIN log = 1..Len(log) /\ DOMAIN new = 1..(Len(log) + 1)
      /\ \A i \in 1..Len(log) : new[i] = log[i]
      /\ new[Len(log) + 1] = <<who, n>>
  BY LenProperties, AppendProperties DEF Said
<1>2. \A i \in DOMAIN log : i \in DOMAIN new /\ new[i] = log[i] /\ i < Len(log) + 1
  BY <1>1
<1>3. Len(log) + 1 \in DOMAIN new
  BY <1>1
<1>4. Has(new, who, n)
  BY <1>1, <1>3 DEF Has
<1>5. who = "reply" /\ Has(log, "customer", n) => Exchanged(new, n)
  BY <1>1, <1>2, <1>3 DEF Has, Exchanged
<1> QED BY <1>2, <1>4, <1>5

LEMMA MemoryStep ==
  ASSUME SessionsTyped, SessionsTyped', MemoryInv, backend = "memory",
         NEW t \in Threads, NEW there, NEW s \in Sessions, NEW next, NEW session,
         Step(t, there, next, s, session), Turns(t),
         store[s] # NoSession => Grows(store[s], session),
         store[s] = NoSession =>
           session = NoSession \/ (session.id = turns + 1 /\ turns' = turns + 1),
         Course(t)',
         \/ answered' = answered
         \/ Tell(t) /\ Answering(t) /\ at[t] \in {"audit", "metrics"}
  PROVE  MemoryInv'
<1>1. /\ IdsApart /\ \A u \in Threads : Course(u) 
      /\ \A a \in answered : Recorded(a)
  BY DEF MemoryInv
<1>2. /\ store'[s] = session
      /\ \A u \in Threads \ {t} : at'[u] = at[u] /\ job'[u] = job[u]
      /\ \A r \in Sessions \ {s} : store'[r] = store[r]
  BY DEF Step, SessionsTyped
<1>3. turns \in Nat /\ turns' \in Nat /\ (turns' = turns \/ turns' = turns + 1)
  <2>1. turns' \in {turns, turns + 1}
    BY TurnsFacts
  <2> QED BY <2>1 DEF SessionsTyped
<1>4. \A r \in Sessions : store[r] # NoSession => Grows(store[r], store'[r])
  BY <1>2 DEF Grows
<1>5. ASSUME NEW r \in Sessions, store'[r] # NoSession
      PROVE  /\ store[r] # NoSession => store'[r].id = store[r].id
             /\ store[r] = NoSession => r = s /\ store'[r].id = turns + 1 /\ turns' = turns + 1
             /\ store'[r].id \in Nat
  <2>1. store'[r].id \in Nat
    BY <1>5 DEF SessionsTyped, Session
  <2>2. store[r] # NoSession => store'[r].id = store[r].id
    BY <1>4 DEF Grows
  <2>3. store[r] = NoSession => r = s /\ store'[r].id = turns + 1 /\ turns' = turns + 1
    BY <1>2, <1>5
  <2> QED BY <2>1, <2>2, <2>3
<1>6. \A r \in Sessions : store[r] # NoSession => store[r].id \in Nat /\ store[r].id <= turns
  BY <1>1 DEF IdsApart, SessionsTyped, Session
<1>8. IdsApart'
  <2>1. \A r \in Sessions : store'[r] # NoSession => store'[r].id <= turns'
    BY <1>3, <1>5, <1>6
  <2>2. ASSUME NEW q \in Sessions, NEW r \in Sessions, store'[q] # NoSession,
               store'[r] # NoSession, store'[q].id = store'[r].id
        PROVE  q = r
    <3>1. CASE store[q] # NoSession /\ store[r] # NoSession
      BY <1>1, <1>5, <2>2, <3>1 DEF IdsApart
    <3>2. CASE store[q] = NoSession \/ store[r] = NoSession
      BY <1>3, <1>5, <1>6, <2>2, <3>2
    <3> QED BY <3>1, <3>2
  <2> QED BY <2>1, <2>2 DEF IdsApart
<1>9. ASSUME NEW u \in Threads PROVE Course(u)'
  <2>1. CASE u = t
    BY <2>1
  <2>2. CASE u # t
    <3> SUFFICES ASSUME Answering(u)' PROVE Course(u)'
      BY DEF Course
    <3>1. at'[u] = at[u] /\ job'[u] = job[u] /\ Answering(u)
      BY <1>2, <2>2 DEF Answering
    <3>2. job[u].sid \in Sessions /\ store[job[u].sid] # NoSession
      BY <3>1 DEF Answering, SessionsTyped, Jobs
    <3> DEFINE old == store[job[u].sid]
               new == store'[job'[u].sid]
               n   == job[u].turn
    <3>3. Grows(old, new)
      BY <1>4, <3>1, <3>2
    <3>4. /\ at[u] \in {"dispatch", "reply", "put reply"} => Has(old.log, "customer", n)
          /\ at[u] \in {"flag", "put flag", "audit", "metrics"} => Exchanged(old.log, n)
          /\ at[u] \in {"audit", "metrics"} /\ Escalated(job[u].outcome) => old.escalated
      BY <1>1, <3>1 DEF Course
    <3> HIDE DEF old, new, n
    <3>5. /\ Has(old.log, "customer", n) => Has(new.log, "customer", n)
          /\ Exchanged(old.log, n) => Exchanged(new.log, n)
          /\ old.escalated => new.escalated
      BY <3>3, GrowingKeeps DEF Grows
    <3>6. /\ at'[u] \in {"dispatch", "reply", "put reply"} => Has(new.log, "customer", n)
          /\ at'[u] \in {"flag", "put flag", "audit", "metrics"} => Exchanged(new.log, n)
          /\ at'[u] \in {"audit", "metrics"} /\ Escalated(job'[u].outcome) => new.escalated
      BY <3>1, <3>4, <3>5
    <3> QED BY <3>1, <3>6 DEF Course, new, n
  <2> QED BY <2>1, <2>2
<1>10. ASSUME NEW a \in answered PROVE Recorded(a)'
  <2>1. a.session \in Nat /\ a.session <= turns /\ a.session <= turns'
    BY <1>1, <1>3 DEF Recorded
  <2>2. ASSUME NEW r \in Sessions, store'[r] # NoSession, store'[r].id = a.session
        PROVE  /\ Exchanged(store'[r].log, a.turn)
               /\ a.escalated => store'[r].escalated
    <3>1. store[r] # NoSession /\ store[r].id = a.session
      BY <1>3, <1>5, <2>1, <2>2
    <3>2. Exchanged(store[r].log, a.turn) /\ (a.escalated => store[r].escalated)
      BY <1>1, <3>1 DEF Recorded
    <3> QED BY <1>4, <3>1, <3>2, GrowingKeeps DEF Grows
  <2> QED BY <2>1, <2>2 DEF Recorded
<1>11. CASE answered' = answered
  BY <1>8, <1>9, <1>10, <1>11 DEF MemoryInv
<1>12. CASE Tell(t) /\ Answering(t) /\ at[t] \in {"audit", "metrics"}
  <2> DEFINE mine == job[t].sid
  <2>1. PICK a : /\ answered' = answered \cup {a}
                 /\ a = [turn |-> job[t].turn, session |-> store[mine].id,
                         decision |-> Decision(job[t].outcome),
                         escalated |-> Escalated(job[t].outcome)]
    BY <1>12 DEF Tell
  <2>2. /\ a.turn = job[t].turn /\ a.session = store[mine].id
        /\ a.escalated = Escalated(job[t].outcome)
    BY <2>1
  <2>3. mine \in Sessions /\ store[mine] # NoSession
    BY <1>12 DEF Answering, SessionsTyped, Jobs
  <2>4. /\ Exchanged(store[mine].log, a.turn)
        /\ a.escalated => store[mine].escalated
    BY <1>1, <1>12, <2>2 DEF Course
  <2>5. a.session \in Nat /\ a.session <= turns'
    BY <1>3, <1>6, <2>2, <2>3
  <2>6. ASSUME NEW r \in Sessions, store'[r] # NoSession, store'[r].id = a.session
        PROVE  /\ Exchanged(store'[r].log, a.turn)
               /\ a.escalated => store'[r].escalated
    <3>1. store[r] # NoSession /\ store[r].id = store[mine].id
      BY <1>3, <1>5, <1>6, <2>2, <2>3, <2>6
    <3>2. r = mine
      BY <1>1, <2>3, <3>1 DEF IdsApart
    <3> QED BY <1>4, <2>3, <2>4, <3>2, GrowingKeeps DEF Grows
  <2>7. Recorded(a)'
    BY <2>5, <2>6 DEF Recorded
  <2> QED BY <1>8, <1>9, <1>10, <2>1, <2>7 DEF MemoryInv
<1> QED BY <1>11, <1>12

---------------------------------------------------------------------------
(* Step by step. *)

Kept == SessionsInv /\ MemoryInv

LEMMA KeptStep ==
  ASSUME Kept, NEW t \in Threads, NEW there \in Posts, NEW s \in Sessions,
         NEW next \in Jobs \cup {NoJob}, NEW session \in Session \cup {NoSession},
         Step(t, there, next, s, session), Turns(t), GoesOn(t),
         store[s] # NoSession => session # NoSession,
         there # "idle" =>
           /\ next \in Jobs /\ next.sid = s /\ session # NoSession
           /\ there \notin {"flag", "put flag"} => next.kind = "message"
           /\ there \in {"put customer", "put reply", "put flag"} =>
                next.held # NoSession /\ Sound(next.held.log),
         session = NoSession \/ Sound(session.log) \/ Sound(session.log)',
         backend = "memory" =>
           /\ store[s] # NoSession => Grows(store[s], session)
           /\ store[s] = NoSession =>
                session = NoSession \/ (session.id = turns + 1 /\ turns' = turns + 1)
           /\ Course(t)',
         \/ answered' = answered
         \/ Tell(t) /\ Answering(t) /\ at[t] \in {"audit", "metrics"}
  PROVE  Kept' /\ AllGoOn
<1>1. SessionsInv /\ MemoryInv /\ SessionsTyped
  BY DEF Kept, SessionsInv
<1>2. SessionsInv'
  BY <1>1, SessionsStep
<1>3. SessionsTyped'
  BY <1>2 DEF SessionsInv
<1>4. CASE backend = "memory"
  <2>1. MemoryInv'
    BY <1>1, <1>3, <1>4, MemoryStep
  <2>2. AllGoOn
    <3>1. store'[s] = session /\ \A r \in Sessions \ {s} : store'[r] = store[r]
      BY <1>1 DEF Step, SessionsTyped
    <3> QED BY <1>4, <3>1 DEF AllGoOn, Grows
  <2> QED BY <1>2, <2>1, <2>2 DEF Kept
<1>5. CASE backend # "memory"
  <2>1. MemoryInv'
    BY <1>5 DEF MemoryInv, Step
  <2> QED BY <1>2, <1>5, <2>1 DEF Kept, AllGoOn
<1> QED BY <1>4, <1>5

\* A thread that leaves the store alone, and goes on with what it has.
LEMMA QuietStep ==
  ASSUME Kept, NEW t \in Threads, NEW there \in Posts, NEW next \in Jobs \cup {NoJob},
         at[t] # "idle", at' = [at EXCEPT ![t] = there], job' = [job EXCEPT ![t] = next],
         UNCHANGED <<store, backend, turns>>, GoesOn(t),
         there # "idle" =>
           /\ next \in Jobs /\ next.sid = job[t].sid
           /\ next.turn = job[t].turn /\ next.kind = job[t].kind
           /\ there \notin {"flag", "put flag"} => next.kind = "message"
           /\ there \in {"put customer", "put reply", "put flag"} =>
                next.held # NoSession /\ Sound(next.held.log),
         backend = "memory" => Course(t)',
         \/ answered' = answered
         \/ Tell(t) /\ Answering(t) /\ at[t] \in {"audit", "metrics"}
  PROVE  Kept' /\ AllGoOn
<1>1. SessionsTyped
  BY DEF Kept, SessionsInv
<1>2. job[t] \in Jobs /\ job[t].sid \in Sessions /\ store[job[t].sid] # NoSession
      /\ store[job[t].sid] \in Session
  BY <1>1 DEF SessionsTyped, Jobs
<1>3. PICK s \in Sessions, session \in Session : s = job[t].sid /\ session = store[s]
  BY <1>2
<1>4. Step(t, there, next, s, session)
  BY <1>1, <1>3 DEF Step, SessionsTyped
<1>5. Turns(t)
  <2>1. at'[t] = there /\ job'[t] = next
    BY <1>1 DEF SessionsTyped
  <2> QED BY <2>1 DEF Turns, Answering
<1>6. Sound(session.log)
  BY <1>2, <1>3 DEF Kept, SessionsInv, LogsSound
<1>7. Grows(store[s], session)
  BY <1>3 DEF Grows
<1>8. session # NoSession /\ store[s] # NoSession
  BY <1>2, <1>3
<1> QED BY <1>3, <1>4, <1>5, <1>6, <1>7, <1>8, KeptStep

LEMMA DoneStep ==
  ASSUME Kept, NEW t \in Threads, at[t] # "idle", Done(t), UNCHANGED <<store, backend, turns>>,
         \/ answered' = answered
         \/ Tell(t) /\ Answering(t) /\ at[t] \in {"audit", "metrics"}
  PROVE  Kept' /\ AllGoOn
<1>1. at' = [at EXCEPT ![t] = "idle"] /\ job' = [job EXCEPT ![t] = NoJob] /\ at'[t] = "idle"
  BY DEF Done, Kept, SessionsInv, SessionsTyped
<1>2. GoesOn(t) /\ Course(t)' /\ "idle" \in Posts
  BY <1>1 DEF GoesOn, Unsaid, Course, Answering, Posts
<1> QED BY <1>1, <1>2, QuietStep

\* What a thread that is about to put a session has in its hands is sound.
LEMMA HeldSound ==
  ASSUME Kept, NEW t \in Threads, Putting(t)
  PROVE  Sound(Held(t).log)
<1>1. store[job[t].sid] \in Session /\ job[t].sid \in Sessions
  BY HeldFacts DEF Kept, SessionsInv
<1>2. store[job[t].sid] # NoSession
  BY <1>1, ConversationAssumption
<1> QED BY <1>1, <1>2 DEF Held, Kept, SessionsInv, LogsSound

\* A turn that goes into its session.
LEMMA StoreTurnStep ==
  ASSUME Kept, NEW t \in Threads, NEW who \in {"customer", "reply"}, NEW here,
         NEW there \in {"dispatch", "flag", "audit"},
         StoreTurn(t, who, here, there), answered' = answered,
         \/ who = "customer" /\ here = "put customer" /\ there = "dispatch"
         \/ who = "reply" /\ here = "put reply" /\ there \in {"flag", "audit"},
         there = "audit" => ~Escalated(job[t].outcome)
  PROVE  Kept' /\ AllGoOn
<1>1. SessionsInv /\ SessionsTyped /\ MemoryInv /\ TurnsApart
  BY DEF Kept, SessionsInv
<1>2. /\ at[t] = here /\ at' = [at EXCEPT ![t] = there] /\ there \in Posts
      /\ UNCHANGED <<backend, turns>> /\ Putting(t) /\ Answering(t)
  BY <1>1 DEF StoreTurn, Goto, Putting, Posts, Answering, SessionsTyped
<1>3. /\ job[t] \in Jobs /\ job[t].sid \in Sessions /\ Held(t) \in Session
      /\ store[job[t].sid] \in Session /\ job[t].turn \in Nat /\ job[t].kind = "message"
  BY <1>1, <1>2, HeldFacts DEF Jobs, Answering
<1>4. PICK n \in Nat, s \in Sessions, old \in Session :
        n = job[t].turn /\ s = job[t].sid /\ old = Held(t)
  BY <1>3
<1>5. PICK log \in Seq(Said) : log = old.log
  BY DEF Session
<1>6. PICK session : session = [old EXCEPT !.log = Append(@, <<who, n>>)]
  OBVIOUS
<1>7. /\ session \in Session /\ session.id = old.id /\ session.log = Append(log, <<who, n>>)
      /\ session.escalated = old.escalated /\ session.resolved = old.resolved
  <2> DEFINE grown == [old EXCEPT !.log = Append(@, <<who, n>>)]
  <2>1. /\ grown \in Session /\ grown.id = old.id
        /\ grown.log = Append(old.log, <<who, n>>) /\ grown.escalated = old.escalated
        /\ grown.resolved = old.resolved
    BY SessionSet
  <2>2. session = grown
    BY <1>6
  <2> HIDE DEF grown
  <2> QED BY <1>5, <2>1, <2>2
<1>8. PICK next : next = [job[t] EXCEPT !["held"] = NoSession]
  OBVIOUS
<1>9. /\ next \in Jobs /\ next.sid = s /\ next.turn = n /\ next.kind = "message"
      /\ next.outcome = job[t].outcome
  BY <1>3, <1>4, <1>8, JobSet
<1>10. Step(t, there, next, s, session)
  <2>1. WithTurn(t, who) = session
    BY <1>4, <1>6 DEF WithTurn
  <2> QED BY <1>2, <1>4, <1>8, <2>1 DEF Step, StoreTurn, Put, Set
<1>11. at'[t] = there /\ job'[t] = next /\ store'[s] = session
       /\ \A u \in Threads \ {t} : at'[u] = at[u] /\ job'[u] = job[u]
  BY <1>1, <1>10 DEF Step, SessionsTyped
<1>12. Turns(t)
  BY <1>2, <1>4, <1>9, <1>11 DEF Turns, Answering
<1>13. /\ Unsaid(t, who) /\ ~Unsaid(t, who)'
       /\ \A v \in {"customer", "reply"} : Unsaid(t, v)' => Unsaid(t, v)
  BY <1>2, <1>11 DEF Unsaid
<1>14. GoesOn(t)
  BY <1>13 DEF GoesOn
<1>15. Sound(session.log)'
  <2>1. Sound(log)
    BY <1>2, <1>4, <1>5, HeldSound
  <2>2. Sound(Append(log, <<who, job[t].turn>>))'
    BY <1>1, <1>2, <1>4, <1>9, <1>11, <1>13, <2>1, SoundGrows
  <2>3. job'[t].turn = n
    BY <1>9, <1>11
  <2> QED BY <1>7, <2>2, <2>3 DEF Sound
<1>16. ASSUME backend = "memory" PROVE Grows(store[s], session) /\ Course(t)'
  <2>1. old = store[s]
    BY <1>4, <1>16 DEF Held
  <2>3. PICK grown : grown = session.log /\ grown = Append(log, <<who, n>>)
    BY <1>7
  <2>2. /\ \A i \in DOMAIN log : i \in DOMAIN grown /\ grown[i] = log[i]
        /\ Has(grown, who, n)
        /\ who = "reply" /\ Has(log, "customer", n) => Exchanged(grown, n)
    BY <2>3, AppendingGrows
  <2>6. Grows(old, session)
    BY <1>5, <1>7, <2>2, <2>3 DEF Grows
  <2>7. /\ Has(session.log, who, n)
        /\ who = "reply" /\ Has(log, "customer", n) => Exchanged(session.log, n)
    BY <2>2, <2>3
  <2>4. at[t] = "put reply" => Has(log, "customer", n)
    BY <1>1, <1>2, <1>4, <1>5, <1>16, <2>1 DEF MemoryInv, Course
  <2>5. Course(t)'
    BY <1>2, <1>9, <1>11, <2>4, <2>7 DEF Course
  <2> QED BY <2>1, <2>5, <2>6
<1>17. session # NoSession /\ store[s] # NoSession
  BY <1>3, <1>4, <1>7, ConversationAssumption
<1>18. there \notin {"idle", "put customer", "put reply", "put flag"}
  OBVIOUS
<1> QED BY <1>2, <1>7, <1>9, <1>10, <1>12, <1>14, <1>15, <1>16, <1>17, <1>18, KeptStep

\* Course, of the same session at another post.
LEMMA CourseFacts ==
  ASSUME Kept, backend = "memory", NEW t \in Threads, at[t] # "idle",
         job[t].kind = "message"
  PROVE  LET session == store[job[t].sid]
             n       == job[t].turn
         IN /\ at[t] \in {"dispatch", "reply", "put reply"} => Has(session.log, "customer", n)
            /\ at[t] \in {"flag", "put flag", "audit", "metrics"} => Exchanged(session.log, n)
            /\ at[t] \in {"audit", "metrics"} /\ Escalated(job[t].outcome) => session.escalated
BY DEF Kept, MemoryInv, Course, Answering

LEMMA ReceiveStep ==
  ASSUME Kept, NEW t \in Threads, NEW s \in Sessions, Receive(t, s)
  PROVE  Kept' /\ AllGoOn
<1>1. SessionsTyped /\ LogsSound /\ turns \in Nat
  BY DEF Kept, SessionsInv, SessionsTyped
<1>2. PICK next : next = Job("message", s, turns + 1)
  OBVIOUS
<1>3. PICK session : session = IF store[s] = NoSession THEN Fresh(turns + 1) ELSE store[s]
  OBVIOUS
<1>4. /\ next \in Jobs /\ next.sid = s /\ next.kind = "message" /\ next.turn = turns + 1
  BY <1>1, <1>2 DEF Job, Jobs
<1>5. /\ session \in Session
      /\ store[s] # NoSession => session = store[s]
      /\ store[s] = NoSession => session.id = turns + 1 /\ session.log = <<>>
  <2>1. <<>> \in Seq(Said)
    OBVIOUS
  <2>2. /\ Fresh(turns + 1) \in Session /\ Fresh(turns + 1).id = turns + 1
        /\ Fresh(turns + 1).log = <<>>
    BY <1>1, <2>1 DEF Fresh, Session
  <2> QED BY <1>1, <1>3, <2>2 DEF SessionsTyped
<1>6. /\ at[t] = "idle" /\ turns' = turns + 1 /\ Step(t, "customer", next, s, session)
      /\ answered' = answered
  BY <1>2, <1>3 DEF Receive, Goto, Step
<1>7. /\ at'[t] = "customer" /\ job'[t] = next
      /\ \A u \in Threads \ {t} : at'[u] = at[u] /\ job'[u] = job[u]
  BY <1>1, <1>6 DEF Step, SessionsTyped
<1>8. Turns(t) /\ GoesOn(t)
  BY <1>4, <1>6, <1>7 DEF Turns, GoesOn
<1>9. Sound(session.log)
  <2>1. CASE store[s] # NoSession
    BY <1>1, <1>5, <2>1 DEF LogsSound
  <2>2. CASE store[s] = NoSession
    BY <1>5, <2>2 DEF Sound, Has
  <2> QED BY <2>1, <2>2
<1>10. Course(t)'
  BY <1>7 DEF Course
<1>11. session # NoSession /\ "customer" \in Posts
  BY <1>5, ConversationAssumption DEF Posts
<1>12. store[s] # NoSession => Grows(store[s], session)
  BY <1>5 DEF Grows
<1> QED BY <1>4, <1>5, <1>6, <1>8, <1>9, <1>10, <1>11, <1>12, KeptStep

LEMMA CloseStep ==
  ASSUME Kept, NEW t \in Threads, NEW s \in Sessions, NEW kind \in {"resolve", "sweep"},
         Close(t, s, kind)
  PROVE  Kept' /\ AllGoOn
<1>1. SessionsTyped /\ LogsSound /\ turns \in Nat
  BY DEF Kept, SessionsInv, SessionsTyped
<1>2. PICK next : next = Job(kind, s, 0)
  OBVIOUS
<1>3. PICK session : session = store[s]
  OBVIOUS
<1>4. /\ next \in Jobs /\ next.sid = s /\ next.kind # "message"
  BY <1>1, <1>2 DEF Job, Jobs
<1>5. session \in Session /\ session # NoSession /\ store[s] # NoSession
  BY <1>1, <1>3 DEF Close, SessionsTyped
<1>6. /\ at[t] = "idle" /\ turns' = turns /\ Step(t, "flag", next, s, session)
      /\ answered' = answered
  BY <1>1, <1>2, <1>3 DEF Close, Goto, Step, SessionsTyped
<1>7. at'[t] = "flag" /\ job'[t] = next
  BY <1>1, <1>6 DEF Step, SessionsTyped
<1>8. Turns(t) /\ GoesOn(t)
  BY <1>4, <1>6, <1>7 DEF Turns, GoesOn, Unsaid, Answering
<1>9. Sound(session.log)
  BY <1>1, <1>3, <1>5 DEF LogsSound
<1>10. Course(t)'
  BY <1>4, <1>7 DEF Course, Answering
<1>11. Grows(store[s], session) /\ "flag" \in Posts
  BY <1>3 DEF Grows, Posts
<1> QED BY <1>4, <1>5, <1>6, <1>8, <1>9, <1>10, <1>11, KeptStep

LEMMA LoadStep ==
  ASSUME Kept, NEW t \in Threads, Load(t)
  PROVE  Kept' /\ AllGoOn
<1>1. SessionsTyped /\ at[t] # "idle" /\ UNCHANGED <<store, backend, turns, answered>>
  BY DEF Kept, SessionsInv, Load
<1>2. CASE Done(t)
  BY <1>1, <1>2, DoneStep
<1>3. CASE ~Done(t)
  <2> DEFINE session == store[job[t].sid]
  <2>1. PICK there, next :
          /\ there = IF at[t] = "customer" THEN "put customer" ELSE "put reply"
          /\ next = [job[t] EXCEPT !["held"] = session]
    OBVIOUS
  <2>2. at' = [at EXCEPT ![t] = there] /\ job' = [job EXCEPT ![t] = next]
    BY <1>1, <1>3, <2>1 DEF Load, Set, SessionsTyped
  <2>3. /\ job[t] \in Jobs /\ session \in Session /\ session # NoSession
        /\ job[t].kind = "message"
    <3>1. /\ job[t] \in Jobs /\ session # NoSession /\ job[t].kind = "message"
      BY <1>1 DEF SessionsTyped, Load
    <3>2. job[t].sid \in Sessions
      BY <3>1 DEF Jobs
    <3> QED BY <1>1, <3>1, <3>2 DEF SessionsTyped
  <2> HIDE DEF session
  <2>4. /\ next \in Jobs /\ next.sid = job[t].sid /\ next.turn = job[t].turn
        /\ next.kind = job[t].kind /\ next.held = session
    BY <2>1, <2>3, JobSet
  <2>5. Sound(session.log)
    BY <2>3 DEF Kept, SessionsInv, LogsSound, SessionsTyped, Jobs, session
  <2>6. at'[t] = there /\ job'[t] = next
    BY <1>1, <2>2 DEF SessionsTyped
  <2>7. GoesOn(t)
    BY <2>1, <2>6 DEF GoesOn, Unsaid, Load
  <2>8. backend = "memory" => Course(t)'
    <3> SUFFICES ASSUME backend = "memory" PROVE Course(t)'
      OBVIOUS
    <3>1. there = "put reply" => Has(session.log, "customer", job[t].turn)
      BY <1>1, <2>1, <2>3, CourseFacts DEF Load, session
    <3>2. store'[job'[t].sid] = session
      BY <1>1, <2>4, <2>6 DEF session
    <3> QED BY <2>1, <2>4, <2>6, <3>1, <3>2 DEF Course
  <2>9. there \in Posts
    BY <2>1 DEF Posts
  <2> QED BY <1>1, <2>2, <2>3, <2>4, <2>5, <2>7, <2>8, <2>9, QuietStep
<1> QED BY <1>2, <1>3

LEMMA DispatchStep ==
  ASSUME Kept, NEW t \in Threads, Dispatch(t)
  PROVE  Kept' /\ AllGoOn
<1>1. SessionsTyped /\ at[t] = "dispatch" /\ UNCHANGED <<store, backend, turns, answered>>
  BY DEF Kept, SessionsInv, Dispatch, Goto
<1>2. PICK outcome \in Outcomes : Set(t, "outcome", outcome)
  BY DEF Dispatch
<1>3. PICK next : next = [job[t] EXCEPT !["outcome"] = outcome]
  OBVIOUS
<1>4. at' = [at EXCEPT ![t] = "reply"] /\ job' = [job EXCEPT ![t] = next]
  BY <1>1, <1>2, <1>3 DEF Dispatch, Goto, Set, SessionsTyped
<1>5. job[t] \in Jobs /\ job[t].kind = "message"
  BY <1>1 DEF SessionsTyped
<1>6. /\ next \in Jobs /\ next.sid = job[t].sid /\ next.turn = job[t].turn
      /\ next.kind = job[t].kind
  BY <1>3, <1>5, JobSet
<1>7. at'[t] = "reply" /\ job'[t] = next
  BY <1>1, <1>4 DEF SessionsTyped
<1>8. GoesOn(t) /\ "reply" \in Posts
  BY <1>1, <1>7 DEF GoesOn, Unsaid, Posts
<1>9. backend = "memory" => Course(t)'
  <2> SUFFICES ASSUME backend = "memory" PROVE Course(t)'
    OBVIOUS
  <2>1. Has(store[job[t].sid].log, "customer", job[t].turn)
    BY <1>1, <1>5, CourseFacts
  <2>2. store'[job'[t].sid] = store[job[t].sid] /\ job'[t].turn = job[t].turn
    BY <1>1, <1>6, <1>7
  <2> QED BY <1>7, <2>1, <2>2 DEF Course
<1> QED BY <1>1, <1>4, <1>5, <1>6, <1>8, <1>9, QuietStep

LEMMA LoadFlagStep ==
  ASSUME Kept, NEW t \in Threads, LoadFlag(t)
  PROVE  Kept' /\ AllGoOn
<1>1. SessionsTyped /\ at[t] = "flag" /\ UNCHANGED <<store, backend, turns, answered>>
  BY DEF Kept, SessionsInv, LoadFlag, Goto
<1> DEFINE session == store[job[t].sid]
<1>2. PICK next : next = [job[t] EXCEPT !["held"] = session]
  OBVIOUS
<1>3. at' = [at EXCEPT ![t] = "put flag"] /\ job' = [job EXCEPT ![t] = next]
  BY <1>1, <1>2 DEF LoadFlag, Goto, Set, SessionsTyped
<1>4. job[t] \in Jobs /\ session \in Session /\ session # NoSession
  <2>1. job[t] \in Jobs /\ session # NoSession
    BY <1>1 DEF SessionsTyped
  <2>2. job[t].sid \in Sessions
    BY <2>1 DEF Jobs
  <2> QED BY <1>1, <2>1, <2>2 DEF SessionsTyped
<1> HIDE DEF session
<1>5. /\ next \in Jobs /\ next.sid = job[t].sid /\ next.turn = job[t].turn
      /\ next.kind = job[t].kind /\ next.held = session
  BY <1>2, <1>4, JobSet
<1>6. Sound(session.log)
  BY <1>4 DEF Kept, SessionsInv, LogsSound, SessionsTyped, Jobs, session
<1>7. at'[t] = "put flag" /\ job'[t] = next
  BY <1>1, <1>3 DEF SessionsTyped
<1>8. GoesOn(t) /\ "put flag" \in Posts
  BY <1>1, <1>7 DEF GoesOn, Unsaid, Posts
<1>9. backend = "memory" => Course(t)'
  <2> SUFFICES ASSUME backend = "memory", job[t].kind = "message" PROVE Course(t)'
    BY <1>5, <1>7 DEF Course, Answering
  <2>1. Exchanged(store[job[t].sid].log, job[t].turn)
    BY <1>1, CourseFacts
  <2>2. store'[job'[t].sid] = store[job[t].sid] /\ job'[t].turn = job[t].turn
    BY <1>1, <1>5, <1>7
  <2> QED BY <1>7, <2>1, <2>2 DEF Course
<1> QED BY <1>1, <1>3, <1>4, <1>5, <1>6, <1>8, <1>9, QuietStep

LEMMA StoreFlagStep ==
  ASSUME Kept, NEW t \in Threads, StoreFlag(t)
  PROVE  Kept' /\ AllGoOn
<1>1. /\ SessionsTyped /\ at[t] = "put flag" /\ Putting(t)
      /\ UNCHANGED <<backend, turns, answered>>
  BY DEF Kept, SessionsInv, StoreFlag, Putting
<1>2. /\ job[t] \in Jobs /\ job[t].sid \in Sessions /\ Held(t) \in Session
      /\ store[job[t].sid] \in Session /\ store[job[t].sid] # NoSession
  BY <1>1, HeldFacts, ConversationAssumption
<1>3. PICK s \in Sessions, old \in Session : s = job[t].sid /\ old = Held(t)
  BY <1>2
<1>4. Sound(old.log)
  BY <1>1, <1>3, HeldSound
<1>5. backend = "memory" => old = store[s]
  BY <1>3 DEF Held
<1>6. CASE job[t].kind = "message"
  <2> DEFINE flagged == [old EXCEPT !.escalated = TRUE]
  <2>1. PICK session, next :
          /\ session = flagged
          /\ next = [job[t] EXCEPT !["held"] = NoSession]
    OBVIOUS
  <2>2. /\ session \in Session /\ session.id = old.id /\ session.log = old.log
        /\ session.escalated /\ session.resolved = old.resolved
    <3>1. /\ flagged \in Session /\ flagged.id = old.id /\ flagged.log = old.log
          /\ flagged.escalated /\ flagged.resolved = old.resolved
      BY SessionSet
    <3> HIDE DEF flagged
    <3> QED BY <2>1, <3>1
  <2>3. /\ next \in Jobs /\ next.sid = s /\ next.turn = job[t].turn
        /\ next.kind = "message"
    BY <1>2, <1>3, <1>6, <2>1, JobSet
  <2>4. Step(t, "audit", next, s, session)
    BY <1>1, <1>3, <1>6, <2>1 DEF StoreFlag, Put, Set, Step
  <2>5. at'[t] = "audit" /\ job'[t] = next /\ store'[s] = session
    BY <1>1, <2>4 DEF Step, SessionsTyped
  <2>6. Turns(t) /\ GoesOn(t) /\ "audit" \in Posts
    BY <1>1, <1>6, <2>3, <2>5 DEF Turns, GoesOn, Unsaid, Answering, Posts
  <2>7. ASSUME backend = "memory" PROVE Grows(store[s], session) /\ Course(t)'
    <3>1. Grows(old, session)
      BY <2>2 DEF Grows
    <3>2. Exchanged(store[job[t].sid].log, job[t].turn)
      BY <1>1, <1>6, <2>7, CourseFacts
    <3>3. Exchanged(session.log, job[t].turn)
      BY <1>3, <1>5, <2>2, <2>7, <3>2
    <3> QED BY <1>5, <2>2, <2>3, <2>5, <2>7, <3>1, <3>3 DEF Course
  <2>8. session # NoSession
    BY <2>2, ConversationAssumption
  <2>9. Sound(session.log)
    BY <1>4, <2>2
  <2> QED BY <1>1, <1>2, <1>3, <2>2, <2>3, <2>4, <2>6, <2>7, <2>8, <2>9, KeptStep
<1>7. CASE job[t].kind # "message"
  <2>1. PICK session :
          session = IF job[t].kind = "resolve" THEN [old EXCEPT !.resolved = TRUE]
                    ELSE [old EXCEPT !.escalated = TRUE]
    OBVIOUS
  <2>2. /\ session \in Session /\ session.id = old.id /\ session.log = old.log
        /\ old.escalated => session.escalated
        /\ old.resolved => session.resolved
    <3>1. CASE job[t].kind = "resolve"
      BY <2>1, <3>1, SessionSet
    <3>2. CASE job[t].kind # "resolve"
      BY <2>1, <3>2, SessionSet
    <3> QED BY <3>1, <3>2
  <2>3. Step(t, "idle", NoJob, s, session)
    BY <1>1, <1>3, <1>7, <2>1 DEF StoreFlag, Put, Done, Step
  <2>4. at'[t] = "idle"
    BY <1>1, <2>3 DEF Step, SessionsTyped
  <2>5. Turns(t) /\ GoesOn(t) /\ Course(t)' /\ "idle" \in Posts
    BY <1>1, <2>4 DEF Turns, GoesOn, Unsaid, Answering, Course, Posts
  <2>6. backend = "memory" => Grows(store[s], session)
    BY <1>5, <2>2 DEF Grows
  <2>7. session # NoSession
    BY <2>2, ConversationAssumption
  <2>8. Sound(session.log)
    BY <1>4, <2>2
  <2> QED BY <1>1, <1>2, <1>3, <2>2, <2>3, <2>5, <2>6, <2>7, <2>8, KeptStep
<1> QED BY <1>6, <1>7

LEMMA AuditStep ==
  ASSUME Kept, NEW t \in Threads, Audit(t)
  PROVE  Kept' /\ AllGoOn
<1>1. SessionsTyped /\ at[t] = "audit" /\ UNCHANGED <<store, backend, turns>> /\ Answering(t)
  BY DEF Kept, SessionsInv, Audit, SessionsTyped, Answering
<1>2. CASE job[t].outcome = "raise"
  BY <1>1, <1>2, DoneStep DEF Audit
<1>3. CASE job[t].outcome # "raise"
  <2>1. at' = [at EXCEPT ![t] = "metrics"] /\ job' = job /\ answered' = answered
    BY <1>3 DEF Audit, Goto
  <2>2. PICK next : next = job[t]
    OBVIOUS
  <2>3. job' = [job EXCEPT ![t] = next] /\ at'[t] = "metrics"
    BY <1>1, <2>1, <2>2 DEF SessionsTyped
  <2>4. next \in Jobs /\ next.kind = "message"
    BY <1>1, <2>2 DEF SessionsTyped
  <2>5. GoesOn(t) /\ "metrics" \in Posts
    BY <2>3 DEF GoesOn, Unsaid, Posts
  <2>6. backend = "memory" => Course(t)'
    <3> SUFFICES ASSUME backend = "memory" PROVE Course(t)'
      OBVIOUS
    <3>1. /\ Exchanged(store[job[t].sid].log, job[t].turn)
          /\ Escalated(job[t].outcome) => store[job[t].sid].escalated
      BY <1>1, <2>2, <2>4, CourseFacts
    <3> QED BY <1>1, <2>1, <2>3, <3>1 DEF Course
  <2> QED BY <1>1, <2>1, <2>2, <2>3, <2>4, <2>5, <2>6, QuietStep
<1> QED BY <1>2, <1>3

LEMMA RestartStep ==
  ASSUME Kept, Restart
  PROVE  Kept' /\ AllGoOn
<1>1. SessionsTyped /\ LogsSound /\ MemoryInv
  BY DEF Kept, SessionsInv
<1>2. /\ \A t \in Threads : at'[t] = "idle"
      /\ at' = [t \in Threads |-> "idle"] /\ job' = [t \in Threads |-> NoJob]
      /\ UNCHANGED <<backend, answered, turns>>
      /\ backend = "memory" => store' = [s \in Sessions |-> NoSession]
      /\ backend # "memory" => store' = store
  BY DEF Restart
<1>3. SessionsTyped'
  BY <1>1, <1>2 DEF SessionsTyped, Posts
<1>4. TurnsApart'
  BY <1>2 DEF TurnsApart, Answering
<1>5. LogsSound'
  BY <1>1, <1>2 DEF LogsSound, Sound, Unsaid, Putting
<1>6. MemoryInv'
  BY <1>1, <1>2 DEF MemoryInv, IdsApart, Course, Answering, Recorded
<1>7. AllGoOn
  BY <1>2 DEF AllGoOn
<1> QED BY <1>3, <1>4, <1>5, <1>6, <1>7 DEF Kept, SessionsInv

LEMMA KeptInit == Init => Kept
<1> SUFFICES ASSUME Init PROVE Kept
  OBVIOUS
<1>1. /\ \A t \in Threads : at[t] = "idle"
      /\ at = [t \in Threads |-> "idle"] /\ job = [t \in Threads |-> NoJob]
      /\ store = [s \in Sessions |-> NoSession] /\ answered = {} /\ turns = 0
      /\ backend \in {"memory", "sqlite"}
  BY DEF Init
<1>2. SessionsTyped /\ TurnsApart
  BY <1>1 DEF SessionsTyped, Posts, TurnsApart, Answering
<1>3. LogsSound
  BY <1>1 DEF LogsSound, Putting
<1>4. MemoryInv
  BY <1>1 DEF MemoryInv, IdsApart, Course, Answering
<1> QED BY <1>2, <1>3, <1>4 DEF Kept, SessionsInv

LEMMA KeptNext == Kept /\ [Next]_vars => Kept' /\ AllGoOn
<1> SUFFICES ASSUME Kept, [Next]_vars PROVE Kept' /\ AllGoOn
  OBVIOUS
<1>1. ASSUME NEW t \in Threads, StoreCustomer(t) PROVE Kept' /\ AllGoOn
  BY <1>1, StoreTurnStep DEF StoreCustomer, StoreTurn
<1>2. ASSUME NEW t \in Threads, StoreReply(t) PROVE Kept' /\ AllGoOn
  <2> DEFINE there == IF ~Escalated(job[t].outcome) THEN "audit" ELSE "flag"
  <2>1. there \in {"flag", "audit"} /\ (there = "audit" => ~Escalated(job[t].outcome))
    OBVIOUS
  <2>2. StoreTurn(t, "reply", "put reply", there) /\ answered' = answered
    BY <1>2 DEF StoreReply, StoreTurn
  <2> HIDE DEF there
  <2> QED BY <2>1, <2>2, StoreTurnStep
<1>3. ASSUME NEW t \in Threads, AuditFails(t) PROVE Kept' /\ AllGoOn
  BY <1>3, DoneStep DEF AuditFails
<1>4. ASSUME NEW t \in Threads, Count(t) PROVE Kept' /\ AllGoOn
  <2>1. Answering(t) /\ at[t] = "metrics"
    BY <1>4 DEF Count, Answering, Kept, SessionsInv, SessionsTyped
  <2> QED BY <1>4, <2>1, DoneStep DEF Count
<1>5. CASE UNCHANGED vars
  <2>1. UNCHANGED <<backend, store, at, job, answered, turns>>
    BY <1>5 DEF vars
  <2>2. SessionsTyped' /\ TurnsApart'
    BY <2>1 DEF Kept, SessionsInv, SessionsTyped, TurnsApart, Putting, Answering
  <2>3. LogsSound'
    BY <2>1 DEF Kept, SessionsInv, LogsSound, Sound, Unsaid, Putting
  <2>4. MemoryInv'
    BY <2>1 DEF Kept, MemoryInv, IdsApart, Course, Answering, Recorded
  <2>5. AllGoOn
    BY <2>1 DEF AllGoOn, Grows
  <2> QED BY <2>2, <2>3, <2>4, <2>5 DEF Kept, SessionsInv
<1>6. ASSUME NEW t \in Threads, AuditInvalid(t) PROVE Kept' /\ AllGoOn
  BY <1>6, DoneStep DEF AuditInvalid
<1> QED BY <1>1, <1>2, <1>3, <1>4, <1>5, <1>6, ReceiveStep, CloseStep, LoadStep, DispatchStep,
           LoadFlagStep, StoreFlagStep, AuditStep, RestartStep DEF Next

LEMMA KeptAlways == Spec => []Kept
BY KeptInit, KeptNext, PTL DEF Spec

\* In memory a closed session stays closed, whichever messages, resolutions and
\* sweeps cross, and who is told of an escalation has a session closed by it
\* (session.py, orchestrator.py).
THEOREM ClosedForGood == Spec => ClosuresStick
<1>1. ASSUME Kept, [Next]_vars, Kept', AllGoOn, backend = "memory"
      PROVE  /\ EscalatedIsClosed'
             /\ \A s \in Sessions : store[s] # NoSession /\ store'[s] # NoSession =>
                  /\ store[s].resolved => store'[s].resolved
                  /\ store[s].escalated => store'[s].escalated
  <2>1. backend' = "memory"
    BY <1>1 DEF Next, Receive, Close, Load, StoreCustomer, StoreReply, StoreTurn, Dispatch,
                LoadFlag, StoreFlag, Audit, AuditInvalid, AuditFails, Count, Restart, vars
  <2>2. EscalatedIsClosed'
    BY <1>1, <2>1 DEF Kept, MemoryInv, Recorded, EscalatedIsClosed
  <2> QED BY <1>1, <2>2 DEF AllGoOn, Grows
<1> QED BY <1>1, KeptNext, KeptAlways, PTL DEF Spec, ClosuresStick

\* No turn is twice in the log of a session, in either store, and an answered
\* turn is in the one in memory, message before reply (session.py).
THEOREM TurnsStayInLog == Spec => []TurnsInLog
<1>1. ASSUME Kept, NEW s \in Sessions, store[s] # NoSession
      PROVE  Cardinality(Range(store[s].log)) = Len(store[s].log)
  <2>1. PICK log \in Seq(Said) : log = store[s].log
    BY <1>1 DEF Kept, SessionsInv, SessionsTyped, Session
  <2>2. Len(log) \in Nat /\ DOMAIN log = 1..Len(log)
    BY LenProperties
  <2>3. \A i, j \in 1..Len(log) : log[i] = log[j] => i = j
    BY <1>1, <2>1, <2>2 DEF Kept, SessionsInv, LogsSound, Sound
  <2>4. Range(log) = {log[i] : i \in 1..Len(log)}
    BY <2>2 DEF Range
  <2>5. log \in Bijection(1..Len(log), Range(log))
    <3>1. log \in [1..Len(log) -> Range(log)]
      BY <2>2, <2>4
    <3> QED BY <2>2, <2>3, <2>4, <3>1 DEF Bijection, Injection, Surjection, IsInjective
  <2>6. ExistsBijection(1..Len(log), Range(log))
    BY <2>5 DEF ExistsBijection
  <2>7. Cardinality(Range(log)) = Len(log)
    BY <2>2, <2>6, FS_NatBijection, FS_CountingElements
  <2> QED BY <2>1, <2>7
<1>2. Kept => TurnsInLog
  BY <1>1 DEF Kept, MemoryInv, Recorded, Exchanged, TurnsInLog
<1> QED BY <1>2, KeptAlways, PTL

---------------------------------------------------------------------------
(* The cache: what is read back, and where its entries lie. *)

\* A set of numbers has a least one: what holds for all of them when it holds
\* for the first and passes from one to the next has no first exception.
LEMMA LeastNat ==
  ASSUME NEW T \in SUBSET Nat, T # {}
  PROVE  \E n \in T : \A m \in T : n <= m
<1> DEFINE R == OpToRel(<, Nat)
<1>1. IsWellFoundedOn(R, Nat)
  BY NatLessThanWellFounded
<1>2. \A x, y \in Nat : y < x => <<y, x>> \in R
  BY DEF OpToRel
<1> HIDE DEF R
<1>3. \E x \in T : \A y \in T : ~(<<y, x>> \in R)
  BY <1>1, WFMin
<1>4. PICK n \in T : \A m \in T : ~(<<m, n>> \in R)
  BY <1>3
<1>5. \A m \in T : n \in Nat /\ m \in Nat /\ ~(m < n)
  BY <1>2, <1>4
<1>6. \A m \in T : n <= m
  BY <1>5
<1> QED BY <1>6

\* What has been read after each of the first n lines.
ReadOn(file, g, k) ==
  IF Parses(file[k]) THEN Append(g[k - 1], file[k][1].entry) ELSE g[k - 1]
Reads(file, g, n) == g = [k \in 0..n |-> IF k = 0 THEN <<>> ELSE ReadOn(file, g, k)]

\* The entries s are those of some of the first n lines, in their order.
Picks(file, s, n) ==
  /\ s \in Seq(Records)
  /\ \E f \in [1..Len(s) -> 1..n] :
       /\ \A i, j \in 1..Len(s) : i < j => f[i] < f[j]
       /\ \A i \in 1..Len(s) : Parses(file[f[i]]) /\ s[i] = file[f[i]][1].entry

LEMMA LoadedReads ==
  ASSUME NEW file
  PROVE  Loaded(file) = (CHOOSE g : Reads(file, g, Len(file)))[Len(file)]
BY DEF Loaded, Reads, ReadOn

LEMMA ReadsExists ==
  ASSUME NEW file \in Files
  PROVE  \A n \in Nat : \E g : Reads(file, g, n)
<1> DEFINE T == {n \in Nat : ~(\E g : Reads(file, g, n))}
<1> SUFFICES ASSUME T # {} PROVE FALSE
  OBVIOUS
<1>1. PICK n \in T : \A m \in T : n <= m
  BY LeastNat
<1>2. n # 0
  <2> SUFFICES ASSUME n = 0 PROVE FALSE
    OBVIOUS
  <2>1. PICK g : g = [k \in 0..0 |-> <<>>]
    OBVIOUS
  <2>2. Reads(file, g, 0)
    BY <2>1 DEF Reads
  <2> QED BY <1>1, <2>2
<1>3. n - 1 \in Nat /\ n \in Nat /\ n - 1 \notin T
  BY <1>1, <1>2
<1>4. PICK g : Reads(file, g, n - 1)
  BY <1>3
<1>5. PICK h : h = [k \in 0..n |-> IF k = n THEN ReadOn(file, g, n) ELSE g[k]]
  OBVIOUS
<1>6. \A k \in 0..n : h[k] = IF k = 0 THEN <<>> ELSE ReadOn(file, h, k)
  <2> TAKE k \in 0..n
  <2>1. CASE k = n
    <3>1. h[n] = ReadOn(file, g, n) /\ h[n - 1] = g[n - 1]
      BY <1>3, <1>5
    <3> QED BY <1>2, <2>1, <3>1 DEF ReadOn
  <2>2. CASE k # n
    <3>1. k \in 0..(n - 1) /\ h[k] = g[k]
      BY <1>3, <1>5, <2>2
    <3>2. g[k] = IF k = 0 THEN <<>> ELSE ReadOn(file, g, k)
      BY <1>4, <3>1 DEF Reads
    <3>3. k # 0 => h[k - 1] = g[k - 1]
      BY <1>3, <1>5, <3>1
    <3> QED BY <3>1, <3>2, <3>3 DEF ReadOn
  <2> QED BY <2>1, <2>2
<1>7. Reads(file, h, n)
  BY <1>5, <1>6 DEF Reads
<1> QED BY <1>1, <1>7

LEMMA ReadsPicks ==
  ASSUME NEW file \in Files, NEW N \in Nat, N <= Len(file), NEW g, Reads(file, g, N)
  PROVE  \A n \in 0..N : Picks(file, g[n], n)
<1> DEFINE T == {n \in 0..N : ~Picks(file, g[n], n)}
<1> SUFFICES ASSUME T # {} PROVE FALSE
  OBVIOUS
<1>1. PICK n \in T : \A m \in T : n <= m
  <2>1. T \in SUBSET Nat
    OBVIOUS
  <2> QED BY <2>1, LeastNat
<1>2. n # 0
  <2> SUFFICES ASSUME n = 0 PROVE FALSE
    OBVIOUS
  <2>1. PICK s : s = <<>>
    OBVIOUS
  <2>4. s \in Seq(Records) /\ Len(s) = 0
    BY <2>1
  <2>2. g[0] = s
    BY <2>1 DEF Reads
  <2>3. Picks(file, g[0], 0)
    <3>1. PICK f : f = [i \in 1..0 |-> 1]
      OBVIOUS
    <3>2. f \in [1..Len(s) -> 1..0] /\ ~(\E i \in 1..Len(s) : TRUE)
      BY <2>4, <3>1
    <3> QED BY <2>2, <2>4, <3>2 DEF Picks
  <2> QED BY <1>1, <2>3
<1>3. n - 1 \in 0..N /\ n \in 1..N /\ n - 1 \notin T
  BY <1>1, <1>2
<1>4. PICK s : s = g[n - 1]
  OBVIOUS
<1>5. /\ s \in Seq(Records) /\ Len(s) \in Nat
      /\ g[n] = IF Parses(file[n]) THEN Append(s, file[n][1].entry) ELSE s
  <2>1. n \in 0..N /\ n # 0 /\ g[n] = IF n = 0 THEN <<>> ELSE ReadOn(file, g, n)
    BY <1>3 DEF Reads
  <2>2. Picks(file, s, n - 1)
    BY <1>3, <1>4
  <2> QED BY <1>4, <2>1, <2>2, LenProperties DEF ReadOn, Picks
<1>6. PICK f \in [1..Len(s) -> 1..(n - 1)] :
        /\ \A i, j \in 1..Len(s) : i < j => f[i] < f[j]
        /\ \A i \in 1..Len(s) : Parses(file[f[i]]) /\ s[i] = file[f[i]][1].entry
  BY <1>3, <1>4 DEF Picks
<1>7. CASE ~Parses(file[n])
  <2>1. f \in [1..Len(s) -> 1..n] /\ g[n] = s
    BY <1>3, <1>5, <1>6, <1>7
  <2>2. Picks(file, s, n)
    BY <1>5, <1>6, <2>1 DEF Picks
  <2> QED BY <1>1, <2>1, <2>2
<1>8. CASE Parses(file[n])
  <2>1. PICK e : e = file[n][1].entry
    OBVIOUS
  <2>2. e \in Records
    <3>1. n \in 1..Len(file) /\ file[n] \in Seq(Pieces)
      <4>1. Len(file) \in Nat
        BY LenProperties DEF Files
      <4>2. n \in 1..Len(file)
        BY <1>3, <4>1
      <4> QED BY <4>2, ElementOfSeq DEF Files
    <3>2. PICK line \in Seq(Pieces) : line = file[n] /\ Len(line) = 1
      BY <1>8, <3>1 DEF Parses
    <3>3. line[1] \in Pieces
      BY <3>2, ElementOfSeq
    <3>4. line[1].entry \in Records
      BY <3>3 DEF Pieces
    <3> QED BY <2>1, <3>2, <3>4
  <2>3. PICK r : r = Append(s, e)
    OBVIOUS
  <2>4. /\ r \in Seq(Records) /\ Len(r) = Len(s) + 1 /\ r[Len(s) + 1] = e
        /\ \A i \in 1..Len(s) : r[i] = s[i]
    BY <1>5, <2>2, <2>3, AppendProperties
  <2>5. PICK h : h = [i \in 1..(Len(s) + 1) |-> IF i = Len(s) + 1 THEN n ELSE f[i]]
    OBVIOUS
  <2>6. \A i \in 1..Len(s) : f[i] \in 1..(n - 1) /\ h[i] = f[i] /\ h[Len(s) + 1] = n
    <3>1. \A i \in 1..Len(s) : f[i] \in 1..(n - 1)
      BY <1>6
    <3>2. \A i \in 1..Len(s) : i \in 1..(Len(s) + 1) /\ i # Len(s) + 1
      BY <1>5
    <3>3. Len(s) + 1 \in 1..(Len(s) + 1)
      BY <1>5
    <3> QED BY <2>5, <3>1, <3>2, <3>3
  <2>7. h \in [1..Len(r) -> 1..n]
    BY <1>3, <1>5, <2>4, <2>5, <2>6
  <2>8. \A i \in 1..(Len(s) + 1) : i # Len(s) + 1 => i \in 1..Len(s)
    <3>1. Len(s) \in Nat
      BY <1>5
    <3> QED BY <3>1
  <2>9. \A i, j \in 1..Len(r) : i < j => h[i] < h[j]
    <3> TAKE i, j \in 1..Len(r)
    <3> HAVE i < j
    <3>1. i \in 1..Len(s) /\ h[i] = f[i] /\ f[i] \in 1..(n - 1)
      BY <1>5, <2>4, <2>6
    <3>2. CASE j = Len(s) + 1
      BY <1>3, <2>6, <3>1, <3>2
    <3>3. CASE j # Len(s) + 1
      <4>1. j \in 1..Len(s) /\ h[j] = f[j] /\ f[i] < f[j]
        BY <1>6, <2>4, <2>6, <2>8, <3>1, <3>3
      <4> QED BY <3>1, <4>1
    <3> QED BY <3>2, <3>3
  <2>10. h[Len(s) + 1] = n
    BY <1>5, <2>5
  <2>11. \A i \in 1..Len(r) : Parses(file[h[i]]) /\ r[i] = file[h[i]][1].entry
    <3> TAKE i \in 1..Len(r)
    <3>1. CASE i = Len(s) + 1
      BY <1>8, <2>1, <2>4, <2>10, <3>1
    <3>2. CASE i # Len(s) + 1
      BY <1>6, <2>4, <2>6, <2>8, <3>2
    <3> QED BY <3>1, <3>2
  <2>12. Picks(file, r, n)
    BY <2>4, <2>7, <2>9, <2>11 DEF Picks
  <2>13. g[n] = r
    BY <1>5, <1>8, <2>1, <2>3
  <2> QED BY <1>1, <2>12, <2>13
<1> QED BY <1>7, <1>8

\* _load_existing gives the entries of the lines that parse, in their order.
LEMMA LoadedFacts ==
  ASSUME NEW file \in Files
  PROVE  Picks(file, Loaded(file), Len(file))
<1>1. Len(file) \in Nat
  BY LenProperties DEF Files
<1>2. \E g : Reads(file, g, Len(file))
  BY <1>1, ReadsExists
<1>3. PICK g : g = CHOOSE h : Reads(file, h, Len(file))
  OBVIOUS
<1>4. Reads(file, g, Len(file))
  BY <1>2, <1>3
<1>5. Picks(file, g[Len(file)], Len(file))
  BY <1>1, <1>4, ReadsPicks
<1> QED BY <1>3, <1>5, LoadedReads

\* A piece of a file that the next write leaves alone: any but the cut one.
IsPlace(file, p) ==
  p \in Nat \X Nat /\ p[1] \in DOMAIN file /\ p[2] \in DOMAIN file[p[1]]
End(file)           == <<Len(file), Len(file[Len(file)])>>
Stays(file, hot, p) == IsPlace(file, p) /\ ~(hot /\ p = End(file))
PieceAt(file, p)    == file[p[1]][p[2]]

\* The entries es lie in the file in their order, on pieces that stay.
Follows(file, hot, es) ==
  \E f \in [1..Len(es) -> Nat \X Nat] :
    /\ \A i, j \in 1..Len(es) : i < j => Before(f[i], f[j])
    /\ \A i \in 1..Len(es) :
         /\ Stays(file, hot, f[i])
         /\ PieceAt(file, f[i]).entry = es[i] /\ PieceAt(file, f[i]).part # "torn"

\* The new file keeps the places of the one before it that stay, and ends
\* behind them with this piece.
Continues(f, hot, new, piece) ==
  /\ IsPlace(new, End(new)) /\ PieceAt(new, End(new)) = piece
  /\ \A p : Stays(f, hot, p) =>
       /\ IsPlace(new, p) /\ PieceAt(new, p) = PieceAt(f, p)
       /\ Before(p, End(new))

\* ... in terms of its n lines, the last of m pieces.
Behind(f, hot, new, n, m) ==
  \A p : Stays(f, hot, p) =>
    /\ p[1] \in 1..n /\ p[2] \in DOMAIN new[p[1]]
    /\ new[p[1]][p[2]] = f[p[1]][p[2]]
    /\ p[1] < n \/ (p[1] = n /\ p[2] < m)

LEMMA JoinAt ==
  ASSUME NEW f \in Files, NEW g \in Files
  PROVE  /\ f \o g \in Files /\ Len(f \o g) = Len(f) + Len(g)
         /\ \A i \in 1..(Len(f) + Len(g)) :
              (f \o g)[i] = IF i <= Len(f) THEN f[i] ELSE g[i - Len(f)]
<1>1. f \o g \in Files /\ Len(f \o g) = Len(f) + Len(g)
  BY ConcatProperties DEF Files
<1>2. \A i \in 1..(Len(f) + Len(g)) :
        (f \o g)[i] = IF i <= Len(f) THEN f[i] ELSE g[i - Len(f)]
  BY ConcatProperties DEF Files
<1> QED BY <1>1, <1>2

\* What to know of the lines of a file to know its end and that it keeps places.
LEMMA EndKeeps ==
  ASSUME NEW f, NEW hot, NEW new \in Files, NEW n \in Nat, NEW m \in Nat, NEW piece,
         n = Len(new), m = Len(new[n]), n \in 1..n, m \in 1..m, DOMAIN new[n] = 1..m,
         new[n][m] = piece,
         Behind(f, hot, new, n, m)
  PROVE  Continues(f, hot, new, piece)
<1>1. End(new) = <<n, m>> /\ DOMAIN new = 1..n
  BY LenProperties DEF End, Files
<1>2. IsPlace(new, <<n, m>>) /\ PieceAt(new, <<n, m>>) = piece
  BY <1>1 DEF IsPlace, PieceAt
<1>3. ASSUME NEW p, Stays(f, hot, p)
      PROVE  IsPlace(new, p) /\ PieceAt(new, p) = PieceAt(f, p) /\ Before(p, <<n, m>>)
  BY <1>1, <1>3 DEF Behind, Stays, IsPlace, PieceAt, Before
<1> QED BY <1>1, <1>2, <1>3 DEF Continues

\* What a write does to the places: those that stay keep their pieces, and the
\* last piece written is the new end, behind all of them.
LEMMA LaidPlaces ==
  ASSUME NEW f \in Files, NEW pieces \in Seq(Pieces), pieces # <<>>, Formed(f),
         cut \in BOOLEAN, cut => Ragged(f)
  PROVE  Continues(f, cut, Laid(f, pieces), pieces[Len(pieces)])
<1>1. PICK new : new = Laid(f, pieces)
  OBVIOUS
<1>2. /\ Len(pieces) \in Nat \ {0} /\ Len(f) \in Nat /\ DOMAIN f = 1..Len(f)
      /\ \A k \in 1..Len(f) : Len(f[k]) \in Nat /\ DOMAIN f[k] = 1..Len(f[k])
  <2>1. Len(pieces) \in Nat \ {0} /\ Len(f) \in Nat /\ DOMAIN f = 1..Len(f)
    BY EmptySeq, LenProperties DEF Files
  <2>2. \A k \in 1..Len(f) : f[k] \in Seq(Pieces)
    BY ElementOfSeq DEF Files
  <2> QED BY <2>1, <2>2, LenProperties
<1>4. CASE ~Ragged(f)
  <2>1. PICK lines \in Files :
          /\ lines = Lines(pieces) /\ Len(lines) = Len(pieces)
          /\ \A i \in 1..Len(pieces) : lines[i] = <<pieces[i]>>
    BY LinesFacts
  <2>2. new = f \o lines
    BY <1>1, <1>4, <2>1 DEF Laid
  <2>3. /\ new \in Files /\ Len(new) = Len(f) + Len(pieces)
        /\ \A i \in 1..(Len(f) + Len(pieces)) :
             new[i] = IF i <= Len(f) THEN f[i] ELSE lines[i - Len(f)]
    <3>1. /\ f \o lines \in Files /\ Len(f \o lines) = Len(f) + Len(lines)
          /\ \A i \in 1..(Len(f) + Len(lines)) :
               (f \o lines)[i] = IF i <= Len(f) THEN f[i] ELSE lines[i - Len(f)]
      BY JoinAt
    <3> QED BY <2>1, <2>2, <3>1
  <2>4. PICK n : n = Len(f) + Len(pieces)
    OBVIOUS
  <2>5. n \in Nat /\ n \in 1..n /\ ~(n <= Len(f)) /\ n - Len(f) = Len(pieces)
    BY <1>2, <2>4
  <2>6. new[n] = <<pieces[Len(pieces)]>>
    <3>1. new[n] = lines[Len(pieces)] /\ Len(pieces) \in 1..Len(pieces)
      BY <1>2, <2>3, <2>4, <2>5
    <3> QED BY <2>1, <3>1
  <2>7. Len(new[n]) = 1 /\ DOMAIN new[n] = 1..1 /\ new[n][1] = pieces[Len(pieces)]
    BY <2>6
  <2>8. ASSUME NEW p, Stays(f, cut, p)
        PROVE  p[1] \in 1..n /\ new[p[1]] = f[p[1]] /\ p[1] < n /\ p[2] \in DOMAIN f[p[1]]
    <3>1. p[1] \in 1..Len(f) /\ p[2] \in DOMAIN f[p[1]]
      BY <1>2, <2>8 DEF Stays, IsPlace
    <3>2. p[1] \in 1..n /\ p[1] <= Len(f) /\ p[1] < n
      BY <1>2, <2>4, <3>1
    <3> QED BY <2>3, <2>4, <3>1, <3>2
  <2>9. Behind(f, cut, new, n, 1)
    BY <2>8 DEF Behind
  <2>10. n = Len(new) /\ 1 = Len(new[n]) /\ 1 \in 1..1
    BY <2>3, <2>4, <2>7
  <2>11. Continues(f, cut, new, pieces[Len(pieces)])
    BY <2>3, <2>5, <2>7, <2>9, <2>10, EndKeeps
  <2> QED BY <1>1, <2>11
<1>5. CASE Ragged(f)
  <2>1. PICK old : old = IF cut THEN Front(Last(f)) ELSE Last(f)
    OBVIOUS
  <2>2. PICK last : last = f[Len(f)]
    OBVIOUS
  <2>3. /\ last \in Seq(Pieces) /\ last # <<>> /\ Len(f) \in Nat \ {0} /\ Last(f) = last
        /\ Len(last) \in Nat \ {0} /\ DOMAIN last = 1..Len(last)
        /\ Front(f) \in Files
    <3>1. Last(f) \in Seq(Pieces) /\ Last(f) # <<>> /\ Len(f) \in Nat \ {0} /\ Front(f) \in Files
      BY <1>5, RaggedEnd
    <3>2. Last(f) = last
      BY <2>2 DEF Last
    <3> QED BY <3>1, <3>2, EmptySeq, LenProperties
  <2>4. /\ old \in Seq(Pieces) /\ Len(old) = IF cut THEN Len(last) - 1 ELSE Len(last)
        /\ \A i \in 1..Len(old) : old[i] = last[i]
    <3>1. CASE cut
      <4>1. PICK n : n = Len(last) - 1
        OBVIOUS
      <4>2. n \in Nat /\ \A i \in 1..n : last[i] \in Pieces
        BY <2>3, <4>1, ElementOfSeq
      <4>3. /\ SubSeq(last, 1, n) \in Seq(Pieces)
            /\ Len(SubSeq(last, 1, n)) = IF 1 <= n THEN n - 1 + 1 ELSE 0
            /\ \A i \in 1 .. n - 1 + 1 : SubSeq(last, 1, n)[i] = last[1 + i - 1]
        BY <4>2, SubSeqProperties
      <4>4. Len(SubSeq(last, 1, n)) = n /\ \A i \in 1..n : SubSeq(last, 1, n)[i] = last[i]
        BY <4>2, <4>3
      <4>5. old = SubSeq(last, 1, n)
        BY <2>1, <2>3, <3>1, <4>1 DEF Front
      <4> QED BY <3>1, <4>1, <4>3, <4>4, <4>5
    <3>2. CASE ~cut
      BY <2>1, <2>3, <3>2
    <3> QED BY <3>1, <3>2
  <2>5. PICK line : line = Append(old, Head(pieces))
    OBVIOUS
  <2>6. PICK rest : rest = Tail(pieces)
    OBVIOUS
  <2>7. /\ Head(pieces) = pieces[1] /\ Head(pieces) \in Pieces
        /\ rest \in Seq(Pieces) /\ Len(rest) = Len(pieces) - 1
        /\ \A i \in 1..(Len(pieces) - 1) : rest[i] = pieces[i + 1]
    BY <1>2, <2>6, EmptySeq, HeadTailProperties
  <2>8. /\ line \in Seq(Pieces) /\ Len(line) = Len(old) + 1 /\ Len(old) \in Nat
        /\ line[Len(old) + 1] = pieces[1] /\ DOMAIN line = 1..(Len(old) + 1)
        /\ \A i \in 1..Len(old) : line[i] = old[i]
    BY <2>4, <2>5, <2>7, AppendProperties, LenProperties
  <2>9. /\ Len(Front(f)) = Len(f) - 1
        /\ \A k \in 1..(Len(f) - 1) : Front(f)[k] = f[k]
    <3>1. PICK n : n = Len(f) - 1
      OBVIOUS
    <3>2. n \in Nat /\ \A k \in 1..n : f[k] \in Seq(Pieces)
      BY <2>3, <3>1, ElementOfSeq DEF Files
    <3>3. /\ Len(SubSeq(f, 1, n)) = IF 1 <= n THEN n - 1 + 1 ELSE 0
          /\ \A k \in 1 .. n - 1 + 1 : SubSeq(f, 1, n)[k] = f[1 + k - 1]
      BY <3>2, SubSeqProperties
    <3>4. Len(SubSeq(f, 1, n)) = n /\ \A k \in 1..n : SubSeq(f, 1, n)[k] = f[k]
      BY <3>2, <3>3
    <3> QED BY <3>1, <3>4 DEF Front
  <2>10. PICK head : head = Append(Front(f), line)
    OBVIOUS
  <2>11. /\ head \in Files /\ Len(head) = Len(f) /\ head[Len(f)] = line
         /\ \A k \in 1..(Len(f) - 1) : head[k] = f[k]
    <3>1. /\ head \in Files /\ Len(head) = Len(Front(f)) + 1
          /\ head[Len(Front(f)) + 1] = line
          /\ \A k \in 1..Len(Front(f)) : head[k] = Front(f)[k]
      BY <2>3, <2>8, <2>10, AppendProperties DEF Files
    <3>2. Len(Front(f)) + 1 = Len(f)
      BY <2>3, <2>9
    <3> QED BY <2>9, <3>1, <3>2
  <2>12. PICK lines \in Files :
           /\ lines = Lines(rest) /\ Len(lines) = Len(rest)
           /\ \A i \in 1..Len(rest) : lines[i] = <<rest[i]>>
    BY <2>7, LinesFacts
  <2>13. new = head \o lines
    BY <1>1, <1>5, <2>1, <2>5, <2>6, <2>10, <2>12 DEF Laid
  <2>14. PICK n : n = Len(f) + Len(rest)
    OBVIOUS
  <2>15. /\ new \in Files /\ Len(new) = n /\ n \in Nat /\ n \in 1..n
         /\ \A i \in 1..n : new[i] = IF i <= Len(f) THEN head[i] ELSE lines[i - Len(f)]
    <3>1. /\ new \in Files /\ Len(new) = Len(head) + Len(lines)
          /\ \A i \in 1..(Len(head) + Len(lines)) :
               new[i] = IF i <= Len(head) THEN head[i] ELSE lines[i - Len(head)]
      <4>1. head \in Files
        BY <2>11
      <4>2. /\ head \o lines \in Files /\ Len(head \o lines) = Len(head) + Len(lines)
            /\ \A i \in 1..(Len(head) + Len(lines)) :
                 (head \o lines)[i] = IF i <= Len(head) THEN head[i] ELSE lines[i - Len(head)]
        BY <4>1, JoinAt
      <4> QED BY <2>13, <4>2
    <3>2. n \in Nat /\ n \in 1..n
      BY <1>2, <2>3, <2>7, <2>14
    <3> QED BY <2>11, <2>12, <2>14, <3>1, <3>2
  <2>16. \A k \in 1..(Len(f) - 1) : k \in 1..n /\ k < n /\ new[k] = f[k]
    <3>1. \A k \in 1..(Len(f) - 1) : k \in 1..n /\ k < n /\ k <= Len(f)
      BY <1>2, <2>3, <2>7, <2>14
    <3> QED BY <2>11, <2>15, <3>1
  <2>17. Len(f) \in 1..n /\ Len(f) <= n /\ new[Len(f)] = line
    <3>1. Len(f) \in 1..n /\ Len(f) <= n /\ Len(f) <= Len(f)
      BY <1>2, <2>3, <2>7, <2>14
    <3> QED BY <2>11, <2>15, <3>1
  <2>18. ASSUME NEW p, Stays(f, cut, p), p[1] = Len(f)
         PROVE  p[2] \in 1..Len(old) /\ f[p[1]][p[2]] = line[p[2]]
    <3>1. p[2] \in 1..Len(last) /\ p = <<p[1], p[2]>>
      BY <2>2, <2>3, <2>18 DEF Stays, IsPlace
    <3>2. cut => p[2] # Len(last)
      BY <2>2, <2>18, <3>1 DEF Stays, End
    <3>3. p[2] \in 1..Len(old)
      <4>1. PICK l \in Nat, o \in Nat : l = Len(last) /\ o = Len(old) /\ l # 0
        BY <2>3, <2>8
      <4>2. o = IF cut THEN l - 1 ELSE l
        BY <2>4, <4>1
      <4>3. p[2] \in 1..l /\ (cut => p[2] # l)
        BY <3>1, <3>2, <4>1
      <4>4. p[2] \in 1..o
        BY <4>1, <4>2, <4>3
      <4> QED BY <4>1, <4>4
    <3>4. f[p[1]] = last /\ line[p[2]] = old[p[2]] /\ old[p[2]] = last[p[2]]
      BY <2>2, <2>4, <2>8, <2>18, <3>3
    <3> QED BY <3>3, <3>4
  <2>19. ASSUME NEW p, Stays(f, cut, p)
         PROVE  /\ p[1] \in 1..n /\ p[2] \in DOMAIN new[p[1]]
                /\ new[p[1]][p[2]] = f[p[1]][p[2]]
                /\ p[1] < n \/ (p[1] = n /\ n = Len(f) /\ p[2] < Len(line))
    <3>1. p[1] \in 1..Len(f) /\ p[2] \in DOMAIN f[p[1]]
      BY <1>2, <2>19 DEF Stays, IsPlace
    <3>2. CASE p[1] = Len(f)
      <4>1. p[2] \in 1..Len(old) /\ f[p[1]][p[2]] = line[p[2]] /\ new[p[1]] = line
        BY <2>17, <2>18, <2>19, <3>2
      <4>2. p[2] \in DOMAIN line /\ p[2] < Len(line)
        BY <2>8, <4>1
      <4>3. p[1] \in 1..n /\ (p[1] < n \/ p[1] = n)
        BY <2>3, <2>15, <2>17, <3>2
      <4> QED BY <3>2, <4>1, <4>2, <4>3
    <3>3. CASE p[1] # Len(f)
      <4>1. p[1] \in 1..(Len(f) - 1)
        BY <2>3, <3>1, <3>3
      <4> QED BY <2>16, <3>1, <4>1
    <3> QED BY <3>2, <3>3
  <2>20. CASE Len(rest) = 0
    <3>1. n = Len(f) /\ new[n] = line /\ Len(pieces) = 1
      <4>1. n = Len(f) /\ Len(pieces) = 1
        <5>1. n = Len(f) + 0 /\ Len(pieces) - 1 = 0
          BY <2>7, <2>14, <2>20
        <5>2. Len(f) \in Nat /\ Len(pieces) \in Nat
          BY <1>2
        <5> QED BY <5>1, <5>2
      <4> QED BY <2>17, <4>1
    <3>2. /\ Len(line) \in Nat /\ Len(line) \in 1..Len(line) /\ DOMAIN new[n] = 1..Len(line)
          /\ new[n][Len(line)] = pieces[Len(pieces)]
      BY <2>8, <3>1
    <3>3. Behind(f, cut, new, n, Len(line))
      BY <2>19, <3>1 DEF Behind
    <3>4. Continues(f, cut, new, pieces[Len(pieces)])
      BY <2>15, <3>1, <3>2, <3>3, EndKeeps
    <3> QED BY <1>1, <3>4
  <2>21. CASE Len(rest) # 0
    <3>1. n > Len(f) /\ Len(rest) \in 1..Len(rest) /\ n - Len(f) = Len(rest)
          /\ Len(rest) \in 1..(Len(pieces) - 1) /\ Len(rest) + 1 = Len(pieces)
      BY <1>2, <2>3, <2>7, <2>14, <2>21
    <3>2. new[n] = lines[Len(rest)]
      BY <2>3, <2>15, <3>1
    <3>3. new[n] = <<pieces[Len(pieces)]>>
      BY <2>7, <2>12, <3>1, <3>2
    <3>4. Len(new[n]) = 1 /\ DOMAIN new[n] = 1..1 /\ new[n][1] = pieces[Len(pieces)]
      BY <3>3
    <3>5. n # Len(f)
      BY <2>3, <3>1
    <3>6. Behind(f, cut, new, n, 1)
      BY <2>19, <3>5 DEF Behind
    <3>7. n = Len(new) /\ 1 = Len(new[n]) /\ 1 \in 1..1
      BY <2>15, <3>4
    <3>8. Continues(f, cut, new, pieces[Len(pieces)])
      BY <2>15, <3>4, <3>6, <3>7, EndKeeps
    <3> QED BY <1>1, <3>8
  <2> QED BY <2>20, <2>21
<1> QED BY <1>4, <1>5

\* So entries that lie in the file still do, whatever of the write is cut.
LEMMA FollowsOn ==
  ASSUME NEW f, NEW hot, NEW new, NEW warm, NEW piece, NEW es,
         Follows(f, hot, es), Continues(f, hot, new, piece),
         End(new) \in Nat \X Nat
  PROVE  Follows(new, warm, es)
<1>1. PICK g \in [1..Len(es) -> Nat \X Nat] :
        /\ \A i, j \in 1..Len(es) : i < j => Before(g[i], g[j])
        /\ \A i \in 1..Len(es) :
             /\ Stays(f, hot, g[i])
             /\ PieceAt(f, g[i]).entry = es[i] /\ PieceAt(f, g[i]).part # "torn"
  BY DEF Follows
<1>2. ASSUME NEW i \in 1..Len(es)
      PROVE  /\ Stays(new, warm, g[i])
             /\ PieceAt(new, g[i]).entry = es[i] /\ PieceAt(new, g[i]).part # "torn"
  <2>1. /\ IsPlace(new, g[i]) /\ PieceAt(new, g[i]) = PieceAt(f, g[i])
        /\ Before(g[i], End(new)) /\ g[i] \in Nat \X Nat
    BY <1>1 DEF Continues
  <2>2. g[i] # End(new)
    BY <2>1 DEF Before
  <2> QED BY <1>1, <2>1, <2>2 DEF Stays
<1> QED BY <1>1, <1>2 DEF Follows

\* ... and an entry written whole lies behind them.
LEMMA FollowsLast ==
  ASSUME NEW f, NEW hot, NEW new, NEW piece, NEW es \in Seq(Records),
         NEW e \in Records, piece.entry = e, piece.part = "line",
         Follows(f, hot, es), Continues(f, hot, new, piece),
         End(new) \in Nat \X Nat
  PROVE  Follows(new, FALSE, Append(es, e))
<1>1. Len(es) \in Nat
  BY LenProperties
<1>2. PICK g \in [1..Len(es) -> Nat \X Nat] :
        /\ \A i, j \in 1..Len(es) : i < j => Before(g[i], g[j])
        /\ \A i \in 1..Len(es) :
             /\ Stays(f, hot, g[i])
             /\ PieceAt(f, g[i]).entry = es[i] /\ PieceAt(f, g[i]).part # "torn"
  BY DEF Follows
<1>3. PICK r : r = Append(es, e)
  OBVIOUS
<1>4. PICK n \in Nat : n = Len(es) + 1
  BY <1>1
<1>5. Len(r) = n /\ r[n] = e /\ \A i \in 1..n : i # n => i \in 1..Len(es) /\ r[i] = es[i]
  <2>1. Len(r) = Len(es) + 1 /\ r[Len(es) + 1] = e /\ \A i \in 1..Len(es) : r[i] = es[i]
    BY <1>3, AppendProperties
  <2>2. \A i \in 1..n : i # n => i \in 1..Len(es)
    BY <1>1, <1>4
  <2> QED BY <1>4, <2>1, <2>2
<1>6. PICK h : h = [i \in 1..n |-> IF i = n THEN End(new) ELSE g[i]]
  OBVIOUS
<1>7. /\ n \in 1..n /\ h[n] = End(new)
      /\ \A i \in 1..n : i # n => h[i] = g[i] /\ i \in 1..Len(es)
  <2>1. n \in 1..n
    BY <1>1, <1>4
  <2> QED BY <1>5, <1>6, <2>1
<1>8. h \in [1..n -> Nat \X Nat]
  BY <1>2, <1>5, <1>6
<1>9. ASSUME NEW i \in 1..n, NEW j \in 1..n, i < j PROVE Before(h[i], h[j])
  <2>1. i # n
    BY <1>9, <1>4
  <2>2. h[i] = g[i] /\ i \in 1..Len(es)
    BY <1>7, <2>1
  <2>3. CASE j = n
    <3>1. Stays(f, hot, g[i])
      BY <1>2, <2>2
    <3> QED BY <1>7, <2>2, <2>3, <3>1 DEF Continues
  <2>4. CASE j # n
    <3>1. h[j] = g[j] /\ j \in 1..Len(es)
      BY <1>7, <2>4
    <3> QED BY <1>2, <1>9, <2>2, <3>1
  <2> QED BY <2>3, <2>4
<1>10. ASSUME NEW i \in 1..n
       PROVE  /\ Stays(new, FALSE, h[i])
              /\ PieceAt(new, h[i]).entry = r[i] /\ PieceAt(new, h[i]).part # "torn"
  <2>1. CASE i = n
    <3>1. IsPlace(new, h[i]) /\ PieceAt(new, h[i]) = piece
      BY <1>7, <2>1 DEF Continues
    <3> QED BY <1>5, <2>1, <3>1 DEF Stays
  <2>2. CASE i # n
    <3>1. h[i] = g[i] /\ r[i] = es[i] /\ i \in 1..Len(es)
      BY <1>5, <1>7, <2>2
    <3>2. /\ Stays(f, hot, g[i])
          /\ PieceAt(f, g[i]).entry = es[i] /\ PieceAt(f, g[i]).part # "torn"
      BY <1>2, <3>1
    <3>3. IsPlace(new, g[i]) /\ PieceAt(new, g[i]) = PieceAt(f, g[i])
      BY <3>2 DEF Continues
    <3> QED BY <3>1, <3>2, <3>3 DEF Stays
  <2> QED BY <2>1, <2>2
<1>11. Follows(new, FALSE, r)
  BY <1>5, <1>8, <1>9, <1>10 DEF Follows
<1> QED BY <1>3, <1>11

\* What has been loaded lies in the file it was loaded from.
LEMMA FollowsLoaded ==
  ASSUME NEW file \in Files
  PROVE  Loaded(file) \in Seq(Records) /\ Follows(file, FALSE, Loaded(file))
<1>1. PICK es \in Seq(Records) : es = Loaded(file)
  BY LoadedFacts DEF Picks
<1>2. PICK n \in Nat : n = Len(file)
  BY LenProperties DEF Files
<1>3. PICK f \in [1..Len(es) -> 1..n] :
        /\ \A i, j \in 1..Len(es) : i < j => f[i] < f[j]
        /\ \A i \in 1..Len(es) : Parses(file[f[i]]) /\ es[i] = file[f[i]][1].entry
  BY <1>1, <1>2, LoadedFacts DEF Picks
<1>4. PICK g : g = [i \in 1..Len(es) |-> <<f[i], 1>>]
  OBVIOUS
<1>5. ASSUME NEW i \in 1..Len(es)
      PROVE  /\ g[i] = <<f[i], 1>> /\ f[i] \in 1..n /\ g[i] \in Nat \X Nat
             /\ Stays(file, FALSE, g[i])
             /\ PieceAt(file, g[i]).entry = es[i] /\ PieceAt(file, g[i]).part # "torn"
  <2>1. g[i] = <<f[i], 1>> /\ f[i] \in 1..n /\ f[i] \in Nat
    BY <1>3, <1>4
  <2>2. PICK line : line = file[f[i]]
    OBVIOUS
  <2>3. line \in Seq(Pieces)
    BY <1>2, <2>1, <2>2, ElementOfSeq DEF Files
  <2>4. Len(line) = 1 /\ line[1].part # "torn" /\ es[i] = line[1].entry
    BY <1>3, <2>2 DEF Parses
  <2>5. 1 \in DOMAIN line /\ f[i] \in DOMAIN file
    <3>1. DOMAIN line = 1..1
      BY <2>3, <2>4, LenProperties
    <3>2. DOMAIN file = 1..n
      BY <1>2, LenProperties DEF Files
    <3> QED BY <2>1, <3>1, <3>2
  <2> QED BY <2>1, <2>2, <2>4, <2>5 DEF Stays, IsPlace, PieceAt
<1>6. ASSUME NEW i \in 1..Len(es), NEW j \in 1..Len(es), i < j
      PROVE  Before(g[i], g[j])
  <2>1. f[i] < f[j]
    BY <1>3, <1>6
  <2>2. g[i][1] = f[i] /\ g[j][1] = f[j]
    <3>1. g[i] = <<f[i], 1>> /\ g[j] = <<f[j], 1>>
      BY <1>4
    <3> QED BY <3>1
  <2> QED BY <2>1, <2>2 DEF Before
<1>7. g \in [1..Len(es) -> Nat \X Nat]
  BY <1>4, <1>5
<1>8. Follows(file, FALSE, es)
  BY <1>5, <1>6, <1>7 DEF Follows
<1> QED BY <1>1, <1>8

CacheInv == entries \in Seq(Records) /\ Follows(disk, cut, entries)

\* What a write makes of the cache's entries.
LEMMA WriteFollows ==
  ASSUME TrailInv, CacheInv,
         NEW queue \in Seq(Records), NEW n \in 0..Len(queue),
         NEW left \in {"none", "torn", "bare"}, left # "none" => n < Len(queue),
         Flush(queue, n, left)
  PROVE  /\ Follows(disk', cut', entries)
         /\ left = "none" /\ n = Len(queue) /\ n # 0 =>
              Follows(disk', FALSE, Append(entries, queue[n]))
<1>1. PICK pieces : pieces = Written(queue, n, left)
  OBVIOUS
<1>2. /\ pieces \in Seq(Pieces)
      /\ \A i \in 1..n : i \in 1..Len(pieces) /\ pieces[i] = Piece(queue[i], "line")
      /\ left # "none" => pieces # <<>>
      /\ n = 0 /\ left = "none" => pieces = <<>>
  BY <1>1, WrittenFacts
<1>3. Len(queue) \in Nat /\ n \in Nat
  BY LenProperties
<1>4. PICK new \in Files : new = Laid(disk, pieces) /\ new = disk'
  <2>1. Laid(disk, pieces) \in Files
    BY <1>1, WriteFacts
  <2>2. disk' = Laid(disk, pieces)
    BY <1>1 DEF Flush
  <2> QED BY <2>1, <2>2
<1>5. PICK warm : warm = cut'
  OBVIOUS
<1>6. CASE n = 0 /\ left = "none"
  <2>1. new = disk /\ warm = cut
    BY <1>2, <1>4, <1>5, <1>6 DEF Laid, Flush
  <2> QED BY <1>4, <1>5, <1>6, <2>1 DEF CacheInv
<1>7. CASE ~(n = 0 /\ left = "none")
  <2>1. pieces # <<>>
    <3>1. CASE left # "none"
      BY <1>2, <3>1
    <3>2. CASE left = "none"
      <4>1. 1 \in 1..n
        BY <1>3, <1>7, <3>2
      <4>2. 1 \in 1..Len(pieces)
        BY <1>2, <4>1
      <4>3. Len(pieces) # 0
        BY <4>2
      <4> QED BY <4>3
    <3> QED BY <3>1, <3>2
  <2>2. Continues(disk, cut, new, pieces[Len(pieces)])
    BY <1>2, <1>4, <2>1, LaidPlaces DEF TrailInv
  <2>3. End(new) \in Nat \X Nat
    BY <2>2 DEF Continues, IsPlace
  <2>4. Follows(new, warm, entries)
    BY <2>2, <2>3, FollowsOn DEF CacheInv
  <2>5. ASSUME left = "none", n = Len(queue), n # 0
        PROVE  Follows(new, FALSE, Append(entries, queue[n]))
    <3>1. Len(pieces) = n
      BY <1>1, <1>3, <2>5 DEF Written
    <3>2. n \in 1..n
      BY <1>3, <2>5
    <3>3. pieces[Len(pieces)] = Piece(queue[n], "line")
      BY <1>2, <3>1, <3>2
    <3>4. PICK piece : piece = pieces[Len(pieces)]
      OBVIOUS
    <3>5. piece.entry = queue[n] /\ piece.part = "line"
      BY <3>3, <3>4 DEF Piece
    <3>6. queue[n] \in Records
      BY <2>5, <3>2, ElementOfSeq
    <3> QED BY <2>2, <2>3, <3>4, <3>5, <3>6, FollowsLast DEF CacheInv
  <2> QED BY <1>4, <1>5, <2>4, <2>5
<1> QED BY <1>6, <1>7

LEMMA LogFollows ==
  ASSUME TrailInv, CacheInv, NEW e \in Records, Log(e)
  PROVE  CacheInv' /\ entries' = Append(entries, e)
<1>1. PICK queue \in Seq(Records) : queue = Append(buffer, e)
  BY AppendProperties DEF TrailInv
<1>2. PICK n \in Nat : n = Len(buffer) + 1
  BY LenProperties DEF TrailInv
<1>3. Len(queue) = n /\ queue[n] = e /\ n # 0
  <2>1. Len(buffer) \in Nat /\ Len(queue) = Len(buffer) + 1 /\ queue[Len(buffer) + 1] = e
    BY <1>1, AppendProperties, LenProperties DEF TrailInv
  <2> QED BY <1>2, <2>1
<1>4. Flush(queue, n, "none")
  BY <1>1, <1>2 DEF Log
<1>5. Follows(disk', FALSE, Append(entries, e))
  <2>1. n \in 0..Len(queue)
    BY <1>3
  <2> QED BY <1>3, <1>4, <2>1, WriteFollows
<1>6. cut' = FALSE
  BY <1>3, <1>4 DEF Flush
<1>7. entries' = Append(entries, e) /\ entries' \in Seq(Records)
  BY AppendProperties DEF Log, CacheInv
<1> QED BY <1>5, <1>6, <1>7 DEF CacheInv

LEMMA LogFailsFollows ==
  ASSUME TrailInv, CacheInv, NEW e \in Records, LogFails(e)
  PROVE  CacheInv' /\ entries' = entries
<1>1. PICK queue \in Seq(Records) : queue = Append(buffer, e) /\ Len(queue) = Len(buffer) + 1
  BY AppendProperties DEF TrailInv
<1>2. PICK n \in 0..Len(queue), left \in {"none", "torn", "bare"} :
        Stops(queue, n, left) /\ Flush(queue, n, left)
  BY <1>1 DEF LogFails
<1>3. Follows(disk', cut', entries)
  BY <1>2, WriteFollows DEF Stops
<1>4. entries' = entries
  BY DEF LogFails
<1> QED BY <1>3, <1>4 DEF CacheInv

LEMMA ReopenFollows ==
  ASSUME TrailInv, Reopen
  PROVE  CacheInv'
<1>1. disk' \in Files
  BY ReopenKeeps DEF TrailInv
<1>2. entries' = Loaded(disk') /\ cut' = FALSE
  BY DEF Reopen
<1>3. PICK file \in Files : file = disk'
  BY <1>1
<1>4. Loaded(file) \in Seq(Records) /\ Follows(file, FALSE, Loaded(file))
  BY FollowsLoaded
<1> QED BY <1>2, <1>3, <1>4 DEF CacheInv

---------------------------------------------------------------------------
(* The metrics. *)

OnTrail(n) == \E i \in DOMAIN entries : entries[i].turn = n

KpisInv ==
  /\ \A n \in counted : OnTrail(n)
  /\ \A t \in Threads : at[t] = "metrics" => OnTrail(job[t].turn)

TrailSound == Inv /\ CacheInv /\ KpisInv

\* The cache keeps its turns when an entry is added.
LEMMA OnTrailKeeps ==
  ASSUME CacheInv, NEW e \in Records, entries' = Append(entries, e)
  PROVE  OnTrail(e.turn)' /\ \A n : OnTrail(n) => OnTrail(n)'
<1>1. PICK es : es = entries'
  OBVIOUS
<1>2. /\ es \in Seq(Records) /\ Len(es) = Len(entries) + 1 /\ Len(entries) \in Nat
      /\ es[Len(entries) + 1] = e /\ \A i \in 1..Len(entries) : es[i] = entries[i]
  BY <1>1, AppendProperties, LenProperties DEF CacheInv
<1>3. /\ DOMAIN es = 1..(Len(entries) + 1) /\ DOMAIN entries = 1..Len(entries)
      /\ Len(entries) + 1 \in 1..(Len(entries) + 1)
      /\ \A i \in 1..Len(entries) : i \in 1..(Len(entries) + 1)
  BY <1>2, LenProperties DEF CacheInv
<1>4. \E i \in DOMAIN es : es[i].turn = e.turn
  BY <1>2, <1>3
<1>5. ASSUME NEW n, OnTrail(n) PROVE \E i \in DOMAIN es : es[i].turn = n
  BY <1>2, <1>3, <1>5 DEF OnTrail
<1> QED BY <1>1, <1>4, <1>5 DEF OnTrail

\* One thread moves, and none gets to the metrics before its entry is there.
LEMMA KpisMove ==
  ASSUME JobsInv, KpisInv, NEW t \in Threads, NEW there \in Posts, NEW next,
         at' = [at EXCEPT ![t] = there],
         job' = [job EXCEPT ![t] = next],
         \A n : OnTrail(n) => OnTrail(n)',
         there = "metrics" => OnTrail(next.turn)',
         \A n \in counted' : n \in counted \/ OnTrail(n)'
  PROVE  KpisInv'
<1>1. \A n \in counted' : OnTrail(n)'
  BY DEF KpisInv
<1>2. ASSUME NEW u \in Threads, at'[u] = "metrics" PROVE OnTrail(job[u].turn)'
  <2>1. at'[t] = there /\ job'[t] = next
    BY DEF JobsInv, OfThreads
  <2>2. u # t => at'[u] = at[u] /\ job'[u] = job[u]
    BY DEF JobsInv, OfThreads
  <2>3. CASE u = t
    BY <1>2, <2>1, <2>3 DEF OnTrail
  <2>4. CASE u # t
    <3>1. OnTrail(job[u].turn)
      BY <1>2, <2>2, <2>4 DEF KpisInv
    <3>2. PICK n : n = job[u].turn
      OBVIOUS
    <3>3. OnTrail(n)'
      BY <3>1, <3>2
    <3> QED BY <2>2, <2>4, <3>2, <3>3 DEF OnTrail
  <2> QED BY <2>3, <2>4
<1> QED BY <1>1, <1>2 DEF KpisInv

\* ... away from the trail.
LEMMA KpisApart ==
  ASSUME TrailSound, NEW t \in Threads, NEW there \in Posts \ {"metrics"}, NEW next,
         at' = [at EXCEPT ![t] = there],
         job' = [job EXCEPT ![t] = next],
         UNCHANGED <<tvars, counted>>
  PROVE  CacheInv' /\ KpisInv'
<1>1. CacheInv' /\ entries' = entries /\ counted' = counted
  BY DEF TrailSound, CacheInv, tvars
<1>2. \A n : OnTrail(n) => OnTrail(n)'
  BY <1>1 DEF OnTrail
<1> QED BY <1>1, <1>2, KpisMove DEF TrailSound, Inv

LEMMA SetNext ==
  ASSUME NEW t \in Threads, NEW field, NEW value, Set(t, field, value)
  PROVE  \E next : job' = [job EXCEPT ![t] = next]
<1>1. job' = [job EXCEPT ![t] = [job[t] EXCEPT ![field] = value]]
  BY DEF Set
<1> QED BY <1>1

LEMMA TrailSoundInit == Init => TrailSound
<1> SUFFICES ASSUME Init PROVE TrailSound
  OBVIOUS
<1>1. entries = <<>> /\ counted = {} /\ at = [t \in Threads |-> "idle"]
  BY DEF Init, TrailInit
<1>2. CacheInv
  <2>1. PICK es : es = entries
    OBVIOUS
  <2>2. es \in Seq(Records) /\ Len(es) = 0
    BY <1>1, <2>1
  <2>3. PICK f : f = [i \in 1..0 |-> <<0, 0>>]
    OBVIOUS
  <2>4. f \in [1..Len(es) -> Nat \X Nat] /\ ~(\E i \in 1..Len(es) : TRUE)
    BY <2>2, <2>3
  <2> QED BY <2>1, <2>2, <2>4 DEF CacheInv, Follows
<1>3. KpisInv
  BY <1>1 DEF KpisInv
<1> QED BY <1>2, <1>3, InitInv DEF TrailSound

LEMMA TrailSoundNext == TrailSound /\ [Next]_vars => TrailSound'
<1> SUFFICES ASSUME TrailSound, [Next]_vars PROVE TrailSound'
  OBVIOUS
<1>0. Inv' /\ TrailInv /\ JobsInv /\ CacheInv /\ KpisInv
  BY StepInv DEF TrailSound, Inv
<1> SUFFICES CacheInv' /\ KpisInv'
  BY <1>0 DEF TrailSound
<1>1. ASSUME NEW t \in Threads, NEW s \in Sessions, Receive(t, s) PROVE CacheInv' /\ KpisInv'
  BY <1>1, KpisApart DEF Receive, Goto, Posts
<1>2. ASSUME NEW t \in Threads, NEW s \in Sessions, NEW kind, Close(t, s, kind)
      PROVE  CacheInv' /\ KpisInv'
  BY <1>2, KpisApart DEF Close, Goto, Posts
<1>3. ASSUME NEW t \in Threads, Load(t) PROVE CacheInv' /\ KpisInv'
  <2>1. UNCHANGED <<tvars, counted>>
    BY <1>3 DEF Load
  <2>2. CASE Done(t)
    BY <2>1, <2>2, KpisApart DEF Done, Posts
  <2>3. CASE ~Done(t)
    <3> DEFINE there == IF at[t] = "customer" THEN "put customer" ELSE "put reply"
    <3>1. at' = [at EXCEPT ![t] = there] /\ Set(t, "held", store[job[t].sid])
      BY <1>3, <2>3 DEF Load
    <3>2. there \in Posts \ {"metrics"}
      BY DEF Posts
    <3> HIDE DEF there
    <3> QED BY <2>1, <3>1, <3>2, SetNext, KpisApart
  <2> QED BY <2>2, <2>3
<1>4. ASSUME NEW t \in Threads, StoreCustomer(t) PROVE CacheInv' /\ KpisInv'
  BY <1>4, SetNext, KpisApart DEF StoreCustomer, StoreTurn, Goto, Posts
<1>5. ASSUME NEW t \in Threads, Dispatch(t) PROVE CacheInv' /\ KpisInv'
  BY <1>5, SetNext, KpisApart DEF Dispatch, Goto, Posts
<1>6. ASSUME NEW t \in Threads, StoreReply(t) PROVE CacheInv' /\ KpisInv'
  BY <1>6, SetNext, KpisApart DEF StoreReply, StoreTurn, Goto, Posts
<1>7. ASSUME NEW t \in Threads, LoadFlag(t) PROVE CacheInv' /\ KpisInv'
  BY <1>7, SetNext, KpisApart DEF LoadFlag, Goto, Posts
<1>8. ASSUME NEW t \in Threads, StoreFlag(t) PROVE CacheInv' /\ KpisInv'
  <2>1. UNCHANGED <<tvars, counted>>
    BY <1>8 DEF StoreFlag
  <2>2. CASE Done(t)
    BY <2>1, <2>2, KpisApart DEF Done, Posts
  <2>3. CASE ~Done(t)
    <3>1. at' = [at EXCEPT ![t] = "audit"] /\ Set(t, "held", NoSession)
      BY <1>8, <2>3 DEF StoreFlag
    <3> QED BY <2>1, <3>1, SetNext, KpisApart DEF Posts
  <2> QED BY <2>2, <2>3
<1>9. ASSUME NEW t \in Threads, Audit(t) PROVE CacheInv' /\ KpisInv'
  <2>1. /\ at[t] = "audit" /\ Entry(t) \in Records /\ Log(Entry(t)) /\ counted' = counted
    BY <1>0, <1>9, EntryIsRecord DEF Audit
  <2>2. CacheInv' /\ entries' = Append(entries, Entry(t))
    BY <1>0, <2>1, LogFollows
  <2>3. PICK e \in Records : e = Entry(t)
    BY <2>1
  <2>4. OnTrail(e.turn)' /\ \A n : OnTrail(n) => OnTrail(n)'
    BY <1>0, <2>2, <2>3, OnTrailKeeps
  <2>5. PICK next : next = job[t]
    OBVIOUS
  <2>6. next.turn = e.turn
    BY <2>3, <2>5 DEF Entry
  <2>7. OnTrail(next.turn)'
    BY <2>4, <2>6 DEF OnTrail
  <2>8. CASE job[t].outcome = "raise"
    BY <1>0, <1>9, <2>1, <2>2, <2>4, <2>8, KpisMove DEF Audit, Done, Posts
  <2>9. CASE job[t].outcome # "raise"
    <3>1. /\ at' = [at EXCEPT ![t] = "metrics"] /\ job' = [job EXCEPT ![t] = next]
          /\ "metrics" \in Posts
      BY <1>0, <1>9, <2>5, <2>9 DEF Audit, Goto, JobsInv, OfThreads, Posts
    <3> QED BY <1>0, <2>1, <2>2, <2>4, <2>7, <3>1, KpisMove
  <2> QED BY <2>8, <2>9
<1>10. ASSUME NEW t \in Threads, AuditFails(t) PROVE CacheInv' /\ KpisInv'
  <2>1. CacheInv' /\ entries' = entries /\ counted' = counted
    BY <1>0, <1>10, EntryIsRecord, LogFailsFollows DEF AuditFails
  <2>2. \A n : OnTrail(n) => OnTrail(n)'
    BY <2>1 DEF OnTrail
  <2> QED BY <1>0, <1>10, <2>1, <2>2, KpisMove DEF AuditFails, Done, Posts
<1>11. ASSUME NEW t \in Threads, Count(t) PROVE CacheInv' /\ KpisInv'
  <2>1. CacheInv' /\ entries' = entries
    BY <1>0, <1>11 DEF Count, CacheInv, tvars
  <2>2. \A n : OnTrail(n) => OnTrail(n)'
    BY <2>1 DEF OnTrail
  <2>3. \A n \in counted' : n \in counted \/ OnTrail(n)'
    BY <1>0, <1>11, <2>2 DEF Count, KpisInv
  <2> QED BY <1>0, <1>11, <2>1, <2>2, <2>3, KpisMove DEF Count, Done, Posts
<1>12. ASSUME Restart PROVE CacheInv' /\ KpisInv'
  <2>1. CacheInv'
    BY <1>0, <1>12, ReopenFollows DEF Restart
  <2>2. counted' = {} /\ at' = [t \in Threads |-> "idle"]
    BY <1>12 DEF Restart
  <2> QED BY <2>1, <2>2 DEF KpisInv
<1>13. ASSUME NEW t \in Threads, AuditInvalid(t) PROVE CacheInv' /\ KpisInv'
  BY <1>13, KpisApart DEF AuditInvalid, Done, Posts
<1>14. CASE UNCHANGED vars
  BY <1>0, <1>14 DEF vars, tvars, CacheInv, KpisInv, OnTrail
<1> QED BY <1>1, <1>2, <1>3, <1>4, <1>5, <1>6, <1>7, <1>8, <1>9, <1>10,
           <1>11, <1>12, <1>13, <1>14 DEF Next

LEMMA TrailSoundAlways == Spec => []TrailSound
BY TrailSoundInit, TrailSoundNext, PTL DEF Spec

\* The cache never shows an entry that is not in the file, and shows them in
\* its order: after torn writes, retries of the rest, and restarts (audit.py).
THEOREM CacheTrue == Spec => []CacheFollowsFile
<1>1. ASSUME TrailSound PROVE CacheFollowsFile
  <2>1. Formed(disk) /\ disk \in Files /\ entries \in Seq(Records)
    BY <1>1 DEF TrailSound, Inv, TrailInv, CacheInv
  <2>2. PICK f \in [1..Len(entries) -> Nat \X Nat] :
          /\ \A i, j \in 1..Len(entries) : i < j => Before(f[i], f[j])
          /\ \A i \in 1..Len(entries) :
               /\ Stays(disk, cut, f[i])
               /\ PieceAt(disk, f[i]).entry = entries[i] /\ PieceAt(disk, f[i]).part # "torn"
    BY <1>1 DEF TrailSound, CacheInv, Follows
  <2>3. ASSUME NEW i \in 1..Len(entries) PROVE f[i] \in Places(entries[i])
    <3>1. PICK k, m : f[i] = <<k, m>>
      BY <2>2
    <3>2. /\ k \in DOMAIN disk /\ m \in DOMAIN disk[k]
          /\ disk[k][m].entry = entries[i] /\ disk[k][m].part # "torn"
      BY <2>2, <3>1 DEF Stays, IsPlace, PieceAt
    <3>3. Len(disk[k]) \in Nat /\ DOMAIN disk[k] = 1..Len(disk[k])
      <4>1. k \in 1..Len(disk)
        BY <2>1, <3>2, LenProperties DEF Files
      <4>2. disk[k] \in Seq(Pieces)
        BY <2>1, <4>1, ElementOfSeq DEF Files
      <4> QED BY <4>2, LenProperties
    <3>4. \A j \in 1..(m - 1) : disk[k][j].part # "line"
      BY <2>1, <3>2, <3>3 DEF Formed
    <3> QED BY <3>1, <3>2, <3>4 DEF Holds, Places
  <2>4. Len(entries) \in Nat /\ DOMAIN entries = 1..Len(entries)
    BY <2>1, LenProperties
  <2>5. \A i \in 1..Len(entries) : \A j \in 1..(i - 1) : j \in 1..Len(entries) /\ j < i
    BY <2>4
  <2> QED BY <2>2, <2>3, <2>4, <2>5 DEF CacheFollowsFile
<1> QED BY <1>1, TrailSoundAlways, PTL

\* No query is in the KPIs that is not in the audit trail (orchestrator.py).
THEOREM KpisFollowTrail == Spec => []KpisTrailEvidence
<1>1. TrailSound => KpisTrailEvidence
  BY DEF TrailSound, KpisInv, OnTrail, KpisTrailEvidence
<1> QED BY <1>1, TrailSoundAlways, PTL
=============================================================================
