---------------------------- MODULE DecisionTrail ----------------------------
(***************************************************************************)
(* The bridge's audit trail, lub/connectors/bridge/audit.py: JSON lines    *)
(* appended to a file, a cache of the entries, replay at start.            *)
(*                                                                         *)
(* What a failing write leaves is what the file object leaves: the lines   *)
(* written so far, perhaps a part of the next one, and the rest in its     *)
(* buffer, from where the next flush goes on.  A part is torn inside the   *)
(* JSON text, or bare of nothing but its newline.  Every method holds the  *)
(* trail's lock, so each is one step.                                      *)
(*                                                                         *)
(* A part that ends inside a character of several bytes is not modelled:   *)
(* the file does not decode then, the replay raises, and no process opens  *)
(* it.  Reopen stands for the files that decode.                           *)
(***************************************************************************)
EXTENDS Integers, Sequences, SequencesExt

CONSTANT MaxFaults   \* bound: failed writes, and restarts

VARIABLES
  disk,      \* the file: lines, each the pieces of entries that lie on it
  buffer,    \* entries the file object still has to write
  cut,       \* the first of them has a part on disk
  entries,   \* _entries, the cache
  acked,     \* history: entries log_decision has returned
  faults

tvars == <<disk, buffer, cut, entries, acked, faults>>

TrailInit ==
  /\ disk = <<>> /\ buffer = <<>> /\ cut = FALSE
  /\ entries = <<>> /\ acked = {} /\ faults = 0

---------------------------------------------------------------------------

Piece(e, part) == [entry |-> e, part |-> part]   \* "line", "torn" or "bare"
Lines(pieces)  == [i \in DOMAIN pieces |-> <<pieces[i]>>]
Ragged(file)   == file # <<>> /\ Last(Last(file)).part # "line"

\* Bytes go to the end of the file, and so onto a line that has no newline: on
\* from a cut piece, or behind what another process left there.
Laid(file, pieces) ==
  IF pieces = <<>> THEN file
  ELSE IF ~Ragged(file) THEN file \o Lines(pieces)
  ELSE LET line == IF cut THEN Front(Last(file)) ELSE Last(file)
       IN  Append(Front(file), Append(line, Head(pieces))) \o Lines(Tail(pieces))

\* The first n entries of queue, and what is left of a write that stopped in
\* the next one.
Written(queue, n, left) ==
  [i \in 1..(IF left = "none" THEN n ELSE n + 1) |->
     Piece(queue[i], IF i <= n THEN "line" ELSE left)]

\* A write stops inside the queue, and never takes back what is on disk.
Stops(queue, n, left) ==
  /\ left # "none" => n < Len(queue)
  /\ n = 0 /\ cut /\ left = "torn" => Last(Last(disk)).part = "torn"

\* write and flush
Flush(queue, n, left) ==
  /\ disk' = Laid(disk, Written(queue, n, left))
  /\ buffer' = SubSeq(queue, n + 1, Len(queue))
  /\ cut' = IF n = 0 /\ left = "none" THEN cut ELSE left # "none"

Log(e) ==
  /\ Flush(Append(buffer, e), Len(buffer) + 1, "none")
  /\ entries' = Append(entries, e)
  /\ acked' = acked \cup {e}
  /\ UNCHANGED faults

\* Mutant: the cache gets the entry before the file.
LogFailsCached(e) ==
  /\ faults < MaxFaults /\ faults' = faults + 1
  /\ buffer' = Append(buffer, e)
  /\ entries' = Append(entries, e)
  /\ UNCHANGED <<disk, cut, acked>>

\* Mutant: the error is swallowed and the entry reported as logged.
LogFailsAcked(e) ==
  /\ faults < MaxFaults /\ faults' = faults + 1
  /\ \E n \in 0..(Len(buffer) + 1), left \in {"none", "torn", "bare"} :
       /\ Stops(Append(buffer, e), n, left)
       /\ Flush(Append(buffer, e), n, left)
  /\ entries' = Append(entries, e)
  /\ acked' = acked \cup {e}

\* An OSError from write, flush or, with everything written, fsync.
LogFails(e) ==
  /\ faults < MaxFaults /\ faults' = faults + 1
  /\ \E n \in 0..(Len(buffer) + 1), left \in {"none", "torn", "bare"} :
       /\ Stops(Append(buffer, e), n, left)
       /\ Flush(Append(buffer, e), n, left)
  /\ UNCHANGED <<entries, acked>>

\* _load_existing, line by line: lines that do not parse are skipped.
Parses(line) == Len(line) = 1 /\ line[1].part # "torn"
Loaded(file) ==
  LET read[n \in 0..Len(file)] ==
        IF n = 0 THEN <<>>
        ELSE IF Parses(file[n]) THEN Append(read[n - 1], file[n][1].entry)
        ELSE read[n - 1]
  IN read[Len(file)]

\* The process ends, after close() got some of the buffer to disk or without,
\* and another one opens the trail.
Reopen ==
  /\ faults < MaxFaults /\ faults' = faults + 1
  /\ \E n \in 0..Len(buffer), left \in {"none", "torn", "bare"} :
       /\ Stops(buffer, n, left)
       /\ disk' = Laid(disk, Written(buffer, n, left))
  /\ buffer' = <<>> /\ cut' = FALSE
  /\ entries' = Loaded(disk')
  /\ UNCHANGED acked

---------------------------------------------------------------------------

\* Piece i of line k is the whole of entry e, behind nothing but what processes
\* left there that have ended.
Holds(k, i, e) ==
  /\ disk[k][i].entry = e /\ disk[k][i].part # "torn"
  /\ \A j \in 1..(i - 1) : disk[k][j].part # "line"
Places(e) == UNION {{<<k, i>> : i \in {i \in DOMAIN disk[k] : Holds(k, i, e)}} : k \in DOMAIN disk}
Before(p, q) == p[1] < q[1] \/ (p[1] = q[1] /\ p[2] < q[2])
OnDisk(e) == Places(e) # {}

\* What log_decision acknowledged is in the file for good, whatever fails before
\* and after; what can spoil its line is the ragged end of an earlier process.
EvidenceOnDisk == \A e \in acked : OnDisk(e)

\* The cache that query_trail reads never shows an entry that is not in the
\* file, and shows them in the file's order.
CacheFollowsFile ==
  \A i \in DOMAIN entries : \E p \in Places(entries[i]) :
    \A j \in 1..(i - 1) : \E q \in Places(entries[j]) : Before(q, p)

\* audit.py: "once log_decision returns, the entry is durable in the backing
\* JSONL file", and what has been loaded from it shows every such entry.
AckedReplays == acked \subseteq {Loaded(disk)[i] : i \in DOMAIN Loaded(disk)}
=============================================================================
