------------------------ MODULE DurableEventLogProofs ------------------------
(* Proofs about DurableEventLog, for any events, any number of files, crashes *)
(* and restarts, any limits and any cursor.                                   *)
EXTENDS DurableEventLog, WellFoundedInduction, TLAPS

Entry == [id: Events, seq: Nat]

FileRecord == [first: Nat, lines: Seq(Entry \union {Garbled}), synced: Nat,
               torn: BOOLEAN, skewed: BOOLEAN, exists: BOOLEAN]

(* An entry as it is read: with its place.                                    *)
Placed == [id: Events, seq: Nat, file: Nat, line: Nat]

SubRecord == [pc: {"off", "history", "send", "wait"}, live: BOOLEAN,
              batch: SUBSET Placed, last: Int, start: Int, got: SUBSET Events,
              known: Nat, missed: BOOLEAN]

LogType ==
    /\ dir \in Seq(FileRecord) /\ Len(dir) >= 1
    /\ dir[Current].exists
    /\ logFiles \subseteq 1..(Len(dir) - 1)
    /\ seqCounter \in Nat
    /\ DOMAIN index = Events
    /\ sub \in SubRecord
    /\ blind \in BOOLEAN

(* Line i of file f of the directory d can be read.                           *)
EntryAt(d, f, i) ==
    /\ f \in 1..Len(d) /\ d[f].exists
    /\ i \in 1..Len(d[f].lines) /\ d[f].lines[i] # Garbled

(* Numbers grow along a file and from a file to the next, and stay below n.   *)
Ordered(d) ==
    \A f \in Nat, g \in Nat, i \in Nat, j \in Nat :
        EntryAt(d, f, i) /\ EntryAt(d, g, j) /\ (f < g \/ (f = g /\ i < j)) =>
            d[f].lines[i].seq < d[g].lines[j].seq

Below(d, n) ==
    \A f \in Nat, i \in Nat : EntryAt(d, f, i) => d[f].lines[i].seq < n

(* Numbers are bounded in any case; they are in order and below the counter   *)
(* as long as no start has overlooked some.                                   *)
BoundInv == \E b \in Nat : Below(dir, b)

OrderInv == ~blind => Ordered(dir) /\ Below(dir, seqCounter)

(* What this process has written to a file that no failed write has skewed is *)
(* where the index says.                                                      *)
IndexInv ==
    /\ dir[Current].torn => dir[Current].skewed
    /\ \A id \in Events : index[id] # None /\ ~index[id].skewed =>
          /\ index[id].file = Current
          /\ EntryAt(dir, Current, index[id].line)
          /\ dir[Current].lines[index[id].line].id = id

(* The batch: entries that were written before it was read, in an order in    *)
(* which those of the current file come last and with growing numbers.        *)
BatchInv ==
    /\ sub.last = sub.start \/ sub.last < seqCounter
    /\ \A e \in sub.batch : e.seq < seqCounter
    /\ \A d \in sub.batch, e \in sub.batch :
          e.file = Current /\ (d.file # Current \/ d.line < e.line) => d.seq < e.seq

(* Every event that is owed was sent, or is in the batch, or is newer than    *)
(* all that was sent and all that is in the batch.                            *)
OwedInv ==
    \A e \in Readable : Due(e) =>
        \/ e.id \in sub.got
        \/ e \in sub.batch
        \/ e.file = Current /\ e.seq > sub.last /\ \A d \in sub.batch : e.seq > d.seq

(* What a live subscription skips was sent before.                            *)
SkipInv ==
    sub.live => \A e \in sub.batch :
        Due(e) /\ (e.file # Current \/ e.seq <= sub.last) => e.id \in sub.got

SubInv ==
    /\ sub.pc \in {"off", "history"} => sub.last = sub.start /\ ~sub.live
    /\ sub.pc # "send" => sub.batch = {}
    /\ sub.known <= seqCounter
    /\ ~blind => BatchInv
    /\ sub.pc \in {"send", "wait"} /\ Sound => OwedInv /\ SkipInv

(* The inductive invariant.                                                   *)
LogInv == LogType /\ BoundInv /\ OrderInv /\ IndexInv /\ SubInv

(******************************************************************************)
(* The largest number of a set that is bounded.                               *)

(* A nonempty set of naturals has a least element.                            *)
LEMMA LeastNumber ==
    ASSUME NEW X \in SUBSET Nat, X # {}
    PROVE  \E n \in X : \A m \in X : n <= m
<1> DEFINE R == OpToRel(<, Nat)
<1>1. \A a, b \in Nat : <<a, b>> \in R <=> a < b
  BY DEF OpToRel
<1>2. IsWellFoundedOn(R, Nat)
  BY NatLessThanWellFounded
<1> HIDE DEF R
<1>3. PICK n \in X : \A m \in X : ~(<<m, n>> \in R)
  BY <1>2, WFMin
<1>4. \A m \in X : ~(m < n)
  BY <1>1, <1>3, Zenon
<1> QED
  BY <1>4

(* A nonempty set of integers with an upper bound has a largest element.      *)
LEMMA LargestNumber ==
    ASSUME NEW S \in SUBSET Int, S # {}, NEW b \in Int, \A x \in S : x <= b
    PROVE  Max(S) \in S /\ \A x \in S : x <= Max(S)
<1> DEFINE X == {b - x : x \in S}
<1>1. X \in SUBSET Nat /\ X # {}
  <2>1. \A x \in S : b - x \in Nat
    <3> SUFFICES ASSUME NEW x \in S PROVE b - x \in Nat
      OBVIOUS
    <3> QED
      BY x <= b, x \in Int
  <2> QED
    BY <2>1
<1>2. PICK n \in X : \A m \in X : n <= m
  BY <1>1, LeastNumber
<1>3. PICK x \in S : n = b - x
  OBVIOUS
<1>4. \A y \in S : y <= x
  <2> SUFFICES ASSUME NEW y \in S PROVE y <= x
    OBVIOUS
  <2>1. n <= b - y
    BY <1>2
  <2> QED
    BY <1>3, <2>1
<1> QED
  BY <1>4 DEF Max

(******************************************************************************)
(* Files.                                                                     *)

(* What a file is.                                                            *)
LEMMA FileType ==
    ASSUME NEW d \in Seq(FileRecord), NEW f \in 1..Len(d)
    PROVE  /\ d[f] \in FileRecord
           /\ d[f].lines \in Seq(Entry \union {Garbled})
           /\ Len(d[f].lines) \in Nat
<1>1. d[f] \in FileRecord
  OBVIOUS
<1>2. ASSUME NEW r \in FileRecord PROVE r.lines \in Seq(Entry \union {Garbled})
  BY DEF FileRecord
<1>3. d[f].lines \in Seq(Entry \union {Garbled})
  BY <1>1, <1>2
<1> QED
  BY <1>1, <1>3

(* What a line that can be read is.                                           *)
LEMMA EntryType ==
    ASSUME NEW d \in Seq(FileRecord), NEW f, NEW i, EntryAt(d, f, i)
    PROVE  /\ f \in Nat /\ i \in Nat
           /\ d[f].lines[i] \in Entry
           /\ d[f].lines[i].id \in Events /\ d[f].lines[i].seq \in Nat
<1>1. f \in 1..Len(d) /\ i \in 1..Len(d[f].lines) /\ d[f].lines[i] # Garbled
  BY DEF EntryAt
<1>2. d[f].lines \in Seq(Entry \union {Garbled})
  BY <1>1, FileType
<1>3. d[f].lines[i] \in Entry
  BY <1>1, <1>2
<1> QED
  BY <1>1, <1>2, <1>3 DEF Entry

(* A directory that has lost entries and gained none stays in order.          *)
LEMMA LosingKeepsOrder ==
    ASSUME NEW d, NEW e, NEW n, Ordered(d), Below(d, n),
           \A f \in Nat, i \in Nat : EntryAt(e, f, i) =>
               EntryAt(d, f, i) /\ e[f].lines[i] = d[f].lines[i]
    PROVE  Ordered(e) /\ Below(e, n)
BY DEF Ordered, Below

(* readLastEventFromFile finds a number of the file, the largest when they    *)
(* are in order.                                                              *)
LEMMA LastIsLargest ==
    ASSUME NEW d \in Seq(FileRecord), NEW f \in 1..Len(d), d[f].exists
    PROVE  /\ ReadLastEventFromFile(d[f]) \in Nat \union {-1}
           /\ Ordered(d) => \A i \in Nat : EntryAt(d, f, i) =>
                 d[f].lines[i].seq <= ReadLastEventFromFile(d[f])
           /\ ReadLastEventFromFile(d[f]) # -1 =>
                 \E i \in Nat : EntryAt(d, f, i) /\ ReadLastEventFromFile(d[f]) = d[f].lines[i].seq
<1> DEFINE parsed == {i \in 1..Len(d[f].lines) : IsEntry(d[f].lines[i])}
<1>0. Len(d[f].lines) \in Nat
  BY FileType
<1>1. \A i \in Nat : EntryAt(d, f, i) <=> i \in parsed
  BY <1>0 DEF EntryAt, IsEntry
<1>2. CASE parsed = {}
  <2>1. ReadLastEventFromFile(d[f]) = -1
    BY <1>2 DEF ReadLastEventFromFile
  <2> QED
    BY <1>1, <1>2, <2>1
<1>3. CASE parsed # {}
  <2> DEFINE last == Max(parsed)
  <2>1. parsed \in SUBSET Int /\ \A i \in parsed : i <= Len(d[f].lines)
    BY <1>0
  <2>2. ReadLastEventFromFile(d[f]) = d[f].lines[last].seq
    BY <1>3 DEF ReadLastEventFromFile
  <2>3. parsed \subseteq Nat
    BY <1>0
  <2>4. Len(d[f].lines) \in Int
    BY <1>0
  <2> HIDE DEF parsed
  <2>5. last \in parsed /\ \A i \in parsed : i <= last
    BY <1>3, <2>1, <2>4, LargestNumber
  <2>6. last \in Nat
    BY <2>3, <2>5
  <2>7. EntryAt(d, f, last)
    BY <1>1, <2>5, <2>6
  <2> HIDE DEF last
  <2>8. ASSUME Ordered(d), NEW i \in Nat, EntryAt(d, f, i)
        PROVE  d[f].lines[i].seq <= d[f].lines[last].seq
    <3>1. i <= last
      BY <1>1, <2>5, <2>8
    <3>2. CASE i = last
      BY <3>2, <2>7, EntryType
    <3>3. CASE i < last
      <4>1. d[f].lines[i].seq < d[f].lines[last].seq
        BY <2>7, <2>8, <2>6, <3>3 DEF Ordered
      <4> QED
        BY <4>1, <2>7, <2>8, EntryType
    <3> QED
      BY <2>6, <3>1, <3>2, <3>3
  <2> QED
    BY <2>2, <2>7, <2>8, <2>6, EntryType
<1> QED
  BY <1>2, <1>3

(* loadExistingFiles gives a number above all that it could read.             *)
LEMMA CounterRecovered ==
    ASSUME NEW d \in Seq(FileRecord), NEW n \in Nat, Below(d, n),
           NEW C \in SUBSET {f \in 1..Len(d) : d[f].exists}
    PROVE  /\ LoadExistingFiles(d, C) \in Nat
           /\ Ordered(d) => \A f \in C, i \in Nat : EntryAt(d, f, i) =>
                 d[f].lines[i].seq < LoadExistingFiles(d, C)
<1> DEFINE L(f) == ReadLastEventFromFile(d[f])
           N == {-1} \union {L(f) : f \in C}
<1>0. \A f \in C : f \in 1..Len(d) /\ d[f].exists
  OBVIOUS
<1>1. \A f \in C : L(f) \in Nat \union {-1} /\ L(f) < n
  BY <1>0, LastIsLargest DEF Below
<1>2. N \in SUBSET Int /\ N # {} /\ \A x \in N : x <= n
  BY <1>1
<1>3. Max(N) \in N /\ \A x \in N : x <= Max(N)
  <2>1. n \in Int
    OBVIOUS
  <2> HIDE DEF N
  <2> QED
    BY <1>2, <2>1, LargestNumber
<1>4. LoadExistingFiles(d, C) = Max(N) + 1
  BY DEF LoadExistingFiles
<1>5. Max(N) \in Nat \union {-1}
  BY <1>1, <1>3
<1>6. ASSUME Ordered(d), NEW f \in C, NEW i \in Nat, EntryAt(d, f, i)
      PROVE  d[f].lines[i].seq < Max(N) + 1
  <2>1. f \in 1..Len(d) /\ d[f].exists
    BY <1>0
  <2>2. d[f].lines[i].seq <= L(f)
    BY <1>6, <2>1, LastIsLargest
  <2>3. L(f) <= Max(N) /\ L(f) \in Int
    BY <1>1, <1>3, <2>1
  <2>4. d[f].lines[i].seq \in Nat
    BY <1>6, EntryType
  <2> HIDE DEF N, L
  <2> QED
    BY <1>5, <2>2, <2>3, <2>4
<1>7. Max(N) + 1 \in Nat
  BY <1>5
<1> HIDE DEF N, L
<1> QED
  BY <1>4, <1>6, <1>7

(******************************************************************************)
(* Reading.                                                                   *)

(* The entries of the directory d that are read from the files L.             *)
Read(d, L) ==
    {e \in Placed : /\ e.file \in L
                    /\ EntryAt(d, e.file, e.line)
                    /\ e.id = d[e.file].lines[e.line].id
                    /\ e.seq = d[e.file].lines[e.line].seq}

LEMMA ReadIs ==
    ASSUME NEW d \in Seq(FileRecord), NEW L \in SUBSET (1..Len(d)), NEW from
    PROVE  {e \in UNION {{[id |-> d[f].lines[i].id, seq |-> d[f].lines[i].seq,
                           file |-> f, line |-> i] :
                             i \in {n \in 1..Len(d[f].lines) :
                                      d[f].exists /\ IsEntry(d[f].lines[n])}} :
                         f \in L} : e.seq >= from}
           = {e \in Read(d, L) : e.seq >= from}
<1> DEFINE P(f, i) == [id |-> d[f].lines[i].id, seq |-> d[f].lines[i].seq,
                       file |-> f, line |-> i]
           F(f) == {P(f, i) : i \in {n \in 1..Len(d[f].lines) :
                                      d[f].exists /\ IsEntry(d[f].lines[n])}}
           A == UNION {F(f) : f \in L}
<1>1. L \subseteq 1..Len(d)
  OBVIOUS
<1>2. ASSUME NEW e \in A PROVE e \in Read(d, L)
  <2>1. PICK f \in L : e \in F(f)
    OBVIOUS
  <2>2. PICK i \in 1..Len(d[f].lines) :
            d[f].exists /\ IsEntry(d[f].lines[i]) /\ e = P(f, i)
    BY <2>1
  <2>3. EntryAt(d, f, i)
    BY <1>1, <2>1, <2>2 DEF EntryAt, IsEntry
  <2>4. /\ f \in Nat /\ i \in Nat
        /\ d[f].lines[i].id \in Events /\ d[f].lines[i].seq \in Nat
    BY <2>3, EntryType
  <2>5. /\ e \in Placed /\ e.file = f /\ e.line = i
        /\ e.id = d[f].lines[i].id /\ e.seq = d[f].lines[i].seq
    BY <2>2, <2>4 DEF Placed
  <2> QED
    BY <2>1, <2>3, <2>5 DEF Read
<1>3. ASSUME NEW e \in Read(d, L) PROVE e \in A
  <2> DEFINE f == e.file
             i == e.line
  <2>1. /\ f \in L /\ EntryAt(d, f, i)
        /\ e.id = d[f].lines[i].id /\ e.seq = d[f].lines[i].seq /\ e \in Placed
    BY DEF Read
  <2>2. e = P(f, i)
    BY <2>1 DEF Placed
  <2>3. i \in {n \in 1..Len(d[f].lines) : d[f].exists /\ IsEntry(d[f].lines[n])}
    BY <2>1 DEF EntryAt, IsEntry
  <2> HIDE DEF P, f, i
  <2>4. e \in F(f)
    BY <2>2, <2>3
  <2> QED
    BY <2>1, <2>4
<1>4. A = Read(d, L)
  BY <1>2, <1>3
<1> QED
  BY <1>4

LEMMA OpenFilesAre == LogType => OpenFiles \subseteq 1..Len(dir)
<1> SUFFICES ASSUME LogType PROVE OpenFiles \subseteq 1..Len(dir)
  OBVIOUS
<1>1. Len(dir) \in Nat /\ Len(dir) >= 1
  BY DEF LogType
<1>2. 1..(Len(dir) - 1) \subseteq 1..Len(dir) /\ Len(dir) \in 1..Len(dir)
  BY <1>1
<1> QED
  BY <1>2 DEF LogType, OpenFiles, Current

LEMMA OpenFilesNextAre == LogType' => OpenFiles' \subseteq 1..Len(dir')
<1> SUFFICES ASSUME LogType' PROVE OpenFiles' \subseteq 1..Len(dir')
  OBVIOUS
<1>1. Len(dir') \in Nat /\ Len(dir') >= 1
  BY DEF LogType
<1>2. 1..(Len(dir') - 1) \subseteq 1..Len(dir') /\ Len(dir') \in 1..Len(dir')
  BY <1>1
<1> QED
  BY <1>2 DEF LogType, OpenFiles, Current

(* The entries that can be read, before and after a step.                     *)
LEMMA ReadableIs == LogType => Readable = Read(dir, OpenFiles)
<1> SUFFICES ASSUME LogType PROVE Readable = Read(dir, OpenFiles)
  OBVIOUS
<1>1. \A e \in Read(dir, OpenFiles) : e.seq >= -1
  BY DEF Read, Placed
<1>2. Readable = {e \in Read(dir, OpenFiles) : e.seq >= -1}
  BY ReadIs, OpenFilesAre DEF LogType, Readable, ReadEventsSince, ReadEventsFromFile
<1> QED
  BY <1>1, <1>2

LEMMA ReadableNextIs == LogType' => Readable' = Read(dir', OpenFiles')
<1> SUFFICES ASSUME LogType' PROVE Readable' = Read(dir', OpenFiles')
  OBVIOUS
<1>1. \A e \in Read(dir', OpenFiles') : e.seq >= -1
  BY DEF Read, Placed
<1>2. Readable' = {e \in Read(dir', OpenFiles') : e.seq >= -1}
  BY ReadIs, OpenFilesNextAre DEF LogType, Readable, ReadEventsSince, ReadEventsFromFile
<1> QED
  BY <1>1, <1>2

LEMMA ReadSinceIs ==
    ASSUME LogType, NEW from, NEW F \in SUBSET OpenFiles
    PROVE  ReadEventsSince(from, F) = {e \in Read(dir, F) : e.seq >= from}
BY ReadIs, OpenFilesAre DEF LogType, ReadEventsSince, ReadEventsFromFile

(* What is read is in order: the entries of the current file come last.       *)
LEMMA ReadInOrder ==
    ASSUME LogType, OrderInv, ~blind
    PROVE  /\ Read(dir, OpenFiles) \subseteq Placed
           /\ \A e \in Read(dir, OpenFiles) : e.seq < seqCounter /\ e.file <= Current
           /\ \A d \in Read(dir, OpenFiles), e \in Read(dir, OpenFiles) :
                 d.file < e.file \/ (d.file = e.file /\ d.line < e.line) => d.seq < e.seq
<1>1. Read(dir, OpenFiles) \subseteq Placed
  BY DEF Read
<1>2. \A e \in Read(dir, OpenFiles) : e.file \in Nat /\ e.line \in Nat /\ e.seq \in Nat
  BY <1>1 DEF Placed
<1>3. \A e \in Read(dir, OpenFiles) : e.seq < seqCounter
  BY <1>2 DEF Read, OrderInv, Below
<1>4. \A e \in Read(dir, OpenFiles) : e.file <= Current
  BY DEF Read, EntryAt, Current, LogType
<1>5. \A d \in Read(dir, OpenFiles), e \in Read(dir, OpenFiles) :
         d.file < e.file \/ (d.file = e.file /\ d.line < e.line) => d.seq < e.seq
  BY <1>2 DEF Read, OrderInv, Ordered
<1> QED
  BY <1>1, <1>3, <1>4, <1>5

(******************************************************************************)
(* What the steps do to the directory.                                        *)

(* One file is replaced.                                                      *)
LEMMA FileReplaced ==
    ASSUME NEW d \in Seq(FileRecord), NEW k \in 1..Len(d), NEW r \in FileRecord
    PROVE  LET e == [d EXCEPT ![k] = r]
           IN  /\ e \in Seq(FileRecord) /\ Len(e) = Len(d) /\ e[k] = r
               /\ \A f \in 1..Len(d) : f # k => e[f] = d[f]
OBVIOUS

(* A file to which a line was appended: garbled when the file ended in a      *)
(* broken one.                                                                *)
LEMMA AppendedIs ==
    ASSUME NEW f \in FileRecord, NEW l \in Entry, NEW durable \in BOOLEAN
    PROVE  LET a == Appended(f, l, durable)
           IN  /\ a \in FileRecord
               /\ a.lines = Append(f.lines, IF f.torn THEN Garbled ELSE l)
               /\ a.exists = f.exists /\ a.skewed = f.skewed /\ a.torn = FALSE
<1> DEFINE L == Append(f.lines, IF f.torn THEN Garbled ELSE l)
           n == IF durable THEN Len(f.lines) + 1 ELSE f.synced
<1>1. f.lines \in Seq(Entry \union {Garbled}) /\ f.synced \in Nat
  BY DEF FileRecord
<1>2. L \in Seq(Entry \union {Garbled})
  BY <1>1
<1>3. n \in Nat
  BY <1>1
<1>4. Appended(f, l, durable) = [f EXCEPT !.lines = L, !.synced = n, !.torn = FALSE]
  BY DEF Appended
<1> HIDE DEF L, n
<1>5. LET a == [f EXCEPT !.lines = L, !.synced = n, !.torn = FALSE]
      IN  /\ a \in FileRecord /\ a.lines = L
          /\ a.exists = f.exists /\ a.skewed = f.skewed /\ a.torn = FALSE
  BY <1>2, <1>3 DEF FileRecord
<1> QED
  BY <1>4, <1>5 DEF L

(* A file after a crash.                                                      *)
LEMMA SurvivorIs ==
    ASSUME NEW f \in FileRecord, NEW r \in Survivors(f)
    PROVE  /\ r \in FileRecord /\ r.exists = f.exists
           /\ \A i \in 1..Len(r.lines) :
                 i \in 1..Len(f.lines) /\ r.lines[i] = f.lines[i]
<1>1. f.lines \in Seq(Entry \union {Garbled}) /\ f.synced \in Nat
  BY DEF FileRecord
<1>2. PICK n \in f.synced..Len(f.lines) :
          r = [f EXCEPT !.lines = SubSeq(f.lines, 1, n), !.synced = n,
                        !.torn = FALSE, !.skewed = FALSE]
  BY DEF Survivors
<1>3. n \in Nat /\ n <= Len(f.lines) /\ Len(f.lines) \in Nat
  BY <1>1
<1> DEFINE L == SubSeq(f.lines, 1, n)
<1>4. /\ L \in Seq(Entry \union {Garbled}) /\ Len(L) = n
      /\ \A i \in 1..n : L[i] = f.lines[i]
  BY <1>1, <1>3
<1>5. r = [f EXCEPT !.lines = L, !.synced = n, !.torn = FALSE, !.skewed = FALSE]
  BY <1>2
<1> HIDE DEF L
<1>6. r \in FileRecord /\ r.exists = f.exists /\ r.lines = L
  BY <1>3, <1>4, <1>5 DEF FileRecord
<1> QED
  BY <1>3, <1>4, <1>6

(* A directory with the same files and entries, or fewer; the current file    *)
(* keeps its lines.                                                           *)
Keeps(d, e) ==
    /\ e \in Seq(FileRecord) /\ Len(e) = Len(d)
    /\ \A f \in Nat, i \in Nat : EntryAt(e, f, i) =>
          EntryAt(d, f, i) /\ e[f].lines[i] = d[f].lines[i]
    /\ e[Len(d)].exists /\ e[Len(d)].lines = d[Len(d)].lines

LEMMA CurrentIs ==
    ASSUME LogType
    PROVE  /\ Current \in 1..Len(dir) /\ Current = Len(dir) /\ Current \in Nat
           /\ dir[Current] \in FileRecord /\ dir[Current].exists
           /\ dir[Current].lines \in Seq(Entry \union {Garbled})
           /\ Len(dir[Current].lines) \in Nat
<1>1. Current \in 1..Len(dir) /\ Current = Len(dir) /\ Current \in Nat
  BY DEF LogType, Current
<1> QED
  BY <1>1, FileType DEF LogType

LEMMA FailedWriteKeeps ==
    ASSUME LogType, WriteEventFails
    PROVE  Keeps(dir, dir') /\ dir'[Current].skewed
<1> DEFINE r == [dir[Current] EXCEPT !.torn = TRUE, !.skewed = TRUE]
<1>1. dir' = [dir EXCEPT ![Current] = r]
  BY DEF WriteEventFails
<1>2. /\ r \in FileRecord /\ r.lines = dir[Current].lines /\ r.exists = dir[Current].exists
      /\ r.skewed = TRUE
  BY CurrentIs DEF FileRecord
<1> HIDE DEF r
<1>3. /\ dir' \in Seq(FileRecord) /\ Len(dir') = Len(dir) /\ dir'[Current] = r
      /\ \A f \in 1..Len(dir) : f # Current => dir'[f] = dir[f]
  BY <1>1, <1>2, CurrentIs, FileReplaced DEF LogType
<1>4. \A f \in Nat, i \in Nat : EntryAt(dir', f, i) =>
          EntryAt(dir, f, i) /\ dir'[f].lines[i] = dir[f].lines[i]
  BY <1>2, <1>3 DEF EntryAt
<1> QED
  BY <1>2, <1>3, <1>4, CurrentIs DEF Keeps

LEMMA FlushKeeps ==
    ASSUME LogType, FlushToDisk
    PROVE  /\ Keeps(dir, dir')
           /\ dir'[Current].torn = dir[Current].torn
           /\ dir'[Current].skewed = dir[Current].skewed
<1> DEFINE n == Len(dir[Current].lines)
           r == [dir[Current] EXCEPT !.synced = n]
<1>1. dir' = [dir EXCEPT ![Current] = r]
  BY DEF FlushToDisk
<1>2. n \in Nat
  BY CurrentIs
<1> HIDE DEF n
<1>3. /\ r \in FileRecord /\ r.lines = dir[Current].lines /\ r.exists = dir[Current].exists
      /\ r.skewed = dir[Current].skewed /\ r.torn = dir[Current].torn
  BY <1>2, CurrentIs DEF FileRecord
<1> HIDE DEF r
<1>4. /\ dir' \in Seq(FileRecord) /\ Len(dir') = Len(dir) /\ dir'[Current] = r
      /\ \A f \in 1..Len(dir) : f # Current => dir'[f] = dir[f]
  BY <1>1, <1>3, CurrentIs, FileReplaced DEF LogType
<1>5. \A f \in Nat, i \in Nat : EntryAt(dir', f, i) =>
          EntryAt(dir, f, i) /\ dir'[f].lines[i] = dir[f].lines[i]
  BY <1>3, <1>4 DEF EntryAt
<1> QED
  BY <1>3, <1>4, <1>5, CurrentIs DEF Keeps

LEMMA CleanupKeeps ==
    ASSUME LogType, CleanupOldFiles
    PROVE  Keeps(dir, dir') /\ dir'[Current] = dir[Current] /\ logFiles' \subseteq logFiles
<1>1. PICK old \in SUBSET logFiles :
          /\ dir' = [f \in 1..Len(dir) |->
                        IF f \in old THEN [dir[f] EXCEPT !.exists = FALSE] ELSE dir[f]]
          /\ logFiles' = logFiles \ old
  BY DEF CleanupOldFiles
<1>2. \A r \in FileRecord :
          LET g == [r EXCEPT !.exists = FALSE]
          IN  g \in FileRecord /\ g.exists = FALSE
  BY DEF FileRecord
<1>3. \A f \in 1..Len(dir) : dir[f] \in FileRecord
  BY FileType DEF LogType
<1>4. \A f \in 1..Len(dir) :
          /\ dir'[f] \in FileRecord
          /\ dir'[f] = dir[f] \/ dir'[f].exists = FALSE
  BY <1>1, <1>2, <1>3
<1>5. dir' \in Seq(FileRecord) /\ Len(dir') = Len(dir)
  <2>1. dir' \in [1..Len(dir) -> FileRecord] /\ Len(dir) \in Nat
    BY <1>1, <1>4 DEF LogType
  <2>2. ASSUME NEW n \in Nat, NEW s \in [1..n -> FileRecord]
        PROVE  s \in Seq(FileRecord) /\ Len(s) = n
    OBVIOUS
  <2> QED
    BY <2>1, <2>2
<1>6. Current \notin old
  BY DEF LogType, Current
<1>7. dir'[Current] = dir[Current]
  BY <1>1, <1>6, CurrentIs
<1>8. \A f \in Nat, i \in Nat : EntryAt(dir', f, i) =>
          EntryAt(dir, f, i) /\ dir'[f].lines[i] = dir[f].lines[i]
  BY <1>4, <1>5 DEF EntryAt
<1> QED
  BY <1>1, <1>5, <1>7, <1>8, CurrentIs DEF Keeps

(* A write adds at most one line that can be read.                            *)
LEMMA WriteIs ==
    ASSUME LogType, NEW id \in Events, WriteEvent(id)
    PROVE  LET n == Len(dir[Current].lines) + 1
           IN  /\ dir' \in Seq(FileRecord) /\ Len(dir') = Len(dir)
               /\ dir'[Current].exists
               /\ dir'[Current].torn = FALSE
               /\ dir'[Current].skewed = dir[Current].skewed
               /\ \A f \in Nat, i \in Nat : EntryAt(dir', f, i) =>
                     \/ EntryAt(dir, f, i) /\ dir'[f].lines[i] = dir[f].lines[i]
                     \/ f = Current /\ i = n /\ dir'[f].lines[i].seq = seqCounter
               /\ \A i \in Nat : EntryAt(dir, Current, i) =>
                     /\ EntryAt(dir', Current, i)
                     /\ dir'[Current].lines[i] = dir[Current].lines[i]
                     /\ i < n
               /\ ~dir[Current].torn =>
                     EntryAt(dir', Current, n) /\ dir'[Current].lines[n].id = id
<1> DEFINE n == Len(dir[Current].lines) + 1
           l == [id |-> id, seq |-> seqCounter]
           k == IF dir[Current].torn THEN Garbled ELSE l
<1>1. l \in Entry /\ l.id = id /\ l.seq = seqCounter /\ l # Garbled
  BY LogAssumption DEF LogType, Entry
<1>2. PICK durable \in BOOLEAN :
          dir' = [dir EXCEPT ![Current] = Appended(dir[Current], l, durable)]
  BY DEF WriteEvent
<1> DEFINE r == Appended(dir[Current], l, durable)
<1>3. /\ r \in FileRecord /\ r.lines = Append(dir[Current].lines, k)
      /\ r.exists = dir[Current].exists /\ r.skewed = dir[Current].skewed
      /\ r.torn = FALSE
  BY <1>1, CurrentIs, AppendedIs
<1> HIDE DEF r
<1>4. /\ dir' \in Seq(FileRecord) /\ Len(dir') = Len(dir) /\ dir'[Current] = r
      /\ \A f \in 1..Len(dir) : f # Current => dir'[f] = dir[f]
  BY <1>2, <1>3, CurrentIs, FileReplaced DEF LogType, r
<1>5. /\ n \in Nat /\ Len(r.lines) = n /\ r.lines[n] = k
      /\ \A i \in 1..Len(dir[Current].lines) : r.lines[i] = dir[Current].lines[i]
  <2> HIDE DEF k, l
  <2>1. k \in Entry \union {Garbled}
    BY <1>1 DEF k
  <2> QED
    BY <1>3, <2>1, CurrentIs
<1>6. 1..n = 1..Len(dir[Current].lines) \union {n} /\ n \notin 1..Len(dir[Current].lines)
  BY CurrentIs
<1>7. k # Garbled => k = l /\ ~dir[Current].torn
  OBVIOUS
<1>8. ~dir[Current].torn => k = l
  OBVIOUS
<1> HIDE DEF n, k, l
<1>9. ASSUME NEW f \in Nat, NEW i \in Nat, EntryAt(dir', f, i)
      PROVE  \/ EntryAt(dir, f, i) /\ dir'[f].lines[i] = dir[f].lines[i]
             \/ f = Current /\ i = n /\ dir'[f].lines[i].seq = seqCounter
  <2>1. CASE f # Current
    BY <1>4, <1>9, <2>1 DEF EntryAt
  <2>2. CASE f = Current /\ i = n
    BY <1>1, <1>4, <1>5, <1>7, <1>9, <2>2 DEF EntryAt
  <2>3. CASE f = Current /\ i # n
    BY <1>3, <1>4, <1>5, <1>6, <1>9, <2>3, CurrentIs DEF EntryAt
  <2> QED
    BY <2>1, <2>2, <2>3
<1>10. ASSUME NEW i \in Nat, EntryAt(dir, Current, i)
       PROVE  /\ EntryAt(dir', Current, i)
              /\ dir'[Current].lines[i] = dir[Current].lines[i]
              /\ i < n
  <2>1. i \in 1..Len(dir[Current].lines) /\ dir[Current].lines[i] # Garbled
    BY <1>10 DEF EntryAt
  <2>2. i < n
    BY <2>1, CurrentIs DEF n
  <2> QED
    BY <1>3, <1>4, <1>5, <1>6, <2>1, <2>2, CurrentIs DEF EntryAt
<1>11. ASSUME ~dir[Current].torn
       PROVE  EntryAt(dir', Current, n) /\ dir'[Current].lines[n].id = id
  BY <1>1, <1>3, <1>4, <1>5, <1>6, <1>8, <1>11, CurrentIs DEF EntryAt
<1> QED
  BY <1>3, <1>4, <1>9, <1>10, <1>11, CurrentIs DEF n

(******************************************************************************)
(* Steps of the log while subscriptions go on.                                *)

LEMMA SubType ==
    ASSUME LogType
    PROVE  /\ sub.pc \in {"off", "history", "send", "wait"}
           /\ sub.batch \subseteq Placed
           /\ sub.last \in Int /\ sub.start \in Int /\ sub.got \subseteq Events
           /\ sub.known \in Nat /\ sub.missed \in BOOLEAN
           /\ \A e \in sub.batch : e.seq \in Nat /\ e.file \in Nat /\ e.line \in Nat
<1>1. sub \in SubRecord
  BY DEF LogType
<1>2. sub.batch \subseteq Placed
  BY <1>1 DEF SubRecord
<1> QED
  BY <1>1, <1>2 DEF SubRecord, Placed

(* A step of the log that only adds entries to the current file, with new     *)
(* numbers, keeps what is known of the subscription.                          *)
LEMMA SubKeeps ==
    ASSUME LogInv, sub' = sub, Current' = Current, blind' = blind,
           seqCounter' \in Nat, seqCounter' >= seqCounter,
           status' = "open" => status = "open",
           \A e \in Readable' :
               e \in Readable \/ (e.file = Current /\ e.seq = seqCounter)
    PROVE  SubInv'
<1>1. LogType /\ SubInv /\ seqCounter \in Nat
  BY DEF LogInv, LogType
<1>2. sub.known <= seqCounter /\ sub'.known <= seqCounter'
  BY <1>1, SubType DEF SubInv
<1>3. ASSUME ~blind PROVE BatchInv'
  <2>0. BatchInv
    BY <1>1, <1>3 DEF SubInv
  <2>1. sub'.last = sub'.start \/ sub'.last < seqCounter'
    BY <1>1, <2>0, SubType DEF BatchInv
  <2>2. \A e \in sub'.batch : e.seq < seqCounter'
    BY <1>1, <2>0, SubType DEF BatchInv
  <2> QED
    BY <2>0, <2>1, <2>2 DEF BatchInv
<1>4. ASSUME sub.pc \in {"send", "wait"}, Sound'
      PROVE  OwedInv' /\ SkipInv'
  <2>0. Sound /\ BatchInv
    BY <1>1, <1>4 DEF Sound, SubInv
  <2>1. OwedInv /\ SkipInv
    BY <1>1, <1>4, <2>0 DEF SubInv
  <2>2. SkipInv'
    BY <2>1 DEF SkipInv, Due
  <2>3. ASSUME NEW e \in Readable', Due(e)
        PROVE  \/ e.id \in sub.got
               \/ e \in sub.batch
               \/ e.file = Current /\ e.seq > sub.last /\ \A d \in sub.batch : e.seq > d.seq
    <3>1. CASE e \in Readable
      BY <2>1, <2>3, <3>1 DEF OwedInv
    <3>2. CASE e.file = Current /\ e.seq = seqCounter
      <4>1. sub.start < sub.known => sub.start < seqCounter
        BY <1>1, <1>2, SubType
      <4>2. e.seq > sub.start
        BY <1>1, <1>4, <2>3, <3>2, <4>1, SubType DEF Due
      <4>3. e.seq > sub.last
        BY <1>1, <2>0, <3>2, <4>2, SubType DEF BatchInv
      <4>4. \A d \in sub.batch : e.seq > d.seq
        BY <1>1, <2>0, <3>2, SubType DEF BatchInv
      <4> QED
        BY <3>2, <4>3, <4>4
    <3> QED
      BY <3>1, <3>2
  <2>4. OwedInv'
    BY <2>3 DEF OwedInv, Due
  <2> QED
    BY <2>2, <2>4
<1>5. /\ sub'.pc \in {"off", "history"} => sub'.last = sub'.start /\ ~sub'.live
      /\ sub'.pc # "send" => sub'.batch = {}
  BY <1>1 DEF SubInv
<1> QED
  BY <1>2, <1>3, <1>4, <1>5 DEF SubInv

(* Steps that add no entry.                                                   *)
LEMMA KeepingStep ==
    ASSUME LogInv, Keeps(dir, dir'), logFiles' \subseteq logFiles, sub' = sub,
           seqCounter' = seqCounter, blind' = blind, status' = "open" => status = "open",
           DOMAIN index' = Events,
           \A id \in Events : index'[id] = index[id] \/ index'[id] = None,
           dir'[Current].torn => dir'[Current].skewed
    PROVE  LogInv'
<1>0. LogType /\ BoundInv /\ OrderInv /\ IndexInv /\ seqCounter \in Nat
  BY DEF LogInv, LogType
<1>1. Current' = Current /\ Current = Len(dir)
  BY <1>0 DEF Keeps, Current
<1>2. LogType'
  BY <1>0, <1>1 DEF LogType, Keeps
<1>3. OrderInv' /\ BoundInv'
  <2>1. OrderInv'
    BY <1>0, LosingKeepsOrder DEF OrderInv, Keeps
  <2>2. PICK b \in Nat : Below(dir, b)
    BY <1>0 DEF BoundInv
  <2>3. Below(dir', b)
    BY <2>2 DEF Keeps, Below
  <2> QED
    BY <2>1, <2>3 DEF BoundInv
<1>4. IndexInv'
  <2>1. ASSUME NEW id \in Events, index'[id] # None, ~index'[id].skewed
        PROVE  /\ index'[id].file = Current
               /\ EntryAt(dir', Current, index'[id].line)
               /\ dir'[Current].lines[index'[id].line].id = id
    <3>1. index'[id] = index[id]
      BY <2>1
    <3>2. /\ index[id].file = Current
          /\ EntryAt(dir, Current, index[id].line)
          /\ dir[Current].lines[index[id].line].id = id
      BY <1>0, <2>1, <3>1 DEF IndexInv
    <3> QED
      BY <1>1, <3>1, <3>2 DEF Keeps, EntryAt
  <2> QED
    BY <1>1, <2>1 DEF IndexInv
<1>5. \A e \in Readable' : e \in Readable
  <2>1. Readable = Read(dir, OpenFiles) /\ Readable' = Read(dir', OpenFiles')
    BY <1>0, <1>2, ReadableIs, ReadableNextIs
  <2> SUFFICES ASSUME NEW e \in Read(dir', OpenFiles') PROVE e \in Read(dir, OpenFiles)
    BY <2>1
  <2>2. /\ e \in Placed /\ e.file \in OpenFiles'
        /\ EntryAt(dir', e.file, e.line)
        /\ e.id = dir'[e.file].lines[e.line].id
        /\ e.seq = dir'[e.file].lines[e.line].seq
    BY DEF Read
  <2>3. e.file \in Nat /\ e.line \in Nat
    BY <2>2 DEF Placed
  <2>4. /\ EntryAt(dir, e.file, e.line) /\ Len(dir') = Len(dir)
        /\ dir'[e.file].lines[e.line] = dir[e.file].lines[e.line]
    BY <2>2, <2>3 DEF Keeps
  <2>5. e.file \in OpenFiles
    BY <1>1, <2>2 DEF OpenFiles
  <2> QED
    BY <2>2, <2>4, <2>5 DEF Read
<1>6. SubInv'
  BY <1>0, <1>1, <1>5, SubKeeps
<1> QED
  BY <1>2, <1>3, <1>4, <1>6 DEF LogInv

LEMMA WriteGood ==
    ASSUME LogInv, NEW id \in Events, WriteEvent(id)
    PROVE  LogInv'
<1> DEFINE n == Len(dir[Current].lines) + 1
<1>0. LogType /\ BoundInv /\ OrderInv /\ IndexInv /\ seqCounter \in Nat
  BY DEF LogInv, LogType
<1>1. /\ dir' \in Seq(FileRecord) /\ Len(dir') = Len(dir) /\ dir'[Current].exists
      /\ dir'[Current].torn = FALSE /\ dir'[Current].skewed = dir[Current].skewed
  BY <1>0, WriteIs
<1>2. \A f \in Nat, i \in Nat : EntryAt(dir', f, i) =>
          \/ EntryAt(dir, f, i) /\ dir'[f].lines[i] = dir[f].lines[i]
          \/ f = Current /\ i = n /\ dir'[f].lines[i].seq = seqCounter
  BY <1>0, WriteIs
<1>3. \A i \in Nat : EntryAt(dir, Current, i) =>
          /\ EntryAt(dir', Current, i)
          /\ dir'[Current].lines[i] = dir[Current].lines[i]
          /\ i < n
  BY <1>0, WriteIs
<1>4. ~dir[Current].torn =>
          EntryAt(dir', Current, n) /\ dir'[Current].lines[n].id = id
  BY <1>0, WriteIs
<1>5. /\ seqCounter' = seqCounter + 1
      /\ index' = [index EXCEPT ![id] = [file |-> Current, line |-> n,
                                         skewed |-> dir[Current].skewed]]
      /\ UNCHANGED <<logFiles, status, sub, blind>>
  BY DEF WriteEvent
<1>6. Current' = Current /\ Current = Len(dir) /\ n \in Nat
  BY <1>0, <1>1, CurrentIs DEF Current
<1> HIDE DEF n
<1>7. LogType'
  BY <1>0, <1>1, <1>5, <1>6 DEF LogType
<1>8. ASSUME ~blind PROVE Ordered(dir') /\ Below(dir', seqCounter')
  <2>0. Ordered(dir) /\ Below(dir, seqCounter)
    BY <1>0, <1>8 DEF OrderInv
  <2>1. ASSUME NEW f \in Nat, NEW i \in Nat, EntryAt(dir', f, i)
        PROVE  dir'[f].lines[i].seq < seqCounter'
    <3>1. CASE EntryAt(dir, f, i) /\ dir'[f].lines[i] = dir[f].lines[i]
      <4>1. dir[f].lines[i].seq < seqCounter /\ dir[f].lines[i].seq \in Nat
        BY <1>0, <2>0, <3>1, EntryType DEF LogType, Below
      <4> QED
        BY <1>0, <1>5, <3>1, <4>1
    <3>2. CASE f = Current /\ i = n /\ dir'[f].lines[i].seq = seqCounter
      BY <1>0, <1>5, <3>2
    <3> QED
      BY <1>2, <2>1, <3>1, <3>2
  <2>2. ASSUME NEW f \in Nat, NEW g \in Nat, NEW i \in Nat, NEW j \in Nat,
               EntryAt(dir', f, i), EntryAt(dir', g, j), f < g \/ (f = g /\ i < j)
        PROVE  dir'[f].lines[i].seq < dir'[g].lines[j].seq
    <3>1. CASE f = Current /\ i = n /\ dir'[f].lines[i].seq = seqCounter
      <4>1. g <= Current
        BY <1>1, <1>6, <2>2 DEF EntryAt
      <4>2. g = Current /\ n < j
        BY <1>6, <2>2, <3>1, <4>1
      <4>3. EntryAt(dir, g, j) \/ j = n
        BY <1>2, <2>2
      <4> QED
        BY <1>3, <1>6, <4>2, <4>3
    <3>2. CASE EntryAt(dir, f, i) /\ dir'[f].lines[i] = dir[f].lines[i]
      <4>1. CASE EntryAt(dir, g, j) /\ dir'[g].lines[j] = dir[g].lines[j]
        BY <2>0, <2>2, <3>2, <4>1 DEF Ordered
      <4>2. CASE g = Current /\ j = n /\ dir'[g].lines[j].seq = seqCounter
        BY <2>0, <3>2, <4>2 DEF Below
      <4> QED
        BY <1>2, <2>2, <4>1, <4>2
    <3> QED
      BY <1>2, <2>2, <3>1, <3>2
  <2> QED
    BY <2>1, <2>2 DEF Ordered, Below
<1>9. IndexInv'
  <2>1. ASSUME NEW x \in Events, index'[x] # None, ~index'[x].skewed
        PROVE  /\ index'[x].file = Current
               /\ EntryAt(dir', Current, index'[x].line)
               /\ dir'[Current].lines[index'[x].line].id = x
    <3>1. CASE x = id
      <4>1. /\ index'[x].file = Current /\ index'[x].line = n
            /\ index'[x].skewed = dir[Current].skewed
        BY <1>0, <1>5, <3>1 DEF LogType
      <4>2. ~dir[Current].torn
        BY <1>0, <2>1, <4>1 DEF IndexInv
      <4> QED
        BY <1>4, <3>1, <4>1, <4>2
    <3>2. CASE x # id
      <4>1. index'[x] = index[x]
        BY <1>0, <1>5, <3>2 DEF LogType
      <4>2. /\ index[x].file = Current
            /\ EntryAt(dir, Current, index[x].line)
            /\ dir[Current].lines[index[x].line].id = x
        BY <1>0, <2>1, <4>1 DEF IndexInv
      <4>3. index[x].line \in Nat
        BY <1>0, <4>2, EntryType DEF LogType
      <4> QED
        BY <1>3, <4>1, <4>2, <4>3
    <3> QED
      BY <3>1, <3>2
  <2> QED
    BY <1>1, <1>6, <2>1 DEF IndexInv
<1>10. \A e \in Readable' : e \in Readable \/ (e.file = Current /\ e.seq = seqCounter)
  <2>1. Readable = Read(dir, OpenFiles) /\ Readable' = Read(dir', OpenFiles')
    BY <1>0, <1>7, ReadableIs, ReadableNextIs
  <2> SUFFICES ASSUME NEW e \in Read(dir', OpenFiles')
               PROVE  e \in Read(dir, OpenFiles) \/ (e.file = Current /\ e.seq = seqCounter)
    BY <2>1
  <2>2. /\ e \in Placed /\ e.file \in OpenFiles'
        /\ EntryAt(dir', e.file, e.line)
        /\ e.id = dir'[e.file].lines[e.line].id
        /\ e.seq = dir'[e.file].lines[e.line].seq
    BY DEF Read
  <2>3. e.file \in Nat /\ e.line \in Nat
    BY <2>2 DEF Placed
  <2>4. e.file \in OpenFiles
    BY <1>5, <1>6, <2>2 DEF OpenFiles
  <2> QED
    BY <1>1, <1>2, <2>2, <2>3, <2>4 DEF Read
<1>11. SubInv'
  BY <1>0, <1>5, <1>6, <1>10, SubKeeps
<1>12. BoundInv'
  <2>1. PICK b \in Nat : Below(dir, b)
    BY <1>0 DEF BoundInv
  <2> DEFINE m == b + seqCounter + 1
  <2>2. m \in Nat /\ \A x \in Nat : x < b \/ x = seqCounter => x < m
    BY <1>0
  <2> HIDE DEF m
  <2>3. ASSUME NEW f \in Nat, NEW i \in Nat, EntryAt(dir', f, i)
        PROVE  dir'[f].lines[i].seq < m
    <3>1. dir'[f].lines[i].seq \in Nat
      BY <1>1, <2>3, EntryType
    <3>2. dir'[f].lines[i].seq < b \/ dir'[f].lines[i].seq = seqCounter
      BY <1>2, <2>1, <2>3 DEF Below
    <3> QED
      BY <2>2, <3>1, <3>2
  <2> QED
    BY <2>2, <2>3 DEF BoundInv, Below
<1>13. OrderInv'
  BY <1>5, <1>8 DEF OrderInv
<1> QED
  BY <1>7, <1>9, <1>11, <1>12, <1>13 DEF LogInv

(******************************************************************************)
(* Start and restart.                                                         *)

LEMMA NewFileIs ==
    ASSUME NEW n \in Nat
    PROVE  /\ File(n) \in FileRecord /\ File(n).exists = TRUE /\ File(n).torn = FALSE
           /\ File(n).lines = <<>>
<1> DEFINE none == <<>>
<1>1. none \in Seq(Entry \union {Garbled})
  OBVIOUS
<1>2. File(n) = [first |-> n, lines |-> none, synced |-> 0, torn |-> FALSE,
                 skewed |-> FALSE, exists |-> TRUE]
  BY DEF File
<1> HIDE DEF none
<1>3. /\ File(n) \in FileRecord /\ File(n).exists = TRUE /\ File(n).torn = FALSE
      /\ File(n).lines = none
  BY <1>1, <1>2 DEF FileRecord
<1> QED
  BY <1>3 DEF none

(* Without a subscription there is nothing to send.                           *)
LEMMA NoSubIs ==
    /\ NoSub \in SubRecord /\ NoSub.pc = "off" /\ NoSub.live = FALSE
    /\ NoSub.batch = {} /\ NoSub.last = NoSub.start /\ NoSub.known = 0
BY DEF NoSub, SubRecord

LEMMA NoSubGood == sub' = NoSub /\ seqCounter' \in Nat => SubInv'
<1> SUFFICES ASSUME sub' = NoSub, seqCounter' \in Nat PROVE SubInv'
  OBVIOUS
<1>1. /\ sub'.pc = "off" /\ sub'.live = FALSE /\ sub'.batch = {}
      /\ sub'.last = sub'.start /\ sub'.known = 0
  BY NoSubIs
<1>2. BatchInv'
  BY <1>1 DEF BatchInv
<1> QED
  BY <1>1, <1>2 DEF SubInv

LEMMA RestartGood ==
    ASSUME LogInv, Restart
    PROVE  LogInv'
<1>0. LogType /\ BoundInv /\ OrderInv /\ seqCounter \in Nat
  BY DEF LogInv, LogType
<1> DEFINE D(r) == [dir EXCEPT ![Current] = r]
           S(d) == {f \in 1..Len(d) : d[f].exists}
<1>1. PICK r \in Survivors(dir[Current]) :
          \E listed \in SUBSET S(D(r)) : \E counted \in SUBSET listed :
              LET n == LoadExistingFiles(D(r), counted)
              IN  /\ logFiles' = listed
                  /\ seqCounter' = n
                  /\ dir' = Append(D(r), File(n))
                  /\ blind' = (blind \/ Overlooked(D(r), S(D(r)) \ counted, n))
  BY DEF Restart
<1>2. /\ index' = [id \in Events |-> None] /\ sub' = NoSub
  BY DEF Restart
<1>3. /\ r \in FileRecord /\ r.exists = dir[Current].exists
      /\ \A i \in 1..Len(r.lines) :
            i \in 1..Len(dir[Current].lines) /\ r.lines[i] = dir[Current].lines[i]
  BY <1>0, CurrentIs, SurvivorIs
<1> DEFINE d == D(r)
<1>4. /\ d \in Seq(FileRecord) /\ Len(d) = Len(dir) /\ d[Current] = r
      /\ \A f \in 1..Len(dir) : f # Current => d[f] = dir[f]
  BY <1>0, <1>3, CurrentIs, FileReplaced DEF LogType
<1> HIDE DEF D
<1>5. \A f \in Nat, i \in Nat : EntryAt(d, f, i) =>
          EntryAt(dir, f, i) /\ d[f].lines[i] = dir[f].lines[i]
  BY <1>0, <1>3, <1>4, CurrentIs DEF EntryAt
<1>6. PICK listed \in SUBSET S(d) : \E counted \in SUBSET listed :
          LET n == LoadExistingFiles(d, counted)
          IN  /\ logFiles' = listed
              /\ seqCounter' = n
              /\ dir' = Append(d, File(n))
              /\ blind' = (blind \/ Overlooked(d, S(d) \ counted, n))
  BY <1>1
<1>7. PICK counted \in SUBSET listed :
          LET n == LoadExistingFiles(d, counted)
          IN  /\ logFiles' = listed
              /\ seqCounter' = n
              /\ dir' = Append(d, File(n))
              /\ blind' = (blind \/ Overlooked(d, S(d) \ counted, n))
  BY <1>6
<1> DEFINE n == LoadExistingFiles(d, counted)
<1>8. PICK b \in Nat : Below(d, b)
  BY <1>0, <1>5 DEF BoundInv, Below
<1>8a. n \in Nat /\ (Ordered(d) => \A f \in counted, i \in Nat : EntryAt(d, f, i) =>
                         d[f].lines[i].seq < n)
  <2>1. counted \in SUBSET {f \in 1..Len(d) : d[f].exists}
    OBVIOUS
  <2> QED
    BY <1>4, <1>8, <2>1, CounterRecovered
<1>8b. /\ logFiles' = listed /\ seqCounter' = n /\ dir' = Append(d, File(n)) /\ n \in Nat
       /\ blind' = (blind \/ Overlooked(d, S(d) \ counted, n))
  BY <1>7, <1>8a
<1>9. listed \subseteq 1..Len(d)
  OBVIOUS
<1>9a. ASSUME ~blind' PROVE Ordered(d) /\ Below(d, n)
  <2>1. ~blind /\ ~Overlooked(d, S(d) \ counted, n)
    BY <1>8b, <1>9a
  <2>2. Ordered(d)
    BY <1>0, <1>5, <2>1, LosingKeepsOrder DEF OrderInv
  <2>3. ASSUME NEW f \in Nat, NEW i \in Nat, EntryAt(d, f, i)
        PROVE  d[f].lines[i].seq < n
    <3>1. f \in S(d) /\ i \in 1..Len(d[f].lines) /\ d[f].lines[i] # Garbled
      BY <2>3 DEF EntryAt
    <3>2. d[f].lines[i].seq \in Nat
      BY <1>4, <2>3, EntryType
    <3> HIDE DEF d, n, S
    <3>3. CASE f \in counted
      BY <1>8a, <2>2, <2>3, <3>3
    <3>4. CASE f \notin counted
      <4>1. ~(d[f].lines[i].seq >= n)
        BY <2>1, <3>1, <3>4 DEF Overlooked, IsEntry
      <4> QED
        BY <1>8b, <3>2, <4>1
    <3> QED
      BY <3>3, <3>4
  <2> QED
    BY <2>2, <2>3 DEF Below
<1> HIDE DEF d, S, n
<1>10. /\ dir' \in Seq(FileRecord) /\ Len(dir') = Len(d) + 1 /\ Len(d) \in Nat
       /\ dir'[Len(d) + 1] = File(n)
       /\ \A f \in 1..Len(d) : dir'[f] = d[f]
  <2> DEFINE new == File(n)
  <2>1. new \in FileRecord
    BY <1>8b, NewFileIs
  <2> HIDE DEF new
  <2>2. dir' = Append(d, new) /\ d \in Seq(FileRecord)
    BY <1>4, <1>8b DEF new
  <2>3. /\ dir' \in Seq(FileRecord) /\ Len(dir') = Len(d) + 1 /\ Len(d) \in Nat
        /\ dir'[Len(d) + 1] = new
        /\ \A f \in 1..Len(d) : dir'[f] = d[f]
    BY <2>1, <2>2
  <2> QED
    BY <2>3 DEF new
<1>11. Current' = Len(d) + 1
  BY <1>10 DEF Current
<1>12. LogType'
  <2>1. dir'[Current'].exists
    BY <1>8b, <1>10, <1>11, NewFileIs
  <2>2. logFiles' \subseteq 1..(Len(dir') - 1)
    BY <1>8b, <1>9, <1>10
  <2>3. blind' \in BOOLEAN
    BY <1>8b
  <2> QED
    BY <1>0, <1>2, <1>8b, <1>10, <2>1, <2>2, <2>3, NoSubIs DEF LogType
<1>13. \A f \in Nat, i \in Nat : EntryAt(dir', f, i) =>
          EntryAt(d, f, i) /\ dir'[f].lines[i] = d[f].lines[i]
  <2> SUFFICES ASSUME NEW f \in Nat, NEW i \in Nat, EntryAt(dir', f, i)
               PROVE  EntryAt(d, f, i) /\ dir'[f].lines[i] = d[f].lines[i]
    OBVIOUS
  <2>1. f \in 1..(Len(d) + 1) /\ i \in 1..Len(dir'[f].lines)
    BY <1>10 DEF EntryAt
  <2>2. f # Len(d) + 1
    <3>1. File(n).lines = <<>>
      BY <1>8b, NewFileIs
    <3>2. dir'[Len(d) + 1].lines = <<>>
      BY <1>10, <3>1
    <3>3. SUFFICES ASSUME f = Len(d) + 1 PROVE FALSE
      OBVIOUS
    <3>4. i \in 1..Len(dir'[Len(d) + 1].lines)
      BY <2>1, <3>3
    <3>5. i \in 1..0
      BY <3>2, <3>4
    <3> QED
      BY <3>5
  <2>3. f \in 1..Len(d)
    BY <1>10, <2>1, <2>2
  <2> QED
    BY <1>10, <2>3 DEF EntryAt
<1>14. OrderInv' /\ BoundInv'
  <2>1. ASSUME ~blind' PROVE Ordered(dir') /\ Below(dir', seqCounter')
    BY <1>8b, <1>9a, <1>13, <2>1, LosingKeepsOrder
  <2>2. Below(dir', b)
    BY <1>8, <1>13 DEF Below
  <2> QED
    BY <2>1, <2>2 DEF OrderInv, BoundInv
<1>15. IndexInv'
  BY <1>2, <1>8b, <1>10, <1>11, NewFileIs DEF IndexInv
<1>16. SubInv'
  BY <1>2, <1>8b, NoSubGood
<1> QED
  BY <1>12, <1>14, <1>15, <1>16 DEF LogInv

LEMMA InitLogGood == Init => LogInv
<1> SUFFICES ASSUME Init PROVE LogInv
  OBVIOUS
<1>1. seqCounter \in Nat /\ dir = <<File(seqCounter)>>
  BY LogAssumption DEF Init
<1> DEFINE f == File(seqCounter)
<1>2. f \in FileRecord /\ f.exists = TRUE /\ f.torn = FALSE /\ f.lines = <<>>
  BY <1>1, NewFileIs
<1> HIDE DEF f
<1>3. dir \in Seq(FileRecord) /\ Len(dir) = 1 /\ dir[1] = f
  BY <1>1, <1>2 DEF f
<1>4. LogType
  <2>1. DOMAIN index = Events /\ logFiles = {} /\ blind = FALSE /\ sub \in SubRecord
    BY NoSubIs DEF Init
  <2>2. blind \in BOOLEAN
    BY <2>1, Zenon
  <2> QED
    BY <1>1, <1>2, <1>3, <2>1, <2>2 DEF LogType, Current
<1>5. \A g \in Nat, i \in Nat : ~EntryAt(dir, g, i)
  BY <1>2, <1>3 DEF EntryAt
<1>6. OrderInv /\ BoundInv
  <2>1. Ordered(dir) /\ Below(dir, seqCounter)
    BY <1>5 DEF Ordered, Below
  <2> QED
    BY <1>1, <2>1 DEF OrderInv, BoundInv
<1>7. IndexInv
  BY <1>2, <1>3 DEF Init, IndexInv, Current
<1>8. SubInv
  BY <1>1, NoSubIs DEF Init, SubInv, BatchInv
<1> QED
  BY <1>4, <1>6, <1>7, <1>8 DEF LogInv

(******************************************************************************)
(* The subscription.                                                          *)

LEMMA SubscribeGood ==
    ASSUME LogInv, NEW cursor \in Cursors, SubscribeToEvents(cursor)
    PROVE  SubInv' /\ sub' \in SubRecord
<1>1. cursor \in Int
  BY LogAssumption
<1>2. sub' = [NoSub EXCEPT !.pc = "history", !.last = cursor, !.start = cursor]
  BY DEF SubscribeToEvents
<1>3. /\ sub' \in SubRecord /\ sub'.pc = "history" /\ sub'.live = FALSE
      /\ sub'.batch = {} /\ sub'.last = cursor /\ sub'.start = cursor
      /\ sub'.known = 0
  BY <1>1, <1>2, NoSubIs DEF SubRecord
<1>4. BatchInv'
  BY <1>3 DEF BatchInv
<1>5. sub'.known <= seqCounter'
  BY <1>3 DEF LogInv, LogType, SubscribeToEvents
<1> QED
  BY <1>3, <1>4, <1>5 DEF SubInv

(* What a read of the log gives the subscription: entries that can be read,   *)
(* and all of them unless it missed some.                                     *)
LEMMA BatchIs ==
    ASSUME LogType, NEW from \in Int, NEW b \in Batch(from)
    PROVE  \E B \in SUBSET Readable, m \in BOOLEAN :
               /\ b = [sub EXCEPT !.pc = "send", !.batch = B, !.missed = m]
               /\ ~m => ~sub.missed /\ B = {e \in Readable : e.seq >= from}
<1>1. PICK F \in SUBSET OpenFiles :
          b = [sub EXCEPT !.pc = "send", !.batch = ReadEventsSince(from, F),
                          !.missed = sub.missed \/
                              ReadEventsSince(from, F) # ReadEventsSince(from, OpenFiles)]
  BY DEF Batch
<1> DEFINE B == ReadEventsSince(from, F)
           m == sub.missed \/ B # ReadEventsSince(from, OpenFiles)
<1>2. Readable = Read(dir, OpenFiles)
  BY ReadableIs
<1>3. B = {e \in Read(dir, F) : e.seq >= from}
  BY ReadSinceIs
<1>4. B \in SUBSET Readable
  BY <1>2, <1>3 DEF Read
<1>5. ReadEventsSince(from, OpenFiles) = {e \in Readable : e.seq >= from}
  BY <1>2, ReadSinceIs
<1>6. m \in BOOLEAN /\ (~m => ~sub.missed /\ B = {e \in Readable : e.seq >= from})
  BY <1>5
<1> HIDE DEF B
<1>7. b = [sub EXCEPT !.pc = "send", !.batch = B, !.missed = m]
  BY <1>1 DEF B
<1> HIDE DEF m
<1> QED
  BY <1>4, <1>6, <1>7

(* A read of the log makes a good batch.                                      *)
LEMMA BatchGood ==
    ASSUME LogType, OrderInv, UNCHANGED <<dir, logFiles, seqCounter>>,
           sub'.batch \subseteq Readable, ~blind,
           sub'.last = sub'.start \/ sub'.last < seqCounter
    PROVE  BatchInv'
<1> DEFINE R == Read(dir, OpenFiles)
<1>1. sub'.batch \subseteq R
  BY ReadableIs
<1>2. /\ R \subseteq Placed
      /\ \A e \in R : e.seq < seqCounter /\ e.file <= Current
      /\ \A d \in R, e \in R :
            d.file < e.file \/ (d.file = e.file /\ d.line < e.line) => d.seq < e.seq
  BY ReadInOrder
<1>3. \A e \in R : e.file \in Nat
  BY <1>2 DEF Placed
<1>4. Current \in Nat /\ Current' = Current
  BY CurrentIs DEF Current
<1> HIDE DEF R
<1>5. ASSUME NEW d \in sub'.batch, NEW e \in sub'.batch,
             e.file = Current, d.file # Current \/ d.line < e.line
      PROVE  d.seq < e.seq
  <2>1. d \in R /\ e \in R
    BY <1>1
  <2>2. d.file < e.file \/ (d.file = e.file /\ d.line < e.line)
    BY <1>2, <1>3, <1>4, <1>5, <2>1
  <2> QED
    BY <1>2, <2>1, <2>2
<1>6. \A e \in sub'.batch : e.seq < seqCounter'
  BY <1>1, <1>2
<1> QED
  BY <1>4, <1>5, <1>6 DEF BatchInv

LEMMA ReadableStays ==
    ASSUME UNCHANGED <<dir, logFiles>>
    PROVE  Readable' = Readable /\ Current' = Current
BY DEF Readable, ReadEventsSince, ReadEventsFromFile, OpenFiles, Current

LEMMA ReadHistoryGood ==
    ASSUME LogInv, ReadHistory
    PROVE  SubInv' /\ sub' \in SubRecord
<1>0. LogType /\ OrderInv /\ SubInv /\ seqCounter \in Nat
  BY DEF LogInv, LogType
<1>1. /\ sub \in SubRecord /\ sub.pc = "history"
      /\ UNCHANGED <<dir, logFiles, seqCounter, status, blind>>
  BY <1>0 DEF LogType, ReadHistory
<1>2. sub.last = sub.start /\ ~sub.live /\ sub.batch = {} /\ sub.start \in Int
  BY <1>0, <1>1, SubType DEF SubInv
<1>3. Readable \subseteq Placed /\ Readable' = Readable
  BY <1>0, <1>1, ReadableIs, ReadableStays DEF Read
<1>4. CASE sub.start >= 0 /\ status = "open"
  <2>1. PICK b \in Batch(sub.start) : sub' = [b EXCEPT !.known = seqCounter]
    BY <1>4 DEF ReadHistory
  <2>2. PICK B \in SUBSET Readable, m \in BOOLEAN :
            /\ b = [sub EXCEPT !.pc = "send", !.batch = B, !.missed = m]
            /\ ~m => ~sub.missed /\ B = {e \in Readable : e.seq >= sub.start}
    BY <1>0, <1>2, BatchIs
  <2>3. /\ sub' \in SubRecord /\ sub'.known = seqCounter
        /\ sub'.pc = "send" /\ sub'.batch = B /\ sub'.last = sub.last
        /\ sub'.start = sub.start /\ sub'.live = sub.live /\ sub'.got = sub.got
        /\ sub'.missed = m
    BY <1>0, <1>1, <1>3, <2>1, <2>2 DEF SubRecord
  <2>4. ASSUME ~blind PROVE BatchInv'
    BY <1>0, <1>1, <1>2, <2>3, <2>4, BatchGood
  <2>5. ASSUME Sound' PROVE OwedInv'
    <3>1. B = {e \in Readable : e.seq >= sub.start}
      BY <2>2, <2>3, <2>5 DEF Sound
    <3>2. ASSUME NEW e \in Readable, Due(e)' PROVE e \in B
      <4>1. e.seq \in Nat
        BY <1>3 DEF Placed
      <4>2. e.seq >= sub.start
        BY <1>2, <2>3, <3>2, <4>1 DEF Due
      <4> QED
        BY <3>1, <4>2
    <3> QED
      BY <1>3, <2>3, <3>2 DEF OwedInv
  <2>6. SkipInv'
    BY <1>2, <2>3 DEF SkipInv
  <2>7. sub'.known <= seqCounter'
    BY <1>0, <1>1, <2>3
  <2> QED
    BY <1>1, <2>3, <2>4, <2>5, <2>6, <2>7 DEF SubInv
<1>5. CASE ~(sub.start >= 0 /\ status = "open")
  <2>1. sub' = [sub EXCEPT !.pc = "wait", !.live = TRUE, !.known = seqCounter]
    BY <1>5 DEF ReadHistory
  <2>2. /\ sub' \in SubRecord /\ sub'.pc = "wait" /\ sub'.batch = {}
        /\ sub'.last = sub.last /\ sub'.start = sub.start /\ sub'.known = seqCounter
    BY <1>0, <1>1, <1>2, <2>1 DEF SubRecord
  <2>3. BatchInv' /\ sub'.known <= seqCounter' /\ ~Sound'
    BY <1>0, <1>1, <1>2, <1>5, <2>2 DEF BatchInv, Sound
  <2> QED
    BY <2>2, <2>3 DEF SubInv
<1> QED
  BY <1>4, <1>5

LEMMA PollGood ==
    ASSUME LogInv, Poll
    PROVE  SubInv' /\ sub' \in SubRecord
<1>0. LogType /\ OrderInv /\ SubInv /\ sub.last \in Int
  BY SubType DEF LogInv
<1>1. /\ sub \in SubRecord /\ sub.pc = "wait" /\ status = "open"
      /\ UNCHANGED <<dir, logFiles, seqCounter, status, blind>>
      /\ sub' \in Batch(sub.last)
  BY <1>0 DEF LogType, Poll
<1>2. PICK B \in SUBSET Readable, m \in BOOLEAN :
          /\ sub' = [sub EXCEPT !.pc = "send", !.batch = B, !.missed = m]
          /\ ~m => ~sub.missed /\ B = {e \in Readable : e.seq >= sub.last}
  BY <1>0, <1>1, BatchIs
<1>3. /\ Readable \subseteq Placed /\ Readable' = Readable /\ Current' = Current
  BY <1>0, <1>1, ReadableIs, ReadableStays DEF Read
<1>4. /\ sub' \in SubRecord /\ sub'.known = sub.known
      /\ sub'.pc = "send" /\ sub'.batch = B /\ sub'.last = sub.last
      /\ sub'.start = sub.start /\ sub'.live = sub.live /\ sub'.got = sub.got
      /\ sub'.missed = m
  BY <1>1, <1>2, <1>3 DEF SubRecord
<1>5. ASSUME ~blind PROVE BatchInv'
  <2>1. sub.last = sub.start \/ sub.last < seqCounter
    BY <1>0, <1>5 DEF SubInv, BatchInv
  <2> QED
    BY <1>0, <1>1, <1>4, <1>5, <2>1, BatchGood
<1>6. ASSUME Sound' PROVE OwedInv' /\ SkipInv'
  <2>1. Sound /\ B = {e \in Readable : e.seq >= sub.last}
    BY <1>1, <1>2, <1>4, <1>6 DEF Sound
  <2>2. OwedInv /\ sub.batch = {}
    BY <1>0, <1>1, <2>1 DEF SubInv
  <2>3. \A e \in Readable : e.seq \in Nat
    BY <1>3 DEF Placed
  <2>4. \A e : Due(e)' <=> Due(e)
    BY <1>1, <1>4 DEF Due
  <2>5. ASSUME NEW e \in Readable, Due(e)
        PROVE  e.id \in sub.got \/ (e.file = Current /\ e.seq > sub.last)
    BY <2>2, <2>5 DEF OwedInv
  <2>6. ASSUME NEW e \in Readable, Due(e) PROVE e.id \in sub.got \/ e \in B
    <3>1. CASE e.id \in sub.got
      BY <3>1
    <3>2. CASE e.seq > sub.last
      BY <1>0, <2>1, <2>3, <3>2
    <3> QED
      BY <2>5, <2>6, <3>1, <3>2
  <2>7. OwedInv'
    BY <1>3, <1>4, <2>4, <2>6 DEF OwedInv
  <2>8. ASSUME NEW e \in B, Due(e), e.file # Current \/ e.seq <= sub.last
        PROVE  e.id \in sub.got
    BY <1>0, <2>3, <2>5, <2>8
  <2>9. SkipInv'
    BY <1>3, <1>4, <2>4, <2>8 DEF SkipInv
  <2> QED
    BY <2>7, <2>9
<1>7. sub'.known <= seqCounter'
  BY <1>0, <1>1, <1>4 DEF SubInv
<1> QED
  BY <1>1, <1>4, <1>5, <1>6, <1>7 DEF SubInv

LEMMA SendGood ==
    ASSUME LogInv, Send
    PROVE  SubInv' /\ sub' \in SubRecord
<1>0. LogType /\ SubInv /\ seqCounter \in Nat
  BY DEF LogInv, LogType
<1>1. /\ sub \in SubRecord /\ sub.pc = "send"
      /\ UNCHANGED <<dir, logFiles, seqCounter, status, blind>>
  BY <1>0 DEF LogType, Send
<1> DEFINE W(e) == e.id \in Matching /\ (sub.live => e.seq > sub.last)
<1>2. PICK e \in sub.batch :
          /\ \A d \in sub.batch \ {e} : ReadBefore(e, d)
          /\ sub' = [sub EXCEPT !.batch = sub.batch \ {e},
                                !.last = IF W(e) THEN e.seq ELSE sub.last,
                                !.got = IF W(e) THEN sub.got \union {e.id} ELSE sub.got]
  BY DEF Send
<1> DEFINE L == IF W(e) THEN e.seq ELSE sub.last
           G == IF W(e) THEN sub.got \union {e.id} ELSE sub.got
<1>3. e \in Placed /\ e.seq \in Nat /\ e.id \in Events
  BY <1>0, SubType DEF Placed
<1>4. L \in Int /\ G \subseteq Events /\ sub.batch \ {e} \subseteq Placed
  BY <1>0, <1>3, SubType
<1>5. sub.got \subseteq G /\ (W(e) => e.id \in G /\ L = e.seq) /\ (~W(e) => L = sub.last)
  OBVIOUS
<1>6. sub' = [sub EXCEPT !.batch = sub.batch \ {e}, !.last = L, !.got = G]
  BY <1>2
<1> HIDE DEF L, G, W
<1>7. /\ sub'.pc = "send" /\ sub'.batch = sub.batch \ {e} /\ sub'.last = L
      /\ sub'.start = sub.start /\ sub'.live = sub.live /\ sub'.got = G
      /\ sub'.known = sub.known /\ sub'.missed = sub.missed
      /\ sub' \in SubRecord
  BY <1>1, <1>4, <1>6 DEF SubRecord
<1>8. Current' = Current /\ Readable' = Readable
  BY <1>1, ReadableStays
<1>9. sub'.known <= seqCounter'
  BY <1>0, <1>1, <1>7 DEF SubInv
<1>10. ASSUME ~blind PROVE BatchInv' /\ BatchInv
  <2>1. BatchInv
    BY <1>0, <1>10 DEF SubInv
  <2>2. e.seq < seqCounter
    BY <2>1 DEF BatchInv
  <2>3. sub'.last = sub'.start \/ sub'.last < seqCounter'
    BY <1>1, <1>5, <1>7, <2>1, <2>2 DEF BatchInv
  <2> QED
    BY <1>1, <1>7, <1>8, <2>1, <2>3 DEF BatchInv
<1>11. ASSUME Sound' PROVE OwedInv' /\ SkipInv'
  <2>0. Sound
    BY <1>1, <1>7, <1>11 DEF Sound
  <2>1. OwedInv /\ SkipInv /\ BatchInv
    BY <1>0, <1>1, <1>10, <2>0 DEF SubInv, Sound
  <2>2. \A x : Due(x)' <=> Due(x)
    BY <1>1, <1>7 DEF Due
  <2>3. Readable' = Readable
    BY <1>8
  <2>4. Due(e) => e.id \in G
    <3>1. CASE W(e)
      BY <1>5, <3>1
    <3>2. CASE ~W(e)
      <4>1. Due(e) => sub.live /\ ~(e.seq > sub.last)
        BY <3>2 DEF W, Due
      <4>2. ~(e.seq > sub.last) => e.seq <= sub.last
        BY <1>0, <1>3, SubType
      <4> QED
        BY <1>5, <2>1, <4>1, <4>2 DEF SkipInv
    <3> QED
      BY <3>1, <3>2
  <2>5. ASSUME NEW x \in Readable, Due(x)
        PROVE  \/ x.id \in G
               \/ x \in sub.batch \ {e}
               \/ x.file = Current /\ x.seq > L /\ \A d \in sub.batch \ {e} : x.seq > d.seq
    <3>1. CASE x.id \in sub.got
      BY <1>5, <3>1
    <3>2. CASE x \in sub.batch
      BY <2>4, <2>5, <3>2
    <3>3. CASE x.file = Current /\ x.seq > sub.last /\ \A d \in sub.batch : x.seq > d.seq
      BY <1>5, <3>3
    <3> QED
      BY <2>1, <2>5, <3>1, <3>2, <3>3 DEF OwedInv
  <2>6. OwedInv'
    BY <1>7, <1>8, <2>2, <2>3, <2>5 DEF OwedInv
  <2>7. ASSUME sub.live, NEW d \in sub.batch \ {e}, Due(d), d.file # Current \/ d.seq <= L
        PROVE  d.id \in G
    <3>1. CASE d.file # Current \/ d.seq <= sub.last
      BY <1>5, <2>1, <2>7, <3>1 DEF SkipInv
    <3>2. CASE d.file = Current /\ W(e) /\ d.seq <= e.seq
      <4>1. e.file # Current \/ e.line < d.line
        BY <1>2, <3>2 DEF ReadBefore
      <4>2. e.seq < d.seq
        BY <2>1, <3>2, <4>1 DEF BatchInv
      <4>3. d.seq \in Nat
        BY <1>0, SubType
      <4> QED
        BY <1>3, <3>2, <4>2, <4>3
    <3> QED
      BY <1>5, <2>7, <3>1, <3>2
  <2>8. SkipInv'
    BY <1>7, <1>8, <2>2, <2>7 DEF SkipInv
  <2> QED
    BY <2>6, <2>8
<1> QED
  BY <1>1, <1>7, <1>9, <1>10, <1>11 DEF SubInv

LEMMA EndOfBatchGood ==
    ASSUME LogInv, EndOfBatch
    PROVE  SubInv' /\ sub' \in SubRecord
<1>0. LogType /\ SubInv
  BY DEF LogInv
<1>1. /\ sub \in SubRecord /\ sub.pc = "send" /\ sub.batch = {}
      /\ UNCHANGED <<dir, logFiles, seqCounter, status, blind>>
      /\ sub' = [sub EXCEPT !.pc = "wait", !.live = TRUE]
  BY <1>0 DEF LogType, EndOfBatch
<1>2. /\ sub' \in SubRecord /\ sub'.pc = "wait" /\ sub'.batch = {}
      /\ sub'.last = sub.last /\ sub'.start = sub.start /\ sub'.got = sub.got
      /\ sub'.known = sub.known /\ sub'.missed = sub.missed
  BY <1>1 DEF SubRecord
<1>3. sub'.known <= seqCounter' /\ (~blind => BatchInv')
  BY <1>0, <1>1, <1>2 DEF SubInv, BatchInv
<1>4. ASSUME Sound' PROVE OwedInv' /\ SkipInv'
  <2>0. Sound
    BY <1>1, <1>2, <1>4 DEF Sound
  <2>1. OwedInv
    BY <1>0, <1>1, <2>0 DEF SubInv
  <2>2. Readable' = Readable /\ Current' = Current
    BY <1>1, ReadableStays
  <2>3. OwedInv'
    BY <1>1, <1>2, <2>1, <2>2 DEF OwedInv, Due
  <2> QED
    BY <1>2, <2>3 DEF SkipInv
<1> QED
  BY <1>1, <1>2, <1>3, <1>4 DEF SubInv

(* A step of the subscription leaves the log alone.                           *)
LEMMA SubStepGood ==
    ASSUME LogInv, UNCHANGED <<dir, logFiles, seqCounter, index, status, blind>>,
           SubInv', sub' \in SubRecord
    PROVE  LogInv'
<1>1. LogType'
  BY DEF LogInv, LogType, Current
<1>2. BoundInv' /\ OrderInv' /\ IndexInv'
  BY DEF LogInv, BoundInv, OrderInv, IndexInv, Current
<1> QED
  BY <1>1, <1>2 DEF LogInv

LEMMA NextLogGood == LogInv /\ [Next]_vars => LogInv'
<1> SUFFICES ASSUME LogInv, [Next]_vars PROVE LogInv'
  OBVIOUS
<1>1. LogType /\ IndexInv /\ DOMAIN index = Events
  BY DEF LogInv, LogType
<1>2. dir \in Seq(FileRecord) => Keeps(dir, dir)
  BY <1>1, CurrentIs DEF Keeps
<1>3. ASSUME NEW id \in Events, WriteEvent(id) PROVE LogInv'
  BY <1>3, WriteGood
<1>4. CASE WriteEventFails
  <2>1. Keeps(dir, dir') /\ dir'[Current].skewed
    BY <1>1, <1>4, FailedWriteKeeps
  <2> QED
    BY <1>1, <1>4, <2>1, KeepingStep DEF WriteEventFails
<1>5. CASE RotateFile
  <2>1. Keeps(dir, dir') /\ dir' = dir
    BY <1>1, <1>2, <1>5 DEF RotateFile, LogType
  <2>2. dir'[Current].torn => dir'[Current].skewed
    BY <1>1, <2>1 DEF IndexInv
  <2> QED
    BY <1>1, <1>5, <2>1, <2>2, KeepingStep DEF RotateFile
<1>6. CASE FlushToDisk
  <2>1. /\ Keeps(dir, dir')
        /\ dir'[Current].torn = dir[Current].torn
        /\ dir'[Current].skewed = dir[Current].skewed
    BY <1>1, <1>6, FlushKeeps
  <2>2. dir'[Current].torn => dir'[Current].skewed
    BY <1>1, <2>1 DEF IndexInv
  <2> QED
    BY <1>1, <1>6, <2>1, <2>2, KeepingStep DEF FlushToDisk
<1>7. CASE CleanupOldFiles
  <2>1. Keeps(dir, dir') /\ dir'[Current] = dir[Current] /\ logFiles' \subseteq logFiles
    BY <1>1, <1>7, CleanupKeeps
  <2>2. dir'[Current].torn => dir'[Current].skewed
    BY <1>1, <2>1 DEF IndexInv
  <2>3. UNCHANGED <<seqCounter, index, status, sub, blind>>
    BY <1>7 DEF CleanupOldFiles
  <2> QED
    BY <1>1, <2>1, <2>2, <2>3, KeepingStep
<1>8. CASE Close
  <2>1. Keeps(dir, dir') /\ dir' = dir
    BY <1>1, <1>2, <1>8 DEF Close, LogType
  <2>2. dir'[Current].torn => dir'[Current].skewed
    BY <1>1, <2>1 DEF IndexInv
  <2>3. /\ logFiles' = {} /\ status' = "closed"
        /\ index' = [id \in Events |-> None] /\ UNCHANGED <<seqCounter, sub, blind>>
    BY <1>8 DEF Close
  <2>4. DOMAIN index' = Events /\ \A id \in Events : index'[id] = None
    BY <2>3
  <2> QED
    BY <2>1, <2>2, <2>3, <2>4, KeepingStep
<1>9. CASE Restart
  BY <1>9, RestartGood
<1>10. ASSUME NEW cursor \in Cursors, SubscribeToEvents(cursor) PROVE LogInv'
  BY <1>10, SubscribeGood, SubStepGood DEF SubscribeToEvents
<1>11. CASE ReadHistory
  BY <1>11, ReadHistoryGood, SubStepGood DEF ReadHistory
<1>12. CASE Poll
  BY <1>12, PollGood, SubStepGood DEF Poll
<1>13. CASE Send
  BY <1>13, SendGood, SubStepGood DEF Send
<1>14. CASE EndOfBatch
  BY <1>14, EndOfBatchGood, SubStepGood DEF EndOfBatch
<1>15. CASE Unsubscribe
  <2>1. sub' = NoSub /\ UNCHANGED <<dir, logFiles, seqCounter, index, status, blind>>
    BY <1>15 DEF Unsubscribe
  <2>2. SubInv' /\ sub' \in SubRecord
    BY <1>1, <2>1, NoSubGood, NoSubIs DEF LogType
  <2> QED
    BY <2>1, <2>2, SubStepGood
<1>16. CASE UNCHANGED vars
  <2>1. UNCHANGED <<dir, logFiles, seqCounter, index, status, sub, blind>>
    BY <1>16 DEF vars
  <2>2. Keeps(dir, dir')
    BY <1>1, <1>2, <2>1 DEF LogType
  <2>3. dir'[Current].torn => dir'[Current].skewed
    BY <1>1, <2>1 DEF IndexInv
  <2> QED
    BY <1>1, <2>1, <2>2, <2>3, KeepingStep
<1> QED
  BY <1>3, <1>4, <1>5, <1>6, <1>7, <1>8, <1>9, <1>10, <1>11, <1>12, <1>13, <1>14,
     <1>15, <1>16 DEF Next

(******************************************************************************)

(* The files, the index and a subscription stay in the state the theorems     *)
(* below rest on: numbers grow along the files that exist as long as no start *)
(* has overlooked a number it gives again, what the index says of this        *)
(* process's writes is true, and an event that is due was sent, is about to   *)
(* be, or is newer than all that was sent, unless a read missed a file.       *)
THEOREM LogInvariant == Spec => []LogInv
<1> QED
  BY InitLogGood, NextLogGood, PTL DEF Spec

(* Whatever crashes cut off and however often the log restarts, a number is   *)
(* given to one entry only: the counter is recovered from the last line that  *)
(* parses of every file that can be read, and those numbers are the largest   *)
(* of their files. A file that cannot be read does no harm unless it holds a  *)
(* number that the counter reaches again.                                     *)
THEOREM NumbersIdentifyEvents == Spec => []SequenceUnique
<1>1. LogInv => SequenceUnique
  <2> SUFFICES ASSUME LogInv, ~blind PROVE SequenceUnique
    BY DEF SequenceUnique
  <2>0. LogType /\ OrderInv
    BY DEF LogInv
  <2>1. Readable = Read(dir, OpenFiles)
    BY <2>0, ReadableIs
  <2>2. \A e \in Readable : e.seq < seqCounter
    BY <2>0, <2>1, ReadInOrder
  <2>3. ASSUME NEW d \in Readable, NEW e \in Readable, d.seq = e.seq PROVE d = e
    <3>1. /\ d \in Placed /\ e \in Placed
          /\ d.id = dir[d.file].lines[d.line].id /\ e.id = dir[e.file].lines[e.line].id
      BY <2>1 DEF Read
    <3>2. /\ d.file \in Nat /\ e.file \in Nat /\ d.line \in Nat /\ e.line \in Nat
          /\ d.seq \in Nat /\ e.seq \in Nat
      BY <3>1 DEF Placed
    <3>3. ~(d.seq < e.seq) /\ ~(e.seq < d.seq)
      BY <2>3, <3>2
    <3>4. /\ ~(d.file < e.file) /\ ~(e.file < d.file)
          /\ ~(d.file = e.file /\ d.line < e.line) /\ ~(e.file = d.file /\ e.line < d.line)
      BY <2>0, <2>1, <3>3, ReadInOrder
    <3>5. d.file = e.file /\ d.line = e.line
      BY <3>2, <3>4
    <3> QED
      BY <2>3, <3>1, <3>5 DEF Placed
  <2> QED
    BY <2>2, <2>3 DEF SequenceUnique
<1> QED
  BY <1>1, LogInvariant, PTL

(* What this process wrote, to a file no failed write has broken, is found by *)
(* its id and is read by subscribers.                                         *)
THEOREM WritesAreFound == Spec => []WrittenIsFound
<1>1. LogInv => WrittenIsFound
  <2> SUFFICES ASSUME LogInv, NEW id \in Events, index[id] # None, ~index[id].skewed
               PROVE  ReadEvent(id) /\ \E e \in Readable : e.id = id
    BY DEF WrittenIsFound
  <2>0. LogType
    BY DEF LogInv
  <2> DEFINE i == index[id].line
             e == [id |-> dir[Current].lines[i].id, seq |-> dir[Current].lines[i].seq,
                   file |-> Current, line |-> i]
  <2>1. index[id].file = Current /\ EntryAt(dir, Current, i) /\ dir[Current].lines[i].id = id
    BY DEF LogInv, IndexInv
  <2>2. ReadEvent(id)
    BY <2>1 DEF ReadEvent, ReadEventFromFile, EntryAt
  <2>3. i \in Nat /\ Current \in Nat /\ dir[Current].lines[i].seq \in Nat
    BY <2>0, <2>1, EntryType DEF LogType
  <2> HIDE DEF i
  <2>4. /\ e \in Placed /\ e.file = Current /\ e.line = i /\ e.id = id
        /\ e.seq = dir[Current].lines[i].seq
    BY <2>1, <2>3 DEF Placed
  <2> HIDE DEF e
  <2>5. e \in Read(dir, OpenFiles)
    BY <2>0, <2>1, <2>4, CurrentIs DEF Read, OpenFiles
  <2> QED
    BY <2>0, <2>2, <2>4, <2>5, ReadableIs
<1> QED
  BY <1>1, LogInvariant, PTL

(* A subscription that waits has sent everything that is due up to its        *)
(* cursor, the cursor's own number included when it was there at the start,   *)
(* as long as its reads missed no file: the history is sent whole, and what   *)
(* is written later is in the file that is read last and line by line, so     *)
(* that no number is overtaken.                                               *)
THEOREM SubscriptionHasNoGap == Spec => []NoGap
<1>1. LogInv => NoGap
  <2> SUFFICES ASSUME LogInv, sub.pc = "wait", Sound,
                      NEW e \in Readable, Due(e), e.seq <= sub.last
               PROVE  e.id \in sub.got
    BY DEF NoGap
  <2>1. LogType /\ OwedInv /\ sub.batch = {}
    BY DEF LogInv, SubInv
  <2>2. sub.last \in Int /\ e.seq \in Nat
    BY <2>1, SubType, ReadableIs DEF Read, Placed
  <2>3. Due(e) /\ ~(e.seq > sub.last)
    BY <2>2
  <2> QED
    BY <2>1, <2>3 DEF OwedInv
<1> QED
  BY <1>1, LogInvariant, PTL
=============================================================================
