--------------------------- MODULE DurableEventLog ---------------------------
(* The durable event log (src/internal/runtime/durable_event_log.go): events *)
(* appended to files as JSON lines, sequence numbers that are recovered from *)
(* the files after a restart, an index of what this process has written,     *)
(* retention, and subscriptions that resume from a cursor.                   *)
(*                                                                           *)
(* One RWMutex guards the log, so an operation on it is one step. A line is  *)
(* the event it holds, or Garbled when a write that was cut short left bytes *)
(* without a newline and the next line was appended to them. Sizes count     *)
(* lines. Events pass ValidateEvent.                                         *)
EXTENDS Naturals, Integers, Sequences, FiniteSets, SequencesExt

CONSTANTS Events,            \* event ids
          Matching,          \* the events the subscription's filter accepts
          MaxEventsPerFile,
          MaxTotalSize,
          Radix,             \* of the numbers in file names; 10 in the code
          MaxFiles,          \* bound: log files created
          Starts,            \* the counters a log that lost its files may have
          Cursors,           \* the cursors clients resume from
          Garbled,
          None

ASSUME LogAssumption ==
    /\ Matching \subseteq Events
    /\ Garbled \notin [id: Events, seq: Nat]
    /\ MaxEventsPerFile \in Nat \ {0}
    /\ MaxTotalSize \in Nat \ {0}
    /\ Radix \in Nat \ {0, 1}
    /\ MaxFiles \in Nat
    /\ Starts \subseteq Nat
    /\ Cursors \subseteq Nat \union {-1}

VARIABLES dir,        \* the files, in the order they were created
          logFiles,   \* the files loadExistingFiles found, less those cleaned
          seqCounter,
          index,      \* per event the file and the line it was written to
          status,     \* "open", "stuck" (in rotateFile), "closed"
          sub,        \* a subscription and its goroutine
          blind       \* history: a start overlooked numbers it gives again

vars == <<dir, logFiles, seqCounter, index, status, sub, blind>>

(* A file: the counter in its name, its lines, how many of them are on disk  *)
(* for certain, whether it ends in a broken line, whether the tracked size   *)
(* is behind the real one, and whether it still exists.                      *)
File(n) == [first |-> n, lines |-> <<>>, synced |-> 0, torn |-> FALSE,
            skewed |-> FALSE, exists |-> TRUE]

Current == Len(dir)

(* The last two fields are history: the counter when the subscription read    *)
(* what was there, and whether a read of it missed events of a file.         *)
NoSub == [pc |-> "off", live |-> FALSE, batch |-> {}, last |-> 0,
          start |-> 0, got |-> {}, known |-> 0, missed |-> FALSE]

(*****************************************************************************)
(* Names and their order: os.ReadDir sorts by name, a name carries the       *)
(* counter in digits and then the time of creation.                          *)

Digits[n \in Nat] ==
    IF n < Radix THEN <<n>> ELSE Append(Digits[n \div Radix], n % Radix)

DigitsBefore(d, e) ==
    \/ IsStrictPrefix(d, e)
    \/ \E i \in 1..Len(d) :
          /\ i <= Len(e)
          /\ d[i] < e[i]
          /\ \A j \in 1..(i - 1) : d[j] = e[j]

NameBefore(f, g) ==
    LET d == Digits[dir[f].first]
        e == Digits[dir[g].first]
    IN  DigitsBefore(d, e) \/ (d = e /\ f < g)

(* Reading goes through the older files by name, then the current one, and   *)
(* through a file line by line.                                              *)
ReadBefore(d, e) ==
    \/ d.file = e.file /\ d.line < e.line
    \/ /\ d.file # e.file
       /\ e.file = Current \/ (d.file # Current /\ NameBefore(d.file, e.file))

(*****************************************************************************)
(* Reading.                                                                  *)

IsEntry(line) == line # Garbled

(* readEventsFromFile: what parses, each entry with its place.               *)
ReadEventsFromFile(f) ==
    {[id |-> dir[f].lines[i].id, seq |-> dir[f].lines[i].seq, file |-> f, line |-> i] :
        i \in {n \in 1..Len(dir[f].lines) : dir[f].exists /\ IsEntry(dir[f].lines[n])}}

(* The files ReadEventsSince goes through: the older ones and the current.   *)
OpenFiles == logFiles \union {Current}

(* Mutant: the files are read, the one being written is not.                 *)
ReadEventsSince_Closed(from, F) ==
    {e \in UNION {ReadEventsFromFile(f) : f \in F \ {Current}} : e.seq >= from}

(* ReadEventsSince without a limit, when the files F can be read: any other  *)
(* is passed over with a warning. The entries come in the order ReadBefore.  *)
ReadEventsSince(from, F) ==
    {e \in UNION {ReadEventsFromFile(f) : f \in F} : e.seq >= from}

(* readLastEventFromFile: the number of the last line that parses.           *)
ReadLastEventFromFile(f) ==
    LET parsed == {i \in 1..Len(f.lines) : IsEntry(f.lines[i])}
    IN  IF parsed = {} THEN -1 ELSE f.lines[Max(parsed)].seq

(* findEventInFile.                                                          *)
FindEventInFile(f, id) == \E e \in ReadEventsFromFile(f) : e.id = id

(* readEventFromFile: the bytes at an offset. The offset is computed from    *)
(* the tracked size, which misses what a failed write left behind.           *)
ReadEventFromFile(at, id) ==
    /\ dir[at.file].exists /\ ~at.skewed
    /\ dir[at.file].lines[at.line] # Garbled
    /\ dir[at.file].lines[at.line].id = id

(* ReadEvent: whether the event is found. A bad index entry is an error.     *)
ReadEvent(id) ==
    IF index[id] # None THEN ReadEventFromFile(index[id], id)
    ELSE \E f \in logFiles : FindEventInFile(f, id)

GetCursor == IF status = "closed" THEN -1 ELSE seqCounter - 1

(* getTotalSize.                                                             *)
GetTotalSize ==
    Len(FlattenSeq([f \in 1..Len(dir) |->
        IF f \in logFiles \/ f = Current THEN dir[f].lines ELSE <<>>]))

(*****************************************************************************)
(* Writing.                                                                  *)

NeedsRotation == Len(dir[Current].lines) >= MaxEventsPerFile

Appended(f, line, durable) ==
    [f EXCEPT !.lines = Append(@, IF f.torn THEN Garbled ELSE line),
              !.synced = IF durable THEN Len(f.lines) + 1 ELSE @,
              !.torn = FALSE]

(* WriteEvent, the write itself: done, or failed with nothing or with a part *)
(* of the line in the file. With SyncWrites it is synced at once, unless     *)
(* that fails, which goes unnoticed.                                         *)
WriteEvent(id) ==
    /\ status = "open" /\ GetTotalSize < MaxTotalSize /\ ~NeedsRotation
    /\ \E durable \in BOOLEAN :
          dir' = [dir EXCEPT ![Current] =
                     Appended(@, [id |-> id, seq |-> seqCounter], durable)]
    /\ seqCounter' = seqCounter + 1
    /\ index' = [index EXCEPT ![id] =
                    [file |-> Current, line |-> Len(dir[Current].lines) + 1,
                     skewed |-> dir[Current].skewed]]
    /\ UNCHANGED <<logFiles, status, sub, blind>>

WriteEventFails ==
    /\ status = "open" /\ GetTotalSize < MaxTotalSize /\ ~NeedsRotation
    /\ dir' = [dir EXCEPT ![Current].torn = TRUE, ![Current].skewed = TRUE]
    /\ UNCHANGED <<logFiles, seqCounter, index, status, sub, blind>>

(* rotateFile, called by WriteEvent with the mutex held: createNewFile locks *)
(* the same mutex, so neither returns, and nobody gets the mutex again.      *)
RotateFile ==
    /\ status = "open" /\ GetTotalSize < MaxTotalSize /\ NeedsRotation
    /\ status' = "stuck"
    /\ UNCHANGED <<dir, logFiles, seqCounter, index, sub, blind>>

(* flushToDisk.                                                              *)
FlushToDisk ==
    /\ status = "open"
    /\ dir' = [dir EXCEPT ![Current].synced = Len(dir[Current].lines)]
    /\ UNCHANGED <<logFiles, seqCounter, index, status, sub, blind>>

(* cleanupOldFiles: files past the retention time, which only what existed   *)
(* at the start can be, unless removing them fails.                          *)
CleanupOldFiles ==
    /\ status = "open"
    /\ \E old \in SUBSET logFiles \ {{}} :
          /\ dir' = [f \in 1..Len(dir) |->
                        IF f \in old THEN [dir[f] EXCEPT !.exists = FALSE]
                                     ELSE dir[f]]
          /\ logFiles' = logFiles \ old
    /\ UNCHANGED <<seqCounter, index, status, sub, blind>>

Close ==
    /\ status = "open"
    /\ status' = "closed"
    /\ logFiles' = {}
    /\ index' = [id \in Events |-> None]
    /\ UNCHANGED <<dir, seqCounter, sub, blind>>

(*****************************************************************************)
(* Crash and restart.                                                        *)

(* What a crash may leave of the current file: at least what was synced. A   *)
(* line that is cut stays the last one of its file, and parses as nothing.   *)
Survivors(f) ==
    {[f EXCEPT !.lines = SubSeq(@, 1, n), !.synced = n, !.torn = FALSE,
               !.skewed = FALSE] : n \in f.synced..Len(f.lines)}

(* Mutant: a file whose last line does not parse is skipped.                 *)
LoadExistingFiles_LastLineOnly(d, S) ==
    Max({-1} \union {Last(d[f].lines).seq :
            f \in {g \in S : d[g].lines # <<>> /\ IsEntry(Last(d[g].lines))}}) + 1

(* loadExistingFiles: one more than the largest last sequence number of the  *)
(* files S whose last line could be read.                                    *)
LoadExistingFiles(d, S) ==
    Max({-1} \union {ReadLastEventFromFile(d[f]) : f \in S}) + 1

(* One of the files U holds the number n or a later one.                     *)
Overlooked(d, U, n) ==
    \E f \in U : \E i \in 1..Len(d[f].lines) :
        IsEntry(d[f].lines[i]) /\ d[f].lines[i].seq >= n

(* NewDurableEventLog in the next process. The existing files are listed     *)
(* except those without file info, none of them when the directory cannot be *)
(* read; a file that cannot be read is listed but does not count.            *)
Restart ==
    /\ Len(dir) < MaxFiles
    /\ \E last \in Survivors(dir[Current]) :
          LET d == [dir EXCEPT ![Current] = last]
              S == {f \in 1..Len(d) : d[f].exists}
          IN  \E listed \in SUBSET S : \E counted \in SUBSET listed :
                 LET n == LoadExistingFiles(d, counted)
                 IN  /\ logFiles' = listed
                     /\ seqCounter' = n
                     /\ dir' = Append(d, File(n))
                     /\ blind' = (blind \/ Overlooked(d, S \ counted, n))
    /\ index' = [id \in Events |-> None]
    /\ status' = "open"
    /\ sub' = NoSub

(*****************************************************************************)
(* SubscribeToEvents and subscriptionLoop. A read of the log is one step,    *)
(* every send to the subscriber's channel is another.                        *)

SubscribeToEvents(cursor) ==
    /\ sub.pc = "off" /\ status = "open"
    /\ sub' = [NoSub EXCEPT !.pc = "history", !.last = cursor, !.start = cursor]
    /\ UNCHANGED <<dir, logFiles, seqCounter, index, status, blind>>

(* A read of the log from a number on: the batch that is then sent.          *)
Batch(from) ==
    {[sub EXCEPT !.pc = "send", !.batch = ReadEventsSince(from, F),
                 !.missed = @ \/ ReadEventsSince(from, F) # ReadEventsSince(from, OpenFiles)] :
        F \in SUBSET OpenFiles}

ReadHistory ==
    /\ sub.pc = "history" /\ status # "stuck"
    /\ IF sub.start >= 0 /\ status = "open"
       THEN \E b \in Batch(sub.start) : sub' = [b EXCEPT !.known = seqCounter]
       ELSE sub' = [sub EXCEPT !.pc = "wait", !.live = TRUE, !.known = seqCounter]
    /\ UNCHANGED <<dir, logFiles, seqCounter, index, status, blind>>

(* Mutant: the cursor moves to the end of the log before anything is sent.   *)
Poll_CursorFirst ==
    /\ sub.pc = "wait" /\ status = "open" /\ GetCursor > sub.last
    /\ \E b \in Batch(sub.last) : sub' = [b EXCEPT !.last = GetCursor]
    /\ UNCHANGED <<dir, logFiles, seqCounter, index, status, blind>>

Poll ==
    /\ sub.pc = "wait" /\ status = "open" /\ GetCursor > sub.last
    /\ sub' \in Batch(sub.last)
    /\ UNCHANGED <<dir, logFiles, seqCounter, index, status, blind>>

Send ==
    /\ sub.pc = "send"
    /\ \E e \in sub.batch :
          LET wanted == e.id \in Matching /\ (sub.live => e.seq > sub.last)
          IN  /\ \A d \in sub.batch \ {e} : ReadBefore(e, d)
              /\ sub' = [sub EXCEPT !.batch = @ \ {e},
                                    !.last = IF wanted THEN e.seq ELSE @,
                                    !.got = IF wanted THEN @ \union {e.id} ELSE @]
    /\ UNCHANGED <<dir, logFiles, seqCounter, index, status, blind>>

EndOfBatch ==
    /\ sub.pc = "send" /\ sub.batch = {}
    /\ sub' = [sub EXCEPT !.pc = "wait", !.live = TRUE]
    /\ UNCHANGED <<dir, logFiles, seqCounter, index, status, blind>>

(* The context ends, or the log was closed.                                  *)
Unsubscribe ==
    /\ sub.pc # "off"
    /\ sub' = NoSub
    /\ UNCHANGED <<dir, logFiles, seqCounter, index, status, blind>>

(* A new log, or one whose older files retention has removed.                *)
Init ==
    /\ seqCounter \in Starts
    /\ dir = <<File(seqCounter)>>
    /\ logFiles = {}
    /\ index = [id \in Events |-> None]
    /\ status = "open"
    /\ sub = NoSub
    /\ blind = FALSE

(* Events are written once: an id is used again only if its line was lost.   *)
Written(id) ==
    \E f \in 1..Len(dir) : \E i \in 1..Len(dir[f].lines) :
        dir[f].lines[i] # Garbled /\ dir[f].lines[i].id = id

Next ==
    \/ \E id \in Events : ~Written(id) /\ WriteEvent(id)
    \/ WriteEventFails \/ RotateFile \/ FlushToDisk \/ CleanupOldFiles \/ Close
    \/ Restart
    \/ \E cursor \in Cursors : SubscribeToEvents(cursor)
    \/ ReadHistory \/ Poll \/ Send \/ EndOfBatch \/ Unsubscribe

(* The goroutine of a subscription runs, and its ticker ticks.               *)
Fairness == WF_vars(ReadHistory) /\ WF_vars(Poll) /\ WF_vars(Send) /\ WF_vars(EndOfBatch)

Spec == Init /\ [][Next]_vars /\ Fairness

(*****************************************************************************)
(* Properties.                                                               *)

(* What is there to be read.                                                 *)
Readable == ReadEventsSince(-1, OpenFiles)

(* Sequence numbers identify events: whatever a crash cut off and however    *)
(* often the log was restarted, no two events that can be read share a       *)
(* number, and the next number is larger than all of them, unless a start    *)
(* could not read a file that holds the counter's number or a later one.     *)
SequenceUnique ==
    status # "closed" /\ ~blind =>
        /\ \A e \in Readable : e.seq < seqCounter
        /\ \A e1 \in Readable, e2 \in Readable : e1.seq = e2.seq => e1 = e2

(* What this process wrote is found by its id, and is among the events a     *)
(* subscriber reads, unless an earlier write to the file failed half-way.    *)
WrittenIsFound ==
    \A id \in Events :
        status = "open" /\ index[id] # None /\ ~index[id].skewed =>
            ReadEvent(id) /\ \E e \in Readable : e.id = id

(* An event the subscription owes its client: a later number than the        *)
(* cursor's, or that very number if the event was there when the history was *)
(* read.                                                                     *)
Due(e) ==
    /\ e.id \in Matching
    /\ \/ e.seq > sub.start
       \/ e.seq = sub.start /\ (sub.pc = "history" \/ sub.start < sub.known)

(* The subscription has read all that there was, and numbers mean something. *)
Sound == sub.start >= 0 /\ status = "open" /\ ~blind /\ ~sub.missed

(* A resumed subscription has no holes: when it is waiting, it has sent      *)
(* every event due that can be read, up to the cursor it is at.              *)
NoGap ==
    sub.pc = "wait" /\ Sound =>
        \A e \in Readable : Due(e) /\ e.seq <= sub.last => e.id \in sub.got

Owed(id) ==
    /\ sub.pc # "off" /\ Sound
    /\ \E e \in Readable : e.id = id /\ Due(e)

(* An event that is due is sent in the end, unless the subscription, the log *)
(* or the event goes away first or a file cannot be read.                    *)
SentInTheEnd ==
    \A id \in Events : Owed(id) ~> (id \in sub.got \/ ~Owed(id))

===============================================================================
