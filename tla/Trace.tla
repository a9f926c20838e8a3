-------------------------------- MODULE Trace --------------------------------
(***************************************************************************)
(* The trace of a session: subsystems send entries over an unbounded       *)
(* channel without waiting, a task of its own keeps the last of them in    *)
(* memory and appends all of them to a file.                               *)
(***************************************************************************)
EXTENDS Naturals, Sequences, FiniteSetsExt

CONSTANTS
  RingSizes,      \* values of max_ring_size
  MaxEntries      \* bound: entries traced

VARIABLES
  traceSize,      \* max_ring_size
  traceSent,      \* entries traced so far
  traceChannel,   \* tx / rx
  traceRing,      \* ring
  traceEntry,     \* the entry whose line is still to be written, 0 for none
  traceFile,      \* "opening", "open", "none" or "flushed"
  traceLines,     \* history: the lines written
  traceSkipped,   \* history: entries that could not be serialized
  traceClosed     \* every handle has been dropped

traceVars == <<traceSize, traceSent, traceChannel, traceRing, traceEntry, traceFile,
               traceLines, traceSkipped, traceClosed>>

Init ==
  /\ traceSize \in RingSizes /\ traceSent = 0 /\ traceChannel = <<>> /\ traceRing = <<>>
  /\ traceEntry = 0 /\ traceFile = "opening" /\ traceLines = <<>> /\ traceSkipped = {}
  /\ traceClosed = FALSE

\* trace: from the caller's side nothing can fail.
trace ==
  /\ ~traceClosed /\ traceSent < MaxEntries
  /\ traceSent' = traceSent + 1
  /\ traceChannel' = Append(traceChannel, traceSent')
  /\ UNCHANGED <<traceSize, traceRing, traceEntry, traceFile, traceLines, traceSkipped, traceClosed>>

\* The task opens the file, or goes on without one: no directory, or an error.
Open ==
  /\ traceFile = "opening"
  /\ traceFile' \in {"open", "none"}
  /\ UNCHANGED <<traceSize, traceSent, traceChannel, traceRing, traceEntry, traceLines,
                 traceSkipped, traceClosed>>

\* Mutant: the oldest entry leaves one entry too late.
push_OffByOne(ring, e) == Append(IF Len(ring) > traceSize THEN Tail(ring) ELSE ring, e)

\* pop_front if full, then push_back; pop_front on an empty ring does nothing.
push(ring, e) ==
  Append(IF Len(ring) >= traceSize /\ ring # <<>> THEN Tail(ring) ELSE ring, e)

Consume ==
  /\ traceFile # "opening" /\ traceEntry = 0 /\ traceChannel # <<>>
  /\ traceRing' = push(traceRing, Head(traceChannel))
  /\ traceEntry' = IF traceFile = "open" THEN Head(traceChannel) ELSE 0
  /\ traceChannel' = Tail(traceChannel)
  /\ UNCHANGED <<traceSize, traceSent, traceFile, traceLines, traceSkipped, traceClosed>>

\* The entry cannot be serialized: an error is logged and the file goes on.
Skip ==
  /\ traceEntry # 0
  /\ traceSkipped' = traceSkipped \cup {traceEntry} /\ traceEntry' = 0
  /\ UNCHANGED <<traceSize, traceSent, traceChannel, traceRing, traceFile, traceLines, traceClosed>>

\* Mutant: the file is kept after a failed write.
Write_KeepsFile ==
  /\ traceEntry # 0 /\ traceEntry' = 0
  /\ \/ traceLines' = Append(traceLines, traceEntry) /\ UNCHANGED traceFile
     \/ UNCHANGED <<traceFile, traceLines>>
  /\ UNCHANGED <<traceSize, traceSent, traceChannel, traceRing, traceSkipped, traceClosed>>

\* write_all succeeds, or fails and the file is given up.
Write ==
  /\ traceEntry # 0 /\ traceEntry' = 0
  /\ \/ traceLines' = Append(traceLines, traceEntry) /\ UNCHANGED traceFile
     \/ traceFile' = "none" /\ UNCHANGED traceLines
  /\ UNCHANGED <<traceSize, traceSent, traceChannel, traceRing, traceSkipped, traceClosed>>

\* The last handle goes; what was sent before is still consumed, and then flushed.
Close ==
  /\ ~traceClosed /\ traceClosed' = TRUE
  /\ UNCHANGED <<traceSize, traceSent, traceChannel, traceRing, traceEntry, traceFile, traceLines,
                 traceSkipped>>

Flush ==
  /\ traceClosed /\ traceFile = "open" /\ traceEntry = 0 /\ traceChannel = <<>>
  /\ traceFile' = "flushed"
  /\ UNCHANGED <<traceSize, traceSent, traceChannel, traceRing, traceEntry, traceLines,
                 traceSkipped, traceClosed>>

Next == trace \/ Open \/ Consume \/ Skip \/ Write \/ Close \/ Flush

\* recent: the newest first.
recent(count) ==
  [i \in 1..Min({count, Len(traceRing)}) |-> traceRing[Len(traceRing) + 1 - i]]

-----------------------------------------------------------------------------
\* The ring, the file and the channel keep to what the task can make of them.
TypeOK ==
  /\ traceFile \in {"opening", "open", "none", "flushed"}
  /\ traceEntry \in 0..traceSent /\ traceClosed \in BOOLEAN
  /\ traceRing \in Seq(1..MaxEntries) /\ traceChannel \in Seq(1..MaxEntries)

Consumed == traceSent - Len(traceChannel)

\* handle.rs: recent returns the most recent entries first, up to count of them, out of
\* the max_ring_size newest consumed (the newest one when that size is 0).
RecentIsNewest ==
  \A count \in 0..(MaxEntries + 1) :
    LET kept == Min({count, Consumed, IF traceSize = 0 THEN 1 ELSE traceSize}) IN
    recent(count) = [i \in 1..kept |-> Consumed + 1 - i]

\* logger.rs: the file holds every entry from the first to the write that failed, in
\* order, but for those that could not be serialized; flushed, it holds all of them.
FileHoldsPrefix ==
  /\ \A i \in 1..Len(traceLines) : \A e \in 1..traceLines[i] :
       e \in traceSkipped \/ \E j \in 1..i : traceLines[j] = e
  /\ \A i, j \in DOMAIN traceLines : i < j => traceLines[i] < traceLines[j]
  /\ traceFile = "flushed" => Len(traceLines) + Cardinality(traceSkipped) = traceSent

=============================================================================
