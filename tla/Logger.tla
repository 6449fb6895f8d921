------------------------------- MODULE Logger -------------------------------
(***************************************************************************)
(* The structured log (logger/mod.rs): a process queues records for its    *)
(* writer thread, which rotates the retained files and appends to the      *)
(* active one, step by step, while `wardoff --log` of another process      *)
(* reads them.  Every file system call may fail, and the process may end   *)
(* at any point; the next one finds the files as it left them.             *)
(*                                                                         *)
(* A record is its number.  A text (a file, or what the reader holds) is   *)
(* the sequence of its records, each with whether the end of its line has  *)
(* followed: the code writes the two separately, and a record without it   *)
(* shares its line with the next.  A reader that meets the end of the file *)
(* between the two takes the end of line, when it comes, for an empty      *)
(* line.  Sizes are counted in records.  File 0 is the active one, file i  *)
(* is wardoff.i.                                                           *)
(***************************************************************************)
EXTENDS Integers, Sequences, FiniteSets, FiniteSetsExt, Functions

CONSTANTS
  MaxLogFiles,    \* MAX_LOG_FILES
  MaxLogRecords,  \* MAX_LOG_BYTES
  FullFiles,      \* files that earlier processes have filled
  Limit,          \* lines `wardoff --log` asks for
  MaxEvents       \* bound: records queued

ASSUME LogAssumption ==
  /\ MaxLogFiles \in Nat \ {0, 1} /\ MaxLogRecords \in Nat \ {0} /\ FullFiles \in 0..MaxLogFiles
  /\ Limit \in Nat \ {0} /\ MaxEvents \in Nat /\ FullFiles * MaxLogRecords <= MaxEvents

VARIABLES
  app,       \* "off", "on", "join" (in shutdown_structured_logging), "ended"
  queue,     \* the channel to the writer thread
  at,        \* where the writer thread is
  index,     \* the file rotate_logs is about to rename
  files,     \* external: the files on disk
  events,    \* history: records queued so far, by all processes
  written,   \* history: the records appended, in order
  failed,    \* history: records whose write failed, whose process ended, or that came too late
  cut,       \* history: a rotation stopped half way
  torn,      \* history: a record was appended without the end of its line
  reader,    \* where the reading command is
  position,  \* the file it looks at
  unread,    \* external: what its file got since it met the end of the file
  lines,     \* what it has read
  known,     \* history: Len(written) when it started
  quiet      \* history: no rotation has touched the files since

writerVars == <<app, queue, at, index, files, events, written, failed, cut, torn>>
readerVars == <<reader, position, unread, lines, known, quiet>>
vars == <<writerVars, readerVars>>

Stop     == 0       \* LogCommand::Shutdown in the queue
Oldest   == MaxLogFiles - 1
Indices  == 0..Oldest
Entries  == [record : 1..MaxEvents, ended : BOOLEAN]
NoFile   == <<[record |-> 0, ended |-> FALSE]>>

\* An empty line, and what a reader's line can be.
Blank == [record |-> 0, ended |-> TRUE]
Lines == Entries \cup {Blank}

Exists(i)     == files[i] # NoFile
Text(i)       == IF Exists(i) THEN files[i] ELSE <<>>
Size(i)       == Len(Text(i))
Records(text) == [n \in DOMAIN text |-> text[n].record]

\* The k-th file that was filled.
FullFile(k) ==
  [n \in 1..MaxLogRecords |-> [record |-> (k - 1) * MaxLogRecords + n, ended |-> TRUE]]

Init ==
  /\ app = "off" /\ queue = <<>> /\ at = "gone" /\ index = 0
  /\ files = [i \in Indices |-> IF i < FullFiles THEN FullFile(FullFiles - i) ELSE NoFile]
  /\ events = FullFiles * MaxLogRecords
  /\ written = [n \in 1..(FullFiles * MaxLogRecords) |-> n] /\ failed = {} /\ cut = FALSE /\ torn = FALSE
  /\ reader = "idle" /\ position = 0 /\ unread = <<>> /\ lines = <<>> /\ known = 0 /\ quiet = FALSE

-----------------------------------------------------------------------------
(***************************************************************************)
(* The logging process.                                                    *)
(***************************************************************************)
\* initialize_structured_logging
Initialize ==
  /\ app = "off"
  /\ app' = "on" /\ at' = "recv"
  /\ UNCHANGED <<queue, index, files, events, written, failed, cut, torn, readerVars>>

\* log_event: what is sent behind Shutdown, or when the writer is gone, reaches nobody.
LogEvent ==
  /\ app # "off" /\ events < MaxEvents
  /\ events' = events + 1
  /\ \/ app = "on" /\ queue' = Append(queue, events + 1) /\ UNCHANGED failed
     \/ app # "on" /\ failed' = failed \cup {events + 1} /\ UNCHANGED queue
  /\ UNCHANGED <<app, at, index, files, written, cut, torn, readerVars>>

\* Mutant: the writer is joined without being told to stop.
ShutdownSilently ==
  /\ app = "on"
  /\ app' = "join"
  /\ UNCHANGED <<queue, at, index, files, events, written, failed, cut, torn, readerVars>>

\* shutdown_structured_logging: the writer is told behind everything queued ...
Shutdown ==
  /\ app = "on"
  /\ app' = "join"
  /\ queue' = Append(queue, Stop)
  /\ UNCHANGED <<at, index, files, events, written, failed, cut, torn, readerVars>>

\* ... and joined.
Join ==
  /\ app = "join" /\ at = "gone"
  /\ app' = "ended"
  /\ UNCHANGED <<queue, at, index, files, events, written, failed, cut, torn, readerVars>>

\* The process ends in order, or is ended wherever its writer is; the next may start.
EndProcess ==
  /\ app \in {"on", "join", "ended"}
  /\ app' = "off" /\ queue' = <<>> /\ at' = "gone" /\ index' = 0
  /\ failed' = failed \cup {x \in Range(queue) : x # Stop}
  /\ cut' = (cut \/ at \in {"remove", "rename"})
  /\ torn' = (torn \/ at = "newline")
  /\ UNCHANGED <<files, events, written, readerVars>>

-----------------------------------------------------------------------------
(***************************************************************************)
(* The writer thread: run_writer_loop and write_record.                    *)
(***************************************************************************)
\* write_record returns; its record leaves the queue.
Finish(result) ==
  /\ at' = "recv" /\ index' = 0
  /\ queue' = Tail(queue)
  /\ failed' = IF result = "Ok" THEN failed ELSE failed \cup {Head(queue)}

\* A record, whose directories are there or are created, or Shutdown.
Receive ==
  /\ at = "recv" /\ queue # <<>>
  /\ \/ /\ Head(queue) = Stop
        /\ at' = "gone" /\ queue' = Tail(queue) /\ UNCHANGED <<index, failed>>
     \/ /\ Head(queue) # Stop
        /\ \/ at' = "check" /\ UNCHANGED <<index, queue, failed>>
           \/ Finish("Err")
  /\ UNCHANGED <<app, files, events, written, cut, torn, readerVars>>

\* rotate_if_needed
RotateIfNeeded ==
  /\ at = "check"
  /\ \/ /\ Size(0) + 1 <= MaxLogRecords
        /\ at' = "append" /\ UNCHANGED <<index, queue, failed>>
     \/ /\ Size(0) + 1 > MaxLogRecords
        /\ at' = "remove" /\ UNCHANGED <<index, queue, failed>>
     \/ Finish("Err")
  /\ UNCHANGED <<app, files, events, written, cut, torn, readerVars>>

\* Mutant: the files are renamed from the active one on.
RemoveThenActive ==
  /\ at = "remove"
  /\ files' = [files EXCEPT ![Oldest] = NoFile]
  /\ at' = "rename" /\ index' = 0
  /\ quiet' = FALSE
  /\ UNCHANGED <<app, queue, events, written, failed, cut, torn, reader, position, unread, lines, known>>

\* rotate_logs: the oldest file goes ...
RemoveOldest ==
  /\ at = "remove"
  /\ \/ /\ files' = [files EXCEPT ![Oldest] = NoFile]
        /\ at' = "rename" /\ index' = Oldest - 1
        /\ quiet' = FALSE
        /\ UNCHANGED <<queue, failed, cut>>
     \/ Finish("Err") /\ cut' = TRUE /\ UNCHANGED <<files, quiet>>
  /\ UNCHANGED <<app, events, written, torn, reader, position, unread, lines, known>>

\* Mutant: the files are copied.
RenameCopies ==
  /\ at = "rename"
  /\ files' = IF Exists(index) THEN [files EXCEPT ![index + 1] = files[index]] ELSE files
  /\ quiet' = FALSE
  /\ IF index = 0 THEN at' = "append" /\ UNCHANGED index
                  ELSE index' = index - 1 /\ UNCHANGED at
  /\ UNCHANGED <<app, queue, events, written, failed, cut, torn, reader, position, unread, lines, known>>

\* The command reads the active file and has met its end; renamed, the file stays open.
Following == reader = "tail" /\ position = 0

\* ... and each of the others becomes the next older one, the active file last.
Rename ==
  /\ at = "rename"
  /\ \/ /\ files' = IF Exists(index)
                    THEN [files EXCEPT ![index] = NoFile, ![index + 1] = files[index]]
                    ELSE files
        /\ quiet' = FALSE
        /\ position' = IF Following /\ index = 0 THEN 1 ELSE position
        /\ IF index = 0 THEN at' = "append" /\ UNCHANGED index
                        ELSE index' = index - 1 /\ UNCHANGED at
        /\ UNCHANGED <<queue, failed, cut>>
     \/ Finish("Err") /\ cut' = TRUE /\ UNCHANGED <<files, quiet, position>>
  /\ UNCHANGED <<app, events, written, torn, reader, unread, lines, known>>

\* The active file is created if it is missing, and the record appended; it may be created
\* and the write fail ...
AppendRecord ==
  LET entry == [record |-> Head(queue), ended |-> FALSE] IN
  /\ at = "append"
  /\ \/ /\ files' = [files EXCEPT ![0] = Append(Text(0), entry)]
        /\ unread' = IF Following THEN Append(unread, entry) ELSE unread
        /\ written' = Append(written, Head(queue))
        /\ at' = "newline"
        /\ UNCHANGED <<index, queue, failed>>
     \/ /\ files' \in {files, [files EXCEPT ![0] = Text(0)]}
        /\ Finish("Err") /\ UNCHANGED <<written, unread>>
  /\ UNCHANGED <<app, events, cut, torn, reader, position, lines, known, quiet>>

\* The text after the end of its last line was written; the line may have been read before.
EndLine(text) == IF text = <<>> THEN <<Blank>> ELSE [text EXCEPT ![Len(text)].ended = TRUE]

\* ... and after it, with a write of its own, the end of its line.
AppendNewLine ==
  /\ at = "newline"
  /\ \/ /\ files' = [files EXCEPT ![0] = EndLine(Text(0))]
        /\ unread' = IF Following THEN EndLine(unread) ELSE unread
        /\ Finish("Ok") /\ UNCHANGED torn
     \/ Finish("Err") /\ torn' = TRUE /\ UNCHANGED <<files, unread>>
  /\ UNCHANGED <<app, events, written, cut, reader, position, lines, known, quiet>>

WriterStep ==
  \/ Receive \/ RotateIfNeeded \/ RemoveOldest \/ Rename \/ AppendRecord \/ AppendNewLine

-----------------------------------------------------------------------------
(***************************************************************************)
(* wardoff --log.                                                          *)
(***************************************************************************)
\* read_recent_lines starts with the oldest file.
StartReading ==
  /\ reader \in {"idle", "done", "failed"}
  /\ reader' = "inspect" /\ position' = Oldest
  /\ lines' = <<>> /\ known' = Len(written) /\ quiet' = TRUE
  /\ UNCHANGED <<writerVars, unread>>

NextFile ==
  IF position = 0 THEN reader' = "done" /\ UNCHANGED position
                  ELSE reader' = "inspect" /\ position' = position - 1

ReadFails == reader' = "failed" /\ position' = 0 /\ unread' = <<>> /\ lines' = <<>>

\* log_file_metadata_if_exists: a file that is not there is passed over ...
InspectFile ==
  /\ reader = "inspect"
  /\ \/ ~Exists(position) /\ NextFile /\ UNCHANGED <<unread, lines>>
     \/ Exists(position) /\ reader' = "open" /\ UNCHANGED <<position, unread, lines>>
     \/ ReadFails
  /\ UNCHANGED <<writerVars, known, quiet>>

\* BufRead::lines: the last line of a file ends with the file.
LinesOf(file) ==
  [n \in DOMAIN file |-> [file[n] EXCEPT !.ended = @ \/ n = Len(file)]]

\* The lines that begin after the first k entries of a text.
LinesAfter(k, text) == Cardinality({i \in (k + 1)..Len(text) : text[i].ended})

\* As much of a text as its n newest lines hold.
Newest(n, text) ==
  SubSeq(text, Min({k \in 0..Len(text) : LinesAfter(k, text) <= n}) + 1, Len(text))

\* The reader has met the end of a text: the iterator has returned an unfinished last line
\* like any other and asks for more of the active file, which is the last one.
EndReached(text, next) ==
  IF text # <<>> /\ ~text[Len(text)].ended /\ position = 0
  THEN reader' = "tail" /\ UNCHANGED position ELSE next

\* Mutant: the lines of a file go before the ones read so far.
ReadInFront ==
  /\ reader = "open"
  /\ \/ /\ Exists(position)
        /\ lines' = Newest(Limit, LinesOf(files[position]) \o lines)
        /\ EndReached(files[position], NextFile)
        /\ UNCHANGED unread
     \/ ReadFails
  /\ UNCHANGED <<writerVars, known, quiet>>

\* Mutant: reading stops when there are enough lines.
ReadUntilFull ==
  /\ reader = "open"
  /\ \/ /\ Exists(position)
        /\ lines' = IF LinesAfter(0, lines) = Limit
                    THEN lines ELSE Newest(Limit, lines \o LinesOf(files[position]))
        /\ EndReached(files[position], NextFile)
        /\ UNCHANGED unread
     \/ ReadFails
  /\ UNCHANGED <<writerVars, known, quiet>>

\* ... one that has gone since is an error, and of the lines the newest are kept.  Up to the
\* first end of the file it meets the iterator returns what the file holds then: a rotated
\* file no longer changes, and to the active one is only appended.
ReadFile ==
  /\ reader = "open"
  /\ \/ /\ Exists(position)
        /\ lines' = Newest(Limit, lines \o LinesOf(files[position]))
        /\ EndReached(files[position], NextFile)
        /\ UNCHANGED unread
     \/ ReadFails
  /\ UNCHANGED <<writerVars, known, quiet>>

\* The iterator goes on behind the unfinished line, until there is nothing more.
ReadTail ==
  /\ reader = "tail"
  /\ \/ /\ lines' = Newest(Limit, lines \o LinesOf(unread))
        /\ EndReached(unread, reader' = "done" /\ UNCHANGED position)
        /\ unread' = <<>>
     \/ ReadFails
  /\ UNCHANGED <<writerVars, known, quiet>>

ReaderStep == InspectFile \/ ReadFile \/ ReadTail

-----------------------------------------------------------------------------
Next ==
  \/ Initialize \/ LogEvent \/ Shutdown \/ Join \/ EndProcess \/ WriterStep
  \/ StartReading \/ ReaderStep

Spec == Init /\ [][Next]_vars

\* The threads of a process keep running until it is ended.
FairSpec == Spec /\ WF_vars(WriterStep) /\ WF_vars(Join)

-----------------------------------------------------------------------------
\* The variables' types; the writer works on the head of its queue.
TypeOK ==
  /\ app \in {"off", "on", "join", "ended"}
  /\ at \in {"gone", "recv", "check", "remove", "rename", "append", "newline"}
  /\ queue \in Seq(0..MaxEvents) /\ index \in Indices
  /\ files \in [Indices -> Seq(Entries) \cup {NoFile}]
  /\ events \in 0..MaxEvents /\ written \in Seq(1..MaxEvents) /\ failed \subseteq 1..MaxEvents
  /\ cut \in BOOLEAN /\ torn \in BOOLEAN
  /\ reader \in {"idle", "inspect", "open", "tail", "done", "failed"} /\ position \in Indices
  /\ unread \in Seq(Lines) /\ lines \in Seq(Lines) /\ known \in Nat /\ quiet \in BOOLEAN
  /\ at \notin {"gone", "recv"} => queue # <<>> /\ Head(queue) # Stop

\* Sequences, put one after the other.
Concatenation(seqs) ==
  LET first[n \in 0..Len(seqs)] == IF n = 0 THEN <<>> ELSE first[n - 1] \o seqs[n]
  IN  first[Len(seqs)]

LastOf(n, s) == IF Len(s) <= n THEN s ELSE SubSeq(s, Len(s) - n + 1, Len(s))

\* The records in the retained files, oldest first.
Retained == Concatenation([i \in 1..MaxLogFiles |-> Records(Text(MaxLogFiles - i))])

\* At every moment, half way through a rotation and after a crash in it too, the files hold
\* the newest records in the order they were written: nothing is duplicated, and nothing in
\* between is missing.
RetainsSuffix == Retained = LastOf(Len(Retained), written)

\* As long as no rotation failed or was interrupted, all full files but the oldest survive:
\* never fewer than MaxLogFiles - 1 files of records are left.  No file outgrows the limit,
\* after a failed rotation neither.
RetentionBounds ==
  /\ ~cut => Len(Retained) >= MaxLogRecords * (MaxLogFiles - 1) \/ Len(Retained) = Len(written)
  /\ \A i \in Indices : Size(i) <= MaxLogRecords

\* When shutdown_structured_logging has returned, everything queued before it was written,
\* or its write has failed.
Flushed == app = "ended" => 1..events \subseteq Range(written) \cup failed

\* shutdown_structured_logging returns, and only then.
ShutdownFlushes ==
  /\ app = "join" ~> app # "join"
  /\ []Flushed

\* Whatever rotates meanwhile, the records that are read are in order and none comes twice,
\* and with the empty lines among them they are on no more lines than were asked for; each
\* has a line of its own unless the end of a line was not written.
TailInOrder ==
  /\ \A i, j \in DOMAIN lines : i < j /\ lines[j] # Blank => lines[i].record < lines[j].record
  /\ LinesAfter(0, lines) <= Limit
  /\ torn \/ \A i \in DOMAIN lines : lines[i].ended

\* With no rotation in between, what is printed are the newest of the records retained at
\* some moment since the command was started: from one on all of them, and from the first
\* on unless the lines asked for are used up.  A line is empty only if the one before it,
\* printed or not, is of a record that was not complete when the command was started.
TailIsNewest ==
  LET dropped == Len(written) - Len(Retained) IN
  reader = "done" /\ quiet /\ ~torn =>
    \E n \in known..Len(written) : \E m \in dropped..n :
      /\ {lines[i].record : i \in DOMAIN lines} \ {Blank.record} = {written[x] : x \in (m + 1)..n}
      /\ m = dropped \/ Len(lines) = Limit
      /\ \A i \in DOMAIN lines : lines[i] = Blank =>
           IF i = 1 THEN m >= known
           ELSE \E x \in DOMAIN written : x \in known..n /\ lines[i - 1].record = written[x]
=============================================================================
