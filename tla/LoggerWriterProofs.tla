------------------------- MODULE LoggerWriterProofs -------------------------
(***************************************************************************)
(* The inductive invariant of Logger, and that the steps of the processes, *)
(* their writer threads and the file system keep the parts of it that are  *)
(* about the queue, the files and the log.  Last, what is true of lines    *)
(* that show a part of a log, whoever holds them.                          *)
(***************************************************************************)
EXTENDS Logger, TLAPS

\* The queue holds records in the order of their numbers, newer than everything written,
\* except for the record whose line is being finished; Shutdown can only be its end.
QueueFits ==
  /\ \A i, j \in DOMAIN queue : i < j => queue[i] # Stop /\ (queue[j] = Stop \/ queue[i] < queue[j])
  /\ \A i \in DOMAIN queue : queue[i] <= events
  /\ \A i \in DOMAIN queue, n \in DOMAIN written :
       queue[i] # Stop => written[n] < queue[i] \/ (at = "newline" /\ i = 1 /\ n = Len(written))
  /\ at = "newline" => written # <<>> /\ written[Len(written)] = Head(queue)

\* The log's order is the order of the events.
Ordered ==
  /\ \A m, n \in DOMAIN written : m < n => written[m] < written[n]
  /\ \A n \in DOMAIN written : written[n] <= events

\* A writer that is gone has left nothing in the queue; before shutdown it is told nothing.
AppFits ==
  /\ app \in {"off", "ended"} => at = "gone"
  /\ at = "gone" => queue = <<>>
  /\ app = "on" => at # "gone" /\ \A i \in DOMAIN queue : queue[i] # Stop

\* Every event is in the log, in the queue, or known to have failed.
Accounted == 1..events \subseteq Range(written) \cup failed \cup Range(queue)

\* The files' texts, and which files there are.
Texts   == [i \in Indices |-> Text(i)]
Present == {i \in Indices : Exists(i)}

\* What the writer has made sure of on its way.
WriterFits ==
  /\ \A i \in Indices : Len(Texts[i]) <= MaxLogRecords
  /\ at = "remove" => Len(Texts[0]) = MaxLogRecords
  /\ at = "rename" => index < Oldest /\ index + 1 \notin Present
  /\ at = "append" => Len(Texts[0]) < MaxLogRecords
  /\ at = "newline" => 0 \in Present /\ Len(Texts[0]) > 0

\* Every record has a line of its own; the one being written is still to get its end.
OneToALine ==
  torn \/ \A i \in Indices : \A n \in DOMAIN Texts[i] :
            Texts[i][n].ended \/ (i = 0 /\ at = "newline" /\ n = Len(Texts[0]))

\* The files divide the end of the log among them: file i holds the records that were
\* written as numbers mark[i + 1] + 1 to mark[i].
Marks == [0..MaxLogFiles -> Nat]

Division(mark, log, texts) ==
  /\ mark[0] = Len(log)
  /\ \A i, j \in 0..MaxLogFiles : i <= j => mark[j] <= mark[i]
  /\ \A i \in Indices : Len(texts[i]) = mark[i] - mark[i + 1]
  /\ \A i \in Indices : \A n \in DOMAIN texts[i] : texts[i][n].record = log[mark[i + 1] + n]

Divides(mark) == Division(mark, written, Texts)

\* The file that a rotation has just moved on; between rotations, the active one.
Hole == IF at = "rename" THEN index + 1 ELSE 0

\* Until a rotation is cut short, the files other than Hole are full and without a gap, and
\* there are all of them once a record has been dropped.
Gapless(mark, hole, texts, present) ==
  \A i \in Indices : i # hole =>
    /\ i \in present => /\ Len(texts[i]) = MaxLogRecords
                        /\ \A j \in Indices : j <= i /\ j # hole => j \in present
    /\ mark[MaxLogFiles] > 0 => i \in present

Steady(mark) == cut \/ Gapless(mark, Hole, Texts, Present)

\* Lines of records in their order; an empty line counts as record 0.
InOrder(s) == \A i, j \in DOMAIN s : i < j /\ s[j].record # 0 => s[i].record < s[j].record

\* The reader holds records of the log that are older than those it has still to read.
ReaderFits ==
  /\ \A i \in DOMAIN lines : written # <<>> /\ lines[i].record <= written[Len(written)]
  /\ reader \in {"inspect", "open"} =>
       \A i \in DOMAIN lines : \A f \in 0..position : \A n \in DOMAIN Texts[f] :
         lines[i].record < Texts[f][n].record
  /\ known <= Len(written)

\* So is what its file got behind the end it has met; of that, only what is being written
\* is still to get the end of its line.
UnreadFits ==
  /\ reader # "tail" => unread = <<>>
  /\ InOrder(unread)
  /\ \A i \in DOMAIN unread : written # <<>> /\ unread[i].record <= written[Len(written)]
  /\ \A i \in DOMAIN lines, j \in DOMAIN unread :
       unread[j].record # 0 => lines[i].record < unread[j].record
  /\ torn \/ \A n \in DOMAIN unread :
              unread[n].ended \/ (Following /\ at = "newline" /\ n = Len(unread))

\* The lines s are of records numbered low + 1 to high in the log, and of every one of them.
Only(s, log, low, high) ==
  \A i \in DOMAIN s : s[i].record # 0 => \E x \in (low + 1)..high : s[i].record = log[x]

Every(s, log, low, high) ==
  \A x \in (low + 1)..high : \E i \in DOMAIN s : s[i].record = log[x]

\* An empty one is only behind a record that was written when the command was started, or later.
Blanks(s, log, start, low, high) ==
  \A i \in DOMAIN s : s[i].record = 0 =>
    IF i = 1 THEN low >= start
    ELSE \E x \in DOMAIN log : x \in start..high /\ s[i - 1].record = log[x]

Shown(s, log, start, low, high) ==
  Only(s, log, low, high) /\ Every(s, log, low, high) /\ Blanks(s, log, start, low, high)

\* In what follows, only the first line can be empty.
Continues(s, log, low, high) ==
  Only(s, log, low, high) /\ Every(s, log, low, high) /\ \A i \in DOMAIN s : s[i].record = 0 => i = 1

\* The lines show these records, or as many of the newest as were asked for.
Held(s, log, start, low, high) ==
  \E m \in low..high : Shown(s, log, start, m, high) /\ (m = low \/ Len(s) = Limit)

\* So they are, up to the end of the log as it was at some moment since the command was started.
HeldAll(s, log, start, low) == \E high \in start..Len(log) : high >= low /\ Held(s, log, start, low, high)

\* The last of them had no end at such a moment, and t is what was written since.
HeldTail(s, t, log, start, low) ==
  \E high \in start..Len(log) :
    /\ high >= low /\ high >= 1 /\ Held(s, log, start, low, high)
    /\ s # <<>> /\ s[Len(s)].record = log[high]
    /\ Continues(t, log, high, Len(log))

\* Undisturbed, the reader has read what is retained in the files it has passed.
CaughtUp(mark) ==
  ~quiet \/ torn \/
    /\ reader \in {"inspect", "open"} => Held(lines, written, known, mark[MaxLogFiles], mark[position + 1])
    /\ reader = "tail" => position = 0 /\ HeldTail(lines, unread, written, known, mark[MaxLogFiles])
    /\ reader = "done" => HeldAll(lines, written, known, mark[MaxLogFiles])

IInv ==
  /\ TypeOK /\ QueueFits /\ Ordered /\ AppFits /\ Accounted
  /\ WriterFits /\ OneToALine /\ ReaderFits /\ UnreadFits /\ TailInOrder
  /\ \E mark \in Marks : Divides(mark) /\ Steady(mark) /\ CaughtUp(mark)

-----------------------------------------------------------------------------
(***************************************************************************)
(* What Newest does to a text, in numbers of lines: it drops records from  *)
(* the beginning, as few as leave Limit lines.  LoggerProofs shows it from *)
(* the library's theorems about finite sets.                               *)
(***************************************************************************)
LinesCounted ==
  /\ LinesAfter(0, <<>>) <= Limit
  /\ \A t \in Seq(Lines) : \E k \in 0..Len(t) :
       /\ Newest(Limit, t) = SubSeq(t, k + 1, Len(t))
       /\ LinesAfter(0, SubSeq(t, k + 1, Len(t))) <= Limit
       /\ (\A i \in DOMAIN t : t[i].ended) => k = IF Len(t) <= Limit THEN 0 ELSE Len(t) - Limit

-----------------------------------------------------------------------------
\* The constants, as the provers need them.
LEMMA Bounds ==
  /\ MaxLogFiles \in Nat /\ MaxLogFiles >= 2 /\ MaxLogRecords \in Nat /\ MaxLogRecords >= 1
  /\ Limit \in Nat /\ Limit >= 1 /\ MaxEvents \in Nat
BY LogAssumption

USE Bounds DEF Indices, Oldest, Stop
-----------------------------------------------------------------------------
(***************************************************************************)
(* The files.                                                              *)
(***************************************************************************)
LEMMA NoFileIsNoText == NoFile \notin Seq(Entries) /\ <<>> \in Seq(Entries) /\ <<>> # NoFile
BY DEF NoFile, Entries

\* Texts and Present say what the files hold.
LEMMA TextFacts ==
  ASSUME TypeOK
  PROVE  /\ Texts \in [Indices -> Seq(Entries)] /\ Present \subseteq Indices
         /\ \A i \in Indices : i \notin Present => Texts[i] = <<>>
         /\ \A i \in Present : Texts[i] = files[i]
         /\ \A i \in Indices : Size(i) = Len(Texts[i]) /\ Text(i) = Texts[i] /\ (Exists(i) <=> i \in Present)
<1>1. \A i \in Indices : files[i] \in Seq(Entries) \/ files[i] = NoFile
  BY DEF TypeOK
<1> QED
  BY <1>1, NoFileIsNoText DEF Texts, Present, Text, Size, Exists

\* Nothing happens to the files.
LEMMA FilesKept ==
  ASSUME UNCHANGED files
  PROVE  Texts' = Texts /\ Present' = Present
BY DEF Texts, Present, Text, Exists

\* One file is written.
LEMMA FileWritten ==
  ASSUME TypeOK, NEW i \in Indices, NEW t \in Seq(Entries), files' = [files EXCEPT ![i] = t]
  PROVE  /\ files' \in [Indices -> Seq(Entries) \cup {NoFile}]
         /\ Texts' = [Texts EXCEPT ![i] = t] /\ Present' = Present \cup {i}
<1>1. files \in [Indices -> Seq(Entries) \cup {NoFile}]
  BY DEF TypeOK
<1> QED
  BY <1>1, NoFileIsNoText, Zenon DEF Texts, Present, Text, Exists

\* One file is removed.
LEMMA FileRemoved ==
  ASSUME TypeOK, NEW i \in Indices, files' = [files EXCEPT ![i] = NoFile]
  PROVE  /\ files' \in [Indices -> Seq(Entries) \cup {NoFile}]
         /\ Texts' = [Texts EXCEPT ![i] = <<>>] /\ Present' = Present \ {i}
<1>1. files \in [Indices -> Seq(Entries) \cup {NoFile}]
  BY DEF TypeOK
<1> QED
  BY <1>1, NoFileIsNoText, Zenon DEF Texts, Present, Text, Exists

\* One file becomes the next older one.
LEMMA FileRenamed ==
  ASSUME TypeOK, NEW i \in Present, i < Oldest,
         files' = [files EXCEPT ![i] = NoFile, ![i + 1] = files[i]]
  PROVE  /\ files' \in [Indices -> Seq(Entries) \cup {NoFile}]
         /\ Texts' = [Texts EXCEPT ![i] = <<>>, ![i + 1] = Texts[i]]
         /\ Present' = (Present \ {i}) \cup {i + 1}
<1>1. files \in [Indices -> Seq(Entries) \cup {NoFile}]
  BY DEF TypeOK
<1>2. i \in Indices /\ i + 1 \in Indices /\ i # i + 1 /\ files[i] # NoFile
  BY DEF Present, Exists
<1> QED
  BY <1>1, <1>2, NoFileIsNoText, Zenon DEF Texts, Present, Text, Exists

-----------------------------------------------------------------------------
(***************************************************************************)
(* Types.  Truth values and the other variables are taken apart, as they   *)
(* need different provers.                                                 *)
(***************************************************************************)
Booleans == cut \in BOOLEAN /\ torn \in BOOLEAN /\ quiet \in BOOLEAN

AppTyped ==
  /\ app \in {"off", "on", "join", "ended"}
  /\ at \in {"gone", "recv", "check", "remove", "rename", "append", "newline"}
  /\ queue \in Seq(0..MaxEvents)
  /\ events \in 0..MaxEvents /\ failed \subseteq 1..MaxEvents
  /\ at \notin {"gone", "recv"} => queue # <<>> /\ Head(queue) # Stop

FilesTyped ==
  /\ index \in Indices /\ files \in [Indices -> Seq(Entries) \cup {NoFile}]
  /\ written \in Seq(1..MaxEvents)

ReaderTyped ==
  /\ reader \in {"idle", "inspect", "open", "tail", "done", "failed"} /\ position \in Indices
  /\ unread \in Seq(Lines) /\ lines \in Seq(Lines) /\ known \in Nat

\* TypeOK, part by part.
LEMMA TypeSplit == TypeOK <=> Booleans /\ AppTyped /\ FilesTyped /\ ReaderTyped
BY DEF TypeOK, Booleans, AppTyped, FilesTyped, ReaderTyped

\* Every step keeps the types of the flags.
LEMMA BooleanStep ==
  ASSUME Booleans, Next
  PROVE  Booleans'
<1> USE DEF Booleans, writerVars, readerVars, Finish
<1>1. CASE Initialize \/ LogEvent \/ Shutdown \/ Join
  BY <1>1, Zenon DEF Initialize, LogEvent, Shutdown, Join
<1>2. CASE EndProcess
  BY <1>2, Zenon DEF EndProcess
<1>3. CASE Receive \/ RotateIfNeeded
  BY <1>3, Zenon DEF Receive, RotateIfNeeded
<1>4. CASE RemoveOldest
  BY <1>4, Zenon DEF RemoveOldest
<1>5. CASE Rename
  BY <1>5, Zenon DEF Rename
<1>6. CASE AppendRecord \/ AppendNewLine
  BY <1>6, Zenon DEF AppendRecord, AppendNewLine
<1>7. CASE StartReading
  BY <1>7, Zenon DEF StartReading
<1>8. CASE InspectFile \/ ReadFile \/ ReadTail
  BY <1>8, Zenon DEF InspectFile, ReadFile, ReadTail
<1> QED
  BY <1>1, <1>2, <1>3, <1>4, <1>5, <1>6, <1>7, <1>8, Zenon DEF Next, WriterStep, ReaderStep

\* Taking the head of the queue, as the writer does.
LEMMA TailFacts ==
  ASSUME NEW S, NEW q \in Seq(S), q # <<>>
  PROVE  /\ Tail(q) \in Seq(S) /\ Head(q) = q[1] /\ 1 \in DOMAIN q /\ q[1] \in S
         /\ Len(Tail(q)) = Len(q) - 1
         /\ \A i \in DOMAIN Tail(q) : i + 1 \in DOMAIN q /\ Tail(q)[i] = q[i + 1] /\ i \in Nat /\ i >= 1
         /\ \A i \in DOMAIN q : i # 1 => i - 1 \in DOMAIN Tail(q) /\ Tail(q)[i - 1] = q[i]
         /\ \A i \in DOMAIN q : i \in Nat /\ i >= 1
OBVIOUS

\* Putting an element at the end, as log_event does with the queue and the writer with the log.
LEMMA AppendFacts ==
  ASSUME NEW S, NEW q \in Seq(S), NEW e \in S
  PROVE  /\ Append(q, e) \in Seq(S) /\ Append(q, e) # <<>>
         /\ Len(q) \in Nat /\ DOMAIN q = 1..Len(q)
         /\ Len(Append(q, e)) = Len(q) + 1 /\ DOMAIN Append(q, e) = 1..(Len(q) + 1)
         /\ Append(q, e)[Len(q) + 1] = e
         /\ \A i \in 1..Len(q) : Append(q, e)[i] = q[i]
         /\ q # <<>> => Head(Append(q, e)) = Head(q)
<1>1. /\ Append(q, e) \in Seq(S)
      /\ Len(q) \in Nat /\ DOMAIN q = 1..Len(q)
      /\ Len(Append(q, e)) = Len(q) + 1 /\ DOMAIN Append(q, e) = 1..(Len(q) + 1)
      /\ Append(q, e)[Len(q) + 1] = e
      /\ \A i \in 1..Len(q) : Append(q, e)[i] = q[i]
  OBVIOUS
<1>2. Append(q, e) # <<>>
  BY <1>1
<1>3. q # <<>> => 1 \in 1..Len(q) /\ Head(q) = q[1]
  OBVIOUS
<1>4. Head(Append(q, e)) = Append(q, e)[1]
  BY <1>1, <1>2
<1> QED
  BY <1>1, <1>2, <1>3, <1>4

\* A function on 1..m is a sequence.
LEMMA FunctionIsSeq ==
  ASSUME NEW S, NEW m \in Nat, NEW t \in [1..m -> S]
  PROVE  t \in Seq(S) /\ Len(t) = m /\ DOMAIN t = 1..m
OBVIOUS

\* Every step keeps the types of the application and its queue.
LEMMA AppTypeStep ==
  ASSUME AppTyped, Next
  PROVE  AppTyped'
<1> USE DEF AppTyped, writerVars, readerVars
<1>1. CASE Initialize
  BY <1>1 DEF Initialize
<1>2. CASE LogEvent
  <2>1. events + 1 \in 0..MaxEvents /\ events + 1 \in 1..MaxEvents
    BY <1>2 DEF LogEvent
  <2>2. CASE app = "on"
    <3>1. queue' \in Seq(0..MaxEvents) /\ queue' # <<>> /\ (queue # <<>> => Head(queue') = Head(queue))
      <4>1. queue' = Append(queue, events + 1)
        BY <1>2, <2>2, Zenon DEF LogEvent
      <4> QED
        BY <2>1, <4>1, AppendFacts
    <3>2. events' = events + 1 /\ UNCHANGED <<app, at, failed>>
      BY <1>2, <2>2, Zenon DEF LogEvent
    <3> QED
      BY <2>1, <3>1, <3>2
  <2>3. CASE app # "on"
    <3>1. /\ events' = events + 1 /\ failed' = failed \cup {events + 1}
          /\ UNCHANGED <<app, at, queue>>
      BY <1>2, <2>3, Zenon DEF LogEvent
    <3> QED
      BY <2>1, <3>1
  <2> QED
    BY <2>2, <2>3
<1>3. CASE Shutdown
  <2>1. queue' \in Seq(0..MaxEvents) /\ queue' # <<>> /\ (queue # <<>> => Head(queue') = Head(queue))
    BY <1>3, AppendFacts DEF Shutdown
  <2> QED
    BY <1>3, <2>1 DEF Shutdown
<1>4. CASE Join
  BY <1>4 DEF Join
<1>5. CASE EndProcess
  <2>1. Range(queue) \subseteq 0..MaxEvents
    BY DEF Range
  <2>2. {x \in Range(queue) : x # Stop} \subseteq 1..MaxEvents
    BY <2>1
  <2>3. failed' \subseteq 1..MaxEvents
    BY <1>5, <2>2, Zenon DEF EndProcess
  <2>4. queue' \in Seq(0..MaxEvents)
    BY <1>5 DEF EndProcess
  <2> QED
    BY <1>5, <2>3, <2>4 DEF EndProcess
<1>6. ASSUME NEW result, Finish(result), queue # <<>>, Head(queue) # Stop, UNCHANGED <<app, events>>
      PROVE  AppTyped'
  <2>1. queue' \in Seq(0..MaxEvents) /\ Head(queue) \in 1..MaxEvents
    BY <1>6, TailFacts DEF Finish
  <2> QED
    BY <1>6, <2>1, Zenon DEF Finish
<1>7. CASE Receive
  <2>1. CASE Head(queue) = Stop
    <3>1. queue' = Tail(queue) /\ queue # <<>> /\ at' = "gone" /\ UNCHANGED <<app, events, failed>>
      BY <1>7, <2>1 DEF Receive, Finish
    <3>2. queue' \in Seq(0..MaxEvents)
      BY <3>1, TailFacts
    <3> QED
      BY <3>1, <3>2
  <2>2. CASE Head(queue) # Stop
    BY <1>6, <1>7, <2>2, Zenon DEF Receive
  <2> QED
    BY <2>1, <2>2
<1>8. CASE RotateIfNeeded
  BY <1>6, <1>8, Zenon DEF RotateIfNeeded
<1>9. CASE RemoveOldest
  BY <1>6, <1>9, Zenon DEF RemoveOldest
<1>10. CASE Rename
  BY <1>6, <1>10 DEF Rename
<1>11. CASE AppendRecord
  BY <1>6, <1>11, Zenon DEF AppendRecord
<1>12. CASE AppendNewLine
  BY <1>6, <1>12 DEF AppendNewLine
<1>13. CASE StartReading \/ InspectFile \/ ReadFile \/ ReadTail
  BY <1>13, Zenon DEF StartReading, InspectFile, ReadFile, ReadTail
<1> QED
  BY <1>1, <1>2, <1>3, <1>4, <1>5, <1>7, <1>8, <1>9, <1>10, <1>11, <1>12, <1>13
  DEF Next, WriterStep, ReaderStep

-----------------------------------------------------------------------------
(***************************************************************************)
(* What each action does to the files.                                     *)
(***************************************************************************)
\* The actions that leave the files and the log alone.
Elsewhere ==
  \/ Initialize \/ LogEvent \/ Shutdown \/ Join \/ EndProcess \/ Receive \/ RotateIfNeeded
  \/ StartReading \/ InspectFile \/ ReadFile \/ ReadTail

\* The other actions leave the files and the log alone.
LEMMA ElsewhereEffect ==
  ASSUME Elsewhere
  PROVE  UNCHANGED <<files, written>> /\ Texts' = Texts /\ Present' = Present
<1>1. UNCHANGED <<files, written>>
  BY DEF Elsewhere, Initialize, LogEvent, Shutdown, Join, EndProcess, Receive, RotateIfNeeded,
         StartReading, InspectFile, ReadFile, ReadTail, writerVars
<1> QED
  BY <1>1, FilesKept

\* rotate_logs removes the oldest file, or fails.
LEMMA RemoveEffect ==
  ASSUME TypeOK, RemoveOldest
  PROVE  /\ at = "remove" /\ UNCHANGED <<app, events, written, torn, reader, position, unread, lines, known>>
         /\ files' \in [Indices -> Seq(Entries) \cup {NoFile}]
         /\ \/ /\ Texts' = [Texts EXCEPT ![Oldest] = <<>>] /\ Present' = Present \ {Oldest}
               /\ at' = "rename" /\ index' = Oldest - 1 /\ quiet' = FALSE
               /\ UNCHANGED <<queue, failed, cut>>
            \/ /\ Texts' = Texts /\ Present' = Present
               /\ Finish("Err") /\ cut' = TRUE /\ UNCHANGED <<files, quiet>>
<1>1. at = "remove" /\ UNCHANGED <<app, events, written, torn, reader, position, unread, lines, known>>
  BY DEF RemoveOldest
<1>2. CASE files' = [files EXCEPT ![Oldest] = NoFile] /\ at' = "rename" /\ index' = Oldest - 1
           /\ quiet' = FALSE /\ UNCHANGED <<queue, failed, cut>>
  <2>1. /\ files' \in [Indices -> Seq(Entries) \cup {NoFile}]
        /\ Texts' = [Texts EXCEPT ![Oldest] = <<>>] /\ Present' = Present \ {Oldest}
    <3>1. Oldest \in Indices
      OBVIOUS
    <3> HIDE DEF Oldest
    <3> QED
      BY <1>2, <3>1, FileRemoved, Zenon
  <2> QED
    BY <1>1, <1>2, <2>1
<1>3. CASE Finish("Err") /\ cut' = TRUE /\ UNCHANGED <<files, quiet>>
  BY <1>1, <1>3, FilesKept, Zenon DEF TypeOK
<1> QED
  BY <1>2, <1>3, Zenon DEF RemoveOldest

\* rotate_logs renames a file, or fails.
LEMMA RenameEffect ==
  ASSUME TypeOK, WriterFits, Rename
  PROVE  /\ at = "rename" /\ UNCHANGED <<app, events, written, torn, reader, unread, lines, known>>
         /\ files' \in [Indices -> Seq(Entries) \cup {NoFile}] /\ index' \in Indices
         /\ \/ /\ \/ /\ index \in Present
                     /\ Texts' = [Texts EXCEPT ![index] = <<>>, ![index + 1] = Texts[index]]
                     /\ Present' = (Present \ {index}) \cup {index + 1}
                  \/ index \notin Present /\ Texts' = Texts /\ Present' = Present
               /\ \/ index = 0 /\ at' = "append" /\ index' = index
                  \/ index # 0 /\ at' = "rename" /\ index' = index - 1
               /\ quiet' = FALSE /\ UNCHANGED <<queue, failed, cut>>
            \/ /\ Texts' = Texts /\ Present' = Present
               /\ Finish("Err") /\ cut' = TRUE /\ UNCHANGED <<files, quiet>>
<1>1. at = "rename" /\ UNCHANGED <<app, events, written, torn, reader, unread, lines, known>>
  BY DEF Rename
<1>2. index \in Indices /\ index < Oldest /\ (Exists(index) <=> index \in Present)
  BY <1>1, TextFacts DEF TypeOK, WriterFits
<1>3. CASE Finish("Err") /\ cut' = TRUE /\ UNCHANGED <<files, quiet>>
  <2>1. files' \in [Indices -> Seq(Entries) \cup {NoFile}] /\ index' \in Indices
    BY <1>3 DEF TypeOK, Finish
  <2>2. Texts' = Texts /\ Present' = Present
    BY <1>3, FilesKept
  <2> QED
    BY <1>1, <1>3, <2>1, <2>2, Zenon
<1>4. CASE /\ files' = IF Exists(index)
                       THEN [files EXCEPT ![index] = NoFile, ![index + 1] = files[index]]
                       ELSE files
           /\ quiet' = FALSE
           /\ IF index = 0 THEN at' = "append" /\ UNCHANGED index
                           ELSE index' = index - 1 /\ UNCHANGED at
           /\ UNCHANGED <<queue, failed, cut>>
  <2>1. /\ index' \in Indices
        /\ \/ index = 0 /\ at' = "append" /\ index' = index
           \/ index # 0 /\ at' = "rename" /\ index' = index - 1
    BY <1>1, <1>2, <1>4
  <2>2. CASE Exists(index)
    <3>1. PICK i \in Present : i = index
      BY <1>2, <2>2
    <3>2. i < Oldest /\ files' = [files EXCEPT ![i] = NoFile, ![i + 1] = files[i]]
      BY <1>2, <1>4, <2>2, <3>1
    <3>3. /\ files' \in [Indices -> Seq(Entries) \cup {NoFile}]
          /\ Texts' = [Texts EXCEPT ![i] = <<>>, ![i + 1] = Texts[i]]
          /\ Present' = (Present \ {i}) \cup {i + 1}
      BY <3>2, FileRenamed, Zenon
    <3> QED
      BY <1>1, <1>4, <2>1, <3>1, <3>3, Zenon
  <2>3. CASE ~Exists(index)
    <3>1. files' = files
      BY <1>4, <2>3
    <3> QED
      BY <1>1, <1>2, <1>4, <2>1, <2>3, <3>1, FilesKept DEF TypeOK
  <2> QED
    BY <2>2, <2>3, Zenon
<1> QED
  BY <1>3, <1>4, Zenon DEF Rename

\* write_record appends a record, or fails.
LEMMA AppendEffect ==
  ASSUME TypeOK, AppendRecord
  PROVE  /\ at = "append" /\ UNCHANGED <<app, events, cut, torn, reader, position, lines, known, quiet>>
         /\ files' \in [Indices -> Seq(Entries) \cup {NoFile}]
         /\ \/ /\ \E e \in Entries :
                    /\ e.record = Head(queue)
                    /\ Texts' = [Texts EXCEPT ![0] = Append(Texts[0], e)]
               /\ Present' = Present \cup {0} /\ written' = Append(written, Head(queue))
               /\ at' = "newline" /\ UNCHANGED <<index, queue, failed>>
            \/ /\ Texts' = Texts /\ Present' \in {Present, Present \cup {0}}
               /\ Finish("Err") /\ UNCHANGED written
<1>1. at = "append" /\ UNCHANGED <<app, events, cut, torn, reader, position, lines, known, quiet>>
  BY DEF AppendRecord
<1>2. 0 \in Indices /\ Text(0) = Texts[0] /\ Texts \in [Indices -> Seq(Entries)]
  BY TextFacts
<1>3. CASE /\ files' = [files EXCEPT ![0] =
                          Append(Text(0), [record |-> Head(queue), ended |-> FALSE])]
           /\ written' = Append(written, Head(queue)) /\ at' = "newline"
           /\ UNCHANGED <<index, queue, failed>>
  <2>1. Head(queue) \in 1..MaxEvents
    BY <1>1, TailFacts DEF TypeOK
  <2>2. PICK e \in Entries : e = [record |-> Head(queue), ended |-> FALSE]
    BY <2>1, Zenon DEF Entries
  <2>3. PICK t \in Seq(Entries) : t = Append(Texts[0], e)
    <3>1. Append(Texts[0], e) \in Seq(Entries)
      BY <1>2, AppendFacts
    <3> QED
      BY <3>1, Zenon
  <2>4. files' = [files EXCEPT ![0] = t]
    BY <1>2, <1>3, <2>2, <2>3, Zenon
  <2>5. /\ files' \in [Indices -> Seq(Entries) \cup {NoFile}]
        /\ Texts' = [Texts EXCEPT ![0] = t] /\ Present' = Present \cup {0}
    BY <1>2, <2>4, FileWritten, Zenon
  <2>6. e.record = Head(queue)
    BY <2>2
  <2> QED
    BY <1>1, <1>3, <2>3, <2>5, <2>6, Zenon
<1>4. CASE files' \in {files, [files EXCEPT ![0] = Text(0)]} /\ Finish("Err") /\ UNCHANGED written
  <2>1. CASE files' = files
    BY <1>1, <1>4, <2>1, FilesKept DEF TypeOK
  <2>2. CASE files' = [files EXCEPT ![0] = Text(0)]
    <3>1. PICK t \in Seq(Entries) : t = Text(0)
      BY <1>2
    <3>2. /\ files' \in [Indices -> Seq(Entries) \cup {NoFile}]
          /\ Texts' = [Texts EXCEPT ![0] = t] /\ Present' = Present \cup {0}
      BY <1>2, <2>2, <3>1, FileWritten, Zenon
    <3>3. Texts' = Texts
      BY <1>2, <3>1, <3>2
    <3> QED
      BY <1>1, <1>4, <3>2, <3>3
  <2> QED
    BY <1>4, <2>1, <2>2
<1> QED
  BY <1>3, <1>4, Zenon DEF AppendRecord

\* write_record ends the line, or fails.
LEMMA NewLineEffect ==
  ASSUME TypeOK, WriterFits, AppendNewLine
  PROVE  /\ at = "newline" /\ UNCHANGED <<app, events, written, cut, reader, position, lines, known, quiet>>
         /\ files' \in [Indices -> Seq(Entries) \cup {NoFile}] /\ Present' = Present
         /\ \/ /\ \E t \in Seq(Entries) :
                    /\ Texts' = [Texts EXCEPT ![0] = t] /\ Len(t) = Len(Texts[0])
                    /\ \A n \in DOMAIN t : t[n].record = Texts[0][n].record
                    /\ \A n \in DOMAIN t : Texts[0][n].ended \/ n = Len(t) => t[n].ended
               /\ Finish("Ok") /\ UNCHANGED torn
            \/ Texts' = Texts /\ Finish("Err") /\ torn' = TRUE
<1>1. at = "newline" /\ UNCHANGED <<app, events, written, cut, reader, position, lines, known, quiet>>
  BY DEF AppendNewLine
<1>2. /\ 0 \in Indices /\ 0 \in Present /\ Text(0) = Texts[0]
      /\ Texts[0] \in Seq(Entries) /\ Len(Texts[0]) > 0
  BY <1>1, TextFacts DEF WriterFits
<1>3. CASE files' = [files EXCEPT ![0] = EndLine(Text(0))] /\ Finish("Ok") /\ UNCHANGED torn
  <2> DEFINE m == Len(Texts[0])
             t == [Texts[0] EXCEPT ![m].ended = TRUE]
  <2>1. m \in Nat /\ m > 0 /\ DOMAIN Texts[0] = 1..m /\ m \in 1..m
        /\ \A n \in 1..m : Texts[0][n] \in Entries
    BY <1>2
  <2>2. \A n \in 1..m : t[n] = IF n = m THEN [Texts[0][n] EXCEPT !.ended = TRUE] ELSE Texts[0][n]
    BY <2>1, Zenon
  <2>3. \A n \in 1..m : /\ [Texts[0][n] EXCEPT !.ended = TRUE] \in Entries
                        /\ [Texts[0][n] EXCEPT !.ended = TRUE].record = Texts[0][n].record
                        /\ [Texts[0][n] EXCEPT !.ended = TRUE].ended
    BY <2>1, Zenon DEF Entries
  <2>4. t \in Seq(Entries) /\ Len(t) = m /\ DOMAIN t = 1..m
    <3>1. DOMAIN t = 1..m
      BY <2>1
    <3>2. t \in [1..m -> Entries]
      BY <2>1, <2>2, <2>3, <3>1, Zenon
    <3> HIDE DEF t, m
    <3> QED
      BY <2>1, <3>1, <3>2, FunctionIsSeq
  <2>5. files' = [files EXCEPT ![0] = t]
    <3>1. Texts[0] # <<>>
      BY <1>2
    <3> QED
      BY <1>2, <1>3, <3>1, Zenon DEF EndLine
  <2>6. /\ \A n \in 1..m : t[n].record = Texts[0][n].record
        /\ \A n \in 1..m : Texts[0][n].ended \/ n = m => t[n].ended
    BY <2>2, <2>3, Zenon
  <2> HIDE DEF t
  <2>7. /\ files' \in [Indices -> Seq(Entries) \cup {NoFile}]
        /\ Texts' = [Texts EXCEPT ![0] = t] /\ Present' = Present \cup {0}
    BY <1>2, <2>4, <2>5, FileWritten, Zenon
  <2>8. Present' = Present
    BY <1>2, <2>7
  <2> QED
    BY <1>1, <1>3, <2>4, <2>6, <2>7, <2>8, Zenon
<1>4. CASE Finish("Err") /\ torn' = TRUE /\ UNCHANGED files
  BY <1>1, <1>4, FilesKept, Zenon DEF TypeOK
<1> QED
  BY <1>3, <1>4, Zenon DEF AppendNewLine

\* Every step keeps the types of the files and the log.
LEMMA FilesTypeStep ==
  ASSUME TypeOK, WriterFits, Next
  PROVE  FilesTyped'
<1> USE DEF FilesTyped
<1>1. FilesTyped
  BY TypeSplit
<1>2. CASE Elsewhere
  <2>1. index' = index \/ index' = 0
    BY <1>2 DEF Elsewhere, Initialize, LogEvent, Shutdown, Join, EndProcess, Receive, RotateIfNeeded,
                StartReading, InspectFile, ReadFile, ReadTail, writerVars, Finish
  <2> QED
    BY <1>1, <1>2, <2>1, ElsewhereEffect
<1>3. CASE RemoveOldest
  <2>1. files' \in [Indices -> Seq(Entries) \cup {NoFile}] /\ written' = written
    BY <1>3, RemoveEffect
  <2>2. index' \in Indices
    BY <1>3 DEF RemoveOldest, Finish
  <2> QED
    BY <1>1, <2>1, <2>2
<1>4. CASE Rename
  BY <1>1, <1>4, RenameEffect
<1>5. CASE AppendRecord
  <2>1. Head(queue) \in 1..MaxEvents
    BY <1>5, TailFacts DEF TypeOK, AppendRecord
  <2>2. Append(written, Head(queue)) \in Seq(1..MaxEvents)
    BY <1>1, <2>1, AppendFacts
  <2>3. files' \in [Indices -> Seq(Entries) \cup {NoFile}]
    BY <1>5, AppendEffect
  <2>4. index' \in Indices /\ (written' = written \/ written' = Append(written, Head(queue)))
    BY <1>1, <1>5 DEF AppendRecord, Finish
  <2> QED
    BY <1>1, <2>2, <2>3, <2>4, Zenon
<1>6. CASE AppendNewLine
  <2>1. files' \in [Indices -> Seq(Entries) \cup {NoFile}] /\ written' = written
    BY <1>6, NewLineEffect
  <2>2. index' \in Indices
    BY <1>6 DEF AppendNewLine, Finish
  <2> QED
    BY <1>1, <2>1, <2>2
<1> QED
  BY <1>2, <1>3, <1>4, <1>5, <1>6 DEF Next, WriterStep, ReaderStep, Elsewhere

-----------------------------------------------------------------------------
(***************************************************************************)
(* The invariant holds of a log of full files.                             *)
(***************************************************************************)
\* The text of a file is made of lines.
LEMMA TextIsLines ==
  ASSUME NEW t \in Seq(Entries)
  PROVE  t \in Seq(Lines)
BY DEF Lines

LEMMA Products ==
  ASSUME NEW a \in Nat, NEW b \in Nat, NEW r \in Nat
  PROVE  /\ a * r \in Nat /\ a <= b => a * r <= b * r
         /\ (a + 1) * r = (a * r) + r /\ 0 * r = 0
OBVIOUS

\* Where the log is divided when the first FullFiles files are full.
FullMarks == [i \in 0..MaxLogFiles |-> IF i < FullFiles THEN (FullFiles - i) * MaxLogRecords ELSE 0]

\* They are marks, and those of full files are MaxLogRecords apart.
LEMMA FullMarksFacts ==
  /\ FullFiles \in Nat /\ FullFiles <= MaxLogFiles
  /\ FullMarks \in Marks /\ FullMarks[0] = FullFiles * MaxLogRecords /\ FullMarks[0] <= MaxEvents
  /\ \A i, j \in 0..MaxLogFiles : i <= j => FullMarks[j] <= FullMarks[i]
  /\ \A i \in Indices : i < FullFiles =>
       /\ FullMarks[i] = FullMarks[i + 1] + MaxLogRecords
       /\ ((FullFiles - i) - 1) * MaxLogRecords = FullMarks[i + 1]
  /\ \A i \in 0..MaxLogFiles : ~(i < FullFiles) => FullMarks[i] = 0
<1>1. FullFiles \in Nat /\ FullFiles <= MaxLogFiles /\ FullFiles * MaxLogRecords <= MaxEvents
  BY LogAssumption
<1>2. ASSUME NEW i \in 0..MaxLogFiles
      PROVE  /\ FullMarks[i] \in Nat
             /\ i < FullFiles => FullMarks[i] = (FullFiles - i) * MaxLogRecords
             /\ ~(i < FullFiles) => FullMarks[i] = 0
  <2>1. CASE i < FullFiles
    <3>1. FullFiles - i \in Nat
      BY <1>1, <2>1, SMTT(20)
    <3>2. (FullFiles - i) * MaxLogRecords \in Nat
      BY <3>1, Products, SMTT(20)
    <3>3. FullMarks[i] = (FullFiles - i) * MaxLogRecords
      BY <2>1 DEF FullMarks
    <3> QED
      BY <2>1, <3>2, <3>3, Zenon
  <2>2. CASE ~(i < FullFiles)
    <3>1. FullMarks[i] = 0
      BY <2>2 DEF FullMarks
    <3> QED
      BY <2>2, <3>1
  <2> QED
    BY <2>1, <2>2
<1>3. FullMarks \in Marks
  <2>1. FullMarks = [i \in 0..MaxLogFiles |-> FullMarks[i]]
    BY DEF FullMarks
  <2> QED
    BY <1>2, <2>1, Zenon DEF Marks
<1>4. FullMarks[0] = FullFiles * MaxLogRecords
  <2>1. CASE 0 < FullFiles
    <3>1. FullFiles - 0 = FullFiles /\ 0 \in 0..MaxLogFiles
      BY <1>1
    <3> QED
      BY <1>2, <2>1, <3>1, Zenon
  <2>2. CASE ~(0 < FullFiles)
    <3>1. FullFiles = 0 /\ 0 \in 0..MaxLogFiles
      BY <1>1, <2>2, SMTT(20)
    <3>2. 0 * MaxLogRecords = 0
      BY Products
    <3> QED
      BY <1>2, <2>2, <3>1, <3>2, Zenon
  <2> QED
    BY <2>1, <2>2
<1>5. ASSUME NEW i \in 0..MaxLogFiles, NEW j \in 0..MaxLogFiles, i <= j
      PROVE  FullMarks[j] <= FullMarks[i]
  <2>1. CASE j < FullFiles
    <3>1. PICK a \in Nat, b \in Nat : a = FullFiles - j /\ b = FullFiles - i /\ a <= b /\ i < FullFiles
      <4>1. FullFiles - j \in Nat /\ FullFiles - i \in Nat /\ FullFiles - j <= FullFiles - i /\ i < FullFiles
        BY <1>1, <1>5, <2>1, SMTT(20)
      <4> QED
        BY <4>1, Zenon
    <3>2. a * MaxLogRecords <= b * MaxLogRecords
      BY <3>1, Products
    <3> QED
      BY <1>2, <2>1, <3>1, <3>2, Zenon
  <2>2. CASE ~(j < FullFiles)
    <3>1. FullMarks[j] = 0 /\ FullMarks[i] \in Nat
      BY <1>2, <2>2
    <3> QED
      BY <3>1
  <2> QED
    BY <2>1, <2>2
<1>6. ASSUME NEW i \in Indices, i < FullFiles
      PROVE  /\ FullMarks[i] = FullMarks[i + 1] + MaxLogRecords
             /\ ((FullFiles - i) - 1) * MaxLogRecords = FullMarks[i + 1]
  <2>1. PICK a \in Nat : a = (FullFiles - i) - 1 /\ a + 1 = FullFiles - i /\ a = FullFiles - (i + 1)
    <3>1. /\ (FullFiles - i) - 1 \in Nat /\ ((FullFiles - i) - 1) + 1 = FullFiles - i
          /\ (FullFiles - i) - 1 = FullFiles - (i + 1)
      BY <1>1, <1>6, SMTT(20)
    <3> QED
      BY <3>1, Zenon
  <2>2. i \in 0..MaxLogFiles /\ i + 1 \in 0..MaxLogFiles /\ (~(i + 1 < FullFiles) => a = 0)
    BY <1>1, <1>6, <2>1, SMTT(20)
  <2>3. (a + 1) * MaxLogRecords = (a * MaxLogRecords) + MaxLogRecords /\ 0 * MaxLogRecords = 0
    BY Products
  <2>4. FullMarks[i + 1] = a * MaxLogRecords
    BY <1>2, <2>1, <2>2, <2>3, Zenon
  <2> QED
    BY <1>2, <1>6, <2>1, <2>2, <2>3, <2>4, Zenon
<1> QED
  BY <1>1, <1>2, <1>3, <1>4, <1>5, <1>6, Zenon

\* The files that earlier processes have filled hold the log that they have written.
LEMMA InitFiles ==
  ASSUME Init
  PROVE  /\ written \in Seq(1..MaxEvents) /\ Len(written) = FullMarks[0]
         /\ \A n \in 1..FullMarks[0] : written[n] = n
         /\ files \in [Indices -> Seq(Entries) \cup {NoFile}]
         /\ \A i \in Indices : i < FullFiles =>
              /\ Texts[i] \in Seq(Entries) /\ Len(Texts[i]) = MaxLogRecords /\ i \in Present
              /\ \A n \in 1..MaxLogRecords :
                   Texts[i][n].record = FullMarks[i + 1] + n /\ Texts[i][n].ended
         /\ \A i \in Indices : ~(i < FullFiles) => Texts[i] = <<>> /\ i \notin Present
<1>1. /\ FullMarks[0] \in Nat /\ FullMarks[0] <= MaxEvents /\ FullMarks[0] = FullFiles * MaxLogRecords
      /\ 0 \in 0..MaxLogFiles
  BY FullMarksFacts DEF Marks
<1>2. written \in Seq(1..MaxEvents) /\ Len(written) = FullMarks[0] /\ \A n \in 1..FullMarks[0] : written[n] = n
  <2>1. PICK total \in Nat : total = FullMarks[0] /\ total <= MaxEvents
    BY <1>1, Zenon
  <2>2. written = [n \in 1..total |-> n]
    BY <1>1, <2>1, Zenon DEF Init
  <2>3. written \in [1..total -> 1..MaxEvents]
    BY <2>1, <2>2, SMTT(20)
  <2>4. written \in Seq(1..MaxEvents) /\ Len(written) = total
    BY <2>3, FunctionIsSeq
  <2> QED
    BY <2>1, <2>2, <2>4, Zenon
<1>3. ASSUME NEW i \in Indices
      PROVE  files[i] = IF i < FullFiles THEN FullFile(FullFiles - i) ELSE NoFile
  BY Zenon DEF Init
<1>4. ASSUME NEW i \in Indices, i < FullFiles
      PROVE  /\ files[i] \in Seq(Entries) /\ Len(files[i]) = MaxLogRecords
             /\ \A n \in 1..MaxLogRecords :
                  files[i][n].record = FullMarks[i + 1] + n /\ files[i][n].ended
  <2>1. PICK m \in Nat : m = FullMarks[i + 1] /\ m + MaxLogRecords <= MaxEvents
    <3>1. FullMarks[i + 1] \in Nat /\ FullMarks[i] \in Nat /\ i \in 0..MaxLogFiles /\ 0 <= i
      BY FullMarksFacts DEF Marks
    <3>2. FullMarks[i] <= FullMarks[0] /\ FullMarks[i] = FullMarks[i + 1] + MaxLogRecords
      BY <1>1, <1>4, <3>1, FullMarksFacts, Zenon
    <3>3. FullMarks[i + 1] + MaxLogRecords <= MaxEvents
      BY <1>1, <3>1, <3>2, SMTT(20)
    <3> QED
      BY <3>1, <3>3, Zenon
  <2>2. files[i] = [n \in 1..MaxLogRecords |-> [record |-> m + n, ended |-> TRUE]]
    <3>1. ((FullFiles - i) - 1) * MaxLogRecords = m
      BY <1>4, <2>1, FullMarksFacts, Zenon
    <3>2. files[i] = FullFile(FullFiles - i)
      BY <1>3, <1>4, Zenon
    <3> QED
      BY <3>1, <3>2, Zenon DEF FullFile
  <2>3. \A n \in 1..MaxLogRecords : [record |-> m + n, ended |-> TRUE] \in Entries
    <3>1. \A n \in 1..MaxLogRecords : m + n \in 1..MaxEvents
      BY <2>1
    <3> QED
      BY <3>1, Zenon DEF Entries
  <2>4. files[i] \in [1..MaxLogRecords -> Entries]
    BY <2>2, <2>3, Zenon
  <2>5. files[i] \in Seq(Entries) /\ Len(files[i]) = MaxLogRecords
    BY <2>4, FunctionIsSeq, Zenon
  <2>6. \A n \in 1..MaxLogRecords : files[i][n] = [record |-> m + n, ended |-> TRUE]
    BY <2>2, Zenon
  <2>7. ASSUME NEW n \in 1..MaxLogRecords PROVE files[i][n].record = m + n /\ files[i][n].ended
    <3>1. PICK e : e = files[i][n]
      BY Zenon
    <3>2. e = [record |-> m + n, ended |-> TRUE]
      BY <2>6, <3>1, Zenon
    <3>3. e.record = m + n
      BY <3>2, Zenon
    <3>4. e.ended
      BY <3>2
    <3> QED
      BY <3>1, <3>3, <3>4, Zenon
  <2> QED
    BY <2>1, <2>5, <2>7, Zenon
<1>5. files \in [Indices -> Seq(Entries) \cup {NoFile}]
  <2>1. \A i \in Indices : files[i] \in Seq(Entries) \cup {NoFile}
    BY <1>3, <1>4, Zenon
  <2>2. files = [i \in Indices |-> files[i]]
    BY Zenon DEF Init
  <2> QED
    BY <2>1, <2>2, Zenon
<1>6. ASSUME NEW i \in Indices
      PROVE  /\ i < FullFiles => Texts[i] = files[i] /\ i \in Present
             /\ ~(i < FullFiles) => Texts[i] = <<>> /\ i \notin Present
  <2>1. CASE i < FullFiles
    <3>1. files[i] # NoFile
      BY <1>4, <2>1, NoFileIsNoText, Zenon
    <3> QED
      BY <2>1, <3>1, Zenon DEF Texts, Present, Text, Exists
  <2>2. CASE ~(i < FullFiles)
    <3>1. files[i] = NoFile
      BY <1>3, <2>2, Zenon
    <3> QED
      BY <2>2, <3>1, Zenon DEF Texts, Present, Text, Exists
  <2> QED
    BY <2>1, <2>2
<1> QED
  BY <1>2, <1>4, <1>5, <1>6, Zenon

\* A log of full files, before any process has started, satisfies the invariant.
LEMMA InitIInv ==
  ASSUME LinesCounted, Init
  PROVE  IInv
<1>1. /\ app = "off" /\ queue = <<>> /\ at = "gone" /\ index = 0 /\ failed = {} /\ reader = "idle"
      /\ position = 0 /\ unread = <<>> /\ lines = <<>> /\ known = 0 /\ events = FullFiles * MaxLogRecords
      /\ ~cut /\ ~torn /\ ~quiet
  BY Zenon DEF Init
<1>2. PICK total \in Nat : total = FullMarks[0] /\ total <= MaxEvents /\ events = total
  <2>1. FullMarks[0] \in Nat /\ FullMarks[0] <= MaxEvents /\ FullFiles * MaxLogRecords = FullMarks[0]
    BY FullMarksFacts DEF Marks
  <2> QED
    BY <1>1, <2>1, Zenon
<1>3. /\ written \in Seq(1..MaxEvents) /\ Len(written) = total /\ DOMAIN written = 1..total
      /\ \A n \in 1..total : written[n] = n
  <2>1. written \in Seq(1..MaxEvents) /\ Len(written) = total /\ \A n \in 1..total : written[n] = n
    BY <1>2, InitFiles, Zenon
  <2> QED
    BY <2>1
<1>4. TypeOK
  <2>1. Booleans
    BY Zenon DEF Booleans, Init
  <2>2. AppTyped
    BY <1>1, <1>2 DEF AppTyped
  <2>3. FilesTyped
    <3>1. files \in [Indices -> Seq(Entries) \cup {NoFile}]
      BY InitFiles
    <3> QED
      BY <1>1, <1>3, <3>1, SMTT(20) DEF FilesTyped
  <2>4. ReaderTyped
    <3>1. <<>> \in Seq(Lines)
      BY NoFileIsNoText, TextIsLines, Zenon
    <3> QED
      BY <1>1, <3>1, SMTT(20) DEF ReaderTyped
  <2> QED
    BY <2>1, <2>2, <2>3, <2>4, TypeSplit, Zenon
<1>5. QueueFits /\ AppFits
  BY <1>1, SMTT(20) DEF QueueFits, AppFits
<1>6. Ordered
  BY <1>2, <1>3 DEF Ordered
<1>7. Accounted
  BY <1>2, <1>3, Zenon DEF Accounted, Range
<1>8. \A i \in Indices : \A n \in DOMAIN Texts[i] :
        i < FullFiles /\ n \in 1..MaxLogRecords /\ Texts[i][n].record = FullMarks[i + 1] + n /\ Texts[i][n].ended
  <2>1. \A i \in Indices : i < FullFiles => DOMAIN Texts[i] = 1..MaxLogRecords
    BY InitFiles, SMTT(20)
  <2>2. \A i \in Indices : ~(i < FullFiles) => DOMAIN Texts[i] = {}
    BY InitFiles
  <2> QED
    BY <2>1, <2>2, InitFiles, Zenon
<1>9. WriterFits
  <2>1. \A i \in Indices : Len(Texts[i]) <= MaxLogRecords
    BY InitFiles
  <2> QED
    BY <1>1, <2>1, Zenon DEF WriterFits
<1>10. OneToALine
  BY <1>8, Zenon DEF OneToALine
<1>11. ReaderFits /\ UnreadFits /\ TailInOrder
  <2>1. DOMAIN lines = {} /\ DOMAIN unread = {} /\ known <= Len(written)
    BY <1>1, <1>2, <1>3, SMTT(20)
  <2>2. LinesAfter(0, lines) <= Limit
    <3>1. LinesAfter(0, <<>>) <= Limit
      BY DEF LinesCounted
    <3> QED
      BY <1>1, <3>1, Zenon DEF LinesAfter
  <2> QED
    BY <1>1, <2>1, <2>2, Zenon DEF ReaderFits, UnreadFits, InOrder, TailInOrder
<1>12. FullMarks \in Marks
  BY FullMarksFacts
<1>13. Divides(FullMarks)
  <2>1. FullMarks[0] = Len(written)
    BY <1>2, <1>3, Zenon
  <2>2. \A i, j \in 0..MaxLogFiles : i <= j => FullMarks[j] <= FullMarks[i]
    BY FullMarksFacts, Zenon
  <2>3. ASSUME NEW i \in Indices PROVE Len(Texts[i]) = FullMarks[i] - FullMarks[i + 1]
    <3>1. i \in 0..MaxLogFiles /\ i + 1 \in 0..MaxLogFiles /\ (~(i < FullFiles) => ~(i + 1 < FullFiles))
      BY FullMarksFacts
    <3>2. FullMarks[i] \in Nat /\ FullMarks[i + 1] \in Nat
      BY <1>12, <3>1, Zenon DEF Marks
    <3>3. CASE i < FullFiles
      <4>1. FullMarks[i] = FullMarks[i + 1] + MaxLogRecords /\ Len(Texts[i]) = MaxLogRecords
        BY <3>3, FullMarksFacts, InitFiles, Zenon
      <4> QED
        BY <3>2, <4>1, SMTT(20)
    <3>4. CASE ~(i < FullFiles)
      <4>1. FullMarks[i] = 0 /\ FullMarks[i + 1] = 0 /\ Texts[i] = <<>>
        BY <3>1, <3>4, FullMarksFacts, InitFiles, Zenon
      <4> QED
        BY <4>1
    <3> QED
      BY <3>3, <3>4, Zenon
  <2>4. ASSUME NEW i \in Indices, NEW n \in DOMAIN Texts[i]
        PROVE  Texts[i][n].record = written[FullMarks[i + 1] + n]
    <3>1. PICK m \in Nat : m = FullMarks[i + 1] /\ m + MaxLogRecords <= total
      <4>1. i \in 0..MaxLogFiles /\ i + 1 \in 0..MaxLogFiles /\ 0 \in 0..MaxLogFiles /\ 0 <= i
        BY Bounds
      <4>2. /\ FullMarks[i] = FullMarks[i + 1] + MaxLogRecords /\ FullMarks[i + 1] \in Nat
            /\ FullMarks[i] <= total
        BY <1>2, <1>8, <1>12, <4>1, FullMarksFacts, Zenon DEF Marks
      <4>3. FullMarks[i + 1] + MaxLogRecords <= total
        BY <4>2, Zenon
      <4> QED
        BY <4>2, <4>3, Zenon
    <3>2. n \in 1..MaxLogRecords /\ Texts[i][n].record = m + n
      BY <1>8, <3>1, Zenon
    <3>3. m + n \in 1..total
      BY <3>1, <3>2, SMTT(20)
    <3> QED
      BY <1>3, <3>1, <3>2, <3>3, Zenon
  <2> QED
    BY <2>1, <2>2, <2>3, <2>4, Zenon DEF Divides, Division
<1>14. Steady(FullMarks)
  <2>1. Hole = 0
    BY <1>1, Zenon DEF Hole
  <2>2. MaxLogFiles \in 0..MaxLogFiles /\ ~(MaxLogFiles < FullFiles)
    BY FullMarksFacts, SMTT(20)
  <2>3. ~(FullMarks[MaxLogFiles] > 0)
    BY <2>2, FullMarksFacts, SMTT(20)
  <2>4. \A i \in Indices : i \in Present <=> i < FullFiles
    BY InitFiles, Zenon
  <2>5. \A i, j \in Indices : j <= i /\ i < FullFiles => j < FullFiles
    BY FullMarksFacts
  <2>6. Gapless(FullMarks, 0, Texts, Present)
    BY <2>3, <2>4, <2>5, InitFiles, Zenon DEF Gapless
  <2> QED
    BY <2>1, <2>6 DEF Steady, Gapless
<1>15. CaughtUp(FullMarks)
  BY <1>1, Zenon DEF CaughtUp
<1> QED
  BY <1>4, <1>5, <1>6, <1>7, <1>9, <1>10, <1>11, <1>12, <1>13, <1>14, <1>15, Zenon DEF IInv

-----------------------------------------------------------------------------
(***************************************************************************)
(* The queue and the log.                                                  *)
(***************************************************************************)
QueueInv == QueueFits /\ Ordered /\ AppFits /\ Accounted

\* The writer is done with the head of its queue, which was written or has failed.
LEMMA FinishQueue ==
  ASSUME TypeOK, QueueInv, NEW result, Finish(result), queue # <<>>, Head(queue) # Stop,
         at \notin {"gone", "newline"} => result # "Ok", at # "gone",
         UNCHANGED <<app, events, written>>
  PROVE  QueueInv'
<1>1. /\ queue \in Seq(0..MaxEvents) /\ queue' = Tail(queue) /\ at' = "recv"
      /\ written \in Seq(1..MaxEvents) /\ events \in Nat
      /\ app \in {"off", "on", "join", "ended"}
  BY DEF TypeOK, Finish
<1>2. /\ Head(queue) = queue[1] /\ 1 \in DOMAIN queue
      /\ \A i \in DOMAIN queue' : i + 1 \in DOMAIN queue /\ queue'[i] = queue[i + 1] /\ i \in Nat /\ i >= 1
      /\ \A i \in DOMAIN queue : i # 1 => i - 1 \in DOMAIN queue' /\ queue'[i - 1] = queue[i]
      /\ \A i \in DOMAIN queue : i \in Nat /\ i >= 1
  BY <1>1, TailFacts, Zenon
<1>3. QueueFits'
  <2>1. \A i, j \in DOMAIN queue' : i < j => queue'[i] # Stop /\ (queue'[j] = Stop \/ queue'[i] < queue'[j])
    BY <1>2 DEF QueueInv, QueueFits
  <2>2. \A i \in DOMAIN queue' : queue'[i] <= events
    BY <1>2 DEF QueueInv, QueueFits
  <2>3. \A i \in DOMAIN queue', n \in DOMAIN written : queue'[i] # Stop => written[n] < queue'[i]
    BY <1>2 DEF QueueInv, QueueFits
  <2> QED
    BY <1>1, <2>1, <2>2, <2>3 DEF QueueFits
<1>4. Ordered'
  BY DEF QueueInv, Ordered
<1>5. AppFits'
  BY <1>1, <1>2 DEF QueueInv, AppFits
<1>6. Accounted'
  <2>1. at = "newline" => queue[1] \in Range(written)
    BY <1>1, <1>2 DEF QueueInv, QueueFits, Range
  <2>2. queue[1] \in Range(written) \cup failed' /\ failed \subseteq failed'
    BY <1>2, <2>1 DEF Finish
  <2>3. Range(queue) \subseteq Range(queue') \cup {queue[1]}
    BY <1>2 DEF Range
  <2>4. 1..events \subseteq Range(written) \cup failed \cup Range(queue)
    BY DEF QueueInv, Accounted
  <2>5. 1..events \subseteq Range(written) \cup failed' \cup Range(queue')
    BY <2>2, <2>3, <2>4, Zenon
  <2>6. Range(written)' = Range(written)
    BY DEF Range
  <2> QED
    BY <2>5, <2>6 DEF Accounted, Range
<1> QED
  BY <1>3, <1>4, <1>5, <1>6 DEF QueueInv

\* Every step keeps the order and the account of the queue.
LEMMA QueueStep ==
  ASSUME TypeOK, QueueInv, Next
  PROVE  QueueInv'
<1>1. /\ queue \in Seq(0..MaxEvents) /\ written \in Seq(1..MaxEvents) /\ events \in Nat
      /\ app \in {"off", "on", "join", "ended"}
      /\ at \notin {"gone", "recv"} => queue # <<>> /\ Head(queue) # Stop
      /\ DOMAIN queue = 1..Len(queue) /\ Len(queue) \in Nat
      /\ DOMAIN written = 1..Len(written) /\ Len(written) \in Nat
  BY DEF TypeOK
\* Steps that the queue and the log do not see.
<1>2. ASSUME UNCHANGED <<queue, events, written, failed>>, at' # "newline", at # "newline",
             at' = "gone" => at = "gone", AppFits'
      PROVE  QueueInv'
  BY <1>2 DEF QueueInv, QueueFits, Ordered, Accounted, Range
<1>3. CASE UNCHANGED <<app, queue, at, events, written, failed>>
  BY <1>3 DEF QueueInv, QueueFits, Ordered, AppFits, Accounted, Range
<1>4. CASE Initialize
  <2>1. AppFits'
    BY <1>1, <1>4 DEF Initialize, QueueInv, AppFits
  <2>2. at = "gone"
    BY <1>4 DEF Initialize, QueueInv, AppFits
  <2> QED
    BY <1>2, <1>4, <2>1, <2>2 DEF Initialize
<1>5. CASE LogEvent /\ app = "on"
  <2>1. events' = events + 1 /\ queue' = Append(queue, events + 1) /\ UNCHANGED <<app, at, written, failed>>
        /\ events + 1 \in 0..MaxEvents /\ app = "on"
    BY <1>1, <1>5 DEF LogEvent
  <2>2. /\ DOMAIN queue' = 1..(Len(queue) + 1) /\ queue'[Len(queue) + 1] = events + 1
        /\ \A i \in 1..Len(queue) : queue'[i] = queue[i]
        /\ queue # <<>> => Head(queue') = Head(queue)
    BY <1>1, <2>1, AppendFacts, SMTT(20)
  <2>3. QueueFits'
    <3>1. \A i \in DOMAIN queue : queue[i] \in 0..MaxEvents /\ queue[i] <= events /\ queue[i] # Stop
      <4>1. \A i \in DOMAIN queue : queue[i] \in 0..MaxEvents
        BY <1>1
      <4> QED
        BY <2>1, <4>1, Zenon DEF QueueInv, QueueFits, AppFits
    <3>2. \A i, j \in DOMAIN queue' : i < j => queue'[i] # Stop /\ (queue'[j] = Stop \/ queue'[i] < queue'[j])
      <4>1. \A i, j \in DOMAIN queue : i < j => queue[i] # Stop /\ (queue[j] = Stop \/ queue[i] < queue[j])
        BY DEF QueueInv, QueueFits
      <4>2. SUFFICES ASSUME NEW i \in DOMAIN queue', NEW j \in DOMAIN queue', i < j
                     PROVE  queue'[i] # Stop /\ (queue'[j] = Stop \/ queue'[i] < queue'[j])
        OBVIOUS
      <4>3. i \in DOMAIN queue /\ queue'[i] = queue[i]
        BY <1>1, <2>2, <4>2
      <4>4. CASE j \in DOMAIN queue
        BY <1>1, <2>2, <4>1, <4>2, <4>3, <4>4
      <4>5. CASE j = Len(queue) + 1
        BY <1>1, <2>2, <3>1, <4>3, <4>5
      <4> QED
        BY <1>1, <2>2, <4>4, <4>5
    <3>3. \A i \in DOMAIN queue' : queue'[i] <= events'
      BY <1>1, <2>1, <2>2, <3>1
    <3>4. \A i \in DOMAIN queue', n \in DOMAIN written :
            queue'[i] # Stop => written[n] < queue'[i] \/ (at = "newline" /\ i = 1 /\ n = Len(written))
      <4>1. \A n \in DOMAIN written : written[n] <= events /\ written[n] \in Nat
        BY <1>1 DEF QueueInv, Ordered
      <4>2. SUFFICES ASSUME NEW i \in DOMAIN queue', NEW n \in DOMAIN written, queue'[i] # Stop
                     PROVE  written[n] < queue'[i] \/ (at = "newline" /\ i = 1 /\ n = Len(written))
        OBVIOUS
      <4>3. CASE i \in DOMAIN queue
        <5>1. queue'[i] = queue[i]
          BY <1>1, <2>2, <4>3
        <5> QED
          BY <4>2, <4>3, <5>1, Zenon DEF QueueInv, QueueFits
      <4>4. CASE i = Len(queue) + 1
        BY <1>1, <2>2, <4>1, <4>4
      <4> QED
        BY <1>1, <2>2, <4>3, <4>4
    <3>5. at = "newline" => written # <<>> /\ written[Len(written)] = Head(queue')
      BY <1>1, <2>2 DEF QueueInv, QueueFits
    <3> QED
      BY <2>1, <3>2, <3>3, <3>4, <3>5, Zenon DEF QueueFits
  <2>4. Ordered'
    BY <1>1, <2>1 DEF QueueInv, Ordered
  <2>5. AppFits'
    BY <1>1, <2>1, <2>2 DEF QueueInv, AppFits
  <2>6. Accounted'
    <3>1. 1..events \subseteq Range(written) \cup failed \cup Range(queue)
      BY DEF QueueInv, Accounted
    <3>2. Range(queue) \subseteq Range(queue') /\ events + 1 \in Range(queue')
      <4>1. Range(queue) \subseteq Range(queue')
        BY <1>1, <2>2 DEF Range
      <4>2. Len(queue) + 1 \in DOMAIN queue'
        BY <1>1, <2>2
      <4> QED
        BY <2>2, <4>1, <4>2, Zenon DEF Range
    <3>3. \A x \in 1..events' : x \in 1..events \/ x = events + 1
      BY <1>1, <2>1
    <3>4. Range(written)' = Range(written)
      BY <2>1 DEF Range
    <3> QED
      BY <2>1, <3>1, <3>2, <3>3, <3>4, Zenon DEF Accounted, Range
  <2> QED
    BY <2>3, <2>4, <2>5, <2>6 DEF QueueInv
<1>6. CASE Shutdown
  <2>1. queue' = Append(queue, Stop) /\ UNCHANGED <<events, at, written, failed>> /\ app = "on" /\ app' = "join"
    BY <1>6 DEF Shutdown
  <2>2. /\ DOMAIN queue' = 1..(Len(queue) + 1) /\ queue'[Len(queue) + 1] = Stop
        /\ \A i \in 1..Len(queue) : queue'[i] = queue[i]
        /\ queue # <<>> => Head(queue') = Head(queue)
    BY <1>1, <2>1, AppendFacts
  <2>3. QueueFits'
    <3>1. \A i \in DOMAIN queue : queue[i] # Stop
      BY <2>1 DEF QueueInv, AppFits
    <3>2. \A i, j \in DOMAIN queue' : i < j => queue'[i] # Stop /\ (queue'[j] = Stop \/ queue'[i] < queue'[j])
      BY <1>1, <2>1, <2>2, <3>1 DEF QueueInv, QueueFits
    <3>3. \A i \in DOMAIN queue' : queue'[i] <= events
      BY <1>1, <2>1, <2>2 DEF QueueInv, QueueFits
    <3>4. \A i \in DOMAIN queue', n \in DOMAIN written :
            queue'[i] # Stop => written[n] < queue'[i] \/ (at = "newline" /\ i = 1 /\ n = Len(written))
      <4>1. \A i \in DOMAIN queue' : queue'[i] # Stop => i \in DOMAIN queue /\ queue'[i] = queue[i]
        BY <1>1, <2>2, SMTT(20)
      <4> QED
        BY <4>1, Zenon DEF QueueInv, QueueFits
    <3>5. at = "newline" => written # <<>> /\ written[Len(written)] = Head(queue')
      BY <1>1, <2>2 DEF QueueInv, QueueFits
    <3> QED
      BY <2>1, <3>2, <3>3, <3>4, <3>5 DEF QueueFits
  <2>4. Ordered'
    BY <1>1, <2>1 DEF QueueInv, Ordered
  <2>5. AppFits'
    BY <1>1, <2>1, <2>2 DEF QueueInv, AppFits
  <2>6. Accounted'
    <3>1. 1..events \subseteq Range(written) \cup failed \cup Range(queue)
      BY DEF QueueInv, Accounted
    <3>2. Range(queue) \subseteq Range(queue')
      BY <1>1, <2>2 DEF Range
    <3>3. Range(written)' = Range(written)
      BY <2>1 DEF Range
    <3> QED
      BY <2>1, <3>1, <3>2, <3>3 DEF Accounted, Range
  <2> QED
    BY <2>3, <2>4, <2>5, <2>6 DEF QueueInv
<1>7. CASE Join
  <2>1. AppFits'
    BY <1>1, <1>7 DEF Join, QueueInv, AppFits
  <2> QED
    BY <1>2, <1>7, <2>1 DEF Join
<1>8. CASE EndProcess
  <2>1. /\ app' = "off" /\ queue' = <<>> /\ at' = "gone" /\ UNCHANGED <<events, written>>
        /\ failed' = failed \cup {x \in Range(queue) : x # Stop}
    BY <1>8 DEF EndProcess
  <2>2. QueueFits' /\ Ordered' /\ AppFits'
    BY <2>1 DEF QueueInv, QueueFits, Ordered, AppFits
  <2>3. Accounted'
    <3>1. 1..events \subseteq Range(written) \cup failed \cup Range(queue)
      BY DEF QueueInv, Accounted
    <3>2. \A x \in 1..events : x # Stop
      BY <1>1
    <3>3. 1..events \subseteq Range(written) \cup failed'
      BY <2>1, <3>1, <3>2, Zenon
    <3>4. Range(written)' = Range(written)
      BY <2>1 DEF Range
    <3> QED
      BY <2>1, <3>3, <3>4 DEF Accounted
  <2> QED
    BY <2>2, <2>3 DEF QueueInv
<1>9. CASE Receive
  <2>1. CASE Head(queue) = Stop
    <3>1. /\ queue # <<>> /\ queue' = Tail(queue) /\ at' = "gone" /\ at = "recv"
          /\ UNCHANGED <<app, events, written, failed>>
      BY <1>9, <2>1 DEF Receive, Finish
    <3>2. Head(queue) = queue[1] /\ 1 \in DOMAIN queue /\ Len(queue') = Len(queue) - 1 /\ queue' \in Seq(0..MaxEvents)
      BY <1>1, <3>1, TailFacts
    <3>3. Len(queue) = 1
      <4>1. \A j \in DOMAIN queue : ~(1 < j)
        BY <2>1, <3>2 DEF QueueInv, QueueFits
      <4>2. Len(queue) \in DOMAIN queue
        BY <1>1, <3>2
      <4> QED
        BY <1>1, <3>2, <4>1, <4>2
    <3>4. queue' = <<>>
      BY <3>2, <3>3, SMTT(20)
    <3>5. QueueFits' /\ Ordered'
      BY <3>1, <3>4 DEF QueueInv, QueueFits, Ordered
    <3>6. AppFits'
      BY <1>1, <2>1, <3>1, <3>2, <3>4, Zenon DEF QueueInv, AppFits
    <3>7. Accounted'
      <4>1. 1..events \subseteq Range(written) \cup failed \cup Range(queue)
        BY DEF QueueInv, Accounted
      <4>2. \A x \in Range(queue) : x = Stop
        BY <1>1, <2>1, <3>2, <3>3 DEF Range
      <4>3. \A x \in 1..events : x # Stop
        BY <1>1
      <4>4. 1..events \subseteq Range(written) \cup failed
        BY <4>1, <4>2, <4>3, Zenon
      <4>5. Range(written)' = Range(written)
        BY <3>1 DEF Range
      <4> QED
        BY <3>1, <4>4, <4>5 DEF Accounted
    <3> QED
      BY <3>5, <3>6, <3>7 DEF QueueInv
  <2>2. CASE Head(queue) # Stop /\ Finish("Err")
    BY <1>9, <2>2, FinishQueue DEF Receive
  <2>3. CASE at' = "check" /\ UNCHANGED <<index, queue, failed>>
    <3>1. AppFits'
      BY <1>9, <2>3 DEF Receive, QueueInv, AppFits
    <3> QED
      BY <1>2, <1>9, <2>3, <3>1 DEF Receive
  <2> QED
    BY <1>9, <2>1, <2>2, <2>3 DEF Receive
<1>10. CASE RotateIfNeeded
  <2>1. CASE Finish("Err")
    BY <1>1, <1>10, <2>1, FinishQueue DEF RotateIfNeeded
  <2>2. CASE at' \in {"append", "remove"} /\ UNCHANGED <<index, queue, failed>>
    <3>1. AppFits'
      BY <1>10, <2>2 DEF RotateIfNeeded, QueueInv, AppFits
    <3> QED
      BY <1>2, <1>10, <2>2, <3>1 DEF RotateIfNeeded
  <2> QED
    BY <1>10, <2>1, <2>2 DEF RotateIfNeeded
<1>11. CASE RemoveOldest
  <2>1. CASE Finish("Err")
    BY <1>1, <1>11, <2>1, FinishQueue DEF RemoveOldest
  <2>2. CASE at' = "rename" /\ UNCHANGED <<queue, failed, cut>>
    <3>1. AppFits'
      BY <1>11, <2>2 DEF RemoveOldest, QueueInv, AppFits
    <3> QED
      BY <1>2, <1>11, <2>2, <3>1 DEF RemoveOldest
  <2> QED
    BY <1>11, <2>1, <2>2 DEF RemoveOldest
<1>12. CASE Rename
  <2>1. CASE Finish("Err")
    BY <1>1, <1>12, <2>1, FinishQueue DEF Rename
  <2>2. CASE at' \in {"append", "rename"} /\ UNCHANGED <<queue, failed, cut>>
    <3>1. AppFits'
      BY <1>12, <2>2 DEF Rename, QueueInv, AppFits
    <3> QED
      BY <1>2, <1>12, <2>2, <3>1 DEF Rename
  <2> QED
    BY <1>12, <2>1, <2>2 DEF Rename
<1>13. CASE AppendRecord
  <2>1. CASE Finish("Err") /\ UNCHANGED written
    BY <1>1, <1>13, <2>1, FinishQueue, Zenon DEF AppendRecord
  <2>2. CASE written' = Append(written, Head(queue)) /\ at' = "newline" /\ UNCHANGED <<index, queue, failed>>
    <3>1. /\ at = "append" /\ UNCHANGED <<app, events>>
          /\ queue # <<>> /\ Head(queue) # Stop /\ Head(queue) = queue[1] /\ 1 \in DOMAIN queue
          /\ Head(queue) \in 1..MaxEvents /\ \A i \in DOMAIN queue : i \in Nat /\ i >= 1
      BY <1>1, <1>13, TailFacts DEF AppendRecord
    <3>2. /\ DOMAIN written' = 1..(Len(written) + 1) /\ written'[Len(written) + 1] = Head(queue)
          /\ \A n \in 1..Len(written) : written'[n] = written[n]
          /\ Len(written') = Len(written) + 1 /\ written' # <<>>
      <4>1. PICK e \in 1..MaxEvents : e = Head(queue)
        BY <3>1, Zenon
      <4> QED
        BY <1>1, <2>2, <4>1, AppendFacts
    <3>3. \A n \in DOMAIN written : written[n] < queue[1] /\ written[n] \in Nat
      <4>1. \A n \in DOMAIN written : written[n] < queue[1]
        BY <3>1, Zenon DEF QueueInv, QueueFits
      <4> QED
        BY <1>1, <4>1
    <3>4. \A i \in DOMAIN queue : queue[i] # Stop /\ i # 1 => queue[1] < queue[i]
      <4>1. \A i \in DOMAIN queue : i # 1 => 1 < i
        BY <3>1
      <4> QED
        BY <3>1, <4>1, Zenon DEF QueueInv, QueueFits
    <3>5. \A i \in DOMAIN queue, n \in DOMAIN written' :
            queue[i] # Stop => written'[n] < queue[i] \/ (i = 1 /\ n = Len(written'))
      <4>1. SUFFICES ASSUME NEW i \in DOMAIN queue, NEW n \in DOMAIN written', queue[i] # Stop
                     PROVE  written'[n] < queue[i] \/ (i = 1 /\ n = Len(written'))
        OBVIOUS
      <4>2. CASE n = Len(written) + 1
        BY <3>1, <3>2, <3>4, <4>1, <4>2, Zenon
      <4>3. CASE n \in DOMAIN written
        BY <1>1, <3>1, <3>2, <4>1, <4>3, Zenon DEF QueueInv, QueueFits
      <4> QED
        BY <1>1, <3>2, <4>2, <4>3
    <3>6. QueueFits'
      BY <2>2, <3>1, <3>2, <3>5, Zenon DEF QueueInv, QueueFits
    <3>7. Ordered'
      <4>1. queue[1] <= events
        BY <3>1 DEF QueueInv, QueueFits
      <4>2. \A m, n \in DOMAIN written' : m < n => written'[m] < written'[n]
        <5>1. \A m, n \in DOMAIN written : m < n => written[m] < written[n]
          BY DEF QueueInv, Ordered
        <5>2. \A n \in DOMAIN written' : n \in DOMAIN written \/ n = Len(written) + 1
          BY <1>1, <3>2
        <5>3. SUFFICES ASSUME NEW m \in DOMAIN written', NEW n \in DOMAIN written', m < n
                       PROVE  written'[m] < written'[n]
          OBVIOUS
        <5>4. m \in DOMAIN written /\ written'[m] = written[m]
          BY <1>1, <3>2, <5>2, <5>3
        <5>5. CASE n \in DOMAIN written
          BY <1>1, <3>2, <5>1, <5>3, <5>4, <5>5
        <5>6. CASE n = Len(written) + 1
          BY <3>1, <3>2, <3>3, <5>4, <5>6
        <5> QED
          BY <5>2, <5>5, <5>6
      <4>3. \A n \in DOMAIN written' : written'[n] <= events
        <5>1. \A n \in DOMAIN written : written[n] <= events
          BY DEF QueueInv, Ordered
        <5>2. \A n \in DOMAIN written' : n \in DOMAIN written \/ n = Len(written) + 1
          BY <1>1, <3>2
        <5> QED
          BY <1>1, <3>1, <3>2, <4>1, <5>1, <5>2, Zenon
      <4> QED
        BY <3>1, <4>2, <4>3 DEF Ordered
    <3>8. AppFits'
      BY <2>2, <3>1 DEF QueueInv, AppFits
    <3>9. Accounted'
      <4>1. Range(written) \subseteq Range(written')
        BY <1>1, <3>2 DEF Range
      <4>2. 1..events \subseteq Range(written) \cup failed \cup Range(queue)
        BY DEF QueueInv, Accounted
      <4>3. Range(queue)' = Range(queue)
        BY <2>2 DEF Range
      <4> QED
        BY <2>2, <3>1, <4>1, <4>2, <4>3, Zenon DEF Accounted, Range
    <3> QED
      BY <3>6, <3>7, <3>8, <3>9 DEF QueueInv
  <2> QED
    BY <1>13, <2>1, <2>2, Zenon DEF AppendRecord
<1>14. CASE AppendNewLine
  BY <1>1, <1>14, FinishQueue, Zenon DEF AppendNewLine
<1>15. CASE LogEvent /\ app # "on"
  <2>1. /\ events' = events + 1 /\ failed' = failed \cup {events + 1}
        /\ UNCHANGED <<app, at, queue, written>>
    BY <1>15 DEF LogEvent
  <2>2. QueueFits'
    <3>1. \A i \in DOMAIN queue : queue[i] \in Nat /\ queue[i] <= events
      BY <1>1, SMTT(20) DEF QueueInv, QueueFits
    <3>2. \A i \in DOMAIN queue : queue[i] <= events + 1
      BY <1>1, <3>1
    <3> QED
      BY <2>1, <3>2 DEF QueueInv, QueueFits
  <2>3. Ordered'
    BY <1>1, <2>1 DEF QueueInv, Ordered
  <2>4. AppFits'
    BY <2>1 DEF QueueInv, AppFits
  <2>5. Accounted'
    <3>1. 1..events \subseteq Range(written) \cup failed \cup Range(queue)
      BY DEF QueueInv, Accounted
    <3>2. \A x \in 1..events' : x \in 1..events \/ x = events + 1
      BY <1>1, <2>1
    <3>3. Range(written)' = Range(written) /\ Range(queue)' = Range(queue)
      BY <2>1, Zenon DEF Range
    <3> QED
      BY <2>1, <3>1, <3>2, <3>3 DEF Accounted, Range
  <2> QED
    BY <2>2, <2>3, <2>4, <2>5 DEF QueueInv
<1> QED
  BY <1>3, <1>4, <1>5, <1>6, <1>7, <1>8, <1>9, <1>10, <1>11, <1>12, <1>13, <1>14, <1>15, Zenon
  DEF Next, WriterStep, ReaderStep, StartReading, InspectFile, ReadFile, ReadTail, writerVars

-----------------------------------------------------------------------------
(***************************************************************************)
(* The writer's knowledge of the files.                                    *)
(***************************************************************************)
\* Steps of the application and the reader leave the writer where it is, or end it.
LEMMA OthersAt ==
  ASSUME Elsewhere, ~Receive, ~RotateIfNeeded
  PROVE  at' \in {"gone", "recv"} \/ UNCHANGED <<at, index>>
BY DEF Elsewhere, Initialize, LogEvent, Shutdown, Join, EndProcess, StartReading, InspectFile,
       ReadFile, ReadTail, writerVars

\* Every step keeps WriterFits.
LEMMA WriterFitsStep ==
  ASSUME TypeOK, WriterFits, Next
  PROVE  WriterFits'
<1>1. /\ Texts \in [Indices -> Seq(Entries)] /\ Size(0) = Len(Texts[0]) /\ 0 \in Indices
      /\ \A i \in Indices : Len(Texts[i]) \in Nat
      /\ \A i \in Indices : Len(Texts[i]) <= MaxLogRecords
      /\ Present \subseteq Indices /\ index \in Indices
  <2>1. Texts \in [Indices -> Seq(Entries)] /\ Present \subseteq Indices /\ 0 \in Indices
    BY TextFacts
  <2>2. Size(0) = Len(Texts[0])
    BY <2>1, TextFacts
  <2>3. \A i \in Indices : Texts[i] \in Seq(Entries)
    BY <2>1
  <2>4. \A i \in Indices : Len(Texts[i]) \in Nat
    BY <2>3
  <2>5. index \in Indices
    BY DEF TypeOK
  <2> QED
    BY <2>1, <2>2, <2>4, <2>5, Zenon DEF WriterFits
<1>2. CASE Elsewhere
  <2>1. Texts' = Texts /\ Present' = Present
    BY <1>2, ElsewhereEffect
  <2>2. CASE at' \in {"gone", "recv", "check"} \/ UNCHANGED <<at, index>>
    BY <2>1, <2>2 DEF WriterFits
  <2>3. CASE Receive
    BY <2>2, <2>3 DEF Receive, Finish
  <2>4. CASE RotateIfNeeded
    <3>1. CASE Size(0) + 1 <= MaxLogRecords /\ at' = "append"
      BY <1>1, <2>1, <3>1 DEF WriterFits
    <3>2. CASE Size(0) + 1 > MaxLogRecords /\ at' = "remove"
      BY <1>1, <2>1, <3>2 DEF WriterFits
    <3>3. CASE Finish("Err")
      BY <2>2, <3>3 DEF Finish
    <3> QED
      BY <2>4, <3>1, <3>2, <3>3, Zenon DEF RotateIfNeeded
  <2> QED
    BY <1>2, <2>2, <2>3, <2>4, OthersAt
<1>3. CASE RemoveOldest
  <2>1. CASE /\ Texts' = [Texts EXCEPT ![Oldest] = <<>>] /\ Present' = Present \ {Oldest}
             /\ at' = "rename" /\ index' = Oldest - 1
    <3>1. Texts' \in [Indices -> Seq(Entries)] /\ \A i \in Indices : Texts'[i] = Texts[i] \/ Texts'[i] = <<>>
      BY <1>1, <2>1
    <3>2. \A i \in Indices : Len(Texts'[i]) <= MaxLogRecords
      <4>1. Len(<<>>) = 0
        OBVIOUS
      <4> QED
        BY <1>1, <3>1, <4>1, Bounds
    <3> QED
      BY <2>1, <3>2 DEF WriterFits
  <2>2. CASE Texts' = Texts /\ Present' = Present /\ Finish("Err")
    BY <2>2 DEF WriterFits, Finish
  <2> QED
    BY <1>3, <2>1, <2>2, RemoveEffect
<1>4. CASE Rename
  <2>1. at = "rename" /\ index < Oldest /\ index + 1 \notin Present /\ index + 1 \in Indices
    BY <1>1, <1>4 DEF Rename, WriterFits
  <2>2. CASE /\ index \in Present
             /\ Texts' = [Texts EXCEPT ![index] = <<>>, ![index + 1] = Texts[index]]
             /\ Present' = (Present \ {index}) \cup {index + 1}
             /\ \/ index = 0 /\ at' = "append" /\ index' = index
                \/ index # 0 /\ at' = "rename" /\ index' = index - 1
    <3>1. /\ Texts'[index] = <<>> /\ Texts'[index + 1] = Texts[index]
          /\ \A i \in Indices \ {index, index + 1} : Texts'[i] = Texts[i]
      BY <1>1, <2>1, <2>2
    <3>2. \A i \in Indices : Len(Texts'[i]) <= MaxLogRecords
      <4>1. SUFFICES ASSUME NEW i \in Indices PROVE Len(Texts'[i]) <= MaxLogRecords
        OBVIOUS
      <4>2. CASE i = index
        BY <3>1, <4>2
      <4>3. CASE i = index + 1
        BY <1>1, <3>1, <4>3
      <4>4. CASE i \notin {index, index + 1}
        BY <1>1, <3>1, <4>4
      <4> QED
        BY <4>2, <4>3, <4>4
    <3>3. Texts'[index] = <<>>
      BY <1>1, <2>1, <2>2
    <3>4. at' = "append" => Len(Texts'[0]) < MaxLogRecords
      BY <2>2, <3>3
    <3>5. at' = "rename" => index' < Oldest /\ index' + 1 \notin Present'
      BY <1>1, <2>1, <2>2
    <3> QED
      BY <2>2, <3>2, <3>4, <3>5, Zenon DEF WriterFits
  <2>3. CASE /\ index \notin Present /\ Texts' = Texts /\ Present' = Present
             /\ \/ index = 0 /\ at' = "append" /\ index' = index
                \/ index # 0 /\ at' = "rename" /\ index' = index - 1
    <3>1. Texts[index] = <<>>
      BY <1>1, <2>3, TextFacts
    <3>2. at' = "append" => Len(Texts'[0]) < MaxLogRecords
      BY <2>3, <3>1
    <3>3. at' = "rename" => index' < Oldest /\ index' + 1 \notin Present'
      BY <1>1, <2>1, <2>3, SMTT(20)
    <3> QED
      BY <1>1, <2>3, <3>2, <3>3, Zenon DEF WriterFits
  <2>4. CASE Texts' = Texts /\ Present' = Present /\ Finish("Err")
    BY <2>4 DEF WriterFits, Finish
  <2> QED
    BY <1>4, <2>2, <2>3, <2>4, RenameEffect, Zenon
<1>5. CASE AppendRecord
  <2>1. Len(Texts[0]) < MaxLogRecords
    BY <1>5 DEF AppendRecord, WriterFits
  <2>2. CASE Texts' = Texts /\ Finish("Err")
    BY <2>2 DEF WriterFits, Finish
  <2>3. ASSUME NEW e \in Entries, Texts' = [Texts EXCEPT ![0] = Append(Texts[0], e)],
               at' = "newline", Present' = Present \cup {0}
        PROVE  WriterFits'
    <3>1. Len(Append(Texts[0], e)) = Len(Texts[0]) + 1
      BY <1>1, AppendFacts
    <3>2. Texts'[0] = Append(Texts[0], e) /\ \A i \in Indices : i # 0 => Texts'[i] = Texts[i]
      BY <1>1, <2>3
    <3>3. \A i \in Indices : Len(Texts'[i]) <= MaxLogRecords
      <4>1. Len(Texts'[0]) <= MaxLogRecords
        BY <1>1, <2>1, <3>1, <3>2, Bounds
      <4> QED
        BY <1>1, <3>2, <4>1, Zenon
    <3>4. Len(Texts'[0]) > 0
      BY <1>1, <3>1, <3>2
    <3> QED
      BY <2>3, <3>3, <3>4 DEF WriterFits
  <2> QED
    BY <1>5, <2>2, <2>3, AppendEffect, Zenon
<1>6. CASE AppendNewLine
  <2>1. at' = "recv"
    BY <1>6 DEF AppendNewLine, Finish
  <2>2. \A i \in Indices : Len(Texts'[i]) = Len(Texts[i])
    <3>1. CASE Texts' = Texts
      BY <3>1
    <3>2. ASSUME NEW t \in Seq(Entries), Texts' = [Texts EXCEPT ![0] = t], Len(t) = Len(Texts[0])
          PROVE  \A i \in Indices : Len(Texts'[i]) = Len(Texts[i])
      BY <1>1, <3>2
    <3> QED
      BY <1>6, <3>1, <3>2, NewLineEffect, Zenon
  <2> QED
    BY <1>1, <2>1, <2>2, Zenon DEF WriterFits
<1> QED
  BY <1>2, <1>3, <1>4, <1>5, <1>6 DEF Next, WriterStep, ReaderStep, Elsewhere

\* Every step keeps OneToALine.
LEMMA OneToALineStep ==
  ASSUME TypeOK, AppFits, WriterFits, OneToALine, Next
  PROVE  OneToALine'
<1>1. torn => torn'
  BY Zenon DEF Next, Initialize, LogEvent, Shutdown, Join, EndProcess, WriterStep, Receive,
    RotateIfNeeded, RemoveOldest, Rename, AppendRecord, AppendNewLine, StartReading, ReaderStep,
    InspectFile, ReadFile, ReadTail, writerVars
<1>2. SUFFICES ASSUME ~torn'
               PROVE  \A i \in Indices : \A n \in DOMAIN Texts'[i] :
                        Texts'[i][n].ended \/ (i = 0 /\ at' = "newline" /\ n = Len(Texts'[0]))
  BY Zenon DEF OneToALine
<1>3. \A i \in Indices : \A n \in DOMAIN Texts[i] :
        Texts[i][n].ended \/ (i = 0 /\ at = "newline" /\ n = Len(Texts[0]))
  BY <1>1, <1>2, Zenon DEF OneToALine
<1>4. Texts \in [Indices -> Seq(Entries)] /\ 0 \in Indices
  BY TextFacts
<1>5. CASE Elsewhere
  <2>1. Texts' = Texts
    BY <1>5, ElsewhereEffect
  <2>2. at = "newline" => at' = "newline"
    <3>1. CASE EndProcess
      BY <1>2, <3>1, Zenon DEF EndProcess
    <3>2. CASE ~EndProcess
      BY <1>5, <3>2, Zenon DEF Elsewhere, AppFits, Initialize, LogEvent, Shutdown, Join, Receive,
        RotateIfNeeded, StartReading, InspectFile, ReadFile, ReadTail, writerVars
    <3> QED
      BY <3>1, <3>2
  <2> QED
    BY <1>3, <2>1, <2>2, Zenon
<1>6. CASE RemoveOldest
  <2>1. at # "newline"
    BY <1>6 DEF RemoveOldest
  <2>2. \A i \in Indices : Texts'[i] = Texts[i] \/ Texts'[i] = <<>>
    BY <1>4, <1>6, RemoveEffect, Zenon
  <2> QED
    BY <1>3, <2>1, <2>2
<1>7. CASE Rename
  <2>1. at # "newline" /\ index \in Indices /\ index + 1 \in Indices
    BY <1>7, Bounds, SMTT(20) DEF Rename, WriterFits, TypeOK
  <2>2. \A i \in Indices : Texts'[i] = Texts[i] \/ Texts'[i] = <<>> \/ Texts'[i] = Texts[index]
    BY <1>4, <1>7, <2>1, RenameEffect, Zenon
  <2> QED
    BY <1>3, <2>1, <2>2, SMTT(30)
<1>8. CASE AppendRecord
  <2>1. at # "newline"
    BY <1>8 DEF AppendRecord
  <2>2. CASE Texts' = Texts
    BY <1>3, <2>1, <2>2
  <2>3. ASSUME NEW e \in Entries, Texts' = [Texts EXCEPT ![0] = Append(Texts[0], e)], at' = "newline"
        PROVE  \A i \in Indices : \A n \in DOMAIN Texts'[i] :
                 Texts'[i][n].ended \/ (i = 0 /\ at' = "newline" /\ n = Len(Texts'[0]))
    <3>1. Texts'[0] = Append(Texts[0], e) /\ \A i \in Indices : i # 0 => Texts'[i] = Texts[i]
      BY <1>4, <2>3
    <3>2. SUFFICES ASSUME NEW n \in DOMAIN Texts'[0], n # Len(Texts'[0]) PROVE Texts'[0][n].ended
      BY <1>3, <2>1, <2>3, <3>1, Zenon
    <3>3. Texts[0] \in Seq(Entries)
      BY <1>4
    <3>4. n \in DOMAIN Texts[0] /\ Texts'[0][n] = Texts[0][n]
      BY <3>1, <3>2, <3>3, AppendFacts
    <3> QED
      BY <1>3, <1>4, <2>1, <3>4
  <2> QED
    BY <1>8, <2>2, <2>3, AppendEffect
<1>9. CASE AppendNewLine
  <2>1. PICK t \in Seq(Entries) :
          /\ Texts' = [Texts EXCEPT ![0] = t] /\ Len(t) = Len(Texts[0])
          /\ \A n \in DOMAIN t : Texts[0][n].ended \/ n = Len(t) => t[n].ended
    <3>1. \/ \E t \in Seq(Entries) :
               /\ Texts' = [Texts EXCEPT ![0] = t] /\ Len(t) = Len(Texts[0])
               /\ \A n \in DOMAIN t : Texts[0][n].ended \/ n = Len(t) => t[n].ended
          \/ torn'
      BY <1>9, NewLineEffect, Zenon
    <3> QED
      BY <1>2, <3>1, Zenon
  <2>2. Texts'[0] = t /\ \A i \in Indices : i # 0 => Texts'[i] = Texts[i]
    BY <1>4, <2>1
  <2>3. Texts[0] \in Seq(Entries)
    BY <1>4
  <2>4. DOMAIN t = DOMAIN Texts[0]
    BY <2>1, <2>3
  <2>5. \A n \in DOMAIN t : t[n].ended
    BY <1>3, <1>4, <2>1, <2>4, Zenon
  <2> QED
    BY <1>3, <2>2, <2>5, Zenon
<1> QED
  BY <1>5, <1>6, <1>7, <1>8, <1>9 DEF Next, WriterStep, ReaderStep, Elsewhere

-----------------------------------------------------------------------------
(***************************************************************************)
(* How the steps of the writer move the marks.                             *)
(***************************************************************************)
\* An entry of a file is an entry of the log, at a place that the marks tell.
LEMMA DivisionFacts ==
  ASSUME NEW mark \in Marks, NEW log \in Seq(1..MaxEvents),
         NEW texts \in [Indices -> Seq(Entries)], Division(mark, log, texts)
  PROVE  /\ \A i \in 0..MaxLogFiles : mark[i] \in Nat /\ mark[i] <= Len(log)
         /\ \A i \in Indices : i + 1 \in 0..MaxLogFiles /\ i \in 0..MaxLogFiles
         /\ \A i \in Indices : texts[i] \in Seq(Entries) /\ DOMAIN texts[i] = 1..(mark[i] - mark[i + 1])
         /\ \A i \in Indices : \A n \in DOMAIN texts[i] :
              mark[i + 1] + n \in 1..Len(log) /\ mark[i + 1] + n <= mark[i]
         /\ \A i \in Indices : texts[i] = <<>> => mark[i] = mark[i + 1]
<1>1. \A i \in 0..MaxLogFiles : mark[i] \in Nat /\ mark[i] <= Len(log)
  <2>1. 0 \in 0..MaxLogFiles /\ \A i \in 0..MaxLogFiles : 0 <= i
    BY Bounds
  <2> QED
    BY <2>1, Zenon DEF Marks, Division
<1>2. \A i \in Indices : i + 1 \in 0..MaxLogFiles /\ i \in 0..MaxLogFiles
  BY Bounds
<1>3. ASSUME NEW i \in Indices
      PROVE  /\ texts[i] \in Seq(Entries) /\ DOMAIN texts[i] = 1..(mark[i] - mark[i + 1])
             /\ texts[i] = <<>> => mark[i] = mark[i + 1]
             /\ \A n \in DOMAIN texts[i] : mark[i + 1] + n \in 1..Len(log) /\ mark[i + 1] + n <= mark[i]
  <2>1. texts[i] \in Seq(Entries) /\ Len(texts[i]) = mark[i] - mark[i + 1]
    BY DEF Division
  <2>2. DOMAIN texts[i] = 1..(mark[i] - mark[i + 1])
    BY <2>1
  <2>3. mark[i] \in Nat /\ mark[i + 1] \in Nat /\ mark[i] <= Len(log) /\ Len(log) \in Nat
    BY <1>1, <1>2
  <2>4. texts[i] = <<>> => mark[i] = mark[i + 1]
    BY <2>1, <2>3, SMTT(20)
  <2>5. ASSUME NEW n \in DOMAIN texts[i]
        PROVE  mark[i + 1] + n \in 1..Len(log) /\ mark[i + 1] + n <= mark[i]
    <3>1. PICK a \in Nat, b \in Nat, l \in Nat : a = mark[i] /\ b = mark[i + 1] /\ l = Len(log)
      BY <2>3, Zenon
    <3>2. n \in 1..(a - b) /\ a <= l
      BY <2>2, <2>3, <3>1, Zenon
    <3>3. b + n \in 1..l /\ b + n <= a
      BY <3>2
    <3> QED
      BY <3>1, <3>3, Zenon
  <2> QED
    BY <2>1, <2>2, <2>4, <2>5, Zenon
<1> QED
  BY <1>1, <1>2, <1>3, Zenon

\* The end of a line changes no record.
LEMMA DivisionKept ==
  ASSUME NEW mark \in Marks, NEW log \in Seq(1..MaxEvents),
         NEW texts \in [Indices -> Seq(Entries)], Division(mark, log, texts),
         NEW t \in Seq(Entries), Len(t) = Len(texts[0]),
         \A n \in DOMAIN t : t[n].record = texts[0][n].record,
         NEW new, new = [texts EXCEPT ![0] = t]
  PROVE  Division(mark, log, new)
<1>1. 0 \in Indices /\ texts[0] \in Seq(Entries)
  BY Bounds
<1>2. new[0] = t /\ \A i \in Indices : i # 0 => new[i] = texts[i]
  BY <1>1
<1>3. DOMAIN t = DOMAIN texts[0]
  BY <1>1
<1>4. \A i \in Indices : Len(new[i]) = Len(texts[i])
  BY <1>2, Zenon
<1>5. \A i \in Indices : \A n \in DOMAIN new[i] : n \in DOMAIN texts[i] /\ new[i][n].record = texts[i][n].record
  BY <1>2, <1>3
<1>6. \A i \in Indices : Len(new[i]) = mark[i] - mark[i + 1]
  BY <1>4, Zenon DEF Division
<1>7. ASSUME NEW i \in Indices, NEW n \in DOMAIN new[i]
      PROVE  new[i][n].record = log[mark[i + 1] + n]
  <2>1. n \in DOMAIN texts[i] /\ new[i][n].record = texts[i][n].record
    BY <1>5, Zenon
  <2> QED
    BY <2>1, Zenon DEF Division
<1> QED
  BY <1>6, <1>7, Zenon DEF Division

\* Lengths and positions when one record is added.
LEMMA OneMore ==
  ASSUME NEW a \in Nat, NEW b \in Nat, NEW l \in Nat, l = a - b
  PROVE  /\ l + 1 = (a + 1) - b /\ b + (l + 1) = a + 1
         /\ \A n \in 1..(l + 1) : n \in 1..l \/ n = l + 1
OBVIOUS

\* A record that is appended comes last in the log and in the active file.
LEMMA DivisionGrows ==
  ASSUME NEW mark \in Marks, NEW log \in Seq(1..MaxEvents),
         NEW texts \in [Indices -> Seq(Entries)], Division(mark, log, texts), NEW e \in Entries,
         NEW new, new[0] = Append(texts[0], e), \A i \in Indices : i # 0 => new[i] = texts[i],
         NEW more, more = Append(log, e.record),
         NEW next \in Marks, next[0] = mark[0] + 1, \A i \in 1..MaxLogFiles : next[i] = mark[i]
  PROVE  Division(next, more, new)
<1>1. 0 \in Indices /\ texts[0] \in Seq(Entries) /\ e.record \in 1..MaxEvents /\ 0 \in 0..MaxLogFiles
  <2>1. 0 \in Indices /\ 0 \in 0..MaxLogFiles
    BY Bounds
  <2>2. e.record \in 1..MaxEvents
    BY DEF Entries
  <2> QED
    BY <2>1, <2>2
<1>2. new[0] = Append(texts[0], e) /\ \A i \in Indices : i # 0 => new[i] = texts[i]
  BY <1>1
<1>3. /\ next[0] = mark[0] + 1 /\ mark[0] \in Nat /\ next \in Marks
      /\ \A i \in 1..MaxLogFiles : next[i] = mark[i] /\ i \in 0..MaxLogFiles
  <2>1. mark[0] \in Nat
    BY <1>1 DEF Marks
  <2>2. \A i \in 1..MaxLogFiles : i \in 0..MaxLogFiles
    BY Bounds
  <2> QED
    BY <2>1, <2>2, Zenon
<1>4. /\ Len(more) = Len(log) + 1 /\ Len(log) \in Nat /\ more[Len(log) + 1] = e.record
      /\ \A n \in 1..Len(log) : more[n] = log[n]
  BY <1>1, AppendFacts, SMTT(20)
<1>5. next[0] = Len(more)
  BY <1>3, <1>4, Zenon DEF Division
<1>6. ASSUME NEW i \in 0..MaxLogFiles, NEW j \in 0..MaxLogFiles, i <= j
      PROVE  next[j] <= next[i]
  <2>1. mark[j] <= mark[i] /\ mark[i] \in Nat /\ mark[j] \in Nat
    BY <1>6, Zenon DEF Division, Marks
  <2>2. (i = 0 \/ i \in 1..MaxLogFiles) /\ (j = 0 \/ j \in 1..MaxLogFiles)
    BY Bounds
  <2>3. (i = 0 \/ next[i] = mark[i]) /\ (j = 0 \/ next[j] = mark[j])
    BY <1>3, <2>2, Zenon
  <2>4. CASE j = 0
    BY <1>3, <1>6, <2>4, SMTT(20)
  <2>5. CASE j # 0
    BY <1>3, <2>1, <2>3, <2>5, SMTT(30)
  <2> QED
    BY <2>4, <2>5, Zenon
<1>7. ASSUME NEW i \in Indices
      PROVE  /\ Len(new[i]) = next[i] - next[i + 1]
             /\ \A n \in DOMAIN new[i] : new[i][n].record = more[next[i + 1] + n]
  <2>1. /\ i + 1 \in 1..MaxLogFiles /\ next[i + 1] = mark[i + 1] /\ mark[i + 1] \in Nat
        /\ i \in 0..MaxLogFiles /\ mark[i] \in Nat
    <3>1. i + 1 \in 1..MaxLogFiles /\ i + 1 \in 0..MaxLogFiles /\ i \in 0..MaxLogFiles
      BY Bounds
    <3>2. mark[i + 1] \in Nat /\ mark[i] \in Nat
      BY <3>1, Zenon DEF Marks
    <3> QED
      BY <1>3, <3>1, <3>2, Zenon
  <2>2. ASSUME NEW n \in DOMAIN texts[i] PROVE texts[i][n].record = more[next[i + 1] + n]
    <3>1. mark[i + 1] + n \in 1..Len(log) /\ texts[i][n].record = log[mark[i + 1] + n]
      BY DivisionFacts, Zenon DEF Division
    <3> QED
      BY <1>4, <2>1, <3>1
  <2>3. CASE i # 0
    <3>1. new[i] = texts[i] /\ next[i] = mark[i]
      BY <1>2, <1>3, <2>1, <2>3
    <3> QED
      BY <2>1, <2>2, <3>1, Zenon DEF Division
  <2>4. CASE i = 0
    <3>1. /\ Len(new[i]) = Len(texts[i]) + 1 /\ DOMAIN texts[i] = 1..Len(texts[i])
          /\ DOMAIN new[i] = 1..(Len(texts[i]) + 1) /\ Len(texts[i]) \in Nat
          /\ new[i][Len(texts[i]) + 1] = e /\ \A n \in 1..Len(texts[i]) : new[i][n] = texts[i][n]
      <4>1. PICK t \in Seq(Entries) : t = texts[i] /\ new[i] = Append(t, e)
        BY <1>1, <1>2, <2>4, Zenon
      <4>2. /\ Len(Append(t, e)) = Len(t) + 1 /\ DOMAIN t = 1..Len(t)
            /\ DOMAIN Append(t, e) = 1..(Len(t) + 1) /\ Len(t) \in Nat
            /\ Append(t, e)[Len(t) + 1] = e /\ \A n \in 1..Len(t) : Append(t, e)[n] = t[n]
        BY AppendFacts, SMTT(30)
      <4> QED
        BY <4>1, <4>2, Zenon
    <3>2. Len(texts[i]) = mark[i] - mark[i + 1] /\ mark[i] = Len(log) /\ next[i] = mark[i] + 1
      BY <1>3, <2>4, Zenon DEF Division
    <3>3. PICK a \in Nat, b \in Nat, l \in Nat : a = mark[i] /\ b = mark[i + 1] /\ l = Len(texts[i])
      BY <2>1, <3>1, Zenon
    <3>4. /\ l + 1 = (a + 1) - b /\ b + (l + 1) = a + 1
          /\ \A n \in 1..(l + 1) : n \in 1..l \/ n = l + 1
      <4>1. l = a - b
        BY <3>2, <3>3, Zenon
      <4> QED
        BY <4>1, OneMore
    <3>5. Len(new[i]) = next[i] - next[i + 1]
      BY <2>1, <3>1, <3>2, <3>3, <3>4, Zenon
    <3>6. ASSUME NEW n \in DOMAIN new[i] PROVE new[i][n].record = more[next[i + 1] + n]
      <4>1. CASE n \in 1..Len(texts[i])
        BY <2>2, <3>1, <4>1, Zenon
      <4>2. CASE n = Len(texts[i]) + 1
        <5>1. next[i + 1] + n = Len(log) + 1
          BY <2>1, <3>2, <3>3, <3>4, <4>2, Zenon
        <5> QED
          <6>1. new[i][n] = e /\ more[next[i + 1] + n] = e.record
            BY <1>4, <3>1, <4>2, <5>1, Zenon
          <6> QED
            BY <6>1, Zenon
      <4> QED
        BY <3>1, <3>3, <3>4, <4>1, <4>2, Zenon
    <3> QED
      BY <3>5, <3>6, Zenon
  <2> QED
    BY <2>3, <2>4, Zenon
<1> QED
  BY <1>3, <1>5, <1>6, <1>7, Zenon DEF Division

\* The oldest file is the one before the last mark.
LEMMA LastMark ==
      /\ Oldest \in Indices /\ Oldest \in 0..MaxLogFiles /\ MaxLogFiles \in 0..MaxLogFiles
      /\ Oldest # MaxLogFiles /\ Oldest + 1 = MaxLogFiles /\ 0 \in 0..MaxLogFiles /\ 0 # MaxLogFiles
      /\ \A i \in Indices : i \in 0..MaxLogFiles /\ i # MaxLogFiles /\ i + 1 \in 0..MaxLogFiles
      /\ \A i \in Indices : i # Oldest => i + 1 # MaxLogFiles
      /\ \A i \in 0..MaxLogFiles : i # MaxLogFiles => i \in Indices /\ i <= Oldest
BY Bounds

\* When the oldest file is removed, its records are the log's oldest no more.
LEMMA DivisionShrinks ==
  ASSUME NEW mark \in Marks, NEW log \in Seq(1..MaxEvents),
         NEW texts \in [Indices -> Seq(Entries)], Division(mark, log, texts),
         NEW new, new = [texts EXCEPT ![Oldest] = <<>>],
         NEW next, next = [mark EXCEPT ![MaxLogFiles] = mark[Oldest]]
  PROVE  next \in Marks /\ Division(next, log, new)
<1>1. /\ Oldest \in Indices /\ Oldest \in 0..MaxLogFiles /\ MaxLogFiles \in 0..MaxLogFiles
      /\ Oldest # MaxLogFiles /\ Oldest + 1 = MaxLogFiles /\ 0 \in 0..MaxLogFiles /\ 0 # MaxLogFiles
      /\ \A i \in Indices : i \in 0..MaxLogFiles /\ i # MaxLogFiles /\ i + 1 \in 0..MaxLogFiles
      /\ \A i \in Indices : i # Oldest => i + 1 # MaxLogFiles
      /\ \A i \in 0..MaxLogFiles : i # MaxLogFiles => i \in Indices /\ i <= Oldest
  BY LastMark, Zenon
<1>2. mark \in [0..MaxLogFiles -> Nat]
  BY DEF Marks
<1>3. next \in [0..MaxLogFiles -> Nat] /\ next[MaxLogFiles] = mark[Oldest]
      /\ \A i \in 0..MaxLogFiles : i # MaxLogFiles => next[i] = mark[i]
  BY <1>1, <1>2, Zenon
<1>4. new[Oldest] = <<>> /\ \A i \in Indices : i # Oldest => new[i] = texts[i]
  BY <1>1, Zenon
<1>5. next[0] = Len(log)
  BY <1>1, <1>3, Zenon DEF Division
<1>6. ASSUME NEW i \in 0..MaxLogFiles, NEW j \in 0..MaxLogFiles, i <= j
      PROVE  next[j] <= next[i]
  <2>1. mark[j] <= mark[i]
    BY <1>6, Zenon DEF Division
  <2>2. CASE j # MaxLogFiles
    <3>1. i # MaxLogFiles
      BY <1>6, <2>2, Bounds
    <3> QED
      BY <1>3, <2>1, <2>2, <3>1, Zenon
  <2>3. CASE j = MaxLogFiles /\ i # MaxLogFiles
    <3>1. mark[Oldest] <= mark[i]
      BY <1>1, <2>3, Zenon DEF Division
    <3> QED
      BY <1>3, <2>3, <3>1, Zenon
  <2>4. CASE j = MaxLogFiles /\ i = MaxLogFiles
    <3>1. mark[Oldest] <= mark[Oldest]
      BY <1>1, Zenon DEF Division
    <3> QED
      BY <1>3, <2>4, <3>1, Zenon
  <2> QED
    BY <2>2, <2>3, <2>4
<1>7. ASSUME NEW i \in Indices
      PROVE  /\ Len(new[i]) = next[i] - next[i + 1]
             /\ \A n \in DOMAIN new[i] : new[i][n].record = log[next[i + 1] + n]
  <2>1. CASE i = Oldest
    <3>1. PICK a \in Nat : a = mark[Oldest]
      BY <1>1, <1>2, Zenon
    <3>2. next[i] = a /\ next[i + 1] = a /\ new[i] = <<>>
      BY <1>1, <1>3, <1>4, <2>1, <3>1, Zenon
    <3>3. Len(<<>>) = a - a /\ DOMAIN <<>> = {}
      OBVIOUS
    <3> QED
      BY <3>2, <3>3, Zenon
  <2>2. CASE i # Oldest
    <3>1. new[i] = texts[i] /\ next[i] = mark[i] /\ next[i + 1] = mark[i + 1]
      BY <1>1, <1>3, <1>4, <2>2, Zenon
    <3> QED
      BY <3>1, Zenon DEF Division
  <2> QED
    BY <2>1, <2>2, Zenon
<1> QED
  BY <1>3, <1>5, <1>6, <1>7, Zenon DEF Division, Marks

\* Where the marks on both sides of a file are.
LEMMA Neighbours ==
  ASSUME NEW k \in Indices, NEW l, l = k + 1, l \in Indices
  PROVE  /\ k \in 0..MaxLogFiles /\ l \in 0..MaxLogFiles /\ l + 1 \in 0..MaxLogFiles /\ k # l
         /\ l + 1 # l /\ l # 0 /\ 0 \in 0..MaxLogFiles /\ MaxLogFiles \in 0..MaxLogFiles /\ l # MaxLogFiles
         /\ \A i \in Indices : i \in 0..MaxLogFiles /\ i + 1 \in 0..MaxLogFiles
         /\ \A i \in Indices : i # k => i + 1 # l
         /\ \A i \in 0..MaxLogFiles : (i <= l /\ i # l => i <= k) /\ (l <= i => k <= i)
BY Bounds

\* File k becomes file l, the next one, in the texts and in the marks.
Moves(k, l, texts, new) ==
  /\ l = k + 1 /\ new[k] = <<>> /\ new[l] = texts[k]
  /\ \A i \in Indices : i # k /\ i # l => new[i] = texts[i]
Shifts(k, l, mark, next) ==
  /\ next \in Marks /\ next[l] = mark[k]
  /\ \A i \in 0..MaxLogFiles : i # l => next[i] = mark[i]

\* When a file is renamed into a gap, the gap is where it was.
LEMMA DivisionMoves ==
  ASSUME NEW mark \in Marks, NEW log \in Seq(1..MaxEvents),
         NEW texts \in [Indices -> Seq(Entries)], Division(mark, log, texts),
         NEW k \in Indices, NEW l \in Indices, texts[l] = <<>>,
         NEW new, Moves(k, l, texts, new), NEW next, Shifts(k, l, mark, next)
  PROVE  Division(next, log, new)
<1>0. l = k + 1
  BY Zenon DEF Moves
<1>1. /\ k \in 0..MaxLogFiles /\ l \in 0..MaxLogFiles /\ l + 1 \in 0..MaxLogFiles /\ k # l
      /\ l + 1 # l /\ l # 0 /\ 0 \in 0..MaxLogFiles /\ MaxLogFiles \in 0..MaxLogFiles /\ l # MaxLogFiles
      /\ \A i \in Indices : i \in 0..MaxLogFiles /\ i + 1 \in 0..MaxLogFiles
      /\ \A i \in Indices : i # k => i + 1 # l
      /\ \A i \in 0..MaxLogFiles : (i <= l /\ i # l => i <= k) /\ (l <= i => k <= i)
  BY <1>0, Neighbours, Zenon
<1>2. mark \in [0..MaxLogFiles -> Nat]
  BY Zenon DEF Marks
<1>3. next \in [0..MaxLogFiles -> Nat] /\ next[l] = mark[k]
      /\ \A i \in 0..MaxLogFiles : i # l => next[i] = mark[i]
  BY Zenon DEF Marks, Shifts
<1>4. new[k] = <<>> /\ new[l] = texts[k] /\ \A i \in Indices : i # k /\ i # l => new[i] = texts[i]
  BY Zenon DEF Moves
<1>5. next[0] = Len(log)
  BY <1>1, <1>3, Zenon DEF Division
<1>6. ASSUME NEW i \in 0..MaxLogFiles, NEW j \in 0..MaxLogFiles, i <= j
      PROVE  next[j] <= next[i]
  <2>1. mark[j] <= mark[i]
    BY <1>6, Zenon DEF Division
  <2>2. CASE i # l /\ j # l
    BY <1>3, <2>1, <2>2, Zenon
  <2>3. CASE i # l /\ j = l
    <3>1. mark[k] <= mark[i]
      BY <1>1, <1>6, <2>3, Zenon DEF Division
    <3> QED
      BY <1>3, <2>3, <3>1, Zenon
  <2>4. CASE i = l /\ j # l
    <3>1. mark[j] <= mark[k]
      BY <1>1, <1>6, <2>4, Zenon DEF Division
    <3> QED
      BY <1>3, <2>4, <3>1, Zenon
  <2>5. CASE i = l /\ j = l
    <3>1. k <= k
      BY Bounds
    <3>2. mark[k] <= mark[k]
      BY <1>1, <3>1, Zenon DEF Division
    <3> QED
      BY <1>3, <2>5, <3>2, Zenon
  <2> QED
    BY <2>2, <2>3, <2>4, <2>5, Zenon
<1>7. mark[l + 1] = mark[l]
  BY DivisionFacts, Zenon
<1>8. ASSUME NEW i \in Indices
      PROVE  /\ Len(new[i]) = next[i] - next[i + 1]
             /\ \A n \in DOMAIN new[i] : new[i][n].record = log[next[i + 1] + n]
  <2>1. CASE i = k
    <3>1. PICK a \in Nat : a = mark[k]
      BY <1>1, <1>2, Zenon
    <3>2. next[i] = a /\ next[i + 1] = a /\ new[i] = <<>>
      BY <1>0, <1>1, <1>3, <1>4, <2>1, <3>1, Zenon
    <3>3. Len(<<>>) = a - a /\ DOMAIN <<>> = {}
      OBVIOUS
    <3> QED
      BY <3>2, <3>3
  <2>2. CASE i = l
    <3>1. new[i] = texts[k] /\ next[i] = mark[k] /\ next[i + 1] = mark[k + 1]
      BY <1>0, <1>1, <1>3, <1>4, <1>7, <2>2, Zenon
    <3>2. Len(texts[k]) = mark[k] - mark[k + 1]
          /\ \A n \in DOMAIN texts[k] : texts[k][n].record = log[mark[k + 1] + n]
      BY Zenon DEF Division
    <3> QED
      BY <3>1, <3>2, Zenon
  <2>3. CASE i # k /\ i # l
    <3>1. new[i] = texts[i] /\ next[i] = mark[i] /\ next[i + 1] = mark[i + 1]
      BY <1>1, <1>3, <1>4, <2>3, Zenon
    <3>2. Len(texts[i]) = mark[i] - mark[i + 1]
          /\ \A n \in DOMAIN texts[i] : texts[i][n].record = log[mark[i + 1] + n]
      BY Zenon DEF Division
    <3> QED
      BY <3>1, <3>2, Zenon
  <2> QED
    BY <2>1, <2>2, <2>3, Zenon
<1> QED
  BY <1>3, <1>5, <1>6, <1>8, Zenon DEF Division, Marks

\* The active file is full: after the oldest is gone, so are all that are left.
LEMMA GaplessRemoved ==
  ASSUME NEW mark \in Marks, NEW texts, NEW present, Gapless(mark, 0, texts, present),
         Len(texts[0]) = MaxLogRecords, 0 \in present,
         Oldest \notin present => mark[Oldest] = mark[MaxLogFiles],
         NEW next, next[MaxLogFiles] = mark[Oldest], NEW new, NEW there, there = present \ {Oldest},
         \A i \in Indices : i # Oldest => new[i] = texts[i]
  PROVE  Gapless(next, Oldest, new, there)
<1>1. Oldest \in Indices /\ Oldest # 0 /\ 0 \in Indices /\ \A i \in Indices : i <= Oldest /\ (i <= 0 => i = 0)
  BY Bounds, SMTT(20)
<1>2. ASSUME NEW i \in Indices, i # Oldest, i \in there
      PROVE  Len(new[i]) = MaxLogRecords /\ \A j \in Indices : j <= i /\ j # Oldest => j \in there
  <2>1. CASE i = 0
    BY <1>1, <1>2, <2>1, Zenon
  <2>2. CASE i # 0
    <3>1. i \in present
      BY <1>2
    <3>2. Len(texts[i]) = MaxLogRecords /\ \A j \in Indices : j <= i /\ j # 0 => j \in present
      BY <2>2, <3>1, Zenon DEF Gapless
    <3>3. \A j \in Indices : j <= i /\ j # Oldest => j \in there
      BY <3>2, Zenon
    <3> QED
      BY <1>2, <3>2, <3>3, Zenon
  <2> QED
    BY <2>1, <2>2
<1>3. ASSUME NEW i \in Indices, i # Oldest, next[MaxLogFiles] > 0
      PROVE  i \in there
  <2>1. CASE i = 0
    BY <1>1, <2>1, Zenon
  <2>2. CASE i # 0 /\ Oldest \in present
    <3>1. i \in present
      BY <1>1, <2>2, Zenon DEF Gapless
    <3> QED
      BY <1>3, <3>1
  <2>3. CASE i # 0 /\ Oldest \notin present
    <3>1. mark[MaxLogFiles] > 0
      BY <1>3, <2>3, Zenon
    <3>2. i \in present
      BY <2>3, <3>1, Zenon DEF Gapless
    <3> QED
      BY <1>3, <3>2
  <2> QED
    BY <2>1, <2>2, <2>3, Zenon
<1> HIDE DEF Oldest, Indices
<1> QED
  BY <1>2, <1>3, Zenon DEF Gapless

\* A file that is renamed leaves the hole behind.
LEMMA GaplessMoved ==
  ASSUME NEW mark, NEW k \in Indices, NEW l \in Indices, NEW texts, NEW present,
         Gapless(mark, l, texts, present), k \in present,
         NEW next, next[MaxLogFiles] = mark[MaxLogFiles],
         NEW there, there = (present \ {k}) \cup {l},
         NEW new, Moves(k, l, texts, new)
  PROVE  Gapless(next, k, new, there)
<1>0. /\ l = k + 1 /\ new[l] = texts[k]
      /\ \A i \in Indices : i # k /\ i # l => new[i] = texts[i]
  BY Zenon DEF Moves
<1>1. k # l /\ \A j \in Indices : j <= l /\ j # l => j <= k
  BY <1>0, Neighbours, Zenon
<1>2. ASSUME NEW i \in Indices, i # k, i \in there
      PROVE  Len(new[i]) = MaxLogRecords /\ \A j \in Indices : j <= i /\ j # k => j \in there
  <2>1. CASE i = l
    <3>1. Len(texts[k]) = MaxLogRecords /\ \A j \in Indices : j <= k /\ j # l => j \in present
      BY <1>1, Zenon DEF Gapless
    <3>2. \A j \in Indices : j <= i /\ j # k => j \in there
      BY <1>1, <2>1, <3>1
    <3> QED
      BY <1>0, <2>1, <3>1, <3>2, Zenon
  <2>2. CASE i # l
    <3>1. i \in present
      BY <1>2, <2>2
    <3>2. Len(texts[i]) = MaxLogRecords /\ \A j \in Indices : j <= i /\ j # l => j \in present
      BY <2>2, <3>1, Zenon DEF Gapless
    <3>3. \A j \in Indices : j <= i /\ j # k => j \in there
      BY <3>2, Zenon
    <3> QED
      BY <1>0, <1>2, <2>2, <3>2, <3>3, Zenon
  <2> QED
    BY <2>1, <2>2
<1>3. ASSUME NEW i \in Indices, i # k, next[MaxLogFiles] > 0
      PROVE  i \in there
  <2>1. i # l => i \in present
    BY <1>3, Zenon DEF Gapless
  <2> QED
    BY <1>3, <2>1
<1> HIDE DEF Oldest, Indices
<1> QED
  BY <1>2, <1>3, Zenon DEF Gapless

\* Where there is no file to rename, there is none behind it either.
LEMMA GaplessPassed ==
  ASSUME NEW mark, NEW k \in Indices, NEW l, l = k + 1, l \in Indices, NEW texts, NEW present,
         Gapless(mark, l, texts, present), k \notin present, l \notin present
  PROVE  Gapless(mark, k, texts, present)
<1>1. k # l /\ \A i \in Indices : i # k => i <= k \/ k <= i
  BY Neighbours
<1>2. ASSUME NEW i \in Indices, i # k, i \in present
      PROVE  Len(texts[i]) = MaxLogRecords /\ \A j \in Indices : j <= i /\ j # k => j \in present
  <2>1. i # l
    BY <1>2
  <2>2. Len(texts[i]) = MaxLogRecords /\ \A j \in Indices : j <= i /\ j # l => j \in present
    BY <1>2, <2>1, Zenon DEF Gapless
  <2>3. ~(k <= i)
    BY <1>1, <2>2, Zenon
  <2>4. ~(l <= i)
    BY <2>3
  <2> QED
    BY <2>2, <2>4, Zenon
<1>3. ~(mark[MaxLogFiles] > 0)
  BY <1>1, Zenon DEF Gapless
<1> HIDE DEF Oldest, Indices
<1> QED
  BY <1>2, <1>3, Zenon DEF Gapless

\* Steps that are not the writer's file operations move the hole only by interrupting a rotation.
LEMMA HoleKept ==
  ASSUME AppFits, Elsewhere
  PROVE  (cut => cut') /\ (cut' \/ Hole' = Hole)
<1>1. CASE EndProcess
  <2>1. cut' = (cut \/ at \in {"remove", "rename"})
    BY <1>1 DEF EndProcess
  <2>2. CASE at = "rename"
    BY <2>1, <2>2, Zenon
  <2>3. CASE at # "rename"
    <3>1. Hole' = Hole
      BY <1>1, <2>3 DEF EndProcess, Hole
    <3> QED
      BY <2>1, <3>1, Zenon
  <2> QED
    BY <2>2, <2>3
<1>2. CASE ~EndProcess
  <2>1. cut' = cut
    BY <1>2, Zenon DEF Elsewhere, Initialize, LogEvent, Shutdown, Join, Receive, RotateIfNeeded,
      StartReading, InspectFile, ReadFile, ReadTail, writerVars
  <2>2. at = "rename" => at' = at /\ index' = index
    BY <1>2, Zenon DEF Elsewhere, AppFits, Initialize, LogEvent, Shutdown, Join, Receive, RotateIfNeeded,
      StartReading, InspectFile, ReadFile, ReadTail, writerVars
  <2>3. at # "rename" => at' # "rename"
    BY <1>2, Zenon DEF Elsewhere, AppFits, Initialize, LogEvent, Shutdown, Join, Receive, RotateIfNeeded,
      StartReading, InspectFile, ReadFile, ReadTail, writerVars, Finish
  <2>4. Hole' = Hole
    BY <2>2, <2>3 DEF Hole
  <2> QED
    BY <2>1, <2>4, Zenon
<1> QED
  BY <1>1, <1>2

\* The marks after a step: nothing but a rotation moves those of the older files.
Follows(mark, new) ==
  /\ Divides(new)' /\ Steady(new)'
  /\ ~quiet' \/ \A i \in 1..MaxLogFiles : new[i] = mark[i]

\* Marks that still divide the log follow themselves.
LEMMA FollowsKept ==
  ASSUME NEW mark \in Marks, Division(mark, written', Texts'), Steady(mark)'
  PROVE  \E new \in Marks : Follows(mark, new)
<1>1. Follows(mark, mark)
  BY Zenon DEF Follows, Divides
<1> QED
  BY <1>1, Zenon

\* The marks after the oldest file was removed.
LEMMA RemoveMarks ==
  ASSUME TypeOK, WriterFits, NEW mark \in Marks, Divides(mark), Steady(mark), RemoveOldest
  PROVE  \E new \in Marks : Follows(mark, new)
<1>1. /\ Texts \in [Indices -> Seq(Entries)] /\ written \in Seq(1..MaxEvents) /\ written' = written
      /\ Division(mark, written, Texts) /\ at = "remove" /\ Len(Texts[0]) = MaxLogRecords
  BY TextFacts, RemoveEffect, Zenon DEF TypeOK, Divides, WriterFits
<1>2. CASE Texts' = Texts /\ cut' = TRUE
  BY <1>1, <1>2, FollowsKept, Zenon DEF Steady
<1>3. CASE /\ Texts' = [Texts EXCEPT ![Oldest] = <<>>] /\ Present' = Present \ {Oldest}
           /\ at' = "rename" /\ index' = Oldest - 1 /\ quiet' = FALSE /\ cut' = cut
  <2>1. PICK log \in Seq(1..MaxEvents), texts \in [Indices -> Seq(Entries)], present \in SUBSET Indices :
          log = written /\ texts = Texts /\ present = Present
    BY <1>1, TextFacts, Zenon
  <2>2. PICK new, there, next : /\ new = Texts' /\ there = Present'
                                /\ next = [mark EXCEPT ![MaxLogFiles] = mark[Oldest]]
    BY Zenon
  <2>3. Oldest \in Indices /\ Oldest + 1 = MaxLogFiles /\ 0 \in Indices /\ MaxLogFiles \in 0..MaxLogFiles
    BY Bounds
  <2>4. new = [texts EXCEPT ![Oldest] = <<>>] /\ there = present \ {Oldest}
    BY <1>3, <2>1, <2>2, Zenon
  <2>5. Division(mark, log, texts)
    BY <1>1, <2>1, Zenon DEF Division
  <2>6. next \in Marks /\ Division(next, log, new)
    BY <2>2, <2>4, <2>5, DivisionShrinks, Zenon
  <2>7. Hole = 0 /\ Hole' = Oldest
    BY <1>1, <1>3, Bounds DEF Hole
  <2>8. 0 \in present
    <3>1. Len(Texts[0]) # 0
      BY <1>1, Bounds
    <3> QED
      BY <2>1, <2>3, <3>1, TextFacts
  <2>9. Oldest \notin present => mark[Oldest] = mark[MaxLogFiles]
    <3>1. Oldest \notin present => texts[Oldest] = <<>>
      BY <2>1, <2>3, TextFacts, Zenon
    <3> HIDE DEF Oldest
    <3>2. texts[Oldest] = <<>> => mark[Oldest] = mark[Oldest + 1]
      BY <2>3, <2>5, DivisionFacts, Zenon
    <3> QED
      BY <2>3, <3>1, <3>2, Zenon
  <2>10. ASSUME ~cut' PROVE Gapless(next, Hole', Texts', Present')
    <3>1. Gapless(mark, 0, texts, present)
      BY <1>3, <2>1, <2>7, <2>10, Zenon DEF Steady, Gapless
    <3>2. next[MaxLogFiles] = mark[Oldest]
      BY <2>2, <2>3 DEF Marks
    <3>3. \A i \in Indices : i # Oldest => new[i] = texts[i]
      BY <2>4
    <3>4. Len(texts[0]) = MaxLogRecords
      BY <1>1, <2>1, Zenon
    <3>5. Gapless(next, Oldest, new, there)
      BY <2>4, <2>8, <2>9, <3>1, <3>2, <3>3, <3>4, GaplessRemoved, Zenon
    <3> QED
      BY <2>2, <2>7, <3>5, Zenon
  <2>11. Steady(next)'
    BY <2>10, Zenon DEF Steady
  <2>12. Divides(next)'
    BY <1>1, <2>1, <2>2, <2>6, Zenon DEF Divides
  <2>13. Follows(mark, next)
    BY <1>3, <2>11, <2>12, Zenon DEF Follows
  <2> QED
    BY <2>6, <2>13, Zenon
<1> QED
  BY <1>2, <1>3, RemoveEffect, Zenon

\* The marks after a file was renamed.
LEMMA RenameMarks ==
  ASSUME TypeOK, WriterFits, NEW mark \in Marks, Divides(mark), Steady(mark), Rename
  PROVE  \E new \in Marks : Follows(mark, new)
<1>1. /\ Texts \in [Indices -> Seq(Entries)] /\ written \in Seq(1..MaxEvents) /\ written' = written
      /\ Division(mark, written, Texts) /\ at = "rename" /\ index \in Indices
      /\ index < Oldest /\ index + 1 \notin Present
  BY TextFacts, RenameEffect, Zenon DEF TypeOK, Divides, WriterFits
<1>2. CASE Texts' = Texts /\ cut' = TRUE
  BY <1>1, <1>2, FollowsKept, Zenon DEF Steady
<1>3. CASE /\ \/ /\ index \in Present
                 /\ Texts' = [Texts EXCEPT ![index] = <<>>, ![index + 1] = Texts[index]]
                 /\ Present' = (Present \ {index}) \cup {index + 1}
              \/ index \notin Present /\ Texts' = Texts /\ Present' = Present
           /\ \/ index = 0 /\ at' = "append" /\ index' = index
              \/ index # 0 /\ at' = "rename" /\ index' = index - 1
           /\ quiet' = FALSE /\ cut' = cut
  <2>1. PICK log \in Seq(1..MaxEvents), texts \in [Indices -> Seq(Entries)], present \in SUBSET Indices :
          log = written /\ texts = Texts /\ present = Present
    BY <1>1, TextFacts, Zenon
  <2>2. PICK k \in Indices, l \in Indices : k = index /\ l = k + 1
    <3>1. index + 1 \in Indices
      BY <1>1, Bounds
    <3> QED
      BY <1>1, <3>1, Zenon
  <2>3. l \in Indices /\ l \notin present
    BY <1>1, <2>1, <2>2, Zenon
  <2>4. PICK new, there : new = Texts' /\ there = Present'
    BY Zenon
  <2>5. Division(mark, log, texts)
    BY <1>1, <2>1, Zenon DEF Division
  <2>6. texts[l] = <<>>
    BY <2>1, <2>3, TextFacts, Zenon
  <2>7. Hole = l /\ Hole' = k
    <3>1. Hole = index + 1
      BY <1>1, Zenon DEF Hole
    <3>2. CASE index = 0 /\ at' = "append"
      BY <2>2, <3>1, <3>2, Zenon DEF Hole
    <3>3. CASE index # 0 /\ at' = "rename" /\ index' = index - 1
      <4>1. (index - 1) + 1 = index
        BY <1>1
      <4> QED
        BY <2>2, <3>1, <3>3, <4>1, Zenon DEF Hole
    <3> QED
      BY <1>3, <3>2, <3>3, Zenon
  <2>8. ~cut' => Gapless(mark, l, texts, present)
    BY <1>3, <2>1, <2>7 DEF Steady, Gapless
  <2>9. CASE /\ k \in present /\ there = (present \ {k}) \cup {l}
             /\ new = [texts EXCEPT ![k] = <<>>, ![l] = texts[k]]
    <3>1. PICK next : next = [mark EXCEPT ![l] = mark[k]]
      BY Zenon
    <3>3. /\ new[k] = <<>> /\ new[l] = texts[k]
          /\ \A i \in Indices : i # k /\ i # l => new[i] = texts[i]
      BY <2>2, <2>3, <2>9
    <3>8. Moves(k, l, texts, new)
      BY <2>2, <3>3, Zenon DEF Moves
    <3>2. next \in Marks /\ Division(next, log, new) /\ next[MaxLogFiles] = mark[MaxLogFiles]
      <4>1. /\ k \in 0..MaxLogFiles /\ l \in 0..MaxLogFiles /\ MaxLogFiles \in 0..MaxLogFiles
            /\ l # MaxLogFiles
        BY <2>2, Neighbours
      <4>2. /\ next \in Marks /\ next[l] = mark[k]
            /\ \A i \in 0..MaxLogFiles : i # l => next[i] = mark[i]
        BY <3>1, <4>1, Zenon DEF Marks
      <4> HIDE DEF Indices
      <4>4. Shifts(k, l, mark, next)
        BY <4>2, Zenon DEF Shifts
      <4>3. Division(next, log, new)
        BY <2>5, <2>6, <3>8, <4>4, DivisionMoves, Zenon
      <4> QED
        BY <4>1, <4>2, <4>3, Zenon
    <3>4. ~cut' => Gapless(next, k, new, there)
      <4>1. SUFFICES ASSUME ~cut' PROVE Gapless(next, k, new, there)
        OBVIOUS
      <4>2. Gapless(mark, l, texts, present) /\ next[MaxLogFiles] = mark[MaxLogFiles]
        BY <2>8, <3>2, <4>1, Zenon
      <4>3. k \in present /\ there = (present \ {k}) \cup {l} /\ l = k + 1
        BY <2>2, <2>9
      <4> HIDE DEF Indices
      <4> QED
        BY <3>8, <4>2, <4>3, GaplessMoved, Zenon
    <3>5. Steady(next)'
      BY <2>4, <2>7, <3>4, Zenon DEF Steady
    <3>6. Divides(next)'
      BY <1>1, <2>1, <2>4, <3>2, Zenon DEF Divides
    <3>7. Follows(mark, next)
      BY <1>3, <3>5, <3>6, Zenon DEF Follows
    <3> QED
      BY <3>2, <3>7, Zenon
  <2>10. CASE k \notin present /\ there = present /\ new = texts
    <3>1. ~cut' => Gapless(mark, k, texts, present)
      BY <2>2, <2>3, <2>8, <2>10, GaplessPassed, Zenon
    <3>2. Steady(mark)'
      BY <2>4, <2>7, <2>10, <3>1, Zenon DEF Steady
    <3>3. Division(mark, written', Texts')
      BY <1>1, <2>1, <2>4, <2>5, <2>10, Zenon
    <3> QED
      BY <3>2, <3>3, FollowsKept, Zenon
  <2> QED
    BY <1>3, <2>1, <2>2, <2>4, <2>9, <2>10, Zenon
<1> QED
  BY <1>2, <1>3, RenameEffect, Zenon

\* The marks after a record was appended.
LEMMA AppendMarks ==
  ASSUME TypeOK, NEW mark \in Marks, Divides(mark), Steady(mark), AppendRecord
  PROVE  \E new \in Marks : Follows(mark, new)
<1>1. /\ Texts \in [Indices -> Seq(Entries)] /\ written \in Seq(1..MaxEvents)
      /\ Division(mark, written, Texts) /\ at = "append" /\ cut' = cut /\ 0 \in Indices
      /\ at' \in {"recv", "newline"}
  <2>1. at = "append" /\ cut' = cut /\ at' \in {"recv", "newline"}
    BY DEF AppendRecord, Finish
  <2> QED
    BY <2>1, TextFacts, SMTT(20) DEF TypeOK, Divides
<1>2. Hole = 0 /\ Hole' = 0
  BY <1>1, Zenon DEF Hole
<1>3. \A i \in Indices : i # 0 => (i \in Present' <=> i \in Present)
  BY AppendEffect, Zenon
<1>4. CASE Texts' = Texts /\ written' = written
  <2>1. ~cut' => Gapless(mark, 0, Texts', Present')
    BY <1>1, <1>2, <1>3, <1>4 DEF Steady, Gapless
  <2>2. Steady(mark)'
    BY <1>2, <2>1, Zenon DEF Steady
  <2>3. Division(mark, written', Texts')
    BY <1>1, <1>4, Zenon
  <2> QED
    BY <2>2, <2>3, FollowsKept, Zenon
<1>5. ASSUME NEW e \in Entries, e.record = Head(queue),
             Texts' = [Texts EXCEPT ![0] = Append(Texts[0], e)], written' = Append(written, Head(queue))
      PROVE  \E new \in Marks : Follows(mark, new)
  <2>1. PICK log \in Seq(1..MaxEvents), texts \in [Indices -> Seq(Entries)] : log = written /\ texts = Texts
    BY <1>1, Zenon
  <2>2. PICK new, more, next : /\ new = Texts' /\ more = written'
                               /\ next = [mark EXCEPT ![0] = mark[0] + 1]
    BY Zenon
  <2>3. new = [texts EXCEPT ![0] = Append(texts[0], e)] /\ more = Append(log, e.record)
    BY <1>5, <2>1, <2>2, Zenon
  <2>4. Division(mark, log, texts)
    BY <1>1, <2>1, Zenon DEF Division
  <2>5. /\ next \in Marks /\ Division(next, more, new)
        /\ \A i \in 1..MaxLogFiles : next[i] = mark[i]
    <3>1. new[0] = Append(texts[0], e) /\ \A i \in Indices : i # 0 => new[i] = texts[i]
      BY <1>1, <2>3, Zenon
    <3>2. 0 \in 0..MaxLogFiles /\ mark[0] \in Nat /\ mark[0] + 1 \in Nat
          /\ \A i \in 1..MaxLogFiles : i \in 0..MaxLogFiles /\ i # 0
      BY Bounds, SMTT(20) DEF Marks
    <3>3. /\ next \in Marks /\ next[0] = mark[0] + 1
          /\ \A i \in 1..MaxLogFiles : next[i] = mark[i]
      BY <2>2, <3>2, Zenon DEF Marks
    <3>4. Division(next, more, new)
      BY <2>3, <2>4, <3>1, <3>3, DivisionGrows, Zenon
    <3> QED
      BY <3>3, <3>4, Zenon
  <2>6. next[MaxLogFiles] = mark[MaxLogFiles]
    BY <2>5, Bounds
  <2>7. \A i \in Indices : i # 0 => Texts'[i] = Texts[i]
    BY <1>1, <1>5
  <2>8. ~cut' => Gapless(next, 0, Texts', Present')
    BY <1>1, <1>2, <1>3, <2>6, <2>7, Zenon DEF Steady, Gapless
  <2>9. Steady(next)'
    BY <1>2, <2>8, Zenon DEF Steady
  <2>10. Divides(next)'
    BY <2>2, <2>5, Zenon DEF Divides
  <2>11. Follows(mark, next)
    BY <2>5, <2>9, <2>10, Zenon DEF Follows
  <2> QED
    BY <2>5, <2>11, Zenon
<1> QED
  BY <1>4, <1>5, AppendEffect, Zenon

\* After every step there are marks again, and they follow from the old ones.
LEMMA MarksStep ==
  ASSUME TypeOK, AppFits, WriterFits, NEW mark \in Marks, Divides(mark), Steady(mark), Next
  PROVE  \E new \in Marks : Follows(mark, new)
<1>1. /\ Texts \in [Indices -> Seq(Entries)] /\ written \in Seq(1..MaxEvents)
      /\ Division(mark, written, Texts) /\ 0 \in Indices
  BY TextFacts DEF TypeOK, Divides
<1>2. CASE Elsewhere
  <2>1. written' = written /\ Texts' = Texts /\ Present' = Present
    BY <1>2, ElsewhereEffect
  <2>2. Division(mark, written', Texts')
    BY <1>1, <2>1, Zenon
  <2>3. Steady(mark)'
    BY <1>2, <2>1, HoleKept, Zenon DEF Steady
  <2> QED
    BY <2>2, <2>3, FollowsKept
<1>3. CASE AppendNewLine
  <2>1. /\ written' = written /\ Present' = Present /\ cut' = cut
        /\ at = "newline" /\ at' = "recv"
        /\ \/ Texts' = Texts
           \/ \E t \in Seq(Entries) : /\ Texts' = [Texts EXCEPT ![0] = t] /\ Len(t) = Len(Texts[0])
                                      /\ \A n \in DOMAIN t : t[n].record = Texts[0][n].record
    BY <1>3, NewLineEffect, Zenon DEF Finish
  <2>2. PICK log \in Seq(1..MaxEvents), texts \in [Indices -> Seq(Entries)] : log = written /\ texts = Texts
    BY <1>1, Zenon
  <2>3. PICK new : new = Texts'
    BY Zenon
  <2>4. Division(mark, log, texts)
    BY <1>1, <2>2, Zenon DEF Division
  <2>5. ASSUME NEW t \in Seq(Entries), new = [texts EXCEPT ![0] = t], Len(t) = Len(texts[0]),
               \A n \in DOMAIN t : t[n].record = texts[0][n].record
        PROVE  Division(mark, log, new) /\ \A i \in Indices : Len(new[i]) = Len(texts[i])
    <3>1. Division(mark, log, new)
      BY <2>4, <2>5, DivisionKept, Zenon
    <3> QED
      BY <1>1, <2>5, <3>1, Zenon
  <2>6. Division(mark, log, new) /\ \A i \in Indices : Len(new[i]) = Len(texts[i])
    BY <2>1, <2>2, <2>3, <2>4, <2>5, Zenon
  <2>7. Hole = 0 /\ Hole' = 0
    BY <2>1 DEF Hole
  <2>8. ~cut' => Gapless(mark, 0, Texts', Present')
    BY <2>1, <2>2, <2>3, <2>6, <2>7, Zenon DEF Steady, Gapless
  <2>9. Steady(mark)'
    BY <2>7, <2>8, Zenon DEF Steady
  <2>10. Division(mark, written', Texts')
    BY <2>1, <2>2, <2>3, <2>6, Zenon
  <2> QED
    BY <2>9, <2>10, FollowsKept
<1> QED
  BY <1>2, <1>3, RemoveMarks, RenameMarks, AppendMarks, Zenon DEF Next, WriterStep, ReaderStep, Elsewhere

-----------------------------------------------------------------------------
(***************************************************************************)
(* Sequences, and sequences of lines.                                      *)
(***************************************************************************)
LEMMA SubSeqFacts ==
  ASSUME NEW S, NEW t \in Seq(S), NEW a \in 0..Len(t), NEW b \in a..Len(t)
  PROVE  /\ SubSeq(t, a + 1, b) \in Seq(S) /\ Len(SubSeq(t, a + 1, b)) = b - a
         /\ \A i \in 1..(b - a) : SubSeq(t, a + 1, b)[i] = t[a + i]
OBVIOUS

\* What the concatenation of two sequences holds.
LEMMA ConcatFacts ==
  ASSUME NEW S, NEW s \in Seq(S), NEW t \in Seq(S)
  PROVE  /\ s \o t \in Seq(S) /\ Len(s \o t) = Len(s) + Len(t) /\ Len(s) \in Nat /\ Len(t) \in Nat
         /\ \A n \in 1..Len(s) : (s \o t)[n] = s[n]
         /\ \A n \in 1..Len(t) : (s \o t)[Len(s) + n] = t[n]
OBVIOUS

\* Two adjacent pieces of a sequence, one behind the other, are one piece.
LEMMA ConcatAdjacent ==
  ASSUME NEW S, NEW t \in Seq(S), NEW a \in 0..Len(t), NEW b \in a..Len(t), NEW c \in b..Len(t)
  PROVE  SubSeq(t, a + 1, b) \o SubSeq(t, b + 1, c) = SubSeq(t, a + 1, c)
<1>1. PICK u : u = SubSeq(t, a + 1, b)
  BY Zenon
<1>2. PICK v : v = SubSeq(t, b + 1, c)
  BY Zenon
<1>3. PICK w : w = SubSeq(t, a + 1, c)
  BY Zenon
<1>4. u \in Seq(S) /\ Len(u) = b - a /\ \A i \in 1..(b - a) : u[i] = t[a + i]
  BY <1>1, SubSeqFacts
<1>5. v \in Seq(S) /\ Len(v) = c - b /\ \A i \in 1..(c - b) : v[i] = t[b + i]
  BY <1>2, SubSeqFacts
<1>6. w \in Seq(S) /\ Len(w) = c - a /\ \A i \in 1..(c - a) : w[i] = t[a + i]
  BY <1>3, SubSeqFacts
<1>7. /\ u \o v \in Seq(S) /\ Len(u \o v) = Len(u) + Len(v)
      /\ \A n \in 1..Len(u) : (u \o v)[n] = u[n]
      /\ \A n \in 1..Len(v) : (u \o v)[Len(u) + n] = v[n]
  <2>1. u \in Seq(S) /\ v \in Seq(S)
    BY <1>4, <1>5
  <2> QED
    BY <2>1
<1>8. PICK x \in Seq(S) : x = u \o v
  BY <1>7, Zenon
<1>9. ASSUME NEW i \in 1..(c - a) PROVE x[i] = w[i]
  <2>1. CASE i <= b - a
    <3>1. i \in 1..(b - a)
      BY <2>1
    <3> QED
      BY <1>4, <1>6, <1>7, <1>8, <3>1, Zenon
  <2>2. CASE i > b - a
    <3>1. PICK j \in 1..(c - b) : j = i - (b - a)
      <4>1. i - (b - a) \in 1..(c - b)
        BY <2>2
      <4> QED
        BY <4>1, Zenon
    <3>2. (b - a) + j = i /\ b + j = a + i
      BY <3>1
    <3>3. x[(b - a) + j] = t[b + j] /\ w[i] = t[a + i]
      BY <1>4, <1>5, <1>6, <1>7, <1>8, Zenon
    <3> QED
      BY <3>2, <3>3, Zenon
  <2> QED
    BY <2>1, <2>2
<1>10. Len(x) = c - a
  <2>1. Len(x) = (b - a) + (c - b)
    BY <1>4, <1>5, <1>7, <1>8, Zenon
  <2> QED
    BY <2>1
<1>11. x = w
  BY <1>6, <1>9, <1>10
<1> QED
  BY <1>1, <1>2, <1>3, <1>8, <1>11, Zenon

\* A line is empty or of a record; only a record's can be without its end.
LEMMA LineFacts ==
  ASSUME NEW e \in Lines
  PROVE  /\ e.record \in 0..MaxEvents /\ e.record \in Nat /\ e.ended \in BOOLEAN
         /\ e = Blank <=> e.record = 0
         /\ ~e.ended => e.record # 0
<1>1. Blank.record = 0 /\ Blank.ended
  BY DEF Blank
<1>2. CASE e = Blank
  <2>1. 0 \in 0..MaxEvents /\ 0 \in Nat
    OBVIOUS
  <2> QED
    BY <1>1, <1>2, <2>1, Zenon
<1>3. CASE e \in Entries
  <2>1. e.record \in 1..MaxEvents
    BY <1>3 DEF Entries
  <2>2. e.ended \in BOOLEAN
    BY <1>3, Zenon DEF Entries
  <2>3. e.record \in 0..MaxEvents /\ e.record \in Nat /\ e.record # 0
    BY <2>1
  <2> QED
    BY <1>1, <2>2, <2>3, Zenon
<1> QED
  BY <1>2, <1>3 DEF Lines

\* Records with the same fields are the same.
LEMMA SameFields ==
  ASSUME NEW S, NEW T, NEW d \in [record : S, ended : T], NEW e \in [record : S, ended : T],
         d.record = e.record, d.ended = e.ended
  PROVE  d = e
BY SMT

\* An empty line has its end.
LEMMA BlankFacts ==
  ASSUME NEW b \in BOOLEAN
  PROVE  [Blank EXCEPT !.ended = @ \/ b] = Blank /\ [Blank EXCEPT !.ended = TRUE] = Blank
<1>1. Blank \in [record : {0}, ended : BOOLEAN] /\ Blank.ended = TRUE
  BY Zenon DEF Blank
<1>2. ASSUME NEW c \in BOOLEAN, c = TRUE
      PROVE  [Blank EXCEPT !.ended = c] = Blank
  <2>1. [Blank EXCEPT !.ended = c] \in [record : {0}, ended : BOOLEAN]
    BY <1>1, Zenon
  <2>2. [Blank EXCEPT !.ended = c].record = Blank.record /\ [Blank EXCEPT !.ended = c].ended = Blank.ended
    BY <1>1, <1>2, Zenon
  <2> QED
    BY <1>1, <2>1, <2>2, SameFields, Zenon
<1>3. (Blank.ended \/ b) \in BOOLEAN /\ (Blank.ended \/ b) = TRUE
  BY <1>1, Zenon
<1> QED
  BY <1>2, <1>3, Zenon

\* What the iterator returns of a text.
LEMMA LinesOfFacts ==
  ASSUME NEW f \in Seq(Lines)
  PROVE  /\ LinesOf(f) \in Seq(Lines) /\ Len(LinesOf(f)) = Len(f)
         /\ \A n \in 1..Len(f) : LinesOf(f)[n].record = f[n].record
         /\ \A n \in 1..Len(f) : f[n].ended \/ n = Len(f) => LinesOf(f)[n].ended
<1>1. DOMAIN f = 1..Len(f) /\ Len(f) \in Nat /\ \A n \in 1..Len(f) : f[n] \in Lines
  OBVIOUS
<1>2. ASSUME NEW e \in Lines, NEW b \in BOOLEAN
      PROVE  /\ [e EXCEPT !.ended = @ \/ b] \in Lines
             /\ [e EXCEPT !.ended = @ \/ b].record = e.record
             /\ [e EXCEPT !.ended = @ \/ b].ended = (e.ended \/ b)
  <2>1. CASE e \in Entries
    BY <2>1, Zenon DEF Entries, Lines
  <2>2. CASE e = Blank
    <3>1. [e EXCEPT !.ended = @ \/ b] = Blank
      BY <2>2, BlankFacts, Zenon
    <3>2. Blank.ended = (Blank.ended \/ b)
      BY Zenon DEF Blank
    <3> QED
      BY <2>2, <3>1, <3>2, Zenon
  <2> QED
    BY <2>1, <2>2, Zenon DEF Lines
<1>3. ASSUME NEW n \in 1..Len(f)
      PROVE  /\ LinesOf(f)[n] \in Lines /\ LinesOf(f)[n].record = f[n].record
             /\ f[n].ended \/ n = Len(f) => LinesOf(f)[n].ended
  <2>1. LinesOf(f)[n] = [f[n] EXCEPT !.ended = @ \/ n = Len(f)]
    BY <1>1 DEF LinesOf
  <2>2. (n = Len(f)) \in BOOLEAN /\ f[n] \in Lines
    BY <1>1
  <2> QED
    BY <2>1, <2>2, <1>2, Zenon
<1>4. LinesOf(f) \in [1..Len(f) -> Lines]
  BY <1>1, <1>3, Zenon DEF LinesOf
<1>5. LinesOf(f) \in Seq(Lines) /\ Len(LinesOf(f)) = Len(f)
  BY <1>1, <1>4, FunctionIsSeq
<1> QED
  BY <1>3, <1>5

\* The end of a line is that of the last one, or an empty line behind it.
LEMMA EndLineFacts ==
  ASSUME NEW t \in Seq(Lines)
  PROVE  /\ EndLine(t) \in Seq(Lines) /\ EndLine(t) # <<>>
         /\ t = <<>> => DOMAIN EndLine(t) = {1} /\ EndLine(t)[1].record = 0 /\ EndLine(t)[1].ended
         /\ t # <<>> => /\ Len(EndLine(t)) = Len(t) /\ DOMAIN EndLine(t) = DOMAIN t
                        /\ \A n \in DOMAIN t : EndLine(t)[n].record = t[n].record
                        /\ \A n \in DOMAIN t : t[n].ended \/ n = Len(t) => EndLine(t)[n].ended
<1>1. CASE t # <<>>
  <2>1. Len(t) \in DOMAIN t /\ DOMAIN t = 1..Len(t) /\ Len(t) \in Nat /\ \A n \in 1..Len(t) : t[n] \in Lines
    BY <1>1
  <2>2. ASSUME NEW e \in Lines
        PROVE  /\ [e EXCEPT !.ended = TRUE] \in Lines /\ [e EXCEPT !.ended = TRUE].record = e.record
               /\ [e EXCEPT !.ended = TRUE].ended
    <3>1. CASE e \in Entries
      BY <3>1, Zenon DEF Entries, Lines
    <3>2. CASE e = Blank
      <4>1. [Blank EXCEPT !.ended = TRUE] = Blank
        BY BlankFacts, Zenon
      <4>2. Blank.ended
        BY DEF Blank
      <4> QED
        BY <3>2, <4>1, <4>2, Zenon
    <3> QED
      BY <3>1, <3>2, Zenon DEF Lines
  <2>3. EndLine(t) = [t EXCEPT ![Len(t)].ended = TRUE]
    BY <1>1, Zenon DEF EndLine
  <2>4. \A n \in DOMAIN t : EndLine(t)[n] = IF n = Len(t) THEN [t[n] EXCEPT !.ended = TRUE] ELSE t[n]
    BY <2>1, <2>3, Zenon
  <2>5. EndLine(t) \in [1..Len(t) -> Lines]
    BY <2>1, <2>2, <2>3, Zenon
  <2>6. EndLine(t) \in Seq(Lines) /\ Len(EndLine(t)) = Len(t) /\ DOMAIN EndLine(t) = DOMAIN t
    BY <2>1, <2>5, FunctionIsSeq, Zenon
  <2>7. EndLine(t) # <<>>
    <3>1. 1 \in DOMAIN t
      BY <2>1
    <3>2. DOMAIN <<>> = {}
      OBVIOUS
    <3> QED
      BY <2>6, <3>1, <3>2, Zenon
  <2>8. ASSUME NEW n \in DOMAIN t
        PROVE  EndLine(t)[n].record = t[n].record /\ (t[n].ended \/ n = Len(t) => EndLine(t)[n].ended)
    BY <2>1, <2>2, <2>4, Zenon
  <2> QED
    BY <1>1, <2>6, <2>7, <2>8, Zenon
<1>2. CASE t = <<>>
  <2>1. PICK e \in Lines : e = Blank /\ e.record = 0 /\ e.ended
    <3>1. Blank.record = 0 /\ Blank.ended
      BY DEF Blank
    <3> QED
      BY <3>1, Zenon DEF Lines
  <2>2. <<e>> \in Seq(Lines) /\ <<e>> # <<>> /\ DOMAIN <<e>> = {1} /\ <<e>>[1] = e
    OBVIOUS
  <2>3. EndLine(t) = <<e>>
    BY <1>2, <2>1, Zenon DEF EndLine
  <2> QED
    BY <1>2, <2>1, <2>2, <2>3, Zenon
<1> QED
  BY <1>1, <1>2

\* The last position, and every other before it.
LEMMA Last ==
  ASSUME NEW l \in Nat, NEW x \in 1..l
  PROVE  l \in 1..l /\ (x = l \/ x < l)
OBVIOUS

-----------------------------------------------------------------------------
(***************************************************************************)
(* Lines that show a part of a log.                                        *)
(***************************************************************************)
Increasing(log) == \A m, n \in DOMAIN log : m < n => log[m] < log[n]

LEMMA Trichotomy ==
  ASSUME NEW a \in Nat, NEW b \in Nat, NEW m \in Nat, NEW n \in Nat, m < n => a < b, n < m => b < a,
         m = n => a = b
  PROVE  (a < b => m < n) /\ (a = b => m = n)
OBVIOUS

\* The numbers in the log are in the order of the positions.
LEMMA LogOrder ==
  ASSUME NEW log \in Seq(1..MaxEvents), Increasing(log), NEW m \in 1..Len(log), NEW n \in 1..Len(log)
  PROVE  /\ log[m] \in Nat /\ log[m] # 0
         /\ log[m] < log[n] => m < n
         /\ log[m] = log[n] => m = n
         /\ m < n => log[m] < log[n]
<1>1. /\ log[m] \in 1..MaxEvents /\ log[n] \in 1..MaxEvents
      /\ DOMAIN log = 1..Len(log) /\ m \in Nat /\ n \in Nat
  OBVIOUS
<1>2. (m < n => log[m] < log[n]) /\ (n < m => log[n] < log[m])
  BY <1>1, Zenon DEF Increasing
<1>3. log[m] \in Nat /\ log[n] \in Nat /\ log[m] # 0
  BY <1>1
<1> QED
  BY <1>1, <1>2, <1>3, Trichotomy, Zenon

\* Numbers of records shown are positions in the log.
LEMMA Shownumbers ==
  ASSUME NEW low \in Nat, NEW high \in Nat, NEW l \in Nat, high <= l, NEW x \in (low + 1)..high
  PROVE  x \in 1..l /\ x \in low..high /\ x \in Nat
OBVIOUS

\* A log, and the same log later.
Extends(more, log) ==
  /\ more \in Seq(1..MaxEvents) /\ Len(log) <= Len(more)
  /\ \A n \in 1..Len(log) : n \in DOMAIN more /\ more[n] = log[n]

\* Lines stay shown while the log grows behind them.
LEMMA ShownKept ==
  ASSUME NEW s, NEW log \in Seq(1..MaxEvents), NEW more, Extends(more, log),
         NEW start, NEW low \in Nat, NEW high \in Nat, high <= Len(log)
  PROVE  /\ Only(s, log, low, high) => Only(s, more, low, high)
         /\ Every(s, log, low, high) => Every(s, more, low, high)
         /\ Shown(s, log, start, low, high) => Shown(s, more, start, low, high)
<1>1. Len(log) \in Nat /\ DOMAIN log = 1..Len(log)
  OBVIOUS
<1>2. /\ \A x \in (low + 1)..high : more[x] = log[x]
      /\ \A x \in DOMAIN log : x \in DOMAIN more /\ more[x] = log[x]
  BY <1>1, Shownumbers, Zenon DEF Extends
<1>3. Only(s, log, low, high) => Only(s, more, low, high)
  BY <1>2, Zenon DEF Only
<1>4. Every(s, log, low, high) => Every(s, more, low, high)
  BY <1>2, Zenon DEF Every
<1>5. Blanks(s, log, start, low, high) => Blanks(s, more, start, low, high)
  <2>1. SUFFICES ASSUME Blanks(s, log, start, low, high), NEW i \in DOMAIN s, s[i].record = 0
                 PROVE  IF i = 1 THEN low >= start
                        ELSE \E x \in DOMAIN more : x \in start..high /\ s[i - 1].record = more[x]
    BY Zenon DEF Blanks
  <2>2. IF i = 1 THEN low >= start ELSE \E x \in DOMAIN log : x \in start..high /\ s[i - 1].record = log[x]
    BY <2>1, Zenon DEF Blanks
  <2> QED
    BY <1>2, <2>2, Zenon
<1> QED
  BY <1>3, <1>4, <1>5, Zenon DEF Shown

\* Two sequences of lines, of a and of b, one behind the other.
Behind(all, s, a, t, b) ==
  /\ DOMAIN s = 1..a /\ DOMAIN t = 1..b /\ DOMAIN all = 1..(a + b)
  /\ \A n \in 1..a : all[n].record = s[n].record
  /\ \A n \in 1..b : all[a + n].record = t[n].record

\* A first line that is empty comes behind that of record number mid, which is not older than start.
OnlyBehind(s, a, t, b, log, start, mid) ==
  1 \in 1..b /\ t[1].record = 0 => a \in 1..a /\ mid >= start /\ mid \in DOMAIN log /\ s[a].record = log[mid]

\* Positions in them.
LEMMA Positions ==
  ASSUME NEW a \in Nat, NEW b \in Nat, NEW n \in 1..(a + b)
  PROVE  n \in 1..a \/ \E m \in 1..b : n = a + m
<1>1. CASE n <= a
  BY <1>1
<1>2. CASE n > a
  <2>1. n - a \in 1..b /\ n = a + (n - a)
    BY <1>2
  <2> QED
    BY <2>1, Zenon
<1> QED
  BY <1>1, <1>2

LEMMA FirstPositions ==
  ASSUME NEW a \in Nat, NEW b \in Nat, NEW n \in 1..a
  PROVE  n \in 1..(a + b) /\ (n # 1 => n - 1 \in 1..a)
OBVIOUS

LEMMA LastPositions ==
  ASSUME NEW a \in Nat, NEW b \in Nat, NEW n \in 1..b
  PROVE  a + n \in 1..(a + b) /\ (a + 1) - 1 = a /\ (a \in 1..a => a + 1 # 1)
OBVIOUS

\* The numbers of the records shown, when more are.
LEMMA Numbers ==
  ASSUME NEW start \in Nat, NEW low \in Nat, NEW mid \in Nat, NEW high \in Nat, low <= mid, mid <= high
  PROVE  /\ \A x \in (low + 1)..mid : x \in (low + 1)..high
         /\ \A x \in (mid + 1)..high : x \in (low + 1)..high
         /\ \A x \in (low + 1)..high : x \in (low + 1)..mid \/ x \in (mid + 1)..high
         /\ \A x \in start..mid : x \in start..high
         /\ mid >= start => mid \in start..high
OBVIOUS

\* Lines of the records that follow, behind lines that are shown, are shown with them; an
\* empty line comes behind the last record shown.
LEMMA ShownMore ==
  ASSUME NEW a \in Nat, NEW b \in Nat, NEW s, NEW t, NEW all, Behind(all, s, a, t, b),
         NEW log, NEW start \in Nat, NEW low \in Nat, NEW mid \in Nat, NEW high \in Nat,
         low <= mid, mid <= high, Shown(s, log, start, low, mid), Continues(t, log, mid, high),
         OnlyBehind(s, a, t, b, log, start, mid)
  PROVE  Shown(all, log, start, low, high)
<1>1. Only(all, log, low, high)
  <2>1. SUFFICES ASSUME NEW i \in 1..(a + b), all[i].record # 0
                 PROVE  \E x \in (low + 1)..high : all[i].record = log[x]
    BY Zenon DEF Only, Behind
  <2>2. CASE i \in 1..a
    <3>1. i \in DOMAIN s /\ all[i].record = s[i].record
      BY <2>2, Zenon DEF Behind
    <3>2. PICK x \in (low + 1)..mid : all[i].record = log[x]
      BY <2>1, <3>1, Zenon DEF Shown, Only
    <3> QED
      BY <3>2, Numbers, Zenon
  <2>3. ASSUME NEW m \in 1..b, i = a + m PROVE \E x \in (low + 1)..high : all[i].record = log[x]
    <3>1. m \in DOMAIN t /\ all[i].record = t[m].record
      BY <2>3, Zenon DEF Behind
    <3>2. PICK x \in (mid + 1)..high : all[i].record = log[x]
      BY <2>1, <3>1, Zenon DEF Continues, Only
    <3> QED
      BY <3>2, Numbers, Zenon
  <2>4. i \in 1..a \/ \E m \in 1..b : i = a + m
    BY Positions
  <2> QED
    BY <2>2, <2>3, <2>4, Zenon
<1>2. Every(all, log, low, high)
  <2>1. SUFFICES ASSUME NEW x \in (low + 1)..high PROVE \E i \in 1..(a + b) : all[i].record = log[x]
    BY Zenon DEF Every, Behind
  <2>2. CASE x \in (low + 1)..mid
    <3>1. PICK i \in 1..a : s[i].record = log[x]
      BY <2>2, Zenon DEF Shown, Every, Behind
    <3> QED
      BY <3>1, FirstPositions, Zenon DEF Behind
  <2>3. CASE x \in (mid + 1)..high
    <3>1. PICK i \in 1..b : t[i].record = log[x]
      BY <2>3, Zenon DEF Continues, Every, Behind
    <3>2. a + i \in 1..(a + b)
      BY LastPositions, Zenon
    <3> QED
      BY <3>1, <3>2, Zenon DEF Behind
  <2> QED
    BY <2>2, <2>3, Numbers, Zenon
<1>3. Blanks(all, log, start, low, high)
  <2>1. SUFFICES ASSUME NEW i \in 1..(a + b), all[i].record = 0
                 PROVE  IF i = 1 THEN low >= start
                        ELSE \E x \in DOMAIN log : x \in start..high /\ all[i - 1].record = log[x]
    BY Zenon DEF Blanks, Behind
  <2>2. CASE i \in 1..a
    <3>1. i \in DOMAIN s /\ s[i].record = 0
      BY <2>1, <2>2, Zenon DEF Behind
    <3>2. IF i = 1 THEN low >= start ELSE \E x \in DOMAIN log : x \in start..mid /\ s[i - 1].record = log[x]
      BY <3>1, Zenon DEF Shown, Blanks
    <3>3. i # 1 => all[i - 1].record = s[i - 1].record
      BY <2>2, FirstPositions, Zenon DEF Behind
    <3> QED
      BY <3>2, <3>3, Numbers, Zenon
  <2>3. ASSUME NEW m \in 1..b, i = a + m
        PROVE  i # 1 /\ \E x \in DOMAIN log : x \in start..high /\ all[i - 1].record = log[x]
    <3>1. m \in DOMAIN t /\ t[m].record = 0
      BY <2>1, <2>3, Zenon DEF Behind
    <3>2. m = 1
      BY <3>1, Zenon DEF Continues
    <3>3. a \in 1..a /\ mid >= start /\ mid \in DOMAIN log /\ s[a].record = log[mid] /\ i = a + 1
      BY <2>3, <3>1, <3>2, Zenon DEF OnlyBehind
    <3>4. all[a].record = log[mid] /\ i - 1 = a /\ i # 1
      BY <3>3, LastPositions, Zenon DEF Behind
    <3>5. mid \in start..high
      BY <3>3, Numbers, Zenon
    <3> QED
      BY <3>3, <3>4, <3>5, Zenon
  <2>4. i \in 1..a \/ \E m \in 1..b : i = a + m
    BY Positions
  <2> QED
    BY <2>2, <2>3, <2>4, Zenon
<1> QED
  BY <1>1, <1>2, <1>3, Zenon DEF Shown

\* The lines of all but the first k of l.
RestOf(rest, all, l, k) ==
  DOMAIN all = 1..l /\ DOMAIN rest = 1..(l - k) /\ \A n \in 1..(l - k) : rest[n] = all[k + n]

\* Positions in them.
LEMMA RestAt ==
  ASSUME NEW l \in Nat, NEW k \in 1..l, NEW i \in 1..(l - k)
  PROVE  k + i \in 1..l /\ k + i # 1 /\ k < k + i
OBVIOUS

LEMMA RestBefore ==
  ASSUME NEW l \in Nat, NEW k \in 1..l, NEW i \in 1..(l - k)
  PROVE  /\ i = 1 => (k + i) - 1 = k
         /\ i # 1 => i - 1 \in 1..(l - k) /\ k + (i - 1) = (k + i) - 1
OBVIOUS

LEMMA RestFrom ==
  ASSUME NEW l \in Nat, NEW k \in 1..l, NEW i \in 1..l, k < i
  PROVE  i - k \in 1..(l - k) /\ k + (i - k) = i
OBVIOUS

LEMMA LastDropped ==
  ASSUME NEW l \in Nat, NEW k \in 1..l
  PROVE  /\ k \in 1..k /\ (k + 1)..k = {}
         /\ k # 1 => k - 1 \in 1..k /\ k - 1 \in 1..l /\ ((k - 1) + 1)..k = {k}
OBVIOUS

LEMMA Strict ==
  ASSUME NEW a \in Nat, NEW b \in Nat, a < b
  PROVE  b # a /\ ~(b < a)
OBVIOUS

\* Which of the first k lines a position behind them is compared with.
LEMMA Between ==
  ASSUME NEW k \in Nat, NEW j \in 1..k, NEW i \in Nat
  PROVE  (k < i => j < i) /\ (i < j \/ i = j \/ i \in (j + 1)..k \/ k < i)
OBVIOUS

\* Without the first k lines, the last of which that is not empty is line j, of record number
\* m, the others show the records that follow.
LEMMA ShownBehind ==
  ASSUME NEW l \in Nat, NEW all, NEW k \in 1..l, NEW rest, RestOf(rest, all, l, k),
         NEW log \in Seq(1..MaxEvents), Increasing(log), NEW start \in Nat, NEW low \in Nat, NEW high \in Nat,
         high <= Len(log), Shown(all, log, start, low, high), InOrder(all),
         NEW j \in 1..k, NEW m \in (low + 1)..high, all[j].record = log[m],
         \A i \in (j + 1)..k : all[i].record = 0, j = k \/ m >= start
  PROVE  Shown(rest, log, start, m, high)
<1>1. /\ \A x \in (low + 1)..high : x \in 1..Len(log)
      /\ \A x \in (low + 1)..high : m < x => x \in (m + 1)..high
      /\ \A x \in (m + 1)..high : x \in (low + 1)..high /\ m < x
  <2>1. Len(log) \in Nat
    OBVIOUS
  <2>2. \A x \in (low + 1)..high : x \in 1..Len(log)
    BY <2>1, Shownumbers, Zenon
  <2>3. /\ \A x \in (low + 1)..high : m < x => x \in (m + 1)..high
        /\ \A x \in (m + 1)..high : x \in (low + 1)..high /\ m < x
    OBVIOUS
  <2> QED
    BY <2>2, <2>3, Zenon
<1>2. j \in 1..l /\ m \in 1..Len(log) /\ DOMAIN log = 1..Len(log) /\ k \in Nat
  <2>1. j \in 1..l /\ DOMAIN log = 1..Len(log) /\ k \in Nat
    OBVIOUS
  <2> QED
    BY <1>1, <2>1, Zenon
<1>3. Only(rest, log, m, high)
  <2>1. SUFFICES ASSUME NEW i \in 1..(l - k), rest[i].record # 0
                 PROVE  \E x \in (m + 1)..high : rest[i].record = log[x]
    BY Zenon DEF Only, RestOf
  <2>2. k + i \in 1..l /\ k < k + i /\ rest[i] = all[k + i]
    BY RestAt, Zenon DEF RestOf
  <2>3. j < k + i
    BY <2>2
  <2>4. PICK x \in (low + 1)..high : rest[i].record = log[x]
    BY <2>1, <2>2, Zenon DEF Shown, Only, RestOf
  <2>5. all[j].record < all[k + i].record
    BY <1>2, <2>1, <2>2, <2>3, Zenon DEF InOrder, RestOf
  <2>6. log[m] < log[x]
    BY <2>2, <2>4, <2>5, Zenon
  <2>7. m < x
    BY <1>1, <1>2, <2>6, LogOrder, Zenon
  <2> QED
    BY <1>1, <2>4, <2>7, Zenon
<1>4. Every(rest, log, m, high)
  <2>1. SUFFICES ASSUME NEW x \in (m + 1)..high PROVE \E i \in 1..(l - k) : rest[i].record = log[x]
    BY Zenon DEF Every, RestOf
  <2>2. x \in 1..Len(log) /\ x \in (low + 1)..high /\ m < x
    BY <1>1, Zenon
  <2>3. PICK i \in 1..l : all[i].record = log[x]
    BY <2>2, Zenon DEF Shown, Every, RestOf
  <2>4. log[x] # 0 /\ log[m] < log[x] /\ log[m] # 0 /\ log[m] \in Nat /\ log[x] \in Nat
    BY <1>2, <2>2, LogOrder, Zenon
  <2>5. log[x] # log[m] /\ ~(log[x] < log[m])
    BY <2>4, Strict, Zenon
  <2>6. ~(i < j)
    BY <1>2, <2>3, <2>4, <2>5, Zenon DEF InOrder, RestOf
  <2>7. i # j /\ i \notin (j + 1)..k
    BY <2>3, <2>4, <2>5, Zenon
  <2>8. k < i
    <3>1. i \in Nat
      OBVIOUS
    <3> QED
      BY <1>2, <2>6, <2>7, <3>1, Between, Zenon
  <2>9. i - k \in 1..(l - k) /\ k + (i - k) = i
    BY <2>8, RestFrom
  <2>10. rest[i - k] = all[i]
    BY <2>9, Zenon DEF RestOf
  <2> QED
    BY <2>3, <2>9, <2>10, Zenon
<1>5. Blanks(rest, log, start, m, high)
  <2>1. SUFFICES ASSUME NEW i \in 1..(l - k), rest[i].record = 0
                 PROVE  IF i = 1 THEN m >= start
                        ELSE \E x \in DOMAIN log : x \in start..high /\ rest[i - 1].record = log[x]
    BY Zenon DEF Blanks, RestOf
  <2>2. k + i \in 1..l /\ k + i # 1 /\ rest[i] = all[k + i]
    BY RestAt, Zenon DEF RestOf
  <2>3. PICK x \in DOMAIN log : x \in start..high /\ all[(k + i) - 1].record = log[x]
    BY <2>1, <2>2, Zenon DEF Shown, Blanks, RestOf
  <2>4. CASE i = 1
    <3>1. all[k].record = log[x]
      BY <2>3, <2>4, RestBefore, Zenon
    <3>2. CASE j = k
      <4>1. x = m
        BY <1>2, <3>1, <3>2, LogOrder, Zenon
      <4>2. x >= start
        BY <2>3
      <4> QED
        BY <2>4, <4>1, <4>2, Zenon
    <3> QED
      BY <2>4, <3>2, Zenon
  <2>5. CASE i # 1
    <3>1. i - 1 \in 1..(l - k) /\ k + (i - 1) = (k + i) - 1
      BY <2>5, RestBefore, Zenon
    <3>2. rest[i - 1] = all[(k + i) - 1]
      BY <3>1, Zenon DEF RestOf
    <3> QED
      BY <2>3, <2>5, <3>2, Zenon
  <2> QED
    BY <2>4, <2>5, Zenon
<1> QED
  BY <1>3, <1>4, <1>5, Zenon DEF Shown

\* Dropping the first k lines, those that are left show the end of what was shown.
LEMMA ShownRest ==
  ASSUME NEW l \in Nat, NEW all, NEW k \in 1..l, NEW rest, RestOf(rest, all, l, k),
         NEW log \in Seq(1..MaxEvents), Increasing(log), NEW start \in Nat, NEW low \in Nat, NEW high \in Nat,
         low <= high, high <= Len(log), Shown(all, log, start, low, high), InOrder(all)
  PROVE  \E m \in low..high : Shown(rest, log, start, m, high)
<1>1. \A m \in (low + 1)..high : m \in low..high /\ m \in 1..Len(log)
  <2>1. Len(log) \in Nat
    OBVIOUS
  <2> QED
    BY <2>1, Shownumbers, Zenon
<1>2. DOMAIN all = 1..l /\ DOMAIN log = 1..Len(log)
  BY DEF RestOf
<1>3. CASE all[k].record # 0
  <2>1. PICK m \in (low + 1)..high : all[k].record = log[m]
    BY <1>2, <1>3, Zenon DEF Shown, Only
  <2>2. k \in 1..k /\ \A i \in (k + 1)..k : all[i].record = 0
    BY LastDropped, Zenon
  <2>3. Shown(rest, log, start, m, high)
    BY <2>1, <2>2, ShownBehind, Zenon
  <2> QED
    BY <1>1, <2>3, Zenon
<1>4. CASE all[k].record = 0 /\ k # 1
  <2>1. k - 1 \in 1..k /\ k - 1 \in 1..l /\ \A i \in ((k - 1) + 1)..k : i = k
    BY <1>4, LastDropped
  <2>2. PICK x \in DOMAIN log : x \in start..high /\ all[k - 1].record = log[x]
    BY <1>2, <1>4, Zenon DEF Shown, Blanks
  <2>3. x >= start
    BY <2>2
  <2>4. log[x] # 0
    BY <1>2, LogOrder, Zenon
  <2>5. PICK m \in (low + 1)..high : all[k - 1].record = log[m]
    BY <1>2, <2>1, <2>2, <2>4, Zenon DEF Shown, Only
  <2>6. m = x
    BY <1>1, <1>2, <2>2, <2>5, LogOrder, Zenon
  <2>7. PICK j \in 1..k : j = k - 1
    BY <2>1, Zenon
  <2>8. all[j].record = log[m] /\ (\A i \in (j + 1)..k : all[i].record = 0) /\ m >= start
    BY <1>4, <2>1, <2>3, <2>5, <2>6, <2>7, Zenon
  <2>9. Shown(rest, log, start, m, high)
    BY <2>8, ShownBehind, Zenon
  <2> QED
    BY <1>1, <2>9, Zenon
<1>5. CASE all[k].record = 0 /\ k = 1
  <2>1. low >= start
    BY <1>2, <1>5, Zenon DEF Shown, Blanks
  <2>2. low \in low..high
    OBVIOUS
  <2>3. Only(rest, log, low, high)
    <3>1. \A i \in 1..(l - k) : k + i \in 1..l /\ rest[i] = all[k + i]
      BY RestAt, Zenon DEF RestOf
    <3>2. Only(all, log, low, high) /\ DOMAIN rest = 1..(l - k)
      BY Zenon DEF Shown, RestOf
    <3>3. ASSUME NEW i \in 1..(l - k), rest[i].record # 0
          PROVE  \E x \in (low + 1)..high : rest[i].record = log[x]
      <4>1. k + i \in DOMAIN all /\ all[k + i].record # 0 /\ rest[i].record = all[k + i].record
        BY <1>2, <3>1, <3>3, Zenon
      <4> QED
        BY <3>2, <4>1, Zenon DEF Only
    <3> QED
      BY <3>2, <3>3, Zenon DEF Only
  <2>4. Every(rest, log, low, high)
    <3>1. SUFFICES ASSUME NEW x \in (low + 1)..high PROVE \E i \in 1..(l - k) : rest[i].record = log[x]
      BY Zenon DEF Every, RestOf
    <3>2. PICK i \in 1..l : all[i].record = log[x]
      BY <1>2, Zenon DEF Shown, Every
    <3>3. log[x] # 0
      BY <1>1, LogOrder, Zenon
    <3>4. i # 1
      BY <1>5, <3>2, <3>3, Zenon
    <3>5. k < i
      BY <1>5, <3>4
    <3>6. i - k \in 1..(l - k) /\ k + (i - k) = i
      BY <3>5, RestFrom
    <3>7. rest[i - k] = all[i]
      BY <3>6, Zenon DEF RestOf
    <3> QED
      BY <3>2, <3>6, <3>7, Zenon
  <2>5. Blanks(rest, log, start, low, high)
    <3>1. SUFFICES ASSUME NEW i \in 1..(l - k), rest[i].record = 0
                   PROVE  IF i = 1 THEN low >= start
                          ELSE \E x \in DOMAIN log : x \in start..high /\ rest[i - 1].record = log[x]
      BY Zenon DEF Blanks, RestOf
    <3>2. k + i \in 1..l /\ k + i # 1 /\ rest[i] = all[k + i]
      BY RestAt, Zenon DEF RestOf
    <3>3. PICK x \in DOMAIN log : x \in start..high /\ all[(k + i) - 1].record = log[x]
      BY <1>2, <3>1, <3>2, Zenon DEF Shown, Blanks
    <3>4. i # 1 => rest[i - 1] = all[(k + i) - 1]
      <4>1. i # 1 => i - 1 \in 1..(l - k) /\ k + (i - 1) = (k + i) - 1
        BY RestBefore, Zenon
      <4> QED
        BY <4>1, Zenon DEF RestOf
    <3> QED
      BY <2>1, <3>3, <3>4, Zenon
  <2> QED
    BY <2>2, <2>3, <2>4, <2>5, Zenon DEF Shown
<1> QED
  BY <1>3, <1>4, <1>5, Zenon

\* Bounds of what is shown.
LEMMA Ranges ==
  ASSUME NEW low \in Nat, NEW high \in Nat, NEW m \in low..high
  PROVE  m \in Nat /\ low <= m /\ m <= high
OBVIOUS

\* What the lines hold they hold while the log grows.
LEMMA HeldKept ==
  ASSUME NEW s, NEW log \in Seq(1..MaxEvents), NEW more, Extends(more, log), NEW start, NEW low \in Nat,
         NEW high \in Nat, high <= Len(log), Held(s, log, start, low, high)
  PROVE  Held(s, more, start, low, high)
<1>1. PICK m \in low..high : Shown(s, log, start, m, high) /\ (m = low \/ Len(s) = Limit)
  BY Zenon DEF Held
<1>2. Shown(s, more, start, m, high)
  BY <1>1, Ranges, ShownKept, Zenon
<1> QED
  BY <1>1, <1>2, Zenon DEF Held

LEMMA LaterEnd ==
  ASSUME NEW start \in Nat, NEW a \in Nat, NEW b \in Nat, a <= b, NEW h \in start..a
  PROVE  h \in Nat /\ h <= a /\ h \in start..b /\ (h >= 1 => h \in 1..a)
OBVIOUS

LEMMA HeldAllKept ==
  ASSUME NEW s, NEW log \in Seq(1..MaxEvents), NEW more, Extends(more, log), NEW start \in Nat,
         NEW low \in Nat, HeldAll(s, log, start, low)
  PROVE  HeldAll(s, more, start, low)
<1>1. Len(log) \in Nat /\ Len(more) \in Nat /\ Len(log) <= Len(more)
  BY DEF Extends
<1>2. PICK h \in start..Len(log) : h >= low /\ Held(s, log, start, low, h)
  BY Zenon DEF HeldAll
<1>3. h \in Nat /\ h <= Len(log) /\ h \in start..Len(more)
  BY <1>1, LaterEnd, Zenon
<1>4. Held(s, more, start, low, h)
  BY <1>2, <1>3, HeldKept, Zenon
<1> QED
  BY <1>2, <1>3, <1>4, Zenon DEF HeldAll

\* So it is with a tail whose rest u goes on as the log does.
LEMMA HeldTailKept ==
  ASSUME NEW s, NEW t, NEW u, NEW log \in Seq(1..MaxEvents), NEW more, Extends(more, log), NEW start \in Nat,
         NEW low \in Nat, HeldTail(s, t, log, start, low),
         \A h \in 1..Len(log) : Continues(t, log, h, Len(log)) => Continues(u, more, h, Len(more))
  PROVE  HeldTail(s, u, more, start, low)
<1>1. Len(log) \in Nat /\ Len(more) \in Nat /\ Len(log) <= Len(more)
  BY DEF Extends
<1>2. PICK h \in start..Len(log) : /\ h >= low /\ h >= 1 /\ Held(s, log, start, low, h)
                                   /\ s # <<>> /\ s[Len(s)].record = log[h]
                                   /\ Continues(t, log, h, Len(log))
  BY Zenon DEF HeldTail
<1>3. h \in Nat /\ h <= Len(log) /\ h \in start..Len(more) /\ h \in 1..Len(log)
  BY <1>1, <1>2, LaterEnd, Zenon
<1>4. Held(s, more, start, low, h)
  BY <1>2, <1>3, HeldKept, Zenon
<1>5. more[h] = log[h]
  BY <1>3, Zenon DEF Extends
<1> QED
  BY <1>2, <1>3, <1>4, <1>5, Zenon DEF HeldTail

LEMMA OneNumberMore ==
  ASSUME NEW h \in Nat, NEW l \in Nat, h <= l
  PROVE  /\ \A x \in (h + 1)..(l + 1) : x \in (h + 1)..l \/ x = l + 1
         /\ \A x \in (h + 1)..l : x \in (h + 1)..(l + 1) /\ x \in 1..l
         /\ l + 1 \in (h + 1)..(l + 1)
OBVIOUS

\* The record that is appended goes on with the log ...
LEMMA ContinuesAppended ==
  ASSUME NEW t \in Seq(Lines), NEW e \in Lines, NEW log \in Seq(1..MaxEvents), NEW v \in 1..MaxEvents,
         e.record = v, NEW h \in 1..Len(log), Continues(t, log, h, Len(log))
  PROVE  Continues(Append(t, e), Append(log, v), h, Len(Append(log, v)))
<1>1. PICK l \in Nat, a \in Nat : /\ l = Len(log) /\ a = Len(t) /\ DOMAIN t = 1..a /\ h \in Nat /\ h <= l /\ v # 0
  OBVIOUS
<1>2. PICK u : u = Append(t, e) /\ DOMAIN u = 1..(a + 1) /\ u[a + 1] = e /\ \A i \in 1..a : u[i] = t[i]
  <2>1. /\ DOMAIN Append(t, e) = 1..(a + 1) /\ Append(t, e)[a + 1] = e
        /\ \A i \in 1..a : Append(t, e)[i] = t[i]
    BY <1>1, AppendFacts, SMT
  <2> QED
    BY <2>1, Zenon
<1>3. PICK more : more = Append(log, v) /\ Len(more) = l + 1 /\ more[l + 1] = v /\ \A x \in 1..l : more[x] = log[x]
  <2>1. /\ Len(Append(log, v)) = l + 1 /\ Append(log, v)[l + 1] = v
        /\ \A x \in 1..l : Append(log, v)[x] = log[x]
    BY <1>1, AppendFacts, SMT
  <2> QED
    BY <2>1, Zenon
<1>4. /\ \A i \in 1..(a + 1) : i \in 1..a \/ i = a + 1
      /\ \A i \in 1..a : i \in 1..(a + 1)
      /\ a + 1 \in 1..(a + 1)
  OBVIOUS
<1>5. /\ \A x \in (h + 1)..(l + 1) : x \in (h + 1)..l \/ x = l + 1
      /\ \A x \in (h + 1)..l : x \in (h + 1)..(l + 1) /\ x \in 1..l
      /\ l + 1 \in (h + 1)..(l + 1)
  BY <1>1, OneNumberMore, Zenon
<1>6. Only(t, log, h, l) /\ Every(t, log, h, l) /\ \A i \in 1..a : t[i].record = 0 => i = 1
  BY <1>1, Zenon DEF Continues
<1>7. Only(u, more, h, l + 1)
  <2>1. SUFFICES ASSUME NEW i \in 1..(a + 1), u[i].record # 0
                 PROVE  \E x \in (h + 1)..(l + 1) : u[i].record = more[x]
    BY <1>2, Zenon DEF Only
  <2>2. CASE i \in 1..a
    <3>1. PICK x \in (h + 1)..l : t[i].record = log[x]
      BY <1>1, <1>2, <1>6, <2>1, <2>2, Zenon DEF Only
    <3> QED
      BY <1>2, <1>3, <1>5, <2>2, <3>1, Zenon
  <2>3. CASE i = a + 1
    BY <1>2, <1>3, <1>5, <2>3, Zenon
  <2> QED
    BY <1>4, <2>2, <2>3, Zenon
<1>8. Every(u, more, h, l + 1)
  <2>1. SUFFICES ASSUME NEW x \in (h + 1)..(l + 1) PROVE \E i \in 1..(a + 1) : u[i].record = more[x]
    BY <1>2, Zenon DEF Every
  <2>2. CASE x \in (h + 1)..l
    <3>1. PICK i \in 1..a : t[i].record = log[x]
      BY <1>1, <1>6, <2>2, Zenon DEF Every
    <3> QED
      BY <1>2, <1>3, <1>4, <1>5, <2>2, <3>1, Zenon
  <2>3. CASE x = l + 1
    BY <1>2, <1>3, <1>4, <2>3, Zenon
  <2> QED
    BY <1>5, <2>2, <2>3, Zenon
<1>9. \A i \in 1..(a + 1) : u[i].record = 0 => i = 1
  BY <1>1, <1>2, <1>4, <1>6, Zenon
<1>10. Continues(u, more, h, l + 1)
  BY <1>2, <1>7, <1>8, <1>9, Zenon DEF Continues
<1> QED
  BY <1>2, <1>3, <1>10, Zenon

\* ... and so does the end of its line, which is an empty line if the record has been read.
LEMMA ContinuesEnded ==
  ASSUME NEW t \in Seq(Lines), NEW log, NEW low, NEW high, Continues(t, log, low, high)
  PROVE  Continues(EndLine(t), log, low, high)
<1>1. CASE t = <<>>
  <2>1. DOMAIN t = {}
    BY <1>1
  <2>2. PICK u : u = EndLine(t) /\ DOMAIN u = {1} /\ u[1].record = 0
    BY <1>1, EndLineFacts, Zenon
  <2>3. Only(u, log, low, high) /\ \A i \in DOMAIN u : u[i].record = 0 => i = 1
    BY <2>2, Zenon DEF Only
  <2>4. Every(u, log, low, high)
    BY <2>1, Zenon DEF Continues, Every
  <2> QED
    BY <2>2, <2>3, <2>4, Zenon DEF Continues
<1>2. CASE t # <<>>
  <2>1. PICK u : u = EndLine(t) /\ DOMAIN u = DOMAIN t /\ \A n \in DOMAIN t : u[n].record = t[n].record
    BY <1>2, EndLineFacts, Zenon
  <2>2. Only(u, log, low, high)
    BY <2>1, Zenon DEF Continues, Only
  <2>3. Every(u, log, low, high)
    BY <2>1, Zenon DEF Continues, Every
  <2>4. \A i \in DOMAIN u : u[i].record = 0 => i = 1
    BY <2>1, Zenon DEF Continues
  <2> QED
    BY <2>1, <2>2, <2>3, <2>4, Zenon DEF Continues
<1> QED
  BY <1>1, <1>2

\* Nothing continues a log that has been read to its end.
LEMMA ContinuesNot ==
  ASSUME NEW log \in Seq(1..MaxEvents)
  PROVE  Continues(<<>>, log, Len(log), Len(log))
<1>1. DOMAIN <<>> = {} /\ (Len(log) + 1)..Len(log) = {}
  OBVIOUS
<1> QED
  BY <1>1, Zenon DEF Continues, Only, Every

\* The last line of what continues the log, unless it is empty, is of the newest record.
LEMMA ContinuesToEnd ==
  ASSUME NEW t \in Seq(Lines), t # <<>>, t[Len(t)].record # 0, InOrder(t),
         NEW log \in Seq(1..MaxEvents), Increasing(log), NEW h \in 1..Len(log), Continues(t, log, h, Len(log))
  PROVE  t[Len(t)].record = log[Len(log)]
<1>1. PICK l \in Nat, a \in Nat : l = Len(log) /\ a = Len(t) /\ DOMAIN t = 1..a /\ a \in 1..a /\ h \in Nat /\ h <= l
  OBVIOUS
<1>2. PICK x \in (h + 1)..l : t[a].record = log[x]
  BY <1>1, Zenon DEF Continues, Only
<1>3. x \in 1..l /\ l \in 1..l /\ l \in (h + 1)..l /\ (x = l \/ x < l)
  BY <1>1
<1>4. CASE x < l
  <2>1. PICK i \in 1..a : t[i].record = log[l]
    BY <1>1, <1>3, Zenon DEF Continues, Every
  <2>2. log[x] < log[l] /\ log[x] \in Nat /\ log[l] \in Nat
    BY <1>1, <1>3, <1>4, LogOrder, Zenon
  <2>3. log[l] # log[x] /\ ~(log[l] < log[x])
    BY <2>2, Strict, Zenon
  <2>4. i = a \/ i < a
    BY <1>1, Last, Zenon
  <2> QED
    BY <1>1, <1>2, <2>1, <2>3, <2>4, Zenon DEF InOrder
<1> QED
  BY <1>1, <1>2, <1>3, <1>4, Zenon

\* How many lines are dropped.
LEMMA NoneDropped ==
  ASSUME NEW a \in Nat, NEW b \in Nat, a + b <= Limit, a = Limit
  PROVE  (a + b) - 0 = Limit
OBVIOUS

LEMMA Dropped ==
  ASSUME NEW l \in Nat, ~(l <= Limit)
  PROVE  l - Limit \in 1..l /\ l - (l - Limit) = Limit
OBVIOUS

LEMMA SameRest ==
  ASSUME NEW all \in Seq(Lines), NEW rest \in Seq(Lines), NEW l, l = Len(all), RestOf(rest, all, l, 0),
         Len(rest) = l - 0
  PROVE  rest = all
<1>1. Len(rest) = Len(all) /\ \A n \in 1..Len(all) : rest[n] = all[n]
  BY DEF RestOf
<1> QED
  BY <1>1

\* Lines of the records that follow are put behind lines that hold the newest.
LEMMA HeldMore ==
  ASSUME NEW s \in Seq(Lines), NEW t \in Seq(Lines), NEW all \in Seq(Lines), NEW rest \in Seq(Lines),
         NEW a \in Nat, NEW b \in Nat, NEW l \in Nat, NEW k, a = Len(s), l = a + b, l = Len(all),
         Behind(all, s, a, t, b), InOrder(all), RestOf(rest, all, l, k), Len(rest) = l - k,
         k = IF l <= Limit THEN 0 ELSE l - Limit,
         NEW log \in Seq(1..MaxEvents), Increasing(log), NEW start \in Nat,
         NEW low \in Nat, NEW mid \in Nat, NEW high \in Nat, low <= mid, mid <= high, high <= Len(log),
         Held(s, log, start, low, mid), Continues(t, log, mid, high),
         OnlyBehind(s, a, t, b, log, start, mid)
  PROVE  Held(rest, log, start, low, high)
<1>1. PICK m \in low..mid : Shown(s, log, start, m, mid) /\ (m = low \/ a = Limit)
  BY Zenon DEF Held
<1>2. m \in Nat /\ m <= mid /\ low <= m /\ m <= high /\ m \in low..high
  OBVIOUS
<1>3. Shown(all, log, start, m, high)
  BY <1>1, <1>2, ShownMore, Zenon
<1>4. CASE k = 0 /\ l <= Limit
  <2>1. rest = all
    BY <1>4, SameRest, Zenon
  <2>2. a = Limit => Len(rest) = Limit
    <3>1. SUFFICES ASSUME a = Limit PROVE Len(rest) = Limit
      BY Zenon
    <3>2. (a + b) - 0 = Limit
      BY <1>4, <3>1, NoneDropped, Zenon
    <3> QED
      BY <1>4, <3>2, Zenon
  <2> QED
    BY <1>1, <1>2, <1>3, <2>1, <2>2, Zenon DEF Held
<1>5. CASE k = l - Limit /\ ~(l <= Limit)
  <2>1. k \in 1..l /\ Len(rest) = Limit
    <3>1. l - Limit \in 1..l /\ l - (l - Limit) = Limit
      BY <1>5, Dropped, Zenon
    <3> QED
      BY <1>5, <3>1, Zenon
  <2>2. PICK n \in m..high : Shown(rest, log, start, n, high)
    BY <1>2, <1>3, <2>1, ShownRest, Zenon
  <2>3. n \in low..high
    BY <1>2
  <2> QED
    BY <2>1, <2>2, <2>3, Zenon DEF Held
<1> QED
  BY <1>4, <1>5, Zenon
=============================================================================
