------------------------- MODULE LoggerReaderProofs -------------------------
(***************************************************************************)
(* Proofs about Logger: the reader.  What the command holds is in order    *)
(* and, undisturbed, the newest of what is retained, after every step of   *)
(* the writer and of its own.                                              *)
(***************************************************************************)
EXTENDS LoggerWriterProofs

USE Bounds DEF Indices, Oldest, Stop
-----------------------------------------------------------------------------
(***************************************************************************)
(* What the reader does.                                                   *)
(***************************************************************************)
\* The reader has put a text behind its lines, and dropped the first k of all.
Joined(all, k, text) ==
  /\ all \in Seq(Lines) /\ Len(all) = Len(lines) + Len(text) /\ k \in 0..Len(all)
  /\ \A n \in 1..Len(lines) : all[n].record = lines[n].record
  /\ \A n \in 1..Len(text) : all[Len(lines) + n].record = text[n].record
  /\ lines' \in Seq(Lines) /\ Len(lines') = Len(all) - k
  /\ \A n \in 1..(Len(all) - k) : lines'[n] = all[k + n]
  /\ LinesAfter(0, lines') <= Limit
  /\ /\ \A n \in DOMAIN lines : lines[n].ended
     /\ \A n \in DOMAIN text : text[n].ended \/ n = Len(text)
     => /\ \A n \in DOMAIN lines' : lines'[n].ended
        /\ k = IF Len(all) <= Limit THEN 0 ELSE Len(all) - Limit

\* It has, whenever it keeps the newest of its lines and of what it has read.
LEMMA JoinEffect ==
  ASSUME LinesCounted, lines \in Seq(Lines), NEW text \in Seq(Lines),
         lines' = Newest(Limit, lines \o LinesOf(text))
  PROVE  \E all, k : Joined(all, k, text)
<1>1. PICK new \in Seq(Lines) :
        /\ new = LinesOf(text) /\ Len(new) = Len(text)
        /\ \A n \in 1..Len(text) : new[n].record = text[n].record
        /\ \A n \in 1..Len(text) : text[n].ended \/ n = Len(text) => new[n].ended
  BY LinesOfFacts
<1>2. /\ Len(lines) \in Nat /\ Len(text) \in Nat
      /\ DOMAIN lines = 1..Len(lines) /\ DOMAIN text = 1..Len(text)
  OBVIOUS
<1>3. PICK all \in Seq(Lines) :
        /\ all = lines \o new /\ Len(all) = Len(lines) + Len(text) /\ DOMAIN all = 1..Len(all)
        /\ \A n \in 1..Len(lines) : all[n] = lines[n]
        /\ \A n \in 1..Len(text) : all[Len(lines) + n] = new[n]
  <2>1. PICK all : all = lines \o new
    BY Zenon
  <2>2. /\ all \in Seq(Lines) /\ Len(all) = Len(lines) + Len(new)
        /\ \A n \in 1..Len(lines) : all[n] = lines[n]
        /\ \A n \in 1..Len(new) : all[Len(lines) + n] = new[n]
    BY <2>1, ConcatFacts
  <2>3. DOMAIN all = 1..Len(all)
    BY <2>2
  <2>4. Len(new) = Len(text)
    BY <1>1, Zenon
  <2>5. Len(all) = Len(lines) + Len(text) /\ \A n \in 1..Len(text) : all[Len(lines) + n] = new[n]
    BY <2>2, <2>4, Zenon
  <2> QED
    BY <2>1, <2>2, <2>3, <2>5, Zenon
<1>4. (\A n \in DOMAIN lines : lines[n].ended) /\ (\A n \in DOMAIN text : text[n].ended \/ n = Len(text))
      => \A n \in DOMAIN all : all[n].ended
  <2>1. SUFFICES ASSUME \A n \in DOMAIN lines : lines[n].ended,
                        \A n \in DOMAIN text : text[n].ended \/ n = Len(text),
                        NEW n \in 1..Len(all)
                 PROVE  all[n].ended
    BY <1>3, Zenon
  <2>2. n \in 1..Len(lines) \/ \E m \in 1..Len(text) : n = Len(lines) + m
    <3>1. CASE n <= Len(lines)
      BY <1>2, <1>3, <3>1, SMTT(20)
    <3>2. CASE n > Len(lines)
      <4>1. n - Len(lines) \in 1..Len(text) /\ n = Len(lines) + (n - Len(lines))
        BY <1>2, <1>3, <3>2, SMTT(20)
      <4> QED
        BY <4>1, Zenon
    <3> QED
      BY <1>2, <1>3, <3>1, <3>2, SMTT(20)
  <2> QED
    BY <1>1, <1>2, <1>3, <2>1, <2>2, Zenon
<1>5. PICK k \in 0..Len(all) :
        /\ Newest(Limit, all) = SubSeq(all, k + 1, Len(all))
        /\ LinesAfter(0, SubSeq(all, k + 1, Len(all))) <= Limit
        /\ (\A i \in DOMAIN all : all[i].ended) => k = IF Len(all) <= Limit THEN 0 ELSE Len(all) - Limit
  BY <1>3, Zenon DEF LinesCounted
<1>6. PICK s : s = SubSeq(all, k + 1, Len(all))
  BY Zenon
<1>7. lines' = s
  BY <1>1, <1>3, <1>5, <1>6, Zenon
<1>8. s \in Seq(Lines) /\ Len(s) = Len(all) - k /\ \A i \in 1..(Len(all) - k) : s[i] = all[k + i]
  BY <1>6, SubSeqFacts
<1>9. \A n \in DOMAIN s : n \in 1..(Len(all) - k) /\ k + n \in DOMAIN all
  BY <1>3, <1>8, SMTT(20)
<1>10. (\A i \in DOMAIN all : all[i].ended) => \A n \in DOMAIN s : s[n].ended
  BY <1>8, <1>9, Zenon
<1>11. LinesAfter(0, s) <= Limit
  BY <1>5, <1>6, Zenon
<1>12. /\ \A n \in 1..Len(lines) : all[n].record = lines[n].record
       /\ \A n \in 1..Len(text) : all[Len(lines) + n].record = text[n].record
  BY <1>1, <1>3, Zenon
<1>13. LinesAfter(0, lines') <= Limit
  BY <1>7, <1>11, Zenon
<1>14. Joined(all, k, text)
  BY <1>3, <1>4, <1>5, <1>7, <1>8, <1>10, <1>12, <1>13, Zenon DEF Joined
<1> QED
  BY <1>14, Zenon

\* What ReadFile does to the reader.
LEMMA ReadEffect ==
  ASSUME LinesCounted, TypeOK, ReadFile
  PROVE  /\ reader = "open" /\ UNCHANGED <<writerVars, known, quiet>>
         /\ \/ /\ position \in Present /\ EndReached(Texts[position], NextFile) /\ unread' = unread
               /\ \E all, k : Joined(all, k, Texts[position])
            \/ ReadFails
<1>1. reader = "open" /\ UNCHANGED <<writerVars, known, quiet>>
  BY DEF ReadFile
<1>2. CASE /\ Exists(position) /\ lines' = Newest(Limit, lines \o LinesOf(files[position]))
           /\ EndReached(files[position], NextFile) /\ unread' = unread
  <2>1. Texts[position] \in Seq(Lines) /\ Texts[position] = files[position] /\ position \in Present
    <3>1. Texts[position] \in Seq(Entries) /\ Texts[position] = files[position] /\ position \in Present
      BY <1>2, TextFacts, Zenon DEF TypeOK
    <3> QED
      BY <3>1, TextIsLines, Zenon
  <2>2. \E all, k : Joined(all, k, Texts[position])
    BY <1>2, <2>1, JoinEffect, Zenon DEF TypeOK
  <2> QED
    BY <1>1, <1>2, <2>1, <2>2, Zenon DEF EndReached
<1>3. CASE ReadFails
  BY <1>1, <1>3, Zenon
<1> QED
  BY <1>2, <1>3, Zenon DEF ReadFile

\* What ReadTail does to the reader.
LEMMA TailEffect ==
  ASSUME LinesCounted, TypeOK, ReadTail
  PROVE  /\ reader = "tail" /\ UNCHANGED <<writerVars, known, quiet>> /\ unread' = <<>>
         /\ \/ /\ EndReached(unread, reader' = "done" /\ UNCHANGED position)
               /\ \E all, k : Joined(all, k, unread)
            \/ ReadFails
<1>1. reader = "tail" /\ UNCHANGED <<writerVars, known, quiet>> /\ unread' = <<>>
  BY Zenon DEF ReadTail, ReadFails
<1>2. lines' = Newest(Limit, lines \o LinesOf(unread)) => \E all, k : Joined(all, k, unread)
  BY JoinEffect, Zenon DEF TypeOK
<1> QED
  BY <1>1, <1>2, Zenon DEF ReadTail

\* Every step keeps the types of the reader's variables.
LEMMA ReaderTypeStep ==
  ASSUME LinesCounted, TypeOK, Next
  PROVE  ReaderTyped'
<1> DEFINE Stages == {"idle", "inspect", "open", "tail", "done", "failed"}
<1>1. ReaderTyped /\ written \in Seq(1..MaxEvents)
  BY TypeSplit DEF FilesTyped
<1>2. <<>> \in Seq(Lines) /\ \A t \in Seq(Lines) : EndLine(t) \in Seq(Lines)
  BY EndLineFacts
<1>3. CASE UNCHANGED <<reader, position, unread, lines, known>>
  BY <1>1, <1>3 DEF ReaderTyped
<1>4. CASE StartReading
  BY <1>1, <1>4 DEF ReaderTyped, StartReading
<1>5. ASSUME NextFile PROVE reader' \in Stages /\ position' \in Indices
  BY <1>1, <1>5 DEF ReaderTyped, NextFile
<1>6. ASSUME ReadFails, known' = known PROVE ReaderTyped'
  BY <1>1, <1>6 DEF ReaderTyped, ReadFails
<1>7. CASE InspectFile
  <2>1. CASE NextFile /\ UNCHANGED <<unread, lines>>
    BY <1>1, <1>5, <1>7, <2>1 DEF ReaderTyped, InspectFile
  <2>2. CASE reader' = "open" /\ UNCHANGED <<position, unread, lines>>
    BY <1>1, <1>7, <2>2 DEF ReaderTyped, InspectFile
  <2> QED
    BY <1>6, <1>7, <2>1, <2>2 DEF InspectFile
<1>8. ASSUME NEW text, EndReached(text, NextFile) PROVE reader' \in Stages /\ position' \in Indices
  BY <1>1, <1>5, <1>8 DEF ReaderTyped, EndReached
<1>9. CASE ReadFile
  <2>1. CASE EndReached(Texts[position], NextFile) /\ unread' = unread /\ \E all, k : Joined(all, k, Texts[position])
    <3>1. lines' \in Seq(Lines)
      BY <2>1, Zenon DEF Joined
    <3>2. known' = known
      BY <1>9, ReadEffect
    <3> QED
      BY <1>1, <1>8, <2>1, <3>1, <3>2, Zenon DEF ReaderTyped
  <2> QED
    BY <1>6, <1>9, <2>1, ReadEffect, Zenon
<1>10. CASE ReadTail
  <2>1. CASE /\ EndReached(unread, reader' = "done" /\ UNCHANGED position)
             /\ \E all, k : Joined(all, k, unread)
    <3>1. lines' \in Seq(Lines)
      BY <2>1, Zenon DEF Joined
    <3>2. known' = known /\ unread' = <<>>
      BY <1>10, TailEffect
    <3>3. reader' \in Stages /\ position' = position
      BY <2>1 DEF EndReached
    <3> QED
      BY <1>1, <1>2, <3>1, <3>2, <3>3, Zenon DEF ReaderTyped
  <2> QED
    BY <1>6, <1>10, <2>1, TailEffect, Zenon
<1>11. CASE Rename
  <2>1. UNCHANGED <<reader, unread, lines, known>> /\ (position' = position \/ position' = 1)
    BY <1>11, Zenon DEF Rename
  <2>2. 1 \in Indices
    OBVIOUS
  <2> QED
    BY <1>1, <2>1, <2>2, Zenon DEF ReaderTyped
<1>12. CASE AppendRecord
  <2>1. Head(queue) \in 1..MaxEvents
    BY <1>12, TailFacts DEF TypeOK, AppendRecord
  <2>2. [record |-> Head(queue), ended |-> FALSE] \in Lines
    BY <2>1, Zenon DEF Entries, Lines
  <2>3. Append(unread, [record |-> Head(queue), ended |-> FALSE]) \in Seq(Lines)
    BY <1>1, <2>2, AppendFacts DEF ReaderTyped
  <2>4. UNCHANGED <<reader, position, lines, known>>
        /\ (unread' = unread \/ unread' = Append(unread, [record |-> Head(queue), ended |-> FALSE]))
    BY <1>12, Zenon DEF AppendRecord
  <2> QED
    BY <1>1, <2>3, <2>4, Zenon DEF ReaderTyped
<1>13. CASE AppendNewLine
  <2>1. UNCHANGED <<reader, position, lines, known>> /\ (unread' = unread \/ unread' = EndLine(unread))
    BY <1>13, Zenon DEF AppendNewLine
  <2> QED
    BY <1>1, <1>2, <2>1, Zenon DEF ReaderTyped
<1> QED
  BY <1>3, <1>4, <1>7, <1>9, <1>10, <1>11, <1>12, <1>13, Zenon
  DEF Next, WriterStep, ReaderStep, Initialize, LogEvent, Shutdown, Join, EndProcess, Receive,
      RotateIfNeeded, RemoveOldest, readerVars

\* Every step keeps TypeOK.
LEMMA TypeStep ==
  ASSUME LinesCounted, TypeOK, WriterFits, Next
  PROVE  TypeOK'
<1>1. Booleans /\ AppTyped
  BY TypeSplit
<1>2. Booleans' /\ AppTyped' /\ FilesTyped' /\ ReaderTyped'
  BY <1>1, BooleanStep, AppTypeStep, FilesTypeStep, ReaderTypeStep
<1> QED
  BY <1>2, Zenon DEF TypeOK, Booleans, AppTyped, FilesTyped, ReaderTyped

-----------------------------------------------------------------------------
(***************************************************************************)
(* What the reader holds.                                                  *)
(***************************************************************************)
\* A record up to one mark comes before a record behind a later one.
LEMMA Below ==
  ASSUME NEW a \in Nat, NEW b \in Nat, NEW n \in Nat, n >= 1, b <= a, NEW x, x = a + n, NEW y \in Nat, y <= b
  PROVE  y < x
OBVIOUS

\* Two records behind the same mark are in the order of their positions.
LEMMA SameSide ==
  ASSUME NEW a \in Nat, NEW m \in Nat, NEW n \in Nat, m < n
  PROVE  a + m < a + n
OBVIOUS

\* The order of the log is the order of the files, oldest first, and within each of them.
LEMMA FilesOrdered ==
  ASSUME NEW mark \in Marks, NEW log \in Seq(1..MaxEvents),
         NEW texts \in [Indices -> Seq(Entries)], Division(mark, log, texts),
         Increasing(log)
  PROVE  /\ \A f \in Indices : \A n \in DOMAIN texts[f] :
              log # <<>> /\ texts[f][n].record <= log[Len(log)]
         /\ \A f, g \in Indices : \A n \in DOMAIN texts[f], m \in DOMAIN texts[g] :
              f < g => texts[g][m].record < texts[f][n].record
         /\ \A f \in Indices : \A m, n \in DOMAIN texts[f] :
              m < n => texts[f][m].record < texts[f][n].record
<1>1. /\ \A i \in 0..MaxLogFiles : mark[i] \in Nat /\ mark[i] <= Len(log)
      /\ \A i \in Indices : i + 1 \in 0..MaxLogFiles /\ i \in 0..MaxLogFiles
      /\ \A i \in Indices : \A n \in DOMAIN texts[i] :
           mark[i + 1] + n \in 1..Len(log) /\ mark[i + 1] + n <= mark[i]
  BY DivisionFacts, Zenon
<1>2. DOMAIN log = 1..Len(log) /\ Len(log) \in Nat /\ \A z \in 1..Len(log) : log[z] \in 1..MaxEvents
  BY SMTT(30)
<1>3. ASSUME NEW f \in Indices, NEW n \in DOMAIN texts[f]
      PROVE  \E x \in 1..Len(log) :
               x = mark[f + 1] + n /\ x <= mark[f] /\ texts[f][n].record = log[x] /\ n \in Nat /\ n >= 1
  <2>1. texts[f][n].record = log[mark[f + 1] + n]
    BY Zenon DEF Division
  <2>2. n \in Nat /\ n >= 1
    <3>1. texts[f] \in Seq(Entries)
      OBVIOUS
    <3> QED
      BY <3>1
  <2> QED
    BY <1>1, <2>1, <2>2, Zenon
<1>4. ASSUME NEW f \in Indices, NEW n \in DOMAIN texts[f]
      PROVE  log # <<>> /\ texts[f][n].record <= log[Len(log)]
  <2>1. PICK x \in 1..Len(log) : texts[f][n].record = log[x]
    BY <1>3
  <2>2. log[x] <= log[Len(log)]
    <3>1. Len(log) \in 1..Len(log) /\ (x = Len(log) \/ x < Len(log))
      BY <1>2, Last, Zenon
    <3>2. CASE x = Len(log)
      BY <1>2, <3>1, <3>2
    <3>3. CASE x < Len(log)
      <4>2. log[x] < log[Len(log)]
        BY <1>2, <3>1, <3>3, Zenon DEF Increasing
      <4>3. log[x] \in 1..MaxEvents /\ log[Len(log)] \in 1..MaxEvents
        BY <1>2, <3>1, Zenon
      <4> QED
        BY <4>2, <4>3, Bounds, SMTT(30)
    <3> QED
      BY <3>1, <3>2, <3>3
  <2> QED
    BY <1>2, <2>1, <2>2, SMTT(20)
<1>5. ASSUME NEW f \in Indices, NEW g \in Indices, f < g, NEW n \in DOMAIN texts[f], NEW m \in DOMAIN texts[g]
      PROVE  texts[g][m].record < texts[f][n].record
  <2>1. PICK x \in 1..Len(log) : x = mark[f + 1] + n /\ texts[f][n].record = log[x] /\ n \in Nat /\ n >= 1
    BY <1>3, Zenon
  <2>2. PICK y \in 1..Len(log) : y <= mark[g] /\ texts[g][m].record = log[y]
    BY <1>3, Zenon
  <2>3. f + 1 <= g /\ f + 1 \in 0..MaxLogFiles /\ g \in 0..MaxLogFiles
    BY <1>1, <1>5
  <2>4. mark[g] <= mark[f + 1] /\ mark[g] \in Nat /\ mark[f + 1] \in Nat
    BY <1>1, <2>3, Zenon DEF Division
  <2>5. y < x
    <3>1. PICK a \in Nat, b \in Nat : a = mark[f + 1] /\ b = mark[g]
      BY <2>4, Zenon
    <3>2. b <= a /\ y <= b /\ x = a + n
      BY <2>1, <2>2, <2>4, <3>1, Zenon
    <3>3. \A z \in 1..Len(log) : z \in Nat
      BY <1>2
    <3> QED
      BY <2>1, <3>1, <3>2, <3>3, Below, Zenon
  <2> QED
    BY <1>2, <2>1, <2>2, <2>5, Zenon DEF Increasing
<1>6. ASSUME NEW f \in Indices, NEW m \in DOMAIN texts[f], NEW n \in DOMAIN texts[f], m < n
      PROVE  texts[f][m].record < texts[f][n].record
  <2>1. PICK x \in 1..Len(log) : x = mark[f + 1] + n /\ texts[f][n].record = log[x] /\ n \in Nat
    BY <1>3, Zenon
  <2>2. PICK y \in 1..Len(log) : y = mark[f + 1] + m /\ texts[f][m].record = log[y] /\ m \in Nat
    BY <1>3, Zenon
  <2>3. PICK a \in Nat : a = mark[f + 1]
    BY <1>1, Zenon
  <2>4. x = a + n /\ y = a + m
    BY <2>1, <2>2, <2>3, Zenon
  <2>5. y < x
    BY <1>6, <2>1, <2>2, <2>4, SameSide, Zenon
  <2> QED
    BY <1>2, <2>1, <2>2, <2>5, Zenon DEF Increasing
<1> QED
  BY <1>4, <1>5, <1>6, Zenon

\* Where nothing is appended, records stay or move to an older file.
Moved ==
  \A f \in Indices : \A n \in DOMAIN Texts'[f] :
    \E g \in 0..f : n \in DOMAIN Texts[g] /\ Texts'[f][n].record = Texts[g][n].record

\* Whatever appends no record only moves records to older files, ends a line or removes them.
LEMMA MovedStep ==
  ASSUME TypeOK, WriterFits, Next, UNCHANGED written
  PROVE  Moved
<1>1. Texts \in [Indices -> Seq(Entries)] /\ \A f \in Indices : f \in 0..f
  BY TextFacts
<1>2. CASE Texts' = Texts
  BY <1>1, <1>2, Zenon DEF Moved
<1>3. CASE RemoveOldest
  <2>1. CASE Texts' = [Texts EXCEPT ![Oldest] = <<>>]
    <3>1. \A f \in Indices : f # Oldest => Texts'[f] = Texts[f]
      BY <1>1, <2>1
    <3>2. DOMAIN Texts'[Oldest] = {}
      BY <1>1, <2>1
    <3> QED
      BY <1>1, <3>1, <3>2, Zenon DEF Moved
  <2> QED
    BY <1>2, <1>3, <2>1, RemoveEffect
<1>4. CASE Rename
  <2>1. CASE Texts' = [Texts EXCEPT ![index] = <<>>, ![index + 1] = Texts[index]]
    <3>1. index \in Indices /\ index + 1 \in Indices /\ index # index + 1 /\ index \in 0..(index + 1)
      <4>1. at = "rename"
        BY <1>4 DEF Rename
      <4>2. index \in Nat /\ index < Oldest
        BY <4>1 DEF TypeOK, WriterFits
      <4> QED
        BY <4>2
    <3>2. /\ Texts'[index] = <<>> /\ Texts'[index + 1] = Texts[index]
          /\ \A f \in Indices : f # index /\ f # index + 1 => Texts'[f] = Texts[f]
      BY <1>1, <2>1, <3>1, Zenon
    <3>3. DOMAIN Texts'[index] = {}
      BY <3>2
    <3> QED
      BY <1>1, <3>1, <3>2, <3>3, Zenon DEF Moved
  <2> QED
    BY <1>2, <1>4, <2>1, RenameEffect, Zenon
<1>5. CASE AppendRecord
  <2>1. written' # Append(written, Head(queue))
    <3>1. written \in Seq(1..MaxEvents)
      BY DEF TypeOK
    <3> QED
      BY <3>1
  <2> QED
    BY <1>2, <1>5, <2>1, AppendEffect
<1>6. CASE AppendNewLine
  <2>1. ASSUME NEW t \in Seq(Entries), Texts' = [Texts EXCEPT ![0] = t], Len(t) = Len(Texts[0]),
               \A n \in DOMAIN t : t[n].record = Texts[0][n].record
        PROVE  Moved
    <3>1. 0 \in Indices /\ Texts'[0] = t /\ \A f \in Indices : f # 0 => Texts'[f] = Texts[f]
      BY <1>1, <2>1
    <3>2. DOMAIN t = DOMAIN Texts[0]
      BY <1>1, <2>1, <3>1
    <3> QED
      BY <1>1, <2>1, <3>1, <3>2, Zenon DEF Moved
  <2> QED
    BY <1>2, <1>6, <2>1, NewLineEffect
<1>7. CASE Elsewhere
  BY <1>2, <1>7, ElsewhereEffect
<1> QED
  BY <1>3, <1>4, <1>5, <1>6, <1>7, Zenon DEF Next, WriterStep, Elsewhere, ReaderStep

\* The lines a reader holds are in order.
LEMMA TailOrder ==
  ASSUME lines \in Seq(Lines)
  PROVE  TailInOrder <=> /\ InOrder(lines) /\ LinesAfter(0, lines) <= Limit
                         /\ torn \/ \A i \in DOMAIN lines : lines[i].ended
<1>1. \A i \in DOMAIN lines : lines[i] = Blank <=> lines[i].record = 0
  <2>1. \A i \in DOMAIN lines : lines[i] \in Lines
    OBVIOUS
  <2> QED
    BY <2>1, LineFacts, Zenon
<1> QED
  BY <1>1, Zenon DEF TailInOrder, InOrder

\* Moving records to older files does not disturb what a reader holds.
LEMMA ReaderKept ==
  ASSUME TypeOK, ReaderFits, TailInOrder, torn => torn', Moved,
         reader \in {"inspect", "open"} => position' = position,
         UNCHANGED <<reader, lines, known, written>>
  PROVE  ReaderFits' /\ TailInOrder'
<1>1. TailInOrder'
  BY DEF TailInOrder, LinesAfter
<1>2. ASSUME reader \in {"inspect", "open"}, NEW i \in DOMAIN lines, NEW f \in 0..position,
             NEW n \in DOMAIN Texts'[f]
      PROVE  lines[i].record < Texts'[f][n].record
  <2>1. f \in Indices /\ \A g \in 0..f : g \in 0..position
    BY DEF TypeOK
  <2>2. PICK g \in 0..f : n \in DOMAIN Texts[g] /\ Texts'[f][n].record = Texts[g][n].record
    BY <2>1 DEF Moved
  <2> QED
    BY <1>2, <2>1, <2>2, Zenon DEF ReaderFits
<1>3. ReaderFits'
  BY <1>2, Zenon DEF ReaderFits
<1> QED
  BY <1>1, <1>3, Zenon

\* What is appended is newer than all that was written.
LEMMA AppendedIsNewest ==
  ASSUME TypeOK, QueueInv, AppendRecord
  PROVE  Head(queue) \in 1..MaxEvents /\ \A n \in DOMAIN written : written[n] < Head(queue)
<1>1. at = "append"
  BY DEF AppendRecord
<1>2. queue # <<>> /\ queue \in Seq(0..MaxEvents) /\ Head(queue) # Stop
  BY <1>1 DEF TypeOK
<1>3. 1 \in DOMAIN queue /\ queue[1] = Head(queue) /\ queue[1] \in 0..MaxEvents
  BY <1>2, TailFacts, Zenon
<1>4. Head(queue) \in 1..MaxEvents
  BY <1>2, <1>3
<1>5. \A n \in DOMAIN written : written[n] < queue[1]
  BY <1>1, <1>2, <1>3, Zenon DEF QueueInv, QueueFits
<1> QED
  BY <1>3, <1>4, <1>5, Zenon

\* So it is newer than lines of records that were written.
LEMMA NewerThan ==
  ASSUME NEW log \in Seq(1..MaxEvents), NEW x \in 1..MaxEvents, \A n \in DOMAIN log : log[n] < x,
         NEW s \in Seq(Lines), \A i \in DOMAIN s : log # <<>> /\ s[i].record <= log[Len(log)]
  PROVE  \A i \in DOMAIN s : s[i].record < x /\ s[i].record <= x
<1>1. SUFFICES ASSUME NEW i \in DOMAIN s PROVE s[i].record < x /\ s[i].record <= x
  BY Zenon
<1>2. Len(log) \in DOMAIN log /\ log[Len(log)] \in Nat
  <2>1. log # <<>>
    OBVIOUS
  <2> QED
    BY <2>1
<1>3. log[Len(log)] < x /\ s[i].record <= log[Len(log)]
  BY <1>2, Zenon
<1>4. s[i].record \in Nat
  <2>1. s[i] \in Lines
    OBVIOUS
  <2> QED
    BY <2>1, LineFacts, Zenon
<1>5. PICK a \in Nat, b \in Nat : a = s[i].record /\ b = log[Len(log)]
  BY <1>2, <1>4, Zenon
<1>6. a < x /\ a <= x
  <2>1. a <= b /\ b < x
    BY <1>3, <1>5, Zenon
  <2> QED
    BY <2>1
<1> QED
  BY <1>5, <1>6, Zenon

\* What is appended does not disturb what the reader holds.
LEMMA ReaderAppended ==
  ASSUME TypeOK, QueueInv, ReaderFits, TailInOrder, AppendRecord, ~UNCHANGED written
  PROVE  ReaderFits' /\ TailInOrder'
<1>1. PICK e \in Entries :
        /\ e.record = Head(queue) /\ Texts' = [Texts EXCEPT ![0] = Append(Texts[0], e)]
        /\ written' = Append(written, e.record)
        /\ UNCHANGED <<torn, reader, position, lines, known>>
  BY AppendEffect, Zenon
<1>2. /\ written \in Seq(1..MaxEvents) /\ lines \in Seq(Lines) /\ position \in Indices /\ known \in Nat
      /\ e.record \in 1..MaxEvents
  BY <1>1, AppendedIsNewest, Zenon DEF TypeOK
<1>3. \A n \in DOMAIN written : written[n] < e.record
  BY <1>1, AppendedIsNewest, Zenon
<1>4. /\ written' \in Seq(1..MaxEvents) /\ written' # <<>> /\ Len(written') = Len(written) + 1
      /\ written'[Len(written')] = e.record /\ Len(written) \in Nat
  BY <1>1, <1>2, AppendFacts
<1>5. \A i \in DOMAIN lines : lines[i].record < e.record /\ lines[i].record <= e.record
  BY <1>2, <1>3, NewerThan, Zenon DEF ReaderFits
<1>6. ASSUME reader \in {"inspect", "open"}, NEW i \in DOMAIN lines, NEW f \in 0..position,
             NEW n \in DOMAIN Texts'[f]
      PROVE  lines[i].record < Texts'[f][n].record
  <2>1. Texts \in [Indices -> Seq(Entries)] /\ f \in Indices /\ 0 \in Indices
    BY <1>2, TextFacts, SMTT(20)
  <2>2. CASE n \in DOMAIN Texts[f] /\ Texts'[f][n] = Texts[f][n]
    BY <1>6, <2>2 DEF ReaderFits
  <2>3. CASE f = 0 /\ Texts'[f][n] = e
    BY <1>5, <2>3
  <2>4. f # 0 => Texts'[f] = Texts[f]
    BY <1>1, <2>1
  <2>5. CASE f = 0
    <3>1. Texts'[f] = Append(Texts[0], e) /\ Texts[0] \in Seq(Entries)
      BY <1>1, <2>1, <2>5, Zenon
    <3>2. \A m \in DOMAIN Append(Texts[0], e) :
            \/ m \in DOMAIN Texts[0] /\ Append(Texts[0], e)[m] = Texts[0][m]
            \/ Append(Texts[0], e)[m] = e
      BY <3>1
    <3> QED
      BY <2>2, <2>3, <2>5, <3>1, <3>2, Zenon
  <2> QED
    BY <2>2, <2>4, <2>5, Zenon
<1>7. known' <= Len(written')
  BY <1>1, <1>2, <1>4, SMTT(20) DEF ReaderFits
<1>8. ReaderFits'
  BY <1>1, <1>4, <1>5, <1>6, <1>7, Zenon DEF ReaderFits
<1>9. TailInOrder'
  BY <1>1 DEF TailInOrder, LinesAfter
<1> QED
  BY <1>8, <1>9, Zenon

\* Every line that is put together was held before, or comes from the text.
LEMMA JoinedLines ==
  ASSUME lines \in Seq(Lines), NEW text \in Seq(Lines), NEW all, NEW k, Joined(all, k, text)
  PROVE  \A n \in 1..Len(all) :
           \/ n \in DOMAIN lines /\ all[n].record = lines[n].record
           \/ \E m \in DOMAIN text : n = Len(lines) + m /\ all[n].record = text[m].record
<1>1. PICK a \in Nat, b \in Nat : /\ a = Len(lines) /\ b = Len(text)
                                  /\ DOMAIN lines = 1..a /\ DOMAIN text = 1..b
  <2>1. Len(lines) \in Nat /\ Len(text) \in Nat /\ DOMAIN lines = 1..Len(lines) /\ DOMAIN text = 1..Len(text)
    OBVIOUS
  <2> QED
    BY <2>1, Zenon
<1>2. /\ Len(all) = a + b /\ \A i \in 1..a : all[i].record = lines[i].record
      /\ \A i \in 1..b : all[a + i].record = text[i].record
  BY <1>1, Zenon DEF Joined
<1>3. ASSUME NEW n \in 1..(a + b) PROVE n \in 1..a \/ \E m \in 1..b : n = a + m
  <2>1. CASE n <= a
    BY <2>1
  <2>2. CASE n > a
    <3>1. n - a \in 1..b /\ n = a + (n - a)
      BY <2>2
    <3> QED
      BY <3>1, Zenon
  <2> QED
    BY <2>1, <2>2
<1>4. ASSUME NEW n \in 1..Len(all)
      PROVE  \/ n \in DOMAIN lines /\ all[n].record = lines[n].record
             \/ \E m \in DOMAIN text : n = Len(lines) + m /\ all[n].record = text[m].record
  <2>1. n \in 1..(a + b)
    BY <1>2
  <2>2. CASE n \in 1..a
    BY <1>1, <1>2, <2>2, Zenon
  <2>3. ASSUME NEW m \in 1..b, n = a + m PROVE m \in DOMAIN text /\ n = Len(lines) + m /\ all[n].record = text[m].record
    BY <1>1, <1>2, <2>3, Zenon
  <2> QED
    BY <1>3, <2>1, <2>2, <2>3, Zenon
<1> QED
  BY <1>4, Zenon

\* Where the lines that are left have come from.
LEMMA LinesLeft ==
  ASSUME NEW text \in Seq(Lines), NEW all, NEW k, Joined(all, k, text)
  PROVE  /\ lines' \in Seq(Lines) /\ DOMAIN lines' = 1..(Len(all) - k) /\ Len(all) \in Nat /\ k \in 0..Len(all)
         /\ DOMAIN all = 1..Len(all) /\ all \in Seq(Lines)
         /\ \A n \in 1..(Len(all) - k) : k + n \in 1..Len(all) /\ lines'[n] = all[k + n] /\ n \in Nat
<1>1. /\ lines' \in Seq(Lines) /\ Len(lines') = Len(all) - k /\ all \in Seq(Lines) /\ k \in 0..Len(all)
      /\ \A n \in 1..(Len(all) - k) : lines'[n] = all[k + n]
  BY DEF Joined
<1>2. Len(all) \in Nat /\ DOMAIN all = 1..Len(all) /\ DOMAIN lines' = 1..(Len(all) - k)
  BY <1>1
<1>3. \A n \in 1..(Len(all) - k) : k + n \in 1..Len(all) /\ n \in Nat
  BY <1>1, <1>2
<1> QED
  BY <1>1, <1>2, <1>3, Zenon

\* Newer lines behind older ones: all are in order, and so are those that are left.
LEMMA OrderJoined ==
  ASSUME lines \in Seq(Lines), NEW text \in Seq(Lines), NEW all, NEW k, Joined(all, k, text),
         InOrder(lines), InOrder(text),
         \A i \in DOMAIN lines, j \in DOMAIN text : text[j].record # 0 => lines[i].record < text[j].record
  PROVE  InOrder(all) /\ InOrder(lines')
<1> DEFINE Before(n) == n \in DOMAIN lines /\ all[n].record = lines[n].record
           After(n) == \E m \in DOMAIN text : n = Len(lines) + m /\ all[n].record = text[m].record
<1>0. \A n \in 1..Len(all) : Before(n) \/ After(n)
  BY JoinedLines, SMT
<1>1. ASSUME NEW i \in 1..Len(all), NEW j \in 1..Len(all), i < j, all[j].record # 0
      PROVE  all[i].record < all[j].record
  <2>1. CASE j \in DOMAIN lines /\ all[j].record = lines[j].record
    <3>1. i \in DOMAIN lines /\ ~\E m \in DOMAIN text : i = Len(lines) + m
      <4>1. i \in Nat /\ i >= 1 /\ DOMAIN lines = 1..Len(lines) /\ Len(lines) \in Nat /\ DOMAIN text = 1..Len(text)
        OBVIOUS
      <4> QED
        BY <1>1, <2>1, <4>1
    <3>2. all[i].record = lines[i].record
      BY <1>0, <3>1, Zenon
    <3> QED
      BY <1>1, <2>1, <3>1, <3>2, Zenon DEF InOrder
  <2>2. ASSUME NEW m \in DOMAIN text, j = Len(lines) + m, all[j].record = text[m].record
        PROVE  all[i].record < all[j].record
    <3>1. CASE i \in DOMAIN lines /\ all[i].record = lines[i].record
      BY <1>1, <2>2, <3>1, Zenon
    <3>2. ASSUME NEW n \in DOMAIN text, i = Len(lines) + n, all[i].record = text[n].record
          PROVE  all[i].record < all[j].record
      <4>1. n < m
        <5>1. n \in Nat /\ m \in Nat /\ Len(lines) \in Nat
          OBVIOUS
        <5> QED
          BY <1>1, <2>2, <3>2, <5>1
      <4> QED
        BY <1>1, <2>2, <3>2, <4>1, Zenon DEF InOrder
    <3> QED
      BY <1>0, <3>1, <3>2, Zenon
  <2> QED
    BY <1>0, <2>1, <2>2, Zenon
<1>2. InOrder(all)
  BY <1>1, LinesLeft, Zenon DEF InOrder
<1>4. /\ DOMAIN lines' = 1..(Len(all) - k) /\ DOMAIN all = 1..Len(all) /\ k \in Nat
      /\ \A n \in 1..(Len(all) - k) : k + n \in 1..Len(all) /\ lines'[n] = all[k + n] /\ n \in Nat
  <2>1. /\ DOMAIN lines' = 1..(Len(all) - k) /\ DOMAIN all = 1..Len(all) /\ k \in 0..Len(all)
        /\ \A n \in 1..(Len(all) - k) : k + n \in 1..Len(all) /\ lines'[n] = all[k + n] /\ n \in Nat
    BY LinesLeft, Zenon
  <2>2. k \in Nat
    BY <2>1
  <2> QED
    BY <2>1, <2>2, Zenon
<1>3. ASSUME NEW i \in DOMAIN lines', NEW j \in DOMAIN lines', i < j, lines'[j].record # 0
      PROVE  lines'[i].record < lines'[j].record
  <2>1. /\ k + i \in DOMAIN all /\ k + j \in DOMAIN all /\ lines'[i] = all[k + i] /\ lines'[j] = all[k + j]
        /\ k \in Nat /\ i \in Nat /\ j \in Nat
    BY <1>4, Zenon
  <2>2. k + i < k + j
    BY <1>3, <2>1, SameSide, Zenon
  <2> QED
    BY <1>2, <1>3, <2>1, <2>2, Zenon DEF InOrder
<1> QED
  BY <1>2, <1>3, Zenon DEF InOrder

\* A text whose records follow the lines that the reader holds.
NextLines(text) ==
  /\ InOrder(text)
  /\ \A n \in DOMAIN text : written # <<>> /\ text[n].record <= written[Len(written)]
  /\ \A i \in DOMAIN lines, j \in DOMAIN text : text[j].record # 0 => lines[i].record < text[j].record
  /\ torn \/ \A n \in DOMAIN text : text[n].ended \/ n = Len(text)

\* Reading it keeps the order.
LEMMA ReaderRead ==
  ASSUME TypeOK, ReaderFits, TailInOrder, UNCHANGED <<writerVars, known>>,
         NEW text \in Seq(Lines), NextLines(text), NEW all, NEW k, Joined(all, k, text),
         reader' \in {"inspect", "open"} =>
           \A f \in 0..position' : \A n \in DOMAIN Texts[f] :
             /\ \A i \in DOMAIN lines : lines[i].record < Texts[f][n].record
             /\ \A i \in DOMAIN text : text[i].record < Texts[f][n].record
  PROVE  ReaderFits' /\ TailInOrder'
<1>1. /\ lines \in Seq(Lines) /\ torn' = torn /\ written' = written /\ known' = known /\ Texts' = Texts
      /\ lines' \in Seq(Lines)
  BY FilesKept, LinesLeft, Zenon DEF TypeOK, writerVars
<1>2. /\ InOrder(lines) /\ (torn \/ \A i \in DOMAIN lines : lines[i].ended)
  BY <1>1, TailOrder, Zenon
<1>3. ASSUME NEW i \in DOMAIN lines'
      PROVE  \/ \E m \in DOMAIN lines : lines'[i].record = lines[m].record
             \/ \E m \in DOMAIN text : lines'[i].record = text[m].record
  <2>1. /\ DOMAIN lines' = 1..(Len(all) - k)
        /\ \A n \in 1..(Len(all) - k) : k + n \in 1..Len(all) /\ lines'[n] = all[k + n]
    BY LinesLeft, SMT
  <2>2. \A n \in 1..Len(all) :
           \/ n \in DOMAIN lines /\ all[n].record = lines[n].record
           \/ \E m \in DOMAIN text : n = Len(lines) + m /\ all[n].record = text[m].record
    BY <1>1, JoinedLines, SMT
  <2>3. k + i \in 1..Len(all) /\ lines'[i] = all[k + i]
    BY <2>1, Zenon
  <2> QED
    BY <2>2, <2>3, Zenon
<1>4. InOrder(lines')
  BY <1>1, <1>2, OrderJoined, Zenon DEF NextLines
<1>5. LinesAfter(0, lines') <= Limit
  BY DEF Joined
<1>6. torn \/ \A i \in DOMAIN lines' : lines'[i].ended
  BY <1>2, Zenon DEF Joined, NextLines
<1>7. TailInOrder'
  <2>1. \A i \in DOMAIN lines' : lines'[i] = Blank <=> lines'[i].record = 0
    <3>1. \A i \in DOMAIN lines' : lines'[i] \in Lines
      BY <1>1
    <3> QED
      BY <3>1, LineFacts, Zenon
  <2>2. \A i, j \in DOMAIN lines' : i < j /\ lines'[j] # Blank => lines'[i].record < lines'[j].record
    BY <1>4, <2>1, Zenon DEF InOrder
  <2> QED
    BY <1>1, <1>5, <1>6, <2>2, Zenon DEF TailInOrder
<1>8. \A i \in DOMAIN lines' : written # <<>> /\ lines'[i].record <= written[Len(written)]
  BY <1>3, Zenon DEF ReaderFits, NextLines
<1>9. reader' \in {"inspect", "open"} =>
        \A i \in DOMAIN lines' : \A f \in 0..position' : \A n \in DOMAIN Texts[f] :
          lines'[i].record < Texts[f][n].record
  BY <1>3, Zenon
<1>10. ReaderFits'
  BY <1>1, <1>8, <1>9, Zenon DEF ReaderFits
<1> QED
  BY <1>7, <1>10

\* A reader that holds nothing is in order.
LEMMA ReaderEmpty ==
  ASSUME LinesCounted, TypeOK, UNCHANGED writerVars, lines' = <<>>, known' \in Nat, known' <= Len(written)
  PROVE  ReaderFits' /\ TailInOrder'
<1>1. written' = written
  BY DEF writerVars
<1>2. LinesAfter(0, lines') <= Limit
  <2>1. LinesAfter(0, <<>>) <= Limit
    BY DEF LinesCounted
  <2> QED
    BY <2>1 DEF LinesAfter
<1>3. DOMAIN lines' = {}
  OBVIOUS
<1> QED
  BY <1>1, <1>2, <1>3, Zenon DEF ReaderFits, TailInOrder

\* No step takes back that the end of a line is missing.
LEMMA TornStays ==
  ASSUME Next, torn
  PROVE  torn'
<1> USE DEF writerVars, readerVars
<1>1. CASE EndProcess \/ AppendNewLine
  BY <1>1, Zenon DEF EndProcess, AppendNewLine
<1>2. CASE ~EndProcess /\ ~AppendNewLine
  BY <1>2, Zenon
  DEF Next, WriterStep, ReaderStep, Initialize, LogEvent, Shutdown, Join, Receive, RotateIfNeeded,
      RemoveOldest, Rename, AppendRecord, StartReading, InspectFile, ReadFile, ReadTail
<1> QED
  BY <1>1, <1>2

\* Every step keeps ReaderFits and TailInOrder.
LEMMA ReaderFitsStep ==
  ASSUME LinesCounted, TypeOK, QueueInv, WriterFits, OneToALine, ReaderFits, UnreadFits, TailInOrder,
         NEW mark \in Marks, Divides(mark), Next
  PROVE  ReaderFits' /\ TailInOrder'
<1>1. /\ written \in Seq(1..MaxEvents) /\ Len(written) \in Nat /\ known \in Nat /\ known <= Len(written)
      /\ position \in Indices
  BY SMTT(20) DEF TypeOK, ReaderFits
<1>2. CASE /\ UNCHANGED <<reader, lines, known>>
           /\ reader \in {"inspect", "open"} => position' = position
  <2>1. CASE UNCHANGED written
    BY <1>2, <2>1, TornStays, MovedStep, ReaderKept, Zenon
  <2>2. CASE AppendRecord
    BY <2>1, <2>2, ReaderAppended, Zenon
  <2> QED
    BY <2>1, <2>2, Zenon
    DEF Next, WriterStep, ReaderStep, Initialize, LogEvent, Shutdown, Join, EndProcess, Receive,
        RotateIfNeeded, RemoveOldest, Rename, AppendNewLine, StartReading, InspectFile, ReadFile,
        ReadTail, writerVars
<1>3. CASE StartReading
  BY <1>1, <1>3, ReaderEmpty DEF StartReading
<1>4. ASSUME ReadFails, UNCHANGED <<writerVars, known>>
      PROVE  ReaderFits' /\ TailInOrder'
  BY <1>1, <1>4, ReaderEmpty DEF ReadFails
<1>5. CASE InspectFile
  <2>1. /\ UNCHANGED <<writerVars, known>>
        /\ \/ ReadFails
           \/ lines' = lines /\ reader = "inspect" /\ position' \in 0..position
    BY <1>1, <1>5 DEF InspectFile, NextFile
  <2>2. CASE lines' = lines /\ reader = "inspect" /\ position' \in 0..position
    <3>1. written' = written /\ torn' = torn /\ known' = known /\ Texts' = Texts
      BY <2>1, FilesKept DEF writerVars
    <3>2. \A f \in 0..position' : f \in 0..position
      BY <1>1, <2>2
    <3>3. ReaderFits'
      BY <2>2, <3>1, <3>2, Zenon DEF ReaderFits
    <3>4. TailInOrder'
      BY <2>2, <3>1 DEF TailInOrder, LinesAfter
    <3> QED
      BY <3>3, <3>4
  <2> QED
    BY <1>4, <2>1, <2>2, Zenon
<1>6. CASE ReadFile
  <2>1. reader = "open" /\ UNCHANGED <<writerVars, known>>
    BY <1>6, ReadEffect, Zenon
  <2>2. ASSUME EndReached(Texts[position], NextFile), NEW all, NEW k, Joined(all, k, Texts[position])
        PROVE  ReaderFits' /\ TailInOrder'
    <3>1. PICK text \in Seq(Lines) : text = Texts[position] /\ text \in Seq(Entries)
      <4>1. Texts[position] \in Seq(Entries)
        BY <1>1, TextFacts, Zenon
      <4> QED
        BY <4>1, TextIsLines, Zenon
    <3>2. Texts \in [Indices -> Seq(Entries)]
      BY TextFacts
    <3>3. /\ \A n \in DOMAIN text : written # <<>> /\ text[n].record <= written[Len(written)]
          /\ \A f \in Indices : \A n \in DOMAIN Texts[f], m \in DOMAIN text :
               f < position => text[m].record < Texts[f][n].record
          /\ \A m, n \in DOMAIN text : m < n => text[m].record < text[n].record
      <4>1. Increasing(written) /\ Division(mark, written, Texts)
        BY Zenon DEF QueueInv, Ordered, Increasing, Divides
      <4> QED
        BY <1>1, <3>1, <3>2, <4>1, FilesOrdered, Zenon
    <3>4. \A i \in DOMAIN lines : \A f \in 0..position : \A n \in DOMAIN Texts[f] :
            lines[i].record < Texts[f][n].record
      BY <2>1, Zenon DEF ReaderFits
    <3>5. position \in 0..position /\ (position # 0 => \A f \in 0..(position - 1) : f \in 0..position /\ f \in Indices /\ f < position)
      BY <1>1
    <3>6. torn \/ \A n \in DOMAIN text : text[n].ended \/ n = Len(text)
      BY <1>1, <3>1, Zenon DEF OneToALine
    <3>7. NextLines(text)
      BY <3>1, <3>3, <3>4, <3>5, <3>6, Zenon DEF NextLines, InOrder
    <3>8. reader' \in {"inspect", "open"} => position # 0 /\ position' = position - 1
      BY <2>2 DEF EndReached, NextFile
    <3>9. reader' \in {"inspect", "open"} =>
            \A f \in 0..position' : \A n \in DOMAIN Texts[f] :
              /\ \A i \in DOMAIN lines : lines[i].record < Texts[f][n].record
              /\ \A i \in DOMAIN text : text[i].record < Texts[f][n].record
      BY <3>3, <3>4, <3>5, <3>8, Zenon
    <3>10. Joined(all, k, text)
      BY <2>2, <3>1, Zenon DEF Joined
    <3> QED
      BY <2>1, <3>7, <3>9, <3>10, ReaderRead, Zenon
  <2> QED
    BY <1>4, <1>6, <2>1, <2>2, ReadEffect, Zenon
<1>7. CASE ReadTail
  <2>1. UNCHANGED <<writerVars, known>>
    BY <1>7, TailEffect, Zenon
  <2>2. ASSUME EndReached(unread, reader' = "done" /\ UNCHANGED position), NEW all, NEW k, Joined(all, k, unread)
        PROVE  ReaderFits' /\ TailInOrder'
    <3>1. unread \in Seq(Lines)
      BY DEF TypeOK
    <3>2. NextLines(unread)
      BY Zenon DEF UnreadFits, NextLines
    <3>3. reader' \notin {"inspect", "open"}
      BY <2>2 DEF EndReached
    <3> QED
      BY <2>1, <2>2, <3>1, <3>2, <3>3, ReaderRead, Zenon
  <2> QED
    BY <1>4, <1>7, <2>1, <2>2, TailEffect, Zenon
<1>8. CASE Rename
  BY <1>2, <1>8, Zenon DEF Rename, Following
<1> QED
  BY <1>2, <1>3, <1>5, <1>6, <1>7, <1>8, Zenon
  DEF Next, WriterStep, ReaderStep, Initialize, LogEvent, Shutdown, Join, EndProcess, Receive,
      RotateIfNeeded, RemoveOldest, AppendRecord, AppendNewLine, readerVars

\* What the active file has got behind the end that the reader has met stays as it is.
LEMMA UnreadKept ==
  ASSUME UnreadFits, UNCHANGED <<reader, unread, lines, written>>,
         \/ torn'
         \/ ~torn /\ (Following /\ at = "newline" => Following' /\ at' = "newline")
  PROVE  UnreadFits'
<1>1. torn' \/ \A n \in DOMAIN unread : unread[n].ended \/ (Following' /\ at' = "newline" /\ n = Len(unread))
  BY Zenon DEF UnreadFits
<1> QED
  BY <1>1, Zenon DEF UnreadFits, InOrder

\* A record is appended.
LEMMA UnreadAppended ==
  ASSUME TypeOK, QueueInv, ReaderFits, UnreadFits, AppendRecord, ~UNCHANGED written
  PROVE  UnreadFits'
<1> DEFINE x == Head(queue)
           e == [record |-> x, ended |-> FALSE]
<1>1. /\ written' = Append(written, x) /\ at = "append" /\ at' = "newline"
      /\ unread' = IF Following THEN Append(unread, e) ELSE unread
      /\ UNCHANGED <<torn, reader, position, lines>>
  BY Zenon DEF AppendRecord
<1>2. x \in 1..MaxEvents /\ \A n \in DOMAIN written : written[n] < x
  BY AppendedIsNewest
<1>3. written \in Seq(1..MaxEvents) /\ unread \in Seq(Lines) /\ lines \in Seq(Lines)
  BY DEF TypeOK
<1>4. e \in Lines /\ e.record = x
  BY <1>2, Zenon DEF Lines, Entries
<1>5. /\ \A i \in DOMAIN lines : lines[i].record < x /\ lines[i].record <= x
      /\ \A i \in DOMAIN unread : unread[i].record < x /\ unread[i].record <= x
  BY <1>2, <1>3, NewerThan, Zenon DEF ReaderFits, UnreadFits
<1>6. written' # <<>> /\ written'[Len(written')] = x
  BY <1>1, <1>2, <1>3, AppendFacts
<1>7. Following' = Following /\ (torn \/ \A n \in DOMAIN unread : unread[n].ended)
  BY <1>1, Zenon DEF Following, UnreadFits
<1> HIDE DEF x, e
<1>8. CASE ~Following
  <2>1. unread' = unread
    BY <1>1, <1>8
  <2> QED
    BY <1>1, <1>5, <1>6, <1>7, <2>1, Zenon DEF UnreadFits, InOrder
<1>9. CASE Following
  <2>1. PICK t \in Seq(Lines), l \in Nat :
          /\ t = unread' /\ l = Len(unread) /\ Len(t) = l + 1 /\ DOMAIN unread = 1..l
          /\ DOMAIN t = 1..(l + 1) /\ t[l + 1] = e /\ \A i \in 1..l : t[i] = unread[i]
    <3>1. unread' = Append(unread, e)
      BY <1>1, <1>9
    <3>2. /\ Append(unread, e) \in Seq(Lines) /\ Len(unread) \in Nat /\ DOMAIN unread = 1..Len(unread)
          /\ Len(Append(unread, e)) = Len(unread) + 1 /\ DOMAIN Append(unread, e) = 1..(Len(unread) + 1)
          /\ Append(unread, e)[Len(unread) + 1] = e
          /\ \A i \in 1..Len(unread) : Append(unread, e)[i] = unread[i]
      BY <1>3, <1>4, AppendFacts
    <3> QED
      BY <3>1, <3>2, Zenon
  <2>2. \A n \in 1..(l + 1) : n = l + 1 \/ (n \in 1..l /\ n < l + 1 /\ n \in Nat)
    OBVIOUS
  <2>3. ASSUME NEW i \in DOMAIN t, NEW j \in DOMAIN t, i < j, t[j].record # 0
        PROVE  t[i].record < t[j].record
    <3>1. i \in 1..l
      BY <2>1, <2>3
    <3>2. CASE j = l + 1
      BY <1>4, <1>5, <2>1, <3>1, <3>2, Zenon
    <3>3. CASE j \in 1..l
      <4>1. t[i] = unread[i] /\ t[j] = unread[j] /\ i \in DOMAIN unread /\ j \in DOMAIN unread
        BY <2>1, <3>1, <3>3, Zenon
      <4> QED
        BY <2>3, <4>1, Zenon DEF UnreadFits, InOrder
    <3> QED
      BY <2>1, <2>2, <3>2, <3>3, Zenon
  <2>4. \A i \in DOMAIN t : t[i].record <= x
    <3>1. x <= x
      BY <1>2
    <3> QED
      BY <1>4, <1>5, <2>1, <2>2, <3>1, Zenon
  <2>5. ASSUME NEW i \in DOMAIN lines, NEW j \in DOMAIN t, t[j].record # 0
        PROVE  lines[i].record < t[j].record
    <3>1. CASE j = l + 1
      BY <1>4, <1>5, <2>1, <3>1, Zenon
    <3>2. CASE j \in 1..l
      <4>1. t[j] = unread[j] /\ j \in DOMAIN unread
        BY <2>1, <3>2, Zenon
      <4> QED
        BY <2>5, <4>1, Zenon DEF UnreadFits
    <3> QED
      BY <2>1, <2>2, <3>1, <3>2, Zenon
  <2>6. torn \/ \A n \in DOMAIN t : t[n].ended \/ n = Len(t)
    BY <1>7, <2>1, <2>2, Zenon
  <2>7. reader = "tail"
    BY <1>9 DEF Following
  <2>8. InOrder(t)
    BY <2>3, Zenon DEF InOrder
  <2> QED
    BY <1>1, <1>6, <1>7, <1>9, <2>1, <2>4, <2>5, <2>6, <2>7, <2>8, Zenon DEF UnreadFits
<1> QED
  BY <1>8, <1>9

\* The line gets its end, which is an empty line if the reader had met the end before.
LEMMA UnreadEnded ==
  ASSUME TypeOK, QueueInv, UnreadFits, at = "newline", Following, unread' = EndLine(unread),
         UNCHANGED <<torn, reader, lines, written>>
  PROVE  UnreadFits'
<1>1. written \in Seq(1..MaxEvents) /\ unread \in Seq(Lines) /\ written # <<>>
  BY DEF TypeOK, QueueInv, QueueFits
<1>2. PICK t \in Seq(Lines) : t = EndLine(unread)
  BY <1>1, EndLineFacts, Zenon
<1>3. /\ unread = <<>> => DOMAIN t = {1} /\ t[1].record = 0 /\ t[1].ended
      /\ unread # <<>> => /\ DOMAIN t = DOMAIN unread
                          /\ \A n \in DOMAIN unread : t[n].record = unread[n].record
                          /\ \A n \in DOMAIN unread : unread[n].ended \/ n = Len(unread) => t[n].ended
  BY <1>1, <1>2, EndLineFacts, Zenon
<1>4. reader = "tail"
  BY DEF Following
<1>5. CASE unread = <<>>
  <2>1. 0 <= written[Len(written)] /\ ~(1 < 1)
    BY <1>1
  <2>2. \A n \in DOMAIN t : n = 1 /\ t[n].record = 0 /\ t[n].ended
    BY <1>3, <1>5, Zenon
  <2>3. InOrder(t)
    BY <2>2, Zenon DEF InOrder
  <2> QED
    BY <1>1, <1>2, <1>4, <2>1, <2>2, <2>3, Zenon DEF UnreadFits
<1>6. CASE unread # <<>>
  <2>1. InOrder(t)
    BY <1>3, <1>6, Zenon DEF UnreadFits, InOrder
  <2>2. torn \/ \A n \in DOMAIN t : t[n].ended
    BY <1>3, <1>6, Zenon DEF UnreadFits
  <2>3. /\ \A i \in DOMAIN t : written # <<>> /\ t[i].record <= written[Len(written)]
        /\ \A i \in DOMAIN lines, j \in DOMAIN t : t[j].record # 0 => lines[i].record < t[j].record
    BY <1>3, <1>6, Zenon DEF UnreadFits
  <2> QED
    BY <1>2, <1>4, <2>1, <2>2, <2>3, Zenon DEF UnreadFits
<1> QED
  BY <1>5, <1>6

\* Every step keeps UnreadFits.
LEMMA UnreadFitsStep ==
  ASSUME LinesCounted, TypeOK, QueueInv, ReaderFits, UnreadFits, Next
  PROVE  UnreadFits'
<1>1. ASSUME unread' = <<>> PROVE UnreadFits'
  <2>1. DOMAIN unread' = {}
    BY <1>1
  <2> QED
    BY <1>1, <2>1, Zenon DEF UnreadFits, InOrder
<1>2. torn' \/ ~torn
  BY TornStays
<1>3. ASSUME at' = at \/ at # "newline", UNCHANGED <<reader, position, unread, lines, written>>
      PROVE  UnreadFits'
  BY <1>2, <1>3, UnreadKept, Zenon DEF Following
<1>4. CASE Initialize \/ LogEvent \/ Shutdown \/ Join
  <2>1. at' = at \/ at # "newline"
    BY <1>4 DEF Initialize, LogEvent, Shutdown, Join, QueueInv, AppFits
  <2> QED
    BY <1>3, <1>4, <2>1, Zenon DEF Initialize, LogEvent, Shutdown, Join, readerVars
<1>5. CASE EndProcess
  <2>1. UNCHANGED <<reader, position, unread, lines, written>> /\ (torn' \/ at # "newline")
    BY <1>5, Zenon DEF EndProcess, readerVars
  <2> QED
    BY <1>2, <2>1, UnreadKept, Zenon
<1>6. CASE Receive \/ RotateIfNeeded \/ RemoveOldest
  <2>1. at # "newline"
    BY <1>6 DEF Receive, RotateIfNeeded, RemoveOldest
  <2> QED
    BY <1>3, <1>6, <2>1, Zenon DEF Receive, RotateIfNeeded, RemoveOldest, readerVars
<1>7. CASE Rename
  <2>1. at # "newline" /\ UNCHANGED <<reader, unread, lines, written>>
    BY <1>7 DEF Rename
  <2> QED
    BY <1>2, <2>1, UnreadKept, Zenon
<1>8. CASE AppendRecord
  <2>1. CASE UNCHANGED written
    <3>1. at # "newline" /\ written \in Seq(1..MaxEvents)
      BY <1>8 DEF AppendRecord, TypeOK
    <3>2. written' # Append(written, Head(queue))
      BY <2>1, <3>1
    <3> QED
      BY <1>3, <1>8, <3>1, <3>2, Zenon DEF AppendRecord
  <2> QED
    BY <1>8, <2>1, UnreadAppended, Zenon
<1>9. CASE AppendNewLine
  <2>1. at = "newline" /\ UNCHANGED <<reader, position, lines, written>>
    BY <1>9 DEF AppendNewLine
  <2>2. CASE torn' /\ unread' = unread
    BY <2>1, <2>2, UnreadKept, Zenon
  <2>3. CASE torn' = torn /\ unread' = IF Following THEN EndLine(unread) ELSE unread
    <3>1. CASE Following
      BY <2>1, <2>3, <3>1, UnreadEnded, Zenon
    <3>2. CASE ~Following
      BY <1>2, <2>1, <2>3, <3>2, UnreadKept, Zenon
    <3> QED
      BY <3>1, <3>2
  <2> QED
    BY <1>9, <2>2, <2>3, Zenon DEF AppendNewLine
<1>10. CASE StartReading
  BY <1>1, <1>10 DEF StartReading, UnreadFits
<1>11. CASE InspectFile
  <2>1. reader = "inspect" /\ (unread' = unread \/ unread' = <<>>)
    BY <1>11, Zenon DEF InspectFile, ReadFails
  <2> QED
    BY <1>1, <2>1 DEF UnreadFits
<1>12. CASE ReadFile
  <2>1. reader = "open" /\ (unread' = unread \/ unread' = <<>>)
    BY <1>12, Zenon DEF ReadFile, ReadFails
  <2> QED
    BY <1>1, <2>1 DEF UnreadFits
<1>13. CASE ReadTail
  BY <1>1, <1>13, TailEffect, Zenon
<1> QED
  BY <1>4, <1>5, <1>6, <1>7, <1>8, <1>9, <1>10, <1>11, <1>12, <1>13, Zenon DEF Next, WriterStep, ReaderStep

-----------------------------------------------------------------------------
(***************************************************************************)
(* What an undisturbed reader has read.                                    *)
(***************************************************************************)
\* Numbers, in a text and in the log.
LEMMA NumberOf ==
  ASSUME NEW low \in Nat, NEW high \in Nat, NEW n \in 1..(high - low)
  PROVE  low + n \in (low + 1)..high
OBVIOUS

LEMMA PositionOf ==
  ASSUME NEW low \in Nat, NEW high \in Nat, NEW x \in (low + 1)..high
  PROVE  x - low \in 1..(high - low) /\ low + (x - low) = x
OBVIOUS

LEMMA LastNumber ==
  ASSUME NEW low \in Nat, NEW high \in Nat, NEW l \in Nat, l = high - low, l # 0
  PROVE  l \in 1..(high - low) /\ low + l = high /\ high >= 1
OBVIOUS

LEMMA LastKept ==
  ASSUME NEW a \in Nat, NEW b \in Nat, b \in 1..b, NEW k \in Nat, k = IF a + b <= Limit THEN 0 ELSE (a + b) - Limit
  PROVE  (a + b) - k \in 1..((a + b) - k) /\ k + ((a + b) - k) = a + b
OBVIOUS

LEMMA NonEmpty ==
  ASSUME NEW s \in Seq(Lines), Len(s) \in 1..Len(s)
  PROVE  s # <<>>
OBVIOUS

LEMMA NonEmptyText ==
  ASSUME NEW s \in Seq(Entries), s # <<>>
  PROVE  Len(s) \in Nat /\ Len(s) # 0
OBVIOUS

\* What a reader joins is behind its lines, and what it keeps is the rest of them.
LEMMA JoinedHeld ==
  ASSUME lines \in Seq(Lines), NEW text \in Seq(Lines), NEW all, NEW k, Joined(all, k, text),
         \A n \in DOMAIN lines : lines[n].ended,
         \A n \in DOMAIN text : text[n].ended \/ n = Len(text),
         InOrder(all), written \in Seq(1..MaxEvents), Increasing(written), NEW start \in Nat,
         NEW low \in Nat, NEW mid \in Nat, NEW high \in Nat, low <= mid, mid <= high, high <= Len(written),
         Held(lines, written, start, low, mid), Continues(text, written, mid, high),
         OnlyBehind(lines, Len(lines), text, Len(text), written, start, mid)
  PROVE  /\ Held(lines', written, start, low, high)
         /\ text # <<>> => lines' # <<>> /\ lines'[Len(lines')].record = text[Len(text)].record
<1>1. PICK a \in Nat, b \in Nat, l \in Nat :
        /\ a = Len(lines) /\ b = Len(text) /\ l = a + b /\ l = Len(all)
        /\ DOMAIN lines = 1..a /\ DOMAIN text = 1..b /\ DOMAIN all = 1..(a + b)
  <2>1. Len(lines) \in Nat /\ Len(text) \in Nat /\ DOMAIN lines = 1..Len(lines) /\ DOMAIN text = 1..Len(text)
    OBVIOUS
  <2>2. all \in Seq(Lines) /\ Len(all) = Len(lines) + Len(text)
    BY Zenon DEF Joined
  <2>3. DOMAIN all = 1..Len(all) /\ Len(all) \in Nat
    BY <2>2
  <2> QED
    BY <2>1, <2>2, <2>3, Zenon
<1>2. all \in Seq(Lines) /\ lines' \in Seq(Lines) /\ k \in 0..l /\ k = (IF l <= Limit THEN 0 ELSE l - Limit)
  BY <1>1, Zenon DEF Joined
<1>3. Behind(all, lines, a, text, b)
  BY <1>1, Zenon DEF Joined, Behind
<1>4. RestOf(lines', all, l, k) /\ Len(lines') = l - k
  <2>1. Len(lines') = l - k /\ \A n \in 1..(l - k) : lines'[n] = all[k + n]
    BY <1>1, Zenon DEF Joined
  <2>2. DOMAIN lines' = 1..Len(lines')
    BY <1>2
  <2> QED
    BY <1>1, <2>1, <2>2, Zenon DEF RestOf
<1>5. OnlyBehind(lines, a, text, b, written, start, mid)
  BY <1>1, Zenon
<1>6. Held(lines', written, start, low, high)
  BY <1>1, <1>2, <1>3, <1>4, <1>5, HeldMore, Zenon
<1>7. ASSUME text # <<>> PROVE lines' # <<>> /\ lines'[Len(lines')].record = text[Len(text)].record
  <2>1. b \in 1..b
    BY <1>1, <1>7
  <2>2. l - k \in 1..(l - k) /\ k + (l - k) = a + b
    BY <1>1, <1>2, <2>1, LastKept
  <2>3. lines'[l - k] = all[a + b] /\ all[a + b].record = text[b].record
    BY <1>3, <1>4, <2>1, <2>2, Zenon DEF RestOf, Behind
  <2>4. lines' # <<>>
    BY <1>2, <1>4, <2>2, NonEmpty, Zenon
  <2> QED
    BY <1>1, <1>4, <2>3, <2>4, Zenon
<1> QED
  BY <1>6, <1>7, Zenon

\* A file that is read goes on with the log.
LEMMA TextContinues ==
  ASSUME NEW mark \in Marks, NEW log \in Seq(1..MaxEvents),
         NEW texts \in [Indices -> Seq(Entries)], Division(mark, log, texts), NEW f \in Indices
  PROVE  /\ Continues(texts[f], log, mark[f + 1], mark[f])
         /\ \A n \in DOMAIN texts[f] : texts[f][n].record # 0
         /\ texts[f] # <<>> => /\ texts[f][Len(texts[f])].record = log[mark[f]] /\ mark[f] >= 1
<1>1. /\ \A i \in 0..MaxLogFiles : mark[i] \in Nat /\ mark[i] <= Len(log)
      /\ f + 1 \in 0..MaxLogFiles /\ f \in 0..MaxLogFiles
      /\ texts[f] \in Seq(Entries) /\ DOMAIN texts[f] = 1..(mark[f] - mark[f + 1])
  BY DivisionFacts, Zenon
<1>2. PICK low \in Nat, high \in Nat : low = mark[f + 1] /\ high = mark[f] /\ low <= high
  <2>1. f <= f + 1
    OBVIOUS
  <2> QED
    BY <1>1, <2>1, Zenon DEF Division
<1>3. PICK t \in Seq(Entries) : t = texts[f] /\ DOMAIN t = 1..(high - low) /\ Len(t) = high - low
  BY <1>1, <1>2, Zenon DEF Division
<1>4. \A n \in 1..(high - low) : t[n].record = log[low + n]
  BY <1>2, <1>3, Zenon DEF Division
<1>5. \A n \in 1..(high - low) : t[n].record # 0
  <2>1. \A n \in 1..(high - low) : t[n] \in Entries
    BY <1>3
  <2>2. \A e \in Entries : e.record # 0
    BY DEF Entries
  <2> QED
    BY <2>1, <2>2, Zenon
<1>6. Only(t, log, low, high)
  <2>1. \A n \in 1..(high - low) : low + n \in (low + 1)..high
    BY <1>2, NumberOf, Zenon
  <2> QED
    BY <1>3, <1>4, <2>1, Zenon DEF Only
<1>7. Every(t, log, low, high)
  <2>1. \A x \in (low + 1)..high : x - low \in 1..(high - low) /\ low + (x - low) = x
    BY <1>2, PositionOf, Zenon
  <2> QED
    BY <1>3, <1>4, <2>1, Zenon DEF Every
<1>8. Continues(t, log, low, high)
  BY <1>3, <1>5, <1>6, <1>7, Zenon DEF Continues
<1>9. ASSUME t # <<>> PROVE t[Len(t)].record = log[high] /\ high >= 1
  <2>1. Len(t) \in 1..(high - low) /\ low + Len(t) = high /\ high >= 1
    <3>1. Len(t) \in Nat /\ Len(t) # 0
      BY <1>9, NonEmptyText, Zenon
    <3> QED
      BY <1>3, <3>1, LastNumber, Zenon
  <2> QED
    BY <1>4, <2>1, Zenon
<1> QED
  BY <1>2, <1>3, <1>5, <1>8, <1>9, Zenon

\* The log grows by what is appended.
LEMMA LogGrows ==
  ASSUME TypeOK, Next
  PROVE  Extends(written', written)
<1>1. written \in Seq(1..MaxEvents)
  BY DEF TypeOK
<1>2. CASE written' = written
  <2>1. Len(written) <= Len(written) /\ \A n \in 1..Len(written) : n \in DOMAIN written
    BY <1>1
  <2> QED
    BY <1>1, <1>2, <2>1, Zenon DEF Extends
<1>3. CASE AppendRecord /\ written' = Append(written, Head(queue))
  <2>1. at = "append"
    BY <1>3, Zenon DEF AppendRecord
  <2>2. queue \in Seq(0..MaxEvents) /\ queue # <<>> /\ Head(queue) # 0
    BY <2>1, Zenon DEF TypeOK
  <2>3. Head(queue) \in 1..MaxEvents
    BY <2>2, SMTT(20)
  <2>4. PICK v \in 1..MaxEvents : written' = Append(written, v)
    BY <1>3, <2>3, Zenon
  <2>5. /\ Append(written, v) \in Seq(1..MaxEvents) /\ Len(written) <= Len(Append(written, v))
        /\ \A n \in 1..Len(written) : n \in DOMAIN Append(written, v) /\ Append(written, v)[n] = written[n]
    BY <1>1, AppendFacts
  <2> QED
    BY <2>4, <2>5, Zenon DEF Extends
<1> QED
  BY <1>2, <1>3, Zenon
  DEF Next, WriterStep, ReaderStep, Initialize, LogEvent, Shutdown, Join, EndProcess, Receive,
      RotateIfNeeded, RemoveOldest, Rename, AppendRecord, AppendNewLine, StartReading, InspectFile,
      ReadFile, ReadTail, writerVars

\* The marks of an undisturbed reader's files do not change.
Fixed(mark, new) == \A i \in 1..MaxLogFiles : new[i] = mark[i]

LEMMA FixedMarks ==
  ASSUME NEW mark \in Marks, NEW new \in Marks, Fixed(mark, new), position \in Indices
  PROVE  new[MaxLogFiles] = mark[MaxLogFiles] /\ new[position + 1] = mark[position + 1]
<1>1. MaxLogFiles \in 1..MaxLogFiles /\ position + 1 \in 1..MaxLogFiles
  BY Bounds
<1> QED
  BY <1>1, Zenon DEF Fixed

\* The bounds of what the reader has read.
LEMMA MarkFacts ==
  ASSUME TypeOK, NEW mark \in Marks, Divides(mark)
  PROVE  /\ \A i \in 0..MaxLogFiles : mark[i] \in Nat /\ mark[i] <= Len(written) /\ mark[MaxLogFiles] <= mark[i]
         /\ \A i \in Indices : i \in 0..MaxLogFiles /\ i + 1 \in 0..MaxLogFiles /\ mark[i + 1] <= mark[i]
         /\ mark[0] = Len(written) /\ 0 \in 0..MaxLogFiles /\ MaxLogFiles \in 0..MaxLogFiles
         /\ \A i \in Indices : Texts[i] = <<>> => mark[i] = mark[i + 1]
<1>1. written \in Seq(1..MaxEvents) /\ Texts \in [Indices -> Seq(Entries)] /\ Division(mark, written, Texts)
  BY TextFacts, Zenon DEF TypeOK, Divides
<1>2. 0 \in 0..MaxLogFiles /\ MaxLogFiles \in 0..MaxLogFiles /\ (\A i \in 0..MaxLogFiles : i <= MaxLogFiles)
      /\ \A i \in Indices : i <= i + 1
  BY Bounds
<1>3. /\ \A i \in 0..MaxLogFiles : mark[i] \in Nat /\ mark[i] <= Len(written)
      /\ \A i \in Indices : i + 1 \in 0..MaxLogFiles /\ i \in 0..MaxLogFiles
      /\ \A i \in Indices : Texts[i] = <<>> => mark[i] = mark[i + 1]
  BY <1>1, DivisionFacts, Zenon
<1> QED
  BY <1>1, <1>2, <1>3, Zenon DEF Division

\* A step of another process leaves the reader where it was, and only adds to what is unread.
LEMMA CaughtUpKept ==
  ASSUME TypeOK, NEW mark \in Marks, Divides(mark), NEW new \in Marks, Fixed(mark, new), CaughtUp(mark), ~torn,
         quiet, Extends(written', written), UNCHANGED <<reader, position, lines, known>>,
         reader = "tail" => \A h \in 1..Len(written) :
           Continues(unread, written, h, Len(written)) => Continues(unread', written', h, Len(written'))
  PROVE  CaughtUp(new)'
<1>1. /\ written \in Seq(1..MaxEvents) /\ position \in Indices /\ known \in Nat
  BY DEF TypeOK
<1>2. PICK low \in Nat : low = mark[MaxLogFiles] /\ low = new[MaxLogFiles]
  BY <1>1, FixedMarks, MarkFacts, Zenon
<1>3. PICK high \in Nat : high = mark[position + 1] /\ high = new[position + 1] /\ high <= Len(written)
  BY <1>1, FixedMarks, MarkFacts, Zenon
<1>4. ASSUME reader' \in {"inspect", "open"} PROVE Held(lines', written', known', low, high)
  <2>1. Held(lines, written, known, low, high)
    BY <1>2, <1>3, <1>4, Zenon DEF CaughtUp
  <2> QED
    BY <1>1, <1>3, <2>1, HeldKept, Zenon
<1>5. ASSUME reader' = "tail" PROVE position' = 0 /\ HeldTail(lines', unread', written', known', low)
  <2>1. position = 0 /\ HeldTail(lines, unread, written, known, low)
    BY <1>2, <1>5, Zenon DEF CaughtUp
  <2>2. HeldTail(lines, unread', written', known, low)
    BY <1>1, <1>5, <2>1, HeldTailKept, Zenon
  <2> QED
    BY <2>1, <2>2, Zenon
<1>6. ASSUME reader' = "done" PROVE HeldAll(lines', written', known', low)
  <2>1. HeldAll(lines, written, known, low)
    BY <1>2, <1>6, Zenon DEF CaughtUp
  <2> QED
    BY <1>1, <2>1, HeldAllKept, Zenon
<1> QED
  BY <1>2, <1>3, <1>4, <1>5, <1>6, Zenon DEF CaughtUp

\* The reader has passed a file.
LEMMA CaughtUpNext ==
  ASSUME TypeOK, ReaderFits, NEW mark \in Marks, Divides(mark), NEW new \in Marks, Fixed(mark, new),
         UNCHANGED <<writerVars, known>>, NextFile,
         Held(lines', written, known, mark[MaxLogFiles], mark[position])
  PROVE  CaughtUp(new)'
<1>1. /\ written \in Seq(1..MaxEvents) /\ position \in Indices /\ known \in Nat /\ known <= Len(written)
      /\ written' = written /\ known' = known
  BY DEF TypeOK, ReaderFits, writerVars
<1>2. PICK low \in Nat : low = mark[MaxLogFiles] /\ low = new[MaxLogFiles]
  BY <1>1, FixedMarks, MarkFacts, Zenon
<1>3. CASE position = 0
  <2>1. reader' = "done"
    BY <1>3 DEF NextFile
  <2>2. mark[position] = Len(written) /\ low <= Len(written)
    BY <1>2, <1>3, MarkFacts, Zenon
  <2>3. Len(written) \in known..Len(written) /\ Len(written) >= low
    BY <1>1, <2>2
  <2>4. HeldAll(lines', written, known, low)
    BY <1>2, <2>2, <2>3, Zenon DEF HeldAll
  <2> QED
    BY <1>1, <1>2, <2>1, <2>4, Zenon DEF CaughtUp
<1>4. CASE position # 0
  <2>1. reader' = "inspect" /\ position' + 1 = position /\ position \in 1..MaxLogFiles
    BY <1>1, <1>4 DEF NextFile
  <2>2. new[position' + 1] = mark[position]
    BY <2>1, Zenon DEF Fixed
  <2> QED
    BY <1>1, <1>2, <2>1, <2>2, Zenon DEF CaughtUp
<1> QED
  BY <1>3, <1>4, Zenon

\* The reader has met the end of the active file behind a line without an end.
LEMMA CaughtUpTail ==
  ASSUME TypeOK, ReaderFits, NEW mark \in Marks, Divides(mark), NEW new \in Marks, Fixed(mark, new),
         UNCHANGED <<writerVars, known>>, reader' = "tail", position' = 0, unread' = <<>>, written # <<>>,
         Held(lines', written, known, mark[MaxLogFiles], Len(written)),
         lines' # <<>>, lines'[Len(lines')].record = written[Len(written)]
  PROVE  CaughtUp(new)'
<1>1. /\ written \in Seq(1..MaxEvents) /\ position \in Indices /\ known \in Nat /\ known <= Len(written)
      /\ written' = written /\ known' = known
  BY DEF TypeOK, ReaderFits, writerVars
<1>2. PICK low \in Nat : low = mark[MaxLogFiles] /\ low = new[MaxLogFiles] /\ low <= Len(written)
  BY <1>1, FixedMarks, MarkFacts, Zenon
<1>3. Len(written) \in known..Len(written) /\ Len(written) >= low /\ Len(written) >= 1
  BY <1>1, <1>2
<1>4. Continues(unread', written, Len(written), Len(written))
  BY <1>1, ContinuesNot, Zenon
<1>5. HeldTail(lines', unread', written, known, low)
  BY <1>2, <1>3, <1>4, Zenon DEF HeldTail
<1> QED
  BY <1>1, <1>2, <1>5, Zenon DEF CaughtUp

\* The reader has read a file.
LEMMA CaughtUpFile ==
  ASSUME LinesCounted, TypeOK, Ordered, OneToALine, ReaderFits, UnreadFits, TailInOrder,
         NEW mark \in Marks, Divides(mark), NEW new \in Marks, Fixed(mark, new), CaughtUp(mark), ~torn, quiet,
         ReadFile, ~ReadFails
  PROVE  CaughtUp(new)'
<1>1. /\ written \in Seq(1..MaxEvents) /\ Texts \in [Indices -> Seq(Entries)] /\ Increasing(written)
      /\ position \in Indices /\ known \in Nat /\ lines \in Seq(Lines)
  BY TextFacts, Zenon DEF TypeOK, Ordered, Increasing
<1>2. /\ reader = "open" /\ UNCHANGED <<writerVars, known>> /\ EndReached(Texts[position], NextFile)
      /\ unread' = unread /\ \E all, k : Joined(all, k, Texts[position])
  BY ReadEffect, Zenon
<1>3. PICK all, k : Joined(all, k, Texts[position])
  BY <1>2, Zenon
<1>4. PICK low \in Nat, mid \in Nat, high \in Nat :
        /\ low = mark[MaxLogFiles] /\ mid = mark[position + 1] /\ high = mark[position]
        /\ low <= mid /\ mid <= high /\ high <= Len(written)
  BY <1>1, MarkFacts, Zenon
<1>5. PICK text \in Seq(Lines) : text = Texts[position]
  BY <1>1, TextIsLines, Zenon
<1>6. Division(mark, written, Texts)
  BY Zenon DEF Divides
<1>7. /\ Continues(text, written, mid, high) /\ \A n \in DOMAIN text : text[n].record # 0
      /\ text # <<>> => text[Len(text)].record = written[high] /\ high >= 1
  BY <1>1, <1>4, <1>5, <1>6, TextContinues, Zenon
<1>8. Held(lines, written, known, low, mid)
  BY <1>2, <1>4, Zenon DEF CaughtUp
<1>9. OnlyBehind(lines, Len(lines), text, Len(text), written, known, mid)
  <2>1. DOMAIN text = 1..Len(text)
    BY <1>5
  <2> QED
    BY <1>7, <2>1, Zenon DEF OnlyBehind
<1>10. /\ \A n \in DOMAIN lines : lines[n].ended
       /\ \A n \in DOMAIN text : text[n].ended \/ n = Len(text)
  BY <1>1, <1>5, Zenon DEF TailInOrder, OneToALine
<1>11. InOrder(all)
  <2>1. InOrder(lines)
    BY <1>1, TailOrder, Zenon
  <2>2. InOrder(text)
    BY <1>1, <1>5, <1>6, FilesOrdered, Zenon DEF InOrder
  <2>3. position \in 0..position
    BY <1>1
  <2>4. \A i \in DOMAIN lines, j \in DOMAIN text : text[j].record # 0 => lines[i].record < text[j].record
    BY <1>2, <1>5, <2>3, Zenon DEF ReaderFits
  <2> QED
    BY <1>1, <1>3, <1>5, <2>1, <2>2, <2>4, OrderJoined, Zenon
<1>12. /\ Held(lines', written, known, low, high)
       /\ text # <<>> => lines' # <<>> /\ lines'[Len(lines')].record = text[Len(text)].record
  BY <1>1, <1>3, <1>4, <1>5, <1>7, <1>8, <1>9, <1>10, <1>11, JoinedHeld, Zenon
<1>13. CASE NextFile
  BY <1>2, <1>4, <1>12, <1>13, CaughtUpNext, Zenon
<1>14. CASE text # <<>> /\ position = 0 /\ reader' = "tail" /\ position' = position
  <2>1. high = Len(written) /\ unread' = <<>>
    BY <1>2, <1>4, <1>14, MarkFacts, Zenon DEF UnreadFits
  <2>2. written # <<>>
    BY <1>1, <1>7, <1>14, <2>1
  <2> QED
    BY <1>2, <1>4, <1>7, <1>12, <1>14, <2>1, <2>2, CaughtUpTail, Zenon
<1> QED
  BY <1>2, <1>5, <1>13, <1>14, Zenon DEF EndReached

\* The reader has read what its file got behind its end.
LEMMA CaughtUpMore ==
  ASSUME LinesCounted, TypeOK, Ordered, ReaderFits, UnreadFits, TailInOrder,
         NEW mark \in Marks, Divides(mark), NEW new \in Marks, Fixed(mark, new), CaughtUp(mark), ~torn, quiet,
         ReadTail, ~ReadFails
  PROVE  CaughtUp(new)'
<1>1. /\ written \in Seq(1..MaxEvents) /\ Increasing(written) /\ Len(written) \in Nat
      /\ known \in Nat /\ known <= Len(written) /\ lines \in Seq(Lines) /\ unread \in Seq(Lines)
  <2>1. written \in Seq(1..MaxEvents)
    BY Zenon DEF TypeOK
  <2>2. Len(written) \in Nat
    BY <2>1
  <2> QED
    BY <2>1, <2>2, Zenon DEF TypeOK, Ordered, Increasing, ReaderFits
<1>2. /\ reader = "tail" /\ UNCHANGED <<writerVars, known>> /\ unread' = <<>>
      /\ EndReached(unread, reader' = "done" /\ UNCHANGED position)
      /\ \E all, k : Joined(all, k, unread)
  BY TailEffect, Zenon
<1>3. PICK all, k : Joined(all, k, unread)
  BY <1>2, Zenon
<1>4. PICK low \in Nat : low = mark[MaxLogFiles] /\ low <= Len(written)
  BY MarkFacts, Zenon
<1>5. position = 0 /\ HeldTail(lines, unread, written, known, low)
  BY <1>2, <1>4, Zenon DEF CaughtUp
<1>6. PICK h \in known..Len(written) :
        /\ h >= low /\ h >= 1 /\ Held(lines, written, known, low, h)
        /\ lines # <<>> /\ lines[Len(lines)].record = written[h]
        /\ Continues(unread, written, h, Len(written))
  BY <1>5, Zenon DEF HeldTail
<1>7. h \in Nat /\ low <= h /\ h <= Len(written) /\ h \in 1..Len(written) /\ h >= known /\ DOMAIN written = 1..Len(written)
  BY <1>1, <1>6
<1>8. OnlyBehind(lines, Len(lines), unread, Len(unread), written, known, h)
  <2>1. Len(lines) \in 1..Len(lines)
    BY <1>1, <1>6
  <2> QED
    BY <1>6, <1>7, <2>1, Zenon DEF OnlyBehind
<1>9. /\ \A n \in DOMAIN lines : lines[n].ended
      /\ \A n \in DOMAIN unread : unread[n].ended \/ n = Len(unread)
  BY Zenon DEF TailInOrder, UnreadFits
<1>10. InOrder(all)
  <2>1. InOrder(lines)
    BY <1>1, TailOrder, Zenon
  <2> QED
    BY <1>1, <1>3, <2>1, OrderJoined, Zenon DEF UnreadFits
<1>11. Len(written) <= Len(written)
  BY <1>1
<1>12. /\ Held(lines', written, known, low, Len(written))
       /\ unread # <<>> => lines' # <<>> /\ lines'[Len(lines')].record = unread[Len(unread)].record
  BY <1>1, <1>3, <1>6, <1>7, <1>8, <1>9, <1>10, <1>11, JoinedHeld, Zenon
<1>13. CASE reader' = "done"
  <2>1. Len(written) \in known..Len(written) /\ Len(written) >= low
    BY <1>1, <1>4
  <2>2. HeldAll(lines', written, known, low)
    BY <1>12, <2>1, Zenon DEF HeldAll
  <2>3. new[MaxLogFiles] = low /\ written' = written /\ known' = known
    <3>1. position \in Indices
      BY DEF TypeOK
    <3> QED
      BY <1>2, <1>4, <3>1, FixedMarks, Zenon DEF writerVars
  <2> QED
    BY <1>13, <2>2, <2>3, Zenon DEF CaughtUp
<1>14. CASE unread # <<>> /\ ~unread[Len(unread)].ended /\ reader' = "tail" /\ position' = position
  <2>1. unread[Len(unread)].record # 0
    <3>1. unread[Len(unread)] \in Lines
      BY <1>1, <1>14
    <3> QED
      BY <1>14, <3>1, LineFacts, Zenon
  <2>2. unread[Len(unread)].record = written[Len(written)]
    BY <1>1, <1>6, <1>7, <1>14, <2>1, ContinuesToEnd, Zenon DEF UnreadFits
  <2>3. written # <<>>
    BY <1>1, <1>7
  <2> QED
    BY <1>2, <1>4, <1>5, <1>12, <1>14, <2>2, <2>3, CaughtUpTail, Zenon
<1> QED
  BY <1>2, <1>13, <1>14, Zenon DEF EndReached

\* A reader that starts, or whose reading fails, holds nothing.
LEMMA CaughtUpStart ==
  ASSUME TypeOK, NEW mark \in Marks, Divides(mark), NEW new \in Marks, Fixed(mark, new), StartReading
  PROVE  CaughtUp(new)'
<1>1. /\ reader' = "inspect" /\ position' + 1 = MaxLogFiles /\ lines' = <<>> /\ written' = written
      /\ written \in Seq(1..MaxEvents) /\ position \in Indices
  BY Bounds, SMTT(20) DEF StartReading, writerVars, TypeOK
<1>2. PICK low \in Nat : low = new[MaxLogFiles]
  BY <1>1, FixedMarks, MarkFacts, Zenon
<1>3. low \in low..low /\ (low + 1)..low = {} /\ DOMAIN <<>> = {}
  OBVIOUS
<1>4. Shown(<<>>, written, known', low, low)
  BY <1>3, Zenon DEF Shown, Only, Every, Blanks
<1>5. Held(lines', written', known', low, low)
  BY <1>1, <1>3, <1>4, Zenon DEF Held
<1> QED
  BY <1>1, <1>2, <1>5, Zenon DEF CaughtUp

\* Every step keeps CaughtUp, with the marks that follow.
LEMMA CaughtUpStep ==
  ASSUME LinesCounted, TypeOK, QueueInv, OneToALine, ReaderFits, UnreadFits, TailInOrder,
         NEW mark \in Marks, Divides(mark), CaughtUp(mark), NEW new \in Marks, Follows(mark, new), Next
  PROVE  CaughtUp(new)'
<1>1. SUFFICES ASSUME quiet', ~torn' PROVE CaughtUp(new)'
  BY Zenon DEF CaughtUp
<1>2. ~torn /\ Fixed(mark, new) /\ Ordered
  BY <1>1, TornStays, Zenon DEF Follows, Fixed, QueueInv
<1>3. written \in Seq(1..MaxEvents) /\ position \in Indices /\ unread \in Seq(Lines)
  BY Zenon DEF TypeOK
<1>4. Extends(written', written)
  BY LogGrows, Zenon
<1>5. ASSUME quiet, UNCHANGED <<written, reader, position, unread, lines, known>> PROVE CaughtUp(new)'
  BY <1>2, <1>4, <1>5, CaughtUpKept, Zenon
<1>6. ASSUME ReadFails PROVE CaughtUp(new)'
  BY <1>6, Zenon DEF ReadFails, CaughtUp
<1>7. CASE Initialize \/ LogEvent \/ Shutdown \/ Join \/ EndProcess \/ Receive \/ RotateIfNeeded
  BY <1>1, <1>5, <1>7, Zenon
  DEF Initialize, LogEvent, Shutdown, Join, EndProcess, Receive, RotateIfNeeded, readerVars
<1>8. CASE RemoveOldest \/ Rename
  BY <1>1, <1>5, <1>8, Zenon DEF RemoveOldest, Rename
<1>9. CASE AppendRecord
  <2>1. at = "append" /\ UNCHANGED <<reader, position, lines, known, quiet>>
    BY <1>9, Zenon DEF AppendRecord
  <2>2. CASE UNCHANGED <<written, unread>>
    BY <1>1, <1>5, <2>1, <2>2, Zenon
  <2>3. CASE /\ written' = Append(written, Head(queue))
             /\ unread' = IF Following THEN Append(unread, [record |-> Head(queue), ended |-> FALSE]) ELSE unread
    <3>1. Head(queue) \in 1..MaxEvents
      <4>1. queue \in Seq(0..MaxEvents) /\ queue # <<>> /\ Head(queue) # 0
        BY <2>1, Zenon DEF TypeOK
      <4> QED
        BY <4>1, SMTT(20)
    <3>2. PICK v \in 1..MaxEvents, e \in Lines :
            v = Head(queue) /\ e = [record |-> Head(queue), ended |-> FALSE] /\ e.record = v
      <4>1. [record |-> Head(queue), ended |-> FALSE] \in Lines
        BY <3>1 DEF Lines, Entries
      <4> QED
        BY <3>1, <4>1, Zenon
    <3>3. reader = "tail" => Following
      BY <1>1, <1>2, <2>1, Zenon DEF CaughtUp, Following
    <3>4. reader = "tail" => \A h \in 1..Len(written) :
            Continues(unread, written, h, Len(written)) => Continues(unread', written', h, Len(written'))
      <4>1. written' = Append(written, v) /\ (reader = "tail" => unread' = Append(unread, e))
        BY <2>3, <3>2, <3>3, Zenon
      <4> QED
        BY <1>3, <3>2, <4>1, ContinuesAppended, Zenon
    <3> QED
      BY <1>1, <1>2, <1>4, <2>1, <3>4, CaughtUpKept, Zenon
  <2> QED
    BY <1>9, <2>2, <2>3, Zenon DEF AppendRecord
<1>10. CASE AppendNewLine
  <2>1. UNCHANGED <<written, reader, position, lines, known, quiet>>
    BY <1>10, Zenon DEF AppendNewLine
  <2>2. unread' \in {unread, EndLine(unread)}
    BY <1>10, Zenon DEF AppendNewLine
  <2>3. \A h \in 1..Len(written) :
          Continues(unread, written, h, Len(written)) => Continues(unread', written', h, Len(written'))
    BY <1>3, <2>1, <2>2, ContinuesEnded, Zenon
  <2> QED
    BY <1>1, <1>2, <1>4, <2>1, <2>3, CaughtUpKept, Zenon
<1>11. CASE StartReading
  BY <1>2, <1>11, CaughtUpStart, Zenon
<1>12. CASE InspectFile
  <2>1. reader = "inspect" /\ UNCHANGED <<writerVars, known, quiet>> /\ written' = written
    BY <1>12, Zenon DEF InspectFile, writerVars
  <2>2. Held(lines, written, known, mark[MaxLogFiles], mark[position + 1])
    BY <1>1, <1>2, <2>1, Zenon DEF CaughtUp
  <2>3. CASE reader' = "open" /\ UNCHANGED <<position, lines>>
    <3>1. new[MaxLogFiles] = mark[MaxLogFiles] /\ new[position + 1] = mark[position + 1]
      BY <1>2, <1>3, FixedMarks, Zenon
    <3> QED
      BY <2>1, <2>2, <2>3, <3>1, Zenon DEF CaughtUp
  <2>4. CASE ~Exists(position) /\ NextFile /\ lines' = lines
    <3>1. Texts[position] = <<>>
      BY <1>3, <2>4, TextFacts, Zenon
    <3>2. mark[position] = mark[position + 1]
      BY <1>3, <3>1, MarkFacts, Zenon
    <3>3. Held(lines', written, known, mark[MaxLogFiles], mark[position])
      BY <2>2, <2>4, <3>2, Zenon
    <3> QED
      BY <1>2, <2>1, <2>4, <3>3, CaughtUpNext, Zenon
  <2> QED
    BY <1>6, <1>12, <2>3, <2>4, Zenon DEF InspectFile
<1>13. CASE ReadFile
  <2>1. quiet
    BY <1>1, <1>13, ReadEffect, Zenon
  <2> QED
    BY <1>2, <1>6, <1>13, <2>1, CaughtUpFile, Zenon
<1>14. CASE ReadTail
  <2>1. quiet
    BY <1>1, <1>14, TailEffect, Zenon
  <2> QED
    BY <1>2, <1>6, <1>14, <2>1, CaughtUpMore, Zenon
<1> QED
  BY <1>7, <1>8, <1>9, <1>10, <1>11, <1>12, <1>13, <1>14, Zenon DEF Next, WriterStep, ReaderStep

\* Every step of the processes, of the writer thread, of the file system and of the reader
\* preserves the invariant.
LEMMA StepIInv ==
  ASSUME LinesCounted, IInv, [Next]_vars
  PROVE  IInv'
<1>1. TypeOK /\ QueueInv /\ WriterFits /\ OneToALine /\ ReaderFits /\ UnreadFits /\ TailInOrder /\ AppFits
  BY DEF IInv, QueueInv
<1>2. PICK mark \in Marks : Divides(mark) /\ Steady(mark) /\ CaughtUp(mark)
  BY DEF IInv
<1>3. CASE Next
  <2>1. TypeOK'
    BY <1>1, <1>3, TypeStep, Zenon
  <2>2. QueueInv'
    BY <1>1, <1>3, QueueStep, Zenon
  <2>3. WriterFits'
    BY <1>1, <1>3, WriterFitsStep, Zenon
  <2>4. OneToALine'
    BY <1>1, <1>3, OneToALineStep, Zenon
  <2>5. ReaderFits' /\ TailInOrder'
    BY <1>1, <1>2, <1>3, ReaderFitsStep, Zenon
  <2>6. UnreadFits'
    BY <1>1, <1>3, UnreadFitsStep, Zenon
  <2>7. PICK new \in Marks : Follows(mark, new)
    BY <1>1, <1>2, <1>3, MarksStep, Zenon
  <2>8. CaughtUp(new)'
    BY <1>1, <1>2, <1>3, <2>7, CaughtUpStep, Zenon
  <2>9. Divides(new)' /\ Steady(new)'
    BY <2>7, Zenon DEF Follows
  <2> QED
    BY <2>1, <2>2, <2>3, <2>4, <2>5, <2>6, <2>8, <2>9, Zenon DEF IInv, QueueInv
<1>4. CASE UNCHANGED vars
  <2> USE <1>4 DEF vars, writerVars, readerVars
  <2>1. Texts' = Texts /\ Present' = Present /\ Hole' = Hole
    BY FilesKept, Zenon DEF Hole
  <2>2. TypeOK'
    BY <1>1, ZenonT(30) DEF TypeOK
  <2>3. QueueInv'
    <3>1. QueueFits' /\ Ordered'
      BY <1>1, Zenon DEF QueueInv, QueueFits, Ordered
    <3>2. AppFits' /\ Accounted'
      BY <1>1, Zenon DEF QueueInv, AppFits, Accounted, Range
    <3> QED
      BY <3>1, <3>2, Zenon DEF QueueInv
  <2>4. WriterFits' /\ OneToALine'
    BY <1>1, <2>1, Zenon DEF WriterFits, OneToALine
  <2>5. ReaderFits' /\ TailInOrder'
    BY <1>1, <2>1, Zenon DEF ReaderFits, TailInOrder, LinesAfter
  <2>6. UnreadFits'
    BY <1>1, Zenon DEF UnreadFits, InOrder, Following
  <2>7. Divides(mark)'
    BY <1>2, <2>1, Zenon DEF Divides, Division
  <2>8. Steady(mark)'
    BY <1>2, <2>1, Zenon DEF Steady, Gapless
  <2>9. CaughtUp(mark)'
    BY <1>2, Zenon DEF CaughtUp
  <2> QED
    BY <2>2, <2>3, <2>4, <2>5, <2>6, <2>7, <2>8, <2>9, Zenon DEF IInv, QueueInv
<1> QED
  BY <1>3, <1>4
=============================================================================
