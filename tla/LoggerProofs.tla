---------------------------- MODULE LoggerProofs ----------------------------
(***************************************************************************)
(* Proofs about Logger, for any number and size of files and any number of *)
(* records, failures and crashes: what the files retain, what a concurrent *)
(* reader prints, and what a shutdown has flushed.                         *)
(***************************************************************************)
EXTENDS LoggerReaderProofs, FiniteSetTheorems

-----------------------------------------------------------------------------
(***************************************************************************)
(* Induction over the natural numbers, stated about a set and not about an *)
(* operator.                                                               *)
(***************************************************************************)
LEMMA LeastElement ==
  ASSUME NEW T, T \subseteq Nat, T # {}
  PROVE  \E x \in T : \A y \in T : x <= y
<1>1. IsWellFoundedOn(OpToRel(<, Nat), Nat)
  BY NatLessThanWellFounded, Zenon
<1>2. PICK x \in T : \A y \in T : ~(<<y, x>> \in OpToRel(<, Nat))
  BY <1>1, WFMin, Zenon
<1>3. \A y \in T : ~(y < x)
  BY <1>2, Zenon DEF OpToRel
<1> QED
  BY <1>3

\* Induction over a set of numbers.
LEMMA Induction ==
  ASSUME NEW T, T \subseteq Nat, 0 \in T, \A n \in Nat : n \in T => n + 1 \in T
  PROVE  T = Nat
<1>1. SUFFICES ASSUME Nat \ T # {} PROVE FALSE
  BY Zenon
<1>2. PICK x \in Nat \ T : \A y \in Nat \ T : x <= y
  BY <1>1, LeastElement, Zenon
<1>3. x # 0 /\ x - 1 \in Nat /\ x - 1 \in T
  BY <1>2
<1> QED
  BY <1>2, <1>3

-----------------------------------------------------------------------------
(***************************************************************************)
(* Concatenations.                                                         *)
(***************************************************************************)
\* The function that Concatenation defines for itself.
Prefixes(g, seqs) ==
  g = [n \in 0..Len(seqs) |-> IF n = 0 THEN <<>> ELSE g[n - 1] \o seqs[n]]

\* There is at most one, so any one will do to compute Concatenation.
LEMMA ConcatenationUnique ==
  ASSUME NEW n \in Nat, NEW seqs, Len(seqs) = n, NEW f, Prefixes(f, seqs)
  PROVE  Concatenation(seqs) = f[n]
<1>1. PICK h : h = CHOOSE g : Prefixes(g, seqs)
  OBVIOUS
<1>2. Prefixes(h, seqs)
  BY <1>1, Zenon
<1>6. ASSUME NEW g, Prefixes(g, seqs)
      PROVE  \A k \in 0..Len(seqs) : g[k] = IF k = 0 THEN <<>> ELSE g[k - 1] \o seqs[k]
  BY <1>6, Zenon DEF Prefixes
<1>7. \A k \in 0..Len(seqs) : h[k] = IF k = 0 THEN <<>> ELSE h[k - 1] \o seqs[k]
  BY <1>2, <1>6, Zenon
<1>8. \A k \in 0..Len(seqs) : f[k] = IF k = 0 THEN <<>> ELSE f[k - 1] \o seqs[k]
  BY <1>6, Zenon
<1> DEFINE T == {k \in Nat : k \in 0..n => h[k] = f[k]}
<1>3. T = Nat
  <2>1. 0 \in T
    <3>1. 0 \in 0..Len(seqs)
      OBVIOUS
    <3>2. h[0] = <<>> /\ f[0] = <<>>
      BY <1>7, <1>8, <3>1, Zenon
    <3> QED
      BY <3>2
  <2>2. ASSUME NEW k \in Nat, k \in T PROVE k + 1 \in T
    <3>1. SUFFICES ASSUME k + 1 \in 0..n PROVE h[k + 1] = f[k + 1]
      OBVIOUS
    <3>2. k + 1 # 0 /\ (k + 1) - 1 = k /\ k \in 0..n /\ k + 1 \in 0..Len(seqs)
      BY <3>1
    <3>3. h[k + 1] = h[(k + 1) - 1] \o seqs[k + 1] /\ f[k + 1] = f[(k + 1) - 1] \o seqs[k + 1]
      BY <1>7, <1>8, <3>2, Zenon
    <3>4. h[k] = f[k]
      BY <2>2, <3>2
    <3> QED
      BY <3>2, <3>3, <3>4, Zenon
  <2>3. T \subseteq Nat
    OBVIOUS
  <2> HIDE DEF T
  <2> QED
    BY <2>1, <2>2, <2>3, Induction, Zenon
<1>4. n \in T
  BY <1>3
<1>5. Concatenation(seqs) = h[n]
  BY <1>1 DEF Concatenation, Prefixes
<1> QED
  BY <1>4, <1>5

\* The sequences are adjacent pieces of w: the i-th one ends at m[i].
Adjacent(n, seqs, w, m) ==
  /\ Len(seqs) = n
  /\ \A i \in 0..n : m[i] \in 0..Len(w)
  /\ \A i, j \in 0..n : i <= j => m[i] <= m[j]
  /\ \A i \in 1..n : seqs[i] = SubSeq(w, m[i - 1] + 1, m[i])

\* Adjacent pieces of a sequence, put together, are the piece from the first to the last.
LEMMA ConcatenationAdjacent ==
  ASSUME NEW S, NEW w \in Seq(S), NEW n \in Nat, NEW seqs, NEW m, Adjacent(n, seqs, w, m)
  PROVE  Concatenation(seqs) = SubSeq(w, m[0] + 1, m[n])
<1> Len(seqs) = n
  BY DEF Adjacent
<1> \A i \in 0..n : m[i] \in 0..Len(w)
  BY DEF Adjacent
<1> \A i, j \in 0..n : i <= j => m[i] <= m[j]
  BY DEF Adjacent
<1> \A i \in 1..n : seqs[i] = SubSeq(w, m[i - 1] + 1, m[i])
  BY Zenon DEF Adjacent
<1> DEFINE f == [i \in 0..n |-> SubSeq(w, m[0] + 1, m[i])]
<1>1. ASSUME NEW i \in 0..n
      PROVE  SubSeq(w, m[0] + 1, m[i]) = IF i = 0 THEN <<>> ELSE f[i - 1] \o seqs[i]
  <2>1. CASE i = 0
    BY <2>1
  <2>2. CASE i # 0
    <3>1. i - 1 \in 0..n /\ i \in 1..n /\ 0 \in 0..n
      BY <2>2
    <3>2. m[0] \in 0..Len(w) /\ m[i - 1] \in m[0]..Len(w) /\ m[i] \in m[i - 1]..Len(w)
      BY <3>1
    <3>3. f[i - 1] = SubSeq(w, m[0] + 1, m[i - 1])
      BY <3>1, Zenon
    <3>4. SubSeq(w, m[0] + 1, m[i - 1]) \o SubSeq(w, m[i - 1] + 1, m[i]) = SubSeq(w, m[0] + 1, m[i])
      BY <3>2, ConcatAdjacent, Zenon
    <3> QED
      BY <2>2, <3>1, <3>3, <3>4, Zenon
  <2> QED
    BY <2>1, <2>2, Zenon
<1>2. Prefixes(f, seqs)
  BY <1>1, Zenon DEF Prefixes
<1>3. f[n] = SubSeq(w, m[0] + 1, m[n])
  <2>1. n \in 0..n
    OBVIOUS
  <2> QED
    BY <2>1, Zenon
<1> HIDE DEF f
<1> QED
  BY <1>2, <1>3, ConcatenationUnique

-----------------------------------------------------------------------------
(***************************************************************************)
(* The lines of a text.                                                    *)
(***************************************************************************)
LEMMA LinesAfterFacts ==
  ASSUME NEW t \in Seq(Lines), NEW k \in 0..Len(t)
  PROVE  /\ LinesAfter(k, t) \in Nat
         /\ LinesAfter(k, t) <= Len(t) - k
         /\ (\A i \in DOMAIN t : t[i].ended) => LinesAfter(k, t) = Len(t) - k
<1> DEFINE E == {i \in (k + 1)..Len(t) : t[i].ended}
<1>1. IsFiniteSet((k + 1)..Len(t)) /\ Cardinality((k + 1)..Len(t)) = Len(t) - k
  <2>1. k + 1 \in Int /\ Len(t) \in Int /\ k + 1 <= Len(t) + 1
    OBVIOUS
  <2>2. /\ IsFiniteSet((k + 1)..Len(t))
        /\ Cardinality((k + 1)..Len(t)) = IF k + 1 > Len(t) THEN 0 ELSE Len(t) - (k + 1) + 1
    BY <2>1, FS_Interval, Zenon
  <2> QED
    BY <2>1, <2>2
<1>2. E \in SUBSET ((k + 1)..Len(t))
  OBVIOUS
<1>3. (\A i \in DOMAIN t : t[i].ended) => E = (k + 1)..Len(t)
  OBVIOUS
<1>4. LinesAfter(k, t) = Cardinality(E)
  BY DEF LinesAfter
<1> HIDE DEF E
<1>5. IsFiniteSet(E) /\ Cardinality(E) <= Cardinality((k + 1)..Len(t))
  BY <1>1, <1>2, FS_Subset, Zenon
<1>6. Cardinality(E) \in Nat
  BY <1>5, FS_CardinalityType
<1> QED
  BY <1>1, <1>3, <1>4, <1>5, <1>6, Zenon

\* Dropping the first records of a text leaves the lines that came after them.
LEMMA LinesOfRest ==
  ASSUME NEW t \in Seq(Lines), NEW k \in 0..Len(t), NEW s, s = SubSeq(t, k + 1, Len(t))
  PROVE  LinesAfter(0, s) = LinesAfter(k, t)
<1> DEFINE E == {i \in (k + 1)..Len(t) : t[i].ended}
           F == {i \in (0 + 1)..Len(s) : s[i].ended}
           b == [i \in E |-> i - k]
<1>1. s \in Seq(Lines) /\ Len(s) = Len(t) - k /\ \A i \in 1..(Len(t) - k) : s[i] = t[k + i]
  BY SubSeqFacts
<1>2. IsFiniteSet(E)
  <2>1. IsFiniteSet((k + 1)..Len(t))
    BY FS_Interval
  <2>2. E \in SUBSET ((k + 1)..Len(t))
    OBVIOUS
  <2> HIDE DEF E
  <2> QED
    BY <2>1, <2>2, FS_Subset, Zenon
<1>3. b \in Bijection(E, F)
  <2>1. ASSUME NEW i \in E PROVE b[i] = i - k /\ i - k \in F
    <3>1. i - k \in 1..(Len(t) - k) /\ k + (i - k) = i /\ t[i].ended
      OBVIOUS
    <3>2. s[i - k] = t[i]
      BY <1>1, <3>1
    <3>3. i - k \in F
      BY <1>1, <3>1, <3>2, SMTT(20)
    <3> HIDE DEF F
    <3> QED
      BY <3>3
  <2>2. b \in [E -> F]
    BY <2>1, Zenon
  <2>3. \A i, j \in E : b[i] = b[j] => i = j
    BY <2>1
  <2>4. ASSUME NEW j \in F PROVE \E i \in E : b[i] = j
    <3>1. j + k \in E
      BY <1>1
    <3>2. b[j + k] = j
      BY <3>1
    <3> QED
      BY <3>1, <3>2
  <2> HIDE DEF E, F, b
  <2> QED
    BY <2>2, <2>3, <2>4, SMTT(20) DEF Bijection, Injection, Surjection, IsInjective
<1>4. LinesAfter(0, s) = Cardinality(F) /\ LinesAfter(k, t) = Cardinality(E)
  BY DEF LinesAfter
<1> HIDE DEF E, F, b
<1>5. ExistsBijection(E, F)
  BY <1>3 DEF ExistsBijection
<1> QED
  BY <1>2, <1>4, <1>5, FS_Bijection, SMTT(20)

\* Newest drops records from the beginning, as few as leave n lines.
LEMMA NewestFacts ==
  ASSUME NEW t \in Seq(Lines), NEW n \in Nat
  PROVE  \E k \in 0..Len(t) :
           /\ Newest(n, t) = SubSeq(t, k + 1, Len(t))
           /\ LinesAfter(k, t) <= n
           /\ (\A i \in DOMAIN t : t[i].ended) => k = IF Len(t) <= n THEN 0 ELSE Len(t) - n
<1> DEFINE K == {k \in 0..Len(t) : LinesAfter(k, t) <= n}
<1>1. Len(t) \in K
  <2>1. LinesAfter(Len(t), t) \in Nat /\ LinesAfter(Len(t), t) <= Len(t) - Len(t)
    BY LinesAfterFacts
  <2> QED
    BY <2>1
<1>2. K \subseteq Nat
  OBVIOUS
<1>3. Newest(n, t) = SubSeq(t, Min(K) + 1, Len(t))
  BY DEF Newest
<1>4. \A k \in K : k \in 0..Len(t) /\ LinesAfter(k, t) <= n
  OBVIOUS
<1>5. \A k \in 0..Len(t) : LinesAfter(k, t) <= n => k \in K
  OBVIOUS
<1> HIDE DEF K
<1>6. PICK k : k = Min(K)
  OBVIOUS
<1>7. k \in K /\ \A j \in K : k <= j
  <2>1. \E x \in K : \A y \in K : x <= y
    BY <1>1, <1>2, LeastElement, Zenon
  <2> QED
    BY <1>6, <2>1, Zenon DEF Min
<1>8. ASSUME \A i \in DOMAIN t : t[i].ended
      PROVE  k = IF Len(t) <= n THEN 0 ELSE Len(t) - n
  <2>1. \A j \in 0..Len(t) : LinesAfter(j, t) = Len(t) - j
    BY <1>8, LinesAfterFacts
  <2>2. LinesAfter(k, t) = Len(t) - k /\ k \in 0..Len(t) /\ Len(t) - k <= n
    BY <2>1, <1>4, <1>7, SMTT(20)
  <2>3. CASE Len(t) <= n
    <3>1. 0 \in 0..Len(t) /\ LinesAfter(0, t) <= n
      BY <2>1, <2>3
    <3> QED
      BY <3>1, <1>5, <1>7, <2>2, <2>3, SMTT(20)
  <2>4. CASE Len(t) > n
    <3>1. Len(t) - n \in 0..Len(t) /\ LinesAfter(Len(t) - n, t) <= n
      BY <2>1, <2>4
    <3> QED
      BY <3>1, <1>5, <1>7, <2>2, <2>4, SMTT(20)
  <2> QED
    BY <2>3, <2>4
<1> QED
  BY <1>3, <1>4, <1>6, <1>7, <1>8, Zenon

\* The reader's proofs rest on this.
LEMMA LinesAreCounted == LinesCounted
<1>1. Limit \in Nat /\ Limit >= 1
  BY Bounds
<1>2. LinesAfter(0, <<>>) <= Limit
  <2>1. PICK t \in Seq(Lines) : t = <<>> /\ Len(t) = 0 /\ 0 \in 0..Len(t)
    <3>1. <<>> \in Seq(Lines) /\ Len(<<>>) = 0 /\ 0 \in 0..Len(<<>>)
      BY NoFileIsNoText, TextIsLines
    <3> QED
      BY <3>1, Zenon
  <2>2. LinesAfter(0, t) \in Nat /\ LinesAfter(0, t) <= Len(t) - 0
    BY <2>1, LinesAfterFacts, Zenon
  <2>3. LinesAfter(0, t) <= Limit
    BY <1>1, <2>1, <2>2, SMTT(20)
  <2> QED
    BY <2>1, <2>3, Zenon
<1>3. ASSUME NEW t \in Seq(Lines)
      PROVE  \E k \in 0..Len(t) :
               /\ Newest(Limit, t) = SubSeq(t, k + 1, Len(t))
               /\ LinesAfter(0, SubSeq(t, k + 1, Len(t))) <= Limit
               /\ (\A i \in DOMAIN t : t[i].ended) => k = IF Len(t) <= Limit THEN 0 ELSE Len(t) - Limit
  <2>1. PICK k \in 0..Len(t) :
          /\ Newest(Limit, t) = SubSeq(t, k + 1, Len(t))
          /\ LinesAfter(k, t) <= Limit
          /\ (\A i \in DOMAIN t : t[i].ended) => k = IF Len(t) <= Limit THEN 0 ELSE Len(t) - Limit
    BY <1>1, NewestFacts, Zenon
  <2>2. LinesAfter(0, SubSeq(t, k + 1, Len(t))) = LinesAfter(k, t)
    BY LinesOfRest, Zenon
  <2> QED
    BY <2>1, <2>2, Zenon
<1> QED
  BY <1>2, <1>3, Zenon DEF LinesCounted

USE Bounds DEF Indices, Oldest, Stop

\* The invariant holds in every reachable state.
THEOREM LogInvariance == Spec => []IInv
<1>1. Init => IInv
  BY LinesAreCounted, InitIInv
<1>2. IInv /\ [Next]_vars => IInv'
  BY LinesAreCounted, StepIInv
<1> QED BY <1>1, <1>2, PTL DEF Spec

-----------------------------------------------------------------------------
(***************************************************************************)
(* What the log promises.                                                  *)
(***************************************************************************)
\* Every variable keeps its type, and the writer works on the head of its queue.
THEOREM TypeCorrect == Spec => []TypeOK
<1>1. IInv => TypeOK
  BY Zenon DEF IInv
<1> QED BY <1>1, LogInvariance, PTL

\* When shutdown_structured_logging has returned, everything queued before it was written,
\* or its write has failed.
THEOREM ShutdownHasFlushed == Spec => []Flushed
<1>1. IInv => Flushed
  <2> SUFFICES ASSUME IInv, app = "ended" PROVE 1..events \subseteq Range(written) \cup failed
    BY DEF Flushed
  <2>1. queue = <<>>
    BY DEF IInv, AppFits
  <2>2. Range(queue) = {}
    BY <2>1, SMTT(20) DEF Range
  <2> QED
    BY <2>2 DEF IInv, Accounted
<1> QED BY <1>1, LogInvariance, PTL

\* The records that `wardoff --log` has read are in order, on no more lines than it was asked
\* for, empty ones included, and on a line each unless the end of a line is missing, whatever
\* is rotated meanwhile.
THEOREM ReadsInOrder == Spec => []TailInOrder
<1>1. IInv => TailInOrder
  BY DEF IInv
<1> QED BY <1>1, LogInvariance, PTL

\* A file's records are the part of the log between its marks.
LEMMA FileRecords ==
  ASSUME TypeOK, NEW mark \in Marks, Divides(mark), NEW f \in Indices
  PROVE  Records(Texts[f]) = SubSeq(written, mark[f + 1] + 1, mark[f])
<1>1. written \in Seq(1..MaxEvents) /\ Texts \in [Indices -> Seq(Entries)] /\ Division(mark, written, Texts)
  BY TextFacts DEF TypeOK, Divides
<1>2. PICK low \in Nat, high \in Nat :
        low = mark[f + 1] /\ high = mark[f] /\ low <= high /\ high <= Len(written)
  <2>1. /\ \A i \in 0..MaxLogFiles : mark[i] \in Nat /\ mark[i] <= Len(written)
        /\ f + 1 \in 0..MaxLogFiles /\ f \in 0..MaxLogFiles
    BY <1>1, DivisionFacts, Zenon
  <2>2. f <= f + 1
    OBVIOUS
  <2>3. mark[f + 1] <= mark[f]
    BY <1>1, <2>1, <2>2, Zenon DEF Division
  <2> QED
    BY <2>1, <2>3, Zenon
<1>3. PICK text \in Seq(Entries) : /\ text = Texts[f] /\ Len(text) = high - low
                                   /\ \A n \in DOMAIN text : text[n].record = written[low + n]
  <2>1. Texts[f] \in Seq(Entries)
    BY <1>1
  <2> QED
    BY <1>1, <1>2, <2>1, Zenon DEF Division
<1>4. DOMAIN text = 1..(high - low) /\ high - low \in Nat
  BY <1>2, <1>3, SMTT(20)
<1>5. PICK r : r = Records(text)
  BY Zenon
<1>6. r = [n \in 1..(high - low) |-> text[n].record]
  BY <1>4, <1>5, Zenon DEF Records
<1>7. PICK s : s = SubSeq(written, low + 1, high)
  BY Zenon
<1>8. /\ s \in Seq(1..MaxEvents) /\ Len(s) = high - low
      /\ \A n \in 1..(high - low) : s[n] = written[low + n]
  <2>1. low \in 0..Len(written) /\ high \in low..Len(written)
    BY <1>1, <1>2, SMTT(20)
  <2>2. /\ SubSeq(written, low + 1, high) \in Seq(1..MaxEvents)
        /\ Len(SubSeq(written, low + 1, high)) = high - low
        /\ \A n \in 1..(high - low) : SubSeq(written, low + 1, high)[n] = written[low + n]
    <3>1. PICK S, log : log \in Seq(S) /\ log = written /\ S = 1..MaxEvents
      BY <1>1, Zenon
    <3>2. low \in 0..Len(log) /\ high \in low..Len(log)
      BY <2>1, <3>1, Zenon
    <3>3. /\ SubSeq(log, low + 1, high) \in Seq(S)
          /\ Len(SubSeq(log, low + 1, high)) = high - low
          /\ \A n \in 1..(high - low) : SubSeq(log, low + 1, high)[n] = log[low + n]
      BY <3>1, <3>2, SubSeqFacts, ZenonT(30)
    <3> QED
      BY <3>1, <3>3, Zenon
  <2> QED
    BY <1>7, <2>2, Zenon
<1>9. s = [n \in 1..(high - low) |-> written[low + n]]
  BY <1>8
<1>10. r = s
  BY <1>3, <1>4, <1>6, <1>9, Zenon
<1> QED
  BY <1>2, <1>3, <1>5, <1>7, <1>10, Zenon DEF Records

\* The files hold the end of the log.
LEMMA RetainedFacts ==
  ASSUME TypeOK, NEW mark \in Marks, Divides(mark)
  PROVE  /\ Retained = SubSeq(written, mark[MaxLogFiles] + 1, Len(written))
         /\ Len(Retained) = Len(written) - mark[MaxLogFiles]
         /\ mark[MaxLogFiles] \in 0..Len(written)
<1>1. written \in Seq(1..MaxEvents) /\ Texts \in [Indices -> Seq(Entries)] /\ Division(mark, written, Texts)
  BY TextFacts, SMTT(20) DEF TypeOK, Divides
<1>2. \A i \in 0..MaxLogFiles : mark[i] \in Nat /\ mark[i] <= Len(written)
  BY <1>1, DivisionFacts
<1>3. PICK log \in Seq(1..MaxEvents) : log = written
  BY <1>1, Zenon
<1>4. PICK low \in 0..Len(log) : low = mark[MaxLogFiles]
  <2>1. MaxLogFiles \in 0..MaxLogFiles
    BY Bounds
  <2>2. mark[MaxLogFiles] \in 0..Len(log)
    BY <1>2, <1>3, <2>1, SMTT(20)
  <2> QED
    BY <2>2, Zenon
<1>5. PICK seqs : seqs = [i \in 1..MaxLogFiles |-> Records(Text(MaxLogFiles - i))]
  BY Zenon
<1>6. PICK m : m = [i \in 0..MaxLogFiles |-> mark[MaxLogFiles - i]]
  BY Zenon
<1>7. \A i \in 0..MaxLogFiles : m[i] = mark[MaxLogFiles - i] /\ MaxLogFiles - i \in 0..MaxLogFiles
  <2>1. \A i \in 0..MaxLogFiles : MaxLogFiles - i \in 0..MaxLogFiles
    BY Bounds
  <2> QED
    BY <1>6, <2>1, Zenon
<1>8. \A i \in 0..MaxLogFiles : m[i] \in 0..Len(log)
  <2>1. \A i \in 0..MaxLogFiles : m[i] \in Nat /\ m[i] <= Len(log)
    BY <1>2, <1>3, <1>7, Zenon
  <2> QED
    BY <2>1
<1>9. \A i, j \in 0..MaxLogFiles : i <= j => m[i] <= m[j]
  <2>1. \A i, j \in 0..MaxLogFiles : i <= j => MaxLogFiles - j <= MaxLogFiles - i
    BY Bounds
  <2> QED
    BY <1>1, <1>7, <2>1, Zenon DEF Division
<1>10. ASSUME NEW i \in 1..MaxLogFiles PROVE seqs[i] = SubSeq(log, m[i - 1] + 1, m[i])
  <2>1. PICK f \in Indices : f = MaxLogFiles - i /\ f + 1 = MaxLogFiles - (i - 1)
    <3>1. MaxLogFiles - i \in Indices /\ (MaxLogFiles - i) + 1 = MaxLogFiles - (i - 1)
      BY Bounds
    <3> QED
      BY <3>1, Zenon
  <2>2. i \in 0..MaxLogFiles /\ i - 1 \in 0..MaxLogFiles
    BY Bounds
  <2>3. m[i] = mark[f] /\ m[i - 1] = mark[f + 1]
    BY <1>7, <2>1, <2>2, Zenon
  <2>4. seqs[i] = Records(Text(f))
    BY <1>5, <2>1, Zenon DEF Records, Text, Exists
  <2>5. Records(Text(f)) = Records(Texts[f])
    BY TextFacts DEF Records
  <2>6. Records(Texts[f]) = SubSeq(written, mark[f + 1] + 1, mark[f])
    BY FileRecords
  <2> QED
    BY <1>3, <2>3, <2>4, <2>5, <2>6, Zenon
<1>11. Len(seqs) = MaxLogFiles
  BY <1>5
<1>12. Concatenation(seqs) = SubSeq(log, m[0] + 1, m[MaxLogFiles])
  <2>1. PICK n \in Nat : n = MaxLogFiles
    BY Bounds, Zenon
  <2>2. PICK S : log \in Seq(S)
    BY Zenon
  <2>3. Adjacent(n, seqs, log, m)
    BY <1>8, <1>9, <1>10, <1>11, <2>1, Zenon DEF Adjacent
  <2>4. Concatenation(seqs) = SubSeq(log, m[0] + 1, m[n])
    BY <2>2, <2>3, ConcatenationAdjacent, Zenon
  <2> QED
    BY <2>1, <2>4, Zenon
<1>13. m[0] = low /\ m[MaxLogFiles] = Len(log)
  <2>1. /\ 0 \in 0..MaxLogFiles /\ MaxLogFiles \in 0..MaxLogFiles /\ MaxLogFiles - 0 = MaxLogFiles
        /\ MaxLogFiles - MaxLogFiles = 0
    BY Bounds
  <2>2. mark[0] = Len(written)
    BY <1>1, Zenon DEF Division
  <2> QED
    BY <1>3, <1>4, <1>7, <2>1, <2>2, Zenon
<1>14. PICK s : s = SubSeq(log, low + 1, Len(log))
  BY Zenon
<1>15. Len(s) = Len(log) - low
  <2>1. Len(log) \in low..Len(log)
    BY <1>4
  <2> QED
    BY <1>14, <2>1, SubSeqFacts, Zenon
<1>16. Retained = s
  BY <1>5, <1>12, <1>13, <1>14, Zenon DEF Retained
<1> QED
  BY <1>3, <1>4, <1>14, <1>15, <1>16, Zenon

\* The last records of a sequence are those behind its beginning.
LEMMA LastOfFacts ==
  ASSUME NEW S, NEW w \in Seq(S), NEW low \in 0..Len(w), NEW kept, kept = SubSeq(w, low + 1, Len(w))
  PROVE  kept = LastOf(Len(kept), w)
<1>1. PICK size \in Nat : size = Len(w) /\ low <= size
  OBVIOUS
<1>2. Len(kept) = size - low /\ kept \in Seq(S) /\ \A i \in 1..(size - low) : kept[i] = w[low + i]
  <2>1. size \in low..Len(w)
    BY <1>1
  <2> QED
    BY <1>1, <2>1, SubSeqFacts, Zenon
<1>3. CASE low = 0
  <2>1. kept = w
    BY <1>1, <1>2, <1>3, SMTT(20)
  <2>2. size <= size
    BY <1>1
  <2>3. LastOf(size, w) = w
    BY <1>1, <2>2, Zenon DEF LastOf
  <2> QED
    BY <1>1, <2>1, <2>3, Zenon
<1>4. CASE low # 0
  <2>1. PICK n : n = Len(kept)
    BY Zenon
  <2>2. ~(size <= n) /\ size - n + 1 = low + 1
    BY <1>1, <1>2, <1>4, <2>1, SMTT(20)
  <2>3. LastOf(n, w) = SubSeq(w, size - n + 1, size)
    BY <1>1, <2>2, Zenon DEF LastOf
  <2> QED
    BY <1>1, <2>1, <2>2, <2>3, Zenon
<1> QED
  BY <1>3, <1>4

\* What the files hold, from the oldest to the active one, is the newest part of what was
\* written: rotate_logs loses nothing in the middle and nothing twice, wherever it fails.
THEOREM KeepsSuffix == Spec => []RetainsSuffix
<1>1. IInv => RetainsSuffix
  <2> SUFFICES ASSUME IInv PROVE Retained = LastOf(Len(Retained), written)
    BY DEF RetainsSuffix
  <2>1. TypeOK
    BY DEF IInv
  <2>2. PICK mark \in Marks : Divides(mark)
    BY DEF IInv
  <2>3. PICK log : log = written /\ log \in Seq(1..MaxEvents)
    BY <2>1, Zenon DEF TypeOK
  <2>4. PICK low \in 0..Len(log) : low = mark[MaxLogFiles]
    BY <2>1, <2>2, <2>3, RetainedFacts, Zenon
  <2>5. PICK kept : kept = SubSeq(log, low + 1, Len(log))
    BY Zenon
  <2>6. Retained = kept
    BY <2>1, <2>2, <2>3, <2>4, <2>5, RetainedFacts, Zenon
  <2>7. kept = LastOf(Len(kept), log)
    BY <2>3, <2>5, LastOfFacts, Zenon
  <2> QED
    BY <2>3, <2>6, <2>7, Zenon
<1> QED BY <1>1, LogInvariance, PTL

\* The marks of full files are at least MaxLogRecords apart, but for one.
LEMMA FullFilesKeep ==
  ASSUME NEW mark \in Marks, NEW hole \in Indices,
         \A i \in Indices : mark[i + 1] <= mark[i],
         \A i \in Indices : i # hole => mark[i] - mark[i + 1] = MaxLogRecords
  PROVE  mark[0] - mark[MaxLogFiles] >= (MaxLogFiles - 1) * MaxLogRecords
<1> DEFINE Full(k) == IF k > hole THEN k - 1 ELSE k
           T == {k \in Nat : k <= MaxLogFiles => mark[0] - mark[k] >= Full(k) * MaxLogRecords}
<1>1. 0 \in T
  <2>1. Full(0) = 0 /\ mark[0] \in Nat /\ mark[0] - mark[0] >= 0
    BY DEF Marks
  <2>2. 0 * MaxLogRecords = 0
    BY Products
  <2> QED
    BY <2>1, <2>2, Zenon
<1>2. ASSUME NEW k \in Nat, k \in T PROVE k + 1 \in T
  <2> SUFFICES ASSUME k + 1 <= MaxLogFiles
               PROVE  mark[0] - mark[k + 1] >= Full(k + 1) * MaxLogRecords
    OBVIOUS
  <2>1. k \in Indices /\ k <= MaxLogFiles
    OBVIOUS
  <2>2. PICK a \in Nat, b \in Nat, c \in Nat : a = mark[0] /\ b = mark[k] /\ c = mark[k + 1]
    <3>1. mark[0] \in Nat /\ mark[k] \in Nat /\ mark[k + 1] \in Nat
      BY <2>1 DEF Marks
    <3> QED
      BY <3>1, Zenon
  <2>3. c <= b /\ (k # hole => b - c = MaxLogRecords) /\ a - b >= Full(k) * MaxLogRecords
    BY <1>2, <2>1, <2>2
  <2>4. CASE k = hole
    <3>1. Full(k) = k /\ Full(k + 1) = k
      BY <2>4
    <3>2. a - b >= k * MaxLogRecords
      BY <2>3, <3>1, Zenon
    <3>3. k * MaxLogRecords \in Nat
      BY Products
    <3>4. a - c >= k * MaxLogRecords
      BY <2>3, <3>2, <3>3, SMTT(20)
    <3> QED
      BY <2>2, <3>1, <3>4, Zenon
  <2>5. CASE k # hole
    <3>1. PICK full \in Nat : full = Full(k) /\ full + 1 = Full(k + 1)
      BY <2>5
    <3>2. a - b >= full * MaxLogRecords
      BY <2>3, <3>1, Zenon
    <3>3. full * MaxLogRecords \in Nat /\ (full + 1) * MaxLogRecords = (full * MaxLogRecords) + MaxLogRecords
      BY Products
    <3>4. a - c >= (full + 1) * MaxLogRecords
      BY <2>3, <2>5, <3>2, <3>3, SMTT(20)
    <3> QED
      BY <2>2, <3>1, <3>4, Zenon
  <2> QED
    BY <2>4, <2>5
<1>3. T \subseteq Nat
  OBVIOUS
<1>4. T = Nat
  <2> HIDE DEF T
  <2> QED
    BY <1>1, <1>2, <1>3, Induction, Zenon
<1>5. mark[0] - mark[MaxLogFiles] >= Full(MaxLogFiles) * MaxLogRecords
  <2>1. MaxLogFiles \in T /\ MaxLogFiles <= MaxLogFiles
    BY <1>4
  <2> QED
    BY <2>1
<1>6. Full(MaxLogFiles) = MaxLogFiles - 1
  OBVIOUS
<1> HIDE DEF Full
<1> QED
  BY <1>5, <1>6, Zenon

\* No file outgrows MaxLogRecords, and until a rotation is cut short MaxLogFiles - 1 files of
\* records are left, or everything that was written.
THEOREM KeepsEnough == Spec => []RetentionBounds
<1>1. IInv => RetentionBounds
  <2> SUFFICES ASSUME IInv PROVE RetentionBounds
    OBVIOUS
  <2>1. TypeOK /\ WriterFits
    BY DEF IInv
  <2>2. PICK mark \in Marks : Divides(mark) /\ Steady(mark)
    BY DEF IInv
  <2>3. \A i \in Indices : Size(i) <= MaxLogRecords
    <3>1. \A i \in Indices : Size(i) = Len(Texts[i]) /\ Len(Texts[i]) <= MaxLogRecords
      BY <2>1, TextFacts, Zenon DEF WriterFits
    <3> QED
      BY <3>1, Zenon
  <2>4. PICK size \in Nat, low \in Nat : /\ low = mark[MaxLogFiles] /\ size = mark[0]
                                         /\ Len(Retained) = size - low /\ Len(written) = size
    <3>1. mark[0] = Len(written) /\ Len(Retained) = Len(written) - mark[MaxLogFiles]
      BY <2>1, <2>2, RetainedFacts, Zenon DEF Divides, Division
    <3>2. mark[0] \in Nat /\ mark[MaxLogFiles] \in Nat
      BY DEF Marks
    <3> QED
      BY <3>1, <3>2, Zenon
  <2>5. ASSUME ~cut, low > 0 PROVE Len(Retained) >= MaxLogRecords * (MaxLogFiles - 1)
    <3>1. PICK hole \in Indices : hole = Hole
      <4>1. Hole \in Indices
        <5>1. index \in Nat
          BY <2>1 DEF TypeOK
        <5>2. CASE at = "rename"
          BY <2>1, <5>1, <5>2, SMTT(20) DEF WriterFits, Hole
        <5>3. CASE at # "rename"
          BY <5>3 DEF Hole
        <5> QED
          BY <5>2, <5>3, SMTT(20)
      <4> QED
        BY <4>1, Zenon
    <3>2. \A i \in Indices : i # hole => Len(Texts[i]) = MaxLogRecords
      BY <2>2, <2>4, <2>5, <3>1, Zenon DEF Steady, Gapless
    <3>3. \A i \in Indices : i # hole => mark[i] - mark[i + 1] = MaxLogRecords
      BY <2>2, <3>2, Zenon DEF Divides, Division
    <3>4. \A i \in Indices : i \in 0..MaxLogFiles /\ i + 1 \in 0..MaxLogFiles /\ i <= i + 1
      OBVIOUS
    <3>5. \A i \in Indices : mark[i + 1] <= mark[i]
      BY <2>2, <3>4, Zenon DEF Divides, Division
    <3>6. mark[0] - mark[MaxLogFiles] >= (MaxLogFiles - 1) * MaxLogRecords
      BY <3>3, <3>5, FullFilesKeep, Zenon
    <3>7. size - low >= (MaxLogFiles - 1) * MaxLogRecords
      BY <2>4, <3>6, Zenon
    <3>8. (MaxLogFiles - 1) * MaxLogRecords = MaxLogRecords * (MaxLogFiles - 1)
      OBVIOUS
    <3> QED
      BY <2>4, <3>7, <3>8, Zenon
  <2>6. low > 0 \/ Len(Retained) = Len(written)
    BY <2>4
  <2> QED
    BY <2>3, <2>5, <2>6, Zenon DEF RetentionBounds
<1> QED BY <1>1, LogInvariance, PTL

\* The records that are shown, and behind which of them a line is empty, as TailIsNewest has it.
Printed(s, log, start, low, high) ==
  /\ {s[i].record : i \in DOMAIN s} \ {Blank.record} = {log[x] : x \in (low + 1)..high}
  /\ \A i \in DOMAIN s : s[i] = Blank =>
       IF i = 1 THEN low >= start
       ELSE \E x \in DOMAIN log : x \in start..high /\ s[i - 1].record = log[x]

LEMMA ShownLines ==
  ASSUME NEW s \in Seq(Lines), NEW log \in Seq(1..MaxEvents), NEW start, NEW low \in Nat, NEW high \in Nat,
         high <= Len(log), Shown(s, log, start, low, high)
  PROVE  Printed(s, log, start, low, high)
<1>1. \A x \in (low + 1)..high : log[x] # 0
  <2>1. \A x \in (low + 1)..high : log[x] \in 1..MaxEvents
    OBVIOUS
  <2> QED
    BY <2>1
<1>2. Blank.record = 0
  BY DEF Blank
<1>3. Only(s, log, low, high) /\ Every(s, log, low, high) /\ Blanks(s, log, start, low, high)
  BY Zenon DEF Shown
<1>4. {s[i].record : i \in DOMAIN s} \ {0} = {log[x] : x \in (low + 1)..high}
  <2>1. ASSUME NEW i \in DOMAIN s, s[i].record # 0 PROVE s[i].record \in {log[x] : x \in (low + 1)..high}
    BY <1>3, <2>1, Zenon DEF Only
  <2>2. ASSUME NEW x \in (low + 1)..high PROVE log[x] \in {s[i].record : i \in DOMAIN s} /\ log[x] # 0
    BY <1>1, <1>3, <2>2, Zenon DEF Every
  <2> QED
    BY <2>1, <2>2, Zenon
<1>5. \A i \in DOMAIN s : s[i] = Blank => s[i].record = 0
  BY <1>2, Zenon
<1> QED
  BY <1>2, <1>3, <1>4, <1>5, Zenon DEF Blanks, Printed

\* With no rotation in between, what is printed are the newest of the records retained at
\* some moment since the command was started, none in between missing, as many as the lines
\* asked for hold; an empty line takes the place of one only behind a record that was not
\* complete when the command was started.
THEOREM ReadsNewest == Spec => []TailIsNewest
<1>1. IInv => TailIsNewest
  <2>1. SUFFICES ASSUME IInv, reader = "done", quiet, ~torn
                 PROVE  \E n \in known..Len(written) : \E m \in (Len(written) - Len(Retained))..n :
                          /\ {lines[i].record : i \in DOMAIN lines} \ {Blank.record} =
                               {written[x] : x \in (m + 1)..n}
                          /\ m = Len(written) - Len(Retained) \/ Len(lines) = Limit
                          /\ \A i \in DOMAIN lines : lines[i] = Blank =>
                               IF i = 1 THEN m >= known
                               ELSE \E x \in DOMAIN written : x \in known..n /\ lines[i - 1].record = written[x]
    BY Zenon DEF TailIsNewest
  <2>2. TypeOK /\ \E mark \in Marks : Divides(mark) /\ CaughtUp(mark)
    BY <2>1, Zenon DEF IInv
  <2>3. PICK mark \in Marks : Divides(mark) /\ CaughtUp(mark)
    BY <2>2, Zenon
  <2>4. written \in Seq(1..MaxEvents) /\ lines \in Seq(Lines) /\ known \in Nat
    BY <2>2, Zenon DEF TypeOK
  <2>5. PICK low \in Nat : low = mark[MaxLogFiles] /\ low = Len(written) - Len(Retained)
    <3>1. Len(Retained) = Len(written) - mark[MaxLogFiles] /\ mark[MaxLogFiles] \in 0..Len(written)
      BY <2>2, <2>3, RetainedFacts, Zenon
    <3>2. PICK size \in Nat, l \in Nat : size = Len(written) /\ l = mark[MaxLogFiles] /\ Len(Retained) = size - l
      BY <2>4, <3>1
    <3>3. size - (size - l) = l
      OBVIOUS
    <3> QED
      BY <3>2, <3>3, Zenon
  <2>6. PICK n \in known..Len(written) : n >= low /\ Held(lines, written, known, low, n)
    BY <2>1, <2>3, <2>5, Zenon DEF CaughtUp, HeldAll
  <2>7. n \in Nat /\ n <= Len(written)
    BY <2>4
  <2>8. PICK m \in low..n : Shown(lines, written, known, m, n) /\ (m = low \/ Len(lines) = Limit)
    BY <2>6, Zenon DEF Held
  <2>9. m \in Nat
    BY <2>5, <2>7, <2>8, Ranges, Zenon
  <2>10. Printed(lines, written, known, m, n)
    BY <2>4, <2>7, <2>8, <2>9, ShownLines, Zenon
  <2> QED
    BY <2>5, <2>8, <2>10, Zenon DEF Printed
<1> QED BY <1>1, LogInvariance, PTL
=============================================================================
