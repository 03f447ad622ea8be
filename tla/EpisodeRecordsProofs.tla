------------------------ MODULE EpisodeRecordsProofs ------------------------
(***************************************************************************)
(* Proofs about EpisodeRecords, for every dataset, set of limits, set of   *)
(* results and number of crashes.                                          *)
(*                                                                         *)
(* Each property is about the files; the strengthening says how the memory *)
(* of the running evaluator relates to them at each place of the loop:     *)
(* which episode the cursor is on, what the next block will say, and what  *)
(* the pending content of an open file is.                                 *)
(***************************************************************************)
EXTENDS EpisodeRecords, SequenceTheorems, FiniteSetTheorems, TLAPS

-----------------------------------------------------------------------------
(* The strengthenings. *)

\* The places at which an episode is finished and its number taken.
Counted == {"record", "recordOpen", "continue", "continueOpen", "publish"}

\* The cursor is on the episode whose number is being run or was just taken.
CursorIsOnTheNumber ==
  /\ pc = "episode" => cursor = numTotal % Dataset
  /\ pc \in Counted => numTotal > 0 /\ cursor = (numTotal - 1) % Dataset

NumberingInv ==
  /\ CursorIsOnTheNumber
  /\ NumberedByDataset(recordFile)
  /\ NumberedByDataset(continueFile)
  /\ NumberedByDataset(content)

\* The totals in memory continue those of the continue file.
TotalsContinueTheFile ==
  /\ pc = "episode" =>
       /\ numTotal = ReadTotal(continueFile)
       /\ numSuccess = ReadSuccesses(continueFile)
  /\ pc \in {"record", "recordOpen", "continue"} =>
       /\ numTotal = ReadTotal(continueFile) + 1
       /\ continueFile # <<>> => numSuccess = ReadSuccesses(continueFile) + Gain(result)
  /\ pc = "continueOpen" => NewestFirst(content) /\ content # <<>> /\ content[1] = ThisEpisode
  /\ pc = "publish" =>
       /\ numTotal = ReadTotal(continueFile)
       /\ numSuccess = ReadSuccesses(continueFile)

RunningInv == NewestFirst(continueFile) /\ TotalsContinueTheFile

\* Every block of f is in g.
BlocksOf(f, g) == \A i \in 1 .. Len(f) : \E j \in 1 .. Len(g) : g[j] = f[i]

DescribedInv ==
  ~torn =>
    /\ ~Open => BlocksOf(continueFile, recordFile)
    /\ pc = "recordOpen" => BlocksOf(continueFile, content)
                            /\ content # <<>> /\ content[1] = ThisEpisode
    /\ pc = "continue" => recordFile # <<>> /\ recordFile[1] = ThisEpisode
    /\ pc = "continueOpen" => BlocksOf(content, recordFile)

\* What the continue file last counted is still in it.
CountedInv ==
  ~torn =>
    /\ pc # "continueOpen" => finished = ReadTotal(continueFile)
    /\ pc = "continueOpen" => finished = numTotal - 1

\* The totals in memory continue what the files promise, with a write under way
\* or not; an evaluator is up only if it could read them.
LedgerInv ==
  /\ pc \in {"record", "recordOpen", "continue", "continueOpen"} =>
       numTotal = Newest.no + 1 /\ numSuccess = Newest.successes + Gain(result)
  /\ pc \in {"episode", "publish"} =>
       numTotal = Newest.no /\ numSuccess = Newest.successes
  /\ pc = "continueOpen" => content # <<>> /\ content[1] = ThisEpisode
  /\ pc # "down" => Newest.whole

-----------------------------------------------------------------------------
(* Lemmas about the operators on files. *)

\* A new block goes before the others, which keep their order.
LEMMA Prepended ==
  ASSUME NEW e \in Entry, NEW f \in Seq(Entry)
  PROVE  /\ <<e>> \o f \in Seq(Entry)
         /\ Len(<<e>> \o f) = Len(f) + 1
         /\ (<<e>> \o f)[1] = e
         /\ \A i \in 1 .. Len(f) : (<<e>> \o f)[i + 1] = f[i]
         /\ \A i \in 2 .. Len(f) + 1 : (<<e>> \o f)[i] = f[i - 1]
  OBVIOUS

\* What is left of an interrupted write is a file that agrees with the first
\* blocks of the content, but for the last being whole.
LEMMA StoppedFacts ==
  ASSUME NEW c \in Seq(Entry), NEW k \in 0 .. Len(c), NEW w \in BOOLEAN
  PROVE  /\ Stopped(c, k, w) \in Seq(Entry)
         /\ Len(Stopped(c, k, w)) = k
         /\ \A i \in 1 .. k :
              /\ Stopped(c, k, w)[i].no = c[i].no
              /\ Stopped(c, k, w)[i].successes = c[i].successes
              /\ Stopped(c, k, w)[i].result = c[i].result
              /\ Stopped(c, k, w)[i].episode = c[i].episode
<1> DEFINE last(i) == [c[i] EXCEPT !.whole = w /\ @]
<1> DEFINE g(i) == IF i = k THEN last(i) ELSE c[i]
<1>1. k \in Nat /\ k <= Len(c) /\ Len(c) \in Nat
  OBVIOUS
<1>2. ASSUME NEW i \in 1 .. k
      PROVE  g(i) \in Entry /\ g(i).no = c[i].no /\ g(i).successes = c[i].successes
             /\ g(i).result = c[i].result /\ g(i).episode = c[i].episode
  <2>1. c[i] \in Entry
    BY <1>1, <1>2
  <2>2. (w /\ c[i].whole) \in BOOLEAN
    OBVIOUS
  <2>3. last(i) \in Entry /\ last(i).no = c[i].no /\ last(i).successes = c[i].successes
        /\ last(i).result = c[i].result /\ last(i).episode = c[i].episode
    BY <2>1, <2>2 DEF Entry
  <2> QED
    BY <2>1, <2>3
<1>3. Stopped(c, k, w) = [i \in 1 .. k |-> g(i)]
  BY DEF Stopped
<1> HIDE DEF g
<1>4. Stopped(c, k, w) \in [1 .. k -> Entry]
  BY <1>2, <1>3
<1>5. Stopped(c, k, w) \in Seq(Entry) /\ Len(Stopped(c, k, w)) = k
  BY <1>1, <1>4
<1>6. \A i \in 1 .. k : Stopped(c, k, w)[i] = g(i)
  BY <1>3
<1> QED
  BY <1>2, <1>5, <1>6

-----------------------------------------------------------------------------
(* Types. *)

\* The block of the episode just finished is a block.
LEMMA ThisEpisodeType ==
  ASSUME TypeOK
  PROVE  ThisEpisode \in Entry
  BY DEF TypeOK, ThisEpisode, Entry

\* What a run takes from the continue file are numbers, and it starts on an
\* episode of the dataset.
LEMMA ReadTypes ==
  ASSUME NEW f \in Seq(Entry)
  PROVE  /\ ReadTotal(f) \in Nat /\ ReadSuccesses(f) \in Nat
         /\ EpisodesToSkip(ReadTotal(f)) \in 0 .. Dataset - 1
<1>1. f # <<>> => Head(f) \in Entry
  OBVIOUS
<1>2. ReadTotal(f) \in Nat
  BY <1>1 DEF ReadTotal, Entry
<1>3. ReadSuccesses(f) \in Nat
  BY <1>1 DEF ReadSuccesses, Entry
<1> QED
  BY <1>2, <1>3, DatasetAssumption DEF EpisodesToSkip

\* Every variable keeps its type through every step of the evaluator.
THEOREM TypeCorrect == Spec => []TypeOK
<1>1. Init => TypeOK
  <2> SUFFICES ASSUME Init PROVE TypeOK
    OBVIOUS
  <2>1. torn \in BOOLEAN /\ needVideo \in BOOLEAN
    BY Zenon DEF Init
  <2>2. <<>> \in Seq(Entry)
    OBVIOUS
  <2> QED
    BY <2>1, <2>2, DatasetAssumption, ResultsAssumption, CrashesAssumption
       DEF Init, TypeOK, Places
<1>2. TypeOK /\ [Next]_vars => TypeOK'
  <2> SUFFICES ASSUME TypeOK, [Next]_vars PROVE TypeOK'
    OBVIOUS
  <2> USE DEF files, memory, history, past
  <2>1. ASSUME NEW l \in EvalLimits, NEW v \in BOOLEAN, Start(l, v) PROVE TypeOK'
    <3>1. continueFile \in Seq(Entry)
      BY DEF TypeOK
    <3> QED
      BY <2>1, <3>1, ReadTypes DEF Start, TypeOK, Places
  <2>2. ASSUME NEW r \in Results, FinishEpisode(r) PROVE TypeOK'
    <3>1. numTotal' \in Nat /\ numSuccess' \in Nat /\ unfilmed' \in Nat
      BY <2>2 DEF FinishEpisode, TypeOK, Gain
    <3>2. videos' \subseteq [no : Nat, result : Results] /\ done' \subseteq Nat
      BY <2>2 DEF FinishEpisode, TypeOK
    <3> QED
      BY <2>2, <3>1, <3>2 DEF FinishEpisode, TypeOK, Places
  <2>3. CASE OpenRecord
    <3>1. Updated(recordFile) \in Seq(Entry)
      BY ThisEpisodeType, Prepended DEF TypeOK, Updated
    <3> QED
      BY <2>3, <3>1 DEF OpenRecord, TypeOK, Places
  <2>4. CASE WriteRecord
    BY <2>4 DEF WriteRecord, TypeOK, Places
  <2>5. CASE OpenContinue
    <3>1. Updated(continueFile) \in Seq(Entry)
      BY ThisEpisodeType, Prepended DEF TypeOK, Updated
    <3> QED
      BY <2>5, <3>1 DEF OpenContinue, TypeOK, Places
  <2>6. CASE WriteContinue
    BY <2>6 DEF WriteContinue, TypeOK, Places
  <2>7. CASE NextEpisode
    <3>1. (cursor + 1) % Dataset \in 0 .. Dataset - 1
      BY DatasetAssumption DEF TypeOK
    <3> QED
      BY <2>7, <3>1 DEF NextEpisode, TypeOK, Places
  <2>8. CASE Crash
    BY <2>8, CrashesAssumption DEF Crash, TypeOK, Places
  <2>9. ASSUME NEW k \in 0 .. Len(content), NEW w \in BOOLEAN, CrashInWrite(k, w)
        PROVE  TypeOK'
    <3>1. Stopped(content, k, w) \in Seq(Entry)
      BY StoppedFacts DEF TypeOK
    <3> QED
      BY <2>9, <3>1, CrashesAssumption DEF CrashInWrite, TypeOK, Places
  <2>10. CASE UNCHANGED vars
    BY <2>10 DEF vars, TypeOK
  <2> QED
    BY <2>1, <2>2, <2>3, <2>4, <2>5, <2>6, <2>7, <2>8, <2>9, <2>10 DEF Next, Step
<1> QED
  BY <1>1, <1>2, PTL DEF Spec

-----------------------------------------------------------------------------
(* The numbering of the blocks. *)

\* A remainder is determined by any decomposition into a multiple and a rest.
LEMMA RemainderIsUnique ==
  ASSUME NEW d \in Nat \ {0}, NEW q \in Nat, NEW r \in 0 .. d - 1
  PROVE  (d * q + r) % d = r
<1> DEFINE a == d * q + r
           p == a \div d
           s == a % d
<1>1. d \in Nat /\ d > 0 /\ q \in Nat /\ r \in Nat /\ r < d
  OBVIOUS
<1>2. d * q \in Nat
  BY <1>1
<1>3. a \in Nat
  BY <1>1, <1>2
<1> HIDE DEF a
<1>4. p \in Nat /\ s \in Nat /\ s < d /\ a = d * p + s
  BY <1>1, <1>3
<1> HIDE DEF p, s
<1>5. d * q + r = d * p + s
  BY <1>4 DEF a
<1>6. ~(p < q)
  <2> SUFFICES ASSUME p < q PROVE FALSE
    OBVIOUS
  <2>1. q - p - 1 \in Nat
    BY <1>1, <1>4
  <2>2. d * (q - p - 1) \in Nat
    BY <1>1, <2>1
  <2>3. d * (q - p - 1) = d * q - d * p - d
    BY <1>1, <1>4
  <2>4. d * p \in Nat
    BY <1>1, <1>4
  <2> QED
    BY <1>1, <1>2, <1>4, <1>5, <2>2, <2>3, <2>4
<1>7. ~(q < p)
  <2> SUFFICES ASSUME q < p PROVE FALSE
    OBVIOUS
  <2>1. p - q - 1 \in Nat
    BY <1>1, <1>4
  <2>2. d * (p - q - 1) \in Nat
    BY <1>1, <2>1
  <2>3. d * (p - q - 1) = d * p - d * q - d
    BY <1>1, <1>4
  <2>4. d * p \in Nat
    BY <1>1, <1>4
  <2> QED
    BY <1>1, <1>2, <1>4, <1>5, <2>2, <2>3, <2>4
<1>8. p = q
  BY <1>1, <1>4, <1>6, <1>7
<1>9. s = r
  BY <1>1, <1>2, <1>4, <1>5, <1>8
<1> QED
  BY <1>9 DEF s, a

\* The iterator and the fast-forward agree: one episode after that of number n
\* is that of number n + 1, also across the end of the dataset.
LEMMA NextIsNext ==
  ASSUME NEW n \in Nat
  PROVE  ((n % Dataset) + 1) % Dataset = (n + 1) % Dataset
<1> DEFINE d == Dataset
           q == n \div d
           r == n % d
<1>1. d \in Nat \ {0}
  BY DatasetAssumption
<1>2. q \in Nat /\ r \in 0 .. d - 1 /\ n = d * q + r
  BY <1>1
<1> HIDE DEF d, q, r
<1>3. CASE r + 1 < d
  <2>1. r + 1 \in 0 .. d - 1
    BY <1>1, <1>2, <1>3
  <2>2. (d * q + (r + 1)) % d = r + 1
    BY <1>1, <1>2, <2>1, RemainderIsUnique
  <2>3. (d * 0 + (r + 1)) % d = r + 1
    BY <1>1, <2>1, RemainderIsUnique
  <2>4. d * q + (r + 1) = n + 1 /\ d * 0 + (r + 1) = r + 1
    BY <1>1, <1>2
  <2> QED
    BY <2>2, <2>3, <2>4 DEF d, r
<1>4. CASE ~(r + 1 < d)
  <2>1. r + 1 = d
    BY <1>1, <1>2, <1>4
  <2>2. (d * (q + 1) + 0) % d = 0 /\ (d * 1 + 0) % d = 0
    <3>1. q + 1 \in Nat /\ 1 \in Nat /\ 0 \in 0 .. d - 1
      BY <1>1, <1>2
    <3> QED
      BY <1>1, <3>1, RemainderIsUnique
  <2>3. d * (q + 1) + 0 = n + 1 /\ d * 1 + 0 = r + 1
    BY <1>1, <1>2, <2>1
  <2> QED
    BY <2>2, <2>3 DEF d, r
<1> QED
  BY <1>3, <1>4

\* A new block on the cursor's episode keeps a file numbered.
LEMMA UpdatedIsNumbered ==
  ASSUME TypeOK, NEW f \in Seq(Entry), NumberedByDataset(f),
         cursor = (numTotal - 1) % Dataset
  PROVE  NumberedByDataset(Updated(f))
<1>1. /\ Len(Updated(f)) = Len(f) + 1
      /\ Updated(f)[1] = ThisEpisode
      /\ \A i \in 2 .. Len(f) + 1 : Updated(f)[i] = f[i - 1]
  BY ThisEpisodeType, Prepended DEF Updated
<1>2. ThisEpisode.episode = (ThisEpisode.no - 1) % Dataset
  BY DEF ThisEpisode
<1>3. ASSUME NEW i \in 1 .. Len(f) + 1
      PROVE  Updated(f)[i].episode = (Updated(f)[i].no - 1) % Dataset
  <2>1. CASE i = 1
    BY <1>1, <1>2, <2>1
  <2>2. CASE i \in 2 .. Len(f) + 1
    <3>1. i - 1 \in 1 .. Len(f)
      BY <2>2
    <3> QED
      BY <1>1, <2>2, <3>1 DEF NumberedByDataset
  <2> QED
    BY <2>1, <2>2
<1> QED
  BY <1>1, <1>3 DEF NumberedByDataset

\* What an interrupted write leaves of a numbered file is numbered.
LEMMA StoppedIsNumbered ==
  ASSUME NEW c \in Seq(Entry), NumberedByDataset(c),
         NEW k \in 0 .. Len(c), NEW w \in BOOLEAN
  PROVE  NumberedByDataset(Stopped(c, k, w))
<1> DEFINE f == Stopped(c, k, w)
<1>1. Len(f) = k /\ \A i \in 1 .. k : f[i].no = c[i].no /\ f[i].episode = c[i].episode
  BY StoppedFacts
<1> HIDE DEF f
<1>2. 1 .. k \subseteq 1 .. Len(c)
  OBVIOUS
<1>3. NumberedByDataset(f)
  BY <1>1, <1>2 DEF NumberedByDataset
<1> QED
  BY <1>3 DEF f

\* The numbering is inductive.
LEMMA NumberingStep ==
  ASSUME TypeOK, NumberingInv, [Next]_vars
  PROVE  NumberingInv'
<1> USE DEF files, memory, history, past
<1>1. ASSUME NEW l \in EvalLimits, NEW v \in BOOLEAN, Start(l, v) PROVE NumberingInv'
  BY <1>1 DEF Start, NumberingInv, CursorIsOnTheNumber, Counted, NumberedByDataset,
              EpisodesToSkip
<1>2. ASSUME NEW r \in Results, FinishEpisode(r) PROVE NumberingInv'
  <2>1. numTotal' - 1 = numTotal /\ numTotal' > 0
    BY <1>2 DEF FinishEpisode, TypeOK
  <2> QED
    BY <1>2, <2>1 DEF FinishEpisode, NumberingInv, CursorIsOnTheNumber, Counted,
                      NumberedByDataset
<1>3. CASE OpenRecord
  <2>1. NumberedByDataset(Updated(recordFile))
    BY <1>3, UpdatedIsNumbered
       DEF OpenRecord, NumberingInv, CursorIsOnTheNumber, Counted, TypeOK
  <2> QED
    BY <1>3, <2>1 DEF OpenRecord, NumberingInv, CursorIsOnTheNumber, Counted,
                      NumberedByDataset
<1>4. CASE WriteRecord
  BY <1>4 DEF WriteRecord, NumberingInv, CursorIsOnTheNumber, Counted, NumberedByDataset
<1>5. CASE OpenContinue
  <2>1. NumberedByDataset(Updated(continueFile))
    BY <1>5, UpdatedIsNumbered
       DEF OpenContinue, NumberingInv, CursorIsOnTheNumber, Counted, TypeOK
  <2> QED
    BY <1>5, <2>1 DEF OpenContinue, NumberingInv, CursorIsOnTheNumber, Counted,
                      NumberedByDataset
<1>6. CASE WriteContinue
  BY <1>6 DEF WriteContinue, NumberingInv, CursorIsOnTheNumber, Counted, NumberedByDataset
<1>7. CASE NextEpisode
  <2>1. NumberedByDataset(recordFile)' /\ NumberedByDataset(continueFile)'
        /\ NumberedByDataset(content)' /\ numTotal' = numTotal /\ pc' \notin Counted
    BY <1>7 DEF NextEpisode, NumberingInv, NumberedByDataset, Counted
  <2>2. pc' = "episode" => cursor' = numTotal % Dataset
    <3> SUFFICES ASSUME pc' = "episode" PROVE cursor' = numTotal % Dataset
      OBVIOUS
    <3>1. cursor' = (cursor + 1) % Dataset
      BY <1>7 DEF NextEpisode
    <3>2. numTotal - 1 \in Nat /\ cursor = (numTotal - 1) % Dataset
      BY <1>7 DEF NextEpisode, NumberingInv, CursorIsOnTheNumber, Counted, TypeOK
    <3>3. (((numTotal - 1) % Dataset) + 1) % Dataset = ((numTotal - 1) + 1) % Dataset
      BY <3>2, NextIsNext
    <3>4. (numTotal - 1) + 1 = numTotal
      BY DEF TypeOK
    <3> QED
      BY <3>1, <3>2, <3>3, <3>4
  <2> QED
    BY <2>1, <2>2 DEF NumberingInv, CursorIsOnTheNumber
<1>8. CASE Crash
  BY <1>8 DEF Crash, NumberingInv, CursorIsOnTheNumber, Counted, NumberedByDataset
<1>9. ASSUME NEW k \in 0 .. Len(content), NEW w \in BOOLEAN, CrashInWrite(k, w)
      PROVE  NumberingInv'
  <2>1. NumberedByDataset(Stopped(content, k, w))
    BY StoppedIsNumbered DEF NumberingInv, TypeOK
  <2>2. (recordFile' = Stopped(content, k, w) \/ recordFile' = recordFile)
        /\ (continueFile' = Stopped(content, k, w) \/ continueFile' = continueFile)
        /\ content' = content /\ pc' = "down"
    BY <1>9 DEF CrashInWrite
  <2> QED
    BY <2>1, <2>2 DEF NumberingInv, CursorIsOnTheNumber, Counted, NumberedByDataset
<1>10. CASE UNCHANGED vars
  BY <1>10 DEF vars, NumberingInv, CursorIsOnTheNumber, Counted, NumberedByDataset
<1> QED
  BY <1>1, <1>2, <1>3, <1>4, <1>5, <1>6, <1>7, <1>8, <1>9, <1>10 DEF Next, Step

\* Through any number of restarts, torn files and changes of the limit, block n
\* of either file is about episode n - 1 of the dataset.
THEOREM NumbersMeanEpisodes == Spec => []EachNumberIsItsEpisode
<1>1. Init => NumberingInv
  BY DEF Init, NumberingInv, CursorIsOnTheNumber, Counted, NumberedByDataset
<1>2. NumberingInv => EachNumberIsItsEpisode
  BY DEF NumberingInv, EachNumberIsItsEpisode
<1> QED
  BY <1>1, <1>2, NumberingStep, TypeCorrect, PTL DEF Spec

-----------------------------------------------------------------------------
(* The running totals of the continue file. *)

\* A new block whose number and successes follow from the topmost one keeps a
\* file in order.
LEMMA UpdatedIsNewestFirst ==
  ASSUME TypeOK, NEW f \in Seq(Entry), NewestFirst(f),
         f # <<>> => /\ numTotal = f[1].no + 1
                     /\ numSuccess = f[1].successes + Gain(result)
  PROVE  /\ NewestFirst(Updated(f)) /\ Updated(f) # <<>>
         /\ Updated(f)[1] = ThisEpisode
<1>1. /\ Updated(f) \in Seq(Entry)
      /\ Len(Updated(f)) = Len(f) + 1
      /\ Updated(f)[1] = ThisEpisode
      /\ \A i \in 1 .. Len(f) : Updated(f)[i + 1] = f[i]
      /\ \A i \in 2 .. Len(f) + 1 : Updated(f)[i] = f[i - 1]
  BY ThisEpisodeType, Prepended DEF Updated
<1>2. ThisEpisode.no = numTotal /\ ThisEpisode.successes = numSuccess
      /\ ThisEpisode.result = result
  BY DEF ThisEpisode
<1> DEFINE u == Updated(f)
<1> HIDE DEF u
<1>3. ASSUME NEW i \in 1 .. Len(u) - 1
      PROVE  /\ u[i].no = u[i + 1].no + 1
             /\ u[i].successes = u[i + 1].successes + Gain(u[i].result)
  <2>1. i \in 1 .. Len(f) /\ f # <<>> /\ u[i + 1] = f[i]
    BY <1>1, <1>3 DEF u
  <2>2. CASE i = 1
    BY <1>1, <1>2, <2>1, <2>2 DEF u
  <2>3. CASE i \in 2 .. Len(f)
    <3>1. i - 1 \in 1 .. Len(f) - 1 /\ u[i] = f[i - 1] /\ (i - 1) + 1 = i
      BY <1>1, <2>1, <2>3 DEF u
    <3>2. /\ f[i - 1].no = f[i].no + 1
          /\ f[i - 1].successes = f[i].successes + Gain(f[i - 1].result)
      BY <3>1 DEF NewestFirst, Gain
    <3> QED
      BY <2>1, <3>1, <3>2
  <2> QED
    BY <2>1, <2>2, <2>3
<1>4. NewestFirst(u)
  BY <1>3 DEF NewestFirst, Gain
<1> QED
  BY <1>1, <1>4 DEF u

\* What an interrupted write leaves of a file in order is in order.
LEMMA StoppedIsNewestFirst ==
  ASSUME NEW c \in Seq(Entry), NewestFirst(c),
         NEW k \in 0 .. Len(c), NEW w \in BOOLEAN
  PROVE  NewestFirst(Stopped(c, k, w))
<1> DEFINE f == Stopped(c, k, w)
<1>1. Len(f) = k /\ \A i \in 1 .. k : /\ f[i].no = c[i].no /\ f[i].result = c[i].result
                                      /\ f[i].successes = c[i].successes
  BY StoppedFacts
<1> HIDE DEF f
<1>2. \A i \in 1 .. k - 1 : i \in 1 .. Len(c) - 1 /\ i \in 1 .. k /\ i + 1 \in 1 .. k
  OBVIOUS
<1>3. NewestFirst(f)
  BY <1>1, <1>2 DEF NewestFirst
<1> QED
  BY <1>3 DEF f

\* The order of the continue file and the totals that continue it are inductive.
LEMMA RunningStep ==
  ASSUME TypeOK, RunningInv, [Next]_vars
  PROVE  RunningInv'
<1> USE DEF files, memory, history, past
<1>1. ASSUME NEW l \in EvalLimits, NEW v \in BOOLEAN, Start(l, v) PROVE RunningInv'
  BY <1>1 DEF Start, RunningInv, TotalsContinueTheFile, NewestFirst, ReadTotal,
              ReadSuccesses
<1>2. ASSUME NEW r \in Results, FinishEpisode(r) PROVE RunningInv'
  BY <1>2 DEF FinishEpisode, RunningInv, TotalsContinueTheFile, NewestFirst, ReadTotal,
              ReadSuccesses, Gain, TypeOK
<1>3. CASE OpenRecord
  BY <1>3 DEF OpenRecord, RunningInv, TotalsContinueTheFile, NewestFirst, ReadTotal,
              ReadSuccesses
<1>4. CASE WriteRecord
  BY <1>4 DEF WriteRecord, RunningInv, TotalsContinueTheFile, NewestFirst, ReadTotal,
              ReadSuccesses
<1>5. CASE OpenContinue
  <2>1. continueFile # <<>> => /\ numTotal = continueFile[1].no + 1
                               /\ numSuccess = continueFile[1].successes + Gain(result)
    BY <1>5 DEF OpenContinue, RunningInv, TotalsContinueTheFile, ReadTotal, ReadSuccesses,
                TypeOK
  <2>2. /\ NewestFirst(Updated(continueFile)) /\ Updated(continueFile) # <<>>
        /\ Updated(continueFile)[1] = ThisEpisode
    BY <2>1, UpdatedIsNewestFirst DEF RunningInv, TypeOK
  <2>3. ThisEpisode' = ThisEpisode
    BY <1>5 DEF OpenContinue, ThisEpisode
  <2>4. pc' = "continueOpen" /\ content' = Updated(continueFile) /\ continueFile' = <<>>
    BY <1>5 DEF OpenContinue
  <2>5. NewestFirst(continueFile')
    BY <2>4 DEF NewestFirst
  <2>6. NewestFirst(content') /\ content' # <<>> /\ content'[1] = ThisEpisode'
    BY <2>2, <2>3, <2>4
  <2> QED
    BY <2>4, <2>5, <2>6 DEF RunningInv, TotalsContinueTheFile
<1>6. CASE WriteContinue
  <2>1. /\ NewestFirst(content) /\ content # <<>> /\ content[1] = ThisEpisode
        /\ continueFile' = content /\ pc' = "publish"
        /\ numTotal' = numTotal /\ numSuccess' = numSuccess
    BY <1>6 DEF WriteContinue, RunningInv, TotalsContinueTheFile
  <2>2. NewestFirst(continueFile')
    BY <2>1
  <2>3. ReadTotal(continueFile') = numTotal' /\ ReadSuccesses(continueFile') = numSuccess'
    BY <2>1 DEF ReadTotal, ReadSuccesses, ThisEpisode
  <2> QED
    BY <2>1, <2>2, <2>3 DEF RunningInv, TotalsContinueTheFile
<1>7. CASE NextEpisode
  BY <1>7 DEF NextEpisode, RunningInv, TotalsContinueTheFile, NewestFirst, ReadTotal,
              ReadSuccesses
<1>8. CASE Crash
  BY <1>8 DEF Crash, RunningInv, TotalsContinueTheFile, NewestFirst
<1>9. ASSUME NEW k \in 0 .. Len(content), NEW w \in BOOLEAN, CrashInWrite(k, w)
      PROVE  RunningInv'
  <2>1. pc = "continueOpen" => NewestFirst(Stopped(content, k, w))
    BY StoppedIsNewestFirst DEF RunningInv, TotalsContinueTheFile, TypeOK
  <2>2. NewestFirst(continueFile')
    BY <1>9, <2>1 DEF CrashInWrite, RunningInv
  <2>3. pc' = "down"
    BY <1>9 DEF CrashInWrite
  <2> QED
    BY <2>2, <2>3 DEF RunningInv, TotalsContinueTheFile
<1>10. CASE UNCHANGED vars
  BY <1>10 DEF vars, RunningInv, TotalsContinueTheFile, NewestFirst, ReadTotal,
               ReadSuccesses, ThisEpisode
<1> QED
  BY <1>1, <1>2, <1>3, <1>4, <1>5, <1>6, <1>7, <1>8, <1>9, <1>10 DEF Next, Step

\* The continue file is in order in every state.
LEMMA RunningAlways == Spec => []RunningInv
<1>1. Init => RunningInv
  BY DEF Init, RunningInv, TotalsContinueTheFile, NewestFirst
<1> QED
  BY <1>1, RunningStep, TypeCorrect, PTL DEF Spec

\* The blocks of the continue file are numbered one by one and their successes
\* add up, whatever the runs that wrote them and wherever they died.
THEOREM TotalsAddUp == Spec => []ContinueIsARunningTotal
<1>1. RunningInv => ContinueIsARunningTotal
  BY DEF RunningInv, ContinueIsARunningTotal
<1> QED
  BY <1>1, RunningAlways, PTL

-----------------------------------------------------------------------------
(* The record file describes what the continue file counts. *)

\* The blocks of a file are among those of the file with a new block, and with
\* that block added to both.
LEMMA BlocksOfUpdated ==
  ASSUME TypeOK, NEW f \in Seq(Entry), NEW g \in Seq(Entry), BlocksOf(f, g)
  PROVE  /\ BlocksOf(f, Updated(g))
         /\ g # <<>> /\ g[1] = ThisEpisode => BlocksOf(Updated(f), g)
         /\ Updated(g) # <<>> /\ Updated(g)[1] = ThisEpisode
<1>1. ASSUME NEW s \in Seq(Entry)
      PROVE  /\ Updated(s) \in Seq(Entry)
             /\ Len(Updated(s)) = Len(s) + 1
             /\ Updated(s)[1] = ThisEpisode
             /\ \A i \in 1 .. Len(s) : Updated(s)[i + 1] = s[i]
             /\ \A i \in 2 .. Len(s) + 1 : Updated(s)[i] = s[i - 1]
  BY ThisEpisodeType, Prepended DEF Updated
<1>2. ASSUME NEW i \in 1 .. Len(f)
      PROVE  \E j \in 1 .. Len(Updated(g)) : Updated(g)[j] = f[i]
  <2>1. PICK j \in 1 .. Len(g) : g[j] = f[i]
    BY DEF BlocksOf
  <2>2. Len(Updated(g)) = Len(g) + 1 /\ \A n \in 1 .. Len(g) : Updated(g)[n + 1] = g[n]
    BY <1>1
  <2>3. Len(g) \in Nat
    OBVIOUS
  <2>4. j + 1 \in 1 .. Len(g) + 1
    BY <2>3
  <2>5. Updated(g)[j + 1] = f[i]
    BY <2>1, <2>2
  <2> QED
    BY <2>2, <2>4, <2>5
<1>3. ASSUME g # <<>>, g[1] = ThisEpisode, NEW i \in 1 .. Len(Updated(f))
      PROVE  \E j \in 1 .. Len(g) : g[j] = Updated(f)[i]
  <2>1. CASE i = 1
    <3>1. Updated(f)[1] = ThisEpisode
      BY <1>1
    <3>2. g[1] = Updated(f)[i]
      BY <1>3, <2>1, <3>1
    <3>3. 1 \in 1 .. Len(g)
      BY <1>3
    <3> QED
      BY <3>2, <3>3
  <2>2. CASE i \in 2 .. Len(f) + 1
    <3>1. \A n \in 2 .. Len(f) + 1 : Updated(f)[n] = f[n - 1]
      BY <1>1
    <3>2. Updated(f)[i] = f[i - 1]
      BY <2>2, <3>1
    <3>3. Len(f) \in Nat
      OBVIOUS
    <3>4. i - 1 \in 1 .. Len(f)
      BY <2>2, <3>3
    <3>5. PICK j \in 1 .. Len(g) : g[j] = f[i - 1]
      BY <3>4 DEF BlocksOf
    <3> QED
      BY <3>2, <3>5
  <2> QED
    BY <1>1, <2>1, <2>2
<1>4. Updated(g) # <<>> /\ Updated(g)[1] = ThisEpisode
  BY <1>1
<1> QED
  BY <1>2, <1>3, <1>4 DEF BlocksOf

\* The relation between the two files, open ones included, is inductive.
LEMMA DescribedStep ==
  ASSUME TypeOK, DescribedInv, [Next]_vars
  PROVE  DescribedInv'
<1> USE DEF files, memory, history, past
<1>1. ASSUME NEW l \in EvalLimits, NEW v \in BOOLEAN, Start(l, v) PROVE DescribedInv'
  BY <1>1 DEF Start, DescribedInv, Open, BlocksOf
<1>2. ASSUME NEW r \in Results, FinishEpisode(r) PROVE DescribedInv'
  BY <1>2 DEF FinishEpisode, DescribedInv, Open, BlocksOf
<1>3. CASE OpenRecord
  <2>1. ~torn => BlocksOf(continueFile, recordFile)
    BY <1>3 DEF OpenRecord, DescribedInv, Open
  <2>2. ~torn => /\ BlocksOf(continueFile, Updated(recordFile))
                 /\ Updated(recordFile) # <<>> /\ Updated(recordFile)[1] = ThisEpisode
    BY <2>1, BlocksOfUpdated DEF TypeOK
  <2>3. /\ content' = Updated(recordFile) /\ continueFile' = continueFile
        /\ ThisEpisode' = ThisEpisode /\ torn' = torn /\ pc' = "recordOpen"
    BY <1>3 DEF OpenRecord, ThisEpisode
  <2>4. ~torn' => /\ BlocksOf(continueFile', content')
                  /\ content' # <<>> /\ content'[1] = ThisEpisode'
    BY <2>2, <2>3
  <2> QED
    BY <2>3, <2>4 DEF DescribedInv, Open, BlocksOf
<1>4. CASE WriteRecord
  <2>1. ~torn => /\ BlocksOf(continueFile, content)
                 /\ content # <<>> /\ content[1] = ThisEpisode
    BY <1>4 DEF WriteRecord, DescribedInv
  <2>2. /\ recordFile' = content /\ continueFile' = continueFile
        /\ ThisEpisode' = ThisEpisode /\ torn' = torn /\ pc' = "continue"
    BY <1>4 DEF WriteRecord, ThisEpisode
  <2>3. ~torn' => /\ BlocksOf(continueFile', recordFile')
                  /\ recordFile' # <<>> /\ recordFile'[1] = ThisEpisode'
    BY <2>1, <2>2
  <2> QED
    BY <2>2, <2>3 DEF DescribedInv, Open, BlocksOf
<1>5. CASE OpenContinue
  <2>1. ~torn => /\ BlocksOf(continueFile, recordFile)
                 /\ recordFile # <<>> /\ recordFile[1] = ThisEpisode
    BY <1>5 DEF OpenContinue, DescribedInv, Open
  <2>2. ~torn => BlocksOf(Updated(continueFile), recordFile)
    BY <2>1, BlocksOfUpdated DEF TypeOK
  <2>3. /\ content' = Updated(continueFile) /\ recordFile' = recordFile
        /\ torn' = torn /\ pc' = "continueOpen"
    BY <1>5 DEF OpenContinue
  <2>4. ~torn' => BlocksOf(content', recordFile')
    BY <2>2, <2>3
  <2> QED
    BY <2>3, <2>4 DEF DescribedInv, Open, BlocksOf
<1>6. CASE WriteContinue
  BY <1>6 DEF WriteContinue, DescribedInv, Open, BlocksOf
<1>7. CASE NextEpisode
  BY <1>7 DEF NextEpisode, DescribedInv, Open, BlocksOf
<1>8. CASE Crash
  BY <1>8 DEF Crash, DescribedInv, Open, BlocksOf
<1>9. ASSUME NEW k \in 0 .. Len(content), NEW w \in BOOLEAN, CrashInWrite(k, w)
      PROVE  DescribedInv'
  <2>1. torn'
    BY <1>9 DEF CrashInWrite
  <2> QED
    BY <2>1 DEF DescribedInv
<1>10. CASE UNCHANGED vars
  BY <1>10 DEF vars, DescribedInv, Open, BlocksOf, ThisEpisode
<1> QED
  BY <1>1, <1>2, <1>3, <1>4, <1>5, <1>6, <1>7, <1>8, <1>9, <1>10 DEF Next, Step

\* Unless a write was interrupted, every block the evaluation can resume from
\* is also in the record file.
THEOREM CountedIsDescribed == Spec => []RecordDescribesWhatIsCounted
<1>1. Init => DescribedInv
  BY DEF Init, DescribedInv, Open, BlocksOf
<1>2. DescribedInv => RecordDescribesWhatIsCounted
  BY DEF DescribedInv, RecordDescribesWhatIsCounted, BlocksOf
<1> QED
  BY <1>1, <1>2, DescribedStep, TypeCorrect, PTL DEF Spec

-----------------------------------------------------------------------------
(* Resuming. *)

\* What the continue file last counted stays in it until a write is torn.
LEMMA CountedStep ==
  ASSUME TypeOK, RunningInv, CountedInv, [Next]_vars
  PROVE  CountedInv'
<1> USE DEF files, memory, history, past
<1>1. ASSUME NEW l \in EvalLimits, NEW v \in BOOLEAN, Start(l, v) PROVE CountedInv'
  BY <1>1 DEF Start, CountedInv, ReadTotal
<1>2. ASSUME NEW r \in Results, FinishEpisode(r) PROVE CountedInv'
  BY <1>2 DEF FinishEpisode, CountedInv, ReadTotal
<1>3. CASE OpenRecord
  BY <1>3 DEF OpenRecord, CountedInv, ReadTotal
<1>4. CASE WriteRecord
  BY <1>4 DEF WriteRecord, CountedInv, ReadTotal
<1>5. CASE OpenContinue
  <2>1. ~torn => finished = ReadTotal(continueFile)
    BY <1>5 DEF OpenContinue, CountedInv
  <2>2. numTotal = ReadTotal(continueFile) + 1
    BY <1>5 DEF OpenContinue, RunningInv, TotalsContinueTheFile
  <2>3. ~torn => finished = numTotal - 1
    BY <2>1, <2>2 DEF TypeOK
  <2> QED
    BY <1>5, <2>3 DEF OpenContinue, CountedInv
<1>6. CASE WriteContinue
  <2>1. ReadTotal(continueFile') = numTotal
    BY <1>6 DEF WriteContinue, RunningInv, TotalsContinueTheFile, ReadTotal, ThisEpisode
  <2> QED
    BY <1>6, <2>1 DEF WriteContinue, CountedInv
<1>7. CASE NextEpisode
  BY <1>7 DEF NextEpisode, CountedInv, ReadTotal
<1>8. CASE Crash
  BY <1>8 DEF Crash, CountedInv, ReadTotal
<1>9. ASSUME NEW k \in 0 .. Len(content), NEW w \in BOOLEAN, CrashInWrite(k, w)
      PROVE  CountedInv'
  BY <1>9 DEF CrashInWrite, CountedInv
<1>10. CASE UNCHANGED vars
  BY <1>10 DEF vars, CountedInv, ReadTotal
<1> QED
  BY <1>1, <1>2, <1>3, <1>4, <1>5, <1>6, <1>7, <1>8, <1>9, <1>10 DEF Next, Step

\* As long as no write was interrupted, a run goes on from all the episodes
\* whose totals reached the continue file.
THEOREM NothingCountedIsLost == Spec => []ResumesFromAllCounted
<1>1. Init => CountedInv
  BY DEF Init, CountedInv, ReadTotal
<1>2. ASSUME TypeOK, RunningInv, CountedInv PROVE ResumesFromAllCounted
  <2>1. CASE pc \in {"record", "recordOpen", "continue", "continueOpen"}
    BY <1>2, <2>1 DEF CountedInv, RunningInv, TotalsContinueTheFile, ResumesFromAllCounted,
                      TypeOK
  <2>2. CASE pc \in {"episode", "publish"}
    BY <1>2, <2>2 DEF CountedInv, RunningInv, TotalsContinueTheFile, ResumesFromAllCounted,
                      TypeOK
  <2>3. CASE pc = "down"
    BY <2>3 DEF ResumesFromAllCounted
  <2> QED
    BY <1>2, <2>1, <2>2, <2>3 DEF TypeOK, Places
<1> QED
  BY <1>1, <1>2, CountedStep, RunningAlways, TypeCorrect, PTL DEF Spec

-----------------------------------------------------------------------------
(* No episode is skipped. *)

\* Some run finished every episode up to the totals in memory and on disk.
DoneInv ==
  /\ pc # "down" => 1 .. numTotal \subseteq done
  /\ 1 .. ReadTotal(continueFile) \subseteq done

\* An episode is finished before its number is in a file.
LEMMA DoneStep ==
  ASSUME TypeOK, RunningInv, DoneInv, [Next]_vars
  PROVE  DoneInv'
<1> USE DEF files, memory, history, past
<1>1. ASSUME NEW l \in EvalLimits, NEW v \in BOOLEAN, Start(l, v) PROVE DoneInv'
  BY <1>1 DEF Start, DoneInv, ReadTotal
<1>2. ASSUME NEW r \in Results, FinishEpisode(r) PROVE DoneInv'
  <2>1. /\ 1 .. numTotal \subseteq done /\ 1 .. ReadTotal(continueFile) \subseteq done
        /\ done' = done \cup {numTotal + 1}
        /\ numTotal' = numTotal + 1 /\ continueFile' = continueFile
    BY <1>2 DEF FinishEpisode, DoneInv
  <2>2. 1 .. numTotal + 1 \subseteq done'
    BY <2>1 DEF TypeOK
  <2> QED
    BY <2>1, <2>2 DEF DoneInv, ReadTotal
<1>3. CASE OpenRecord
  BY <1>3 DEF OpenRecord, DoneInv, ReadTotal
<1>4. CASE WriteRecord
  BY <1>4 DEF WriteRecord, DoneInv, ReadTotal
<1>5. CASE OpenContinue
  BY <1>5 DEF OpenContinue, DoneInv, ReadTotal
<1>6. CASE WriteContinue
  <2>1. ReadTotal(continueFile)' = numTotal
    BY <1>6 DEF WriteContinue, RunningInv, TotalsContinueTheFile, ReadTotal, ThisEpisode
  <2>2. done' = done /\ numTotal' = numTotal /\ 1 .. numTotal \subseteq done
    BY <1>6 DEF WriteContinue, DoneInv
  <2> QED
    BY <2>1, <2>2 DEF DoneInv
<1>7. CASE NextEpisode
  BY <1>7 DEF NextEpisode, DoneInv, ReadTotal
<1>8. CASE Crash
  BY <1>8 DEF Crash, DoneInv, ReadTotal
<1>9. ASSUME NEW k \in 0 .. Len(content), NEW w \in BOOLEAN, CrashInWrite(k, w)
      PROVE  DoneInv'
  <2>1. /\ Stopped(content, k, w) \in Seq(Entry) /\ Len(Stopped(content, k, w)) = k
        /\ \A i \in 1 .. k : Stopped(content, k, w)[i].no = content[i].no
    BY StoppedFacts DEF TypeOK
  <2>2. /\ 1 .. numTotal \subseteq done /\ 1 .. 0 \subseteq done
        /\ 1 .. ReadTotal(continueFile) \subseteq done
    BY <1>9 DEF CrashInWrite, DoneInv
  <2>3. done' = done /\ pc' = "down"
    BY <1>9 DEF CrashInWrite
  <2>4. CASE pc = "recordOpen"
    <3>1. continueFile' = continueFile
      BY <1>9, <2>4 DEF CrashInWrite
    <3> QED
      BY <2>2, <2>3, <3>1 DEF DoneInv
  <2>5. CASE pc = "continueOpen"
    <3>1. continueFile' = Stopped(content, k, w)
      BY <1>9, <2>5 DEF CrashInWrite
    <3>2. content[1].no = numTotal
      BY <2>5 DEF RunningInv, TotalsContinueTheFile, ThisEpisode
    <3>3. ReadTotal(continueFile') = 0 \/ ReadTotal(continueFile') = numTotal
      <4>1. CASE k = 0
        BY <2>1, <3>1, <4>1 DEF ReadTotal
      <4>2. CASE k > 0
        <5>1. 1 \in 1 .. k /\ Stopped(content, k, w) # <<>>
          BY <2>1, <4>2
        <5> QED
          BY <2>1, <3>1, <3>2, <5>1 DEF ReadTotal
      <4> QED
        BY <4>1, <4>2
    <3> QED
      BY <2>2, <2>3, <3>3 DEF DoneInv
  <2> QED
    BY <1>9, <2>4, <2>5 DEF CrashInWrite
<1>10. CASE UNCHANGED vars
  BY <1>10 DEF vars, DoneInv, ReadTotal
<1> QED
  BY <1>1, <1>2, <1>3, <1>4, <1>5, <1>6, <1>7, <1>8, <1>9, <1>10 DEF Next, Step

\* Whatever a torn file reads as, no run goes on after an episode that no run
\* finished.
THEOREM NoEpisodeIsSkipped == Spec => []NeverSkipsAnEpisode
<1>1. Init => DoneInv
  BY DEF Init, DoneInv, ReadTotal
<1>2. DoneInv => NeverSkipsAnEpisode
  BY DEF DoneInv, NeverSkipsAnEpisode
<1> QED
  BY <1>1, <1>2, DoneStep, RunningAlways, TypeCorrect, PTL DEF Spec

-----------------------------------------------------------------------------
(* The folder counts. *)

Successes == {v \in videos : v.result = "success"}
SuccessesUpTo(n) == {v \in Successes : v.no <= n}

\* The places at which the episode just finished is not counted on disk.
Uncounted == {"record", "recordOpen", "continue", "continueOpen"}

\* The successes among the episodes that were counted on disk when the
\* continue file was last closed.
CountedSuccesses ==
  IF pc = "continueOpen" THEN numSuccess - Gain(result) ELSE ReadSuccesses(continueFile)

\* The folders exceed by at most one video per death the totals of the running
\* evaluator, or those a run will resume from; and the successes counted, but for
\* the unfilmed ones, have videos of their own, with numbers that were counted too.
VideosInv ==
  ~torn =>
    /\ IsFiniteSet(videos)
    /\ Cardinality(videos) <= crashes + IF pc = "down" THEN finished ELSE numTotal
    /\ Cardinality(Successes)
         <= crashes + IF pc = "down" THEN CountedSuccesses ELSE numSuccess
    /\ CountedSuccesses <= Cardinality(SuccessesUpTo(finished)) + unfilmed
    /\ pc # "down" => numSuccess <= Cardinality(SuccessesUpTo(numTotal)) + unfilmed
    /\ pc \in Uncounted => numSuccess = CountedSuccesses + Gain(result)
    /\ pc \in {"episode", "publish"} => numSuccess = CountedSuccesses

\* A run that saves its videos adds at most one when it finishes an episode, and
\* if it is a success one whose number no earlier success up to the total had.
LEMMA NewVideo ==
  ASSUME TypeOK, IsFiniteSet(videos), NEW r \in Results, FinishEpisode(r), needVideo
  PROVE  /\ IsFiniteSet(videos')
         /\ Cardinality(videos') <= Cardinality(videos) + 1
         /\ Cardinality(Successes') <= Cardinality(Successes) + Gain(r)
         /\ Cardinality(SuccessesUpTo(numTotal)) + Gain(r)
              <= Cardinality(SuccessesUpTo(numTotal)')
         /\ \A n \in Nat : Cardinality(SuccessesUpTo(n)) <= Cardinality(SuccessesUpTo(n)')
<1> DEFINE new == [no |-> numTotal + 1, result |-> r]
<1>0. videos' = IF needVideo THEN videos \cup {new} ELSE videos
  BY DEF FinishEpisode
<1>1. videos' = videos \cup {new} /\ new.no = numTotal + 1 /\ new.result = r
      /\ numTotal' = numTotal + 1
  BY <1>0 DEF FinishEpisode
<1> HIDE DEF new
<1>2. numTotal \in Nat
  BY DEF TypeOK
<1>3. IsFiniteSet(videos') /\ Cardinality(videos') \in Nat /\ Cardinality(videos) \in Nat
      /\ Cardinality(videos') <= Cardinality(videos) + 1
  <2>1. /\ IsFiniteSet(videos \cup {new})
        /\ \/ Cardinality(videos \cup {new}) = Cardinality(videos)
           \/ Cardinality(videos \cup {new}) = Cardinality(videos) + 1
    BY FS_AddElement
  <2>2. Cardinality(videos) \in Nat
    BY FS_CardinalityType
  <2> QED
    BY <1>1, <2>1, <2>2
<1>4. /\ IsFiniteSet(Successes) /\ IsFiniteSet(Successes')
      /\ \A n \in Nat : IsFiniteSet(SuccessesUpTo(n)) /\ IsFiniteSet(SuccessesUpTo(n)')
      /\ IsFiniteSet(SuccessesUpTo(numTotal)) /\ IsFiniteSet(SuccessesUpTo(numTotal)')
  BY <1>3, FS_Subset DEF Successes, SuccessesUpTo
<1>5. ASSUME NEW n \in Nat
      PROVE  Cardinality(SuccessesUpTo(n)) <= Cardinality(SuccessesUpTo(n)')
  <2>1. SuccessesUpTo(n) \subseteq SuccessesUpTo(n)'
    BY <1>1 DEF Successes, SuccessesUpTo
  <2> QED
    BY <1>4, <2>1, FS_Subset
<1>6. CASE r = "success"
  <2>1. Successes' = Successes \cup {new}
    BY <1>1, <1>6 DEF Successes
  <2>2. Cardinality(Successes) \in Nat /\ Cardinality(Successes') <= Cardinality(Successes) + 1
    <3>1. IsFiniteSet(Successes)
      BY <1>4
    <3> QED
      BY <2>1, <3>1, FS_AddElement, FS_CardinalityType
  <2> DEFINE A == SuccessesUpTo(numTotal)
             B == SuccessesUpTo(numTotal)'
  <2>3. A \cup {new} \subseteq B
    <3>1. ASSUME NEW v \in A PROVE v \in B
      <4>1. v \in videos /\ v.result = "success" /\ v.no <= numTotal
        BY DEF Successes, SuccessesUpTo
      <4>2. v.no \in Nat
        BY <4>1 DEF TypeOK
      <4> QED
        BY <1>1, <1>2, <4>1, <4>2 DEF Successes, SuccessesUpTo
    <3>2. new \in B
      BY <1>1, <1>2, <1>6 DEF Successes, SuccessesUpTo
    <3> QED
      BY <3>1, <3>2
  <2>4. new \notin A
    BY <1>1, <1>2 DEF Successes, SuccessesUpTo
  <2>5. IsFiniteSet(A) /\ IsFiniteSet(B)
    BY <1>2, <1>4
  <2> HIDE DEF A, B
  <2>6. /\ IsFiniteSet(A \cup {new}) /\ Cardinality(A \cup {new}) = Cardinality(A) + 1
        /\ Cardinality(A \cup {new}) <= Cardinality(B)
    BY <2>3, <2>4, <2>5, FS_AddElement, FS_Subset
  <2>7. Cardinality(A) + 1 <= Cardinality(B)
    BY <2>6
  <2> QED
    BY <1>3, <1>5, <1>6, <2>2, <2>7 DEF Gain, A, B
<1>7. CASE r # "success"
  <2>1. Successes' = Successes
    BY <1>1, <1>7 DEF Successes
  <2>2. SuccessesUpTo(numTotal) \subseteq SuccessesUpTo(numTotal)'
    <3>1. \A v \in videos : v.no <= numTotal => v.no <= numTotal'
      BY <1>1, <1>2 DEF TypeOK
    <3>2. SuccessesUpTo(numTotal)' = {v \in Successes : v.no <= numTotal'}
      BY <2>1 DEF SuccessesUpTo
    <3> QED
      BY <3>1, <3>2 DEF Successes, SuccessesUpTo
  <2>3. /\ IsFiniteSet(SuccessesUpTo(numTotal)) /\ IsFiniteSet(SuccessesUpTo(numTotal)')
    BY <1>2, <1>4
  <2>4. /\ Cardinality(SuccessesUpTo(numTotal)) <= Cardinality(SuccessesUpTo(numTotal)')
        /\ Cardinality(SuccessesUpTo(numTotal)) \in Nat /\ Cardinality(Successes) \in Nat
    BY <1>4, <2>2, <2>3, FS_Subset, FS_CardinalityType
  <2> QED
    BY <1>3, <1>5, <1>7, <2>1, <2>4 DEF Gain
<1> QED
  BY <1>6, <1>7

\* Saved or not, a finished episode keeps the folders in step: a success has a
\* video of its own or is counted as unfilmed.
LEMMA VideoOrUnfilmed ==
  ASSUME TypeOK, IsFiniteSet(videos), NEW r \in Results, FinishEpisode(r)
  PROVE  /\ IsFiniteSet(videos')
         /\ Cardinality(videos') <= Cardinality(videos) + 1
         /\ Cardinality(Successes') <= Cardinality(Successes) + Gain(r)
         /\ Cardinality(SuccessesUpTo(numTotal)) + unfilmed + Gain(r)
              <= Cardinality(SuccessesUpTo(numTotal)') + unfilmed'
         /\ \A n \in Nat : Cardinality(SuccessesUpTo(n)) <= Cardinality(SuccessesUpTo(n)')
         /\ unfilmed <= unfilmed'
<1>1. /\ numTotal \in Nat /\ unfilmed \in Nat /\ Gain(r) \in {0, 1}
      /\ numTotal' = numTotal + 1 /\ needVideo \in BOOLEAN
  BY DEF TypeOK, Gain, FinishEpisode
<1>2. unfilmed' = IF needVideo THEN unfilmed ELSE unfilmed + Gain(r)
  BY DEF FinishEpisode
<1>3. IsFiniteSet(Successes)
      /\ \A n \in Nat : IsFiniteSet(SuccessesUpTo(n)) /\ Cardinality(SuccessesUpTo(n)) \in Nat
  BY FS_Subset, FS_CardinalityType DEF Successes, SuccessesUpTo
<1>4. CASE needVideo
  <2>1. unfilmed' = unfilmed
    BY <1>2, <1>4
  <2>2. /\ IsFiniteSet(videos')
        /\ Cardinality(videos') <= Cardinality(videos) + 1
        /\ Cardinality(Successes') <= Cardinality(Successes) + Gain(r)
        /\ Cardinality(SuccessesUpTo(numTotal)) + Gain(r)
             <= Cardinality(SuccessesUpTo(numTotal)')
        /\ \A n \in Nat : Cardinality(SuccessesUpTo(n)) <= Cardinality(SuccessesUpTo(n)')
    BY <1>4, NewVideo
  <2>3. Cardinality(SuccessesUpTo(numTotal)') \in Nat
    <3>1. SuccessesUpTo(numTotal)' \subseteq videos'
      BY DEF SuccessesUpTo, Successes
    <3> QED
      BY <2>2, <3>1, FS_Subset, FS_CardinalityType
  <2> QED
    BY <1>1, <1>3, <2>1, <2>2, <2>3
<1>5. CASE ~needVideo
  <2>1. videos' = videos
    BY <1>5 DEF FinishEpisode
  <2>2. unfilmed' = unfilmed + Gain(r)
    BY <1>2, <1>5
  <2>3. Successes' = Successes /\ \A n \in Nat : SuccessesUpTo(n)' = SuccessesUpTo(n)
    BY <2>1 DEF Successes, SuccessesUpTo
  <2>4. Cardinality(SuccessesUpTo(numTotal)) <= Cardinality(SuccessesUpTo(numTotal)')
        /\ Cardinality(SuccessesUpTo(numTotal)') \in Nat
    <3>1. SuccessesUpTo(numTotal)' = {v \in Successes : v.no <= numTotal + 1}
      BY <1>1, <2>3 DEF SuccessesUpTo
    <3>2. SuccessesUpTo(numTotal) \subseteq SuccessesUpTo(numTotal)'
      <4>1. \A v \in Successes : v.no \in Nat
        BY DEF Successes, TypeOK
      <4> QED
        BY <1>1, <3>1, <4>1 DEF SuccessesUpTo
    <3>3. IsFiniteSet(SuccessesUpTo(numTotal)')
      BY <1>3, <3>1, FS_Subset
    <3> QED
      BY <3>2, <3>3, FS_Subset, FS_CardinalityType
  <2>5. Cardinality(videos) \in Nat /\ Cardinality(Successes) \in Nat
    BY <1>3, FS_CardinalityType
  <2>6. \A n \in Nat : Cardinality(SuccessesUpTo(n)) <= Cardinality(SuccessesUpTo(n)')
    BY <1>3, <2>3
  <2>7. Cardinality(SuccessesUpTo(numTotal)) \in Nat
    BY <1>1, <1>3
  <2> QED
    BY <1>1, <2>1, <2>2, <2>3, <2>4, <2>5, <2>6, <2>7
<1> QED
  BY <1>1, <1>4, <1>5

\* The numbers the folder counts are compared with.
LEMMA CountTypes ==
  ASSUME TypeOK, IsFiniteSet(videos)
  PROVE  /\ Cardinality(videos) \in Nat /\ Cardinality(Successes) \in Nat
         /\ numTotal \in Nat /\ numSuccess \in Nat /\ finished \in Nat /\ crashes \in Nat
         /\ unfilmed \in Nat /\ CountedSuccesses \in Int /\ Gain(result) \in {0, 1}
         /\ \A n \in Nat : Cardinality(SuccessesUpTo(n)) \in Nat
                           /\ Cardinality(SuccessesUpTo(n)) <= Cardinality(Successes)
<1>1. /\ numTotal \in Nat /\ numSuccess \in Nat /\ finished \in Nat /\ crashes \in Nat
      /\ unfilmed \in Nat
      /\ ReadSuccesses(continueFile) \in Nat /\ Gain(result) \in {0, 1}
  BY ReadTypes, CrashesAssumption DEF TypeOK, Gain
<1>2. CountedSuccesses \in Int
  BY <1>1 DEF CountedSuccesses
<1>3. IsFiniteSet(Successes) /\ Cardinality(videos) \in Nat /\ Cardinality(Successes) \in Nat
  BY FS_Subset, FS_CardinalityType DEF Successes
<1>4. ASSUME NEW n \in Nat
      PROVE  Cardinality(SuccessesUpTo(n)) \in Nat
             /\ Cardinality(SuccessesUpTo(n)) <= Cardinality(Successes)
  <2>1. SuccessesUpTo(n) \subseteq Successes
    BY DEF SuccessesUpTo
  <2> QED
    BY <1>3, <2>1, FS_Subset, FS_CardinalityType
<1> QED
  BY <1>1, <1>2, <1>3, <1>4

\* The relation between folders, totals and files is inductive.
LEMMA VideosStep ==
  ASSUME TypeOK, RunningInv, CountedInv, VideosInv, [Next]_vars
  PROVE  VideosInv'
<1> USE DEF files, memory, history, past
<1> SUFFICES ASSUME ~torn' PROVE VideosInv'
  BY DEF VideosInv
<1>0. ~torn
  BY DEF Next, Step, Start, FinishEpisode, OpenRecord, WriteRecord, OpenContinue,
         WriteContinue, NextEpisode, Crash, CrashInWrite, vars
<1>t. /\ IsFiniteSet(videos)
      /\ Cardinality(videos) \in Nat /\ Cardinality(Successes) \in Nat
      /\ numTotal \in Nat /\ numSuccess \in Nat /\ finished \in Nat /\ crashes \in Nat
      /\ unfilmed \in Nat /\ CountedSuccesses \in Int /\ Gain(result) \in {0, 1}
      /\ \A n \in Nat : Cardinality(SuccessesUpTo(n)) \in Nat
                        /\ Cardinality(SuccessesUpTo(n)) <= Cardinality(Successes)
  BY <1>0, CountTypes DEF VideosInv
<1>v. /\ Cardinality(videos) <= crashes + IF pc = "down" THEN finished ELSE numTotal
      /\ Cardinality(Successes)
           <= crashes + IF pc = "down" THEN CountedSuccesses ELSE numSuccess
      /\ CountedSuccesses <= Cardinality(SuccessesUpTo(finished)) + unfilmed
      /\ pc # "down" => numSuccess <= Cardinality(SuccessesUpTo(numTotal)) + unfilmed
      /\ pc \in Uncounted => numSuccess = CountedSuccesses + Gain(result)
      /\ pc \in {"episode", "publish"} => numSuccess = CountedSuccesses
  BY <1>0 DEF VideosInv
<1>s. UNCHANGED videos => /\ Successes' = Successes
                          /\ \A n \in Nat : SuccessesUpTo(n)' = SuccessesUpTo(n)
  BY DEF Successes, SuccessesUpTo
<1>1. ASSUME NEW l \in EvalLimits, NEW v \in BOOLEAN, Start(l, v) PROVE VideosInv'
  <2>1. /\ pc = "down" /\ pc' = "episode" /\ UNCHANGED <<videos, finished, crashes, unfilmed>>
        /\ numTotal' = ReadTotal(continueFile) /\ numSuccess' = ReadSuccesses(continueFile)
        /\ continueFile' = continueFile
    BY <1>1 DEF Start
  <2>2. numTotal' = finished
    BY <1>0, <2>1 DEF CountedInv
  <2>3. numSuccess' = CountedSuccesses /\ CountedSuccesses' = CountedSuccesses
    BY <2>1 DEF CountedSuccesses
  <2>4. SuccessesUpTo(finished)' = SuccessesUpTo(finished)
        /\ SuccessesUpTo(numTotal)' = SuccessesUpTo(finished)
    BY <2>1, <2>2 DEF Successes, SuccessesUpTo
  <2> QED
    BY <1>t, <1>v, <1>s, <2>1, <2>2, <2>3, <2>4 DEF VideosInv, Uncounted
<1>2. ASSUME NEW r \in Results, FinishEpisode(r) PROVE VideosInv'
  <2>1. /\ pc = "episode" /\ pc' = "record" /\ UNCHANGED <<finished, crashes>>
        /\ numTotal' = numTotal + 1 /\ numSuccess' = numSuccess + Gain(r) /\ result' = r
        /\ continueFile' = continueFile
    BY <1>2, <1>t DEF FinishEpisode, Gain
  <2>2. CountedSuccesses' = CountedSuccesses
    BY <2>1 DEF CountedSuccesses
  <2>3. Gain(result)' = Gain(r) /\ Gain(r) \in {0, 1}
    BY <2>1 DEF Gain
  <2>4. /\ IsFiniteSet(videos') /\ Cardinality(videos') \in Nat /\ Cardinality(Successes') \in Nat
        /\ Cardinality(videos') <= Cardinality(videos) + 1
        /\ Cardinality(Successes') <= Cardinality(Successes) + Gain(r)
        /\ Cardinality(SuccessesUpTo(numTotal)) + unfilmed + Gain(r)
             <= Cardinality(SuccessesUpTo(numTotal)') + unfilmed'
        /\ unfilmed <= unfilmed' /\ unfilmed' \in Nat
        /\ Cardinality(SuccessesUpTo(finished)) <= Cardinality(SuccessesUpTo(finished)')
        /\ Cardinality(SuccessesUpTo(finished)') \in Nat
        /\ Cardinality(SuccessesUpTo(numTotal)') \in Nat
    <3>1. IsFiniteSet(videos') /\ IsFiniteSet(Successes')
          /\ \A n \in Nat : IsFiniteSet(SuccessesUpTo(n)')
      BY <1>t, <1>2, VideoOrUnfilmed, FS_Subset DEF Successes, SuccessesUpTo
    <3>2. numTotal + 1 \in Nat
      BY <1>t
    <3>3. SuccessesUpTo(finished)' = {v \in Successes' : v.no <= finished}
          /\ SuccessesUpTo(numTotal)' = {v \in Successes' : v.no <= numTotal + 1}
      BY <2>1 DEF SuccessesUpTo
    <3>4. IsFiniteSet(SuccessesUpTo(finished)') /\ IsFiniteSet(SuccessesUpTo(numTotal)')
      BY <3>1, <3>3, FS_Subset
    <3> QED
      <4>1. unfilmed' \in Nat
        BY <1>2, <1>t, <2>3 DEF FinishEpisode
      <4> QED
        BY <1>t, <1>2, <2>1, <3>1, <3>4, <4>1, VideoOrUnfilmed, FS_CardinalityType
           DEF Successes, SuccessesUpTo
  <2> QED
    BY <1>t, <1>v, <2>1, <2>2, <2>3, <2>4 DEF VideosInv, Uncounted
<1> DEFINE Kept == /\ UNCHANGED <<videos, unfilmed, numTotal, numSuccess, finished, crashes, result>>
                   /\ CountedSuccesses' = CountedSuccesses
<1>3. ASSUME Kept, pc' \in Uncounted <=> pc \in Uncounted,
             pc' = "down" <=> pc = "down",
             pc' \in {"episode", "publish"} <=> pc \in {"episode", "publish"}
      PROVE  VideosInv'
  <2>1. SuccessesUpTo(finished)' = SuccessesUpTo(finished)
        /\ SuccessesUpTo(numTotal)' = SuccessesUpTo(numTotal) /\ Gain(result)' = Gain(result)
    BY <1>3 DEF Successes, SuccessesUpTo, Gain
  <2> QED
    BY <1>t, <1>v, <1>s, <1>3, <2>1 DEF VideosInv
<1>4. CASE OpenRecord \/ WriteRecord \/ UNCHANGED vars
  <2>1. Kept
    BY <1>4 DEF OpenRecord, WriteRecord, vars, CountedSuccesses, Gain
  <2> QED
    BY <1>3, <1>4, <2>1 DEF OpenRecord, WriteRecord, vars, Uncounted
<1>5. CASE OpenContinue
  <2>1. /\ pc = "continue" /\ pc' = "continueOpen"
        /\ UNCHANGED <<videos, unfilmed, numTotal, numSuccess, finished, crashes, result>>
    BY <1>5 DEF OpenContinue
  <2>2. CountedSuccesses' = numSuccess - Gain(result)
    BY <2>1 DEF CountedSuccesses, Gain
  <2>3. numSuccess = CountedSuccesses + Gain(result)
    BY <1>v, <2>1 DEF Uncounted
  <2>4. CountedSuccesses' = CountedSuccesses
    BY <1>t, <2>2, <2>3
  <2> QED
    BY <1>3, <2>1, <2>4 DEF Uncounted
<1>6. CASE WriteContinue
  <2>1. /\ pc = "continueOpen" /\ pc' = "publish" /\ continueFile' = content
        /\ finished' = numTotal
        /\ UNCHANGED <<videos, unfilmed, numTotal, numSuccess, crashes, result>>
    BY <1>6 DEF WriteContinue
  <2>2. ReadSuccesses(content) = numSuccess
    BY <2>1 DEF RunningInv, TotalsContinueTheFile, ReadSuccesses, ThisEpisode
  <2>3. CountedSuccesses' = numSuccess
    BY <2>1, <2>2 DEF CountedSuccesses
  <2>4. SuccessesUpTo(finished)' = SuccessesUpTo(numTotal)
        /\ SuccessesUpTo(numTotal)' = SuccessesUpTo(numTotal)
    BY <2>1 DEF Successes, SuccessesUpTo
  <2> QED
    BY <1>t, <1>v, <1>s, <2>1, <2>3, <2>4 DEF VideosInv, Uncounted
<1>7. CASE NextEpisode
  <2>1. /\ pc = "publish" /\ pc' \in {"episode", "down"}
        /\ UNCHANGED <<videos, unfilmed, numTotal, numSuccess, finished, crashes, continueFile, torn>>
    BY <1>7 DEF NextEpisode
  <2>2. numTotal = finished
    BY <1>0, <2>1 DEF RunningInv, TotalsContinueTheFile, CountedInv
  <2>3. CountedSuccesses' = CountedSuccesses
    BY <2>1 DEF CountedSuccesses
  <2>4. SuccessesUpTo(finished)' = SuccessesUpTo(finished)
        /\ SuccessesUpTo(numTotal)' = SuccessesUpTo(numTotal)
    BY <2>1 DEF Successes, SuccessesUpTo
  <2> QED
    BY <1>t, <1>v, <1>s, <2>1, <2>2, <2>3, <2>4 DEF VideosInv, Uncounted
<1>8. CASE Crash
  <2>1. /\ pc \in {"episode", "record", "continue", "publish"} /\ pc' = "down"
        /\ UNCHANGED <<videos, unfilmed, finished, continueFile>> /\ crashes' = crashes + 1
    BY <1>8 DEF Crash
  <2>2. numTotal <= finished + 1
    <3>1. finished = ReadTotal(continueFile)
      BY <1>0, <2>1 DEF CountedInv
    <3>2. numTotal = ReadTotal(continueFile) \/ numTotal = ReadTotal(continueFile) + 1
      BY <2>1 DEF RunningInv, TotalsContinueTheFile
    <3> QED
      BY <1>t, <3>1, <3>2
  <2>3. CountedSuccesses' = CountedSuccesses
    BY <2>1 DEF CountedSuccesses
  <2>4. numSuccess <= CountedSuccesses + 1
    BY <1>t, <1>v, <2>1 DEF Uncounted
  <2>5. SuccessesUpTo(finished)' = SuccessesUpTo(finished)
    BY <2>1 DEF Successes, SuccessesUpTo
  <2> QED
    BY <1>t, <1>v, <1>s, <2>1, <2>2, <2>3, <2>4, <2>5 DEF VideosInv, Uncounted
<1>9. ASSUME NEW k \in 0 .. Len(content), NEW w \in BOOLEAN, CrashInWrite(k, w)
      PROVE  VideosInv'
  BY <1>9 DEF CrashInWrite
<1> QED
  BY <1>1, <1>2, <1>4, <1>5, <1>6, <1>7, <1>8, <1>9 DEF Next, Step

\* As long as no write was interrupted, the folders hold at most one video more
\* than the totals for each death of the evaluator, and they miss no success but
\* those of runs that save no videos.
THEOREM VideosFollowTotals == Spec => []VideosMatchTotals
<1>1. Init => VideosInv
  <2> SUFFICES ASSUME Init PROVE VideosInv
    OBVIOUS
  <2>1. videos = {} /\ Successes = {} /\ SuccessesUpTo(finished) = {}
    BY DEF Init, Successes, SuccessesUpTo
  <2>2. IsFiniteSet({}) /\ Cardinality({}) = 0
    BY FS_EmptySet
  <2> QED
    <3>1. /\ pc = "down" /\ finished = 0 /\ crashes = 0 /\ unfilmed = 0
            /\ CountedSuccesses = 0
      BY DEF Init, CountedSuccesses, ReadSuccesses
    <3> QED
      BY <2>1, <2>2, <3>1 DEF VideosInv, Uncounted
<1>2. ASSUME TypeOK, VideosInv PROVE VideosMatchTotals
  <2> SUFFICES ASSUME ~torn, pc # "down"
               PROVE  /\ Cardinality(videos) <= numTotal + crashes
                      /\ numSuccess <= Cardinality(Successes) + unfilmed
                      /\ Cardinality(Successes) <= numSuccess + crashes
    BY DEF VideosMatchTotals, Successes
  <2>1. IsFiniteSet(videos)
    BY <1>2 DEF VideosInv
  <2> QED
    BY <1>2, <2>1, CountTypes DEF VideosInv
<1>3. CountedInv /\ TypeOK /\ RunningInv /\ [Next]_vars => CountedInv'
  BY CountedStep
<1>4. Init => CountedInv
  BY DEF Init, CountedInv, ReadTotal
<1> QED
  BY <1>1, <1>2, <1>3, <1>4, VideosStep, RunningAlways, TypeCorrect, PTL DEF Spec

-----------------------------------------------------------------------------
(* The refinement of Ledger. *)

\* What a file promises, Newest of a file at rest.
NewestOf(f) == IF f = <<>> THEN [no |-> 0, successes |-> 0, whole |-> TRUE] ELSE Head(f)

\* A file that is whole or empty promises what a run reads from it.
LEMMA NewestIsRead ==
  ASSUME NEW f \in Seq(Entry)
  PROVE  /\ NewestOf(f).no = ReadTotal(f)
         /\ NewestOf(f).successes = ReadSuccesses(f)
         /\ NewestOf(f).whole \in BOOLEAN
         /\ Readable(f) => NewestOf(f).whole
<1>1. f # <<>> => Head(f) \in Entry
  OBVIOUS
<1>2. f # <<>> => Head(f).whole \in BOOLEAN
  BY <1>1 DEF Entry
<1> QED
  BY <1>2 DEF NewestOf, ReadTotal, ReadSuccesses, Readable

\* Newest is read from the continue file, or from below the pending block.
LEMMA NewestCases ==
  /\ pc # "continueOpen" => Newest = NewestOf(continueFile)
  /\ pc = "continueOpen" => Newest = NewestOf(Tail(content))
  BY DEF Newest, Last, NewestOf

\* The same in the next state.
LEMMA NewestCasesNext ==
  /\ pc' # "continueOpen" => Newest' = NewestOf(continueFile')
  /\ pc' = "continueOpen" => Newest' = NewestOf(Tail(content'))
  BY DEF Newest, Last, NewestOf

\* Totals in the files are numbers.
LEMMA NewestType ==
  ASSUME TypeOK, LedgerInv
  PROVE  Newest.no \in Nat /\ Newest.successes \in Nat /\ Newest.whole \in BOOLEAN
<1>1. ASSUME NEW f \in Seq(Entry)
      PROVE  NewestOf(f).no \in Nat /\ NewestOf(f).successes \in Nat
             /\ NewestOf(f).whole \in BOOLEAN
  BY NewestIsRead, ReadTypes
<1>2. continueFile \in Seq(Entry)
  BY DEF TypeOK
<1>3. pc = "continueOpen" => Tail(content) \in Seq(Entry)
  BY DEF TypeOK, LedgerInv
<1> QED
  BY <1>1, <1>2, <1>3, NewestCases

\* The first block an interrupted write leaves, if any, is that of the episode
\* just finished, whole or not.
LEMMA StoppedNewest ==
  ASSUME TypeOK, content # <<>>, content[1] = ThisEpisode,
         NEW k \in 0 .. Len(content), NEW w \in BOOLEAN
  PROVE  LET n == NewestOf(Stopped(content, k, w))
         IN /\ k = 0 => n.no = 0 /\ n.successes = 0 /\ n.whole = TRUE
            /\ k # 0 => n.no = numTotal /\ n.successes = numSuccess /\ n.whole \in BOOLEAN
<1> DEFINE f == Stopped(content, k, w)
<1>1. /\ f \in Seq(Entry) /\ Len(f) = k
      /\ \A i \in 1 .. k : f[i].no = content[i].no /\ f[i].successes = content[i].successes
  BY StoppedFacts DEF TypeOK
<1> HIDE DEF f
<1>2. CASE k = 0
  <2>1. f = <<>>
    BY <1>1, <1>2
  <2> QED
    BY <1>2, <2>1 DEF NewestOf, f
<1>3. CASE k # 0
  <2>1. f # <<>> /\ Head(f) = f[1] /\ 1 \in 1 .. k
    BY <1>1, <1>3
  <2>2. f[1].no = numTotal /\ f[1].successes = numSuccess
    BY <1>1, <2>1 DEF ThisEpisode
  <2>3. NewestOf(f).whole \in BOOLEAN
    BY <1>1, NewestIsRead
  <2> QED
    BY <1>3, <2>1, <2>2, <2>3 DEF NewestOf, f
<1> QED
  BY <1>2, <1>3

\* The relation of the memory to the promise is inductive, and every step keeps
\* the promise or is one of Ledger.
LEMMA LedgerStep ==
  ASSUME TypeOK, LedgerInv, [Next]_vars
  PROVE  LedgerInv' /\ [Book!Next]_(Book!vars)
<1> USE DEF files, memory, history, past
<1>t. /\ Newest.no \in Nat /\ Newest.successes \in Nat /\ Newest.whole \in BOOLEAN
      /\ numTotal \in Nat /\ numSuccess \in Nat /\ Gain(result) \in {0, 1}
  BY NewestType DEF TypeOK, Gain
<1>k. ASSUME Newest' = Newest PROVE [Book!Next]_(Book!vars)
  BY <1>k DEF Book!vars
<1>1. ASSUME NEW l \in EvalLimits, NEW v \in BOOLEAN, Start(l, v) PROVE LedgerInv' /\ [Book!Next]_(Book!vars)
  <2>1. /\ pc = "down" /\ pc' = "episode" /\ continueFile' = continueFile
        /\ numTotal' = ReadTotal(continueFile) /\ numSuccess' = ReadSuccesses(continueFile)
        /\ Readable(continueFile) /\ continueFile \in Seq(Entry)
    BY <1>1 DEF Start, TypeOK
  <2>2. Newest' = Newest /\ Newest = NewestOf(continueFile)
    BY <2>1, NewestCases, NewestCasesNext
  <2>3. /\ numTotal' = Newest'.no /\ numSuccess' = Newest'.successes /\ Newest'.whole
    BY <2>1, <2>2, NewestIsRead
  <2> QED
    BY <1>k, <2>1, <2>2, <2>3 DEF LedgerInv
<1>2. ASSUME NEW r \in Results, FinishEpisode(r)
      PROVE  LedgerInv' /\ [Book!Next]_(Book!vars)
  <2>1. /\ pc = "episode" /\ pc' = "record" /\ continueFile' = continueFile
        /\ numTotal' = numTotal + 1 /\ numSuccess' = numSuccess + Gain(r) /\ result' = r
    BY <1>2, <1>t DEF FinishEpisode, Gain
  <2>2. Newest' = Newest
    BY <2>1, NewestCases, NewestCasesNext
  <2>3. Gain(result)' = Gain(r)
    BY <2>1 DEF Gain
  <2> QED
    BY <1>k, <2>1, <2>2, <2>3 DEF LedgerInv
<1>3. CASE OpenRecord \/ WriteRecord
  <2>1. /\ pc \in {"record", "recordOpen"} /\ pc' \in {"recordOpen", "continue"}
        /\ UNCHANGED <<continueFile, numTotal, numSuccess, result>>
    BY <1>3 DEF OpenRecord, WriteRecord
  <2>2. Newest' = Newest /\ Gain(result)' = Gain(result)
    BY <2>1, NewestCases, NewestCasesNext DEF Gain
  <2> QED
    BY <1>k, <2>1, <2>2 DEF LedgerInv
<1>4. CASE OpenContinue
  <2>1. /\ pc = "continue" /\ pc' = "continueOpen" /\ content' = <<ThisEpisode>> \o continueFile
        /\ UNCHANGED <<numTotal, numSuccess, result, cursor>>
    BY <1>4 DEF OpenContinue, Updated
  <2>2. continueFile \in Seq(Entry) /\ ThisEpisode \in Entry
    BY ThisEpisodeType DEF TypeOK
  <2>3. Tail(content') = continueFile /\ content' # <<>> /\ content'[1] = ThisEpisode
    BY <2>1, <2>2
  <2>4. Newest' = Newest /\ Gain(result)' = Gain(result) /\ ThisEpisode' = ThisEpisode
    BY <2>1, <2>3, NewestCases, NewestCasesNext DEF Gain, ThisEpisode
  <2> QED
    BY <1>k, <2>1, <2>3, <2>4 DEF LedgerInv
<1>5. CASE WriteContinue
  <2>1. /\ pc = "continueOpen" /\ pc' = "publish" /\ continueFile' = content
        /\ UNCHANGED <<numTotal, numSuccess, result>>
        /\ content # <<>> /\ content[1] = ThisEpisode
    BY <1>5 DEF WriteContinue, LedgerInv
  <2>2. /\ numTotal = Newest.no + 1 /\ numSuccess = Newest.successes + Gain(result)
        /\ Newest.whole
    BY <2>1 DEF LedgerInv
  <2>3. Newest' = ThisEpisode
    BY <2>1, NewestCasesNext DEF NewestOf
  <2>4. Newest'.no = numTotal /\ Newest'.successes = numSuccess /\ Newest'.whole = TRUE
    BY <2>3 DEF ThisEpisode
  <2>5. Book!Record
    <3>1. Book!Count
      BY <1>t, <2>2, <2>4 DEF Book!Count
    <3>2. Newest'.whole = Newest.whole
      BY <1>t, <2>2, <2>4
    <3> QED
      BY <2>2, <3>1, <3>2 DEF Book!Record
  <2>6. LedgerInv'
    BY <2>1, <2>4 DEF LedgerInv
  <2> QED
    BY <2>5, <2>6 DEF Book!Next
<1>6. CASE NextEpisode
  <2>1. /\ pc = "publish" /\ pc' \in {"episode", "down"}
        /\ UNCHANGED <<continueFile, numTotal, numSuccess>>
    BY <1>6 DEF NextEpisode
  <2>2. Newest' = Newest
    BY <2>1, NewestCases, NewestCasesNext
  <2> QED
    BY <1>k, <2>1, <2>2 DEF LedgerInv
<1>7. CASE Crash
  <2>1. /\ pc \in {"episode", "record", "continue", "publish"} /\ pc' = "down"
        /\ continueFile' = continueFile
    BY <1>7 DEF Crash
  <2>2. Newest' = Newest
    BY <2>1, NewestCases, NewestCasesNext
  <2> QED
    BY <1>k, <2>1, <2>2 DEF LedgerInv
<1>8. ASSUME NEW k \in 0 .. Len(content), NEW w \in BOOLEAN, CrashInWrite(k, w)
      PROVE  LedgerInv' /\ [Book!Next]_(Book!vars)
  <2>1. pc' = "down" /\ LedgerInv'
    BY <1>8 DEF CrashInWrite, LedgerInv
  <2>2. CASE pc = "recordOpen"
    <3>1. Newest' = Newest
      BY <1>8, <2>1, <2>2, NewestCases, NewestCasesNext DEF CrashInWrite
    <3> QED
      BY <1>k, <2>1, <3>1
  <2>3. CASE pc = "continueOpen"
    <3>1. Newest' = NewestOf(Stopped(content, k, w))
      BY <1>8, <2>1, <2>3, NewestCasesNext DEF CrashInWrite
    <3>2. /\ numTotal = Newest.no + 1 /\ numSuccess = Newest.successes + Gain(result)
          /\ Newest.whole /\ content # <<>> /\ content[1] = ThisEpisode
      BY <2>3 DEF LedgerInv
    <3>3. /\ k = 0 => Newest'.no = 0 /\ Newest'.successes = 0 /\ Newest'.whole = TRUE
          /\ k # 0 => /\ Newest'.no = numTotal /\ Newest'.successes = numSuccess
                      /\ Newest'.whole \in BOOLEAN
      BY <3>1, <3>2, StoppedNewest
    <3>4. CASE k = 0
      <4>1. Newest'.whole = Newest.whole
        BY <1>t, <3>2, <3>3, <3>4
      <4>2. Book!Forget
        BY <3>2, <3>3, <3>4, <4>1 DEF Book!Forget
      <4> QED
        BY <2>1, <4>2 DEF Book!Next
    <3>5. CASE k # 0
      <4>1. Book!Count
        BY <1>t, <3>2, <3>3, <3>5 DEF Book!Count
      <4>2. CASE Newest'.whole = TRUE
        <5>1. Newest'.whole = Newest.whole
          BY <1>t, <3>2, <4>2
        <5> QED
          BY <2>1, <3>2, <4>1, <5>1 DEF Book!Record, Book!Next
      <4>3. CASE Newest'.whole = FALSE
        BY <2>1, <3>2, <4>1, <4>3 DEF Book!Spoil, Book!Next
      <4> QED
        BY <3>3, <3>5, <4>2, <4>3
    <3> QED
      BY <3>4, <3>5
  <2> QED
    BY <1>8, <2>2, <2>3 DEF CrashInWrite
<1>9. CASE UNCHANGED vars
  <2>1. UNCHANGED <<pc, continueFile, content, numTotal, numSuccess, result, cursor>>
    BY <1>9 DEF vars
  <2>2. Newest' = Newest /\ Gain(result)' = Gain(result) /\ ThisEpisode' = ThisEpisode
    BY <2>1 DEF Newest, Last, Gain, ThisEpisode
  <2> QED
    BY <1>k, <2>1, <2>2 DEF LedgerInv
<1> QED
  BY <1>1, <1>2, <1>3, <1>4, <1>5, <1>6, <1>7, <1>8, <1>9 DEF Next, Step

\* The files of the evaluation are a ledger: whatever runs with whatever limits
\* follow each other and wherever they die, what the next one takes up has grown
\* by one finished episode, is as it was, or is lost as a whole.
THEOREM FilesAreALedger == Spec => ImplementsLedger
<1>1. Init => LedgerInv /\ Book!Init
  <2> SUFFICES ASSUME Init PROVE LedgerInv /\ Book!Init
    OBVIOUS
  <2>1. pc = "down" /\ continueFile = <<>>
    BY DEF Init
  <2>2. Newest = [no |-> 0, successes |-> 0, whole |-> TRUE]
    BY <2>1, NewestCases DEF NewestOf
  <2> QED
    BY <2>1, <2>2 DEF LedgerInv, Book!Init
<1>2. TypeOK /\ LedgerInv /\ [Next]_vars => LedgerInv' /\ [Book!Next]_(Book!vars)
  BY LedgerStep
<1> QED
  BY <1>1, <1>2, TypeCorrect, PTL DEF Spec, ImplementsLedger, Book!Spec
=============================================================================
