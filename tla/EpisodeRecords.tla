--------------------------- MODULE EpisodeRecords ---------------------------
(***************************************************************************)
(* The results of an evaluation, kept across runs of the evaluator.        *)
(* habitat_evaluation.py counts the episodes it finishes in two text       *)
(* files: the record file, for the reader, and the continue file, from     *)
(* which the next run takes its totals and the episode to go on with.      *)
(* The evaluator may die at any point: Ctrl+C and every exception end in   *)
(* os._exit.                                                               *)
(*                                                                         *)
(* A file is the sequence of its entries, newest first; the entry at which *)
(* an interrupted write stopped is not whole.  A file that does not exist  *)
(* is read like an empty one.                                              *)
(***************************************************************************)
EXTENDS Integers, Sequences, FiniteSets

CONSTANTS
  Dataset,      \* number of episodes of the dataset
  EvalLimits,   \* values of eval_episode_limit the operator starts with; 0: none
  Results,      \* result texts of an episode
  MaxCrashes    \* bound on the deaths of the evaluator

ASSUME DatasetAssumption == Dataset \in Nat \ {0}
ASSUME LimitsAssumption == EvalLimits \subseteq Nat
ASSUME ResultsAssumption == "success" \in Results
ASSUME CrashesAssumption == MaxCrashes \in Nat

VARIABLES
  pc,            \* where the evaluator is; "down" when no evaluator runs
  recordFile, continueFile,
  content,       \* updated_content of the write_record call under way
  videos,        \* the videos on disk: number and result folder
  limit,         \* eval_episode_limit of this run
  needVideo,     \* need_video of this run
  numTotal, numSuccess,   \* num_total, num_success
  cursor,        \* index of env.current_episode in the dataset
  result,        \* result_text of the episode just finished
  finished,      \* history: episodes in the continue file when last closed
  done,          \* history: the numbers of the episodes some run finished
  unfilmed,      \* history: successes finished by runs that save no videos
  torn,          \* history: the evaluator died inside a write
  crashes

files == <<recordFile, continueFile, content, videos>>
memory == <<limit, needVideo, numTotal, numSuccess, cursor, result>>
past == <<done, unfilmed>>
history == <<finished, past, torn, crashes>>
vars == <<pc, files, memory, history>>

Places == {"down", "episode", "record", "recordOpen", "continue", "continueOpen", "publish"}

Entry == [no : Nat, successes : Nat, result : Results, episode : 0 .. Dataset - 1,
          whole : BOOLEAN]

TypeOK ==
  /\ pc \in Places
  /\ recordFile \in Seq(Entry) /\ continueFile \in Seq(Entry) /\ content \in Seq(Entry)
  /\ videos \subseteq [no : Nat, result : Results]
  /\ limit \in EvalLimits \cup {0} /\ needVideo \in BOOLEAN
  /\ numTotal \in Nat /\ numSuccess \in Nat
  /\ cursor \in 0 .. Dataset - 1
  /\ result \in Results
  /\ finished \in Nat /\ done \subseteq Nat /\ unfilmed \in Nat
  /\ torn \in BOOLEAN /\ crashes \in 0 .. MaxCrashes

Init ==
  /\ pc = "down"
  /\ recordFile = <<>> /\ continueFile = <<>> /\ content = <<>>
  /\ videos = {}
  /\ limit = 0 /\ needVideo = FALSE
  /\ numTotal = 0 /\ numSuccess = 0 /\ cursor = 0 /\ result = "success"
  /\ finished = 0 /\ done = {} /\ unfilmed = 0 /\ torn = FALSE /\ crashes = 0

\* number_of_episodes of a run started with this limit.
NumberOfEpisodes(l) == IF l > 0 THEN l ELSE Dataset

\* A reader that makes do with what an interrupted write left of a block.
ReadableInPart(file) == TRUE

\* A pattern that does not match what write_record prints.
ReadableIfEmpty(file) == file = <<>>

\* The block read_record parses is the topmost one; a block that is not whole
\* lacks a field, so that re.search(...).group raises and the run ends.
Readable(file) == file # <<>> => Head(file).whole
\* A restart that takes the topmost block for the episode under way.
ReadTotalAndNext(file) == IF file = <<>> THEN 0 ELSE Head(file).no + 1

\* A restart that reads the bottommost block.
ReadTotalOfOldest(file) == IF file = <<>> THEN 0 ELSE file[Len(file)].no

ReadTotal(file) == IF file = <<>> THEN 0 ELSE Head(file).no
\* Successes that are not restored.
ReadNoSuccesses(file) == 0

ReadSuccesses(file) == IF file = <<>> THEN 0 ELSE Head(file).successes

\* A fast-forward past the end of the dataset.
EpisodesToSkipWithoutCycle(n) == n

\* A fast-forward that stops on the last finished episode.
EpisodesToSkipButOne(n) == IF n = 0 THEN 0 ELSE (n - 1) % Dataset

\* The number of episodes a run has to skip to go on after the n-th.
EpisodesToSkip(n) == n % Dataset

\* main up to the loop: it gives up when it cannot read the continue file or
\* when all episodes are finished.  The operator sets limit and need_video anew.
Start(l, v) ==
  /\ pc = "down"
  /\ Readable(continueFile)
  /\ ReadTotal(continueFile) < NumberOfEpisodes(l)
  /\ pc' = "episode"
  /\ limit' = l /\ needVideo' = v
  /\ numTotal' = ReadTotal(continueFile)
  /\ numSuccess' = ReadSuccesses(continueFile)
  /\ cursor' = EpisodesToSkip(ReadTotal(continueFile))
  /\ UNCHANGED <<files, result, history>>

\* 1 for a success, as it is added to num_success.
Gain(r) == IF r = "success" THEN 1 ELSE 0

\* An episode ends with result r; its totals are updated and, if the run is to
\* save videos, its video is.
FinishEpisode(r) ==
  /\ pc = "episode"
  /\ pc' = "record"
  /\ result' = r
  /\ numTotal' = numTotal + 1
  /\ numSuccess' = numSuccess + Gain(r)
  /\ videos' = IF needVideo THEN videos \cup {[no |-> numTotal + 1, result |-> r]} ELSE videos
  /\ done' = done \cup {numTotal + 1}
  /\ unfilmed' = IF needVideo THEN unfilmed ELSE unfilmed + Gain(r)
  /\ UNCHANGED <<recordFile, continueFile, content, limit, needVideo, cursor,
                 finished, torn, crashes>>

ThisEpisode ==
  [no |-> numTotal, successes |-> numSuccess, result |-> result, episode |-> cursor,
   whole |-> TRUE]

\* updated_content of write_record: the new block before the existing ones.
Updated(file) == <<ThisEpisode>> \o file

\* A record file that is opened without its existing content being kept.
OpenRecordAnew ==
  /\ pc = "record"
  /\ pc' = "recordOpen"
  /\ content' = <<ThisEpisode>>
  /\ recordFile' = <<>>
  /\ UNCHANGED <<continueFile, videos, memory, history>>

\* write_record on the record file: it is read, then open(..., "w") empties it.
OpenRecord ==
  /\ pc = "record"
  /\ pc' = "recordOpen"
  /\ content' = Updated(recordFile)
  /\ recordFile' = <<>>
  /\ UNCHANGED <<continueFile, videos, memory, history>>

WriteRecord ==
  /\ pc = "recordOpen"
  /\ pc' = "continue"
  /\ recordFile' = content
  /\ UNCHANGED <<continueFile, content, videos, memory, history>>

\* write_record on the continue file.
OpenContinue ==
  /\ pc = "continue"
  /\ pc' = "continueOpen"
  /\ content' = Updated(continueFile)
  /\ continueFile' = <<>>
  /\ UNCHANGED <<recordFile, videos, memory, history>>

WriteContinue ==
  /\ pc = "continueOpen"
  /\ pc' = "publish"
  /\ continueFile' = content
  /\ finished' = numTotal
  /\ UNCHANGED <<recordFile, content, videos, memory, past, torn, crashes>>

\* The end of the loop body: the next episode of the iterator, which raises at
\* the end of the dataset unless a limit made it cycle.
NextEpisode ==
  /\ pc = "publish"
  /\ \/ /\ cursor < Dataset - 1 \/ limit > 0
        /\ cursor' = (cursor + 1) % Dataset
        /\ pc' = IF numTotal < NumberOfEpisodes(limit) THEN "episode" ELSE "down"
     \/ /\ cursor = Dataset - 1 /\ limit = 0
        /\ cursor' = cursor
        /\ pc' = "down"
  /\ UNCHANGED <<files, limit, needVideo, numTotal, numSuccess, result, history>>

\* What a file holds when the write of c stops after k blocks, the last of
\* them whole or not.
Stopped(c, k, w) == [i \in 1 .. k |-> IF i = k THEN [c[i] EXCEPT !.whole = w /\ @] ELSE c[i]]

\* The evaluator dies between two steps ...
Crash ==
  /\ pc \in {"episode", "record", "continue", "publish"} /\ crashes < MaxCrashes
  /\ pc' = "down"
  /\ crashes' = crashes + 1
  /\ UNCHANGED <<files, memory, finished, past, torn>>

\* ... or with a file open, of which any part may have reached the disk.
CrashInWrite(k, w) ==
  /\ pc \in {"recordOpen", "continueOpen"} /\ crashes < MaxCrashes
  /\ k \in 0 .. Len(content)
  /\ pc' = "down"
  /\ recordFile' = IF pc = "recordOpen" THEN Stopped(content, k, w) ELSE recordFile
  /\ continueFile' = IF pc = "continueOpen" THEN Stopped(content, k, w) ELSE continueFile
  /\ torn' = TRUE
  /\ crashes' = crashes + 1
  /\ UNCHANGED <<content, videos, memory, finished, past>>

Step ==
  \/ \E r \in Results : FinishEpisode(r)
  \/ OpenRecord \/ WriteRecord \/ OpenContinue \/ WriteContinue \/ NextEpisode

Next ==
  \/ \E l \in EvalLimits, v \in BOOLEAN : Start(l, v)
  \/ Step
  \/ Crash
  \/ \E k \in 0 .. Len(content), w \in BOOLEAN : CrashInWrite(k, w)

Spec == Init /\ [][Next]_vars

\* A run that is up goes on, and the operator starts a new one when it can.
FairSpec ==
  /\ Spec
  /\ WF_vars(Step)
  /\ WF_vars(\E l \in EvalLimits, v \in BOOLEAN : Start(l, v))

-----------------------------------------------------------------------------
\* The blocks of the continue file are numbered one by one, newest first, and
\* each counts the successes of the one below and its own (write_record's calls
\* and read_record agree across any number of restarts).  The record file is
\* not so: a death between the two writes makes the next run repeat a number.
NewestFirst(file) ==
  \A i \in 1 .. Len(file) - 1 :
    /\ file[i].no = file[i + 1].no + 1
    /\ file[i].successes = file[i + 1].successes + Gain(file[i].result)
ContinueIsARunningTotal == NewestFirst(continueFile)

\* Block n of either file is about episode n - 1 of the dataset, however often
\* the evaluator was restarted and with whatever limit: no episode is skipped
\* by the fast-forward of habitat_evaluation.py:282-287.
NumberedByDataset(file) == \A i \in 1 .. Len(file) : file[i].episode = (file[i].no - 1) % Dataset
EachNumberIsItsEpisode == NumberedByDataset(recordFile) /\ NumberedByDataset(continueFile)

\* Whatever the continue file counts, the record file describes: the record
\* file is written first, so a crash between the two writes repeats an episode
\* in it but never loses one.
Open == pc \in {"recordOpen", "continueOpen"}
RecordDescribesWhatIsCounted ==
  ~torn /\ ~Open =>
    \A i \in 1 .. Len(continueFile) : \E j \in 1 .. Len(recordFile) : recordFile[j] = continueFile[i]

\* The folder counts that are published exceed the totals by at most the
\* episodes redone after a death, in all and for the successes; and they miss no
\* success but those of runs with need_video off (habitat_evaluation.py:583).
VideosMatchTotals ==
  ~torn /\ pc # "down" =>
    /\ Cardinality(videos) <= numTotal + crashes
    /\ LET found == Cardinality({v \in videos : v.result = "success"})
       IN numSuccess <= found + unfilmed /\ found <= numSuccess + crashes

\* A run never goes on after an episode that no run finished, torn files or not.
NeverSkipsAnEpisode == pc # "down" => 1 .. numTotal \subseteq done

\* Outside a torn write, a run resumes from every episode whose totals reached
\* the continue file.
ResumesFromAllCounted == pc # "down" /\ ~torn => numTotal >= finished

\* read_record.py:23 "num_total: Total number of episodes completed".
ResumesFromAllCompleted == pc # "down" => numTotal >= finished

\* The evaluation gets to the end of the dataset however often the evaluator
\* dies, as long as it is started again and dies outside a write.
EvaluationFinishes == <>(torn \/ finished >= Dataset)

-----------------------------------------------------------------------------
(* Refinement: the files implement Ledger. *)

\* The continue file as it was before the write under way.
Last == IF pc = "continueOpen" THEN Tail(content) ELSE continueFile

\* The entry the totals of the next run come from.
Newest ==
  IF Last = <<>> THEN [no |-> 0, successes |-> 0, whole |-> TRUE] ELSE Head(Last)

Book == INSTANCE Ledger WITH
  total <- Newest.no, successes <- Newest.successes, legible <- Newest.whole

\* Over all runs of the evaluator, what the next one takes up grows by the
\* episode just finished, with the success it was or was not; only a death
\* inside the write of the continue file can lose the totals, and then all of
\* them at once.
ImplementsLedger == Book!Spec
=============================================================================
