---------------------------- MODULE CorpusIndex ----------------------------
(***************************************************************************)
(* `arbot index -w` (internal/cli/index.go): runs that add the rulings of  *)
(* the blocks after those that the corpus is indexed up to, one file each, *)
(* and then move the index.                                                *)
(*                                                                         *)
(* A run can crash or fail at any point. os.WriteFile truncates a file and *)
(* then writes it, so what it leaves then may be a truncated file. A file  *)
(* is either what the run would write, or differs from it, and which of    *)
(* the two doesn't depend on when it was indexed: for final blocks, that   *)
(* is RulingsOfFinalBlocks of Safenet.                                     *)
(***************************************************************************)
EXTENDS Integers, FiniteSets

CONSTANTS
  Rulings,        \* the rulings, as numbers in the order they were recorded
  RulingBlock,    \* the block of each ruling
  LastBlock,      \* bound: the last block of the chain
  Runs,           \* the runs that may be in progress at a time
  Setups,         \* the ways in which the command may be run
  MaxFaults,      \* bound: how many runs crash or fail, in each setup
  MaxEdits        \* bound: how many corpus files someone changes, in each setup

ASSUME CorpusAssumption ==
  /\ Rulings \subseteq Nat
  /\ LastBlock \in Nat
  /\ RulingBlock \in [Rulings -> 1 .. LastBlock]

ASSUME SetupAssumption ==
  /\ Setups \subseteq {"workflow", "one at a time", "overlapping"}
  /\ MaxFaults \in [Setups -> Nat] /\ MaxEdits \in [Setups -> Nat]

VARIABLES
  setup,              \* how the command is run
  latest, finalized,  \* the latest block, and the latest finalized one
  files,              \* the file of each ruling in the corpus directory
  index,              \* the block in the corpus's index.json
  pushed,             \* the files and the index that were pushed last
  pc,                 \* where each run is, "idle" if it isn't in progress
  idx,                \* the index that the run read
  upTo,               \* the block that the run indexes up to
  entries,            \* the rulings that the run read
  todo,               \* the rulings whose files the run is yet to write
  faults, edits,      \* how many runs failed, and how many files were changed
  conflict,           \* the files that the last check refused
  highest             \* history: the highest index that was written

chain == <<latest, finalized>>
corpus == <<files, index>>
run == <<idx, upTo, entries, todo>>
counts == <<faults, edits, conflict, highest>>
changing == <<chain, corpus, pushed, pc, run, counts>>
vars == <<setup, changing>>

\* Each run starts from the corpus that was pushed last, and pushes its own, as
\* .github/workflows/index.yml does.
FreshCheckout == setup = "workflow"

\* Runs overlap in one directory, which that workflow's concurrency group rules out.
Overlap == setup = "overlapping"

\* Runs are started with -block, or without -w.
ByHand == setup # "workflow"

\* An index.json that was truncated and can't be read.
Damaged == -1

Steps == {"idle", "index", "block", "rulings", "check", "write", "writing",
          "writing index", "push"}

Init ==
  /\ setup \in Setups
  /\ latest = 0 /\ finalized = 0
  /\ files = [r \in Rulings |-> "absent"]
  /\ index = 0
  /\ pushed = [files |-> files, index |-> index]
  /\ pc = [p \in Runs |-> "idle"]
  /\ idx = [p \in Runs |-> 0]
  /\ upTo = [p \in Runs |-> 0]
  /\ entries = [p \in Runs |-> {}]
  /\ todo = [p \in Runs |-> {}]
  /\ faults = 0 /\ edits = 0
  /\ conflict = {}
  /\ highest = 0

Goto(p, step) == pc' = [pc EXCEPT ![p] = step]

\* Ruling r is the first one of S.
First(r, S) == r \in S /\ \A s \in S : r <= s

\* If runs don't overlap, one of Runs stands for them all.
OnlyRun == CHOOSE p \in Runs : TRUE

\* A run starts, in a checkout of its own or in the directory as it is.
Start(p) ==
  /\ pc[p] = "idle"
  /\ Overlap \/ (p = OnlyRun /\ \A q \in Runs : pc[q] = "idle")
  /\ Goto(p, "index")
  /\ IF FreshCheckout
     THEN files' = pushed.files /\ index' = pushed.index
     ELSE UNCHANGED corpus
  /\ UNCHANGED <<chain, pushed, run, counts>>

\* ReadIndex, which fails if the index is damaged.
ReadIndex(p) ==
  /\ pc[p] = "index"
  /\ IF index = Damaged
     THEN Goto(p, "idle") /\ UNCHANGED idx
     ELSE Goto(p, "block") /\ idx' = [idx EXCEPT ![p] = index]
  /\ UNCHANGED <<chain, corpus, pushed, upTo, entries, todo, counts>>

\* Mutant: a corpus can be indexed backwards.
TooEarlyNever(p, b) == FALSE

TooEarly(p, b) == b < idx[p]

\* The block to index up to: -block, or the latest finalized one.
ChooseBlock(p) ==
  /\ pc[p] = "block"
  /\ \E b \in 0 .. latest :
       /\ b = finalized \/ (ByHand /\ b > 0)
       /\ IF TooEarly(p, b)
          THEN Goto(p, "idle") /\ UNCHANGED upTo
          ELSE Goto(p, "rulings") /\ upTo' = [upTo EXCEPT ![p] = b]
  /\ UNCHANGED <<chain, corpus, pushed, idx, entries, todo, counts>>

\* Mutant: the range starts a block too late.
NewRulingsLate(p) == {r \in Rulings : idx[p] + 1 < RulingBlock[r] /\ RulingBlock[r] <= upTo[p]}

\* The rulings after the index, up to the run's block.
NewRulings(p) == {r \in Rulings : idx[p] < RulingBlock[r] /\ RulingBlock[r] <= upTo[p]}

\* Rulings, and the Charter and document of each. If one of them can't be had,
\* the run fails before it has written anything.
ReadRulings(p) ==
  /\ pc[p] = "rulings"
  /\ entries' = [entries EXCEPT ![p] = NewRulings(p)]
  /\ Goto(p, "check")
  /\ UNCHANGED <<chain, corpus, pushed, idx, upTo, todo, counts>>

\* Mutant: files that are there aren't compared.
ChangedNever(p) == {}

\* The files that are there, with other content.
Changed(p) == {r \in entries[p] : files[r] \in {"truncated", "edited"}}

\* The files that aren't there.
Missing(p) == {r \in entries[p] : files[r] = "absent"}

\* Mutant: files with other content are written again.
CheckFilesOverwrites(p) ==
  /\ pc[p] = "check"
  /\ Goto(p, "write")
  /\ todo' = [todo EXCEPT ![p] = Missing(p) \cup Changed(p)]
  /\ UNCHANGED <<chain, corpus, pushed, idx, upTo, entries, counts>>

\* Every file is checked before any is written.
CheckFiles(p) ==
  /\ pc[p] = "check"
  /\ IF Changed(p) # {}
     THEN /\ Goto(p, "idle")
          /\ conflict' = Changed(p)
          /\ UNCHANGED todo
     ELSE /\ Goto(p, "write")
          /\ conflict' = {}
          /\ todo' = [todo EXCEPT ![p] = Missing(p)]
  /\ UNCHANGED <<chain, corpus, pushed, idx, upTo, entries, faults, edits, highest>>

\* Without -w, the files are only printed.
PrintFiles(p) ==
  /\ pc[p] = "check" /\ ByHand
  /\ Goto(p, "idle")
  /\ UNCHANGED <<chain, corpus, pushed, run, counts>>

\* The next file to write is truncated, and then written.
TruncateFile(p) ==
  /\ pc[p] = "write"
  /\ \E r \in Rulings : First(r, todo[p]) /\ files' = [files EXCEPT ![r] = "truncated"]
  /\ Goto(p, "writing")
  /\ UNCHANGED <<chain, index, pushed, run, counts>>

WriteFile(p) ==
  /\ pc[p] = "writing"
  /\ \E r \in Rulings :
       /\ First(r, todo[p])
       /\ files' = [files EXCEPT ![r] = "complete"]
       /\ todo' = [todo EXCEPT ![p] = @ \ {r}]
  /\ Goto(p, "write")
  /\ UNCHANGED <<chain, index, pushed, idx, upTo, entries, counts>>

\* Mutant: the index isn't written last.
IndexDueAnytime(p) == TRUE

\* The index is written last.
IndexDue(p) == todo[p] = {}

TruncateIndex(p) ==
  /\ pc[p] = "write" /\ IndexDue(p)
  /\ index' = Damaged
  /\ Goto(p, "writing index")
  /\ UNCHANGED <<chain, files, pushed, run, counts>>

WriteIndex(p) ==
  /\ pc[p] = "writing index"
  /\ index' = upTo[p]
  /\ highest' = IF upTo[p] > highest THEN upTo[p] ELSE highest
  /\ Goto(p, IF FreshCheckout THEN "push" ELSE "idle")
  /\ UNCHANGED <<chain, files, pushed, run, faults, edits, conflict>>

\* The workflow commits and pushes the corpus of a run that succeeded.
Push(p) ==
  /\ pc[p] = "push"
  /\ pushed' = [files |-> files, index |-> index]
  /\ Goto(p, "idle")
  /\ UNCHANGED <<chain, corpus, run, counts>>

\* A call or a write fails, or the process or the job is killed.
Crash(p) ==
  /\ pc[p] # "idle"
  /\ faults < MaxFaults[setup]
  /\ faults' = faults + 1
  /\ Goto(p, "idle")
  /\ UNCHANGED <<chain, corpus, pushed, run, edits, conflict, highest>>

\* Someone changes a corpus file.
Edit ==
  /\ edits < MaxEdits[setup]
  /\ edits' = edits + 1
  /\ \E r \in Rulings :
       /\ files[r] = "complete"
       /\ files' = [files EXCEPT ![r] = "edited"]
  /\ UNCHANGED <<chain, index, pushed, pc, run, faults, conflict, highest>>

NewBlock ==
  /\ latest < LastBlock
  /\ latest' = latest + 1
  /\ UNCHANGED <<finalized, corpus, pushed, pc, run, counts>>

FinalizeBlock ==
  /\ finalized < latest
  /\ finalized' = finalized + 1
  /\ UNCHANGED <<latest, corpus, pushed, pc, run, counts>>

Proceed(p) ==
  \/ Start(p) \/ ReadIndex(p) \/ ChooseBlock(p) \/ ReadRulings(p) \/ CheckFiles(p)
  \/ TruncateFile(p) \/ WriteFile(p) \/ TruncateIndex(p) \/ WriteIndex(p) \/ Push(p)

Next ==
  /\ UNCHANGED setup
  /\ \/ \E p \in Runs : Proceed(p) \/ PrintFiles(p) \/ Crash(p)
     \/ Edit \/ NewBlock \/ FinalizeBlock

Spec == Init /\ [][Next]_vars

\* The workflow runs hourly, a step of a run that doesn't fail ends, and blocks
\* are finalized.
FairSpec ==
  /\ Spec
  /\ \A p \in Runs : WF_changing(Proceed(p))
  /\ WF_changing(NewBlock) /\ WF_changing(FinalizeBlock)
-----------------------------------------------------------------------------
FileStates == {"absent", "truncated", "complete", "edited"}
Indexes == 0 .. LastBlock \cup {Damaged}

TypeOK ==
  /\ setup \in Setups
  /\ latest \in 0 .. LastBlock /\ finalized \in 0 .. latest
  /\ files \in [Rulings -> FileStates]
  /\ index \in Indexes
  /\ pushed \in [files : [Rulings -> FileStates], index : Indexes]
  /\ pc \in [Runs -> Steps]
  /\ idx \in [Runs -> 0 .. LastBlock]
  /\ upTo \in [Runs -> 0 .. LastBlock]
  /\ entries \in [Runs -> SUBSET Rulings]
  /\ todo \in [Runs -> SUBSET Rulings]
  /\ faults \in 0 .. MaxFaults[setup] /\ edits \in 0 .. MaxEdits[setup]
  /\ conflict \subseteq Rulings /\ highest \in 0 .. LastBlock
  /\ \A p \in Runs : pc[p] \in {"rulings", "check", "write", "writing"} => idx[p] <= upTo[p]

\* The rulings that an index covers have files, which at most someone changed.
Covers(i, fs) == \A r \in Rulings : RulingBlock[r] <= i => fs[r] \in {"complete", "edited"}

\* If runs don't overlap, the index never covers a ruling whose file wasn't
\* written, wherever runs fail, and neither does the one that was pushed.
CorpusCovered == Covers(index, files) /\ Covers(pushed.index, pushed.files)

\* See CorpusCovered: with runs that overlap, the index can be ahead for a while,
\* and OverlapHarmless is what holds of them.
IndexNeverAhead == ~Overlap => CorpusCovered

\* In a directory that is kept, if runs don't overlap, the corpus is never indexed
\* backwards: an index that can be read is the highest one that was written.
NeverBackwards == setup = "one at a time" => index \in {Damaged, highest}

\* If runs don't overlap, a file that is complete is never written again, and
\* what someone changed in a corpus file is never lost.
NeverOverwrites ==
  [][~FreshCheckout /\ ~Overlap =>
       \A r \in Rulings :
         files[r] \in {"complete", "edited"} => files'[r] \in {files[r], "edited"}]_files

\* Runs that do overlap leave a corpus whose index isn't ahead of its files,
\* once they all ended, if none of them fails.
OverlapHarmless ==
  faults = 0 /\ (\A p \in Runs : pc[p] = "idle") => Covers(index, files)

\* With the workflow, every ruling gets into the corpus that is pushed, whatever
\* fails, as long as some runs don't.
EventuallyIndexed ==
  \A r \in Rulings :
    <>[](FreshCheckout =>
           RulingBlock[r] <= pushed.index /\ pushed.files[r] \in {"complete", "edited"})

\* A run only refuses to go on because of a file that someone changed: as the
\* comment on the check has it, a file that is already there was indexed before,
\* and one that isn't the same was changed since.
ConflictsWereEdited == conflict # {} => edits > 0
=============================================================================
