-------------------------- MODULE CorpusIndexProofs --------------------------
(***************************************************************************)
(* Unless runs overlap, the index of the corpus never covers a ruling      *)
(* whose file wasn't written, no file that is whole is written again, and  *)
(* the index never goes back, whatever the rulings are, and wherever and   *)
(* however often runs crash. Runs that do overlap, and that all end, leave *)
(* an index that covers no ruling without a file.                          *)
(***************************************************************************)
EXTENDS CorpusIndex, TLAPS

\* At most one run is in progress.
Exclusive == \A p, q \in Runs : pc[p] # "idle" /\ pc[q] # "idle" => p = q

\* While run p is in progress, and until it writes the index, the index is the
\* one that it read. What it has read are the rulings after the index up to its
\* block, and those that it doesn't have to write any more have files.
InProgress(p) ==
  /\ pc[p] \in {"block", "rulings", "check", "write", "writing"} => index = idx[p]
  /\ pc[p] \in {"check", "write", "writing"} => entries[p] = NewRulings(p)
  /\ pc[p] \in {"write", "writing"} =>
       /\ todo[p] \subseteq entries[p]
       /\ \A r \in entries[p] \ todo[p] : files[r] \in {"complete", "edited"}
  /\ pc[p] = "writing index" => Covers(upTo[p], files)

\* The inductive invariant, of runs that don't overlap.
SInv == TypeOK /\ Exclusive /\ (\A p \in Runs : InProgress(p)) /\ CorpusCovered

\* The inductive invariant, of all runs.
IInv == TypeOK /\ (~Overlap => SInv)

LEMMA Blocks ==
  /\ LastBlock \in Nat
  /\ \A r \in Rulings : RulingBlock[r] \in Nat /\ RulingBlock[r] >= 1
BY CorpusAssumption

LEMMA Bounds == \A s \in Setups : MaxFaults[s] \in Nat /\ MaxEdits[s] \in Nat
BY SetupAssumption

\* An index that covers no ruling, as it is damaged or as it is 0.
LEMMA CoversNothing ==
  ASSUME NEW i \in Int, i <= 0, NEW fs
  PROVE  Covers(i, fs)
BY Blocks DEF Covers

LEMMA InitSInv == Init => SInv
<1> SUFFICES ASSUME Init PROVE SInv
  OBVIOUS
<1>1. TypeOK
  BY Blocks, Bounds DEF Init, TypeOK, FileStates, Indexes, Damaged, Steps
<1>2. Exclusive /\ \A p \in Runs : InProgress(p)
  BY DEF Init, Exclusive, InProgress
<1>3. CorpusCovered
  BY CoversNothing DEF Init, CorpusCovered
<1>. QED BY <1>1, <1>2, <1>3 DEF SInv

\* Every step preserves the types.
LEMMA NextTypeOK == TypeOK /\ [Next]_vars => TypeOK'
<1> SUFFICES ASSUME TypeOK, [Next]_vars PROVE TypeOK'
  OBVIOUS
<1>0. setup' = setup
  BY DEF TypeOK, Next, vars
<1> USE <1>0 DEF TypeOK, Goto
<1>1. ASSUME NEW p \in Runs, Start(p) PROVE TypeOK'
  BY <1>1 DEF Start, chain, run, counts, corpus, Steps
<1>2. ASSUME NEW p \in Runs, ReadIndex(p) PROVE TypeOK'
  BY <1>2 DEF ReadIndex, chain, corpus, counts, Steps, Indexes, Damaged
<1>3. ASSUME NEW p \in Runs, ChooseBlock(p) PROVE TypeOK'
  <2>1. PICK b \in 0 .. latest :
          IF TooEarly(p, b)
          THEN Goto(p, "idle") /\ UNCHANGED upTo
          ELSE Goto(p, "rulings") /\ upTo' = [upTo EXCEPT ![p] = b]
    BY <1>3 DEF ChooseBlock
  <2>2. b \in 0 .. LastBlock /\ idx[p] \in 0 .. LastBlock
    BY Blocks
  <2>3. UNCHANGED <<chain, corpus, pushed, idx, entries, todo, counts>>
    BY <1>3 DEF ChooseBlock
  <2>4. CASE TooEarly(p, b)
    BY <2>1, <2>3, <2>4 DEF chain, corpus, counts, Steps
  <2>5. CASE ~TooEarly(p, b)
    <3>1. idx[p] <= b
      BY <2>2, <2>5, Blocks DEF TooEarly
    <3>2. pc' = [pc EXCEPT ![p] = "rulings"] /\ upTo' = [upTo EXCEPT ![p] = b]
      BY <2>1, <2>5
    <3>. QED
      BY <2>2, <2>3, <3>1, <3>2 DEF chain, corpus, counts, Steps
  <2>. QED BY <2>4, <2>5
<1>4. ASSUME NEW p \in Runs, ReadRulings(p) PROVE TypeOK'
  <2>1. NewRulings(p) \subseteq Rulings
    BY DEF NewRulings
  <2>2. pc' = [pc EXCEPT ![p] = "check"] /\ pc[p] = "rulings"
    BY <1>4 DEF ReadRulings
  <2>3. \A q \in Runs :
          pc'[q] \in {"rulings", "check", "write", "writing"} =>
            pc[q] \in {"rulings", "check", "write", "writing"}
    BY <2>2
  <2>. QED
    BY <1>4, <2>1, <2>2, <2>3 DEF ReadRulings, chain, corpus, counts, Steps
<1>5. ASSUME NEW p \in Runs, CheckFiles(p) PROVE TypeOK'
  <2>1. pc[p] = "check" /\ (Goto(p, "idle") \/ Goto(p, "write"))
    BY <1>5 DEF CheckFiles
  <2>2. Changed(p) \subseteq Rulings /\ Missing(p) \subseteq Rulings
    BY DEF Changed, Missing
  <2>3. \A q \in Runs :
          pc'[q] \in {"rulings", "check", "write", "writing"} =>
            pc[q] \in {"rulings", "check", "write", "writing"}
    BY <2>1
  <2>4. UNCHANGED <<chain, corpus, pushed, idx, upTo, entries, faults, edits, highest>>
    BY <1>5 DEF CheckFiles
  <2>5. conflict' \subseteq Rulings /\ todo' \in [Runs -> SUBSET Rulings]
    BY <1>5, <2>2 DEF CheckFiles
  <2>. QED
    BY <2>1, <2>3, <2>4, <2>5 DEF chain, corpus, Steps
<1>6. ASSUME NEW p \in Runs, TruncateFile(p) PROVE TypeOK'
  BY <1>6 DEF TruncateFile, chain, run, counts, Steps, FileStates
<1>7. ASSUME NEW p \in Runs, WriteFile(p) PROVE TypeOK'
  <2>1. pc[p] = "writing" /\ pc' = [pc EXCEPT ![p] = "write"]
    BY <1>7 DEF WriteFile
  <2>2. \A q \in Runs :
          pc'[q] \in {"rulings", "check", "write", "writing"} =>
            pc[q] \in {"rulings", "check", "write", "writing"}
    BY <2>1
  <2>3. files' \in [Rulings -> FileStates] /\ todo' \in [Runs -> SUBSET Rulings]
    BY <1>7 DEF WriteFile, FileStates
  <2>4. UNCHANGED <<chain, index, pushed, idx, upTo, entries, counts>>
    BY <1>7 DEF WriteFile
  <2>. QED
    BY <2>1, <2>2, <2>3, <2>4 DEF chain, counts, Steps
<1>8. ASSUME NEW p \in Runs, TruncateIndex(p) PROVE TypeOK'
  BY <1>8 DEF TruncateIndex, chain, run, counts, Steps, Indexes
<1>9. ASSUME NEW p \in Runs, WriteIndex(p) PROVE TypeOK'
  BY <1>9 DEF WriteIndex, chain, run, Steps, Indexes
<1>10. ASSUME NEW p \in Runs, Push(p) PROVE TypeOK'
  BY <1>10 DEF Push, chain, corpus, run, counts, Steps
<1>11. ASSUME NEW p \in Runs, PrintFiles(p) PROVE TypeOK'
  BY <1>11 DEF PrintFiles, chain, corpus, run, counts, Steps
<1>12. ASSUME NEW p \in Runs, Crash(p) PROVE TypeOK'
  <2>1. faults' \in 0 .. MaxFaults[setup]
    BY <1>12, Bounds DEF Crash
  <2>. QED
    BY <1>12, <2>1 DEF Crash, chain, corpus, run, Steps
<1>13. CASE Edit
  BY <1>13, Bounds DEF Edit, chain, run, FileStates
<1>14. CASE NewBlock \/ FinalizeBlock
  BY <1>14, Blocks DEF NewBlock, FinalizeBlock, corpus, run, counts
<1>15. CASE UNCHANGED vars
  BY <1>15 DEF vars, changing, chain, corpus, run, counts
<1>. QED
  BY <1>1, <1>2, <1>3, <1>4, <1>5, <1>6, <1>7, <1>8, <1>9, <1>10, <1>11, <1>12,
     <1>13, <1>14, <1>15 DEF Next, Proceed
-----------------------------------------------------------------------------
\* A step of the run that is in progress leaves all other runs idle, so it only
\* has to keep the invariant of the run itself.
LEMMA OneRun ==
  ASSUME TypeOK, Exclusive, NEW p \in Runs, NEW step \in Steps, Goto(p, step),
         \A q \in Runs \ {p} : pc[q] = "idle"
  PROVE  /\ Exclusive'
         /\ pc'[p] = step
         /\ \A q \in Runs \ {p} : InProgress(q)'
<1>1. \A q \in Runs \ {p} : pc'[q] = "idle"
  BY DEF Goto, TypeOK
<1>2. pc'[p] = step
  BY DEF Goto, TypeOK
<1>3. Exclusive'
  BY <1>1 DEF Exclusive
<1>4. \A q \in Runs \ {p} : InProgress(q)'
  BY <1>1 DEF InProgress
<1>. QED BY <1>2, <1>3, <1>4

\* Writing or changing a file keeps what an index covers covered.
LEMMA CoversKept ==
  ASSUME NEW i, NEW fs \in [Rulings -> FileStates], Covers(i, fs),
         NEW r \in Rulings, NEW s \in {"complete", "edited"}
  PROVE  Covers(i, [fs EXCEPT ![r] = s])
BY DEF Covers

\* Every step preserves the invariant, if runs don't overlap.
LEMMA NextSInv == ~Overlap /\ SInv /\ [Next]_vars => SInv'
<1> SUFFICES ASSUME ~Overlap, SInv, [Next]_vars PROVE SInv'
  OBVIOUS
<1>0. TypeOK /\ TypeOK'
  BY NextTypeOK DEF SInv
<1>1. ASSUME NEW p \in Runs, pc[p] # "idle"
      PROVE  \A q \in Runs \ {p} : pc[q] = "idle"
  BY <1>1 DEF SInv, Exclusive
<1>2. ASSUME NEW p \in Runs, NEW step \in Steps, Goto(p, step),
             \A q \in Runs \ {p} : pc[q] = "idle",
             pc'[p] = step => InProgress(p)', CorpusCovered'
      PROVE  SInv'
  BY <1>0, <1>2, OneRun DEF SInv
<1>3. ASSUME NEW p \in Runs, Start(p) PROVE SInv'
  <2>1. \A q \in Runs \ {p} : pc[q] = "idle"
    BY <1>3 DEF Start
  <2>2. Goto(p, "index") /\ "index" \in Steps
    BY <1>3 DEF Start, Steps
  <2>3. CorpusCovered'
    BY <1>3 DEF Start, SInv, CorpusCovered, corpus
  <2>4. pc'[p] = "index" => InProgress(p)'
    BY DEF InProgress
  <2>. QED BY <1>2, <2>1, <2>2, <2>3, <2>4
<1>4. ASSUME NEW p \in Runs, ReadIndex(p) PROVE SInv'
  <2>1. /\ \A q \in Runs \ {p} : pc[q] = "idle"
        /\ UNCHANGED <<corpus, pushed>>
    BY <1>1, <1>4 DEF ReadIndex
  <2>2. CorpusCovered'
    BY <2>1 DEF SInv, CorpusCovered, corpus
  <2>3. CASE index = Damaged
    <3>1. Goto(p, "idle") /\ "idle" \in Steps
      BY <1>4, <2>3 DEF ReadIndex, Steps
    <3>2. pc'[p] = "idle" => InProgress(p)'
      BY DEF InProgress
    <3>. QED BY <1>2, <2>1, <2>2, <3>1, <3>2
  <2>4. CASE index # Damaged
    <3>1. Goto(p, "block") /\ "block" \in Steps /\ idx'[p] = index /\ index' = index
      BY <1>0, <1>4, <2>4 DEF ReadIndex, Steps, TypeOK, corpus
    <3>2. pc'[p] = "block" => InProgress(p)'
      BY <3>1 DEF InProgress
    <3>. QED BY <1>2, <2>1, <2>2, <3>1, <3>2
  <2>. QED BY <2>3, <2>4
<1>5. ASSUME NEW p \in Runs, ChooseBlock(p) PROVE SInv'
  <2>1. /\ \A q \in Runs \ {p} : pc[q] = "idle"
        /\ UNCHANGED <<corpus, pushed>>
        /\ index' = idx'[p]
    BY <1>1, <1>5 DEF ChooseBlock, SInv, InProgress, corpus
  <2>2. CorpusCovered'
    BY <2>1 DEF SInv, CorpusCovered, corpus
  <2>3. PICK step \in {"idle", "rulings"} : Goto(p, step)
    BY <1>5 DEF ChooseBlock
  <2>4. step \in Steps /\ (pc'[p] = step => InProgress(p)')
    BY <2>1 DEF InProgress, Steps
  <2>. QED BY <1>2, <2>1, <2>2, <2>3, <2>4
<1>6. ASSUME NEW p \in Runs, ReadRulings(p) PROVE SInv'
  <2>1. /\ \A q \in Runs \ {p} : pc[q] = "idle"
        /\ Goto(p, "check") /\ "check" \in Steps
        /\ UNCHANGED <<corpus, pushed>>
    BY <1>1, <1>6 DEF ReadRulings, Steps
  <2>2. CorpusCovered'
    BY <2>1 DEF SInv, CorpusCovered, corpus
  <2>3. entries'[p] = NewRulings(p)' /\ index' = idx'[p]
    BY <1>0, <1>6 DEF ReadRulings, NewRulings, TypeOK, SInv, InProgress, corpus
  <2>4. pc'[p] = "check" => InProgress(p)'
    BY <2>3 DEF InProgress
  <2>. QED BY <1>2, <2>1, <2>2, <2>4
<1>7. ASSUME NEW p \in Runs, CheckFiles(p) PROVE SInv'
  <2>1. /\ \A q \in Runs \ {p} : pc[q] = "idle"
        /\ UNCHANGED <<corpus, pushed, idx, upTo, entries>>
        /\ entries[p] = NewRulings(p) /\ index = idx[p]
    BY <1>1, <1>7 DEF CheckFiles, SInv, InProgress
  <2>2. CorpusCovered'
    BY <2>1 DEF SInv, CorpusCovered, corpus
  <2>3. CASE Changed(p) # {}
    <3>1. Goto(p, "idle") /\ "idle" \in Steps
      BY <1>7, <2>3 DEF CheckFiles, Steps
    <3>2. pc'[p] = "idle" => InProgress(p)'
      BY DEF InProgress
    <3>. QED BY <1>2, <2>1, <2>2, <3>1, <3>2
  <2>4. CASE Changed(p) = {}
    <3>1. Goto(p, "write") /\ "write" \in Steps /\ todo'[p] = Missing(p)
      BY <1>0, <1>7, <2>4 DEF CheckFiles, Steps, TypeOK
    <3>2. entries[p] \subseteq Rulings /\ files \in [Rulings -> FileStates]
      BY <1>0 DEF TypeOK
    <3>3. \A r \in entries[p] \ Missing(p) : files[r] \in {"complete", "edited"}
      BY <2>4, <3>2 DEF Missing, Changed, FileStates
    <3>4. /\ todo'[p] \subseteq entries'[p]
          /\ \A r \in entries'[p] \ todo'[p] : files'[r] \in {"complete", "edited"}
      BY <2>1, <3>1, <3>3 DEF Missing, corpus
    <3>5. entries'[p] = NewRulings(p)' /\ index' = idx'[p]
      BY <2>1 DEF NewRulings, corpus
    <3>6. pc'[p] = "write" => InProgress(p)'
      BY <3>4, <3>5 DEF InProgress
    <3>. QED BY <1>2, <2>1, <2>2, <3>1, <3>6
  <2>. QED BY <2>3, <2>4
<1>8. ASSUME NEW p \in Runs, TruncateFile(p) PROVE SInv'
  <2>1. /\ \A q \in Runs \ {p} : pc[q] = "idle"
        /\ Goto(p, "writing") /\ "writing" \in Steps
        /\ UNCHANGED <<index, pushed, run>>
    BY <1>1, <1>8 DEF TruncateFile, Steps
  <2>2. /\ index = idx[p] /\ entries[p] = NewRulings(p) /\ todo[p] \subseteq entries[p]
        /\ \A s \in entries[p] \ todo[p] : files[s] \in {"complete", "edited"}
    BY <1>8 DEF TruncateFile, SInv, InProgress
  <2>3. PICK r \in Rulings : First(r, todo[p]) /\ files' = [files EXCEPT ![r] = "truncated"]
    BY <1>8 DEF TruncateFile
  <2>4. r \in todo[p] /\ ~(RulingBlock[r] <= index)
    <3>1. r \in todo[p] /\ idx[p] < RulingBlock[r]
      BY <2>2, <2>3 DEF First, NewRulings
    <3>2. idx[p] \in Nat /\ RulingBlock[r] \in Nat
      BY <1>0, Blocks DEF TypeOK
    <3>. QED BY <2>2, <3>1, <3>2
  <2>5. files \in [Rulings -> FileStates]
    BY <1>0 DEF TypeOK
  <2>6. CorpusCovered'
    BY <2>1, <2>3, <2>4, <2>5 DEF SInv, CorpusCovered, Covers
  <2>7. entries'[p] = NewRulings(p)' /\ index' = idx'[p]
    BY <2>1, <2>2 DEF NewRulings, run
  <2>8. /\ todo'[p] \subseteq entries'[p]
        /\ \A s \in entries'[p] \ todo'[p] : files'[s] \in {"complete", "edited"}
    <3>1. todo' = todo /\ entries' = entries /\ entries[p] \subseteq Rulings
      BY <1>0, <2>1 DEF run, TypeOK
    <3>2. \A s \in entries[p] \ todo[p] : files'[s] = files[s]
      BY <2>3, <2>4, <2>5, <3>1
    <3>. QED BY <2>2, <3>1, <3>2
  <2>9. pc'[p] = "writing" => InProgress(p)'
    BY <2>7, <2>8 DEF InProgress
  <2>. QED BY <1>2, <2>1, <2>6, <2>9
<1>9. ASSUME NEW p \in Runs, WriteFile(p) PROVE SInv'
  <2>1. /\ \A q \in Runs \ {p} : pc[q] = "idle"
        /\ Goto(p, "write") /\ "write" \in Steps
        /\ UNCHANGED <<index, pushed, idx, upTo, entries>>
    BY <1>1, <1>9 DEF WriteFile, Steps
  <2>2. /\ index = idx[p] /\ entries[p] = NewRulings(p) /\ todo[p] \subseteq entries[p]
        /\ \A s \in entries[p] \ todo[p] : files[s] \in {"complete", "edited"}
    BY <1>9 DEF WriteFile, SInv, InProgress
  <2>3. PICK r \in Rulings :
          /\ files' = [files EXCEPT ![r] = "complete"]
          /\ todo' = [todo EXCEPT ![p] = @ \ {r}]
    BY <1>9 DEF WriteFile
  <2>4. files \in [Rulings -> FileStates] /\ entries[p] \subseteq Rulings
        /\ todo'[p] = todo[p] \ {r}
    BY <1>0, <2>3 DEF TypeOK
  <2>5. CorpusCovered'
    BY <2>1, <2>3, <2>4, CoversKept DEF SInv, CorpusCovered
  <2>6. entries'[p] = NewRulings(p)' /\ index' = idx'[p]
    BY <2>1, <2>2 DEF NewRulings
  <2>7. /\ todo'[p] \subseteq entries'[p]
        /\ \A s \in entries'[p] \ todo'[p] : files'[s] \in {"complete", "edited"}
    BY <2>1, <2>2, <2>3, <2>4
  <2>8. pc'[p] = "write" => InProgress(p)'
    BY <2>6, <2>7 DEF InProgress
  <2>. QED BY <1>2, <2>1, <2>5, <2>8
<1>10. ASSUME NEW p \in Runs, TruncateIndex(p) PROVE SInv'
  <2>1. /\ \A q \in Runs \ {p} : pc[q] = "idle"
        /\ Goto(p, "writing index") /\ "writing index" \in Steps
        /\ UNCHANGED <<files, pushed, run>> /\ index' = Damaged
    BY <1>1, <1>10 DEF TruncateIndex, Steps
  <2>2. /\ index = idx[p] /\ entries[p] = NewRulings(p) /\ todo[p] = {}
        /\ \A s \in entries[p] : files[s] \in {"complete", "edited"}
    BY <1>10 DEF TruncateIndex, IndexDue, SInv, InProgress
  <2>3. Covers(upTo[p], files)
    <3> SUFFICES ASSUME NEW r \in Rulings, RulingBlock[r] <= upTo[p]
                 PROVE  files[r] \in {"complete", "edited"}
      BY DEF Covers
    <3>1. idx[p] \in Nat /\ RulingBlock[r] \in Nat
      BY <1>0, Blocks DEF TypeOK
    <3>2. CASE RulingBlock[r] <= idx[p]
      BY <2>2, <3>2 DEF SInv, CorpusCovered, Covers
    <3>3. CASE idx[p] < RulingBlock[r]
      BY <2>2, <3>3 DEF NewRulings
    <3>. QED BY <3>1, <3>2, <3>3
  <2>4. CorpusCovered'
    <3>1. Covers(Damaged, files')
      BY Blocks DEF Covers, Damaged
    <3>. QED BY <2>1, <3>1 DEF SInv, CorpusCovered
  <2>5. pc'[p] = "writing index" => InProgress(p)'
    BY <2>1, <2>3 DEF InProgress, run
  <2>. QED BY <1>2, <2>1, <2>4, <2>5
<1>11. ASSUME NEW p \in Runs, WriteIndex(p) PROVE SInv'
  <2>1. /\ \A q \in Runs \ {p} : pc[q] = "idle"
        /\ UNCHANGED <<files, pushed>> /\ index' = upTo[p]
        /\ Covers(upTo[p], files)
    BY <1>1, <1>11 DEF WriteIndex, SInv, InProgress
  <2>2. CorpusCovered'
    BY <2>1 DEF SInv, CorpusCovered
  <2>3. PICK step \in {"push", "idle"} : Goto(p, step)
    BY <1>11 DEF WriteIndex
  <2>4. step \in Steps /\ (pc'[p] = step => InProgress(p)')
    BY DEF Steps, InProgress
  <2>. QED BY <1>2, <2>1, <2>2, <2>3, <2>4
<1>12. ASSUME NEW p \in Runs, Push(p) \/ PrintFiles(p) \/ Crash(p) PROVE SInv'
  <2>1. /\ \A q \in Runs \ {p} : pc[q] = "idle"
        /\ UNCHANGED corpus /\ Goto(p, "idle") /\ "idle" \in Steps
    BY <1>1, <1>12 DEF Push, PrintFiles, Crash, Steps
  <2>2. CorpusCovered'
    BY <1>12, <2>1 DEF Push, PrintFiles, Crash, SInv, CorpusCovered, corpus
  <2>3. pc'[p] = "idle" => InProgress(p)'
    BY DEF InProgress
  <2>. QED BY <1>2, <2>1, <2>2, <2>3
<1>13. CASE Edit
  <2>1. PICK r \in Rulings : files[r] = "complete" /\ files' = [files EXCEPT ![r] = "edited"]
    BY <1>13 DEF Edit
  <2>2. UNCHANGED <<index, pushed, pc, idx, upTo, entries, todo>>
    BY <1>13 DEF Edit, run
  <2>3. files \in [Rulings -> FileStates]
    BY <1>0 DEF TypeOK
  <2>4. CorpusCovered'
    BY <2>1, <2>2, <2>3, CoversKept DEF SInv, CorpusCovered
  <2>5. ASSUME NEW p \in Runs PROVE InProgress(p)'
    <3>1. \A s \in Rulings : files[s] \in {"complete", "edited"} => files'[s] \in {"complete", "edited"}
      BY <2>1, <2>3
    <3>2. entries[p] \subseteq Rulings /\ NewRulings(p)' = NewRulings(p)
      BY <1>0, <2>2 DEF TypeOK, NewRulings
    <3>3. Covers(upTo[p], files) => Covers(upTo[p], files')
      BY <2>1, <2>3, CoversKept
    <3>. QED
      BY <2>2, <3>1, <3>2, <3>3 DEF SInv, InProgress
  <2>6. Exclusive'
    BY <2>2 DEF SInv, Exclusive
  <2>. QED BY <1>0, <2>4, <2>5, <2>6 DEF SInv
<1>14. CASE NewBlock \/ FinalizeBlock \/ UNCHANGED vars
  <2>1. UNCHANGED <<files, index, pushed, pc, idx, upTo, entries, todo>>
    BY <1>14 DEF NewBlock, FinalizeBlock, vars, changing, corpus, run
  <2>. QED
    BY <1>0, <2>1 DEF SInv, Exclusive, InProgress, NewRulings, CorpusCovered, Covers
<1>. QED
  BY <1>3, <1>4, <1>5, <1>6, <1>7, <1>8, <1>9, <1>10, <1>11, <1>12, <1>13, <1>14
  DEF Next, Proceed

\* Type correctness of the runs, whether they overlap or not.
THEOREM TypeCorrect == Spec => []TypeOK
<1>1. Init => TypeOK
  BY InitSInv DEF SInv
<1>. QED
  BY <1>1, NextTypeOK, PTL DEF Spec

\* Unless runs overlap, neither the index in the directory nor the one that was
\* pushed ever covers a ruling whose file wasn't written, however many runs crash,
\* and wherever.
THEOREM NeverAhead == Spec => []IndexNeverAhead
<1>1. Init => IInv
  BY InitSInv DEF IInv, SInv
<1>2. IInv /\ [Next]_vars => IInv'
  <2>1. [Next]_vars => setup' = setup
    BY DEF Next, vars
  <2>. QED
    BY <2>1, NextTypeOK, NextSInv DEF IInv, Overlap
<1>3. IInv => IndexNeverAhead
  BY DEF IInv, SInv, IndexNeverAhead
<1>. QED
  BY <1>1, <1>2, <1>3, PTL DEF Spec
-----------------------------------------------------------------------------
(* What runs that don't overlap never undo *)

Whole == {"complete", "edited"}

\* The files that a run is yet to write aren't whole, as it found them absent, and
\* nobody else has written them since.
Unwritten == \A p \in Runs : pc[p] \in {"write", "writing"} => \A r \in todo[p] : files[r] \notin Whole

\* The index is the highest that was written, and one that is about to be written
\* isn't lower.
Highest ==
  setup = "one at a time" =>
    /\ index \in {Damaged, highest}
    /\ \A p \in Runs : pc[p] = "writing index" => highest <= upTo[p]

\* The inductive invariant, of runs that don't overlap.
HInv == SInv /\ Unwritten /\ Highest

LEMMA InitHInv == Init => HInv
<1>1. Init => Unwritten /\ Highest
  BY DEF Init, Unwritten, Highest
<1>. QED BY <1>1, InitSInv DEF HInv

\* Only these actions change what the two parts are about.
LEMMA OtherSteps ==
  ASSUME HInv, setup' = setup, NEW p \in Runs,
         ReadIndex(p) \/ ChooseBlock(p) \/ ReadRulings(p) \/ Push(p) \/ PrintFiles(p) \/ Crash(p)
  PROVE  Unwritten' /\ Highest'
<1>1. /\ UNCHANGED <<files, index, todo, highest>>
      /\ \A q \in Runs : pc'[q] \in {"write", "writing", "writing index"} => pc'[q] = pc[q]
      /\ \A q \in Runs : pc[q] = "writing index" => upTo'[q] = upTo[q]
  <2>1. pc \in [Runs -> Steps] /\ upTo \in [Runs -> 0 .. LastBlock]
    BY DEF HInv, SInv, TypeOK
  <2>2. CASE ReadIndex(p)
    BY <2>1, <2>2 DEF ReadIndex, Goto, corpus, counts
  <2>3. CASE ChooseBlock(p)
    BY <2>1, <2>3 DEF ChooseBlock, Goto, corpus, counts
  <2>4. CASE ReadRulings(p)
    BY <2>1, <2>4 DEF ReadRulings, Goto, corpus, counts
  <2>5. CASE Push(p)
    BY <2>1, <2>5 DEF Push, Goto, corpus, run, counts
  <2>6. CASE PrintFiles(p)
    BY <2>1, <2>6 DEF PrintFiles, Goto, corpus, run, counts
  <2>7. CASE Crash(p)
    BY <2>1, <2>7 DEF Crash, Goto, corpus, run
  <2>. QED BY <2>2, <2>3, <2>4, <2>5, <2>6, <2>7
<1>2. Unwritten'
  BY <1>1 DEF HInv, Unwritten
<1>3. Highest'
  BY <1>1 DEF HInv, Highest
<1>. QED BY <1>2, <1>3

\* A run finds the files that it is to write absent.
LEMMA CheckKeeps ==
  ASSUME HInv, setup' = setup, NEW p \in Runs, CheckFiles(p)
  PROVE  Unwritten' /\ Highest'
<1>1. pc \in [Runs -> Steps] /\ todo \in [Runs -> SUBSET Rulings]
  BY DEF HInv, SInv, TypeOK
<1>2. UNCHANGED <<files, index, upTo, highest>>
  BY DEF CheckFiles, corpus
<1>3. /\ pc' \in {[pc EXCEPT ![p] = "idle"], [pc EXCEPT ![p] = "write"]}
      /\ todo' \in {todo, [todo EXCEPT ![p] = Missing(p)]}
      /\ pc' = [pc EXCEPT ![p] = "write"] => todo' = [todo EXCEPT ![p] = Missing(p)]
  BY <1>1 DEF CheckFiles, Goto
<1>4. \A r \in Missing(p) : files[r] \notin Whole
  BY DEF Missing, Whole
<1>5. Unwritten'
  BY <1>1, <1>2, <1>3, <1>4 DEF HInv, Unwritten
<1>6. Highest'
  BY <1>1, <1>2, <1>3 DEF HInv, Highest
<1>. QED BY <1>5, <1>6

\* A run writes a file that isn't whole, and after that not again.
LEMMA WriteKeeps ==
  ASSUME HInv, setup' = setup, NEW p \in Runs, TruncateFile(p) \/ WriteFile(p)
  PROVE  /\ Unwritten' /\ Highest'
         /\ \A r \in Rulings : files[r] \in Whole => files'[r] = files[r]
<1>1. /\ pc \in [Runs -> Steps] /\ todo \in [Runs -> SUBSET Rulings]
      /\ files \in [Rulings -> FileStates]
  BY DEF HInv, SInv, TypeOK
<1>2. \A q \in Runs \ {p} : pc[q] = "idle"
  BY DEF HInv, SInv, Exclusive, TruncateFile, WriteFile
<1>3. UNCHANGED <<index, upTo, highest>>
  BY DEF TruncateFile, WriteFile, run, counts
<1>4. \A q \in Runs : pc'[q] # "writing index"
  BY <1>1, <1>2 DEF TruncateFile, WriteFile, Goto
<1>5. PICK r \in todo[p], s \in {"truncated", "complete"} :
        /\ files' = [files EXCEPT ![r] = s] /\ r \in Rulings
        /\ todo' = (IF s = "complete" THEN [todo EXCEPT ![p] = @ \ {r}] ELSE todo)
  <2>1. CASE TruncateFile(p)
    BY <2>1 DEF TruncateFile, First, run
  <2>2. CASE WriteFile(p)
    BY <2>2 DEF WriteFile, First
  <2>. QED BY <2>1, <2>2
<1>6. \A q \in todo[p] : files[q] \notin Whole
  BY DEF HInv, Unwritten, TruncateFile, WriteFile
<1>7. \A q \in Rulings : files[q] \in Whole => files'[q] = files[q]
  BY <1>1, <1>5, <1>6
<1>8. \A q \in todo'[p] : files'[q] \notin Whole
  BY <1>1, <1>5, <1>6 DEF Whole
<1>9. \A q \in Runs \ {p} : pc'[q] = "idle"
  BY <1>1, <1>2 DEF TruncateFile, WriteFile, Goto
<1>10. Unwritten'
  BY <1>8, <1>9 DEF Unwritten
<1>11. Highest'
  BY <1>3, <1>4 DEF HInv, Highest
<1>. QED BY <1>7, <1>10, <1>11

\* Since the index that a run read is the highest, and its block isn't before it,
\* neither is the index that it writes.
LEMMA IndexKeeps ==
  ASSUME HInv, setup' = setup, NEW p \in Runs, TruncateIndex(p) \/ WriteIndex(p)
  PROVE  Unwritten' /\ Highest'
<1>1. /\ pc \in [Runs -> Steps] /\ upTo \in [Runs -> 0 .. LastBlock]
      /\ idx \in [Runs -> 0 .. LastBlock] /\ highest \in 0 .. LastBlock
      /\ pc[p] = "write" => idx[p] <= upTo[p]
  BY DEF HInv, SInv, TypeOK
<1>2. \A q \in Runs \ {p} : pc[q] = "idle"
  BY DEF HInv, SInv, Exclusive, TruncateIndex, WriteIndex
<1>3. pc' \in [Runs -> Steps] /\ \A q \in Runs \ {p} : pc'[q] = "idle"
  BY <1>1, <1>2 DEF TruncateIndex, WriteIndex, Goto, Steps
<1>4. pc'[p] \notin {"write", "writing"}
  BY <1>1 DEF TruncateIndex, WriteIndex, Goto
<1>5. Unwritten'
  BY <1>3, <1>4 DEF Unwritten
<1>6. CASE TruncateIndex(p)
  <2>1. index' = Damaged /\ UNCHANGED <<upTo, highest>>
    BY <1>6 DEF TruncateIndex, run, counts
  <2>2. pc[p] = "write"
    BY <1>6 DEF TruncateIndex
  <2>3. idx[p] = index /\ idx[p] <= upTo[p]
    BY <1>1, <2>2 DEF HInv, SInv, InProgress
  <2>4. index # Damaged
    <3>1. idx[p] \in 0 .. LastBlock
      BY <1>1
    <3>. QED BY <2>3, <3>1, Blocks DEF Damaged
  <2>5. setup = "one at a time" => highest <= upTo[p]
    BY <2>3, <2>4 DEF HInv, Highest
  <2>. QED BY <1>3, <1>5, <2>1, <2>5 DEF Highest
<1>7. CASE WriteIndex(p)
  <2>1. /\ index' = upTo[p] /\ pc'[p] # "writing index"
        /\ highest' = IF upTo[p] > highest THEN upTo[p] ELSE highest
    BY <1>1, <1>7 DEF WriteIndex, Goto
  <2>2. setup = "one at a time" => highest <= upTo[p]
    BY <1>7 DEF WriteIndex, HInv, Highest
  <2>3. setup = "one at a time" => highest' = upTo[p]
    <3>1. upTo[p] \in 0 .. LastBlock /\ highest \in 0 .. LastBlock
      BY <1>1
    <3>2. CASE upTo[p] > highest
      BY <2>1, <3>2
    <3>3. CASE ~(upTo[p] > highest)
      <4>1. highest' = highest
        BY <2>1, <3>3
      <4>2. highest <= upTo[p] => upTo[p] = highest
        BY <3>1, <3>3, Blocks
      <4>. QED BY <2>2, <4>1, <4>2
    <3>. QED BY <3>2, <3>3
  <2>. QED BY <1>3, <1>5, <2>1, <2>3 DEF Highest
<1>. QED BY <1>6, <1>7

\* A run starts while all are idle.
LEMMA StartKeeps ==
  ASSUME HInv, setup' = setup, ~Overlap, NEW p \in Runs, Start(p)
  PROVE  Unwritten' /\ Highest'
<1>1. pc \in [Runs -> Steps]
  BY DEF HInv, SInv, TypeOK
<1>2. \A q \in Runs : pc'[q] \in {"idle", "index"}
  BY <1>1 DEF Start, Goto
<1>3. ~FreshCheckout => UNCHANGED <<index, highest>>
  BY DEF Start, corpus, counts
<1>4. Unwritten'
  BY <1>2 DEF Unwritten
<1>5. Highest'
  BY <1>2, <1>3 DEF HInv, Highest, FreshCheckout
<1>. QED BY <1>4, <1>5

\* Someone changes a whole file, which no run is to write.
LEMMA EditKeeps ==
  ASSUME HInv, setup' = setup, Edit
  PROVE  /\ Unwritten' /\ Highest'
         /\ \A r \in Rulings : files[r] \in Whole => files'[r] \in {files[r], "edited"}
<1>1. files \in [Rulings -> FileStates] /\ todo \in [Runs -> SUBSET Rulings]
  BY DEF HInv, SInv, TypeOK
<1>2. PICK r \in Rulings : files[r] = "complete" /\ files' = [files EXCEPT ![r] = "edited"]
  BY DEF Edit
<1>3. UNCHANGED <<index, highest, pc, upTo, todo>>
  BY DEF Edit, run
<1>4. Unwritten'
  BY <1>1, <1>2, <1>3 DEF HInv, Unwritten, Whole
<1>5. Highest'
  BY <1>3 DEF HInv, Highest
<1>. QED BY <1>1, <1>2, <1>4, <1>5

\* Every step preserves the invariant, if runs don't overlap.
LEMMA NextHInv == ~Overlap /\ HInv /\ [Next]_vars => HInv'
<1> SUFFICES ASSUME ~Overlap, HInv, [Next]_vars PROVE HInv'
  OBVIOUS
<1>1. SInv'
  BY NextSInv DEF HInv
<1>2. setup' = setup
  BY DEF Next, vars
<1>3. CASE NewBlock \/ FinalizeBlock \/ UNCHANGED vars
  <2>1. UNCHANGED <<files, index, pc, upTo, todo, highest>>
    BY <1>3 DEF NewBlock, FinalizeBlock, vars, changing, corpus, run, counts
  <2>. QED BY <1>1, <1>2, <2>1 DEF HInv, Unwritten, Highest
<1>. QED
  BY <1>1, <1>2, <1>3, OtherSteps, CheckKeeps, WriteKeeps, IndexKeeps, StartKeeps, EditKeeps
  DEF Next, Proceed, HInv

\* Runs either overlap all the time or never.
LEMMA HInvariance == Spec => [](~Overlap => HInv)
<1>1. Init => (~Overlap => HInv)
  BY InitHInv
<1>2. (~Overlap => HInv) /\ [Next]_vars => (~Overlap => HInv)'
  <2>1. [Next]_vars => setup' = setup
    BY DEF Next, vars
  <2>. QED BY <2>1, NextHInv DEF Overlap
<1>. QED BY <1>1, <1>2, PTL DEF Spec

\* In a directory that is kept, the index is the highest that any run ever wrote,
\* unless a crash damaged it.
THEOREM NeverGoesBack == Spec => []NeverBackwards
<1>1. (~Overlap => HInv) => NeverBackwards
  BY DEF HInv, Highest, NeverBackwards, Overlap
<1>. QED BY <1>1, HInvariance, PTL

\* No step of a run touches a file that is whole, and what someone changed in one
\* stays.
THEOREM FilesKept == Spec => NeverOverwrites
<1>1. (~Overlap => HInv) /\ [Next]_vars =>
        [~FreshCheckout /\ ~Overlap =>
           \A r \in Rulings :
             files[r] \in {"complete", "edited"} => files'[r] \in {files[r], "edited"}]_files
  <2> SUFFICES ASSUME ~Overlap, ~FreshCheckout, HInv, [Next]_vars, files' # files,
                      NEW r \in Rulings, files[r] \in Whole
               PROVE  files'[r] \in {files[r], "edited"}
    BY DEF Whole
  <2>1. setup' = setup
    BY DEF Next, vars
  <2>2. Edit \/ \E p \in Runs : TruncateFile(p) \/ WriteFile(p)
    BY DEF Next, Proceed, Start, ReadIndex, ChooseBlock, ReadRulings, CheckFiles, TruncateIndex,
           WriteIndex, Push, PrintFiles, Crash, NewBlock, FinalizeBlock, vars, changing, corpus
  <2>. QED BY <2>1, <2>2, WriteKeeps, EditKeeps
<1>. QED BY <1>1, HInvariance, PTL DEF Spec, NeverOverwrites
-----------------------------------------------------------------------------
(* Runs that overlap *)

\* A file that is whole, or that some run is yet to write, or to write again.
Safe(r) ==
  files[r] \in Whole \/ \E q \in Runs : pc[q] \in {"write", "writing"} /\ r \in todo[q]

SafeUpTo(b) == \A r \in Rulings : RulingBlock[r] <= b => Safe(r)

\* The rulings that the index covers are safe, as are those that the index
\* covered when a run read it, and those up to the block that a run indexes
\* once it has checked the files.
Shared(p) ==
  /\ pc[p] \notin {"idle", "index"} => SafeUpTo(idx[p])
  /\ pc[p] = "check" => entries[p] = NewRulings(p)
  /\ pc[p] \in {"write", "writing", "writing index"} => SafeUpTo(upTo[p])

OInv == SafeUpTo(index) /\ \A p \in Runs : Shared(p)

\* A step of a run that it doesn't fail at, with none that has pushed.
OStep == TypeOK /\ setup = "overlapping" /\ [Next]_vars /\ UNCHANGED faults

\* What is safe stays safe as no run fails: a file is truncated by a run that is
\* yet to write it, and a run only has it behind it as it has written it.
LEMMA StaysSafe ==
  ASSUME OStep, NEW r \in Rulings, Safe(r)
  PROVE  Safe(r)'
<1>1. /\ pc \in [Runs -> Steps] /\ todo \in [Runs -> SUBSET Rulings]
      /\ files \in [Rulings -> FileStates] /\ faults \in Nat
  BY Bounds DEF OStep, TypeOK
<1>2. ASSUME NEW p \in Runs, Start(p) \/ ReadIndex(p) \/ ChooseBlock(p) \/ ReadRulings(p)
                             \/ Push(p) \/ PrintFiles(p)
      PROVE  /\ UNCHANGED <<files, todo>>
             /\ \A q \in Runs : pc[q] \in {"write", "writing"} => pc'[q] = pc[q]
  <2>1. ~FreshCheckout
    BY DEF OStep, FreshCheckout
  <2>2. CASE Start(p)
    BY <1>1, <2>1, <2>2 DEF Start, Goto, corpus, run
  <2>3. CASE ReadIndex(p)
    BY <1>1, <2>3 DEF ReadIndex, Goto, corpus
  <2>4. CASE ChooseBlock(p)
    BY <1>1, <2>4 DEF ChooseBlock, Goto, corpus
  <2>5. CASE ReadRulings(p)
    BY <1>1, <2>5 DEF ReadRulings, Goto, corpus
  <2>6. CASE Push(p)
    BY <1>1, <2>6 DEF Push, Goto, corpus, run
  <2>7. CASE PrintFiles(p)
    BY <1>1, <2>7 DEF PrintFiles, Goto, corpus, run
  <2>. QED BY <1>2, <2>2, <2>3, <2>4, <2>5, <2>6, <2>7
<1>3. ASSUME NEW p \in Runs, CheckFiles(p) PROVE Safe(r)'
  <2>1. /\ pc[p] = "check" /\ UNCHANGED files
        /\ pc' \in {[pc EXCEPT ![p] = "idle"], [pc EXCEPT ![p] = "write"]}
        /\ todo' \in {todo, [todo EXCEPT ![p] = Missing(p)]}
    BY <1>3 DEF CheckFiles, Goto, corpus
  <2>. QED BY <1>1, <2>1 DEF Safe
<1>4. ASSUME NEW p \in Runs, TruncateFile(p) PROVE Safe(r)'
  <2>1. PICK f \in Rulings : f \in todo[p] /\ files' = [files EXCEPT ![f] = "truncated"]
    BY <1>4 DEF TruncateFile, First
  <2>2. pc[p] = "write" /\ pc' = [pc EXCEPT ![p] = "writing"] /\ UNCHANGED todo
    BY <1>4 DEF TruncateFile, Goto, run
  <2>3. CASE r = f
    <3>1. pc'[p] \in {"write", "writing"} /\ r \in todo'[p]
      BY <1>1, <2>1, <2>2, <2>3
    <3>. QED BY <3>1 DEF Safe
  <2>4. CASE r # f
    BY <1>1, <2>1, <2>2, <2>4 DEF Safe
  <2>. QED BY <2>3, <2>4
<1>5. ASSUME NEW p \in Runs, WriteFile(p) PROVE Safe(r)'
  <2>1. PICK f \in Rulings :
          files' = [files EXCEPT ![f] = "complete"] /\ todo' = [todo EXCEPT ![p] = @ \ {f}]
    BY <1>5 DEF WriteFile
  <2>2. pc[p] = "writing" /\ pc' = [pc EXCEPT ![p] = "write"]
    BY <1>5 DEF WriteFile, Goto
  <2>3. CASE r = f
    <3>1. files'[r] \in Whole
      BY <1>1, <2>1, <2>3 DEF Whole
    <3>. QED BY <3>1 DEF Safe
  <2>4. CASE r # f
    BY <1>1, <2>1, <2>2, <2>4 DEF Safe
  <2>. QED BY <2>3, <2>4
<1>6. ASSUME NEW p \in Runs, TruncateIndex(p) \/ WriteIndex(p) PROVE Safe(r)'
  <2>1. /\ UNCHANGED <<files, todo>>
        /\ pc[p] = "writing index" \/ (pc[p] = "write" /\ todo[p] = {})
        /\ \A q \in Runs \ {p} : pc'[q] = pc[q]
    BY <1>1, <1>6 DEF TruncateIndex, WriteIndex, IndexDue, Goto, run
  <2>. QED BY <2>1 DEF Safe
<1>7. ASSUME NEW p \in Runs, Crash(p) PROVE FALSE
  BY <1>1, <1>7 DEF OStep, Crash
<1>8. CASE Edit
  <2>1. PICK f \in Rulings : files' = [files EXCEPT ![f] = "edited"]
    BY <1>8 DEF Edit
  <2>2. UNCHANGED <<pc, todo>>
    BY <1>8 DEF Edit, run
  <2>. QED BY <1>1, <2>1, <2>2 DEF Safe, Whole
<1>9. CASE NewBlock \/ FinalizeBlock \/ UNCHANGED vars
  BY <1>9 DEF NewBlock, FinalizeBlock, vars, changing, corpus, run, Safe
<1>10. ASSUME UNCHANGED <<files, todo>>,
              \A q \in Runs : pc[q] \in {"write", "writing"} => pc'[q] = pc[q]
       PROVE  Safe(r)'
  BY <1>10 DEF Safe
<1>. QED
  BY <1>2, <1>3, <1>4, <1>5, <1>6, <1>7, <1>8, <1>9, <1>10 DEF OStep, Next, Proceed

\* Every step of runs that don't fail keeps the invariant.
LEMMA NextOInv ==
  ASSUME OStep, OInv
  PROVE  OInv'
<1>1. /\ pc \in [Runs -> Steps] /\ idx \in [Runs -> 0 .. LastBlock]
      /\ upTo \in [Runs -> 0 .. LastBlock] /\ entries \in [Runs -> SUBSET Rulings]
      /\ todo \in [Runs -> SUBSET Rulings] /\ files \in [Rulings -> FileStates]
      /\ faults \in Nat
  BY Bounds DEF OStep, TypeOK
<1>2. ASSUME NEW b, SafeUpTo(b) PROVE \A r \in Rulings : RulingBlock[r] <= b => Safe(r)'
  BY <1>2, StaysSafe DEF SafeUpTo
\* A run that a step leaves where it is, or stops.
<1>3. ASSUME NEW q \in Runs, UNCHANGED <<idx[q], upTo[q], entries[q]>>,
             pc'[q] \in {pc[q], "idle", "index"}
      PROVE  Shared(q)'
  <2>1. Shared(q)
    BY DEF OInv
  <2>. QED BY <1>2, <1>3, <2>1 DEF Shared, SafeUpTo, NewRulings
<1>4. UNCHANGED index => SafeUpTo(index)'
  BY <1>2 DEF OInv, SafeUpTo
<1>5. ASSUME NEW p \in Runs, Start(p) \/ Push(p) \/ PrintFiles(p) PROVE OInv'
  <2>1. UNCHANGED <<index, idx, upTo, entries>> /\ \A q \in Runs : pc'[q] \in {pc[q], "idle", "index"}
    BY <1>1, <1>5 DEF OStep, FreshCheckout, Start, Push, PrintFiles, Goto, corpus, run
  <2>. QED BY <1>3, <1>4, <2>1 DEF OInv
<1>6. ASSUME NEW p \in Runs, ReadIndex(p) PROVE OInv'
  <2>1. /\ UNCHANGED <<index, upTo, entries>>
        /\ \A q \in Runs \ {p} : UNCHANGED <<pc[q], idx[q]>>
        /\ \/ pc'[p] = "idle" /\ UNCHANGED idx
           \/ pc'[p] = "block" /\ idx'[p] = index
    BY <1>1, <1>6 DEF ReadIndex, Goto, corpus
  <2>2. \A q \in Runs \ {p} : Shared(q)'
    BY <1>3, <2>1
  <2>3. Shared(p)'
    <3>1. CASE pc'[p] = "idle"
      BY <3>1 DEF Shared
    <3>2. CASE pc'[p] = "block" /\ idx'[p] = index
      BY <1>2, <3>2 DEF Shared, SafeUpTo, OInv
    <3>. QED BY <2>1, <3>1, <3>2
  <2>. QED BY <1>4, <2>1, <2>2, <2>3 DEF OInv
<1>7. ASSUME NEW p \in Runs, ChooseBlock(p) PROVE OInv'
  <2>1. /\ UNCHANGED <<index, idx, entries>> /\ pc[p] = "block"
        /\ \A q \in Runs \ {p} : UNCHANGED <<pc[q], upTo[q]>>
        /\ pc'[p] \in {"idle", "rulings"}
    BY <1>1, <1>7 DEF ChooseBlock, Goto, corpus
  <2>2. \A q \in Runs \ {p} : Shared(q)'
    BY <1>3, <2>1
  <2>3. Shared(p)'
    BY <1>2, <2>1 DEF Shared, SafeUpTo, OInv
  <2>. QED BY <1>4, <2>1, <2>2, <2>3 DEF OInv
<1>8. ASSUME NEW p \in Runs, ReadRulings(p) PROVE OInv'
  <2>1. /\ UNCHANGED <<index, idx, upTo>> /\ pc[p] = "rulings"
        /\ \A q \in Runs \ {p} : UNCHANGED <<pc[q], entries[q]>>
        /\ pc'[p] = "check" /\ entries'[p] = NewRulings(p)
    BY <1>1, <1>8 DEF ReadRulings, Goto, corpus
  <2>2. \A q \in Runs \ {p} : Shared(q)'
    BY <1>3, <2>1
  <2>3. NewRulings(p)' = NewRulings(p)
    BY <2>1 DEF NewRulings
  <2>4. Shared(p)'
    BY <1>2, <2>1, <2>3 DEF Shared, SafeUpTo, OInv
  <2>. QED BY <1>4, <2>1, <2>2, <2>4 DEF OInv
<1>9. ASSUME NEW p \in Runs, CheckFiles(p) PROVE OInv'
  <2>1. /\ UNCHANGED <<index, files, idx, upTo, entries>> /\ pc[p] = "check"
        /\ \A q \in Runs \ {p} : UNCHANGED pc[q]
        /\ \/ pc'[p] = "idle"
           \/ pc'[p] = "write" /\ Changed(p) = {} /\ todo'[p] = Missing(p)
    BY <1>1, <1>9 DEF CheckFiles, Goto, corpus
  <2>2. \A q \in Runs \ {p} : Shared(q)'
    BY <1>3, <2>1
  <2>3. ASSUME pc'[p] = "write", NEW r \in Rulings, RulingBlock[r] <= upTo[p] PROVE Safe(r)'
    <3>1. idx[p] \in Nat /\ RulingBlock[r] \in Nat
      BY <1>1, Blocks
    <3>2. CASE RulingBlock[r] <= idx[p]
      <4>1. Safe(r)
        BY <2>1, <3>2 DEF OInv, Shared, SafeUpTo
      <4>. QED BY <4>1, StaysSafe
    <3>3. CASE idx[p] < RulingBlock[r]
      <4>1. r \in entries[p]
        BY <2>1, <2>3, <3>3 DEF OInv, Shared, NewRulings
      <4>2. files[r] = "complete" \/ r \in Missing(p)
        BY <1>1, <2>1, <2>3, <4>1 DEF Changed, Missing, FileStates
      <4>. QED BY <2>1, <2>3, <4>2 DEF Safe, Whole
    <3>. QED BY <3>1, <3>2, <3>3
  <2>4. Shared(p)'
    <3>1. CASE pc'[p] = "idle"
      BY <3>1 DEF Shared
    <3>2. CASE pc'[p] = "write"
      <4>1. SafeUpTo(idx[p])'
        BY <1>2, <2>1 DEF OInv, Shared, SafeUpTo
      <4>2. SafeUpTo(upTo[p])'
        BY <2>1, <2>3, <3>2 DEF SafeUpTo
      <4>. QED BY <3>2, <4>1, <4>2 DEF Shared
    <3>. QED BY <2>1, <3>1, <3>2
  <2>. QED BY <1>4, <2>1, <2>2, <2>4 DEF OInv
<1>10. ASSUME NEW p \in Runs, TruncateFile(p) \/ WriteFile(p) PROVE OInv'
  <2>1. /\ UNCHANGED <<index, idx, upTo, entries>>
        /\ \A q \in Runs \ {p} : UNCHANGED pc[q]
        /\ pc[p] \in {"write", "writing"} /\ pc'[p] \in {"write", "writing"}
    BY <1>1, <1>10 DEF TruncateFile, WriteFile, Goto, run
  <2>2. \A q \in Runs \ {p} : Shared(q)'
    BY <1>3, <2>1
  <2>3. Shared(p)'
    BY <1>2, <2>1 DEF Shared, SafeUpTo, OInv
  <2>. QED BY <1>4, <2>1, <2>2, <2>3 DEF OInv
<1>11. ASSUME NEW p \in Runs, TruncateIndex(p) PROVE OInv'
  <2>1. /\ UNCHANGED <<idx, upTo, entries>> /\ index' = Damaged
        /\ \A q \in Runs \ {p} : UNCHANGED pc[q]
        /\ pc[p] = "write" /\ pc'[p] = "writing index"
    BY <1>1, <1>11 DEF TruncateIndex, Goto, run
  <2>2. \A q \in Runs \ {p} : Shared(q)'
    BY <1>3, <2>1
  <2>3. Shared(p)'
    BY <1>2, <2>1 DEF Shared, SafeUpTo, OInv
  <2>4. SafeUpTo(index)'
    <3>1. \A r \in Rulings : ~(RulingBlock[r] <= Damaged)
      BY Blocks DEF Damaged
    <3>. QED BY <2>1, <3>1 DEF SafeUpTo
  <2>. QED BY <2>2, <2>3, <2>4 DEF OInv
<1>12. ASSUME NEW p \in Runs, WriteIndex(p) PROVE OInv'
  <2>1. /\ UNCHANGED <<idx, upTo, entries>> /\ index' = upTo[p]
        /\ \A q \in Runs : pc'[q] \in {pc[q], "idle"}
        /\ pc[p] = "writing index"
    BY <1>1, <1>12 DEF OStep, FreshCheckout, WriteIndex, Goto, run
  <2>2. \A q \in Runs : Shared(q)'
    BY <1>3, <2>1
  <2>3. SafeUpTo(index)'
    BY <1>2, <2>1 DEF OInv, Shared, SafeUpTo
  <2>. QED BY <2>2, <2>3 DEF OInv
<1>13. ASSUME NEW p \in Runs, Crash(p) PROVE FALSE
  BY <1>1, <1>13 DEF OStep, Crash
<1>14. CASE Edit \/ NewBlock \/ FinalizeBlock \/ UNCHANGED vars
  <2>1. UNCHANGED <<index, pc, idx, upTo, entries>>
    BY <1>14 DEF Edit, NewBlock, FinalizeBlock, vars, changing, corpus, run
  <2>. QED BY <1>3, <1>4, <2>1 DEF OInv
<1>. QED
  BY <1>5, <1>6, <1>7, <1>8, <1>9, <1>10, <1>11, <1>12, <1>13, <1>14 DEF OStep, Next, Proceed

\* Until one fails, what runs that overlap leave is safe, as another is about to
\* write it if it isn't whole. Once all have ended, the index covers only rulings
\* with files, however the steps of the runs were interleaved.
THEOREM OverlapEndsWell == Spec => []OverlapHarmless
<1> DEFINE I == setup = "overlapping" /\ faults = 0 => OInv
<1>1. Init => I
  <2> SUFFICES ASSUME Init PROVE OInv
    OBVIOUS
  <2>1. SafeUpTo(index)
    BY Blocks DEF Init, SafeUpTo
  <2>. QED BY <2>1 DEF Init, OInv, Shared
<1>2. TypeOK /\ I /\ [Next]_vars => I'
  <2> SUFFICES ASSUME TypeOK, I, [Next]_vars, setup' = "overlapping", faults' = 0 PROVE OInv'
    OBVIOUS
  <2>1. setup = setup'
    BY DEF Next, vars
  <2>2. faults \in Nat
    BY Bounds DEF TypeOK
  <2>3. faults' = faults
    <3>1. faults' \in {faults, faults + 1}
      BY DEF Next, Proceed, Start, ReadIndex, ChooseBlock, ReadRulings, CheckFiles, TruncateFile,
             WriteFile, TruncateIndex, WriteIndex, Push, PrintFiles, Crash, Edit, NewBlock,
             FinalizeBlock, vars, changing, counts
    <3>. QED BY <2>2, <3>1
  <2>. QED BY <2>1, <2>3, NextOInv DEF OStep
<1>3. I /\ (~Overlap => SInv) => OverlapHarmless
  <2> SUFFICES ASSUME I, ~Overlap => SInv, faults = 0, \A p \in Runs : pc[p] = "idle"
               PROVE  Covers(index, files)
    BY DEF OverlapHarmless
  <2>1. CASE ~Overlap
    BY <2>1 DEF SInv, CorpusCovered
  <2>2. CASE Overlap
    BY <2>2 DEF Overlap, OInv, SafeUpTo, Safe, Whole, Covers
  <2>. QED BY <2>1, <2>2
<1>4. (~Overlap => HInv) => (~Overlap => SInv)
  BY DEF HInv
<1>. QED BY <1>1, <1>2, <1>3, <1>4, HInvariance, TypeCorrect, PTL DEF Spec
=============================================================================
