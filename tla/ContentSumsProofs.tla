------------------------- MODULE ContentSumsProofs -------------------------
(***************************************************************************)
(* What holds of ContentSums for any files, contents and clocks, as long   *)
(* as the racy window covers a tick of the filesystem's timestamps.        *)
(***************************************************************************)
EXTENDS ContentSums, TLAPS

\* What is left of a file that is removed.
LEMMA Gone ==
    ASSUME NEW r \in File
    PROVE  /\ [r EXCEPT !.here = FALSE] \in File
           /\ ~[r EXCEPT !.here = FALSE].here
           /\ [r EXCEPT !.here = FALSE].key = r.key
           /\ [r EXCEPT !.here = FALSE].content = r.content
BY DEF File

\* Everything keeps its type.
THEOREM TypeCorrect == Spec => []TypeOK
<1> USE ContentAssumption, ClockAssumption
<1>1. Init => TypeOK
  <2> SUFFICES ASSUME Init PROVE TypeOK
    OBVIOUS
  <2>1. NoKey \in Key
    BY DEF NoKey, Key
  <2>2. NoEntry \in Entry
    BY <2>1 DEF NoEntry, Entry
  <2>3. file \in [Files -> File]
    BY <2>1 DEF Init, File
  <2>4. dirty \in BOOLEAN /\ wasGood \in [Files -> BOOLEAN]
    BY DEF Init
  <2>5. QED
    BY <2>1, <2>2, <2>3, <2>4 DEF Init, TypeOK, PCs
<1>2. TypeOK /\ [Next]_vars => TypeOK'
  <2> SUFFICES ASSUME TypeOK, [Next]_vars PROVE TypeOK'
    OBVIOUS
  <2> USE DEF TypeOK, PCs, clocks, check, Verdict, GoOn, Compare
  <2>1. NoKey \in Key /\ NoEntry \in Entry
    BY DEF NoKey, Key, NoEntry, Entry
  <2> HIDE DEF NoKey, NoEntry
  <2>a. HashOver => dirty' \in BOOLEAN /\ at' = 0 /\ seen' \in Contents
    BY DEF HashOver
  <2>2. CASE Tick
    BY <2>2 DEF Tick
  <2>3. ASSUME NEW f \in Files, NEW c \in Contents, NEW restore \in BOOLEAN,
               Rewrite(f, c, restore)
        PROVE  TypeOK'
    <3>1. file' \in [Files -> File]
      BY <2>3 DEF Rewrite, File, Key
    <3>2. QED
      BY <2>3, <3>1 DEF Rewrite, Changed
  <2>4. ASSUME NEW f \in Files, NEW c \in Contents, NEW t \in 0 .. MaxNow,
               Replace(f, c, t)
        PROVE  TypeOK'
    <3>1. file' \in [Files -> File]
      BY <2>4 DEF Replace, File, Key
    <3>2. QED
      BY <2>4, <3>1 DEF Replace, Changed
  <2>5. ASSUME NEW f \in Files, Remove(f) PROVE TypeOK'
    <3>1. file' \in [Files -> File]
      BY <2>5 DEF Remove, File
    <3>2. QED
      BY <2>5, <3>1 DEF Remove, Changed
  <2>6. CASE CheckBegin
    BY <2>6 DEF CheckBegin
  <2>7. ASSUME NEW f \in Files, StatFile(f) PROVE TypeOK'
    BY <2>1, <2>7 DEF StatFile, File
  <2>8. ASSUME NEW f \in Files, Lookup(f) PROVE TypeOK'
    BY <2>1, <2>8 DEF Lookup
  <2>9. ASSUME NEW f \in Files, HashBegin(f) PROVE TypeOK'
    <3>1. CASE ~file[f].here
      BY <2>1, <2>9, <3>1 DEF HashBegin
    <3>2. CASE file[f].here
      <4>1. dirty' \in BOOLEAN
        BY <2>9, <3>2 DEF HashBegin
      <4>2. QED
        BY <2>9, <3>2, <4>1 DEF HashBegin, File
    <3>3. QED
      BY <3>1, <3>2
  <2>10. ASSUME NEW d \in Contents \cup {Torn}, HashEnd(d) PROVE TypeOK'
    <3>1. entry' \in [Files -> Entry]
      BY <2>10 DEF HashEnd, Entry
    <3>2. QED
      BY <2>1, <2>a, <2>10, <3>1 DEF HashEnd
  <2>11. CASE HashFails
    BY <2>1, <2>a, <2>11 DEF HashFails
  <2>12. CASE Cancel
    BY <2>1, <2>a, <2>12 DEF Cancel
  <2>13. CASE Keep
    BY <2>13 DEF Keep
  <2>14. ASSUME NEW t \in 0 .. MaxNow, Publish(t) PROVE TypeOK'
    <3>1. file' \in [Files -> File]
      BY <2>14 DEF Publish, File, Key
    <3>2. entry' \in [Files -> Entry] /\ inode' \in 0 .. MaxInode
      BY <2>1, <2>14 DEF Publish
    <3>3. QED
      BY <2>14, <3>1, <3>2 DEF Publish
  <2>15. CASE ExtractFails
    <3>1. file' \in [Files -> File]
      BY <2>15, Gone DEF ExtractFails
    <3>2. QED
      BY <2>1, <2>15, <3>1 DEF ExtractFails
  <2>16. ASSUME NEW f \in Files, Remember(f) PROVE TypeOK'
    <3>1. entry' \in [Files -> Entry]
      BY <2>16 DEF Remember, Entry, File
    <3>2. QED
      BY <2>16, <3>1 DEF Remember
  <2>17. CASE Collect
    <3>1. file' \in [Files -> File]
      BY <2>17, Gone DEF Collect
    <3>2. QED
      BY <2>1, <2>17, <3>1 DEF Collect
  <2>18. CASE Restart
    BY <2>1, <2>a, <2>18 DEF Restart
  <2>19. CASE UNCHANGED vars
    BY <2>19 DEF vars
  <2>20. QED
    BY <2>2, <2>3, <2>4, <2>5, <2>6, <2>7, <2>8, <2>9, <2>10, <2>11, <2>12,
       <2>13, <2>14, <2>15, <2>16, <2>17, <2>18, <2>19 DEF Next, Pass, Outside
<1>3. QED
  BY <1>1, <1>2, PTL DEF Spec

-----------------------------------------------------------------------------

\* Memory is kept by every step: a digest is stored with the key of a stat and
\* the time of the open, both older than any change the read may have missed.
LEMMA MemoryNext == TypeOK /\ TypeOK' /\ Memory /\ [Next]_vars => Memory'
<1> SUFFICES ASSUME TypeOK, TypeOK', Memory, [Next]_vars PROVE Memory'
  OBVIOUS
<1> USE ContentAssumption, ClockAssumption
    DEF TypeOK, Memory, Stamps, ReadHolds, EntryHolds, Settled, clocks, check,
        File, Entry, Key
<1>1. CASE Tick
  <2> HIDE DEF Memory, Stamps, File, Entry, Key
  <2>1. /\ now' = now + 1 /\ fsnow' \in fsnow .. now'
        /\ now' - fsnow' <= Granularity
    BY <1>1 DEF Tick
  <2>2. UNCHANGED <<file, inode, entry, pc, todo, cur, info, at, seen, dirty>>
    BY <1>1 DEF Tick
  <2>3. now \in Nat /\ fsnow \in Nat /\ inode \in Nat
    OBVIOUS
  <2>4. ASSUME NEW f \in Files
        PROVE  file[f].key.ctime \in Nat /\ entry[f].at \in Nat
    BY DEF File, Entry, Key
  <2>5. Stamps'
    BY <2>1, <2>2, <2>3, <2>4 DEF Memory, Stamps
  <2>6. QED
    BY <2>2, <2>5 DEF Memory
<1>2. ASSUME NEW f \in Files, NEW c \in Contents, NEW restore \in BOOLEAN,
             Rewrite(f, c, restore)
      PROVE  Memory'
  BY <1>2 DEF Rewrite, Changed
<1>3. ASSUME NEW f \in Files, NEW c \in Contents, NEW t \in 0 .. MaxNow,
             Replace(f, c, t)
      PROVE  Memory'
  BY <1>3 DEF Replace, Changed
<1>4. ASSUME NEW f \in Files, Remove(f) PROVE Memory'
  BY <1>4 DEF Remove, Changed
<1>5. CASE CheckBegin
  BY <1>5 DEF CheckBegin
<1>6. ASSUME NEW f \in Files, StatFile(f) PROVE Memory'
  BY <1>6 DEF StatFile, Verdict, NoKey
<1>7. ASSUME NEW f \in Files, Lookup(f) PROVE Memory'
  BY <1>7 DEF Lookup, Compare, Verdict, GoOn, NoKey
<1>8. ASSUME NEW f \in Files, HashBegin(f) PROVE Memory'
  BY <1>8 DEF HashBegin, Verdict, GoOn, NoKey
<1>9. ASSUME NEW d \in Contents \cup {Torn}, HashEnd(d) PROVE Memory'
  BY <1>9 DEF HashEnd, ReadResults, Compare, Verdict, GoOn, HashOver, NoKey
<1>10. CASE HashFails
  BY <1>10 DEF HashFails, Verdict, NoKey
<1>11. CASE Cancel
  BY <1>11 DEF Cancel, Verdict, NoKey
<1>12. CASE Keep
  BY <1>12 DEF Keep
<1>13. ASSUME NEW t \in 0 .. MaxNow, Publish(t) PROVE Memory'
  BY <1>13 DEF Publish, NoEntry, NoKey
<1>14. CASE ExtractFails
  <2>1. \A f \in Files : /\ file'[f].key = file[f].key
                         /\ file'[f].content = file[f].content
                         /\ file'[f].here => file[f].here
    BY <1>14, Gone DEF ExtractFails
  <2>2. /\ UNCHANGED <<now, fsnow, inode, info>> /\ pc' = "idle"
        /\ \A f \in Files : entry'[f] = entry[f] \/ entry'[f] = NoEntry
    BY <1>14 DEF ExtractFails
  <2>3. ASSUME NEW f \in Files PROVE EntryHolds(f)'
    <3> HIDE DEF TypeOK, Memory, Stamps, ReadHolds, File, Entry, Key
    <3>a. EntryHolds(f)
      BY DEF Memory
    <3>b. /\ file'[f].key = file[f].key
          /\ file'[f].content = file[f].content
          /\ file'[f].here => file[f].here
      BY <2>1
    <3>1. CASE entry'[f] = entry[f]
      BY <3>a, <3>b, <3>1
    <3>2. CASE entry'[f] = NoEntry
      BY <3>2 DEF NoEntry
    <3>3. QED
      BY <2>2, <3>1, <3>2
  <2>4. Stamps'
    <3> HIDE DEF File, Entry, Key, EntryHolds, ReadHolds
    <3>1. ASSUME NEW f \in Files
          PROVE  /\ entry'[f].at <= now
                 /\ entry'[f].key.ino <= inode
      <4>1. NoEntry.at = 0 /\ NoEntry.key.ino = 0
        BY DEF NoEntry, NoKey
      <4>2. QED
        BY <2>2, <4>1
    <3>2. ASSUME NEW f \in Files
          PROVE  /\ file'[f].key.ctime <= fsnow
                 /\ file'[f].key.ino <= inode
                 /\ info'[f].ino <= inode
      BY <2>1, <2>2
    <3> HIDE DEF TypeOK, Memory
    <3>3. QED
      BY <2>2, <3>1, <3>2 DEF Memory
  <2>5. QED
    BY <2>2, <2>3, <2>4
<1>15. ASSUME NEW f \in Files, Remember(f) PROVE Memory'
  BY <1>15 DEF Remember
<1>16. CASE Collect
  <2>1. \A f \in Files : file'[f].key = file[f].key
    BY <1>16, Gone DEF Collect
  <2>2. /\ UNCHANGED <<now, fsnow, inode, info>> /\ pc' = "idle"
        /\ \A f \in Files : entry'[f] = NoEntry
    BY <1>16 DEF Collect
  <2>3. Stamps'
    BY <2>1, <2>2 DEF NoEntry, NoKey
  <2>4. QED
    BY <2>2, <2>3 DEF NoEntry
<1>17. CASE Restart
  BY <1>17 DEF Restart, Verdict, NoEntry, NoKey
<1>18. CASE UNCHANGED vars
  BY <1>18 DEF vars
<1> HIDE DEF TypeOK, Memory
<1>19. QED
  BY <1>1, <1>2, <1>3, <1>4, <1>5, <1>6, <1>7, <1>8, <1>9, <1>10, <1>11, <1>12,
     <1>13, <1>14, <1>15, <1>16, <1>17, <1>18 DEF Next, Pass, Outside

\* Memory is inductive: it holds of every reachable state.
THEOREM MemoryInvariant == Spec => []Memory
<1>1. Init => Memory
  BY ClockAssumption
     DEF Init, Memory, Stamps, ReadHolds, EntryHolds, Settled, NoEntry, NoKey
<1>2. QED
  BY <1>1, TypeCorrect, MemoryNext, PTL DEF Spec

\* TrustedIsCurrent: a digest that trusted accepts for the file on disk is the
\* digest of what the file holds.
THEOREM TrustedCurrent == Spec => []TrustedIsCurrent
<1>1. Memory => TrustedIsCurrent
  BY DEF Memory, EntryHolds, Settled, Trusted, TrustedIsCurrent
<1>2. QED
  BY <1>1, MemoryInvariant, PTL

-----------------------------------------------------------------------------

\* Verdicts is kept by every step: a check concludes from what a file held
\* since the check began.
LEMMA VerdictsNext ==
    TypeOK /\ TypeOK' /\ Memory /\ Verdicts /\ [Next]_vars => Verdicts'
<1> SUFFICES ASSUME TypeOK, TypeOK', Memory, Verdicts, [Next]_vars
             PROVE  Verdicts'
  OBVIOUS
<1> USE ContentAssumption
    DEF TypeOK, Verdicts, Grounded, Checking, clocks, check
<1>1. CASE Tick
  BY <1>1 DEF Tick
<1>2. ASSUME NEW f \in Files, NEW c \in Contents, NEW restore \in BOOLEAN,
             Rewrite(f, c, restore)
      PROVE  Verdicts'
  BY <1>2 DEF Rewrite, Changed, File
<1>3. ASSUME NEW f \in Files, NEW c \in Contents, NEW t \in 0 .. MaxNow,
             Replace(f, c, t)
      PROVE  Verdicts'
  BY <1>3 DEF Replace, Changed, File
<1>4. ASSUME NEW f \in Files, Remove(f) PROVE Verdicts'
  BY <1>4, Gone DEF Remove, Changed
<1>5. CASE CheckBegin
  BY <1>5 DEF CheckBegin
<1>6. ASSUME NEW f \in Files, StatFile(f) PROVE Verdicts'
  BY <1>6 DEF StatFile, Verdict, Memory, EntryHolds, Settled, Trusted
<1>7. ASSUME NEW f \in Files, Lookup(f) PROVE Verdicts'
  BY <1>7 DEF Lookup, Compare, Verdict, GoOn
<1>8. ASSUME NEW f \in Files, HashBegin(f) PROVE Verdicts'
  BY <1>8 DEF HashBegin, Verdict, GoOn
<1>9. ASSUME NEW d \in Contents \cup {Torn}, HashEnd(d) PROVE Verdicts'
  BY <1>9 DEF HashEnd, ReadResults, Compare, Verdict, GoOn, HashOver
<1>10. CASE HashFails
  BY <1>10 DEF HashFails, Verdict
<1>11. CASE Cancel
  BY <1>11 DEF Cancel, Verdict
<1>12. CASE Keep
  BY <1>12 DEF Keep
<1>13. ASSUME NEW t \in 0 .. MaxNow, Publish(t) PROVE Verdicts'
  BY <1>13 DEF Publish
<1>14. CASE ExtractFails
  BY <1>14 DEF ExtractFails
<1>15. ASSUME NEW f \in Files, Remember(f) PROVE Verdicts'
  BY <1>15 DEF Remember
<1>16. CASE Collect
  BY <1>16 DEF Collect
<1>17. CASE Restart
  BY <1>17 DEF Restart, Verdict
<1>18. CASE UNCHANGED vars
  BY <1>18 DEF vars
<1> HIDE DEF TypeOK, Verdicts
<1>19. QED
  BY <1>1, <1>2, <1>3, <1>4, <1>5, <1>6, <1>7, <1>8, <1>9, <1>10, <1>11, <1>12,
     <1>13, <1>14, <1>15, <1>16, <1>17, <1>18 DEF Next, Pass, Outside

\* CompleteWasTrue: State reports complete only what was, file by file, at some
\* moment of the check.
THEOREM CompleteTrue == Spec => []CompleteWasTrue
<1>1. Init => Verdicts
  BY DEF Init, Verdicts, Grounded, Checking
<1>2. Verdicts => CompleteWasTrue
  BY DEF Verdicts, Grounded, CompleteWasTrue
<1>3. QED
  BY <1>1, <1>2, TypeCorrect, MemoryInvariant, VerdictsNext, PTL DEF Spec

=============================================================================
