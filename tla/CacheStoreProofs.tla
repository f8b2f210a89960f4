-------------------------- MODULE CacheStoreProofs --------------------------
(***************************************************************************)
(* What holds of CacheStore for any number of commands, names, images,     *)
(* files and directories.                                                  *)
(***************************************************************************)
EXTENDS CacheStore, TLAPS

\* A directory with another sentinel is a directory.
LEMMA SignedType ==
    ASSUME NEW r \in Directory, NEW mark \in Marks, NEW owner \in Owners,
           NEW i \in Images \cup {None}, NEW lists \in SUBSET FileNames
    PROVE  Signed(r, mark, owner, i, lists) \in Directory
BY DEF Signed, Directory

\* So is one with another file.
LEMMA FileType ==
    ASSUME NEW r \in Directory, NEW f \in FileNames,
           NEW c \in Images \cup {None, Altered}
    PROVE  WithFile(r, f, c) \in Directory
BY DEF WithFile, Directory

\* Every step a process takes on its own keeps the types.
LEMMA TypeStep ==
    ASSUME NEW p \in Procs, TypeOK, Step(p)
    PROVE  TypeOK'
<1> USE BoundAssumption DEF TypeOK, PCs, Goto, disk, extraction, removal, scan, bounds
<1>1. CASE ImportState(p)
  BY <1>1 DEF ImportState, Return
<1>2. CASE SweepTemporaries(p)
  BY <1>2 DEF SweepTemporaries
<1>3. CASE ImportFails(p)
  BY <1>3 DEF ImportFails, Return, Fault
<1>4. CASE ScanDone(p)
  BY <1>4, SMTT(30) DEF ScanDone, Return
<1>5. CASE AdoptRead(p)
  <2>1. sn' \in Record
    BY <1>5 DEF AdoptRead, Record, Directory
  <2>2. QED
    BY <1>5, <2>1, SMTT(30) DEF AdoptRead, Return
<1>6. CASE AdoptWrite(p)
  <2> DEFINE d == at[target[p]]
  <2>1. dir' \in [Dirs -> Directory]
    <3>1. d \in Dirs =>
             Signed(dir[d], "parsed", "agent", sn.image, sn.lists) \in Directory
      BY SignedType DEF Record, Marks, Owners
    <3>2. QED
      BY <1>6, <3>1 DEF AdoptWrite
  <2>2. sn' \in Record
    BY <1>6 DEF AdoptWrite, NoRecord, Record
  <2>3. QED
    BY <1>6, <2>1, <2>2, SMTT(30) DEF AdoptWrite, Return
<1>7. CASE AdoptFails(p)
  BY <1>7 DEF AdoptFails, Return, Fault, NoRecord, Record
<1>8. ASSUME NEW d \in Dirs, RemoveTemporaryOpen(p, d) PROVE TypeOK'
  BY <1>8 DEF RemoveTemporaryOpen
<1>9. CASE RemoveTemporaryLock(p)
  BY <1>9 DEF RemoveTemporaryLock
<1>10. CASE RemoveTemporary(p)
  BY <1>10 DEF RemoveTemporary, Blank, Directory, Marks, Owners
<1>11. CASE RemoveTemporaryFails(p)
  <2>1. lock' \in [Dirs -> Procs \cup {None}]
    BY <1>11 DEF RemoveTemporaryFails
  <2>2. QED
    BY <1>11, <2>1 DEF RemoveTemporaryFails, Fault
<1>12. ASSUME NEW n \in Names, GCExamine(p, n) PROVE TypeOK'
  BY <1>12, SMTT(30) DEF GCExamine
<1>13. CASE RemoveAllOpen(p)
  BY <1>13 DEF RemoveAllOpen, Removed, Present, Entries
<1>14. ASSUME NEW e \in Entries, RemoveAllUnlink(p, e) PROVE TypeOK'
  <2>1. dir' \in [Dirs -> Directory]
    BY <1>14, SignedType, FileType DEF RemoveAllUnlink, Unsigned, Marks, Owners, Entries
  <2>2. QED
    BY <1>14, <2>1 DEF RemoveAllUnlink
<1>15. CASE RemoveAllRmdir(p)
  BY <1>15 DEF RemoveAllRmdir, Removed, NotRemoved
<1>16. CASE RemoveAllFails(p)
  BY <1>16 DEF RemoveAllFails, Fault, NotRemoved
<1>17. CASE Fill(p)
  BY <1>17, SMTT(30) DEF Fill, Return
<1>18. ASSUME NEW d \in Dirs, MkdirTemp(p, d) PROVE TypeOK'
  BY <1>18 DEF MkdirTemp, Blank, Directory, Marks, Owners
<1>19. CASE LockOpen(p)
  BY <1>19, SMTT(30) DEF LockOpen, Return, Lost
<1>20. CASE Flock(p)
  BY <1>20 DEF Flock
<1>21. CASE LockStat(p)
  BY <1>21 DEF LockStat, Return, Lost
<1>22. CASE CreateFails(p)
  BY <1>22, SMTT(30) DEF CreateFails, Return, Fault
<1>23. ASSUME NEW f \in FileNames, WriteFile(p, f) PROVE TypeOK'
  <2>1. dir' \in [Dirs -> Directory]
    BY <1>23, FileType DEF WriteFile
  <2>2. QED
    BY <1>23, <2>1 DEF WriteFile
<1>24. CASE StreamEnds(p)
  BY <1>24 DEF StreamEnds
<1>25. CASE StreamFails(p)
  BY <1>25 DEF StreamFails
<1>26. CASE WriteSentinel(p)
  <2>1. dir' \in [Dirs -> Directory]
    BY <1>26, SignedType DEF WriteSentinel, Marks, Owners, Owner, Present
  <2>2. QED
    BY <1>26, <2>1 DEF WriteSentinel
<1>27. CASE ExtractFails(p)
  BY <1>27 DEF ExtractFails, Fault
<1>28. CASE CheckSwap(p)
  BY <1>28 DEF CheckSwap
<1>29. CASE Rename(p)
  BY <1>29 DEF Rename
<1>30. CASE Close(p)
  <2>1. lock' \in [Dirs -> Procs \cup {None}]
    BY <1>30 DEF Close
  <2>2. QED
    BY <1>30, <2>1 DEF Close, Return
<1>31. CASE AbortClose(p)
  BY <1>31 DEF AbortClose
<1>32. CASE AbortRemove(p)
  <2>1. dir' \in [Dirs -> Directory]
    BY <1>32 DEF AbortRemove, Blank, Directory, Marks, Owners
  <2>2. QED
    BY <1>32, <2>1 DEF AbortRemove, Return
<1>33. CASE AbortRemoveFails(p)
  BY <1>33 DEF AbortRemoveFails, Return, Fault
<1>34. QED
  BY <1>1, <1>2, <1>3, <1>4, <1>5, <1>6, <1>7, <1>8, <1>9, <1>10, <1>11, <1>12, <1>13, <1>14, <1>15, <1>16, <1>17, <1>18, <1>19, <1>20, <1>21, <1>22, <1>23, <1>24, <1>25, <1>26, <1>27, <1>28, <1>29, <1>30, <1>31, <1>32, <1>33 DEF Step

\* TypeOK: the types hold throughout, whatever the processes, the faults and
\* the tampering do.
THEOREM TypeCorrect == Spec => []TypeOK
<1>1. Init => TypeOK
  <2> SUFFICES ASSUME Init PROVE TypeOK
    OBVIOUS
  <2> USE BoundAssumption DEF Init
  <2>1. Blank \in Directory
    BY DEF Blank, Directory, Marks, Owners
  <2>2. PICK found \in [Names -> Found] :
          dir = [d \in Dirs |->
                    IF \E n \in Names : at[n] = d
                    THEN found[CHOOSE n \in Names : at[n] = d]
                    ELSE Blank]
    OBVIOUS
  <2>3. ASSUME NEW d \in Dirs PROVE dir[d] \in Directory
    <3>1. CASE \E n \in Names : at[n] = d
      <4>1. (CHOOSE n \in Names : at[n] = d) \in Names
        BY <3>1
      <4>2. QED
        BY <2>2, <3>1, <4>1, FoundAssumption
    <3>2. QED
      BY <2>1, <2>2, <3>1
  <2>4. dir \in [Dirs -> Directory]
    BY <2>2, <2>3
  <2>5. QED
    BY <2>4 DEF TypeOK, PCs, Record, NoRecord
<1>2. TypeOK /\ [Next]_vars => TypeOK'
  <2> SUFFICES ASSUME TypeOK, [Next]_vars PROVE TypeOK'
    OBVIOUS
  <2> USE BoundAssumption
          DEF TypeOK, PCs, Procs, Goto, disk, extraction, removal, scan, bounds
  <2>1. ASSUME NEW p \in Commands, NEW n \in Names, NEW i \in Images,
               ImportBegin(p, n, i)
        PROVE  TypeOK'
    BY <2>1 DEF ImportBegin
  <2>2. ASSUME NEW n \in Names, NEW i \in Images, SyncBegin(n, i) PROVE TypeOK'
    BY <2>2 DEF SyncBegin
  <2>3. ASSUME NEW n \in Names, AdoptBegin(n) PROVE TypeOK'
    BY <2>3 DEF AdoptBegin
  <2>4. ASSUME NEW keep \in Keeps, GCBegin(keep) PROVE TypeOK'
    BY <2>4 DEF GCBegin
  <2>5. ASSUME NEW p \in Procs, Step(p) PROVE TypeOK'
    BY <2>5, TypeStep
  <2>6. ASSUME NEW p \in Procs, Crash(p) PROVE TypeOK'
    BY <2>6 DEF Crash, Fault, Return, Record, NoRecord
  <2>7. ASSUME NEW n \in Names, NEW kind \in DamageKinds, NEW f \in FileNames,
               Damage(n, kind, f)
        PROVE  TypeOK'
    <3>1. Damaged(dir[at[n]], kind, f) \in Directory
      <4> DEFINE r == dir[at[n]]
      <4>1. r \in Directory
        BY <2>7 DEF Damage
      <4>2. /\ [r EXCEPT !.mark = "unreadable"] \in Directory
            /\ [r EXCEPT !.mark = "sealed"] \in Directory
        BY <4>1 DEF Directory, Marks
      <4>3. WithFile(r, f, None) \in Directory /\ WithFile(r, f, Altered) \in Directory
        BY <4>1, FileType
      <4>4. /\ Unsigned(r) \in Directory
            /\ Signed(r, "corrupt", "none", None, {}) \in Directory
        BY <4>1, SignedType DEF Unsigned, Marks, Owners
      <4>5. QED
        BY <4>1, <4>2, <4>3, <4>4, DamageAssumption DEF Damaged
    <3>2. QED
      BY <2>7, <3>1 DEF Damage
  <2>8. CASE UNCHANGED vars
    BY <2>8 DEF vars
  <2>9. QED
    BY <2>1, <2>2, <2>3, <2>4, <2>5, <2>6, <2>7, <2>8 DEF Next
<1>3. QED
  BY <1>1, <1>2, PTL DEF Spec
-----------------------------------------------------------------------------

\* Every step a process takes on its own keeps each temporary directory its
\* writer's.
LEMMA OwnershipStep ==
    ASSUME NEW p \in Procs, TypeOK, Ownership, Step(p)
    PROVE  Ownership'
<1> SUFFICES ASSUME NEW q \in Procs
             PROVE  (Targeted(q) /\ OwnTemporary(q) /\ OwnLock(q) /\ OwnName(q))'
  BY DEF Ownership
<1> USE ProcAssumption, EntryAssumption
    DEF TypeOK, Ownership, Targeted, OwnTemporary, OwnLock, OwnName, Extracting,
        NotExtracting, Holding, Writing, PCs, Procs, Goto, disk, extraction,
        removal, scan, bounds
<1>1. CASE ImportState(p)
  BY <1>1 DEF ImportState, Return
<1>2. CASE SweepTemporaries(p)
  BY <1>2 DEF SweepTemporaries
<1>3. CASE ImportFails(p)
  BY <1>3 DEF ImportFails, Return, Fault
<1>4. CASE ScanDone(p)
  BY <1>4 DEF ScanDone, Return
<1>5. CASE AdoptRead(p)
  BY <1>5 DEF AdoptRead, Return
<1>6. CASE AdoptWrite(p)
  BY <1>6 DEF AdoptWrite, Return
<1>7. CASE AdoptFails(p)
  BY <1>7 DEF AdoptFails, Return, Fault
<1>8. ASSUME NEW d \in Dirs, RemoveTemporaryOpen(p, d)
      PROVE  (Targeted(q) /\ OwnTemporary(q) /\ OwnLock(q) /\ OwnName(q))'
  BY <1>8 DEF RemoveTemporaryOpen
<1>9. CASE RemoveTemporaryLock(p)
  BY <1>9 DEF RemoveTemporaryLock
<1>10. CASE RemoveTemporary(p)
  BY <1>10 DEF RemoveTemporary
<1>11. CASE RemoveTemporaryFails(p)
  BY <1>11 DEF RemoveTemporaryFails, Fault
<1>12. ASSUME NEW n \in Names, GCExamine(p, n)
      PROVE  (Targeted(q) /\ OwnTemporary(q) /\ OwnLock(q) /\ OwnName(q))'
  BY <1>12 DEF GCExamine
<1>13. CASE RemoveAllOpen(p)
  BY <1>13 DEF RemoveAllOpen, Removed
<1>14. ASSUME NEW e \in Entries, RemoveAllUnlink(p, e)
      PROVE  (Targeted(q) /\ OwnTemporary(q) /\ OwnLock(q) /\ OwnName(q))'
  BY <1>14 DEF RemoveAllUnlink
<1>15. CASE RemoveAllRmdir(p)
  BY <1>15 DEF RemoveAllRmdir, Removed, NotRemoved
<1>16. CASE RemoveAllFails(p)
  BY <1>16 DEF RemoveAllFails, Fault, NotRemoved
<1>17. CASE Fill(p)
  BY <1>17 DEF Fill, Return
<1>18. ASSUME NEW d \in Dirs, MkdirTemp(p, d)
      PROVE  (Targeted(q) /\ OwnTemporary(q) /\ OwnLock(q) /\ OwnName(q))'
  BY <1>18 DEF MkdirTemp, Free
<1>19. CASE LockOpen(p)
  BY <1>19 DEF LockOpen, Return, Lost
<1>20. CASE Flock(p)
  BY <1>20 DEF Flock
<1>21. CASE LockStat(p)
  BY <1>21 DEF LockStat, Return, Lost
<1>22. CASE CreateFails(p)
  BY <1>22 DEF CreateFails, Return, Fault
<1>23. ASSUME NEW f \in FileNames, WriteFile(p, f)
      PROVE  (Targeted(q) /\ OwnTemporary(q) /\ OwnLock(q) /\ OwnName(q))'
  BY <1>23 DEF WriteFile
<1>24. CASE StreamEnds(p)
  BY <1>24 DEF StreamEnds
<1>25. CASE StreamFails(p)
  BY <1>25 DEF StreamFails
<1>26. CASE WriteSentinel(p)
  BY <1>26 DEF WriteSentinel
<1>27. CASE ExtractFails(p)
  BY <1>27 DEF ExtractFails, Fault
<1>28. CASE CheckSwap(p)
  BY <1>28 DEF CheckSwap
<1>29. CASE Rename(p)
  BY <1>29 DEF Rename
<1>30. CASE Close(p)
  BY <1>30 DEF Close, Return
<1>31. CASE AbortClose(p)
  BY <1>31 DEF AbortClose
<1>32. CASE AbortRemove(p)
  BY <1>32 DEF AbortRemove, Return
<1>33. CASE AbortRemoveFails(p)
  BY <1>33 DEF AbortRemoveFails, Return, Fault
<1>34. QED
  BY <1>1, <1>2, <1>3, <1>4, <1>5, <1>6, <1>7, <1>8, <1>9, <1>10, <1>11, <1>12, <1>13, <1>14, <1>15, <1>16, <1>17, <1>18, <1>19, <1>20, <1>21, <1>22, <1>23, <1>24, <1>25, <1>26, <1>27, <1>28, <1>29, <1>30, <1>31, <1>32, <1>33 DEF Step

\* The same for the whole next-state relation.
LEMMA OwnershipNext == TypeOK /\ Ownership /\ [Next]_vars => Ownership'
<1> SUFFICES ASSUME TypeOK, Ownership, [Next]_vars PROVE Ownership'
  OBVIOUS
<1> USE ProcAssumption, EntryAssumption
    DEF TypeOK, Ownership, Targeted, OwnTemporary, OwnLock, OwnName, Extracting,
        NotExtracting, Holding, Writing, PCs, Procs, Goto, disk, extraction,
        removal, scan, bounds
<1>1. ASSUME NEW p \in Commands, NEW n \in Names, NEW i \in Images,
             ImportBegin(p, n, i)
      PROVE  Ownership'
  BY <1>1 DEF ImportBegin
<1>2. ASSUME NEW n \in Names, NEW i \in Images, SyncBegin(n, i) PROVE Ownership'
  BY <1>2 DEF SyncBegin
<1>3. ASSUME NEW n \in Names, AdoptBegin(n) PROVE Ownership'
  BY <1>3 DEF AdoptBegin
<1>4. ASSUME NEW keep \in Keeps, GCBegin(keep) PROVE Ownership'
  BY <1>4 DEF GCBegin
<1>5. ASSUME NEW p \in Procs, Step(p) PROVE Ownership'
  BY <1>5, OwnershipStep
<1>6. ASSUME NEW p \in Procs, Crash(p) PROVE Ownership'
  BY <1>6 DEF Crash, Fault, Return
<1>7. ASSUME NEW n \in Names, NEW kind \in DamageKinds, NEW f \in FileNames,
             Damage(n, kind, f)
      PROVE  Ownership'
  BY <1>7 DEF Damage
<1>8. CASE UNCHANGED vars
  BY <1>8 DEF vars
<1>9. QED
  BY <1>1, <1>2, <1>3, <1>4, <1>5, <1>6, <1>7, <1>8 DEF Next

\* Ownership is inductive: it holds of every reachable state.
THEOREM OwnershipInvariant == Spec => []Ownership
<1>1. Init => Ownership
  BY ProcAssumption, EntryAssumption
     DEF Init, Ownership, Targeted, OwnTemporary, OwnLock, OwnName, Extracting,
         NotExtracting, Holding, Writing
<1>2. QED
  BY <1>1, TypeCorrect, OwnershipNext, PTL DEF Spec

\* LockedTemporaryStays: no GC and no sweep, of this process or another, takes
\* away a temporary directory that lockTemporary returned.
THEOREM LockProtects == Spec => []LockedTemporaryStays
<1>1. Ownership => LockedTemporaryStays
  BY DEF Ownership, OwnLock, OwnName, Holding, LockedTemporaryStays
<1>2. QED
  BY <1>1, OwnershipInvariant, PTL
-----------------------------------------------------------------------------

\* Every step a process takes on its own keeps the temporary directories apart
\* from the resource directories and from those being removed.
LEMMA HiddenStep ==
    ASSUME NEW p \in Procs, TypeOK, Ownership, \A d \in Dirs : Hidden(d), Step(p)
    PROVE  \A d \in Dirs : Hidden(d)'
<1> SUFFICES ASSUME NEW x \in Dirs PROVE Hidden(x)'
  OBVIOUS
<1> USE EntryAssumption
    DEF TypeOK, Hidden, Goto, disk, extraction, removal, scan, bounds
<1>1. CASE ImportState(p)
  BY <1>1 DEF ImportState, Return
<1>2. CASE SweepTemporaries(p)
  BY <1>2 DEF SweepTemporaries
<1>3. CASE ImportFails(p)
  BY <1>3 DEF ImportFails, Return, Fault
<1>4. CASE ScanDone(p)
  BY <1>4 DEF ScanDone, Return
<1>5. CASE AdoptRead(p)
  BY <1>5 DEF AdoptRead, Return
<1>6. CASE AdoptWrite(p)
  BY <1>6 DEF AdoptWrite, Return
<1>7. CASE AdoptFails(p)
  BY <1>7 DEF AdoptFails, Return, Fault
<1>8. ASSUME NEW d \in Dirs, RemoveTemporaryOpen(p, d) PROVE Hidden(x)'
  BY <1>8 DEF RemoveTemporaryOpen
<1>9. CASE RemoveTemporaryLock(p)
  BY <1>9 DEF RemoveTemporaryLock
<1>10. CASE RemoveTemporary(p)
  BY <1>10 DEF RemoveTemporary
<1>11. CASE RemoveTemporaryFails(p)
  BY <1>11 DEF RemoveTemporaryFails, Fault
<1>12. ASSUME NEW n \in Names, GCExamine(p, n) PROVE Hidden(x)'
  BY <1>12 DEF GCExamine
<1>13. CASE RemoveAllOpen(p)
  BY <1>13 DEF RemoveAllOpen, Removed, Ownership, Targeted
<1>14. ASSUME NEW e \in Entries, RemoveAllUnlink(p, e) PROVE Hidden(x)'
  BY <1>14 DEF RemoveAllUnlink
<1>15. CASE RemoveAllRmdir(p)
  BY <1>15 DEF RemoveAllRmdir, Removed, NotRemoved
<1>16. CASE RemoveAllFails(p)
  BY <1>16 DEF RemoveAllFails, Fault, NotRemoved
<1>17. CASE Fill(p)
  BY <1>17 DEF Fill, Return
<1>18. ASSUME NEW d \in Dirs, MkdirTemp(p, d) PROVE Hidden(x)'
  BY <1>18 DEF MkdirTemp, Free
<1>19. CASE LockOpen(p)
  BY <1>19 DEF LockOpen, Return, Lost
<1>20. CASE Flock(p)
  BY <1>20 DEF Flock
<1>21. CASE LockStat(p)
  BY <1>21 DEF LockStat, Return, Lost
<1>22. CASE CreateFails(p)
  BY <1>22 DEF CreateFails, Return, Fault
<1>23. ASSUME NEW f \in FileNames, WriteFile(p, f) PROVE Hidden(x)'
  BY <1>23 DEF WriteFile
<1>24. CASE StreamEnds(p)
  BY <1>24 DEF StreamEnds
<1>25. CASE StreamFails(p)
  BY <1>25 DEF StreamFails
<1>26. CASE WriteSentinel(p)
  BY <1>26 DEF WriteSentinel
<1>27. CASE ExtractFails(p)
  BY <1>27 DEF ExtractFails, Fault
<1>28. CASE CheckSwap(p)
  BY <1>28 DEF CheckSwap
<1>29. CASE Rename(p)
  BY <1>29 DEF Rename, Ownership, OwnTemporary, OwnName, Targeted, Extracting, Writing
<1>30. CASE Close(p)
  BY <1>30 DEF Close, Return
<1>31. CASE AbortClose(p)
  BY <1>31 DEF AbortClose
<1>32. CASE AbortRemove(p)
  BY <1>32 DEF AbortRemove, Return
<1>33. CASE AbortRemoveFails(p)
  BY <1>33 DEF AbortRemoveFails, Return, Fault
<1>34. QED
  BY <1>1, <1>2, <1>3, <1>4, <1>5, <1>6, <1>7, <1>8, <1>9, <1>10, <1>11, <1>12, <1>13, <1>14, <1>15, <1>16, <1>17, <1>18, <1>19, <1>20, <1>21, <1>22, <1>23, <1>24, <1>25, <1>26, <1>27, <1>28, <1>29, <1>30, <1>31, <1>32, <1>33 DEF Step

\* What the updates leave of a directory.
LEMMA SignedFields ==
    ASSUME NEW r \in Directory, NEW mark, NEW owner, NEW i, NEW lists
    PROVE  /\ Signed(r, mark, owner, i, lists).mark = mark
           /\ Signed(r, mark, owner, i, lists).lists = lists
           /\ Signed(r, mark, owner, i, lists).files = r.files
BY DEF Signed, Directory

\* What setting a file changes of a directory.
LEMMA FileFields ==
    ASSUME NEW r \in Directory, NEW f \in FileNames, NEW c
    PROVE  /\ WithFile(r, f, c).mark = r.mark
           /\ WithFile(r, f, c).lists = r.lists
           /\ WithFile(r, f, c).files = [r.files EXCEPT ![f] = c]
BY SMTT(30) DEF WithFile, Directory


\* What a step of one process leaves alone of another.
LEMMA StepFrame ==
    ASSUME NEW p \in Procs, TypeOK, Step(p), NEW q \in Procs \ {p}
    PROVE  /\ pc'[q] = pc[q] /\ target'[q] = target[q] /\ image'[q] = image[q]
           /\ tmp'[q] = tmp[q] /\ rm'[q] = rm[q]
BY ZenonT(90) DEF TypeOK, Step, ImportState, SweepTemporaries, ImportFails, ScanDone,
       AdoptRead, AdoptWrite, AdoptFails, RemoveTemporaryOpen,
       RemoveTemporaryLock, RemoveTemporary, RemoveTemporaryFails, GCExamine,
       RemoveAllOpen, RemoveAllUnlink, RemoveAllRmdir, RemoveAllFails, Fill,
       MkdirTemp, LockOpen, Flock, LockStat, CreateFails, WriteFile,
       StreamEnds, StreamFails, WriteSentinel, ExtractFails, CheckSwap, Rename,
       Close, AbortClose, AbortRemove, AbortRemoveFails, Goto, Return, Lost,
       Removed, NotRemoved, extraction, removal

\* The steps that change what is on disk.
LEMMA StepDisk ==
    ASSUME NEW p \in Procs, Step(p)
    PROVE  \/ UNCHANGED disk
           \/ AdoptWrite(p)
           \/ RemoveTemporary(p)
           \/ RemoveAllOpen(p)
           \/ \E e \in Entries : RemoveAllUnlink(p, e)
           \/ RemoveAllRmdir(p)
           \/ \E d \in Dirs : MkdirTemp(p, d)
           \/ \E f \in FileNames : WriteFile(p, f)
           \/ WriteSentinel(p)
           \/ Rename(p)
           \/ AbortRemove(p)
BY DEF Step, ImportState, SweepTemporaries, ImportFails, ScanDone, AdoptRead,
       AdoptFails, RemoveTemporaryOpen, RemoveTemporaryLock,
       RemoveTemporaryFails, GCExamine, RemoveAllFails, Fill, LockOpen, Flock,
       LockStat, CreateFails, StreamEnds, StreamFails, ExtractFails, CheckSwap,
       Close, AbortClose, AbortRemoveFails

\* The steps that lead to writing, to the swap and to a removal.
LEMMA StepLeadsTo ==
    ASSUME NEW p \in Procs, TypeOK, Step(p)
    PROVE  /\ pc'[p] \in {"open", "flock", "stat", "write"} =>
                 \/ \E d \in Dirs : MkdirTemp(p, d)
                 \/ LockOpen(p) \/ Flock(p) \/ LockStat(p)
                 \/ \E f \in FileNames : WriteFile(p, f)
           /\ pc'[p] \in {"sentinel", "swap"} => StreamEnds(p) \/ WriteSentinel(p)
           /\ pc'[p] = "clear" =>
                 CheckSwap(p) \/ \E n \in Names : GCExamine(p, n)
           /\ pc'[p] = "unlink" =>
                 RemoveAllOpen(p) \/ \E e \in Entries : RemoveAllUnlink(p, e)
           /\ pc'[p] \in {"rmdir", "rename"} =>
                 \/ \E e \in Entries : RemoveAllUnlink(p, e)
                 \/ RemoveAllOpen(p) \/ RemoveAllRmdir(p)
<1> USE DEF TypeOK, Goto, Return
<1>1. \/ pc'[p] \in {"idle", "own", "sweep", "scan", "rtlock", "rtremove", "fill",
                     "mkdir", "done", "abort", "cleanup"}
      \/ \E n \in Names : GCExamine(p, n)
      \/ RemoveAllOpen(p) \/ RemoveAllRmdir(p)
      \/ \E e \in Entries : RemoveAllUnlink(p, e)
      \/ \E d \in Dirs : MkdirTemp(p, d)
      \/ LockOpen(p) \/ Flock(p) \/ LockStat(p)
      \/ \E f \in FileNames : WriteFile(p, f)
      \/ StreamEnds(p) \/ WriteSentinel(p) \/ CheckSwap(p)
  BY DEF Step, ImportState, SweepTemporaries, ImportFails, ScanDone, AdoptRead,
         AdoptWrite, AdoptFails, RemoveTemporaryOpen, RemoveTemporaryLock,
         RemoveTemporary, RemoveTemporaryFails, RemoveAllFails, NotRemoved, Fill,
         CreateFails, StreamFails, ExtractFails, Rename, Close, AbortClose, AbortRemove,
         AbortRemoveFails
<1>2. ASSUME NEW n \in Names, GCExamine(p, n) PROVE pc'[p] \in {"scan", "clear"}
  BY <1>2 DEF GCExamine
<1>3. /\ RemoveAllOpen(p) => pc'[p] \in {"unlink", "scan", "rename"}
      /\ RemoveAllRmdir(p) => pc'[p] \in {"scan", "rename", "abort"}
  BY DEF RemoveAllOpen, RemoveAllRmdir, Removed, NotRemoved
<1>4. ASSUME NEW e \in Entries, RemoveAllUnlink(p, e)
      PROVE  pc'[p] \in {"unlink", "rmdir"}
  BY <1>4 DEF RemoveAllUnlink
<1>5. ASSUME NEW d \in Dirs, MkdirTemp(p, d) PROVE pc'[p] = "open"
  BY <1>5 DEF MkdirTemp
<1>6. LockOpen(p) \/ Flock(p) \/ LockStat(p) =>
         pc'[p] \in {"flock", "stat", "write", "mkdir", "idle"}
  BY DEF LockOpen, Flock, LockStat, Lost
<1>7. ASSUME NEW f \in FileNames, WriteFile(p, f) PROVE pc'[p] = "write"
  BY <1>7 DEF WriteFile
<1>8. /\ StreamEnds(p) => pc'[p] = "sentinel"
      /\ WriteSentinel(p) => pc'[p] = "swap"
      /\ CheckSwap(p) => pc'[p] \in {"clear", "abort"}
  BY DEF StreamEnds, WriteSentinel, CheckSwap
<1>9. QED
  BY <1>1, <1>2, <1>3, <1>4, <1>5, <1>6, <1>7, <1>8

\* A renamed directory was a temporary, with the sentinel, under no name.
LEMMA RenameMoves ==
    ASSUME NEW p \in Procs, TypeOK, Ownership, Layout, Rename(p), at' # at
    PROVE  /\ tmp[p] \in Dirs /\ target[p] \in Names
           /\ at' = [at EXCEPT ![target[p]] = tmp[p]]
           /\ at[target[p]] = None
              \/ (at[target[p]] \in Dirs /\ Empty(at[target[p]]))
           /\ \A n \in Names : at[n] # tmp[p]
           /\ \A q \in Procs : rm[q] # tmp[p]
<1>1. /\ pc[p] = "rename"
      /\ at' = [at EXCEPT ![target[p]] = tmp[p]]
      /\ at[target[p]] = None \/ (at[target[p]] \in Dirs /\ Empty(at[target[p]]))
  BY DEF Rename
<1>2. tmp[p] \in Dirs /\ target[p] \in Names /\ temp[tmp[p]] # None
  BY <1>1, EntryAssumption
     DEF Ownership, OwnTemporary, OwnName, Targeted, Extracting, Writing
<1>3. QED
  BY <1>1, <1>2 DEF Layout, Hidden

\* No step puts a directory under two names, and a directory that is being
\* emptied comes under no other.
LEMMA ApartStep ==
    ASSUME NEW p \in Procs, TypeOK, Ownership, Layout, Step(p)
    PROVE  Apart' /\ \A q \in Procs : Removing(q)'
<1> USE EntryAssumption DEF TypeOK
<1>1. \/ at' = at
      \/ target[p] \in Names /\ at' = [at EXCEPT ![target[p]] = None]
      \/ at' # at /\ Rename(p)
  BY StepDisk
     DEF disk, AdoptWrite, RemoveTemporary, RemoveAllOpen, RemoveAllUnlink, RemoveAllRmdir,
         MkdirTemp, WriteFile, WriteSentinel, AbortRemove, Ownership, Targeted
<1>2. Apart'
  <2>1. CASE at' # at /\ Rename(p)
    BY <2>1, RenameMoves DEF Layout, Apart
  <2>2. QED
    BY <1>1, <2>1 DEF Layout, Apart
<1>3. ASSUME NEW n \in Names, NEW d \in Dirs, NEW q \in Procs, rm[q] = d, at'[n] = d
      PROVE  at[n] = d
  <2>1. CASE at' # at /\ Rename(p)
    BY <1>3, <2>1, RenameMoves
  <2>2. QED
    BY <1>1, <1>3, <2>1
<1>4. ASSUME NEW q \in Procs, pc'[q] = "unlink" PROVE Removing(q)'
  <2>1. CASE q # p
    BY <1>3, <1>4, <2>1, StepFrame, SMTT(90) DEF Layout, Removing
  <2>2. CASE q = p /\ RemoveAllOpen(p)
    BY <1>4, <2>2
       DEF RemoveAllOpen, Removing, Removed, Goto, Ownership, Targeted, Layout, Apart
  <2>3. CASE q = p /\ \E e \in Entries : RemoveAllUnlink(p, e)
    BY <1>4, <2>3 DEF RemoveAllUnlink, Removing, Layout
  <2>4. QED
    BY <1>4, <2>1, <2>2, <2>3, StepLeadsTo
<1>5. QED
  BY <1>2, <1>4 DEF Removing

\* A temporary directory is written by the process that made it and by no
\* other, and goes with its name.
LEMMA TemporaryKept ==
    ASSUME NEW p \in Procs, TypeOK, Ownership, Layout, Step(p),
           NEW d \in Dirs, temp[d] # None, temp'[d] # None
    PROVE  \/ dir'[d] = dir[d]
           \/ /\ tmp[p] = d
              /\ WriteSentinel(p) \/ \E f \in FileNames : WriteFile(p, f)
<1> USE EntryAssumption DEF TypeOK, Layout
<1>1. CASE UNCHANGED disk
  BY <1>1 DEF disk
<1>2. CASE AdoptWrite(p)
  BY <1>2 DEF AdoptWrite, Hidden, Ownership, Targeted
<1>3. CASE RemoveTemporary(p)
  BY <1>3 DEF RemoveTemporary
<1>4. CASE RemoveAllOpen(p)
  BY <1>4 DEF RemoveAllOpen
<1>5. ASSUME NEW e \in Entries, RemoveAllUnlink(p, e) PROVE dir'[d] = dir[d]
  BY <1>5 DEF RemoveAllUnlink, Hidden
<1>6. CASE RemoveAllRmdir(p)
  BY <1>6 DEF RemoveAllRmdir
<1>7. ASSUME NEW x \in Dirs, MkdirTemp(p, x) PROVE dir'[d] = dir[d]
  BY <1>7 DEF MkdirTemp, Free
<1>8. CASE Rename(p)
  BY <1>8 DEF Rename
<1>9. CASE AbortRemove(p)
  BY <1>9 DEF AbortRemove
<1>10. ASSUME NEW f \in FileNames, WriteFile(p, f), tmp[p] # d PROVE dir'[d] = dir[d]
  BY <1>10 DEF WriteFile
<1>11. ASSUME WriteSentinel(p), tmp[p] # d PROVE dir'[d] = dir[d]
  BY <1>11 DEF WriteSentinel
<1>12. QED
  BY <1>1, <1>2, <1>3, <1>4, <1>5, <1>6, <1>7, <1>8, <1>9, <1>10, <1>11, StepDisk

\* A process writes its image into its temporary directory, then the sentinel,
\* and what the others do leaves it there.
LEMMA FillingStep ==
    ASSUME NEW p \in Procs, TypeOK, Ownership, Layout, Step(p)
    PROVE  \A q \in Procs : Filling(q)'
<1> SUFFICES ASSUME NEW q \in Procs PROVE Filling(q)'
  OBVIOUS
<1> USE EntryAssumption DEF TypeOK
<1>0. Filling(q) /\ Ownership'
  BY OwnershipStep DEF Layout
<1>1. CASE q # p
  <2>1. pc'[q] = pc[q] /\ image'[q] = image[q] /\ tmp'[q] = tmp[q]
    BY <1>1, StepFrame
  <2>2. ASSUME tmp[q] \in Dirs, temp[tmp[q]] # None, temp'[tmp[q]] # None
        PROVE  dir'[tmp[q]] = dir[tmp[q]]
    BY <1>1, <2>2, TemporaryKept DEF Ownership, OwnTemporary
  <2>3. tmp[q] \in Dirs /\ temp'[tmp[q]] # None => temp[tmp[q]] # None
    BY StepDisk
       DEF disk, AdoptWrite, RemoveTemporary, RemoveAllOpen, RemoveAllUnlink,
           RemoveAllRmdir, MkdirTemp, WriteFile, WriteSentinel, Rename, AbortRemove, Free
  <2>4. CASE pc[q] \in {"open", "flock", "stat", "write"}
    <3>1. tmp[q] \in Dirs
      BY <2>4 DEF Ownership, OwnTemporary, Extracting
    <3>2. QED
      BY <1>0, <2>1, <2>2, <2>3, <2>4, <3>1 DEF Filling, Uniform
  <2>5. CASE pc[q] \in Writing \ {"write"} /\ tmp[q] # None
    <3>1. tmp[q] \in Dirs /\ temp'[tmp[q]] # None /\ temp[tmp[q]] # None
      BY <1>0, <2>1, <2>3, <2>5 DEF Ownership, OwnName, Targeted, Writing
    <3>2. QED
      BY <1>0, <2>1, <2>2, <2>5, <3>1 DEF Filling, Writing
  <2>6. QED
    BY <2>1, <2>4, <2>5 DEF Filling, Writing
<1>2. CASE q = p /\ pc'[p] \in {"open", "flock", "stat", "write"}
  <2>1. CASE \E d \in Dirs : MkdirTemp(p, d)
    BY <1>2, <2>1 DEF MkdirTemp, Goto, Filling, Uniform, Blank
  <2>2. CASE LockOpen(p) \/ Flock(p) \/ LockStat(p)
    BY <1>0, <1>2, <2>2
       DEF LockOpen, Flock, LockStat, Lost, Return, Goto, Filling, Uniform, disk, extraction
  <2>3. ASSUME NEW f \in FileNames, WriteFile(p, f) PROVE Filling(p)'
    <3>1. /\ tmp[p] \in Dirs /\ temp[tmp[p]] # None
          /\ pc[p] = "write" /\ Uniform(tmp[p], image[p])
          /\ dir' = [dir EXCEPT ![tmp[p]] = WithFile(@, f, image[p])]
          /\ UNCHANGED <<temp, tmp, pc, image>>
      BY <1>0, <1>2, <2>3
         DEF WriteFile, Ownership, OwnTemporary, OwnName, Targeted, Extracting, Writing,
             Filling, extraction
    <3>2. dir[tmp[p]].files \in [FileNames -> Images \cup {None, Altered}]
      BY <3>1 DEF Directory
    <3>3. dir'[tmp[p]].files = [dir[tmp[p]].files EXCEPT ![f] = image[p]]
      BY <3>1, FileFields
    <3>4. QED
      BY <3>1, <3>2, <3>3 DEF Filling, Uniform
  <2>4. QED
    BY <1>2, <2>1, <2>2, <2>3, StepLeadsTo
<1>3. CASE q = p /\ pc'[p] \in {"sentinel", "swap"}
  <2>1. CASE StreamEnds(p)
    <3>1. /\ tmp[p] \in Dirs /\ temp[tmp[p]] # None
          /\ pc[p] = "write" /\ Uniform(tmp[p], image[p]) /\ image[p] \in Images
          /\ Present(tmp[p]) = FileNames
          /\ pc'[p] = "sentinel"
          /\ UNCHANGED <<dir, tmp, image>>
      BY <1>0, <1>3, <2>1
         DEF StreamEnds, Ownership, OwnTemporary, OwnName, Targeted, Extracting, Writing,
             Filling, Goto, extraction, disk
    <3>2. QED
      BY <1>3, <3>1 DEF Filling, Uniform, Present
  <2>2. CASE WriteSentinel(p)
    <3>1. /\ tmp[p] \in Dirs /\ image[p] \in Images
          /\ \A f \in FileNames : dir[tmp[p]].files[f] = image[p]
          /\ dir' = [dir EXCEPT ![tmp[p]] =
                        Signed(@, "parsed", Owner(p), image[p], Present(tmp[p]))]
          /\ UNCHANGED <<tmp, image>>
          /\ pc'[p] = "swap"
      BY <1>0, <1>3, <2>2
         DEF WriteSentinel, Ownership, OwnTemporary, Targeted, Extracting, Filling, Goto,
             extraction
    <3>2. dir'[tmp[p]].mark = "parsed" /\ dir'[tmp[p]].files = dir[tmp[p]].files
      BY <3>1, SignedFields
    <3>3. QED
      BY <1>3, <3>1, <3>2 DEF Filling
  <2>3. QED
    BY <1>3, <2>1, <2>2, StepLeadsTo
<1>4. CASE q = p /\ pc'[p] \in {"clear", "unlink", "rmdir", "rename"}
  <2>1. /\ tmp[p] = None \/ pc[p] \in {"swap", "clear", "unlink", "rmdir"}
        /\ UNCHANGED <<temp, tmp, image>>
    BY <1>4, StepLeadsTo
       DEF CheckSwap, GCExamine, RemoveAllOpen, RemoveAllUnlink, RemoveAllRmdir, disk,
           extraction, Ownership, OwnTemporary, NotExtracting
  <2>2. ASSUME tmp[p] # None PROVE dir'[tmp[p]] = dir[tmp[p]]
    <3>1. tmp[p] \in Dirs /\ temp[tmp[p]] # None
      BY <2>1, <2>2 DEF Ownership, OwnName, Targeted, Writing
    <3>2. pc[p] # "write" /\ pc[p] # "sentinel"
      BY <2>1, <2>2
    <3>3. QED
      BY <2>1, <3>1, <3>2, TemporaryKept DEF WriteFile, WriteSentinel
  <2>3. QED
    BY <1>0, <1>4, <2>1, <2>2 DEF Filling
<1>5. QED
  BY <1>1, <1>2, <1>3, <1>4 DEF Filling

\* Layout is inductive.
LEMMA LayoutNext == TypeOK /\ Ownership /\ Layout /\ [Next]_vars => Layout'
<1> SUFFICES ASSUME TypeOK, Ownership, Layout, [Next]_vars PROVE Layout'
  OBVIOUS
<1> USE EntryAssumption
    DEF TypeOK, Layout, Hidden, Apart, Removing, Filling, Uniform, Procs, Goto, disk,
        extraction, removal, scan, bounds
<1>1. ASSUME NEW p \in Commands, NEW n \in Names, NEW i \in Images,
             ImportBegin(p, n, i)
      PROVE  Layout'
  BY <1>1 DEF ImportBegin
<1>2. ASSUME NEW n \in Names, NEW i \in Images, SyncBegin(n, i) PROVE Layout'
  BY <1>2 DEF SyncBegin
<1>3. ASSUME NEW n \in Names, AdoptBegin(n) PROVE Layout'
  BY <1>3 DEF AdoptBegin
<1>4. ASSUME NEW keep \in Keeps, GCBegin(keep) PROVE Layout'
  BY <1>4 DEF GCBegin
<1>5. ASSUME NEW p \in Procs, Step(p) PROVE Layout'
  <2>1. \A d \in Dirs : Hidden(d)'
    BY <1>5, HiddenStep, SMTT(30)
  <2>2. Apart' /\ \A q \in Procs : Removing(q)' /\ Filling(q)'
    BY <1>5, ApartStep, FillingStep
  <2>3. QED
    BY <2>1, <2>2
<1>6. ASSUME NEW p \in Procs, Crash(p) PROVE Layout'
  BY <1>6 DEF Crash, Return
<1>7. ASSUME NEW n \in Names, NEW kind \in DamageKinds, NEW f \in FileNames,
             Damage(n, kind, f)
      PROVE  Layout'
  <2>1. UNCHANGED <<at, temp, pc, target, image, tmp, rm>>
    BY <1>7 DEF Damage
  <2>2. ASSUME NEW d \in Dirs, temp[d] # None PROVE dir'[d] = dir[d]
    BY <1>7, <2>2 DEF Damage
  <2>3. ASSUME NEW q \in Procs PROVE Filling(q)'
    <3>1. CASE pc[q] \in {"open", "flock", "stat", "write"}
      BY <2>1, <2>2, <3>1 DEF Ownership, OwnTemporary, Extracting
    <3>2. CASE pc[q] \in Writing \ {"write"} /\ tmp[q] # None
      <4>1. tmp[q] \in Dirs /\ temp[tmp[q]] # None
        BY <3>2 DEF Ownership, OwnName, Targeted, Writing
      <4>2. QED
        BY <2>1, <2>2, <3>2, <4>1 DEF Writing
    <3>3. QED
      BY <2>1, <3>1, <3>2 DEF Writing
  <2>4. QED
    BY <2>1, <2>3
<1>8. CASE UNCHANGED vars
  BY <1>8 DEF vars
<1>9. QED
  BY <1>1, <1>2, <1>3, <1>4, <1>5, <1>6, <1>7, <1>8 DEF Next

\* Temporaries stay apart from the resource directories, each name has its own
\* directory, and an extraction holds its image and nothing else, tampered
\* with or not.
THEOREM LayoutInvariant == Spec => []Layout
<1>1. Init => Layout
  BY EntryAssumption DEF Init, Layout, Hidden, Apart, Removing, Filling
<1>2. QED
  BY <1>1, TypeCorrect, OwnershipInvariant, LayoutNext, PTL DEF Spec
-----------------------------------------------------------------------------

\* Every step a process takes on its own, with nobody tampering, keeps the
\* sentinels true to the files.
LEMMA WholeStep ==
    ASSUME NEW p \in Procs, TypeOK, Ownership, Layout, Wholeness, damage = 0, Step(p)
    PROVE  /\ \A d \in Dirs : ListsAll(d)'
           /\ \A q \in Procs : Adopting(q)'
<1> SUFFICES ASSUME NEW q \in Procs
             PROVE  (\A d \in Dirs : ListsAll(d)') /\ Adopting(q)'
  OBVIOUS
<1> USE EntryAssumption
    DEF TypeOK, Layout, Wholeness, ListsAll, Adopting, Uniform, Goto, disk, extraction,
        removal, scan, bounds
<1>1. CASE ImportState(p)
  BY <1>1 DEF ImportState, Return
<1>2. CASE SweepTemporaries(p)
  BY <1>2 DEF SweepTemporaries
<1>3. CASE ImportFails(p)
  BY <1>3 DEF ImportFails, Return, Fault
<1>4. CASE ScanDone(p)
  BY <1>4 DEF ScanDone, Return
<1>5. CASE AdoptRead(p)
  <2>1. \A d \in Dirs : ListsAll(d)'
    BY <1>5 DEF AdoptRead, Return
  <2>2. Adopting(q)'
    <3>1. CASE pc'[q] = "own" /\ at[target[q]] \in Dirs
      BY <1>5, <3>1, SMTT(90) DEF AdoptRead, Return
    <3>2. CASE pc'[q] # "own" \/ at[target[q]] \notin Dirs
      BY <1>5, <3>2 DEF AdoptRead, Return
    <3>3. QED
      BY <3>1, <3>2
  <2>3. QED
    BY <2>1, <2>2
<1>6. CASE AdoptWrite(p)
  <2> DEFINE y == at[target[p]]
  <2>1. CASE dir' = dir
    BY <1>6, <2>1 DEF AdoptWrite, Return
  <2>2. CASE dir' # dir
    <3>1. /\ y \in Dirs
          /\ dir' = [dir EXCEPT ![y] =
                        Signed(@, "parsed", "agent", sn.image, sn.lists)]
          /\ pc[p] = "own" /\ pc' = [pc EXCEPT ![p] = "idle"]
          /\ UNCHANGED <<at, temp, target, rm>>
          /\ tmp' = [tmp EXCEPT ![p] = None]
          /\ image' = [image EXCEPT ![p] = None]
      BY <1>6, <2>2 DEF AdoptWrite, Return
    <3>2. /\ dir'[y].mark = "parsed"
          /\ dir'[y].lists = FileNames
          /\ dir'[y].files = dir[y].files
      BY <3>1, SignedFields
    <3>3. \A d \in Dirs : /\ dir'[d].files = dir[d].files
                          /\ d # y => dir'[d] = dir[d]
      BY <3>1, <3>2
    <3>4. ASSUME NEW d \in Dirs PROVE ListsAll(d)'
      BY <3>1, <3>2, <3>3, SMTT(30)
    <3>5. Adopting(q)'
      BY <3>1
    <3>6. QED
      BY <3>4, <3>5
  <2>3. QED
    BY <2>1, <2>2
<1>7. CASE AdoptFails(p)
  BY <1>7 DEF AdoptFails, Return, Fault
<1>8. ASSUME NEW d \in Dirs, RemoveTemporaryOpen(p, d)
      PROVE  (\A x \in Dirs : ListsAll(x)') /\ Adopting(q)'
  BY <1>8 DEF RemoveTemporaryOpen
<1>9. CASE RemoveTemporaryLock(p)
  BY <1>9 DEF RemoveTemporaryLock
<1>10. CASE RemoveTemporary(p)
  <2> DEFINE y == fd[p]
  <2>1. /\ y \in Dirs
        /\ temp' = [temp EXCEPT ![y] = None]
        /\ dir' = [dir EXCEPT ![y] = IF temp[y] = None THEN @ ELSE Blank]
        /\ UNCHANGED <<at, target, sn>>
    BY <1>10 DEF RemoveTemporary, Ownership, OwnLock, OwnTemporary, Extracting
  <2>2. ASSUME NEW d \in Dirs PROVE ListsAll(d)'
    BY <2>1 DEF Blank
  <2>3. Adopting(q)'
    BY <1>10, <2>1, SMTT(30) DEF RemoveTemporary, Hidden, Ownership, Targeted
  <2>4. QED
    BY <2>2, <2>3
<1>11. CASE RemoveTemporaryFails(p)
  BY <1>11 DEF RemoveTemporaryFails, Fault
<1>12. ASSUME NEW n \in Names, GCExamine(p, n)
      PROVE  (\A d \in Dirs : ListsAll(d)') /\ Adopting(q)'
  BY <1>12 DEF GCExamine, Ownership, OwnTemporary, NotExtracting
<1>13. CASE RemoveAllOpen(p)
  BY <1>13 DEF RemoveAllOpen, Removed, Ownership, Targeted
<1>14. ASSUME NEW e \in Entries, RemoveAllUnlink(p, e)
      PROVE  (\A d \in Dirs : ListsAll(d)') /\ Adopting(q)'
  <2>1. /\ pc[p] = "unlink"
        /\ dir' = [dir EXCEPT ![rm[p]] =
                      IF e = Sentinel THEN Unsigned(@) ELSE WithFile(@, e, None)]
        /\ pc' = [pc EXCEPT ![p] = IF left[p] = {e} THEN "rmdir" ELSE "unlink"]
        /\ UNCHANGED <<at, temp, target, tmp, image, sn>>
    BY <1>14 DEF RemoveAllUnlink
  <2>2. ASSUME NEW d \in Dirs
        PROVE  /\ d # rm[p] => dir'[d] = dir[d]
               /\ dir'[d].mark = "parsed" =>
                     dir[d].mark = "parsed" /\ dir'[d].lists = dir[d].lists
               /\ \A f \in FileNames : dir'[d].files[f] \in {dir[d].files[f], None}
    <3>1. dir[d] \in Directory /\ dir[d].files \in [FileNames -> Images \cup {None, Altered}]
      BY DEF Directory
    <3>2. CASE e = Sentinel
      BY <2>1, <3>1, <3>2, SignedFields DEF Unsigned
    <3>3. CASE e \in FileNames
      <4>1. CASE d = rm[p]
        <5>1. dir'[d] = WithFile(dir[d], e, None)
          BY <2>1, <3>3, <4>1
        <5>2. /\ dir'[d].mark = dir[d].mark /\ dir'[d].lists = dir[d].lists
              /\ dir'[d].files = [dir[d].files EXCEPT ![e] = None]
          BY <3>1, <3>3, <5>1, FileFields
        <5>3. QED
          BY <3>1, <3>3, <4>1, <5>2
      <4>2. CASE d # rm[p]
        BY <2>1, <3>1, <4>2
      <4>3. QED
        BY <4>1, <4>2
    <3>4. QED
      BY <3>2, <3>3 DEF Entries
  <2>3. ASSUME NEW d \in Dirs PROVE ListsAll(d)'
    <3>1. SUFFICES ASSUME dir'[d].mark = "parsed"
                   PROVE  /\ dir'[d].lists = FileNames
                          /\ \E i \in Images :
                                \A f \in FileNames : dir'[d].files[f] \in {i, None}
      OBVIOUS
    <3>2. dir[d].mark = "parsed" /\ dir'[d].lists = dir[d].lists
      BY <2>2, <3>1
    <3>3. PICK i \in Images : \A f \in FileNames : dir[d].files[f] \in {i, None}
      BY <3>2
    <3>4. \A f \in FileNames : dir'[d].files[f] \in {i, None}
      BY <2>2, <3>3
    <3>5. dir[d].lists = FileNames
      BY <3>2
    <3>6. QED
      BY <3>2, <3>4, <3>5
  <2>4. Adopting(q)'
    <3>1. ASSUME pc[q] = "own", at[target[q]] \in Dirs
          PROVE  \E i \in Images : Uniform(at[target[q]], i)'
      <4>1. PICK i \in Images : Uniform(at[target[q]], i)
        BY <3>1
      <4>2. Uniform(at[target[q]], i)'
        BY <2>1, <2>2, <3>1, <4>1
      <4>3. QED
        BY <4>2
    <3>2. QED
      BY <2>1, <3>1
  <2>5. QED
    BY <2>3, <2>4
<1>15. CASE RemoveAllRmdir(p)
  <2>1. \A d \in Dirs : ListsAll(d)'
    BY <1>15 DEF RemoveAllRmdir, Removed, NotRemoved
  <2>2. Adopting(q)'
    BY <1>15, SMTT(30) DEF RemoveAllRmdir, Removed, NotRemoved, Ownership, Targeted
  <2>3. QED
    BY <2>1, <2>2
<1>16. CASE RemoveAllFails(p)
  BY <1>16 DEF RemoveAllFails, Fault, NotRemoved
<1>17. CASE Fill(p)
  BY <1>17 DEF Fill, Return
<1>18. ASSUME NEW d \in Dirs, MkdirTemp(p, d)
      PROVE  (\A x \in Dirs : ListsAll(x)') /\ Adopting(q)'
  <2>1. /\ dir' = [dir EXCEPT ![d] = Blank]
        /\ temp' = [temp EXCEPT ![d] = target[p]]
        /\ tmp' = [tmp EXCEPT ![p] = d]
        /\ pc[p] = "mkdir" /\ pc' = [pc EXCEPT ![p] = "open"]
        /\ UNCHANGED <<at, target, image, sn>>
        /\ \A n \in Names : at[n] # d
        /\ \A r \in Procs : tmp[r] # d
    BY <1>18 DEF MkdirTemp, Free
  <2>2. ASSUME NEW x \in Dirs PROVE ListsAll(x)'
    BY <2>1, SMTT(30) DEF Blank
  <2>3. Adopting(q)'
    BY <2>1, SMTT(30) DEF Ownership, Targeted
  <2>4. QED
    BY <2>2, <2>3
<1>19. CASE LockOpen(p)
  BY <1>19 DEF LockOpen, Return, Lost
<1>20. CASE Flock(p)
  BY <1>20 DEF Flock
<1>21. CASE LockStat(p)
  BY <1>21 DEF LockStat, Return, Lost
<1>22. CASE CreateFails(p)
  BY <1>22 DEF CreateFails, Return, Fault
<1>23. ASSUME NEW f \in FileNames, WriteFile(p, f)
      PROVE  (\A d \in Dirs : ListsAll(d)') /\ Adopting(q)'
  <2> DEFINE y == tmp[p]
  <2>1. /\ y \in Dirs /\ temp[y] # None /\ image[p] \in Images
        /\ pc[p] = "write"
        /\ dir' = [dir EXCEPT ![y] = WithFile(@, f, image[p])]
        /\ UNCHANGED <<at, temp, tmp, pc, target, image, sn>>
    BY <1>23 DEF WriteFile, Ownership, OwnTemporary, OwnName, Targeted, Extracting,
               Writing
  <2>2. /\ dir[y] \in Directory
        /\ dir[y].files \in [FileNames -> Images \cup {None, Altered}]
    BY <2>1 DEF Directory
  <2>3. /\ dir'[y].mark = dir[y].mark /\ dir'[y].lists = dir[y].lists
        /\ dir'[y].files = [dir[y].files EXCEPT ![f] = image[p]]
    BY <2>1, <2>2, FileFields
  <2>4. Uniform(y, image[p])'
    BY <2>1, <2>2, <2>3, SMTT(90) DEF Filling
  <2>5. ASSUME NEW d \in Dirs PROVE ListsAll(d)'
    BY <2>1, <2>3, <2>4, SMTT(30)
  <2>6. Adopting(q)'
    BY <2>1 DEF Hidden, Ownership, Targeted
  <2>7. QED
    BY <2>5, <2>6
<1>24. CASE StreamEnds(p)
  BY <1>24 DEF StreamEnds
<1>25. CASE StreamFails(p)
  BY <1>25 DEF StreamFails
<1>26. CASE WriteSentinel(p)
  <2> DEFINE y == tmp[p]
  <2>1. /\ y \in Dirs /\ temp[y] # None /\ image[p] \in Images
        /\ pc[p] = "sentinel" /\ pc' = [pc EXCEPT ![p] = "swap"]
        /\ dir' = [dir EXCEPT ![y] =
                      Signed(@, "parsed", Owner(p), image[p], Present(y))]
        /\ UNCHANGED <<at, temp, tmp, target, image, sn>>
    BY <1>26 DEF WriteSentinel, Ownership, OwnTemporary, OwnName, Targeted,
               Extracting, Writing
  <2>2. /\ \A g \in FileNames : dir[y].files[g] = image[p]
        /\ Present(y) = FileNames
    BY <2>1 DEF Filling, Present
  <2>3. /\ dir'[y].mark = "parsed" /\ dir'[y].lists = FileNames
        /\ dir'[y].files = dir[y].files
    BY <2>1, <2>2, SignedFields
  <2>4. Uniform(y, image[p])'
    BY <2>1, <2>2, <2>3
  <2>5. ASSUME NEW d \in Dirs PROVE ListsAll(d)'
    BY <2>1, <2>3, <2>4
  <2>6. Adopting(q)'
    BY <2>1 DEF Hidden, Ownership, Targeted
  <2>7. QED
    BY <2>5, <2>6
<1>27. CASE ExtractFails(p)
  BY <1>27 DEF ExtractFails, Fault
<1>28. CASE CheckSwap(p)
  BY <1>28 DEF CheckSwap
<1>29. CASE Rename(p)
  <2>1. /\ pc[p] = "rename" /\ tmp[p] \in Dirs
        /\ dir[tmp[p]].mark = "parsed"
    BY <1>29 DEF Rename, Ownership, OwnTemporary, Extracting, Filling
  <2>2. \E i \in Images : Uniform(tmp[p], i)
    BY <2>1
  <2>3. \A d \in Dirs : ListsAll(d)'
    BY <1>29 DEF Rename, Ownership, OwnTemporary, Extracting
  <2>4. Adopting(q)'
    <3>1. CASE pc[q] = "own" /\ at'[target[q]] = tmp[p]
      BY <1>29, <2>1, <2>2, <3>1 DEF Rename
    <3>2. CASE pc[q] = "own" /\ at'[target[q]] # tmp[p]
      <4>1. /\ UNCHANGED <<dir, target, sn>>
            /\ pc'[q] = "own"
            /\ target[p] \in Names /\ target[q] \in Names
            /\ at' = [at EXCEPT ![target[p]] = tmp[p]] \/ at' = at
        BY <1>29, <2>1, <3>2 DEF Rename, Ownership, Targeted
      <4>2. at'[target[q]] = at[target[q]]
        BY <3>2, <4>1
      <4>3. QED
        BY <3>2, <4>1, <4>2
    <3>3. CASE pc[q] # "own"
      BY <1>29, <3>3 DEF Rename
    <3>4. QED
      BY <3>1, <3>2, <3>3
  <2>5. QED
    BY <2>3, <2>4
<1>30. CASE Close(p)
  BY <1>30 DEF Close, Return
<1>31. CASE AbortClose(p)
  BY <1>31 DEF AbortClose
<1>32. CASE AbortRemove(p)
  <2> DEFINE y == tmp[p]
  <2>1. /\ y \in Dirs
        /\ temp' = [temp EXCEPT ![y] = None]
        /\ dir' = [dir EXCEPT ![y] = IF temp[y] = None THEN @ ELSE Blank]
        /\ UNCHANGED <<at, target, sn>>
    BY <1>32 DEF AbortRemove, Return, Ownership, OwnLock, OwnTemporary, Extracting
  <2>2. ASSUME NEW d \in Dirs PROVE ListsAll(d)'
    BY <2>1 DEF Blank
  <2>3. Adopting(q)'
    BY <1>32, <2>1 DEF AbortRemove, Return, Hidden, Ownership, Targeted
  <2>4. QED
    BY <2>2, <2>3
<1>33. CASE AbortRemoveFails(p)
  BY <1>33 DEF AbortRemoveFails, Return, Fault
<1>34. QED
  BY <1>1, <1>2, <1>3, <1>4, <1>5, <1>6, <1>7, <1>8, <1>9, <1>10, <1>11, <1>12, <1>13, <1>14, <1>15, <1>16, <1>17, <1>18, <1>19, <1>20, <1>21, <1>22, <1>23, <1>24, <1>25, <1>26, <1>27, <1>28, <1>29, <1>30, <1>31, <1>32, <1>33 DEF Step

\* Only tampering counts as tampering.
LEMMA StepSparesDamage == \A p \in Procs : Step(p) => damage' = damage
BY ZenonT(90) DEF Step, ImportState, SweepTemporaries, ImportFails, ScanDone, AdoptRead,
       AdoptWrite, AdoptFails, RemoveTemporaryOpen, RemoveTemporaryLock,
       RemoveTemporary, RemoveTemporaryFails, GCExamine, RemoveAllOpen,
       RemoveAllUnlink, RemoveAllRmdir, RemoveAllFails, Fill, MkdirTemp,
       LockOpen, Flock, LockStat, CreateFails, WriteFile, StreamEnds,
       StreamFails, WriteSentinel, ExtractFails, CheckSwap, Rename, Close,
       AbortClose, AbortRemove, AbortRemoveFails, Fault, bounds

\* Wholeness follows a step of the next-state relation.
LEMMA WholenessNext ==
    TypeOK /\ Ownership /\ Layout /\ Wholeness /\ [Next]_vars => Wholeness'
<1> SUFFICES ASSUME TypeOK, Ownership, Layout, Wholeness, [Next]_vars PROVE Wholeness'
  OBVIOUS
<1> USE EntryAssumption, BoundAssumption
    DEF TypeOK, Wholeness, Procs, Goto, disk, extraction, removal, scan, bounds
<1>1. ASSUME NEW p \in Commands, NEW n \in Names, NEW i \in Images,
             ImportBegin(p, n, i)
      PROVE  Wholeness'
  BY <1>1, SMTT(30) DEF ImportBegin, ListsAll, Uniform, Adopting
<1>2. ASSUME NEW n \in Names, NEW i \in Images, SyncBegin(n, i) PROVE Wholeness'
  BY <1>2 DEF SyncBegin, ListsAll, Uniform, Adopting
<1>3. ASSUME NEW n \in Names, AdoptBegin(n) PROVE Wholeness'
  BY <1>3, SMTT(30) DEF AdoptBegin, ListsAll, Uniform, Adopting
<1>4. ASSUME NEW keep \in Keeps, GCBegin(keep) PROVE Wholeness'
  BY <1>4 DEF GCBegin, ListsAll, Uniform, Adopting
<1>5. ASSUME NEW p \in Procs, Step(p) PROVE Wholeness'
  <2>1. damage' = damage
    BY <1>5, StepSparesDamage
  <2>2. damage = 0 => /\ \A d \in Dirs : ListsAll(d)'
                      /\ \A q \in Procs : Adopting(q)'
    BY <1>5, WholeStep
  <2>3. QED
    BY <2>1, <2>2
<1>6. ASSUME NEW p \in Procs, Crash(p) PROVE Wholeness'
  BY <1>6 DEF Crash, Fault, Return, ListsAll, Uniform, Adopting
<1>7. ASSUME NEW n \in Names, NEW kind \in DamageKinds, NEW f \in FileNames,
             Damage(n, kind, f)
      PROVE  Wholeness'
  BY <1>7 DEF Damage
<1>8. CASE UNCHANGED vars
  BY <1>8 DEF vars, ListsAll, Uniform, Adopting
<1>9. QED
  BY <1>1, <1>2, <1>3, <1>4, <1>5, <1>6, <1>7, <1>8 DEF Next

\* Wholeness holds at the start: what is found with a sentinel was published.
LEMMA WholenessInit == Init => Wholeness
<1> SUFFICES ASSUME Init PROVE Wholeness
  OBVIOUS
<1>1. PICK found \in [Names -> Found] :
        dir = [d \in Dirs |->
                  IF \E n \in Names : at[n] = d
                  THEN found[CHOOSE n \in Names : at[n] = d]
                  ELSE Blank]
  BY DEF Init
<1>2. ASSUME NEW d \in Dirs PROVE ListsAll(d)
  <2>1. CASE \E n \in Names : at[n] = d
    <3>1. (CHOOSE n \in Names : at[n] = d) \in Names
      BY <2>1
    <3>2. dir[d] \in Found
      BY <1>1, <2>1, <3>1
    <3>3. QED
      BY <3>2, FoundAssumption DEF ListsAll, Uniform
  <2>2. CASE ~ \E n \in Names : at[n] = d
    BY <1>1, <2>2 DEF ListsAll, Blank
  <2>3. QED
    BY <2>1, <2>2
<1>3. QED
  BY <1>2, EntryAssumption DEF Init, Wholeness, Adopting

\* Wholeness always holds.
LEMMA WholenessInvariant == Spec => []Wholeness
BY TypeCorrect, OwnershipInvariant, LayoutInvariant, WholenessInit, WholenessNext, PTL
   DEF Spec

\* CompleteIsWhole: without tampering, what State reports complete holds every
\* file of one image, whatever is interrupted or raced.
THEOREM CompleteWhole == Spec => []CompleteIsWhole
<1>1. TypeOK /\ Wholeness => CompleteIsWhole
  <2> SUFFICES ASSUME TypeOK, Wholeness, damage = 0,
                      NEW n \in Names, NamesComplete(n)
               PROVE  \E i \in Images :
                         \A f \in FileNames : dir[at[n]].files[f] = i
    BY DEF CompleteIsWhole
  <2>1. PICK i \in Images : Uniform(at[n], i)
    BY DEF NamesComplete, Wholeness, ListsAll
  <2>2. \A f \in FileNames : dir[at[n]].files[f] # None
    BY DEF NamesComplete, Wholeness, ListsAll, Present
  <2>3. QED
    BY <2>1, <2>2 DEF Uniform
<1>2. QED
  BY <1>1, TypeCorrect, WholenessInvariant, PTL

=============================================================================
