-------------------------- MODULE FSWatcherProofs ---------------------------
(***************************************************************************)
(* What holds of FSWatcher for any number of resources, and for any number *)
(* of changes, faults and directories made.                                *)
(***************************************************************************)
EXTENDS FSWatcher, TLAPS

\* Every step of a pass keeps the types.
LEMMA TypePass == TypeOK /\ Pass => TypeOK'
<1> SUFFICES ASSUME TypeOK, Pass PROVE TypeOK'
  OBVIOUS
<1> USE WatchAssumption
    DEF TypeOK, PCs, Event, AfterCheck, AfterSync, AfterPath, disk, watches, queue, pass, ghosts,
        bounds
<1>1. CASE Begin
  <2>1. queued' \in BOOLEAN /\ errs' \in BOOLEAN /\ outside' \in BOOLEAN
    BY <1>1 DEF Begin
  <2>2. QED
    BY <1>1, <2>1 DEF Begin
<1>2. ASSUME NEW n \in Names, MakeTemporary(n) PROVE TypeOK'
  BY <1>2 DEF MakeTemporary
<1>3. CASE Swap
  <2>1. made' \in 1 .. MaxInode /\ made' = made + 1
    BY <1>3 DEF Swap
  <2>2. ino' \in [Names -> 0 .. made'] /\ watch' \in [Names -> 0 .. made']
    BY <1>3, <2>1 DEF Swap
  <2>3. whole' \in SUBSET {n \in Names : ino'[n] # 0}
    BY <1>3, <2>1 DEF Swap
  <2>4. QED
    BY <1>3, <2>1, <2>2, <2>3 DEF Swap
<1>4. CASE ExtractFails
  <2>1. errs' \in BOOLEAN
    BY <1>4 DEF ExtractFails
  <2>2. QED
    BY <1>4, <2>1 DEF ExtractFails, Fault
<1>5. CASE ListPaths
  BY <1>5 DEF ListPaths
<1>6. CASE End
  <2>1. waiting' \in BOOLEAN /\ failed' \in BOOLEAN /\ armed' \in BOOLEAN
    BY <1>6 DEF End
  <2>2. QED
    BY <1>6, <2>1 DEF End
<1>7. ASSUME NEW n \in Names, Check(n) PROVE TypeOK'
  BY <1>7 DEF Check
<1>8. ASSUME NEW p \in Names \cup {Root}, AddPath(p) PROVE TypeOK'
  <2>1. rootWatch' \in BOOLEAN
    BY <1>8 DEF AddPath
  <2>2. QED
    BY <1>8, <2>1 DEF AddPath
<1>9. QED
  BY <1>1, <1>2, <1>3, <1>4, <1>5, <1>6, <1>7, <1>8 DEF Pass

\* A restart keeps the types.
LEMMA TypeStartOver ==
    ASSUME TypeOK, StartOver, UNCHANGED <<resync, changes>>, faults' \in 0 .. MaxFaults
    PROVE  TypeOK'
<1>1. /\ rootWatch' \in BOOLEAN /\ open' \in BOOLEAN /\ events' \in BOOLEAN
      /\ queued' \in BOOLEAN /\ waiting' \in BOOLEAN /\ errs' \in BOOLEAN
      /\ failed' \in BOOLEAN /\ armed' \in BOOLEAN
  BY DEF StartOver
<1>2. watch' \in [Names -> 0 .. made']
  BY DEF StartOver, TypeOK, disk
<1>3. QED
  BY <1>1, <1>2 DEF StartOver, TypeOK, PCs, disk

\* TypeOK: the types hold throughout, whatever is tampered with or fails.
THEOREM TypeCorrect == Spec => []TypeOK
<1>1. Init => TypeOK
  <2> SUFFICES ASSUME Init PROVE TypeOK
    OBVIOUS
  <2> USE WatchAssumption DEF Init
  <2>1. /\ rootWatch \in BOOLEAN /\ open \in BOOLEAN /\ events \in BOOLEAN
        /\ queued \in BOOLEAN /\ waiting \in BOOLEAN /\ errs \in BOOLEAN
        /\ failed \in BOOLEAN /\ armed \in BOOLEAN /\ outside \in BOOLEAN
        /\ resync \in BOOLEAN
    OBVIOUS
  <2>2. QED
    BY <2>1 DEF TypeOK, PCs
<1>2. TypeOK /\ [Next]_vars => TypeOK'
  <2> SUFFICES ASSUME TypeOK, [Next]_vars PROVE TypeOK'
    OBVIOUS
  <2> USE WatchAssumption
      DEF TypeOK, PCs, Event, Fault, AfterPath, disk, watches, queue, pass, ghosts, bounds
  <2>1. CASE Forward
    <3>1. events' \in BOOLEAN
      BY <2>1 DEF Forward, Start
    <3>2. QED
      BY <2>1, <3>1 DEF Forward, Start
  <2>2. CASE Enqueue \/ Requeue
    <3>1. /\ events' \in BOOLEAN /\ queued' \in BOOLEAN /\ waiting' \in BOOLEAN
          /\ failed' \in BOOLEAN
      BY <2>2 DEF Enqueue, Requeue
    <3>2. QED
      BY <2>2, <3>1, ZenonT(90) DEF Enqueue, Requeue
  <2>3. CASE Closed \/ Restart
    BY <2>3, TypeStartOver DEF Closed, Restart
  <2>4. ASSUME NEW n \in Names, TamperFile(n) \/ TamperDirectory(n) PROVE TypeOK'
    <3>1. outside' \in BOOLEAN
      BY <2>4 DEF TamperFile, TamperDirectory, Change
    <3>2. /\ ino' \in [Names -> 0 .. made']
          /\ whole' \in SUBSET {m \in Names : ino'[m] # 0}
      BY <2>4 DEF TamperFile, TamperDirectory, Change
    <3>3. changes' \in 0 .. MaxChanges /\ missed' \in SUBSET Names
      BY <2>4 DEF TamperFile, TamperDirectory, Change
    <3>4. inotify' \in SUBSET {"flat", "change"}
      BY <2>4 DEF TamperFile, TamperDirectory
    <3>5. QED
      BY <2>4, <3>1, <3>2, <3>3, <3>4 DEF TamperFile, TamperDirectory, Change
  <2>5. CASE WriteFlat \/ Overflow
    <3>1. changes' \in 0 .. MaxChanges /\ faults' \in 0 .. MaxFaults
      BY <2>5 DEF WriteFlat, Overflow
    <3>2. inotify' \in SUBSET {"flat", "change"}
      BY <2>5 DEF WriteFlat, Overflow
    <3>3. QED
      BY <2>5, <3>1, <3>2 DEF WriteFlat, Overflow
  <2>6. CASE WatcherCloses
    <3>1. open' \in BOOLEAN /\ rootWatch' \in BOOLEAN
      BY <2>6 DEF WatcherCloses
    <3>2. QED
      BY <2>6, <3>1 DEF WatcherCloses
  <2>7. CASE BeginFails
    <3>1. /\ queued' \in BOOLEAN /\ waiting' \in BOOLEAN /\ failed' \in BOOLEAN
          /\ outside' \in BOOLEAN
      BY <2>7 DEF BeginFails
    <3>2. QED
      BY <2>7, <3>1 DEF BeginFails
  <2>8. CASE ListPathsFails
    BY <2>8 DEF ListPathsFails
  <2>9. ASSUME NEW p \in Names \cup {Root}, AddPathFails(p) PROVE TypeOK'
    BY <2>9 DEF AddPathFails
  <2>10. CASE UNCHANGED vars
    BY <2>10 DEF vars
  <2>11. QED
    BY <2>1, <2>2, <2>3, <2>4, <2>5, <2>6, <2>7, <2>8, <2>9, <2>10, TypePass DEF Next
<1>3. QED
  BY <1>1, <1>2, PTL DEF Spec
-----------------------------------------------------------------------------

\* What is to be shown of a step that no fault has come before.
Kept == Watching /\ ChangesAreSeen

\* Every step of a pass keeps the watches, or an event instead.
LEMMA KeptPass ==
    ASSUME TypeOK, Kept, Pass, faults = 0, faults' = 0
    PROVE  Kept'
<1> USE WatchAssumption
    DEF TypeOK, Kept, Watching, ChangesAreSeen, Coming, Told, DirWatched, Event, PCs,
        AfterCheck, AfterSync, AfterPath, disk, watches, queue, pass, ghosts, bounds
<1>1. CASE Begin
  BY <1>1 DEF Begin
<1>2. ASSUME NEW n \in Names, MakeTemporary(n) PROVE Kept'
  BY <1>2 DEF MakeTemporary
<1>3. CASE Swap
  BY <1>3 DEF Swap
<1>4. CASE ExtractFails
  BY <1>4 DEF ExtractFails
<1>5. CASE ListPaths
  BY <1>5 DEF ListPaths
<1>6. CASE End
  BY <1>6 DEF End
<1>7. ASSUME NEW n \in Names, Check(n) PROVE Kept'
  BY <1>7 DEF Check
<1>8. ASSUME NEW p \in Names \cup {Root}, AddPath(p) PROVE Kept'
  BY <1>8 DEF AddPath
<1>9. QED
  BY <1>1, <1>2, <1>3, <1>4, <1>5, <1>6, <1>7, <1>8 DEF Pass

\* So does every other step.
LEMMA KeptNext == TypeOK /\ Kept /\ [Next]_vars => Kept'
<1> SUFFICES ASSUME TypeOK, Kept, [Next]_vars, faults' = 0 PROVE Kept'
  BY DEF Kept, Watching, ChangesAreSeen
<1>0. faults = 0
  BY WatchAssumption
     DEF TypeOK, Next, Pass, Begin, MakeTemporary, Swap, ExtractFails, ListPaths, End,
         Check, AddPath, Forward, Start, Enqueue, Requeue, Closed, TamperFile, TamperDirectory,
         Change, WriteFlat, Overflow, Restart, WatcherCloses, BeginFails, ListPathsFails,
         AddPathFails, Fault, bounds, vars
<1>1. CASE Pass
  BY <1>0, <1>1, KeptPass
<1> USE <1>0, WatchAssumption
    DEF TypeOK, Kept, Watching, ChangesAreSeen, Coming, Told, DirWatched, Event, Fault,
        disk, watches, queue, pass, ghosts, bounds
<1>2. CASE Forward
  <2>1. PICK kind \in {"flat", "change"} : Start(kind)
    BY <1>2 DEF Forward
  <2>2. Told => "change" \in inotify' \/ events' \/ queued'
    BY <2>1 DEF Start
  <2>3. UNCHANGED <<ino, whole, rootWatch, watch, open, waiting, pc, todo, due, cur, errs,
                    armed, missed, faults>>
    BY <2>1 DEF Start
  <2>4. QED
    BY <2>2, <2>3
<1>3. CASE Enqueue
  BY <1>3 DEF Enqueue
<1>4. CASE Requeue
  BY <1>4 DEF Requeue
<1>5. ASSUME NEW n \in Names, TamperFile(n) PROVE Kept'
  BY <1>5 DEF TamperFile, Change
<1>6. ASSUME NEW n \in Names, TamperDirectory(n) PROVE Kept'
  BY <1>6 DEF TamperDirectory, Change
<1>7. CASE WriteFlat
  BY <1>7 DEF WriteFlat
<1>8. CASE \/ Closed \/ Overflow \/ Restart \/ WatcherCloses \/ BeginFails \/ ListPathsFails
           \/ \E p \in Names \cup {Root} : AddPathFails(p)
  BY <1>8 DEF Closed, Overflow, Restart, WatcherCloses, BeginFails, ListPathsFails,
              AddPathFails
<1>9. CASE UNCHANGED vars
  BY <1>9 DEF vars
<1>10. QED
  BY <1>1, <1>2, <1>3, <1>4, <1>5, <1>6, <1>7, <1>8, <1>9 DEF Next

\* ChangesAreSeen: as long as inotify loses nothing, no change on disk goes
\* unseen once the first pass has set the watches, whenever it comes between
\* the swap, the end of a watch and SetPaths, for any number of resources.
THEOREM NoChangeMissed == Spec => []ChangesAreSeen
<1>1. Init => Kept
  BY DEF Init, Kept, Watching, ChangesAreSeen, Coming, Told, DirWatched
<1>2. Kept => ChangesAreSeen
  BY DEF Kept
<1>3. QED
  BY <1>1, <1>2, TypeCorrect, KeptNext, PTL DEF Spec
=============================================================================
