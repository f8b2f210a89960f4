-------------------------- MODULE CacheRaceProofs ---------------------------
(***************************************************************************)
(* Why writers that race for a name leave it filled, for any number of     *)
(* commands, names, images and directories.                                *)
(***************************************************************************)
EXTENDS CacheStoreProofs

\* What else a step of one process leaves alone of another.
LEMMA StepFrameToo ==
    ASSUME NEW p \in Procs, TypeOK, Step(p), NEW q \in Procs \ {p}
    PROVE  left'[q] = left[q] /\ todo'[q] = todo[q] /\ res'[q] = res[q]
BY ZenonT(90) DEF TypeOK, Step, ImportState, SweepTemporaries, ImportFails, ScanDone,
       AdoptRead, AdoptWrite, AdoptFails, RemoveTemporaryOpen,
       RemoveTemporaryLock, RemoveTemporary, RemoveTemporaryFails, GCExamine,
       RemoveAllOpen, RemoveAllUnlink, RemoveAllRmdir, RemoveAllFails, Fill,
       MkdirTemp, LockOpen, Flock, LockStat, CreateFails, WriteFile,
       StreamEnds, StreamFails, WriteSentinel, ExtractFails, CheckSwap, Rename,
       Close, AbortClose, AbortRemove, AbortRemoveFails, Goto, Return, Lost,
       Removed, NotRemoved, extraction, removal, scan

\* A step of a process meets one failed call at most.
LEMMA StepFaults ==
    ASSUME NEW p \in Procs, Step(p)
    PROVE  faults' = faults \/ faults' = faults + 1
BY ZenonT(90)
   DEF Step, ImportState, SweepTemporaries, ImportFails, ScanDone, AdoptRead,
       AdoptWrite, AdoptFails, RemoveTemporaryOpen, RemoveTemporaryLock,
       RemoveTemporary, RemoveTemporaryFails, GCExamine, RemoveAllOpen,
       RemoveAllUnlink, RemoveAllRmdir, RemoveAllFails, Fill, MkdirTemp,
       LockOpen, Flock, LockStat, CreateFails, WriteFile, StreamEnds,
       StreamFails, WriteSentinel, ExtractFails, CheckSwap, Rename, Close,
       AbortClose, AbortRemove, AbortRemoveFails, Fault, bounds

\* A directory that is no temporary changes only by an adoption or an unlink.
LEMMA DirMoves ==
    ASSUME NEW p \in Procs, TypeOK, Ownership, Layout, Step(p), NEW d \in Dirs,
           temp[d] = None, ~Free(d)
    PROVE  \/ dir'[d] = dir[d]
           \/ AgentSigned(d)' /\ dir'[d].files = dir[d].files
           \/ \E e \in Entries : RemoveAllUnlink(p, e) /\ rm[p] = d
<1> USE EntryAssumption DEF TypeOK
<1>1. CASE UNCHANGED disk \/ RemoveAllOpen(p) \/ RemoveAllRmdir(p) \/ Rename(p)
  BY <1>1 DEF disk, RemoveAllOpen, RemoveAllRmdir, Rename
<1>2. CASE AdoptWrite(p)
  <2>1. CASE dir' = dir
    BY <2>1
  <2>2. CASE /\ at[target[p]] \in Dirs
             /\ dir' = [dir EXCEPT ![at[target[p]]] =
                           Signed(@, "parsed", "agent", sn.image, sn.lists)]
    <3>1. CASE d = at[target[p]]
      <4>1. dir'[d] = Signed(dir[d], "parsed", "agent", sn.image, sn.lists)
        BY <2>2, <3>1
      <4>2. /\ dir'[d].mark = "parsed" /\ dir'[d].owner = "agent"
            /\ dir'[d].files = dir[d].files
        BY <4>1 DEF Signed, Directory
      <4>3. QED
        BY <4>2 DEF AgentSigned
    <3>2. CASE d # at[target[p]]
      BY <2>2, <3>2
    <3>3. QED
      BY <3>1, <3>2
  <2>3. QED
    BY <1>2, <2>1, <2>2 DEF AdoptWrite
<1>3. CASE RemoveTemporary(p)
  BY <1>3 DEF RemoveTemporary
<1>4. ASSUME NEW e \in Entries, RemoveAllUnlink(p, e)
      PROVE  dir'[d] = dir[d] \/ rm[p] = d
  BY <1>4 DEF RemoveAllUnlink
<1>5. ASSUME NEW x \in Dirs, MkdirTemp(p, x) PROVE dir'[d] = dir[d]
  BY <1>5 DEF MkdirTemp
<1>6. pc[p] \in {"write", "sentinel"} => tmp[p] # d
  BY DEF Ownership, OwnName, OwnTemporary, Targeted, Writing, Extracting
<1>7. ASSUME NEW f \in FileNames, WriteFile(p, f) PROVE dir'[d] = dir[d]
  BY <1>6, <1>7 DEF WriteFile
<1>8. CASE WriteSentinel(p)
  BY <1>6, <1>8 DEF WriteSentinel
<1>9. CASE AbortRemove(p)
  BY <1>9 DEF AbortRemove
<1>10. QED
  BY <1>1, <1>2, <1>3, <1>4, <1>5, <1>7, <1>8, <1>9, StepDisk

\* A name is cleared by a removal, which goes on to its rename, and filled by
\* a rename.
LEMMA AtMoves ==
    ASSUME NEW p \in Procs, TypeOK, Ownership, Layout, Step(p)
    PROVE  \/ at' = at
           \/ /\ target[p] \in Names
              /\ at' = [at EXCEPT ![target[p]] = None]
              /\ target' = target
              /\ tmp[p] # None => pc'[p] = "rename"
              /\ pc[p] \in {"clear", "rmdir"}
           \/ at' # at /\ Rename(p)
<1> USE EntryAssumption DEF TypeOK
<1>1. CASE at' # at /\ (RemoveAllOpen(p) \/ RemoveAllRmdir(p))
  <2>1. target[p] \in Names /\ at' = [at EXCEPT ![target[p]] = None] /\ target' = target
        /\ pc[p] \in {"clear", "rmdir"}
    BY <1>1 DEF RemoveAllOpen, RemoveAllRmdir, Ownership, Targeted
  <2>2. tmp[p] # None => pc'[p] = "rename"
    BY <1>1 DEF RemoveAllOpen, RemoveAllRmdir, Removed, NotRemoved, Goto
  <2>3. QED
    BY <2>1, <2>2
<1>2. QED
  BY <1>1, StepDisk
  DEF disk, AdoptWrite, RemoveTemporary, RemoveAllUnlink, MkdirTemp, WriteFile,
      WriteSentinel, AbortRemove

\* One unlink takes one entry away.
LEMMA UnlinkTakes ==
    ASSUME NEW p \in Procs, TypeOK, NEW e \in Entries, RemoveAllUnlink(p, e),
           rm[p] \in Dirs
    PROVE  /\ Present(rm[p])' = Present(rm[p]) \ {e}
           /\ e = Sentinel => dir'[rm[p]].mark = "none"
           /\ e # Sentinel => /\ dir'[rm[p]].mark = dir[rm[p]].mark
                              /\ dir'[rm[p]].owner = dir[rm[p]].owner
           /\ \A d \in Dirs \ {rm[p]} : dir'[d] = dir[d]
           /\ rm' = rm /\ at' = at /\ target' = target /\ tmp' = tmp
           /\ left' = [left EXCEPT ![p] = @ \ {e}]
           /\ pc'[p] = IF left[p] = {e} THEN "rmdir" ELSE "unlink"
<1> USE EntryAssumption DEF TypeOK
<1> DEFINE d == rm[p]
<1>0. dir[d] \in Directory /\ dir[d].files \in [FileNames -> Images \cup {None, Altered}]
  BY DEF Directory
<1>1. /\ rm' = rm /\ at' = at /\ target' = target /\ tmp' = tmp
      /\ left' = [left EXCEPT ![p] = @ \ {e}]
      /\ pc'[p] = IF left[p] = {e} THEN "rmdir" ELSE "unlink"
      /\ dir' = [dir EXCEPT ![d] =
                    IF e = Sentinel THEN Unsigned(@) ELSE WithFile(@, e, None)]
  BY DEF RemoveAllUnlink, Goto, extraction
<1>2. CASE e = Sentinel
  <2>1. dir'[d] = Unsigned(dir[d])
    BY <1>1, <1>2
  <2>2. dir'[d].mark = "none" /\ dir'[d].files = dir[d].files
    BY <1>0, <2>1, SignedFields DEF Unsigned
  <2>3. Present(rm[p])' = Present(rm[p])
    BY <1>1, <2>2 DEF Present
  <2>4. Sentinel \notin Present(rm[p])
    BY DEF Present
  <2>5. QED
    BY <1>1, <1>2, <2>2, <2>3, <2>4
<1>3. CASE e # Sentinel
  <2>0. e \in FileNames
    BY <1>3 DEF Entries
  <2>1. dir'[d] = WithFile(dir[d], e, None)
    BY <1>1, <1>3
  <2>2. /\ dir'[d].mark = dir[d].mark /\ dir'[d].owner = dir[d].owner
        /\ dir'[d].files = [dir[d].files EXCEPT ![e] = None]
    <3>1. WithFile(dir[d], e, None).owner = dir[d].owner
      BY <1>0 DEF WithFile, Directory
    <3>2. QED
      BY <1>0, <2>0, <2>1, <3>1, FileFields
  <2>3. Present(rm[p])' = {f \in FileNames : dir'[d].files[f] # None}
    BY <1>1 DEF Present
  <2>4. Present(rm[p])' = Present(rm[p]) \ {e}
    BY <1>0, <2>0, <2>2, <2>3 DEF Present
  <2>5. QED
    BY <1>1, <1>3, <2>2, <2>4
<1>4. QED
  BY <1>2, <1>3

\* What is being removed is no temporary, and in use.
LEMMA RemovedInUse ==
    ASSUME NEW q \in Procs, Layout, rm[q] \in Dirs
    PROVE  temp[rm[q]] = None /\ ~Free(rm[q])
BY DEF Layout, Hidden, Free

\* So is what is under a name.
LEMMA NamedInUse ==
    ASSUME NEW n \in Names, Layout, at[n] \in Dirs
    PROVE  temp[at[n]] = None /\ ~Free(at[n])
BY DEF Layout, Hidden, Free

\* Every step keeps what each RemoveAll has yet to unlink.
LEMMA EmptyingStep ==
    ASSUME NEW p \in Procs, TypeOK, Ownership, Layout, Step(p),
           \A q \in Procs : Emptying(q)
    PROVE  \A q \in Procs : Emptying(q)'
<1> SUFFICES ASSUME NEW q \in Procs PROVE Emptying(q)'
  OBVIOUS
<1> USE EntryAssumption
<1>1. CASE q # p
  <2>1. pc'[q] = pc[q] /\ rm'[q] = rm[q] /\ left'[q] = left[q]
    BY <1>1, StepFrame, StepFrameToo
  <2>2. CASE pc[q] \in {"unlink", "rmdir"}
    <3>p. PICK d \in Dirs : d = rm[q]
      BY <2>2 DEF Emptying
    <3>0. /\ d = rm[q] /\ Present(d) \subseteq left[q]
          /\ dir[d].mark = "none" \/ Sentinel \in left[q] \/ AgentSigned(d)
          /\ pc[q] = "rmdir" => left[q] = {}
      BY <2>2, <3>p DEF Emptying
    <3>1. \/ dir'[d] = dir[d]
          \/ AgentSigned(d)' /\ dir'[d].files = dir[d].files
          \/ \E e \in Entries : RemoveAllUnlink(p, e) /\ rm[p] = d
      BY <3>0, RemovedInUse, DirMoves
    <3>3. Present(rm[q])' = {f \in FileNames : dir'[d].files[f] # None}
      BY <2>1, <3>0 DEF Present
    <3>4. ASSUME dir'[d] = dir[d]
          PROVE  /\ Present(rm[q])' \subseteq left[q]
                 /\ \/ dir'[d].mark = "none"
                    \/ Sentinel \in left[q]
                    \/ dir'[d].mark = "parsed" /\ dir'[d].owner = "agent"
      BY <3>0, <3>3, <3>4 DEF Present, AgentSigned
    <3>5. ASSUME AgentSigned(d)', dir'[d].files = dir[d].files
          PROVE  /\ Present(rm[q])' \subseteq left[q]
                 /\ \/ dir'[d].mark = "none"
                    \/ Sentinel \in left[q]
                    \/ dir'[d].mark = "parsed" /\ dir'[d].owner = "agent"
      BY <2>1, <3>0, <3>3, <3>5 DEF Present, AgentSigned
    <3>6. ASSUME NEW e \in Entries, RemoveAllUnlink(p, e), rm[p] = d
          PROVE  /\ Present(rm[q])' \subseteq left[q]
                 /\ \/ dir'[d].mark = "none"
                    \/ Sentinel \in left[q]
                    \/ dir'[d].mark = "parsed" /\ dir'[d].owner = "agent"
      <4>1. /\ Present(rm[p])' = Present(rm[p]) \ {e}
            /\ e = Sentinel => dir'[d].mark = "none"
            /\ e # Sentinel => dir'[d].mark = dir[d].mark /\ dir'[d].owner = dir[d].owner
            /\ rm' = rm
        BY <3>0, <3>6, UnlinkTakes
      <4>2. Present(rm[q])' = Present(rm[p])'
        BY <3>0, <3>6, <4>1 DEF Present
      <4>3. QED
        BY <3>0, <3>6, <4>1, <4>2 DEF AgentSigned
    <3>7. /\ Present(rm[q])' \subseteq left[q]
          /\ \/ dir'[d].mark = "none"
             \/ Sentinel \in left[q]
             \/ dir'[d].mark = "parsed" /\ dir'[d].owner = "agent"
      BY <3>1, <3>4, <3>5, <3>6
    <3>8. /\ rm'[q] \in Dirs
          /\ Present(rm[q])' \subseteq left'[q]
          /\ \/ dir'[rm'[q]].mark = "none"
             \/ Sentinel \in left'[q]
             \/ dir'[rm'[q]].mark = "parsed" /\ dir'[rm'[q]].owner = "agent"
          /\ pc'[q] = "rmdir" => left'[q] = {}
      BY <2>1, <3>0, <3>7
    <3>9. QED
      BY <3>8 DEF Emptying, AgentSigned
  <2>3. QED
    BY <2>1, <2>2 DEF Emptying
<1>2. CASE q = p
  <2>1. CASE pc'[p] \in {"unlink", "rmdir"}
    <3>1. (RemoveAllOpen(p) /\ pc'[p] = "unlink") \/ \E e \in Entries : RemoveAllUnlink(p, e)
      <4>1. RemoveAllOpen(p) => pc'[p] # "rmdir"
        BY DEF RemoveAllOpen, Removed, Goto, TypeOK
      <4>2. RemoveAllRmdir(p) => pc'[p] \notin {"unlink", "rmdir"}
        BY DEF RemoveAllRmdir, Removed, NotRemoved, Goto, TypeOK
      <4>3. QED
        BY <2>1, <4>1, <4>2, StepLeadsTo
    <3>2. CASE RemoveAllOpen(p) /\ pc'[p] = "unlink"
      <4>1. /\ at[target[p]] \in Dirs
            /\ rm'[p] = at[target[p]] /\ dir' = dir
            /\ left'[p] = Present(at[target[p]]) \cup
                   (IF dir[at[target[p]]].mark = "none" THEN {} ELSE {Sentinel})
        BY <3>2 DEF RemoveAllOpen, Removed, Goto, TypeOK
      <4>2. Present(rm[p])' = Present(at[target[p]])
        BY <4>1 DEF Present
      <4>3. QED
        BY <1>2, <3>2, <4>1, <4>2 DEF Emptying
    <3>3. ASSUME NEW e \in Entries, RemoveAllUnlink(p, e) PROVE Emptying(p)'
      <4>0. pc[p] = "unlink"
        BY <3>3 DEF RemoveAllUnlink
      <4>1. /\ rm[p] \in Dirs /\ Present(rm[p]) \subseteq left[p]
            /\ dir[rm[p]].mark = "none" \/ Sentinel \in left[p] \/ AgentSigned(rm[p])
        BY <4>0 DEF Emptying
      <4>2. /\ Present(rm[p])' = Present(rm[p]) \ {e}
            /\ e = Sentinel => dir'[rm[p]].mark = "none"
            /\ e # Sentinel => /\ dir'[rm[p]].mark = dir[rm[p]].mark
                               /\ dir'[rm[p]].owner = dir[rm[p]].owner
            /\ rm'[p] = rm[p]
            /\ left'[p] = left[p] \ {e}
            /\ pc'[p] = IF left[p] = {e} THEN "rmdir" ELSE "unlink"
        BY <3>3, <4>1, UnlinkTakes DEF TypeOK
      <4>3. Present(rm[p])' \subseteq left'[p]
        BY <4>1, <4>2
      <4>4. \/ dir'[rm'[p]].mark = "none"
            \/ Sentinel \in left'[p]
            \/ dir'[rm'[p]].mark = "parsed" /\ dir'[rm'[p]].owner = "agent"
        BY <4>1, <4>2 DEF AgentSigned
      <4>5. pc'[p] = "rmdir" => left'[p] = {}
        BY <4>2
      <4>6. rm'[p] \in Dirs
        BY <4>1, <4>2
      <4>7. QED
        BY <4>3, <4>4, <4>5, <4>6 DEF Emptying, AgentSigned
    <3>4. QED
      BY <1>2, <3>1, <3>2, <3>3
  <2>2. QED
    BY <1>2, <2>1 DEF Emptying
<1>3. QED
  BY <1>1, <1>2

\* Every step keeps GC away from the names that are retained.
LEMMA SwappingStep ==
    ASSUME NEW p \in Procs, TypeOK, Ownership, Step(p), \A q \in Procs : Swapping(q)
    PROVE  \A q \in Procs : Swapping(q)'
<1> SUFFICES ASSUME NEW q \in Procs PROVE Swapping(q)'
  OBVIOUS
<1> USE EntryAssumption
<1>1. CASE q # p
  BY <1>1, StepFrame, StepFrameToo DEF Swapping
<1>2. CASE q = p
  <2>e. ASSUME NEW n \in Names, GCExamine(p, n) PROVE Swapping(p)'
    <3>1. n \notin Retained /\ tmp' = tmp /\ pc[p] = "scan" /\ p = Agent
      BY <2>e DEF GCExamine, Swapping, extraction
    <3>2. todo'[p] \cap Retained = {}
      BY <2>e DEF GCExamine, Swapping, TypeOK
    <3>3. \/ pc'[p] = "scan" /\ target'[p] = target[p]
          \/ pc'[p] = "clear" /\ target'[p] = n
      BY <2>e, <3>1 DEF GCExamine, Goto, TypeOK
    <3>4. QED
      BY <3>1, <3>2, <3>3 DEF Swapping
  <2>0. SUFFICES ASSUME \A n \in Names : ~GCExamine(p, n) PROVE Swapping(p)'
    BY <1>2, <2>e
  <2>1. todo'[p] \cap Retained = {}
    <3>1. Retained \subseteq Names
      BY DEF Retained
    <3>2. QED
      BY <2>0, <3>1, SMTT(90)
      DEF Swapping, TypeOK, Step, ImportState, SweepTemporaries, ImportFails, ScanDone,
          AdoptRead, AdoptWrite, AdoptFails, RemoveTemporaryOpen,
          RemoveTemporaryLock, RemoveTemporary, RemoveTemporaryFails,
          RemoveAllOpen, RemoveAllUnlink, RemoveAllRmdir, RemoveAllFails, Fill,
          MkdirTemp, LockOpen, Flock, LockStat, CreateFails, WriteFile,
          StreamEnds, StreamFails, WriteSentinel, ExtractFails, CheckSwap, Rename,
          Close, AbortClose, AbortRemove, AbortRemoveFails, scan
  <2>2. pc'[p] \in {"clear", "unlink", "rmdir"} /\ target'[p] \in Retained
          => tmp'[p] # None
    <3>1. CheckSwap(p) => tmp'[p] # None
      BY DEF CheckSwap, extraction, Ownership, OwnTemporary, Extracting
    <3>2. RemoveAllOpen(p) \/ (\E e \in Entries : RemoveAllUnlink(p, e))
          => (target'[p] \in Retained => tmp'[p] # None)
      BY DEF RemoveAllOpen, RemoveAllUnlink, extraction, Swapping
    <3>3. RemoveAllRmdir(p) => (target'[p] \in Retained => tmp'[p] # None)
      BY DEF RemoveAllRmdir, extraction, Swapping
    <3>4. QED
      BY <2>0, <3>1, <3>2, <3>3, StepLeadsTo
  <2>3. p = Agent =>
            /\ pc'[p] \notin {"state", "sweep"}
            /\ pc'[p] \in {"scan", "rtlock", "rtremove"} => target'[p] \notin Retained
    <3> SUFFICES ASSUME p = Agent
                 PROVE  /\ pc'[p] \notin {"state", "sweep"}
                        /\ pc'[p] \in {"scan", "rtlock", "rtremove"} => target'[p] \notin Retained
      OBVIOUS
    <3>0. /\ pc[p] \in {"clear", "unlink", "rmdir"} /\ target[p] \in Retained => tmp[p] # None
          /\ pc[p] \notin {"state", "sweep"}
          /\ pc[p] \in {"scan", "rtlock", "rtremove"} => target[p] \notin Retained
      BY DEF Swapping
    <3>1. ~ImportState(p) /\ ~SweepTemporaries(p) /\ ~ImportFails(p)
      BY <3>0 DEF ImportState, SweepTemporaries, ImportFails
    <3> USE <3>0 DEF TypeOK, Goto, Return
    <3>2. CASE ScanDone(p) \/ AdoptRead(p) \/ AdoptWrite(p) \/ AdoptFails(p)
      BY <3>2, ProcAssumption DEF ScanDone, AdoptRead, AdoptWrite, AdoptFails
    <3>3. CASE RemoveTemporaryLock(p) \/ RemoveTemporary(p) \/ RemoveTemporaryFails(p)
      BY <3>3 DEF RemoveTemporaryLock, RemoveTemporary, RemoveTemporaryFails
    <3>4. ASSUME NEW d \in Dirs, RemoveTemporaryOpen(p, d) \/ MkdirTemp(p, d)
          PROVE  /\ pc'[p] \notin {"state", "sweep"}
                 /\ pc'[p] \in {"scan", "rtlock", "rtremove"} => target'[p] \notin Retained
      BY <3>4 DEF RemoveTemporaryOpen, MkdirTemp
    <3>5. CASE RemoveAllOpen(p) \/ RemoveAllRmdir(p) \/ RemoveAllFails(p)
      BY <3>5 DEF RemoveAllOpen, RemoveAllRmdir, RemoveAllFails, Removed, NotRemoved
    <3>6. CASE \E e \in Entries : RemoveAllUnlink(p, e)
      BY <3>6 DEF RemoveAllUnlink
    <3>7. CASE Fill(p) \/ LockOpen(p) \/ Flock(p) \/ LockStat(p) \/ CreateFails(p)
      BY <3>7 DEF Fill, LockOpen, Flock, LockStat, CreateFails, Lost
    <3>8. CASE \E f \in FileNames : WriteFile(p, f)
      BY <3>8 DEF WriteFile
    <3>9. CASE StreamEnds(p) \/ StreamFails(p) \/ WriteSentinel(p) \/ ExtractFails(p)
      BY <3>9 DEF StreamEnds, StreamFails, WriteSentinel, ExtractFails
    <3>10. CASE CheckSwap(p) \/ Rename(p) \/ Close(p)
      BY <3>10 DEF CheckSwap, Rename, Close
    <3>11. CASE AbortClose(p) \/ AbortRemove(p) \/ AbortRemoveFails(p)
      BY <3>11 DEF AbortClose, AbortRemove, AbortRemoveFails
    <3>12. QED
      BY <2>0, <3>1, <3>2, <3>3, <3>4, <3>5, <3>6, <3>7, <3>8, <3>9, <3>10, <3>11
      DEF Step
  <2>4. QED
    BY <1>2, <2>1, <2>2, <2>3 DEF Swapping
<1>3. QED
  BY <1>1, <1>2

-----------------------------------------------------------------------------

\* A rename that takes place fills the name.
LEMMA RenameFills ==
    ASSUME NEW p \in Procs, TypeOK, Ownership, Layout, Wholeness, damage = 0,
           Rename(p), pc'[p] = "done", NEW n \in Names, target[p] = n
    PROVE  NamesComplete(n)'
<1> USE EntryAssumption DEF TypeOK
<1>1. /\ pc[p] = "rename" /\ dir' = dir
      /\ at' = [at EXCEPT ![n] = tmp[p]]
  BY DEF Rename, Goto
<1>2. tmp[p] \in Dirs /\ tmp[p] # None
  BY <1>1 DEF Ownership, OwnTemporary, Extracting
<1>3. /\ image[p] \in Images
      /\ \A f \in FileNames : dir[tmp[p]].files[f] = image[p]
      /\ dir[tmp[p]].mark = "parsed"
  BY <1>1, <1>2 DEF Layout, Filling
<1>4. dir[tmp[p]].lists = FileNames
  BY <1>2, <1>3 DEF Wholeness, ListsAll
<1>5. at'[n] = tmp[p]
  BY <1>1
<1>6. QED
  BY <1>1, <1>2, <1>3, <1>4, <1>5 DEF NamesComplete, Present

\* With no failed system call, a step reports success only of a name it found
\* or left filled.
LEMMA NewSuccess ==
    ASSUME NEW p \in Procs, TypeOK, Ownership, Layout, Wholeness, damage = 0,
           faults = 0, faults' = 0, Swapping(p), Step(p),
           NEW n \in Retained, Succeeded(n)'
    PROVE  Succeeded(n) \/ Filled(n)'
<1>0. n \in Names
  BY DEF Retained
<1>1. PICK q \in Procs : target'[q] = n /\ (res'[q] = "ok" \/ pc'[q] = "done")
  BY DEF Succeeded
<1>2. CASE q # p
  BY <1>1, <1>2, StepFrame, StepFrameToo DEF Succeeded
<1>3. CASE q = p
  <2>0. target'[p] = n /\ (res'[p] = "ok" \/ pc'[p] = "done")
    BY <1>1, <1>3
  <2> SUFFICES \/ target[p] = n /\ (res[p] = "ok" \/ pc[p] = "done")
               \/ Filled(n)'
    BY DEF Succeeded
  <2> USE EntryAssumption, <1>0, <2>0 DEF TypeOK, Goto, Return
  <2>1. CASE ImportState(p)
    <3>1. target[p] = n /\ at' = at /\ dir' = dir
      BY <2>1 DEF ImportState, disk
    <3>2. res'[p] = res[p] \/ NamesComplete(n)
      BY <2>1, <3>1 DEF ImportState
    <3>3. pc'[p] # "done"
      BY <2>1 DEF ImportState
    <3>4. NamesComplete(n) => NamesComplete(n)'
      BY <3>1 DEF NamesComplete, Present
    <3>5. QED
      BY <3>1, <3>2, <3>3, <3>4 DEF Filled
  <2>2. CASE ScanDone(p)
    <3>1. p = Agent => target[p] \notin Retained
      BY <2>2 DEF ScanDone, Swapping
    <3>2. QED
      BY <2>2, <3>1 DEF ScanDone
  <2>3. CASE AdoptWrite(p)
    <3>1. target[p] = n /\ at' = at /\ pc'[p] # "done"
      BY <2>3 DEF AdoptWrite
    <3>2. /\ at[n] \in Dirs
          /\ dir' = [dir EXCEPT ![at[n]] =
                        Signed(@, "parsed", "agent", sn.image, sn.lists)]
      BY <2>3, <3>1 DEF AdoptWrite
    <3>3. dir'[at[n]] = Signed(dir[at[n]], "parsed", "agent", sn.image, sn.lists)
      BY <3>2
    <3>4. dir'[at[n]].mark = "parsed" /\ dir'[at[n]].owner = "agent"
      BY <3>2, <3>3 DEF Signed, Directory
    <3>5. QED
      BY <3>1, <3>2, <3>4 DEF Filled, AgentSigned
  <2>4. CASE Rename(p)
    <3>1. target[p] = n /\ res' = res
      BY <2>4 DEF Rename
    <3>2. pc'[p] = "done" => NamesComplete(n)'
      BY <2>4, <3>1, RenameFills
    <3>3. QED
      BY <3>1, <3>2 DEF Filled
  <2>5. CASE Close(p)
    BY <2>5 DEF Close
  <2>6. CASE SweepTemporaries(p) \/ AdoptRead(p)
    BY <2>6 DEF SweepTemporaries, AdoptRead
  <2>7. CASE ImportFails(p) \/ AdoptFails(p) \/ RemoveTemporaryFails(p) \/ RemoveAllFails(p)
    BY <2>7 DEF ImportFails, AdoptFails, RemoveTemporaryFails, RemoveAllFails, Fault
  <2>8. CASE CreateFails(p) \/ ExtractFails(p) \/ AbortRemoveFails(p)
    BY <2>8 DEF CreateFails, ExtractFails, AbortRemoveFails, Fault
  <2>9. CASE RemoveTemporaryLock(p) \/ RemoveTemporary(p)
    BY <2>9 DEF RemoveTemporaryLock, RemoveTemporary
  <2>10. CASE \E d \in Dirs : RemoveTemporaryOpen(p, d) \/ MkdirTemp(p, d)
    BY <2>10 DEF RemoveTemporaryOpen, MkdirTemp
  <2>11. CASE \E m \in Names : GCExamine(p, m)
    BY <2>11 DEF GCExamine, Swapping
  <2>12. CASE RemoveAllOpen(p) \/ RemoveAllRmdir(p)
    BY <2>12 DEF RemoveAllOpen, RemoveAllRmdir, Removed, NotRemoved
  <2>13. CASE \E e \in Entries : RemoveAllUnlink(p, e)
    BY <2>13 DEF RemoveAllUnlink
  <2>14. CASE Fill(p) \/ LockOpen(p) \/ Flock(p) \/ LockStat(p)
    BY <2>14 DEF Fill, LockOpen, Flock, LockStat, Lost
  <2>15. CASE \E f \in FileNames : WriteFile(p, f)
    BY <2>15 DEF WriteFile
  <2>16. CASE StreamEnds(p) \/ StreamFails(p) \/ WriteSentinel(p) \/ CheckSwap(p)
    BY <2>16 DEF StreamEnds, StreamFails, WriteSentinel, CheckSwap
  <2>17. CASE AbortClose(p) \/ AbortRemove(p)
    BY <2>17 DEF AbortClose, AbortRemove
  <2>18. QED
    BY <2>1, <2>2, <2>3, <2>4, <2>5, <2>6, <2>7, <2>8, <2>9, <2>10, <2>11, <2>12,
       <2>13, <2>14, <2>15, <2>16, <2>17
    DEF Step
<1>4. QED
  BY <1>2, <1>3

\* The unlink of an entry of what is under a name goes on, or leaves the
\* directory empty, or with the sentinel an adoption put back.
LEMMA UnlinkEnds ==
    ASSUME NEW p \in Procs, TypeOK, NEW e \in Entries, RemoveAllUnlink(p, e),
           Emptying(p), Emptying(p)', NEW n \in Names, target[p] = n, rm[p] = at[n]
    PROVE  (Filled(n) \/ Refilling(n))'
<1>1. rm[p] \in Dirs
  BY DEF Emptying, RemoveAllUnlink
<1>2. /\ target'[p] = n /\ rm'[p] = at'[n] /\ at'[n] \in Dirs
      /\ pc'[p] \in {"rmdir", "unlink"}
  BY <1>1, UnlinkTakes
<1>3. CASE pc'[p] = "unlink"
  BY <1>2, <1>3 DEF Refilling
<1>4. CASE pc'[p] = "rmdir"
  <2>1. /\ Present(rm[p])' \subseteq left'[p]
        /\ dir'[rm'[p]].mark = "none" \/ Sentinel \in left'[p] \/ AgentSigned(rm[p])'
        /\ left'[p] = {}
    BY <1>4 DEF Emptying
  <2>2. Present(at[n])' = Present(rm[p])' /\ (AgentSigned(rm[p])' <=> AgentSigned(at[n])')
    BY <1>2 DEF Present, AgentSigned
  <2>3. Empty(at[n])' \/ AgentSigned(at[n])'
    BY <1>2, <2>1, <2>2 DEF Empty
  <2>4. QED
    BY <1>2, <1>4, <2>3 DEF Filled, Refilling
<1>5. QED
  BY <1>2, <1>3, <1>4

\* With no failed system call, a swap that finds its name empty goes on.
LEMMA SwapNext ==
    ASSUME NEW p \in Procs, TypeOK, faults = 0, faults' = 0, Swapping(p), Step(p),
           NEW n \in Retained, target[p] = n,
           pc[p] \in {"clear", "unlink", "rmdir", "rename"},
           at[n] = None \/ (at[n] \in Dirs /\ Empty(at[n]))
    PROVE  /\ target'[p] = n
           /\ \/ pc'[p] \in {"unlink", "rmdir", "rename"}
              \/ pc'[p] = "done" /\ Rename(p)
<1>0. n \in Names
  BY DEF Retained
<1> USE EntryAssumption, <1>0 DEF TypeOK, Goto
<1>1. \/ RemoveAllOpen(p)
      \/ \E e \in Entries : RemoveAllUnlink(p, e)
      \/ RemoveAllRmdir(p)
      \/ Rename(p)
  BY DEF Step, ImportState, SweepTemporaries, ImportFails, ScanDone, AdoptRead,
         AdoptWrite, AdoptFails, RemoveTemporaryOpen, RemoveTemporaryLock,
         RemoveTemporary, RemoveTemporaryFails, GCExamine, RemoveAllFails, Fill,
         MkdirTemp, LockOpen, Flock, LockStat, CreateFails, WriteFile, StreamEnds,
         StreamFails, WriteSentinel, ExtractFails, CheckSwap, Close, AbortClose,
         AbortRemove, AbortRemoveFails, Fault
<1>2. CASE RemoveAllOpen(p)
  BY <1>2 DEF RemoveAllOpen, Removed, Swapping
<1>3. CASE \E e \in Entries : RemoveAllUnlink(p, e)
  BY <1>3 DEF RemoveAllUnlink
<1>4. CASE RemoveAllRmdir(p)
  BY <1>4 DEF RemoveAllRmdir, Removed, Swapping
<1>5. CASE Rename(p)
  BY <1>5 DEF Rename
<1>6. QED
  BY <1>1, <1>2, <1>3, <1>4, <1>5

\* A directory under a name stays as it is, or is unlinked from by the removal
\* of that name, or has the agent's sentinel put in.
LEMMA NamedMoves ==
    ASSUME NEW p \in Procs, TypeOK, Ownership, Layout, Step(p), NEW n \in Names,
           at[n] \in Dirs, at'[n] = at[n]
    PROVE  \/ dir'[at[n]] = dir[at[n]]
           \/ AgentSigned(at[n])'
           \/ \E e \in Entries : /\ RemoveAllUnlink(p, e)
                                 /\ rm[p] = at[n] /\ target[p] = n
<1>1. PICK d \in Dirs : d = at[n]
  OBVIOUS
<1>2. \/ dir'[d] = dir[d]
      \/ AgentSigned(d)'
      \/ \E e \in Entries : RemoveAllUnlink(p, e) /\ rm[p] = d
  BY <1>1, NamedInUse, DirMoves
<1>3. AgentSigned(d)' => AgentSigned(at[n])'
  BY <1>1 DEF AgentSigned
<1>4. ASSUME NEW e \in Entries, RemoveAllUnlink(p, e), rm[p] = d PROVE target[p] = n
  BY <1>1, <1>4 DEF RemoveAllUnlink, Layout, Removing
<1>5. QED
  BY <1>1, <1>2, <1>3, <1>4

\* With no failed system call, what is filled, or is about to be, stays so.
LEMMA Kept ==
    ASSUME NEW p \in Procs, TypeOK, Ownership, Layout, Wholeness, damage = 0,
           faults = 0, faults' = 0, Step(p),
           \A q \in Procs : Emptying(q) /\ Swapping(q),
           NEW n \in Retained, Filled(n) \/ Refilling(n)
    PROVE  (Filled(n) \/ Refilling(n))'
<1>n. n \in Names
  BY DEF Retained
<1> USE EntryAssumption, <1>n DEF TypeOK
<1>0. Emptying(p)'
  BY EmptyingStep
<1>1. CASE at'[n] # at[n]
  <2>1. target[p] = n
    BY <1>1, AtMoves, RenameMoves
  <2>2. CASE Rename(p)
    <3>1. pc'[p] = "done"
      BY <1>1, <2>2 DEF Rename, Goto
    <3>2. QED
      BY <2>1, <2>2, <3>1, RenameFills DEF Filled
  <2>3. CASE ~Rename(p)
    <3>1. /\ at' = [at EXCEPT ![n] = None] /\ target' = target
          /\ tmp[p] # None => pc'[p] = "rename"
          /\ pc[p] \in {"clear", "rmdir"}
      BY <1>1, <2>1, <2>3, AtMoves
    <3>2. at'[n] = None /\ target'[p] = n /\ pc'[p] = "rename"
      BY <2>1, <3>1 DEF Swapping
    <3>3. QED
      BY <3>2 DEF Refilling
  <2>4. QED
    BY <2>2, <2>3
<1>2. CASE at'[n] = at[n]
  <2>0. ASSUME NEW e \in Entries, RemoveAllUnlink(p, e), rm[p] = at[n], target[p] = n
        PROVE  (Filled(n) \/ Refilling(n))'
    BY <1>0, <2>0, UnlinkEnds
  <2>1. CASE Filled(n)
    <3>1. at[n] \in Dirs
      BY <2>1 DEF Filled, NamesComplete
    <3>2. CASE dir'[at[n]] = dir[at[n]]
      BY <1>2, <2>1, <3>1, <3>2 DEF Filled, NamesComplete, AgentSigned, Present
    <3>3. CASE AgentSigned(at[n])'
      BY <1>2, <3>1, <3>3 DEF Filled
    <3>4. QED
      BY <1>2, <2>0, <3>1, <3>2, <3>3, NamedMoves
  <2>2. ASSUME NEW q \in Procs, target[q] = n, pc[q] = "unlink", rm[q] = at[n]
        PROVE  (Filled(n) \/ Refilling(n))'
    <3>1. CASE q # p
      <4>1. target'[q] = n /\ pc'[q] = "unlink" /\ rm'[q] = at'[n]
        BY <1>2, <2>2, <3>1, StepFrame
      <4>2. QED
        BY <4>1 DEF Refilling
    <3>2. CASE q = p
      <4>1. \E e \in Entries : RemoveAllUnlink(p, e)
        BY <2>2, <3>2
        DEF Step, ImportState, SweepTemporaries, ImportFails, ScanDone, AdoptRead,
            AdoptWrite, AdoptFails, RemoveTemporaryOpen, RemoveTemporaryLock,
            RemoveTemporary, RemoveTemporaryFails, GCExamine, RemoveAllOpen,
            RemoveAllRmdir, RemoveAllFails, Fill,
            MkdirTemp, LockOpen, Flock, LockStat, CreateFails, WriteFile, StreamEnds,
            StreamFails, WriteSentinel, ExtractFails, CheckSwap, Rename, Close,
            AbortClose, AbortRemove, AbortRemoveFails, Fault
      <4>2. QED
        BY <2>0, <2>2, <3>2, <4>1
    <3>3. QED
      BY <3>1, <3>2
  <2>3. ASSUME NEW q \in Procs, target[q] = n,
               pc[q] \in {"clear", "unlink", "rmdir", "rename"},
               at[n] = None \/ (at[n] \in Dirs /\ Empty(at[n]))
        PROVE  (Filled(n) \/ Refilling(n))'
    <3>1. CASE q = p /\ pc'[p] = "done" /\ Rename(p)
      BY <2>3, <3>1, RenameFills DEF Filled
    <3>2. CASE ~(q = p /\ pc'[p] = "done" /\ Rename(p))
      <4>1. target'[q] = n /\ pc'[q] \in {"clear", "unlink", "rmdir", "rename"}
        <5>1. CASE q = p
          BY <2>3, <3>2, <5>1, SwapNext
        <5>2. CASE q # p
          BY <2>3, <5>2, StepFrame
        <5>3. QED
          BY <5>1, <5>2
      <4>2. CASE at[n] = None
        BY <1>2, <4>1, <4>2 DEF Refilling
      <4>3. CASE at[n] \in Dirs /\ Empty(at[n])
        <5>1. CASE dir'[at[n]] = dir[at[n]]
          <6>1. Empty(at[n])'
            BY <1>2, <4>3, <5>1 DEF Empty, Present
          <6>2. QED
            BY <1>2, <4>1, <4>3, <6>1 DEF Refilling
        <5>2. CASE AgentSigned(at[n])'
          BY <1>2, <4>3, <5>2 DEF Filled
        <5>3. QED
          BY <1>2, <2>0, <4>3, <5>1, <5>2, NamedMoves
      <4>4. QED
        BY <2>3, <4>2, <4>3
    <3>3. QED
      BY <3>1, <3>2
  <2>4. QED
    BY <2>1, <2>2, <2>3 DEF Refilling
<1>3. QED
  BY <1>1, <1>2

-----------------------------------------------------------------------------

\* A call that begins touches nothing, and takes no swap's place.
LEMMA BeginSticks ==
    ASSUME NEW p \in Procs, pc[p] = "idle", at' = at, dir' = dir, rm' = rm,
           left' = left, res'[p] # "ok",
           pc'[p] \in {"state", "fill", "adopt", "scan"},
           \A q \in Procs \ {p} : /\ pc'[q] = pc[q] /\ target'[q] = target[q]
                                  /\ res'[q] = res[q],
           \A q \in Procs : Emptying(q),
           \A n \in Retained : Succeeded(n) => Filled(n) \/ Refilling(n)
    PROVE  /\ \A q \in Procs : Emptying(q)'
           /\ \A n \in Retained : Succeeded(n)' => (Filled(n) \/ Refilling(n))'
<1>1. ASSUME NEW q \in Procs PROVE Emptying(q)'
  BY DEF Emptying, Present, AgentSigned
<1>2. ASSUME NEW n \in Retained, Succeeded(n)' PROVE (Filled(n) \/ Refilling(n))'
  <2>1. Succeeded(n)
    BY <1>2 DEF Succeeded
  <2>2. Filled(n) => Filled(n)'
    BY DEF Filled, NamesComplete, AgentSigned, Present
  <2>3. Refilling(n) => Refilling(n)'
    <3> SUFFICES ASSUME NEW q \in Procs, target[q] = n,
                        \/ pc[q] = "unlink" /\ rm[q] = at[n]
                        \/ /\ pc[q] \in {"clear", "unlink", "rmdir", "rename"}
                           /\ at[n] = None \/ (at[n] \in Dirs /\ Empty(at[n]))
                 PROVE  Refilling(n)'
      BY DEF Refilling
    <3>1. pc'[q] = pc[q] /\ target'[q] = n
      OBVIOUS
    <3>2. Empty(at[n])' <=> Empty(at[n])
      BY DEF Empty, Present
    <3>3. QED
      BY <3>1, <3>2 DEF Refilling
  <2>4. QED
    BY <2>1, <2>2, <2>3
<1>3. QED
  BY <1>1, <1>2

\* Sticking follows a step of the next-state relation.
LEMMA StickingNext ==
    ASSUME TypeOK, Ownership, Layout, Wholeness, Sticking, [Next]_vars
    PROVE  Sticking'
<1> SUFFICES ASSUME damage' = 0, faults' = 0
             PROVE  /\ \A p \in Procs : Emptying(p)' /\ Swapping(p)'
                    /\ \A n \in Retained : Succeeded(n)' => (Filled(n) \/ Refilling(n))'
  BY DEF Sticking
<1> USE ProcAssumption, EntryAssumption DEF Procs
<1>0. ASSUME damage' = damage, faults' = faults
      PROVE  /\ \A p \in Procs : Emptying(p) /\ Swapping(p)
             /\ \A n \in Retained : Succeeded(n) => Filled(n) \/ Refilling(n)
  BY <1>0 DEF Sticking
<1> DEFINE Goal == /\ \A p \in Procs : Emptying(p)' /\ Swapping(p)'
                   /\ \A n \in Retained : Succeeded(n)' => (Filled(n) \/ Refilling(n))'
<1>1. ASSUME NEW p \in Commands, NEW n \in Names, NEW i \in Images,
             ImportBegin(p, n, i)
      PROVE  Goal
  <2> USE DEF ImportBegin, Goto, disk, scan, removal, bounds
  <2>1. \A q \in Procs : Swapping(q)'
    BY <1>0, <1>1 DEF Swapping, TypeOK
  <2>2. QED
    BY <1>0, <1>1, <2>1, BeginSticks DEF TypeOK
<1>2. ASSUME NEW n \in Names, NEW i \in Images, SyncBegin(n, i) PROVE Goal
  <2> USE DEF SyncBegin, Goto, disk, scan, removal, bounds
  <2>1. \A q \in Procs : Swapping(q)'
    BY <1>0, <1>2 DEF Swapping, TypeOK
  <2>2. QED
    BY <1>0, <1>2, <2>1, BeginSticks DEF TypeOK
<1>3. ASSUME NEW n \in Names, AdoptBegin(n) PROVE Goal
  <2> USE DEF AdoptBegin, Goto, disk, extraction, scan, removal, bounds
  <2>1. \A q \in Procs : Swapping(q)'
    BY <1>0, <1>3 DEF Swapping, TypeOK
  <2>2. QED
    BY <1>0, <1>3, <2>1, BeginSticks DEF TypeOK
<1>4. ASSUME NEW keep \in Keeps, GCBegin(keep) PROVE Goal
  <2> USE DEF GCBegin, Goto, disk, extraction, removal, bounds
  <2>1. todo'[Agent] \cap Retained = {}
    BY <1>4 DEF Retained, TypeOK
  <2>2. \A q \in Procs : Swapping(q)'
    <3>1. target'[Agent] = None /\ None \notin Retained
      BY <1>4 DEF Retained, TypeOK
    <3>2. QED
      BY <1>0, <1>4, <2>1, <3>1 DEF Swapping, TypeOK
  <2>3. QED
    BY <1>0, <1>4, <2>2, BeginSticks DEF TypeOK
<1>5. ASSUME NEW p \in Procs, Step(p) PROVE Goal
  <2>1. damage = 0
    BY <1>5, StepSparesDamage
  <2>2. faults = 0
    <3>1. faults' = faults \/ faults' = faults + 1
      BY <1>5, StepFaults
    <3>2. faults \in Nat
      BY BoundAssumption DEF TypeOK
    <3>3. QED
      BY <3>1, <3>2
  <2>3. /\ \A q \in Procs : Emptying(q) /\ Swapping(q)
        /\ \A n \in Retained : Succeeded(n) => Filled(n) \/ Refilling(n)
    BY <2>1, <2>2 DEF Sticking
  <2>4. \A q \in Procs : Emptying(q)' /\ Swapping(q)'
    BY <1>5, <2>3, EmptyingStep, SwappingStep
  <2>5. ASSUME NEW n \in Retained, Succeeded(n)' PROVE (Filled(n) \/ Refilling(n))'
    <3>1. Succeeded(n) \/ Filled(n)'
      BY <1>5, <2>1, <2>2, <2>3, <2>5, NewSuccess
    <3>2. CASE Succeeded(n)
      BY <1>5, <2>1, <2>2, <2>3, <3>2, Kept
    <3>3. QED
      BY <3>1, <3>2
  <2>6. QED
    BY <2>4, <2>5
<1>6. ASSUME NEW p \in Procs, Crash(p) PROVE Goal
  BY <1>6, BoundAssumption DEF Crash, Fault, TypeOK
<1>7. ASSUME NEW n \in Names, NEW kind \in DamageKinds, NEW f \in FileNames,
             Damage(n, kind, f)
      PROVE  Goal
  BY <1>7, BoundAssumption DEF Damage, TypeOK
<1>8. CASE UNCHANGED vars
  <2> USE DEF vars
  <2>1. \A q \in Procs : Emptying(q)' /\ Swapping(q)'
    BY <1>0, <1>8 DEF Emptying, Swapping, Present, AgentSigned
  <2>2. ASSUME NEW n \in Retained PROVE Succeeded(n)' => (Filled(n) \/ Refilling(n))'
    BY <1>0, <1>8
    DEF Succeeded, Filled, Refilling, NamesComplete, AgentSigned, Empty, Present
  <2>3. QED
    BY <2>1, <2>2
<1>9. QED
  BY <1>1, <1>2, <1>3, <1>4, <1>5, <1>6, <1>7, <1>8 DEF Next

\* SuccessSticks: with nobody tampering and no system call failing, a name some
\* call reported filled, and no pass collects, is there once every call has
\* returned, however the writers raced for it: no interleaving of the swaps of
\* Extract, each of which removes before it renames, loses them all.
THEOREM SuccessKept == Spec => []SuccessSticks
<1>1. Init => Sticking
  BY EntryAssumption
  DEF Init, Sticking, Emptying, Swapping, Succeeded
<1>2. TypeOK /\ Ownership /\ Layout /\ Wholeness /\ Sticking /\ [Next]_vars => Sticking'
  BY StickingNext
<1>3. TypeOK /\ Sticking => SuccessSticks
  <2> SUFFICES ASSUME TypeOK, Sticking, damage = 0, faults = 0,
                      \A p \in Procs : pc[p] = "idle",
                      NEW p \in Procs, res[p] = "ok", target[p] \in Retained
               PROVE  Filled(target[p])
    BY DEF SuccessSticks, Filled, AgentSigned
  <2>2. Succeeded(target[p])
    BY DEF Succeeded
  <2>3. ~Refilling(target[p])
    BY DEF Refilling
  <2>4. QED
    BY <2>2, <2>3 DEF Sticking
<1>4. QED
  BY <1>1, <1>2, <1>3, TypeCorrect, OwnershipInvariant, LayoutInvariant,
     WholenessInvariant, PTL
  DEF Spec

=============================================================================
