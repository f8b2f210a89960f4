-------------------------- MODULE CachePathProofs ---------------------------
(***************************************************************************)
(* What the steps of CacheStore do to the cache path: they implement       *)
(* Archives, a directory whose sentinel cannot be read stays, and commands *)
(* leave alone what the store did not write.                               *)
(***************************************************************************)
EXTENDS CacheStoreProofs

\* What a reader of the cache path finds under the name n.
Archive(n) ==
    IF at[n] \in Dirs THEN dir[at[n]].files ELSE [f \in FileNames |-> None]

archive == [n \in Names |-> Archive(n)]

\* The steps the cache path may take, as Archives states them.
LEMMA PublishMaps ==
    ASSUME NEW n \in Names, NEW i \in Images,
           Archive(n) = [f \in FileNames |-> None],
           Archive(n)' = [f \in FileNames |-> i],
           \A m \in Names \ {n} : Archive(m)' = Archive(m)
    PROVE  Path!ArchivesNext
<1>1. archive' = [archive EXCEPT ![n] = [f \in FileNames |-> i]]
  BY DEF archive
<1>2. Path!Publish(n)
  BY <1>1 DEF Path!Publish, Path!NoArchive, archive, Archive
<1>3. QED
  BY <1>2 DEF Path!ArchivesNext

\* An unlink of one archive is a loss.
LEMMA LoseMaps ==
    ASSUME NEW n \in Names, NEW f \in FileNames,
           Archive(n)[f] # None,
           Archive(n)' = [Archive(n) EXCEPT ![f] = None],
           \A m \in Names \ {n} : Archive(m)' = Archive(m)
    PROVE  Path!ArchivesNext
<1>1. archive' = [archive EXCEPT ![n][f] = None]
  BY DEF archive
<1>2. Path!Lose(n, f)
  BY <1>1 DEF Path!Lose, archive, Archive
<1>3. QED
  BY <1>2 DEF Path!ArchivesNext

\* An archive that somebody else wrote is a tampering.
LEMMA TamperMaps ==
    ASSUME NEW n \in Names, NEW f \in FileNames,
           Archive(n)[f] # None,
           Archive(n)' = [Archive(n) EXCEPT ![f] = Altered],
           \A m \in Names \ {n} : Archive(m)' = Archive(m)
    PROVE  Path!ArchivesNext
<1>1. archive' = [archive EXCEPT ![n][f] = Altered]
  BY DEF archive
<1>2. Path!Tamper(n, f)
  BY <1>1 DEF Path!Tamper, archive, Archive
<1>3. QED
  BY <1>2 DEF Path!ArchivesNext

\* The cache path stands still: no directory under a name changes its files.
LEMMA StillMaps ==
    ASSUME \A n \in Names : Archive(n)' = Archive(n)
    PROVE  [Path!ArchivesNext]_archive
BY DEF archive

\* The files of a directory.
LEMMA FilesType ==
    ASSUME TypeOK, NEW d \in Dirs
    PROVE  /\ dir[d] \in Directory
           /\ dir[d].files \in [FileNames -> Images \cup {None, Altered}]
           /\ Empty(d) => dir[d].files = [f \in FileNames |-> None]
BY DEF TypeOK, Directory, Empty, Present

\* A step changes the files of a directory that is no temporary only by
\* unlinking one of them.
LEMMA StepFiles ==
    ASSUME NEW p \in Procs, TypeOK, Ownership, Layout, Step(p), NEW n \in Names,
           at[n] \in Dirs
    PROVE  \/ dir'[at[n]].files = dir[at[n]].files
           \/ \E f \in FileNames : RemoveAllUnlink(p, f) /\ rm[p] = at[n]
<1> DEFINE d == at[n]
<1> USE EntryAssumption DEF TypeOK
<1>1. temp[d] = None
  BY DEF Layout, Hidden
<1>2. CASE UNCHANGED dir
  BY <1>2
<1>3. CASE AdoptWrite(p)
  BY <1>3, FilesType, SignedFields, SMTT(90) DEF AdoptWrite
<1>4. CASE RemoveTemporary(p)
  BY <1>1, <1>4 DEF RemoveTemporary
<1>5. CASE RemoveAllUnlink(p, Sentinel)
  BY <1>5, FilesType, SignedFields DEF RemoveAllUnlink, Unsigned
<1>6. ASSUME NEW f \in FileNames, RemoveAllUnlink(p, f), rm[p] # d
      PROVE  dir'[d] = dir[d]
  BY <1>6 DEF RemoveAllUnlink
<1>7. ASSUME NEW x \in Dirs, MkdirTemp(p, x) PROVE dir'[d] = dir[d]
  BY <1>7 DEF MkdirTemp, Free
<1>8. pc[p] \in {"write", "sentinel"} => tmp[p] # d
  BY <1>1 DEF Ownership, OwnTemporary, OwnName, Targeted, Extracting, Writing
<1>9. ASSUME NEW f \in FileNames, WriteFile(p, f) PROVE dir'[d] = dir[d]
  BY <1>8, <1>9 DEF WriteFile
<1>10. CASE WriteSentinel(p)
  BY <1>8, <1>10 DEF WriteSentinel
<1>11. CASE AbortRemove(p)
  BY <1>1, <1>11 DEF AbortRemove
<1>12. CASE RemoveAllOpen(p) \/ RemoveAllRmdir(p) \/ Rename(p) \/ UNCHANGED disk
  BY <1>12 DEF RemoveAllOpen, RemoveAllRmdir, Rename, disk
<1>13. QED
  BY <1>2, <1>3, <1>4, <1>5, <1>6, <1>7, <1>9, <1>10, <1>11, <1>12, StepDisk DEF Entries

\* Each step of a process is a step of Archives, or none.
LEMMA StepMaps ==
    ASSUME NEW p \in Procs, TypeOK, Ownership, Layout, Step(p)
    PROVE  [Path!ArchivesNext]_archive
<1> USE EntryAssumption DEF TypeOK
<1>1. CASE \E f \in FileNames : RemoveAllUnlink(p, f)
  <2>1. PICK f \in FileNames : RemoveAllUnlink(p, f)
    BY <1>1
  <2> DEFINE d == rm[p]
  <2>2. /\ d \in Dirs /\ at' = at
        /\ dir' = [dir EXCEPT ![d] = WithFile(@, f, None)]
    BY <2>1 DEF RemoveAllUnlink, Layout, Removing
  <2>3. dir'[d].files = [dir[d].files EXCEPT ![f] = None]
    BY <2>2, FilesType, FileFields
  <2>4. CASE \E n \in Names : at[n] = d
    <3>1. PICK n \in Names : at[n] = d
      BY <2>4
    <3>2. \A m \in Names \ {n} : Archive(m)' = Archive(m)
      BY <2>2, <3>1 DEF Archive, Layout, Apart
    <3>3. Archive(n)' = [Archive(n) EXCEPT ![f] = None]
      BY <2>2, <2>3, <3>1 DEF Archive
    <3>4. CASE Archive(n)[f] = None
      <4>1. Archive(n)' = Archive(n)
        BY <2>2, <3>1, <3>3, <3>4, FilesType DEF Archive
      <4>2. QED
        BY <3>2, <4>1, StillMaps
    <3>5. QED
      BY <3>2, <3>3, <3>4, LoseMaps
  <2>5. CASE \A n \in Names : at[n] # d
    BY <2>2, <2>5, StillMaps DEF Archive
  <2>6. QED
    BY <2>4, <2>5
<1>2. CASE ~ \E f \in FileNames : RemoveAllUnlink(p, f)
  <2>1. ASSUME NEW n \in Names, at'[n] = at[n] PROVE Archive(n)' = Archive(n)
    BY <1>2, <2>1, StepFiles DEF Archive
  <2>2. CASE at' = at
    BY <2>1, <2>2, StillMaps
  <2>3. CASE RemoveAllOpen(p) \/ RemoveAllRmdir(p)
    <3>1. CASE at' # at
      <4>1. PICK n \in Names : /\ at' = [at EXCEPT ![n] = None]
                               /\ at[n] \in Dirs => Empty(at[n])
        BY <2>3, <3>1 DEF RemoveAllOpen, RemoveAllRmdir, Ownership, Targeted
      <4>2. Archive(n)' = Archive(n)
        BY <4>1, FilesType DEF Archive
      <4>3. QED
        BY <2>1, <4>1, <4>2, StillMaps
    <3>2. QED
      BY <2>2, <3>1
  <2>4. CASE Rename(p) /\ at' # at
    <3>1. PICK n \in Names : /\ at' = [at EXCEPT ![n] = tmp[p]] /\ dir' = dir
                             /\ tmp[p] \in Dirs
                             /\ at[n] \in Dirs => Empty(at[n])
      BY <2>4, RenameMoves DEF Rename
    <3>2. /\ image[p] \in Images
          /\ \A f \in FileNames : dir[tmp[p]].files[f] = image[p]
      BY <2>4, <3>1 DEF Rename, Layout, Filling
    <3>3. Archive(n)' = [f \in FileNames |-> image[p]]
      BY <3>1, <3>2, FilesType DEF Archive
    <3>4. Archive(n) = [f \in FileNames |-> None]
      BY <3>1, FilesType DEF Archive
    <3>5. \A m \in Names \ {n} : Archive(m)' = Archive(m)
      BY <2>1, <3>1
    <3>6. QED
      BY <3>1, <3>2, <3>3, <3>4, <3>5, PublishMaps
  <2>5. \/ at' = at \/ RemoveAllOpen(p) \/ RemoveAllRmdir(p)
        \/ Rename(p) /\ at' # at
    BY StepDisk
       DEF disk, AdoptWrite, RemoveTemporary, RemoveAllUnlink, MkdirTemp, WriteFile,
           WriteSentinel, AbortRemove
  <2>6. QED
    BY <2>2, <2>3, <2>4, <2>5
<1>3. QED
  BY <1>1, <1>2

\* So is what an operator does.
LEMMA DamageMaps ==
    ASSUME TypeOK, Layout, NEW n \in Names, NEW kind \in DamageKinds,
           NEW f \in FileNames, Damage(n, kind, f)
    PROVE  [Path!ArchivesNext]_archive
<1> DEFINE r == dir[at[n]]
<1> USE EntryAssumption DEF TypeOK
<1>1. /\ at[n] \in Dirs /\ at' = at
      /\ dir' = [dir EXCEPT ![at[n]] = Damaged(r, kind, f)]
  BY DEF Damage
<1>2. r \in Directory /\ r.files \in [FileNames -> Images \cup {None, Altered}]
  BY <1>1, FilesType
<1>3. \A m \in Names \ {n} : Archive(m)' = Archive(m)
  BY <1>1 DEF Archive, Layout, Apart
<1>4. Archive(n) = r.files /\ Archive(n)' = Damaged(r, kind, f).files
  BY <1>1 DEF Archive
<1>5. CASE kind \in {"delete", "alter"} /\ r.files[f] = None
  <2>1. Damaged(r, kind, f).files = r.files
    BY <1>2, <1>5, FileFields DEF Damaged
  <2>2. QED
    BY <1>3, <1>4, <2>1, StillMaps
<1>6. CASE kind = "delete" /\ r.files[f] # None
  <2>1. Damaged(r, kind, f).files = [r.files EXCEPT ![f] = None]
    BY <1>2, <1>6, FileFields DEF Damaged
  <2>2. QED
    BY <1>3, <1>4, <1>6, <2>1, LoseMaps
<1>7. CASE kind = "alter" /\ r.files[f] # None
  <2>1. Damaged(r, kind, f).files = [r.files EXCEPT ![f] = Altered]
    BY <1>2, <1>7, FileFields DEF Damaged
  <2>2. QED
    BY <1>3, <1>4, <1>7, <2>1, TamperMaps
<1>8. CASE kind \in {"unmark", "corrupt", "unreadable", "sealed"}
  <2>1. /\ [r EXCEPT !.mark = "unreadable"].files = r.files
        /\ [r EXCEPT !.mark = "sealed"].files = r.files
    BY <1>2 DEF Directory
  <2>2. Damaged(r, kind, f).files = r.files
    BY <1>2, <1>8, <2>1, SignedFields DEF Damaged, Unsigned
  <2>3. QED
    BY <1>3, <1>4, <2>2, StillMaps
<1>9. QED
  BY <1>5, <1>6, <1>7, <1>8, DamageAssumption

\* ImplementsArchives: whoever reads the cache path finds archives appear under
\* a name all at once, whole and of one image, and then only go; for any number
\* of processes, wherever they are killed, and with an operator at work.
THEOREM StoreImplementsArchives == Spec => ImplementsArchives
<1>1. Init /\ TypeOK => Path!ArchivesInit
  BY DEF TypeOK, Directory, Path!ArchivesInit
<1>2. TypeOK /\ Ownership /\ Layout /\ [Next]_vars => [Path!ArchivesNext]_archive
  <2> SUFFICES ASSUME TypeOK, Ownership, Layout, [Next]_vars
               PROVE  [Path!ArchivesNext]_archive
    OBVIOUS
  <2>1. CASE UNCHANGED disk
    BY <2>1, StillMaps DEF disk, Archive
  <2>2. ASSUME NEW p \in Procs, Step(p) PROVE [Path!ArchivesNext]_archive
    BY <2>2, StepMaps
  <2>3. ASSUME NEW n \in Names, NEW kind \in DamageKinds, NEW f \in FileNames,
               Damage(n, kind, f)
        PROVE  [Path!ArchivesNext]_archive
    BY <2>3, DamageMaps
  <2>4. QED
    BY <2>1, <2>2, <2>3
       DEF Next, ImportBegin, SyncBegin, AdoptBegin, GCBegin, Crash, disk, vars
<1>3. QED
  BY <1>1, <1>2, TypeCorrect, OwnershipInvariant, LayoutInvariant, PTL
     DEF Spec, ImplementsArchives, Path!ArchivesSpec, archive, Archive
-----------------------------------------------------------------------------

\* Where a step writes a directory that is under a name: by an adoption or a
\* removal of that name.
LEMMA StepTouches ==
    ASSUME NEW p \in Procs, TypeOK, Ownership, Layout, Step(p), NEW n \in Names,
           at[n] \in Dirs, dir'[at[n]] # dir[at[n]]
    PROVE  /\ target[p] = n
           /\ AdoptWrite(p) \/ \E e \in Entries : RemoveAllUnlink(p, e)
<1> DEFINE d == at[n]
<1> USE EntryAssumption DEF TypeOK
<1>1. temp[d] = None
  BY DEF Layout, Hidden
<1>2. CASE AdoptWrite(p)
  <2>1. /\ target[p] \in Names /\ at[target[p]] = d
    BY <1>2 DEF AdoptWrite, Ownership, Targeted
  <2>2. QED
    BY <1>2, <2>1 DEF Layout, Apart
<1>3. ASSUME NEW e \in Entries, RemoveAllUnlink(p, e) PROVE target[p] = n
  <2>1. pc[p] = "unlink" /\ rm[p] = d
    BY <1>3 DEF RemoveAllUnlink
  <2>2. QED
    BY <2>1 DEF Layout, Removing
<1>4. ~RemoveTemporary(p) /\ ~AbortRemove(p)
  BY <1>1 DEF RemoveTemporary, AbortRemove
<1>5. ~ \E x \in Dirs : MkdirTemp(p, x)
  BY DEF MkdirTemp, Free
<1>6. pc[p] \in {"write", "sentinel"} => tmp[p] # d
  BY <1>1 DEF Ownership, OwnTemporary, OwnName, Targeted, Extracting, Writing
<1>7. ~WriteSentinel(p) /\ ~ \E f \in FileNames : WriteFile(p, f)
  BY <1>6 DEF WriteSentinel, WriteFile
<1>8. ~RemoveAllOpen(p) /\ ~RemoveAllRmdir(p) /\ ~Rename(p) /\ ~UNCHANGED disk
  BY DEF RemoveAllOpen, RemoveAllRmdir, Rename, disk
<1>9. QED
  BY <1>2, <1>3, <1>4, <1>5, <1>7, <1>8, StepDisk

\* UnreadableStays: a directory whose sentinel cannot be read keeps its place
\* and its files until a swap sets out on it, and GC never does; one whose
\* sentinel cannot be stat'ed no process sets out on, or signs.
THEOREM UnreadableKept == Spec => UnreadableStays
<1> DEFINE Stays(n) ==
        /\ Unreadable(n)
        /\ \A p \in Procs : pc[p] \in {"clear", "unlink", "rmdir"} => target[p] # n
        => /\ at'[n] = at[n]
           /\ damage' = damage => dir'[at[n]].files = dir[at[n]].files
           /\ damage' = damage /\ Sealed(n) => dir'[at[n]] = dir[at[n]]
           /\ \A p \in Procs :
                 pc'[p] = "clear" /\ target'[p] = n => ~Sealed(n) /\ tmp'[p] # None
<1>1. ASSUME TypeOK, Ownership, Layout, [Next]_vars, NEW n \in Names PROVE Stays(n)
  <2> SUFFICES ASSUME Unreadable(n),
                      \A p \in Procs :
                         pc[p] \in {"clear", "unlink", "rmdir"} => target[p] # n
               PROVE  /\ at'[n] = at[n]
                      /\ damage' = damage => dir'[at[n]].files = dir[at[n]].files
                      /\ damage' = damage /\ Sealed(n) => dir'[at[n]] = dir[at[n]]
                      /\ \A p \in Procs :
                            pc'[p] = "clear" /\ target'[p] = n =>
                                ~Sealed(n) /\ tmp'[p] # None
    OBVIOUS
  <2> USE <1>1, EntryAssumption DEF TypeOK
  <2>1. /\ at[n] \in Dirs /\ ~Empty(at[n])
        /\ dir[at[n]].mark \in {"unreadable", "sealed"}
    BY DEF Unreadable, Empty
  <2>2. ASSUME NEW p \in Procs, Step(p)
        PROVE  /\ at'[n] = at[n]
               /\ dir'[at[n]].files = dir[at[n]].files
               /\ Sealed(n) => dir'[at[n]] = dir[at[n]]
               /\ \A q \in Procs :
                     pc'[q] = "clear" /\ target'[q] = n => ~Sealed(n) /\ tmp'[q] # None
    <3>1. at'[n] = at[n]
      <4>1. CASE RemoveAllOpen(p) \/ RemoveAllRmdir(p)
        BY <2>2, <4>1 DEF RemoveAllOpen, RemoveAllRmdir, Ownership, Targeted
      <4>2. CASE Rename(p)
        BY <2>1, <2>2, <4>2 DEF Rename
      <4>3. CASE ~(RemoveAllOpen(p) \/ RemoveAllRmdir(p) \/ Rename(p))
        BY <2>2, <4>3, StepDisk
           DEF disk, AdoptWrite, RemoveTemporary, RemoveAllUnlink, MkdirTemp, WriteFile,
               WriteSentinel, AbortRemove
      <4>4. QED
        BY <4>1, <4>2, <4>3
    <3>2. /\ dir'[at[n]].files = dir[at[n]].files
          /\ Sealed(n) => dir'[at[n]] = dir[at[n]]
      <4>1. CASE dir'[at[n]] = dir[at[n]]
        BY <4>1
      <4>2. CASE dir'[at[n]] # dir[at[n]]
        <5>1. AdoptWrite(p) /\ at[n] = at[target[p]]
          BY <2>1, <2>2, <4>2, StepTouches DEF AdoptWrite, RemoveAllUnlink
        <5>2. ~Sealed(n)
          BY <4>2, <5>1 DEF AdoptWrite, Sealed
        <5>3. dir'[at[n]] = Signed(dir[at[n]], "parsed", "agent", sn.image, sn.lists)
          BY <2>1, <4>2, <5>1 DEF AdoptWrite
        <5>4. QED
          BY <2>1, <5>2, <5>3, SignedFields
      <4>3. QED
        BY <4>1, <4>2
    <3>3. ASSUME NEW q \in Procs, pc'[q] = "clear", target'[q] = n
          PROVE  ~Sealed(n) /\ tmp'[q] # None
      <4>1. CASE q # p
        BY <2>2, <3>3, <4>1, StepFrame
      <4>2. CASE q = p /\ CheckSwap(p)
        <5>1. /\ target[p] = n /\ tmp'[p] = tmp[p] /\ tmp[p] \in Dirs
              /\ Replaceable(n, Owner(p))
          BY <3>3, <4>2
             DEF CheckSwap, Goto, extraction, Ownership, OwnTemporary, Extracting
        <5>2. QED
          BY <2>1, <4>2, <5>1 DEF Replaceable, Sealed
      <4>3. CASE q = p /\ \E m \in Names : GCExamine(p, m)
        BY <3>3, <4>3 DEF GCExamine, Goto, Unreadable
      <4>4. QED
        BY <2>2, <3>3, <4>1, <4>2, <4>3, StepLeadsTo
    <3>4. QED
      BY <3>1, <3>2, <3>3
  <2>3. CASE \E m \in Names, kind \in DamageKinds, f \in FileNames : Damage(m, kind, f)
    BY <2>3, BoundAssumption DEF Damage
  <2>4. CASE UNCHANGED vars
    BY <2>4 DEF vars
  <2>5. CASE \/ \E p \in Commands, m \in Names, i \in Images : ImportBegin(p, m, i)
             \/ \E m \in Names, i \in Images : SyncBegin(m, i)
             \/ \E m \in Names : AdoptBegin(m)
             \/ \E keep \in Keeps : GCBegin(keep)
             \/ \E p \in Procs : Crash(p)
    BY <2>5 DEF ImportBegin, SyncBegin, AdoptBegin, GCBegin, Crash, Return, Goto, disk, Procs
  <2>6. QED
    BY <2>2, <2>3, <2>4, <2>5 DEF Next
<1>2. TypeOK /\ Ownership /\ Layout /\ [Next]_vars => [\A n \in Names : Stays(n)]_vars
  BY <1>1
<1>3. QED
  BY <1>2, TypeCorrect, OwnershipInvariant, LayoutInvariant, PTL
     DEF Spec, UnreadableStays
-----------------------------------------------------------------------------

\* A directory the store alone wrote stays one.
LEMMA CleanStep ==
    ASSUME NEW p \in Procs, TypeOK, Ownership, Step(p), NEW d \in Dirs, Clean(d)
    PROVE  Clean(d)'
<1> USE EntryAssumption DEF TypeOK, Clean
<1>1. dir[d] \in Directory /\ dir[d].files \in [FileNames -> Images \cup {None, Altered}]
  BY FilesType
<1>2. CASE AdoptWrite(p)
  BY <1>1, <1>2, SignedFields DEF AdoptWrite
<1>3. CASE RemoveTemporary(p) \/ AbortRemove(p)
  BY <1>3 DEF RemoveTemporary, AbortRemove, Blank
<1>4. CASE RemoveAllUnlink(p, Sentinel)
  BY <1>1, <1>4, SignedFields DEF RemoveAllUnlink, Unsigned
<1>5. ASSUME NEW f \in FileNames, NEW c, c # Altered,
             dir'[d] = dir[d] \/ dir'[d] = WithFile(dir[d], f, c)
      PROVE  Clean(d)'
  <2>1. CASE dir'[d] = WithFile(dir[d], f, c)
    <3>1. dir'[d].files = [dir[d].files EXCEPT ![f] = c]
      BY <1>1, <2>1, FileFields
    <3>2. QED
      BY <1>1, <1>5, <3>1
  <2>2. QED
    BY <1>5, <2>1
<1>6. ASSUME NEW f \in FileNames, RemoveAllUnlink(p, f) PROVE Clean(d)'
  <2>1. dir'[d] = dir[d] \/ dir'[d] = WithFile(dir[d], f, None)
    BY <1>6 DEF RemoveAllUnlink
  <2>2. QED
    BY <1>5, <2>1
<1>7. ASSUME NEW f \in FileNames, WriteFile(p, f) PROVE Clean(d)'
  <2>1. dir'[d] = dir[d] \/ dir'[d] = WithFile(dir[d], f, image[p])
    BY <1>7 DEF WriteFile
  <2>2. image[p] \in Images
    BY <1>7 DEF WriteFile, Ownership, Targeted
  <2>3. QED
    BY <1>5, <2>1, <2>2
<1>8. ASSUME NEW x \in Dirs, MkdirTemp(p, x) PROVE Clean(d)'
  BY <1>8 DEF MkdirTemp, Blank
<1>9. CASE WriteSentinel(p)
  BY <1>1, <1>9, SignedFields DEF WriteSentinel
<1>10. CASE RemoveAllOpen(p) \/ RemoveAllRmdir(p) \/ Rename(p) \/ UNCHANGED disk
  BY <1>10 DEF RemoveAllOpen, RemoveAllRmdir, Rename, disk
<1>11. QED
  BY <1>2, <1>3, <1>4, <1>6, <1>7, <1>8, <1>9, <1>10, StepDisk DEF Entries

\* A step keeps others' files where they are, and commands away from them.
LEMMA SparingStep ==
    ASSUME NEW p \in Procs, TypeOK, Ownership, Layout, Wholeness, Sparing, damage = 0,
           Step(p)
    PROVE  Sparing'
<1> USE EntryAssumption, ProcAssumption DEF TypeOK
<1>1. damage' = 0
  BY StepSparesDamage
<1>2. \A d \in Dirs : Clean(d) => Clean(d)'
  BY CleanStep
<1>3. ASSUME NEW d \in Dirs, temp'[d] # None \/ dir'[d].mark # "none" PROVE Clean(d)'
  <2>1. CASE temp[d] # None \/ dir[d].mark # "none"
    BY <1>2, <2>1 DEF Sparing
  <2>2. CASE temp[d] = None /\ dir[d].mark = "none"
    <3>1. CASE AdoptWrite(p)
      <4>1. /\ at[target[p]] = d /\ pc[p] = "own"
        BY <1>3, <2>2, <3>1 DEF AdoptWrite
      <4>2. Clean(d)
        BY <4>1 DEF Wholeness, Adopting, Uniform, Clean
      <4>3. QED
        BY <1>2, <4>2
    <3>2. CASE \E x \in Dirs : MkdirTemp(p, x)
      BY <1>3, <2>2, <3>2 DEF MkdirTemp, Clean, Blank
    <3>3. CASE WriteSentinel(p)
      <4>1. tmp[p] \in Dirs /\ temp[tmp[p]] # None
        BY <3>3 DEF WriteSentinel, Ownership, OwnTemporary, OwnName, Targeted, Extracting,
                    Writing
      <4>2. QED
        BY <1>3, <2>2, <3>3, <4>1 DEF WriteSentinel
    <3>4. ASSUME NEW f \in FileNames, WriteFile(p, f) PROVE Clean(d)'
      <4>1. tmp[p] \in Dirs /\ temp[tmp[p]] # None
        BY <3>4 DEF WriteFile, Ownership, OwnTemporary, OwnName, Targeted, Extracting, Writing
      <4>2. QED
        BY <1>3, <2>2, <3>4, <4>1 DEF WriteFile
    <3>5. ASSUME NEW e \in Entries, RemoveAllUnlink(p, e) PROVE Clean(d)'
      <4>1. /\ temp'[d] = temp[d]
            /\ \/ dir'[d] = dir[d]
               \/ dir'[d] = Unsigned(dir[d])
               \/ e \in FileNames /\ dir'[d] = WithFile(dir[d], e, None)
        BY <3>5 DEF RemoveAllUnlink, Entries
      <4>2. dir'[d].mark = "none"
        <5>1. CASE dir'[d] = Unsigned(dir[d])
          BY <5>1, FilesType, SignedFields DEF Unsigned
        <5>2. CASE e \in FileNames /\ dir'[d] = WithFile(dir[d], e, None)
          <6>1. dir[d] \in Directory
            OBVIOUS
          <6>2. WithFile(dir[d], e, None).mark = dir[d].mark
            BY <6>1 DEF WithFile, Directory
          <6>3. QED
            BY <2>2, <5>2, <6>2
        <5>3. QED
          BY <2>2, <4>1, <5>1, <5>2
      <4>3. QED
        BY <1>3, <2>2, <4>1, <4>2
    <3>6. CASE RemoveTemporary(p) \/ AbortRemove(p)
      BY <1>3, <2>2, <3>6 DEF RemoveTemporary, AbortRemove, Blank
    <3>7. CASE RemoveAllOpen(p) \/ RemoveAllRmdir(p) \/ Rename(p) \/ UNCHANGED disk
      BY <1>3, <2>2, <3>7 DEF RemoveAllOpen, RemoveAllRmdir, Rename, disk
    <3>8. QED
      BY <3>1, <3>2, <3>3, <3>4, <3>5, <3>6, <3>7, StepDisk
  <2>3. QED
    BY <2>1, <2>2
<1>4. ASSUME NEW n \in Names, at[n] \in Dirs, at'[n] # at[n] PROVE Clean(at[n])
  <2>1. Empty(at[n])
    BY <1>4, StepDisk
       DEF disk, AdoptWrite, RemoveTemporary, RemoveAllOpen, RemoveAllUnlink,
           RemoveAllRmdir, MkdirTemp, WriteFile, WriteSentinel, Rename, AbortRemove,
           Ownership, Targeted
  <2>2. QED
    BY <1>4, <2>1 DEF Clean, Empty, Present
<1>5. ASSUME NEW d \in Dirs, ~Clean(d)' PROVE \E n \in Names : at'[n] = d
  BY <1>2, <1>4, <1>5 DEF Sparing
<1>6. ASSUME NEW n \in Names, at'[n] \in Dirs, at'[n] # at[n] PROVE Clean(at'[n])
  <2>1. /\ at' # at /\ Rename(p)
    BY <1>6, StepDisk
       DEF disk, AdoptWrite, RemoveTemporary, RemoveAllOpen, RemoveAllUnlink,
           RemoveAllRmdir, MkdirTemp, WriteFile, WriteSentinel, Rename, AbortRemove,
           Ownership, Targeted
  <2>2. at'[n] = tmp[p] /\ pc[p] = "rename" /\ tmp[p] \in Dirs
    BY <1>6, <2>1, RenameMoves DEF Rename
  <2>3. temp[tmp[p]] # None
    BY <2>2 DEF Ownership, OwnName, Targeted, Writing
  <2>4. QED
    BY <2>2, <2>3 DEF Sparing
<1>7. ASSUME NEW q \in Commands
      PROVE  /\ pc'[q] = "clear" /\ at'[target'[q]] \in Dirs => Clean(at[target[q]])'
             /\ pc'[q] = "unlink" => Clean(rm[q])'
  <2>0. q \in Procs /\ q # Agent
    BY <1>7 DEF Procs
  <2>1. ASSUME NEW n \in Names, at'[n] \in Dirs, at[n] \in Dirs => Clean(at[n])
        PROVE  Clean(at[n])'
    BY <1>2, <1>6, <2>1 DEF Clean
  <2>2. CASE q # p
    <3>1. pc'[q] = pc[q] /\ target'[q] = target[q] /\ rm'[q] = rm[q]
      BY <2>0, <2>2, StepFrame
    <3>2. ASSUME pc[q] = "clear", at'[target[q]] \in Dirs PROVE Clean(at[target[q]])'
      <4>1. PICK n \in Names : n = target[q]
        BY <2>0, <3>2 DEF Ownership, Targeted
      <4>2. Clean(at[n])'
        BY <1>7, <2>1, <3>2, <4>1 DEF Sparing
      <4>3. QED
        BY <3>1, <4>1, <4>2 DEF Clean
    <3>3. ASSUME pc[q] = "unlink" PROVE Clean(rm[q])'
      <4>1. rm[q] \in Dirs /\ Clean(rm[q])
        BY <1>7, <2>0, <3>3 DEF Sparing, Layout, Removing
      <4>2. QED
        BY <1>2, <3>1, <4>1 DEF Clean
    <3>4. QED
      BY <3>1, <3>2, <3>3
  <2>3. CASE q = p /\ pc'[p] = "clear"
    <3>1. /\ CheckSwap(p)
      BY <2>0, <2>3, StepLeadsTo DEF GCExamine
    <3>2. PICK n \in Names : n = target[p]
      BY <3>1 DEF CheckSwap, Ownership, Targeted
    <3>3. /\ UNCHANGED <<at, dir, target>>
          /\ Replaceable(n, "command")
      BY <2>0, <2>3, <3>1, <3>2 DEF CheckSwap, Goto, Owner, disk
    <3>4. at[n] \in Dirs => Clean(at[n])
      BY <3>2, <3>3 DEF Replaceable, Sparing
    <3>5. QED
      BY <2>3, <3>2, <3>3, <3>4 DEF Clean
  <2>4. CASE q = p /\ pc'[p] = "unlink"
    <3>1. CASE RemoveAllOpen(p)
      <4>1. /\ pc[p] = "clear" /\ at[target[p]] \in Dirs /\ dir' = dir
            /\ rm'[p] = at[target[p]]
        BY <2>4, <3>1 DEF RemoveAllOpen, Removed, Goto
      <4>2. QED
        BY <1>7, <2>4, <4>1 DEF Sparing, Clean
    <3>2. ASSUME NEW e \in Entries, RemoveAllUnlink(p, e) PROVE Clean(rm[p])'
      <4>1. rm[p] \in Dirs /\ Clean(rm[p]) /\ rm' = rm
        BY <1>7, <2>4, <3>2 DEF RemoveAllUnlink, Sparing, Layout, Removing
      <4>2. QED
        BY <1>2, <4>1 DEF Clean
    <3>3. QED
      BY <2>4, <3>1, <3>2, StepLeadsTo
  <2>5. QED
    BY <2>2, <2>3, <2>4
<1>8. QED
  BY <1>3, <1>5, <1>7 DEF Sparing

\* Sparing follows a step of the next-state relation.
LEMMA SparingNext ==
    TypeOK /\ Ownership /\ Layout /\ Wholeness /\ Sparing /\ [Next]_vars => Sparing'
<1> SUFFICES ASSUME TypeOK, Ownership, Layout, Wholeness, Sparing, [Next]_vars
             PROVE  Sparing'
  OBVIOUS
<1> USE EntryAssumption, ProcAssumption
    DEF TypeOK, Sparing, Clean, Procs, Goto, disk, extraction, removal, scan, bounds
<1>1. ASSUME NEW p \in Commands, NEW n \in Names, NEW i \in Images,
             ImportBegin(p, n, i)
      PROVE  Sparing'
  BY <1>1 DEF ImportBegin
<1>2. ASSUME NEW n \in Names, NEW i \in Images, SyncBegin(n, i) PROVE Sparing'
  BY <1>2 DEF SyncBegin
<1>3. ASSUME NEW n \in Names, AdoptBegin(n) PROVE Sparing'
  BY <1>3 DEF AdoptBegin
<1>4. ASSUME NEW keep \in Keeps, GCBegin(keep) PROVE Sparing'
  BY <1>4 DEF GCBegin
<1>5. ASSUME NEW p \in Procs, Step(p) PROVE Sparing'
  <2>1. CASE damage = 0
    BY <1>5, <2>1, SparingStep
  <2>2. CASE damage # 0
    BY <1>5, <2>2, StepSparesDamage
  <2>3. QED
    BY <2>1, <2>2
<1>6. ASSUME NEW p \in Procs, Crash(p) PROVE Sparing'
  BY <1>6 DEF Crash, Fault, Return
<1>7. ASSUME NEW n \in Names, NEW kind \in DamageKinds, NEW f \in FileNames,
             Damage(n, kind, f)
      PROVE  Sparing'
  BY <1>7, BoundAssumption DEF Damage
<1>8. CASE UNCHANGED vars
  BY <1>8 DEF vars
<1>9. QED
  BY <1>1, <1>2, <1>3, <1>4, <1>5, <1>6, <1>7, <1>8 DEF Next

\* What is found with a sentinel, the store wrote.
LEMMA SparingInit == Init => Sparing
<1> SUFFICES ASSUME Init PROVE Sparing
  OBVIOUS
<1>1. PICK found \in [Names -> Found] :
        dir = [d \in Dirs |->
                  IF \E n \in Names : at[n] = d
                  THEN found[CHOOSE n \in Names : at[n] = d]
                  ELSE Blank]
  BY DEF Init
<1>2. ASSUME NEW d \in Dirs
      PROVE  /\ temp[d] # None \/ dir[d].mark # "none" => Clean(d)
             /\ Clean(d) \/ \E n \in Names : at[n] = d
  <2>1. CASE \E n \in Names : at[n] = d
    <3>1. (CHOOSE n \in Names : at[n] = d) \in Names
      BY <2>1
    <3>2. dir[d] \in Found
      BY <1>1, <2>1, <3>1
    <3>3. QED
      BY <2>1, <3>2, FoundAssumption DEF Init, Clean
  <2>2. CASE ~ \E n \in Names : at[n] = d
    BY <1>1, <2>2, EntryAssumption DEF Clean, Blank
  <2>3. QED
    BY <2>1, <2>2
<1>3. QED
  BY <1>2 DEF Init, Sparing, Procs

\* CommandSparesForeign: no sequence of imports, raced or killed, takes a file
\* from a directory that the store did not write.
THEOREM CommandsSpareForeign == Spec => CommandSparesForeign
<1>1. ASSUME TypeOK, Ownership, Layout, Wholeness, Sparing, [Next]_vars,
             NEW d \in Dirs, Foreign(d), damage' = 0, dir'[d] # dir[d]
      PROVE  rm[Agent] = d
  <2> USE <1>1, EntryAssumption DEF TypeOK
  <2>1. ~Clean(d) /\ damage = 0
    BY DEF Foreign, Clean
  <2>2. PICK n \in Names : at[n] = d
    BY <2>1 DEF Sparing
  <2>3. PICK p \in Procs : Step(p)
    <3>1. ~ \E m \in Names, kind \in DamageKinds, f \in FileNames : Damage(m, kind, f)
      BY <2>1, BoundAssumption DEF Damage
    <3>2. QED
      BY <3>1 DEF Next, ImportBegin, SyncBegin, AdoptBegin, GCBegin, Crash, disk, vars
  <2>4. /\ target[p] = n
        /\ AdoptWrite(p) \/ \E e \in Entries : RemoveAllUnlink(p, e)
    BY <2>2, <2>3, StepTouches
  <2>5. ~AdoptWrite(p)
    BY <2>1, <2>2, <2>4 DEF AdoptWrite, Wholeness, Adopting, Uniform, Clean
  <2>6. PICK e \in Entries : RemoveAllUnlink(p, e)
    BY <2>4, <2>5
  <2>7. pc[p] = "unlink" /\ rm[p] = d
    BY <2>6 DEF RemoveAllUnlink
  <2>8. p \notin Commands
    BY <2>1, <2>7 DEF Sparing
  <2>9. QED
    BY <2>7, <2>8 DEF Procs
<1>2. TypeOK /\ Ownership /\ Layout /\ Wholeness /\ Sparing /\ [Next]_vars =>
        [\A d \in Dirs :
            Foreign(d) /\ damage' = 0 /\ dir'[d] # dir[d] => rm[Agent] = d]_vars
  BY <1>1
<1>3. QED
  BY <1>2, TypeCorrect, OwnershipInvariant, LayoutInvariant, WholenessInvariant,
     SparingInit, SparingNext, PTL
     DEF Spec, CommandSparesForeign
=============================================================================
