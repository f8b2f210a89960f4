----------------------------- MODULE CacheStore -----------------------------
(***************************************************************************)
(* The cache path of one node and the processes that write it: the agent   *)
(* (one reconcile pass at a time) and any number of imagecachectl runs.    *)
(* They share nothing but the filesystem, so every step below is one       *)
(* system call, or a run of calls nobody else can tell apart, of           *)
(* agent/internal/cache/store.go.                                          *)
(*                                                                         *)
(* A directory is an inode: the temporary directory of an extraction and   *)
(* the resource directory it becomes by rename are the same element of     *)
(* Dirs.  temp[d] is the resource whose hidden temporary name links d,     *)
(* at[n] is what sits under the resource name n.                           *)
(*                                                                         *)
(* The callers are the most general ones the code allows: the agent syncs  *)
(* and collects in any order, a command imports any name at any time.      *)
(***************************************************************************)
EXTENDS Naturals, FiniteSets

CONSTANTS
    Agent,           \* the agent's process
    Commands,        \* imagecachectl processes
    Names,           \* resource names
    Images,          \* boot cache images
    FileNames,       \* base names of the files an image carries
    Dirs,            \* directory inodes
    TemporaryTries,  \* temporaryTries
    Keeps,           \* the sets of names a pass may ask GC to keep
    Found,           \* directories that may be there before anything runs
    DamageKinds,     \* what an operator may do to a resource directory
    MaxDamage,       \* bound on the number of those
    MaxFaults,       \* bound on the number of kills and failed system calls
    None, Flat, Link, Altered, Sentinel

Procs == {Agent} \cup Commands

\* Entries of a directory: its sentinel and its files.
Entries == {Sentinel} \cup FileNames

\* What a directory has for a sentinel: none, one that does not parse, one that
\* is there but cannot be read (a bad sector, a directory of that name), one
\* that cannot even be stat'ed (a directory without search permission), one
\* that parses.
Marks == {"none", "corrupt", "unreadable", "sealed", "parsed"}

Owners == {"none", "agent", "command"}

\* What a sentinel holds besides its owner.
Record == [image : Images \cup {None}, lists : SUBSET FileNames]

NoRecord == [image |-> None, lists |-> {}]

\* A directory.  mark tells what looking at the sentinel gives; owner, image
\* and lists are the record it holds; files[f] is the image file f came from,
\* Altered when something else wrote it, None when it is not there.
Directory ==
    [mark  : Marks,
     owner : Owners,
     image : Images \cup {None},
     lists : SUBSET FileNames,
     files : [FileNames -> Images \cup {None, Altered}]]

Blank ==
    [mark |-> "none", owner |-> "none", image |-> None, lists |-> {},
     files |-> [f \in FileNames |-> None]]

\* A directory with another sentinel, with none, or with another file f.
Signed(r, mark, owner, i, lists) ==
    [r EXCEPT !.mark = mark, !.owner = owner, !.image = i, !.lists = lists]

Unsigned(r) == Signed(r, "none", "none", None, {})

WithFile(r, f, c) == [r EXCEPT !.files[f] = c]

ASSUME ProcAssumption ==
    /\ Agent \notin Commands
    /\ None \notin Procs

ASSUME EntryAssumption ==
    /\ None \notin Dirs \cup Names \cup Images
    /\ Flat \notin Dirs /\ Link \notin Dirs
    /\ Flat # None /\ Link # None /\ Flat # Link
    /\ Altered \notin Images /\ Altered # None
    /\ Sentinel \notin FileNames
    /\ Names \cap Dirs = {}

ASSUME BoundAssumption ==
    /\ TemporaryTries \in Nat \ {0}
    /\ MaxDamage \in Nat
    /\ MaxFaults \in Nat
    /\ Keeps \subseteq SUBSET Names

ASSUME DamageAssumption ==
    DamageKinds \subseteq
        {"delete", "alter", "unmark", "corrupt", "unreadable", "sealed"}

\* A directory found with a sentinel is one an earlier run published, whole:
\* it lists every file, and those still there came from one image.  Files of
\* others are in directories without one.
ASSUME FoundAssumption ==
    /\ Found \subseteq Directory
    /\ \A r \in Found :
          r.mark = "parsed" =>
              /\ r.lists = FileNames
              /\ \E i \in Images : \A f \in FileNames : r.files[f] \in {i, None}
    /\ \A r \in Found :
          r.mark # "none" => \A f \in FileNames : r.files[f] # Altered

VARIABLES
    at,       \* [Names -> Dirs, None, Flat or Link]: the resource's path
    temp,     \* [Dirs -> Names or None]: linked as a temporary of that name
    dir,      \* [Dirs -> Directory]
    lock,     \* [Dirs -> Procs or None]: flock
    pc,       \* [Procs -> PCs]
    target,   \* [Procs -> Names or None]: the name worked on
    image,    \* [Procs -> Images or None]: the image being extracted
    tmp,      \* [Procs -> Dirs or None]: Extract's temporary directory
    tries,    \* [Procs -> Nat]: temporary directories lost so far
    todo,     \* [Procs -> SUBSET (Dirs \cup Names)]: listed, not yet visited
    fd,       \* [Procs -> Dirs or None]: removeTemporary's handle
    sn,       \* the record Adopt read, for it to write back
    rm,       \* [Procs -> Dirs or None]: the directory RemoveAll opened
    left,     \* [Procs -> SUBSET Entries]: what RemoveAll has yet to unlink
    res,      \* [Procs -> {"none", "ok", "failed"}]: how the last call ended
    damage,   \* number of tamperings so far
    faults    \* number of kills and failed system calls so far

disk == <<at, temp, dir>>
extraction == <<image, tmp, tries>>
removal == <<rm, left>>
scan == <<todo, fd, sn>>
bounds == <<damage, faults>>
vars == <<at, temp, dir, lock, pc, target, image, tmp, tries, todo, fd, sn, rm,
          left, res, damage, faults>>

PCs == {"idle", "adopt", "own", "state", "sweep", "scan", "rtlock", "rtremove", "fill",
        "mkdir", "open", "flock", "stat", "write", "sentinel", "swap",
        "clear", "unlink", "rmdir", "rename", "done", "abort", "cleanup"}

\* Between lockTemporary's last check and the rename: the temporary directory
\* is the writer's.
Writing == {"write", "sentinel", "swap", "clear", "unlink", "rmdir", "rename"}

-----------------------------------------------------------------------------
(***************************************************************************)
(* What the calls report about a directory.                                *)
(***************************************************************************)

Owner(p) == IF p = Agent THEN "agent" ELSE "command"

Present(d) == {f \in FileNames : dir[d].files[f] # None}

Empty(d) == dir[d].mark = "none" /\ Present(d) = {}

\* State of the zero Store: the sentinel parses and the files it lists are
\* there, whatever they hold.
NamesComplete(n) ==
    /\ at[n] \in Dirs
    /\ dir[at[n]].mark = "parsed"
    /\ dir[at[n]].lists \subseteq Present(at[n])

\* ReadFile of the sentinel fails, though there is one: for State, Adopt and GC.
Unreadable(n) == at[n] \in Dirs /\ dir[at[n]].mark \in {"unreadable", "sealed"}

\* So does Stat, which is all that replaceable asks.
Sealed(n) == at[n] \in Dirs /\ dir[at[n]].mark = "sealed"

\* Mutant: any owner replaces a directory with no sentinel.
ReplaceableAnything(n, owner) == ~Sealed(n)

\* replaceable: may an extraction by owner remove what is at n?  A sentinel
\* that can be stat'ed is enough, whether or not it can be read.
Replaceable(n, owner) ==
    \/ at[n] = None
    \/ owner = "agent" /\ ~Sealed(n)
    \/ at[n] \in Dirs /\ dir[at[n]].mark \in {"corrupt", "unreadable", "parsed"}

\* State of the agent's Store, which hashes the files too.
ContentComplete(n) ==
    /\ NamesComplete(n)
    /\ \A f \in dir[at[n]].lists : dir[at[n]].files[f] = dir[at[n]].image

\* seeded: the sentinel names a writer other than the agent.
SeededDir(d) == dir[d].mark = "parsed" /\ dir[d].owner # "agent"

\* An inode nothing links, opens or remembers.
Free(d) ==
    /\ temp[d] = None
    /\ lock[d] = None
    /\ \A n \in Names : at[n] # d
    /\ \A p \in Procs : /\ tmp[p] # d /\ fd[p] # d /\ rm[p] # d
                        /\ d \notin todo[p]

Goto(p, label) == pc' = [pc EXCEPT ![p] = label]

\* A system call fails, or a process is killed.
Fault ==
    /\ faults < MaxFaults
    /\ faults' = faults + 1
    /\ UNCHANGED damage

\* The end of a call: the process forgets what it held.
Return(p, r) ==
    /\ Goto(p, "idle")
    /\ res' = [res EXCEPT ![p] = r]
    /\ image' = [image EXCEPT ![p] = None]
    /\ tmp' = [tmp EXCEPT ![p] = None]
    /\ tries' = [tries EXCEPT ![p] = 0]

-----------------------------------------------------------------------------
(***************************************************************************)
(* The callers: imagecachectl import (cli.do), the agent's sync, and GC.   *)
(***************************************************************************)

\* do: one import of image i under the name n.
ImportBegin(p, n, i) ==
    /\ p \in Commands
    /\ pc[p] = "idle"
    /\ Goto(p, "state")
    /\ target' = [target EXCEPT ![p] = n]
    /\ image' = [image EXCEPT ![p] = i]
    /\ res' = [res EXCEPT ![p] = "none"]
    /\ UNCHANGED <<disk, lock, tmp, tries, scan, removal, bounds>>

\* do: the state decides; a complete resource ends the run.
ImportState(p) ==
    /\ pc[p] = "state"
    /\ \/ /\ Unreadable(target[p])
          /\ Return(p, "failed")
       \/ /\ ~Unreadable(target[p])
          /\ NamesComplete(target[p])
          /\ Return(p, "ok")
       \/ /\ ~Unreadable(target[p])
          /\ ~NamesComplete(target[p])
          /\ Goto(p, "sweep")
          /\ UNCHANGED <<res, extraction>>
    /\ UNCHANGED <<disk, lock, target, scan, removal, bounds>>

\* SweepTemporaries: list the temporaries of this resource.
SweepTemporaries(p) ==
    /\ pc[p] = "sweep"
    /\ todo' = [todo EXCEPT ![p] = {d \in Dirs : temp[d] = target[p]}]
    /\ Goto(p, "scan")
    /\ UNCHANGED <<disk, lock, target, extraction, fd, sn, removal, res, bounds>>

\* do: the cache path, the state or the listing cannot be read.
ImportFails(p) ==
    /\ pc[p] \in {"state", "sweep"}
    /\ Fault
    /\ Return(p, "failed")
    /\ UNCHANGED <<disk, lock, target, scan, removal>>

\* sync: the agent fills n with image i.
SyncBegin(n, i) ==
    /\ pc[Agent] = "idle"
    /\ Goto(Agent, "fill")
    /\ target' = [target EXCEPT ![Agent] = n]
    /\ image' = [image EXCEPT ![Agent] = i]
    /\ res' = [res EXCEPT ![Agent] = "none"]
    /\ UNCHANGED <<disk, lock, tmp, tries, scan, removal, bounds>>

\* Mutant: the temporary directories are passed over.
GCBeginNamed(keep) ==
    /\ pc[Agent] = "idle"
    /\ todo' = [todo EXCEPT ![Agent] =
                    {n \in Names \ keep : at[n] \in Dirs \cup {Link}}]
    /\ Goto(Agent, "scan")
    /\ target' = [target EXCEPT ![Agent] = None]
    /\ res' = [res EXCEPT ![Agent] = "none"]
    /\ UNCHANGED <<disk, lock, extraction, fd, sn, removal, bounds>>

\* GC: list the entries keep does not name.  Regular files are passed over.
GCBegin(keep) ==
    /\ pc[Agent] = "idle"
    /\ todo' = [todo EXCEPT ![Agent] =
                    {d \in Dirs : temp[d] # None}
                    \cup {n \in Names \ keep : at[n] \in Dirs \cup {Link}}]
    /\ Goto(Agent, "scan")
    /\ target' = [target EXCEPT ![Agent] = None]
    /\ res' = [res EXCEPT ![Agent] = "none"]
    /\ UNCHANGED <<disk, lock, extraction, fd, sn, removal, bounds>>

\* The listing is exhausted: GC returns, a command goes on to Fill unless an
\* entry could not be removed.
ScanDone(p) ==
    /\ pc[p] = "scan"
    /\ todo[p] = {}
    /\ \/ /\ p = Agent
          /\ Return(p, IF res[p] = "failed" THEN "failed" ELSE "ok")
       \/ /\ p \in Commands
          /\ res[p] = "failed"
          /\ Return(p, "failed")
       \/ /\ p \in Commands
          /\ res[p] # "failed"
          /\ Goto(p, "fill")
          /\ UNCHANGED <<res, extraction>>
    /\ UNCHANGED <<disk, lock, target, scan, removal, bounds>>

-----------------------------------------------------------------------------
(***************************************************************************)
(* Adopt: the agent becomes the owner of a directory a command seeded.     *)
(***************************************************************************)

\* The pass found the content complete and another writer's name on it.
AdoptBegin(n) ==
    /\ pc[Agent] = "idle"
    /\ ContentComplete(n)
    /\ SeededDir(at[n])
    /\ Goto(Agent, "adopt")
    /\ target' = [target EXCEPT ![Agent] = n]
    /\ res' = [res EXCEPT ![Agent] = "none"]
    /\ UNCHANGED <<disk, lock, extraction, scan, removal, bounds>>

\* readSentinel, again: what is there now may not be what was checked.
AdoptRead(p) ==
    LET n == target[p] IN
    /\ pc[p] = "adopt"
    /\ \/ /\ at[n] \in Dirs /\ dir[at[n]].mark = "parsed"
          /\ sn' = [image |-> dir[at[n]].image, lists |-> dir[at[n]].lists]
          /\ Goto(p, "own")
          /\ UNCHANGED <<res, extraction>>
       \/ /\ ~(at[n] \in Dirs /\ dir[at[n]].mark = "parsed")
          /\ Return(p, "failed")
          /\ UNCHANGED sn
    /\ UNCHANGED <<disk, lock, target, todo, fd, removal, bounds>>

\* Write the record back with the new owner, through a file renamed over the
\* sentinel of whatever directory is there by then.  The rename goes over one
\* that cannot be read, unless that is a directory.
AdoptWrite(p) ==
    LET n == target[p] IN
    /\ pc[p] = "own"
    /\ \/ /\ at[n] \in Dirs /\ ~Sealed(n)
          /\ dir' = [dir EXCEPT ![at[n]] =
                        Signed(@, "parsed", "agent", sn.image, sn.lists)]
          /\ Return(p, "ok")
       \/ /\ ~(at[n] \in Dirs /\ ~Unreadable(n))
          /\ Return(p, "failed")
          /\ UNCHANGED dir
    /\ sn' = NoRecord
    /\ UNCHANGED <<at, temp, lock, target, todo, fd, removal, bounds>>

\* The read, the write or the rename fails.
AdoptFails(p) ==
    /\ pc[p] \in {"adopt", "own"}
    /\ Fault
    /\ Return(p, "failed")
    /\ sn' = NoRecord
    /\ UNCHANGED <<disk, lock, target, todo, fd, removal>>

-----------------------------------------------------------------------------
(***************************************************************************)
(* removeTemporary, for GC and SweepTemporaries.                           *)
(***************************************************************************)

\* Open the temporary directory d; one that is gone is passed over.
RemoveTemporaryOpen(p, d) ==
    /\ pc[p] = "scan"
    /\ d \in todo[p] \cap Dirs
    /\ todo' = [todo EXCEPT ![p] = @ \ {d}]
    /\ IF temp[d] = None
       THEN UNCHANGED <<pc, fd>>
       ELSE /\ fd' = [fd EXCEPT ![p] = d]
            /\ Goto(p, "rtlock")
    /\ UNCHANGED <<disk, lock, target, extraction, sn, removal, res, bounds>>

\* LOCK_EX|LOCK_NB: a locked one belongs to a writer, and stays.
RemoveTemporaryLock(p) ==
    /\ pc[p] = "rtlock"
    /\ IF lock[fd[p]] = None
       THEN /\ lock' = [lock EXCEPT ![fd[p]] = p]
            /\ Goto(p, "rtremove")
            /\ UNCHANGED fd
       ELSE /\ fd' = [fd EXCEPT ![p] = None]
            /\ Goto(p, "scan")
            /\ UNCHANGED lock
    /\ UNCHANGED <<disk, target, extraction, todo, sn, removal, res, bounds>>

\* RemoveAll of the path that was opened, then the handle and its lock go.
\* The path may be gone: the writer renamed it before the lock was taken.
RemoveTemporary(p) ==
    /\ pc[p] = "rtremove"
    /\ temp' = [temp EXCEPT ![fd[p]] = None]
    /\ dir' = [dir EXCEPT ![fd[p]] = IF temp[fd[p]] = None THEN @ ELSE Blank]
    /\ lock' = [lock EXCEPT ![fd[p]] = None]
    /\ fd' = [fd EXCEPT ![p] = None]
    /\ Goto(p, "scan")
    /\ UNCHANGED <<at, target, extraction, todo, sn, removal, res, bounds>>

\* A failed system call: the entry stays, and the call goes on to the next
\* one and fails at the end.
RemoveTemporaryFails(p) ==
    /\ pc[p] \in {"rtlock", "rtremove"}
    /\ Fault
    /\ lock' = [lock EXCEPT ![fd[p]] = IF @ = p THEN None ELSE @]
    /\ fd' = [fd EXCEPT ![p] = None]
    /\ res' = [res EXCEPT ![p] = "failed"]
    /\ Goto(p, "scan")
    /\ UNCHANGED <<disk, target, extraction, todo, sn, removal>>

-----------------------------------------------------------------------------
(***************************************************************************)
(* GC of a resource name.                                                  *)
(***************************************************************************)

\* Mutant: a sentinel that cannot be read is taken for none.
GCExamineParsed(p, n) ==
    /\ p = Agent
    /\ pc[p] = "scan"
    /\ n \in todo[p] \cap Names
    /\ todo' = [todo EXCEPT ![p] = @ \ {n}]
    /\ \/ /\ at[n] \in Dirs /\ SeededDir(at[n])
          /\ UNCHANGED <<pc, target, res>>
       \/ /\ ~(at[n] \in Dirs /\ SeededDir(at[n]))
          /\ target' = [target EXCEPT ![p] = n]
          /\ Goto(p, "clear")
          /\ UNCHANGED res
    /\ UNCHANGED <<disk, lock, extraction, fd, sn, removal, bounds>>

\* Read the sentinel: a seeded directory stays, an unreadable one stays and
\* is reported, anything else goes.
GCExamine(p, n) ==
    /\ p = Agent
    /\ pc[p] = "scan"
    /\ n \in todo[p] \cap Names
    /\ todo' = [todo EXCEPT ![p] = @ \ {n}]
    /\ \/ /\ Unreadable(n)
          /\ res' = [res EXCEPT ![p] = "failed"]
          /\ UNCHANGED <<pc, target>>
       \/ /\ at[n] \in Dirs /\ SeededDir(at[n])
          /\ UNCHANGED <<pc, target, res>>
       \/ /\ ~Unreadable(n)
          /\ ~(at[n] \in Dirs /\ SeededDir(at[n]))
          /\ target' = [target EXCEPT ![p] = n]
          /\ Goto(p, "clear")
          /\ UNCHANGED res
    /\ UNCHANGED <<disk, lock, extraction, fd, sn, removal, bounds>>

-----------------------------------------------------------------------------
(***************************************************************************)
(* os.RemoveAll of a resource path, for GC and for the swap.  It opens the *)
(* directory, unlinks what it lists, then removes the path by name.        *)
(***************************************************************************)

\* Where the caller goes on: the swap to its rename, GC to the next entry.
Removed(p) ==
    /\ Goto(p, IF tmp[p] = None THEN "scan" ELSE "rename")
    /\ UNCHANGED res

NotRemoved(p) ==
    /\ Goto(p, IF tmp[p] = None THEN "scan" ELSE "abort")
    /\ res' = [res EXCEPT ![p] = IF tmp[p] = None THEN "failed" ELSE @]

\* A file or a link goes by one unlink; so does an empty directory.
RemoveAllOpen(p) ==
    LET n == target[p] IN
    /\ pc[p] = "clear"
    /\ \/ /\ at[n] \in Dirs /\ ~Empty(at[n])
          /\ rm' = [rm EXCEPT ![p] = at[n]]
          /\ left' = [left EXCEPT ![p] =
                 Present(at[n]) \cup
                 (IF dir[at[n]].mark = "none" THEN {} ELSE {Sentinel})]
          /\ Goto(p, "unlink")
          /\ UNCHANGED <<at, res>>
       \/ /\ ~(at[n] \in Dirs /\ ~Empty(at[n]))
          /\ at' = [at EXCEPT ![n] = None]
          /\ Removed(p)
          /\ UNCHANGED removal
    /\ UNCHANGED <<temp, dir, lock, target, extraction, scan, bounds>>

\* One entry of the directory that was opened, in the order it lists them.
RemoveAllUnlink(p, e) ==
    /\ pc[p] = "unlink"
    /\ e \in left[p]
    /\ left' = [left EXCEPT ![p] = @ \ {e}]
    /\ dir' = [dir EXCEPT ![rm[p]] =
                  IF e = Sentinel THEN Unsigned(@) ELSE WithFile(@, e, None)]
    /\ Goto(p, IF left[p] = {e} THEN "rmdir" ELSE "unlink")
    /\ UNCHANGED <<at, temp, lock, target, extraction, scan, rm, res, bounds>>

\* rmdir by name: what sits there now may be another directory.
RemoveAllRmdir(p) ==
    LET n == target[p] IN
    /\ pc[p] = "rmdir"
    /\ \/ /\ at[n] = None \/ (at[n] \in Dirs /\ Empty(at[n]))
          /\ at' = [at EXCEPT ![n] = None]
          /\ Removed(p)
       \/ /\ at[n] # None /\ ~(at[n] \in Dirs /\ Empty(at[n]))
          /\ NotRemoved(p)
          /\ UNCHANGED at
    /\ rm' = [rm EXCEPT ![p] = None]
    /\ UNCHANGED <<temp, dir, lock, target, extraction, scan, left, bounds>>

\* RemoveAll stops on an entry it cannot remove.
RemoveAllFails(p) ==
    /\ pc[p] \in {"clear", "unlink", "rmdir"}
    /\ Fault
    /\ NotRemoved(p)
    /\ rm' = [rm EXCEPT ![p] = None]
    /\ left' = [left EXCEPT ![p] = {}]
    /\ UNCHANGED <<disk, lock, target, extraction, scan>>

-----------------------------------------------------------------------------
(***************************************************************************)
(* Fill and Extract.                                                       *)
(***************************************************************************)

\* Fill: ask first, then pull.  A pull that fails ends the call.
Fill(p) ==
    /\ pc[p] = "fill"
    /\ \/ Return(p, "failed")
       \/ /\ Replaceable(target[p], Owner(p))
          /\ Goto(p, "mkdir")
          /\ UNCHANGED <<res, extraction>>
    /\ UNCHANGED <<disk, lock, target, scan, removal, bounds>>

\* createTemporary: MkdirTemp, under a name nobody used.
MkdirTemp(p, d) ==
    /\ pc[p] = "mkdir"
    /\ Free(d)
    /\ temp' = [temp EXCEPT ![d] = target[p]]
    /\ dir' = [dir EXCEPT ![d] = Blank]
    /\ tmp' = [tmp EXCEPT ![p] = d]
    /\ Goto(p, "open")
    /\ UNCHANGED <<at, lock, target, image, tries, scan, removal, res, bounds>>

\* Mutant: one attempt too many.
LostOnceMore(p) ==
    IF tries[p] < TemporaryTries
    THEN /\ tries' = [tries EXCEPT ![p] = @ + 1]
         /\ tmp' = [tmp EXCEPT ![p] = None]
         /\ Goto(p, "mkdir")
         /\ UNCHANGED <<image, res>>
    ELSE Return(p, "failed")

\* Mutant: the attempts are not counted.
LostForever(p) ==
    /\ tmp' = [tmp EXCEPT ![p] = None]
    /\ Goto(p, "mkdir")
    /\ UNCHANGED <<image, tries, res>>

\* The temporary directory was removed before it was locked.
Lost(p) ==
    IF tries[p] + 1 < TemporaryTries
    THEN /\ tries' = [tries EXCEPT ![p] = @ + 1]
         /\ tmp' = [tmp EXCEPT ![p] = None]
         /\ Goto(p, "mkdir")
         /\ UNCHANGED <<image, res>>
    ELSE Return(p, "failed")

\* lockTemporary: open the directory.
LockOpen(p) ==
    /\ pc[p] = "open"
    /\ IF temp[tmp[p]] = None
       THEN Lost(p)
       ELSE Goto(p, "flock") /\ UNCHANGED <<extraction, res>>
    /\ UNCHANGED <<disk, lock, target, scan, removal, bounds>>

\* lockTemporary: LOCK_EX waits for a remover to let go.
Flock(p) ==
    /\ pc[p] = "flock"
    /\ lock[tmp[p]] = None
    /\ lock' = [lock EXCEPT ![tmp[p]] = p]
    /\ Goto(p, "stat")
    /\ UNCHANGED <<disk, target, extraction, scan, removal, res, bounds>>

\* Mutant: the directory is not looked at again once locked.
LockNoStat(p) ==
    /\ pc[p] = "stat"
    /\ Goto(p, "write")
    /\ UNCHANGED <<disk, lock, target, extraction, scan, removal, res, bounds>>

\* lockTemporary: a directory removed before the lock is given up.
LockStat(p) ==
    /\ pc[p] = "stat"
    /\ IF temp[tmp[p]] = None
       THEN /\ lock' = [lock EXCEPT ![tmp[p]] = None]
            /\ Lost(p)
       ELSE /\ Goto(p, "write")
            /\ UNCHANGED <<lock, extraction, res>>
    /\ UNCHANGED <<disk, target, scan, removal, bounds>>

\* createTemporary: a failed system call; the handle is closed, and the
\* directory made goes.
CreateFails(p) ==
    /\ Fault
    /\ \/ /\ pc[p] = "mkdir"
          /\ Return(p, "failed")
          /\ UNCHANGED lock
       \/ /\ pc[p] \in {"open", "flock", "stat"}
          /\ Goto(p, "cleanup")
          /\ lock' = [lock EXCEPT ![tmp[p]] = IF @ = p THEN None ELSE @]
          /\ UNCHANGED <<extraction, res>>
    /\ UNCHANGED <<disk, target, scan, removal>>

\* Extract: the next regular file of the stream.
WriteFile(p, f) ==
    /\ pc[p] = "write"
    /\ dir[tmp[p]].files[f] = None
    /\ dir' = [dir EXCEPT ![tmp[p]] = WithFile(@, f, image[p])]
    /\ UNCHANGED <<at, temp, lock, pc, target, extraction, scan, removal, res,
                   bounds>>

\* Mutant: a stream cut short is taken for its end.
StreamEndsWrapped(p) ==
    /\ pc[p] = "write"
    /\ Present(tmp[p]) # {}
    /\ Goto(p, "sentinel")
    /\ UNCHANGED <<disk, lock, target, extraction, scan, removal, res, bounds>>

\* Extract: the end of the stream, and only the end, with a file in it.
StreamEnds(p) ==
    /\ pc[p] = "write"
    /\ Present(tmp[p]) # {}
    /\ Present(tmp[p]) = FileNames
    /\ Goto(p, "sentinel")
    /\ UNCHANGED <<disk, lock, target, extraction, scan, removal, res, bounds>>

\* Extract: a refused entry, a failed read or write, a cancelled context.
StreamFails(p) ==
    /\ pc[p] = "write"
    /\ Goto(p, "abort")
    /\ UNCHANGED <<disk, lock, target, extraction, scan, removal, res, bounds>>

\* Extract: the sentinel, after everything else.
WriteSentinel(p) ==
    /\ pc[p] = "sentinel"
    /\ dir' = [dir EXCEPT ![tmp[p]] =
                  Signed(@, "parsed", Owner(p), image[p], Present(tmp[p]))]
    /\ Goto(p, "swap")
    /\ UNCHANGED <<at, temp, lock, target, extraction, scan, removal, res,
                   bounds>>

\* Extract: writing the sentinel, looking at the directory to replace or the
\* rename fails.
ExtractFails(p) ==
    /\ pc[p] \in {"sentinel", "swap", "rename"}
    /\ Fault
    /\ Goto(p, "abort")
    /\ UNCHANGED <<disk, lock, target, extraction, scan, removal, res>>

\* Extract: replaceable, asked again at the swap.
CheckSwap(p) ==
    /\ pc[p] = "swap"
    /\ Goto(p, IF Replaceable(target[p], Owner(p)) THEN "clear" ELSE "abort")
    /\ UNCHANGED <<disk, lock, target, extraction, scan, removal, res, bounds>>

\* Mutant: the new directory takes the place of any other.
RenameOver(p) ==
    /\ pc[p] = "rename"
    /\ at' = [at EXCEPT ![target[p]] = tmp[p]]
    /\ temp' = [temp EXCEPT ![tmp[p]] = None]
    /\ Goto(p, "done")
    /\ UNCHANGED <<dir, lock, target, extraction, scan, removal, res, bounds>>

\* Extract: rename replaces nothing or an empty directory.
Rename(p) ==
    LET n == target[p] IN
    /\ pc[p] = "rename"
    /\ IF at[n] = None \/ (at[n] \in Dirs /\ Empty(at[n]))
       THEN /\ at' = [at EXCEPT ![n] = tmp[p]]
            /\ temp' = [temp EXCEPT ![tmp[p]] = None]
            /\ Goto(p, "done")
       ELSE /\ Goto(p, "abort")
            /\ UNCHANGED <<at, temp>>
    /\ UNCHANGED <<dir, lock, target, extraction, scan, removal, res, bounds>>

\* Extract returns: the lock goes with the handle.
Close(p) ==
    /\ pc[p] = "done"
    /\ lock' = [lock EXCEPT ![tmp[p]] = None]
    /\ Return(p, "ok")
    /\ UNCHANGED <<disk, target, scan, removal, bounds>>

\* Extract fails: the deferred calls run in reverse, the handle first.
AbortClose(p) ==
    /\ pc[p] = "abort"
    /\ lock' = [lock EXCEPT ![tmp[p]] = None]
    /\ Goto(p, "cleanup")
    /\ UNCHANGED <<disk, target, extraction, scan, removal, res, bounds>>

\* Mutant: the cleanup removes the resource directory instead.
AbortRemoveFinal(p) ==
    /\ pc[p] = "cleanup"
    /\ at' = [at EXCEPT ![target[p]] = None]
    /\ Return(p, "failed")
    /\ UNCHANGED <<temp, dir, lock, target, scan, removal, bounds>>

\* Extract fails: then its temporary directory, if GC has not removed it.
AbortRemove(p) ==
    /\ pc[p] = "cleanup"
    /\ temp' = [temp EXCEPT ![tmp[p]] = None]
    /\ dir' = [dir EXCEPT ![tmp[p]] = IF temp[tmp[p]] = None THEN @ ELSE Blank]
    /\ Return(p, "failed")
    /\ UNCHANGED <<at, lock, target, scan, removal, bounds>>

\* Extract fails: even that may fail, and the leftover stays.
AbortRemoveFails(p) ==
    /\ pc[p] = "cleanup"
    /\ Fault
    /\ Return(p, "failed")
    /\ UNCHANGED <<disk, lock, target, scan, removal>>

-----------------------------------------------------------------------------
(***************************************************************************)
(* What the code does not control.                                         *)
(***************************************************************************)

\* A process is killed: its locks go with it, what is on disk stays.
Crash(p) ==
    /\ pc[p] # "idle"
    /\ Fault
    /\ lock' = [d \in Dirs |-> IF lock[d] = p THEN None ELSE lock[d]]
    /\ Return(p, "none")
    /\ todo' = [todo EXCEPT ![p] = {}]
    /\ fd' = [fd EXCEPT ![p] = None]
    /\ rm' = [rm EXCEPT ![p] = None]
    /\ left' = [left EXCEPT ![p] = {}]
    /\ sn' = IF p = Agent THEN NoRecord ELSE sn
    /\ UNCHANGED <<disk, target>>

\* What an operator, or a bad disk, may do to a resource directory.
Damaged(r, kind, f) ==
    CASE kind = "delete"     -> WithFile(r, f, None)
      [] kind = "alter"      -> IF r.files[f] = None THEN r
                                ELSE WithFile(r, f, Altered)
      [] kind = "unmark"     -> Unsigned(r)
      [] kind = "corrupt"    -> IF r.mark = "none" THEN r
                                ELSE Signed(r, "corrupt", "none", None, {})
      [] kind = "unreadable" -> IF r.mark = "none" THEN r
                                ELSE [r EXCEPT !.mark = "unreadable"]
      [] kind = "sealed"     -> IF r.mark = "none" THEN r
                                ELSE [r EXCEPT !.mark = "sealed"]

Damage(n, kind, f) ==
    /\ damage < MaxDamage
    /\ at[n] \in Dirs
    /\ damage' = damage + 1
    /\ dir' = [dir EXCEPT ![at[n]] = Damaged(@, kind, f)]
    /\ UNCHANGED <<at, temp, lock, pc, target, extraction, scan, removal, res,
                   faults>>

-----------------------------------------------------------------------------

Init ==
    /\ at \in [Names -> Dirs \cup {None, Flat, Link}]
    /\ \A m, n \in Names : m # n /\ at[m] \in Dirs => at[m] # at[n]
    /\ \E found \in [Names -> Found] :
          dir = [d \in Dirs |->
                    IF \E n \in Names : at[n] = d
                    THEN found[CHOOSE n \in Names : at[n] = d]
                    ELSE Blank]
    /\ temp = [d \in Dirs |-> None]
    /\ lock = [d \in Dirs |-> None]
    /\ pc = [p \in Procs |-> "idle"]
    /\ target = [p \in Procs |-> None]
    /\ image = [p \in Procs |-> None]
    /\ tmp = [p \in Procs |-> None]
    /\ tries = [p \in Procs |-> 0]
    /\ todo = [p \in Procs |-> {}]
    /\ fd = [p \in Procs |-> None]
    /\ rm = [p \in Procs |-> None]
    /\ left = [p \in Procs |-> {}]
    /\ sn = NoRecord
    /\ res = [p \in Procs |-> "none"]
    /\ damage = 0
    /\ faults = 0

\* The steps a process takes on its own once a call has begun.
Step(p) ==
    \/ ImportState(p)
    \/ SweepTemporaries(p)
    \/ ImportFails(p)
    \/ ScanDone(p)
    \/ AdoptRead(p)
    \/ AdoptWrite(p)
    \/ AdoptFails(p)
    \/ \E d \in Dirs : RemoveTemporaryOpen(p, d)
    \/ RemoveTemporaryLock(p)
    \/ RemoveTemporary(p)
    \/ RemoveTemporaryFails(p)
    \/ \E n \in Names : GCExamine(p, n)
    \/ RemoveAllOpen(p)
    \/ \E e \in Entries : RemoveAllUnlink(p, e)
    \/ RemoveAllRmdir(p)
    \/ RemoveAllFails(p)
    \/ Fill(p)
    \/ \E d \in Dirs : MkdirTemp(p, d)
    \/ LockOpen(p)
    \/ Flock(p)
    \/ LockStat(p)
    \/ CreateFails(p)
    \/ \E f \in FileNames : WriteFile(p, f)
    \/ StreamEnds(p)
    \/ StreamFails(p)
    \/ WriteSentinel(p)
    \/ ExtractFails(p)
    \/ CheckSwap(p)
    \/ Rename(p)
    \/ Close(p)
    \/ AbortClose(p)
    \/ AbortRemove(p)
    \/ AbortRemoveFails(p)

Next ==
    \/ \E p \in Commands, n \in Names, i \in Images : ImportBegin(p, n, i)
    \/ \E n \in Names, i \in Images : SyncBegin(n, i)
    \/ \E n \in Names : AdoptBegin(n)
    \/ \E keep \in Keeps : GCBegin(keep)
    \/ \E p \in Procs : Step(p)
    \/ \E p \in Procs : Crash(p)
    \/ \E n \in Names, kind \in DamageKinds, f \in FileNames :
          Damage(n, kind, f)

Spec == Init /\ [][Next]_vars

(***************************************************************************)
(* Fairness.  A call that has begun is running code, and nothing in it     *)
(* waits but the flock of lockTemporary.  The agent resyncs, so its        *)
(* passes, and the GC each of them ends with, recur.                       *)
(***************************************************************************)
FairSpec ==
    /\ Spec
    /\ \A p \in Procs : WF_vars(Step(p))
    /\ SF_vars(\E keep \in Keeps : GCBegin(keep))

-----------------------------------------------------------------------------
(***************************************************************************)
(* Properties.                                                             *)
(***************************************************************************)

\* Type invariant of the store's variables.
TypeOK ==
    /\ at \in [Names -> Dirs \cup {None, Flat, Link}]
    /\ temp \in [Dirs -> Names \cup {None}]
    /\ dir \in [Dirs -> Directory]
    /\ lock \in [Dirs -> Procs \cup {None}]
    /\ pc \in [Procs -> PCs]
    /\ target \in [Procs -> Names \cup {None}]
    /\ image \in [Procs -> Images \cup {None}]
    /\ tmp \in [Procs -> Dirs \cup {None}]
    /\ tries \in [Procs -> 0 .. TemporaryTries - 1]
    /\ todo \in [Procs -> SUBSET (Dirs \cup Names)]
    /\ fd \in [Procs -> Dirs \cup {None}]
    /\ sn \in Record
    /\ rm \in [Procs -> Dirs \cup {None}]
    /\ left \in [Procs -> SUBSET Entries]
    /\ res \in [Procs -> {"none", "ok", "failed"}]
    /\ damage \in 0 .. MaxDamage
    /\ faults \in 0 .. MaxFaults

\* From the last check of lockTemporary to its rename, an extraction's
\* temporary directory is on disk under its name and under its own lock: no
\* GC and no sweep, of this process or another, takes it away.
LockedTemporaryStays ==
    \A p \in Procs :
        pc[p] \in Writing /\ tmp[p] # None =>
            /\ temp[tmp[p]] = target[p]
            /\ lock[tmp[p]] = p

\* A resource the store reports complete holds every file of one image: an
\* interrupted extraction or removal, a stream cut short, an adoption and two
\* writers at once never pass a part, or a mix, for a complete one.
\* Tampering is excluded, for the names are all this check looks at.
CompleteIsWhole ==
    damage = 0 =>
        \A n \in Names :
            NamesComplete(n) =>
                \E i \in Images :
                    \A f \in FileNames : dir[at[n]].files[f] = i

\* The names every pass keeps.
Retained == {n \in Names : \A keep \in Keeps : n \in keep}

\* Once every call has returned, a resource some call reported filled, and
\* no pass collects, is there: writers that raced for the name left one of
\* the extractions whole.  The one exception is the agent's to mend: an
\* adoption that put the sentinel back into a directory a command was removing
\* leaves a part under the agent's name, which the next pass refills.
SuccessSticks ==
    /\ damage = 0
    /\ faults = 0
    /\ \A p \in Procs : pc[p] = "idle"
    =>
    \A p \in Procs :
        res[p] = "ok" /\ target[p] \in Retained =>
            \/ NamesComplete(target[p])
            \/ /\ at[target[p]] \in Dirs
               /\ dir[at[target[p]]].mark = "parsed"
               /\ dir[at[target[p]]].owner = "agent"

\* A directory with no sentinel that the store did not write (here, one whose
\* files are Altered with nobody tampering) loses a file only to the agent,
\* which owns the cache path: no sequence of imports removes it.
Foreign(d) ==
    /\ damage = 0
    /\ dir[d].mark = "none"
    /\ \E f \in FileNames : dir[d].files[f] = Altered

CommandSparesForeign ==
    [][\A d \in Dirs :
          Foreign(d) /\ damage' = 0 /\ dir'[d] # dir[d] => rm[Agent] = d]_vars

\* A directory whose sentinel is there but cannot be read keeps its files and
\* its place while no removal of it is under way, and GC sets out on none: it
\* may be seeded, with content the node cannot fetch again.  One whose sentinel
\* cannot be stat'ed either is not signed, and no swap sets out on it.
UnreadableStays ==
    [][\A n \in Names :
          /\ Unreadable(n)
          /\ \A p \in Procs :
                pc[p] \in {"clear", "unlink", "rmdir"} => target[p] # n
          => /\ at'[n] = at[n]
             /\ damage' = damage => dir'[at[n]].files = dir[at[n]].files
             /\ damage' = damage /\ Sealed(n) => dir'[at[n]] = dir[at[n]]
             /\ \A p \in Procs :
                   pc'[p] = "clear" /\ target'[p] = n =>
                       ~Sealed(n) /\ tmp'[p] # None]_vars

\* Every call returns: neither the lock of lockTemporary nor the retries of
\* createTemporary hold one up for good.
CallsReturn ==
    \A p \in Procs : pc[p] # "idle" ~> pc[p] = "idle"

\* A temporary directory whose writer is gone (killed, or unable to remove
\* it) does not stay on disk for good.
LeftoversGo ==
    \A d \in Dirs :
        (temp[d] # None /\ \A p \in Procs : tmp[p] # d) ~> (temp[d] = None)

\* What a reader of the cache path finds under each name.
Path ==
    INSTANCE Archives WITH
        archive <- [n \in Names |-> IF at[n] \in Dirs THEN dir[at[n]].files
                                    ELSE [f \in FileNames |-> None]]

\* The store keeps the promise of Archives: archives appear under a name all
\* at once, whole and of one image, and only where there were none, and then
\* only go; whichever processes race for the name, and wherever one is killed.
ImplementsArchives == Path!ArchivesSpec

-----------------------------------------------------------------------------
(***************************************************************************)
(* Why these properties hold: the invariants that every step keeps.        *)
(***************************************************************************)

\* With the temporary directory created, and with none.
Extracting == {"open", "flock", "stat", "write", "sentinel", "swap", "rename",
               "done", "abort", "cleanup"}

NotExtracting == {"idle", "adopt", "own", "state", "sweep", "scan", "rtlock",
                  "rtremove", "fill", "mkdir"}

\* Holding the lock of the temporary directory.
Holding == Writing \cup {"stat", "done", "abort"}

\* A process works on a name, and has an image to fill it with until it is
\* written, but for GC.
Targeted(p) ==
    /\ pc[p] \notin {"idle", "scan", "rtlock", "rtremove"} => target[p] \in Names
    /\ pc[p] \in {"state", "sweep", "fill", "mkdir", "open", "flock", "stat",
                  "write", "sentinel"} => image[p] \in Images
    /\ pc[p] \in {"scan", "rtlock", "rtremove"} /\ p # Agent =>
          target[p] \in Names /\ image[p] \in Images
    /\ pc[p] \in {"clear", "unlink", "rmdir"} /\ tmp[p] = None => p = Agent

\* A process has a temporary directory while it extracts, of its own.
OwnTemporary(p) ==
    /\ pc[p] \in Extracting => tmp[p] \in Dirs
    /\ pc[p] \in NotExtracting => tmp[p] = None
    /\ \A q \in Procs \ {p} : tmp[p] # None => tmp[q] # tmp[p]

\* It holds the lock from the flock to the close, a remover while it removes.
OwnLock(p) ==
    /\ pc[p] \in Holding /\ tmp[p] # None => lock[tmp[p]] = p
    /\ pc[p] \in {"rtlock", "rtremove"} => fd[p] \in Dirs
    /\ pc[p] = "rtremove" => lock[fd[p]] = p

\* The temporary name is linked until GC removes it, and once it is locked
\* nobody but the writer unlinks it.
OwnName(p) ==
    /\ pc[p] \in {"open", "flock", "stat"} => temp[tmp[p]] \in {None, target[p]}
    /\ pc[p] \in Writing /\ tmp[p] # None => temp[tmp[p]] = target[p]

Ownership ==
    \A p \in Procs : Targeted(p) /\ OwnTemporary(p) /\ OwnLock(p) /\ OwnName(p)

\* Files of one image, all or some.
Uniform(d, i) == \A f \in FileNames : dir[d].files[f] \in {i, None}

\* A sentinel lists every file, and those still there are of one image.
ListsAll(d) ==
    dir[d].mark = "parsed" =>
        dir[d].lists = FileNames /\ \E i \in Images : Uniform(d, i)

\* A temporary is not a resource directory, and not one being removed.
Hidden(d) ==
    temp[d] # None =>
        /\ \A n \in Names : at[n] # d
        /\ \A q \in Procs : rm[q] # d

\* No directory is under two names, and one that is being emptied is under the
\* name whose removal opened it, if it still is under one.
Apart ==
    \A m, n \in Names : at[m] \in Dirs /\ at[m] = at[n] => m = n

Removing(p) ==
    pc[p] = "unlink" =>
        rm[p] \in Dirs /\ \A n \in Names : at[n] = rm[p] => n = target[p]

\* The extraction writes its image and no other; the sentinel follows the last
\* file; what is renamed has every file, and the sentinel.
Filling(p) ==
    /\ pc[p] \in {"open", "flock", "stat", "write"} /\ temp[tmp[p]] # None
          => Uniform(tmp[p], image[p])
    /\ pc[p] \in {"sentinel", "swap", "clear", "unlink", "rmdir", "rename"}
          /\ tmp[p] # None
          => /\ image[p] \in Images
             /\ \A f \in FileNames : dir[tmp[p]].files[f] = image[p]
             /\ pc[p] # "sentinel" => dir[tmp[p]].mark = "parsed"

Layout ==
    /\ \A d \in Dirs : Hidden(d)
    /\ Apart
    /\ \A p \in Procs : Removing(p) /\ Filling(p)

\* The adoption writes back a list of every file, next to files of one image.
Adopting(p) ==
    /\ pc[p] \in {"adopt", "own"} => p = Agent
    /\ pc[p] = "own" =>
          /\ sn.lists = FileNames
          /\ at[target[p]] \in Dirs =>
                \E i \in Images : Uniform(at[target[p]], i)

Wholeness ==
    damage = 0 =>
        /\ \A d \in Dirs : ListsAll(d)
        /\ \A p \in Procs : Adopting(p)

\* None of the files in d was written by others than the store.
Clean(d) == \A f \in FileNames : dir[d].files[f] # Altered

\* Others' files are only in directories with no sentinel, in place under a
\* name; a command never comes to remove one.
Sparing ==
    damage = 0 =>
        /\ \A d \in Dirs :
              /\ temp[d] # None \/ dir[d].mark # "none" => Clean(d)
              /\ Clean(d) \/ \E n \in Names : at[n] = d
        /\ \A p \in Commands :
              /\ pc[p] = "clear" /\ at[target[p]] \in Dirs => Clean(at[target[p]])
              /\ pc[p] = "unlink" => Clean(rm[p])

\* What RemoveAll has yet to unlink is what is left in the directory it opened,
\* but for a sentinel that an adoption put back.
AgentSigned(d) == dir[d].mark = "parsed" /\ dir[d].owner = "agent"

Emptying(p) ==
    /\ pc[p] \in {"unlink", "rmdir"} =>
          /\ rm[p] \in Dirs
          /\ Present(rm[p]) \subseteq left[p]
          /\ \/ dir[rm[p]].mark = "none"
             \/ Sentinel \in left[p]
             \/ AgentSigned(rm[p])
    /\ pc[p] = "rmdir" => left[p] = {}

\* Only a swap removes the directory of a name that no pass collects, and GC
\* reports nothing of one.
Swapping(p) ==
    /\ todo[p] \cap Retained = {}
    /\ pc[p] \in {"clear", "unlink", "rmdir"} /\ target[p] \in Retained => tmp[p] # None
    /\ p = Agent =>
          /\ pc[p] \notin {"state", "sweep"}
          /\ pc[p] \in {"scan", "rtlock", "rtremove"} => target[p] \notin Retained

\* A name is filled, or a swap has emptied it and fills it next: the one that
\* unlinks what is there, or any one if nothing is.
Filled(n) == NamesComplete(n) \/ (at[n] \in Dirs /\ AgentSigned(at[n]))

Refilling(n) ==
    \E p \in Procs :
        /\ target[p] = n
        /\ \/ pc[p] = "unlink" /\ rm[p] = at[n]
           \/ /\ pc[p] \in {"clear", "unlink", "rmdir", "rename"}
              /\ at[n] = None \/ (at[n] \in Dirs /\ Empty(at[n]))

Succeeded(n) ==
    \E p \in Procs : target[p] = n /\ (res[p] = "ok" \/ pc[p] = "done")

Sticking ==
    damage = 0 /\ faults = 0 =>
        /\ \A p \in Procs : Emptying(p) /\ Swapping(p)
        /\ \A n \in Retained : Succeeded(n) => Filled(n) \/ Refilling(n)

-----------------------------------------------------------------------------
(***************************************************************************)
(* What the documentation says and the code does not keep.                 *)
(***************************************************************************)

\* agent/DESIGN.md: "a directory whose sentinel cannot be read.  It may be
\* seeded, so it stays, and the pass fails until the sentinel can be read."
\* replaceable says the same of its own, and asks Stat only.  So a directory
\* found that way keeps its place, its files and its sentinel.
UnreadableIsKept ==
    [][\A n \in Names :
          Unreadable(n) =>
              /\ at'[n] = at[n]
              /\ damage' = damage => dir'[at[n]] = dir[at[n]]]_vars

=============================================================================
