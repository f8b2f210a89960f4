----------------------------- MODULE FSWatcher ------------------------------
(***************************************************************************)
(* How a change on disk becomes a pass: inotify, FSWatcher and its buffer  *)
(* of one, the workqueue of the single key, and the pass, which repairs    *)
(* what it finds short and sets the watches again as its last step         *)
(* (agent/internal/controller/fswatch.go, node_reconciler.go).             *)
(*                                                                         *)
(* A watch is on an inode, not on a name: it dies with the directory.      *)
(* Every name is a desired resource, NodeReconciler has the others; an     *)
(* extraction is its temporary directory and the swap, CacheStore has the  *)
(* rest of it.                                                             *)
(***************************************************************************)
EXTENDS Naturals

CONSTANTS
    Names,       \* resource names, all of them desired
    Root,        \* the cache path
    Failing,     \* names whose extraction always fails, past the pull
    MaxInode,    \* bound on the number of directories made
    MaxChanges,  \* bound on the number of changes from outside
    MaxFaults    \* bound on the number of failed calls, lost events, restarts

ASSUME WatchAssumption ==
    /\ Root \notin Names
    /\ Failing \subseteq Names
    /\ MaxInode \in Nat \ {0}
    /\ MaxChanges \in Nat
    /\ MaxFaults \in Nat

VARIABLES
    ino,       \* [Names -> Nat]: the directory at each name, 0 for none
    whole,     \* SUBSET Names: the content is what the sentinel records
    made,      \* directories made so far
    paths,     \* FSWatcher.paths
    rootWatch, \* inotify watches the cache path
    watch,     \* [Names -> Nat]: the inode watched under each name
    open,      \* the watcher's channels are open
    inotify,   \* kinds of events not yet read: a flat file written, another change
    events,    \* FSWatcher.Events holds the trigger
    queued,    \* the key is in the workqueue
    waiting,   \* the key is due later, by backoff or resync
    pc,        \* where the pass is
    todo,      \* what the loop at hand has yet to visit
    due,       \* the resources found short, which the second loop extracts
    cur,       \* the resource being extracted
    errs,      \* some call of this pass failed
    resync,    \* --resync-period is not zero; it never changes
    failed,    \* the last pass failed, and its backoff has not elapsed
    outside,   \* something changed from outside since the last pass began
    armed,     \* SetPaths has returned since the agent started
    missed,    \* names that changed before it had
    changes, faults

disk == <<ino, whole, made>>
watches == <<paths, rootWatch, watch, open>>
queue == <<events, queued, waiting>>
pass == <<pc, todo, due, cur, errs>>
ghosts == <<failed, outside, armed, missed>>
bounds == <<resync, changes, faults>>
vars == <<ino, whole, made, paths, rootWatch, watch, open, inotify, events,
          queued, waiting, pc, todo, due, cur, errs, resync, failed, outside,
          armed, missed, changes, faults>>

PCs == {"idle", "check", "extract", "swap", "list", "add", "end"}

Event(watched) == inotify' = inotify \cup (IF watched THEN {"change"} ELSE {})

\* The directory at n is the one watched under that name.
DirWatched(n) == ino[n] # 0 /\ watch[n] = ino[n]

Fault ==
    /\ faults < MaxFaults
    /\ faults' = faults + 1
    /\ UNCHANGED <<resync, changes>>

-----------------------------------------------------------------------------
(***************************************************************************)
(* What others do to the cache path.                                       *)
(***************************************************************************)

Change(n) ==
    /\ changes < MaxChanges
    /\ changes' = changes + 1
    /\ outside' = TRUE
    /\ missed' = IF armed THEN missed ELSE missed \cup {n}
    /\ UNCHANGED <<resync, faults, made, watches, queue, pass, failed, armed>>

\* A file of the directory at n is deleted or written.
TamperFile(n) ==
    /\ n \in whole
    /\ whole' = whole \ {n}
    /\ Event(DirWatched(n))
    /\ Change(n)
    /\ UNCHANGED ino

\* The directory at n is deleted.
TamperDirectory(n) ==
    /\ ino[n] # 0
    /\ ino' = [ino EXCEPT ![n] = 0]
    /\ whole' = whole \ {n}
    /\ Event(rootWatch \/ DirWatched(n))
    /\ Change(n)

\* A flat file is copied to the cache path, write after write.
WriteFlat ==
    /\ rootWatch
    /\ changes < MaxChanges
    /\ changes' = changes + 1
    /\ inotify' = inotify \cup {"flat"}
    /\ UNCHANGED <<disk, watches, queue, pass, ghosts, resync, faults>>

-----------------------------------------------------------------------------
(***************************************************************************)
(* FSWatcher.Start, the channel source and the workqueue.                  *)
(***************************************************************************)

\* Start: a write at the root is passed over; the trigger goes to the buffer,
\* or is dropped when the buffer is full.
Start(kind) ==
    /\ kind \in inotify
    /\ inotify' = inotify \ {kind}
    /\ events' = (events \/ kind = "change")
    /\ UNCHANGED <<disk, watches, queued, waiting, pass, ghosts, bounds>>

\* inotify overflows: its events are lost, and Start logs an error.
Overflow ==
    /\ inotify # {}
    /\ Fault
    /\ inotify' = {}
    /\ UNCHANGED <<disk, watches, queue, pass, ghosts>>

\* The channel source adds the key.  One added during a pass stays queued.
Enqueue ==
    /\ events
    /\ events' = FALSE
    /\ queued' = TRUE
    /\ UNCHANGED <<disk, watches, inotify, waiting, pass, ghosts, bounds>>

\* The backoff or the resync is over.
Requeue ==
    /\ waiting
    /\ waiting' = FALSE
    /\ queued' = TRUE
    /\ failed' = FALSE
    /\ UNCHANGED <<disk, watches, inotify, events, pass, outside, armed,
                   missed, bounds>>

-----------------------------------------------------------------------------
(***************************************************************************)
(* The pass.                                                               *)
(***************************************************************************)

Begin ==
    /\ pc = "idle"
    /\ queued
    /\ queued' = FALSE
    /\ pc' = "check"
    /\ todo' = Names
    /\ due' = {}
    /\ errs' = FALSE
    /\ outside' = FALSE
    /\ UNCHANGED <<disk, watches, inotify, events, waiting, cur, failed, armed,
                   missed, bounds>>

\* Reconcile: the node or the list cannot be read, and the pass ends there: the
\* watches are not set.
BeginFails ==
    /\ pc = "idle"
    /\ queued
    /\ Fault
    /\ queued' = FALSE
    /\ waiting' = TRUE
    /\ failed' = TRUE
    /\ outside' = FALSE
    /\ UNCHANGED <<disk, watches, inotify, events, pass, armed, missed>>

\* The first loop goes on with the next resource, the second with those due.
AfterCheck(n) ==
    /\ todo' = todo \ {n}
    /\ pc' = IF todo # {n} THEN "check" ELSE IF due' = {} THEN "list" ELSE "extract"

AfterSync == pc' = IF due = {} THEN "list" ELSE "extract"

\* Mutant: a complete resource is extracted again.
CheckNothing(n) ==
    /\ pc = "check"
    /\ n \in todo
    /\ due' = due \cup {n}
    /\ AfterCheck(n)
    /\ UNCHANGED <<disk, watches, inotify, queue, cur, errs, ghosts, bounds>>

\* The first loop asks State of every resource: a complete one is left alone.
Check(n) ==
    /\ pc = "check"
    /\ n \in todo
    /\ due' = IF n \in whole THEN due ELSE due \cup {n}
    /\ AfterCheck(n)
    /\ UNCHANGED <<disk, watches, inotify, queue, cur, errs, ghosts, bounds>>

\* The second loop extracts the others: the temporary directory of the next one
\* appears in the cache path.
MakeTemporary(n) ==
    /\ pc = "extract"
    /\ n \in due
    /\ cur' = n
    /\ due' = due \ {n}
    /\ pc' = "swap"
    /\ Event(rootWatch)
    /\ UNCHANGED <<disk, watches, queue, todo, errs, ghosts, bounds>>

\* Extract: what was at the name goes, and the new directory takes it.
Swap ==
    /\ pc = "swap"
    /\ cur \notin Failing
    /\ made < MaxInode
    /\ made' = made + 1
    /\ ino' = [ino EXCEPT ![cur] = made']
    /\ whole' = whole \cup {cur}
    /\ missed' = missed \ {cur}
    /\ Event(rootWatch \/ DirWatched(cur))
    /\ AfterSync
    /\ UNCHANGED <<watches, queue, todo, due, cur, errs, failed, outside, armed, bounds>>

\* Extract: it fails, and the temporary directory goes.
ExtractFails ==
    /\ pc = "swap"
    /\ IF cur \in Failing THEN UNCHANGED bounds ELSE Fault
    /\ errs' = TRUE
    /\ Event(rootWatch)
    /\ AfterSync
    /\ UNCHANGED <<disk, watches, queue, todo, due, cur, ghosts>>

\* Mutant: a temporary directory is watched too.
ListPathsHidden ==
    LET there == {n \in Names : ino[n] # 0} IN
    /\ pc = "list"
    /\ pc' = "add"
    /\ todo' = {Root, "hidden"} \cup there
    /\ paths' = paths \cap todo'
    /\ watch' = [n \in Names |-> IF n \in paths \ there THEN 0 ELSE watch[n]]
    /\ UNCHANGED <<disk, rootWatch, open, inotify, queue, due, cur, errs, ghosts, bounds>>

\* SetPaths: read the cache path, and drop the paths that are not there.
ListPaths ==
    LET there == {n \in Names : ino[n] # 0} IN
    /\ pc = "list"
    /\ pc' = "add"
    /\ todo' = {Root} \cup there
    /\ paths' = paths \cap todo'
    /\ watch' = [n \in Names |-> IF n \in paths \ there THEN 0 ELSE watch[n]]
    /\ UNCHANGED <<disk, rootWatch, open, inotify, queue, due, cur, errs, ghosts, bounds>>

\* SetPaths: the cache path cannot be listed, and stays alone.
ListPathsFails ==
    /\ pc = "list"
    /\ Fault
    /\ pc' = "add"
    /\ todo' = {Root}
    /\ paths' = paths \cap {Root}
    /\ watch' = [n \in Names |-> IF n \in paths THEN 0 ELSE watch[n]]
    /\ UNCHANGED <<disk, rootWatch, open, inotify, queue, due, cur, errs, ghosts>>

AfterPath(p) ==
    /\ todo' = todo \ {p}
    /\ pc' = IF todo = {p} THEN "end" ELSE "add"

\* Mutant: a path known already is not added again.
AddPathOnce(p) ==
    /\ pc = "add"
    /\ open
    /\ p \in todo
    /\ AfterPath(p)
    /\ paths' = paths \cup {p}
    /\ rootWatch' = (rootWatch \/ p = Root)
    /\ watch' = [n \in Names |-> IF n = p /\ p \notin paths THEN ino[n] ELSE watch[n]]
    /\ UNCHANGED <<disk, open, inotify, queue, due, cur, errs, ghosts, bounds>>

\* SetPaths: Add watches what is at the path now; nothing may be.
AddPath(p) ==
    /\ pc = "add"
    /\ open
    /\ p \in todo
    /\ AfterPath(p)
    /\ paths' = IF p = Root \/ ino[p] # 0 THEN paths \cup {p} ELSE paths
    /\ rootWatch' = (rootWatch \/ p = Root)
    /\ watch' = [n \in Names |-> IF n = p THEN ino[n] ELSE watch[n]]
    /\ UNCHANGED <<disk, open, inotify, queue, due, cur, errs, ghosts, bounds>>

\* SetPaths: Add fails, at the limit of inotify or on a closed watcher, and
\* the pass goes on.
AddPathFails(p) ==
    /\ pc = "add"
    /\ p \in todo
    /\ IF open THEN Fault ELSE UNCHANGED bounds
    /\ AfterPath(p)
    /\ UNCHANGED <<disk, watches, inotify, queue, due, cur, errs, ghosts>>

\* Mutant: only a failed pass comes again.
EndNoResync ==
    /\ pc = "end"
    /\ pc' = "idle"
    /\ waiting' = (waiting \/ errs)
    /\ failed' = errs
    /\ armed' = TRUE
    /\ UNCHANGED <<disk, watches, inotify, events, queued, todo, due, cur, errs,
                   outside, missed, bounds>>

\* Reconcile returns.
End ==
    /\ pc = "end"
    /\ pc' = "idle"
    /\ waiting' = (waiting \/ errs \/ resync)
    /\ failed' = errs
    /\ armed' = TRUE
    /\ UNCHANGED <<disk, watches, inotify, events, queued, todo, due, cur, errs,
                   outside, missed, bounds>>

\* The agent restarts: nothing is watched, and one pass is due.
StartOver ==
    /\ paths' = {} /\ rootWatch' = FALSE /\ watch' = [n \in Names |-> 0]
    /\ open' = TRUE
    /\ inotify' = {}
    /\ events' = FALSE
    /\ queued' = TRUE
    /\ waiting' = FALSE
    /\ pc' = "idle"
    /\ todo' = {}
    /\ due' = {}
    /\ errs' = FALSE
    /\ failed' = FALSE
    /\ armed' = FALSE
    /\ UNCHANGED <<disk, cur, outside, missed>>

Restart == Fault /\ StartOver

\* The watcher closes on its own: it watches nothing any more.
WatcherCloses ==
    /\ open
    /\ Fault
    /\ open' = FALSE
    /\ rootWatch' = FALSE
    /\ watch' = [n \in Names |-> 0]
    /\ UNCHANGED <<disk, paths, inotify, queue, pass, ghosts>>

\* Mutant: the forwarding loop ends without a word.
ClosedQuietly ==
    /\ ~open
    /\ UNCHANGED vars

\* closed: the error Start returns stops the manager, and the agent with it.
Closed ==
    /\ ~open
    /\ StartOver
    /\ UNCHANGED bounds

-----------------------------------------------------------------------------

Init ==
    /\ ino \in [Names -> {0, 1}]
    /\ whole \in SUBSET {n \in Names : ino[n] # 0}
    /\ made = 1
    /\ paths = {} /\ rootWatch = FALSE /\ watch = [n \in Names |-> 0]
    /\ open = TRUE
    /\ inotify = {}
    /\ events = FALSE
    /\ queued = TRUE
    /\ waiting = FALSE
    /\ pc = "idle"
    /\ todo = {}
    /\ due = {}
    /\ cur \in Names
    /\ errs = FALSE
    /\ resync \in BOOLEAN
    /\ failed = FALSE
    /\ outside = FALSE
    /\ armed = FALSE
    /\ missed = {}
    /\ changes = 0 /\ faults = 0

Pass ==
    \/ Begin \/ Swap \/ ExtractFails \/ ListPaths \/ End
    \/ \E n \in Names : Check(n) \/ MakeTemporary(n)
    \/ \E p \in Names \cup {Root} : AddPath(p)

Forward == \E kind \in {"flat", "change"} : Start(kind)

Next ==
    \/ Pass \/ Forward \/ Enqueue \/ Requeue \/ Closed
    \/ \E n \in Names : TamperFile(n) \/ TamperDirectory(n)
    \/ WriteFlat
    \/ Overflow \/ Restart \/ WatcherCloses \/ BeginFails \/ ListPathsFails
    \/ \E p \in Names \cup {Root} : AddPathFails(p)

Spec == Init /\ [][Next]_vars

\* A pass under way, the watcher's goroutine and the channel source are
\* running code; a delayed key comes due.
FairSpec ==
    /\ Spec
    /\ WF_vars(Pass)
    /\ WF_vars(Forward)
    /\ WF_vars(Closed)
    /\ WF_vars(Enqueue)
    /\ WF_vars(Requeue)

-----------------------------------------------------------------------------
(***************************************************************************)
(* Properties.                                                             *)
(***************************************************************************)

\* Type invariant of the watcher, the queue and the pass.
TypeOK ==
    /\ ino \in [Names -> 0 .. made]
    /\ whole \in SUBSET {n \in Names : ino[n] # 0}
    /\ made \in 1 .. MaxInode
    /\ paths \in SUBSET (Names \cup {Root})
    /\ rootWatch \in BOOLEAN
    /\ watch \in [Names -> 0 .. made]
    /\ open \in BOOLEAN
    /\ inotify \in SUBSET {"flat", "change"}
    /\ events \in BOOLEAN /\ queued \in BOOLEAN /\ waiting \in BOOLEAN
    /\ pc \in PCs
    /\ todo \in SUBSET (Names \cup {Root})
    /\ due \in SUBSET Names
    /\ cur \in Names
    /\ errs \in BOOLEAN /\ resync \in BOOLEAN
    /\ failed \in BOOLEAN /\ outside \in BOOLEAN
    /\ armed \in BOOLEAN
    /\ missed \in SUBSET Names
    /\ changes \in 0 .. MaxChanges
    /\ faults \in 0 .. MaxFaults

\* An event is on its way, and a pass behind it.
Told == "change" \in inotify \/ events \/ queued

\* A pass is on its way, or under way and yet to look at n or to extract it, or
\* failing and to be repeated.
Coming(n) ==
    \/ Told \/ waiting
    \/ pc = "check" /\ n \in todo
    \/ pc \in {"check", "extract", "swap"} /\ n \in due
    \/ pc = "swap" /\ n = cur
    \/ pc # "idle" /\ errs

\* Once the first pass has set the watches, and with no watch or event lost,
\* no change is missed, resync or not: a resource that is short has a pass
\* coming, through the buffer of one, the swap that ends a watch, and the gap
\* until SetPaths sets it again.
ChangesAreSeen ==
    \A n \in Names :
        faults = 0 /\ n \notin whole \cup missed => Coming(n)

\* Why ChangesAreSeen holds: where the pass is in setting the watches, and what
\* stands in for the watch of a directory it has just swapped in.
Watching ==
    faults = 0 =>
        /\ open
        /\ armed => rootWatch
        /\ pc = "add" => rootWatch \/ Root \in todo
        /\ pc = "end" => rootWatch
        /\ \A n \in whole :
              /\ pc = "end" \/ (pc = "add" /\ n \notin todo) => DirWatched(n)
              /\ armed =>
                    \/ DirWatched(n)
                    \/ /\ Told
                       /\ \/ pc \in {"check", "extract", "swap", "list"}
                          \/ pc = "add" /\ n \in todo

\* Where nothing is watched, or events are lost, the resync repairs.
Repaired ==
    \A n \in Names \ Failing : resync /\ n \notin whole ~> n \in whole

\* A watcher that closed on its own does not leave an agent that looks healthy
\* and sees nothing: what is short by then is repaired, resync or not.
ClosedRepairs ==
    \A n \in Names \ Failing : ~open /\ n \notin whole ~> n \in whole

\* The agent's own directories raise events too.  They do not keep it busy:
\* without a resync it comes to rest.
Rests == resync \/ <>[](pc = "idle" /\ ~queued)

-----------------------------------------------------------------------------

\* agent/DESIGN.md, "Reconciliation model": a pass that failed is requeued with
\* backoff, and an extraction raises no event until its rename.  So with
\* nothing changed from outside, the next pass waits.
BackoffHolds ==
    [][pc = "idle" /\ pc' = "check" => ~failed \/ outside]_vars

=============================================================================
