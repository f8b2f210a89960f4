--------------------------- MODULE NodeReconciler ---------------------------
(***************************************************************************)
(* One agent's reconcile pass (agent/internal/controller/node_reconciler.go*)
(* and labels.go): it reads the node and the ImageCache resources from the *)
(* informer caches, looks at each directory, labels the node, adopts or    *)
(* fills what is missing, collects the rest and labels the node again.     *)
(*                                                                         *)
(* Around the pass, the API server's objects change, the caches follow     *)
(* them with a lag, commands seed directories, files go missing and calls  *)
(* fail.  The store's calls are single steps here: CacheStore has their    *)
(* insides.  Every trigger asks for the one reconcile key.                 *)
(***************************************************************************)
EXTENDS Naturals, Sequences

CONSTANTS
    Names,       \* resource names
    Images,      \* images, told apart by the diff IDs of their layers
    Broken,      \* those the registry does not have
    Selective,   \* names whose resources carry the node selector
    Lists,       \* the resources there may be at first
    Resync,      \* --resync-period is not zero
    None,
    MaxChanges,  \* bound on the number of changes from outside
    MaxFaults,   \* bound on the number of failed calls and restarts
    MaxLag       \* bound on the number of updates a cache may be late by

Resources == [Names -> Images \cup {None}]

ASSUME ReconcileAssumption ==
    /\ None \notin Images
    /\ Broken \subseteq Images
    /\ Selective \subseteq Names
    /\ Lists \subseteq Resources
    /\ Resync \in BOOLEAN
    /\ MaxChanges \in Nat
    /\ MaxFaults \in Nat
    /\ MaxLag \in Nat \ {0}

VARIABLES
    api,        \* Resources: spec.source of the ImageCaches, None for no resource
    server,     \* Node: the labels on the API server
    apiFeed,    \* Seq(Resources): watch events the informer has yet to apply
    nodeFeed,   \* Seq(Node): the same for the node
    apiCache,   \* Resources: what List returns
    nodeCache,  \* Node: what Get returns
    disk,       \* [Names -> Slot]: the resource directories
    imports,    \* SUBSET (Names \X Images): commands past their check
    pc,         \* where the pass is
    node,       \* the node as the pass has it
    desired,    \* Resources: the source of each desired resource
    want,       \* [Names -> Status]
    seeded,     \* SUBSET Names
    record,     \* [Names -> Images or None]: the layers of a seeded one
    unread,     \* SUBSET Names
    todo,       \* resources the loop at hand has yet to visit
    cur,        \* the resource a call is under way for
    errs,       \* some call of this pass failed
    queued,     \* the key is in the workqueue
    waiting,    \* the key is due later, by backoff or resync
    watched,    \* SetPaths ran since the agent started
    stir,       \* a filesystem event is on its way to the workqueue
    held,       \* names whose directory was complete at some moment of the pass
    changes, faults

outside == <<api, server, apiFeed, nodeFeed, apiCache, nodeCache>>
local == <<node, desired, want, seeded, record, unread>>
queue == <<queued, waiting, watched, stir>>
bounds == <<changes, faults>>
vars == <<api, server, apiFeed, nodeFeed, apiCache, nodeCache, disk, imports, pc,
          node, desired, want, seeded, record, unread, todo, cur, errs, queued,
          waiting, watched, stir, held, changes, faults>>

Status == {"none", "pending", "synced"}

\* The status labels, and one label of another writer that selectors look at.
Node == [role : BOOLEAN, label : [Names -> Status]]

\* A resource directory, as State and ReadRecord report it.  image is None
\* for a record that lists no layers.
Slot == [state : {"absent", "partial", "complete"},
         owner : {"agent", "other"},
         image : Images \cup {None}]

Absent == [state |-> "absent", owner |-> "other", image |-> None]

\* A directory with no sentinel.  It is the agent's to replace and collect.
Unmarked == [state |-> "partial", owner |-> "agent", image |-> None]

Complete(owner, i) == [state |-> "complete", owner |-> owner, image |-> i]

NoLabel == [n \in Names |-> "none"]

NoResource == [n \in Names |-> None]

PCs == {"idle", "look", "record", "patch", "work", "adopt", "gc", "patchAgain",
        "end"}

Matches(n, role) == n \in Selective => role

\* The resources of list that select a node with this role.
Desired(list, role) ==
    [n \in Names |-> IF Matches(n, role) THEN list[n] ELSE None]

Claimed(list) == {n \in Names : list[n] # None}

IsSynced(slot) == slot.state = "complete" /\ slot.owner = "agent"

\* Names whose directory is complete on the disk d.
Whole(d) == {n \in Names : d[n].state = "complete"}

\* A change on disk is an event where the agent watches: the cache path and
\* the directories in it.
Stir ==
    /\ stir' = (stir \/ (watched /\ disk' # disk))
    /\ UNCHANGED <<queued, waiting, watched>>

Change ==
    /\ changes < MaxChanges
    /\ changes' = changes + 1
    /\ UNCHANGED faults

Fault ==
    /\ faults < MaxFaults
    /\ faults' = faults + 1
    /\ UNCHANGED changes

-----------------------------------------------------------------------------
(***************************************************************************)
(* The API server and the informers.                                       *)
(***************************************************************************)

\* A resource is created, edited or deleted.
SetResource(n, i) ==
    /\ Change
    /\ i # api[n]
    /\ Len(apiFeed) < MaxLag
    /\ api' = [api EXCEPT ![n] = i]
    /\ apiFeed' = Append(apiFeed, api')
    /\ UNCHANGED <<server, nodeFeed, apiCache, nodeCache, disk, imports, pc,
                   local, todo, cur, errs, queue, held>>

\* Another writer of the node changes a label of its own.
Relabel ==
    /\ Change
    /\ Len(nodeFeed) < MaxLag
    /\ server' = [server EXCEPT !.role = ~@]
    /\ nodeFeed' = Append(nodeFeed, server')
    /\ UNCHANGED <<api, apiFeed, apiCache, nodeCache, disk, imports, pc, local,
                   todo, cur, errs, queue, held>>

\* The informer applies an ImageCache event, then the handler asks for a pass.
DeliverResource ==
    /\ apiFeed # <<>>
    /\ apiCache' = Head(apiFeed)
    /\ apiFeed' = Tail(apiFeed)
    /\ queued' = TRUE
    /\ UNCHANGED <<api, server, nodeFeed, nodeCache, disk, imports, pc, local,
                   todo, cur, errs, waiting, watched, stir, held, bounds>>

\* The same for the node, which nothing watches.
DeliverNode ==
    /\ nodeFeed # <<>>
    /\ nodeCache' = Head(nodeFeed)
    /\ nodeFeed' = Tail(nodeFeed)
    /\ UNCHANGED <<api, server, apiFeed, apiCache, disk, imports, pc, local,
                   todo, cur, errs, queue, held, bounds>>

-----------------------------------------------------------------------------
(***************************************************************************)
(* The cache path, as others change it.                                    *)
(***************************************************************************)

\* A file goes missing, or the whole directory does.
Tamper(n) ==
    /\ Change
    /\ disk[n].state # "absent"
    /\ \/ disk' = [disk EXCEPT ![n] = Absent]
       \/ disk' = [disk EXCEPT ![n].state = "partial"]
    /\ disk' # disk
    /\ Stir
    /\ UNCHANGED <<outside, imports, pc, local, todo, cur, errs, held>>

\* imagecachectl finds n short, and goes on to fill it with image i.
ImportBegin(n, i) ==
    /\ Change
    /\ disk[n].state # "complete"
    /\ imports' = imports \cup {<<n, i>>}
    /\ UNCHANGED <<outside, disk, pc, local, todo, cur, errs, queue, held>>

\* It swaps its directory in, over one with a sentinel or none at all.
ImportEnd(n, i) ==
    /\ <<n, i>> \in imports
    /\ imports' = imports \ {<<n, i>>}
    /\ disk' = [disk EXCEPT ![n] = Complete("other", i)]
    /\ held' = held \cup {n}
    /\ Stir
    /\ UNCHANGED <<outside, pc, local, todo, cur, errs, bounds>>

-----------------------------------------------------------------------------
(***************************************************************************)
(* The pass.                                                               *)
(***************************************************************************)

\* Leave a loop when it has visited everything.
Visit(label, next) ==
    /\ todo' = todo \ {cur'}
    /\ pc' = IF todo \subseteq {cur'} THEN next ELSE label

\* Reconcile: read the node and the resources, and pick the desired ones.
Begin ==
    /\ pc = "idle"
    /\ queued
    /\ queued' = FALSE
    /\ node' = nodeCache
    /\ desired' = Desired(apiCache, nodeCache.role)
    /\ want' = [n \in Names |-> IF desired'[n] = None THEN "none" ELSE "pending"]
    /\ seeded' = {}
    /\ record' = NoResource
    /\ unread' = {}
    /\ errs' = FALSE
    /\ todo' = Claimed(desired')
    /\ pc' = IF todo' = {} THEN "patch" ELSE "look"
    /\ held' = Whole(disk)
    /\ UNCHANGED <<outside, disk, imports, cur, waiting, watched, stir, bounds>>

\* Reconcile: the node or the list cannot be read, and the pass is over.
BeginFails ==
    /\ pc = "idle"
    /\ queued
    /\ Fault
    /\ queued' = FALSE
    /\ waiting' = TRUE
    /\ UNCHANGED <<outside, disk, imports, pc, local, todo, cur, errs, watched,
                   stir, held>>

\* First loop: State.  Only a complete directory is looked at further.
Look(n) ==
    /\ pc = "look"
    /\ n \in todo
    /\ cur' = n
    /\ IF disk[n].state = "complete"
       THEN pc' = "record" /\ UNCHANGED todo
       ELSE Visit("look", "patch")
    /\ UNCHANGED <<outside, disk, imports, local, errs, queue, held, bounds>>

\* First loop: State fails; the resource stays pending.
LookFails(n) ==
    /\ pc = "look"
    /\ n \in todo
    /\ Fault
    /\ cur' = n
    /\ errs' = TRUE
    /\ Visit("look", "patch")
    /\ UNCHANGED <<outside, disk, imports, local, queue, held>>

\* First loop: ReadRecord, of what is there by now.  A directory that went
\* away meanwhile has no record to read.
ReadRecord ==
    /\ pc = "record"
    /\ UNCHANGED cur
    /\ Visit("look", "patch")
    /\ \/ /\ disk[cur].state = "absent"
          /\ unread' = unread \cup {cur}
          /\ errs' = TRUE
          /\ UNCHANGED <<want, seeded, record>>
       \/ /\ disk[cur].state # "absent"
          /\ disk[cur].owner # "agent"
          /\ seeded' = seeded \cup {cur}
          /\ record' = [record EXCEPT ![cur] = disk[cur].image]
          /\ UNCHANGED <<want, unread, errs>>
       \/ /\ disk[cur].state # "absent"
          /\ disk[cur].owner = "agent"
          /\ want' = [want EXCEPT ![cur] = "synced"]
          /\ UNCHANGED <<seeded, record, unread, errs>>
    /\ UNCHANGED <<outside, disk, imports, node, desired, queue, held, bounds>>

ReadRecordFails ==
    /\ pc = "record"
    /\ Fault
    /\ UNCHANGED cur
    /\ Visit("look", "patch")
    /\ unread' = unread \cup {cur}
    /\ errs' = TRUE
    /\ UNCHANGED <<outside, disk, imports, node, desired, want, seeded, record,
                   queue, held>>

-----------------------------------------------------------------------------

\* Second loop: what it visits, and where the pass goes from the first labels
\* and from the last ones.
Pending == {n \in Claimed(desired) : want[n] # "synced" /\ n \notin unread}

AfterPatch ==
    IF pc = "patchAgain"
    THEN pc' = "end" /\ UNCHANGED todo
    ELSE /\ todo' = Pending
         /\ pc' = IF Pending = {} THEN "gc" ELSE "work"

\* Mutant: the labels no resource claims are left.
MergedKeeps == [server EXCEPT !.label =
    [n \in Names |-> IF want[n] \notin {"none", node.label[n]} THEN want[n] ELSE @[n]]]

\* A merge patch of the labels that want changes in the node as it was read.
Merged == [server EXCEPT !.label =
              [n \in Names |-> IF node.label[n] # want[n] THEN want[n] ELSE @[n]]]

\* The server applies an update of the node, and the informers hear of it.
Apply(new) ==
    /\ server' = new
    /\ IF new = server THEN UNCHANGED nodeFeed
       ELSE Len(nodeFeed) < MaxLag /\ nodeFeed' = Append(nodeFeed, new)

\* Mutant: an update of the whole node, as it was read.
PatchLabelsUpdate ==
    /\ pc \in {"patch", "patchAgain"}
    /\ node' = [node EXCEPT !.label = want]
    /\ IF node.label = want THEN UNCHANGED <<server, nodeFeed>> ELSE Apply(node')
    /\ AfterPatch
    /\ UNCHANGED <<api, apiFeed, apiCache, nodeCache, disk, imports, desired,
                   want, seeded, record, unread, cur, errs, queue, held, bounds>>

\* patchLabels: nothing is sent when want agrees with the node as it was read;
\* the answer replaces it.
PatchLabels ==
    /\ pc \in {"patch", "patchAgain"}
    /\ IF node.label = want
       THEN UNCHANGED <<node, server, nodeFeed>>
       ELSE Apply(Merged) /\ node' = Merged
    /\ AfterPatch
    /\ UNCHANGED <<api, apiFeed, apiCache, nodeCache, disk, imports, desired,
                   want, seeded, record, unread, cur, errs, queue, held, bounds>>

\* patchLabels: the call fails, or only its answer is lost.  The labels were
\* assigned to node before it.
PatchLabelsFails ==
    /\ pc \in {"patch", "patchAgain"}
    /\ node.label # want
    /\ Fault
    /\ node' = [node EXCEPT !.label = want]
    /\ Apply(server) \/ Apply(Merged)
    /\ errs' = TRUE
    /\ AfterPatch
    /\ UNCHANGED <<api, apiFeed, apiCache, nodeCache, disk, imports, desired,
                   want, seeded, record, unread, cur, queue, held>>

\* adopt: the source resolves to the layers recorded; go on to Adopt.
Resolve(n) ==
    /\ pc = "work"
    /\ n \in todo \cap seeded
    /\ desired[n] \notin Broken
    /\ record[n] = desired[n]
    /\ cur' = n
    /\ pc' = "adopt"
    /\ UNCHANGED <<outside, disk, imports, local, todo, errs, queue, held, bounds>>

\* adopt: the source cannot be resolved, and the directory is left as it is.
ResolveFails(n) ==
    /\ pc = "work"
    /\ n \in todo \cap seeded
    /\ IF desired[n] \in Broken THEN UNCHANGED bounds ELSE Fault
    /\ cur' = n
    /\ errs' = TRUE
    /\ Visit("work", "gc")
    /\ UNCHANGED <<outside, disk, imports, local, queue, held>>

\* Adopt: the owner of the directory that is there by now.
Adopt ==
    /\ pc = "adopt"
    /\ UNCHANGED cur
    /\ Visit("work", "gc")
    /\ IF disk[cur].state = "absent"
       THEN errs' = TRUE /\ UNCHANGED <<disk, want>>
       ELSE /\ disk' = [disk EXCEPT ![cur].owner = "agent"]
            /\ want' = [want EXCEPT ![cur] = "synced"]
            /\ UNCHANGED errs
    /\ held' = held \cup Whole(disk')
    /\ Stir
    /\ UNCHANGED <<outside, imports, node, desired, seeded, record, unread,
                   bounds>>

AdoptFails ==
    /\ pc = "adopt"
    /\ Fault
    /\ UNCHANGED cur
    /\ errs' = TRUE
    /\ Visit("work", "gc")
    /\ UNCHANGED <<outside, disk, imports, local, queue, held>>

\* Second loop: a directory not seeded, or seeded with another image, is due
\* for a sync.
Due(n) ==
    /\ pc = "work"
    /\ n \in todo
    /\ n \in seeded => desired[n] \notin Broken /\ record[n] # desired[n]

\* sync: pull the source, extract it, and swap it in.
Sync(n) ==
    /\ Due(n)
    /\ desired[n] \notin Broken
    /\ cur' = n
    /\ disk' = [disk EXCEPT ![n] = Complete("agent", desired[n])]
    /\ want' = [want EXCEPT ![n] = "synced"]
    /\ Visit("work", "gc")
    /\ held' = held \cup Whole(disk')
    /\ Stir
    /\ UNCHANGED <<outside, imports, node, desired, seeded, record, unread, errs,
                   bounds>>

\* Mutant: a third value tells a failed sync.
SyncFailsFailed(n) ==
    /\ Due(n)
    /\ IF desired[n] \in Broken THEN UNCHANGED bounds ELSE Fault
    /\ cur' = n
    /\ want' = [want EXCEPT ![n] = "failed"]
    /\ errs' = TRUE
    /\ Visit("work", "gc")
    /\ UNCHANGED <<outside, disk, imports, node, desired, seeded, record, unread,
                   queue, held>>

\* Mutant: the status is set whatever became of the sync.
SyncFailsSynced(n) ==
    /\ Due(n)
    /\ IF desired[n] \in Broken THEN UNCHANGED bounds ELSE Fault
    /\ cur' = n
    /\ want' = [want EXCEPT ![n] = "synced"]
    /\ errs' = TRUE
    /\ Visit("work", "gc")
    /\ UNCHANGED <<outside, disk, imports, node, desired, seeded, record, unread,
                   queue, held>>

\* Mutant: one resource that fails ends the pass.
SyncFailsReturns(n) ==
    /\ Due(n)
    /\ IF desired[n] \in Broken THEN UNCHANGED bounds ELSE Fault
    /\ cur' = n
    /\ errs' = TRUE
    /\ todo' = {}
    /\ pc' = "end"
    /\ UNCHANGED <<outside, disk, imports, local, queue, held>>

\* What an extraction that fails leaves at a name: what was there, a part of
\* it, with or without its sentinel, or nothing.
Leftovers(slot) ==
    {slot, Absent} \cup
    IF slot.state = "absent" THEN {} ELSE {[slot EXCEPT !.state = "partial"], Unmarked}

\* sync: the pull fails, or the extraction does, before the swap, in it or once
\* the directory is cleared; its temporary directory came and went.
SyncFails(n) ==
    /\ Due(n)
    /\ \/ desired[n] \in Broken /\ UNCHANGED <<disk, stir, bounds>>
       \/ /\ desired[n] \notin Broken
          /\ Fault
          /\ \E slot \in Leftovers(disk[n]) : disk' = [disk EXCEPT ![n] = slot]
          /\ stir' = (stir \/ watched)
    /\ cur' = n
    /\ errs' = TRUE
    /\ Visit("work", "gc")
    /\ UNCHANGED <<outside, imports, local, queued, waiting, watched, held>>

\* GC: what no desired resource claims goes, but for another writer's.
Unclaimed == {n \in Names \ Claimed(desired) : disk[n].owner = "agent"}

Collect ==
    /\ pc = "gc"
    /\ pc' = "patchAgain"
    /\ disk' = [n \in Names |-> IF n \in Unclaimed THEN Absent ELSE disk[n]]
    /\ Stir
    /\ UNCHANGED <<outside, imports, local, todo, cur, errs, held, bounds>>

\* GC: some of it cannot be removed, and GC goes on to the rest.
CollectFails ==
    /\ pc = "gc"
    /\ Fault
    /\ pc' = "patchAgain"
    /\ errs' = TRUE
    /\ \E gone \in SUBSET Unclaimed :
          disk' = [n \in Names |-> IF n \in gone THEN Absent ELSE disk[n]]
    /\ Stir
    /\ UNCHANGED <<outside, imports, local, todo, cur, held>>

\* Reconcile sets the watches and returns: a failed pass comes again with
\* backoff, another one by the resync, if there is one.
End ==
    /\ pc = "end"
    /\ pc' = "idle"
    /\ watched' = TRUE
    /\ waiting' = (waiting \/ errs \/ Resync)
    /\ UNCHANGED <<outside, disk, imports, local, todo, cur, errs, queued, stir,
                   held, bounds>>

\* The delay is over.
Requeue ==
    /\ waiting
    /\ waiting' = FALSE
    /\ queued' = TRUE
    /\ UNCHANGED <<outside, disk, imports, pc, local, todo, cur, errs, watched,
                   stir, held, bounds>>

\* The watcher forwards an event, and the source adds the key.
Forward ==
    /\ stir
    /\ stir' = FALSE
    /\ queued' = TRUE
    /\ UNCHANGED <<outside, disk, imports, pc, local, todo, cur, errs, waiting,
                   watched, held, bounds>>

\* The agent restarts: it lists everything anew, and one pass is due.
Restart ==
    /\ Fault
    /\ apiCache' = api /\ apiFeed' = <<>>
    /\ nodeCache' = server /\ nodeFeed' = <<>>
    /\ pc' = "idle"
    /\ todo' = {}
    /\ queued' = TRUE
    /\ waiting' = FALSE
    /\ watched' = FALSE
    /\ stir' = FALSE
    /\ UNCHANGED <<api, server, disk, imports, local, cur, errs, held>>

-----------------------------------------------------------------------------

\* Labels and directories of an earlier life of the agent may be there.
Init ==
    /\ api \in Lists
    /\ server \in [role : BOOLEAN, label : [Names -> {"none", "synced"}]]
    /\ apiFeed = <<>> /\ nodeFeed = <<>>
    /\ apiCache = api /\ nodeCache = server
    /\ disk \in [Names -> {Absent} \cup {Complete("agent", i) : i \in Images}
                             \cup {Complete("other", i) : i \in Images \cup {None}}]
    /\ imports = {}
    /\ pc = "idle"
    /\ node = server
    /\ desired = NoResource
    /\ want = NoLabel
    /\ seeded = {} /\ unread = {} /\ record = NoResource
    /\ todo = {}
    /\ cur \in Names
    /\ errs = FALSE
    /\ queued = TRUE
    /\ waiting = FALSE
    /\ watched = FALSE
    /\ stir = FALSE
    /\ held = {}
    /\ changes = 0 /\ faults = 0

Pass ==
    \/ Begin \/ ReadRecord \/ PatchLabels \/ Adopt \/ Collect \/ End
    \/ \E n \in Names :
          Look(n) \/ Resolve(n) \/ ResolveFails(n) \/ Sync(n) \/ SyncFails(n)

Failures ==
    \/ BeginFails \/ ReadRecordFails \/ PatchLabelsFails \/ AdoptFails
    \/ CollectFails \/ Restart
    \/ \E n \in Names : LookFails(n)

Outside ==
    \/ \E n \in Names, i \in Images \cup {None} : SetResource(n, i)
    \/ Relabel
    \/ \E n \in Names : Tamper(n)
    \/ \E n \in Names, i \in Images : ImportBegin(n, i) \/ ImportEnd(n, i)

Next ==
    \/ Pass \/ Failures \/ Outside
    \/ DeliverResource \/ DeliverNode \/ Requeue \/ Forward

Spec == Init /\ [][Next]_vars

\* A pass under way is running code; informers get their events; a delayed
\* key comes due.
FairSpec ==
    /\ Spec
    /\ WF_vars(Pass)
    /\ WF_vars(DeliverResource)
    /\ WF_vars(DeliverNode)
    /\ WF_vars(Requeue)
    /\ WF_vars(Forward)

-----------------------------------------------------------------------------
(***************************************************************************)
(* Properties.                                                             *)
(***************************************************************************)

\* Type invariant of the pass and of what surrounds it.
TypeOK ==
    /\ api \in Resources /\ apiCache \in Resources /\ desired \in Resources
    /\ server \in Node /\ nodeCache \in Node /\ node \in Node
    /\ apiFeed \in Seq(Resources) /\ Len(apiFeed) <= MaxLag
    /\ nodeFeed \in Seq(Node) /\ Len(nodeFeed) <= MaxLag
    /\ disk \in [Names -> Slot]
    /\ imports \in SUBSET (Names \X Images)
    /\ pc \in PCs
    /\ want \in [Names -> Status]
    /\ record \in Resources
    /\ seeded \in SUBSET Names /\ unread \in SUBSET Names
    /\ todo \in SUBSET Names /\ held \in SUBSET Names
    /\ cur \in Names
    /\ errs \in BOOLEAN /\ queued \in BOOLEAN /\ waiting \in BOOLEAN
    /\ watched \in BOOLEAN /\ stir \in BOOLEAN
    /\ changes \in 0 .. MaxChanges
    /\ faults \in 0 .. MaxFaults

\* A node is labelled synced for a resource only by a pass in which its
\* directory was complete, whatever failed in that pass, changed under it or
\* was lost on the way to the API server.
SyncedWasSeen ==
    [][\A n \in Names :
          server.label[n] # "synced" /\ server'.label[n] = "synced"
             => n \in held]_vars

\* The agent is not the only writer of the node: its patches, made from a
\* stale copy, never undo a label of another writer.
OthersLabelsSurvive ==
    [][server'.role # server.role => changes' = changes + 1]_vars

\* What the disk and the labels should be for the name n.
Settled(n) ==
    LET i == Desired(api, server.role)[n] IN
    IF i = None
    THEN server.label[n] = "none" /\ disk[n].owner # "agent"
    ELSE /\ i \notin Broken => IsSynced(disk[n])
         /\ server.label[n] = IF IsSynced(disk[n]) THEN "synced" ELSE "pending"

\* Once nothing changes any more, the disk and the labels come to agree with
\* the resources and stay so, though a source is missing, caches lag and calls
\* failed: each resource on its own.
Converges == <>[](\A n \in Names : Settled(n))

\* Why SyncedWasSeen holds: during a pass, held has every directory that is
\* complete, and with it whatever the pass concluded from one.
Seen ==
    pc # "idle" =>
        /\ Whole(disk) \subseteq held
        /\ seeded \subseteq held
        /\ \A n \in Names : want[n] = "synced" => n \in held
        /\ pc \in {"record", "adopt"} => cur \in held

-----------------------------------------------------------------------------
(***************************************************************************)
(* What the documentation says and the code does not keep.                 *)
(***************************************************************************)

\* agent/DESIGN.md, "Adopting a seeded directory": the agent takes over the
\* image the resource names, having checked the content.
AdoptedIsChecked ==
    [][\A n \in Names :
          /\ disk[n].state = "complete" /\ disk[n].owner = "other"
          /\ disk' = [disk EXCEPT ![n].owner = "agent"]
          => disk[n].image = desired[n]]_vars

=============================================================================
