------------------------ MODULE NodeReconcilerProofs ------------------------
(***************************************************************************)
(* What holds of NodeReconciler for any resources, images and selectors,   *)
(* and for any number of changes, faults and late updates.                 *)
(***************************************************************************)
EXTENDS NodeReconciler, TLAPS

\* What the operators of the pass return.
LEMMA SlotTypes ==
    /\ Absent \in Slot /\ Unmarked \in Slot
    /\ \A i \in Images \cup {None} : Complete("agent", i) \in Slot
                                     /\ Complete("other", i) \in Slot
    /\ \A slot \in Slot : Leftovers(slot) \subseteq Slot
BY DEF Absent, Unmarked, Complete, Leftovers, Slot

\* The resources that select the node are resources.
LEMMA DesiredType ==
    ASSUME NEW list \in Resources, NEW role
    PROVE  Desired(list, role) \in Resources
BY DEF Desired, Resources

\* A merge patch changes the labels that differ, and nothing else.
LEMMA MergedType ==
    ASSUME TypeOK
    PROVE  Merged \in Node /\ Merged.role = server.role
           /\ \A n \in Names :
                 Merged.label[n] = IF node.label[n] # want[n] THEN want[n]
                                   ELSE server.label[n]
BY DEF TypeOK, Merged, Node

\* A write of the node keeps its type, and the feed within its lag.
LEMMA ApplyType ==
    ASSUME TypeOK, NEW new \in Node, Apply(new)
    PROVE  server' \in Node /\ nodeFeed' \in Seq(Node) /\ Len(nodeFeed') <= MaxLag
<1>1. server' \in Node
  BY DEF Apply
<1>2. nodeFeed \in Seq(Node) /\ Len(nodeFeed) \in Nat /\ Len(nodeFeed) <= MaxLag
  BY DEF TypeOK
<1>3. CASE Len(nodeFeed) < MaxLag /\ nodeFeed' = Append(nodeFeed, new)
  <2>1. nodeFeed' \in Seq(Node) /\ Len(nodeFeed') = Len(nodeFeed) + 1
    BY <1>2, <1>3
  <2>2. QED
    BY <1>1, <1>2, <1>3, <2>1, ReconcileAssumption
<1>4. QED
  BY <1>1, <1>2, <1>3 DEF Apply

\* So does a delivery.
LEMMA FeedType ==
    ASSUME NEW S, NEW feed \in Seq(S), feed # <<>>, Len(feed) <= MaxLag
    PROVE  Head(feed) \in S /\ Tail(feed) \in Seq(S) /\ Len(Tail(feed)) <= MaxLag
BY ReconcileAssumption

\* Every step of a pass keeps the types.
LEMMA TypePass == TypeOK /\ Pass => TypeOK'
<1> SUFFICES ASSUME TypeOK, Pass PROVE TypeOK'
  OBVIOUS
<1> USE ReconcileAssumption
    DEF TypeOK, PCs, Visit, Stir, outside, local, queue, bounds
<1>1. CASE Begin
  <2>1. nodeCache \in Node /\ desired' \in Resources
    BY <1>1, DesiredType DEF Begin
  <2>2. want' \in [Names -> Status] /\ todo' \in SUBSET Names /\ held' \in SUBSET Names
    BY <1>1 DEF Begin, Status, Claimed, Whole
  <2>3. record' \in Resources
    BY <1>1 DEF Begin, NoResource, Resources
  <2>4. QED
    BY <1>1, <2>1, <2>2, <2>3 DEF Begin
<1>2. CASE ReadRecord
  <2>1. disk[cur].image \in Images \cup {None}
    BY DEF Slot
  <2>2. record' \in Resources /\ want' \in [Names -> Status]
    BY <1>2, <2>1 DEF ReadRecord, Resources, Status
  <2>3. QED
    BY <1>2, <2>2 DEF ReadRecord
<1>3. CASE PatchLabels
  <2>1. server' \in Node /\ node' \in Node
    BY <1>3, MergedType DEF PatchLabels, Apply
  <2>2. nodeFeed' \in Seq(Node) /\ Len(nodeFeed') <= MaxLag
    <3>1. CASE UNCHANGED nodeFeed
      BY <3>1
    <3>2. CASE Apply(Merged)
      BY <3>2, MergedType, ApplyType
    <3>3. QED
      BY <1>3, <3>1, <3>2 DEF PatchLabels
  <2>3. todo' \in SUBSET Names /\ pc' \in PCs
    BY <1>3 DEF PatchLabels, AfterPatch, Pending, Claimed
  <2>4. QED
    BY <1>3, <2>1, <2>2, <2>3 DEF PatchLabels
<1>4. CASE Adopt
  <2>1. disk' \in [Names -> Slot]
    BY <1>4 DEF Adopt, Slot
  <2>2. held' \in SUBSET Names /\ want' \in [Names -> Status]
    BY <1>4 DEF Adopt, Whole, Status
  <2>3. stir' \in BOOLEAN
    BY <1>4 DEF Adopt
  <2>4. QED
    BY <1>4, <2>1, <2>2, <2>3 DEF Adopt
<1>5. CASE Collect
  <2>1. disk' \in [Names -> Slot]
    BY <1>5, SlotTypes DEF Collect
  <2>2. stir' \in BOOLEAN
    BY <1>5 DEF Collect
  <2>3. QED
    BY <1>5, <2>1, <2>2 DEF Collect
<1>6. CASE End
  <2>1. waiting' \in BOOLEAN
    BY <1>6 DEF End
  <2>2. QED
    BY <1>6, <2>1 DEF End
<1>7. ASSUME NEW n \in Names, Look(n) PROVE TypeOK'
  BY <1>7 DEF Look
<1>8. ASSUME NEW n \in Names, Resolve(n) PROVE TypeOK'
  BY <1>8 DEF Resolve
<1>9. ASSUME NEW n \in Names, ResolveFails(n) PROVE TypeOK'
  BY <1>9 DEF ResolveFails, Fault
<1>10. ASSUME NEW n \in Names, Sync(n) PROVE TypeOK'
  <2>1. desired[n] \in Images \cup {None}
    BY DEF Resources
  <2>2. disk' \in [Names -> Slot]
    BY <1>10, <2>1, SlotTypes DEF Sync
  <2>3. held' \in SUBSET Names /\ want' \in [Names -> Status]
    BY <1>10 DEF Sync, Whole, Status
  <2>4. stir' \in BOOLEAN
    BY <1>10 DEF Sync
  <2>5. QED
    BY <1>10, <2>2, <2>3, <2>4 DEF Sync
<1>11. ASSUME NEW n \in Names, SyncFails(n) PROVE TypeOK'
  <2>1. disk' \in [Names -> Slot]
    BY <1>11, SlotTypes DEF SyncFails
  <2>2. stir' \in BOOLEAN
    BY <1>11 DEF SyncFails
  <2>3. QED
    BY <1>11, <2>1, <2>2 DEF SyncFails, Fault
<1>12. QED
  BY <1>1, <1>2, <1>3, <1>4, <1>5, <1>6, <1>7, <1>8, <1>9, <1>10, <1>11 DEF Pass

\* So does every failed call, and a restart.
LEMMA TypeFailures == TypeOK /\ Failures => TypeOK'
<1> SUFFICES ASSUME TypeOK, Failures PROVE TypeOK'
  OBVIOUS
<1> USE ReconcileAssumption
    DEF TypeOK, PCs, Visit, Fault, Stir, outside, local, queue, bounds
<1>1. CASE BeginFails
  <2>1. waiting' \in BOOLEAN /\ queued' \in BOOLEAN
    BY <1>1 DEF BeginFails
  <2>2. QED
    BY <1>1, <2>1 DEF BeginFails
<1>2. CASE ReadRecordFails
  BY <1>2 DEF ReadRecordFails
<1>3. CASE PatchLabelsFails
  <2>1. [node EXCEPT !.label = want] \in Node
    BY DEF Node
  <2>2. server' \in Node /\ nodeFeed' \in Seq(Node) /\ Len(nodeFeed') <= MaxLag
    BY <1>3, MergedType, ApplyType DEF PatchLabelsFails
  <2>3. todo' \in SUBSET Names /\ pc' \in PCs
    BY <1>3 DEF PatchLabelsFails, AfterPatch, Pending, Claimed
  <2>4. errs' \in BOOLEAN
    BY <1>3 DEF PatchLabelsFails
  <2>5. QED
    BY <1>3, <2>1, <2>2, <2>3, <2>4 DEF PatchLabelsFails
<1>4. CASE AdoptFails
  BY <1>4 DEF AdoptFails
<1>5. CASE CollectFails
  <2>1. disk' \in [Names -> Slot]
    BY <1>5, SlotTypes DEF CollectFails
  <2>2. stir' \in BOOLEAN
    BY <1>5 DEF CollectFails
  <2>3. QED
    BY <1>5, <2>1, <2>2 DEF CollectFails
<1>6. CASE Restart
  <2>1. /\ waiting' \in BOOLEAN /\ queued' \in BOOLEAN
        /\ watched' \in BOOLEAN /\ stir' \in BOOLEAN
    BY <1>6 DEF Restart
  <2>2. /\ apiFeed' \in Seq(Resources) /\ Len(apiFeed') <= MaxLag
        /\ nodeFeed' \in Seq(Node) /\ Len(nodeFeed') <= MaxLag
    BY <1>6 DEF Restart
  <2>3. QED
    BY <1>6, <2>1, <2>2 DEF Restart
<1>7. ASSUME NEW n \in Names, LookFails(n) PROVE TypeOK'
  BY <1>7 DEF LookFails
<1>8. QED
  BY <1>1, <1>2, <1>3, <1>4, <1>5, <1>6, <1>7 DEF Failures

\* So does what happens around the pass.
LEMMA TypeOutside == TypeOK /\ Outside => TypeOK'
<1> SUFFICES ASSUME TypeOK, Outside PROVE TypeOK'
  OBVIOUS
<1> USE ReconcileAssumption
    DEF TypeOK, Change, Stir, outside, local, queue, bounds
<1>1. ASSUME NEW n \in Names, NEW i \in Images \cup {None}, SetResource(n, i) PROVE TypeOK'
  <2>1. api' \in Resources
    BY <1>1 DEF SetResource, Resources
  <2>2. apiFeed' \in Seq(Resources) /\ Len(apiFeed') <= MaxLag
    BY <1>1, <2>1 DEF SetResource
  <2>3. QED
    BY <1>1, <2>1, <2>2 DEF SetResource
<1>2. CASE Relabel
  <2>1. server' \in Node
    BY <1>2 DEF Relabel, Node
  <2>2. nodeFeed' \in Seq(Node) /\ Len(nodeFeed') <= MaxLag
    BY <1>2, <2>1 DEF Relabel
  <2>3. QED
    BY <1>2, <2>1, <2>2 DEF Relabel
<1>3. ASSUME NEW n \in Names, Tamper(n) PROVE TypeOK'
  <2>1. disk' \in [Names -> Slot]
    <3>1. [disk[n] EXCEPT !.state = "partial"] \in Slot
      BY DEF Slot
    <3>2. QED
      BY <1>3, <3>1, SlotTypes DEF Tamper
  <2>2. stir' \in BOOLEAN
    BY <1>3 DEF Tamper
  <2>3. QED
    BY <1>3, <2>1, <2>2 DEF Tamper
<1>4. ASSUME NEW n \in Names, NEW i \in Images, ImportBegin(n, i) PROVE TypeOK'
  BY <1>4 DEF ImportBegin
<1>5. ASSUME NEW n \in Names, NEW i \in Images, ImportEnd(n, i) PROVE TypeOK'
  <2>1. disk' \in [Names -> Slot]
    BY <1>5, SlotTypes DEF ImportEnd
  <2>2. stir' \in BOOLEAN
    BY <1>5 DEF ImportEnd
  <2>3. QED
    BY <1>5, <2>1, <2>2 DEF ImportEnd
<1>6. QED
  BY <1>1, <1>2, <1>3, <1>4, <1>5 DEF Outside

\* TypeOK: the types hold throughout, whatever fails, changes or is late.
THEOREM TypeCorrect == Spec => []TypeOK
<1>1. Init => TypeOK
  <2> SUFFICES ASSUME Init PROVE TypeOK
    OBVIOUS
  <2> USE ReconcileAssumption DEF Init
  <2>1. api \in Resources /\ server \in Node
    BY DEF Node, Status
  <2>2. disk \in [Names -> Slot]
    BY SlotTypes
  <2>3. NoResource \in Resources /\ NoLabel \in [Names -> Status]
    BY DEF NoResource, Resources, NoLabel, Status
  <2>4. /\ errs \in BOOLEAN /\ queued \in BOOLEAN /\ waiting \in BOOLEAN
        /\ watched \in BOOLEAN /\ stir \in BOOLEAN
    OBVIOUS
  <2>5. /\ apiFeed \in Seq(Resources) /\ Len(apiFeed) <= MaxLag
        /\ nodeFeed \in Seq(Node) /\ Len(nodeFeed) <= MaxLag
    OBVIOUS
  <2>6. QED
    BY <2>1, <2>2, <2>3, <2>4, <2>5 DEF TypeOK, PCs
<1>2. TypeOK /\ [Next]_vars => TypeOK'
  <2> SUFFICES ASSUME TypeOK, [Next]_vars PROVE TypeOK'
    OBVIOUS
  <2>1. CASE DeliverResource \/ DeliverNode
    <3>1. /\ apiFeed' \in Seq(Resources) /\ Len(apiFeed') <= MaxLag
          /\ nodeFeed' \in Seq(Node) /\ Len(nodeFeed') <= MaxLag
          /\ apiCache' \in Resources /\ nodeCache' \in Node
      BY <2>1, FeedType DEF DeliverResource, DeliverNode, TypeOK
    <3>2. queued' \in BOOLEAN
      BY <2>1 DEF DeliverResource, DeliverNode, TypeOK, queue
    <3>3. QED
      BY <2>1, <3>1, <3>2
         DEF DeliverResource, DeliverNode, TypeOK, local, queue, bounds
  <2>2. CASE Requeue \/ Forward
    <3>1. queued' \in BOOLEAN /\ waiting' \in BOOLEAN /\ stir' \in BOOLEAN
      BY <2>2 DEF Requeue, Forward, TypeOK
    <3>2. QED
      BY <2>2, <3>1 DEF Requeue, Forward, TypeOK, outside, local, bounds
  <2>3. CASE UNCHANGED vars
    BY <2>3 DEF vars, TypeOK
  <2>4. QED
    BY <2>1, <2>2, <2>3, TypePass, TypeFailures, TypeOutside DEF Next
<1>3. QED
  BY <1>1, <1>2, PTL DEF Spec
-----------------------------------------------------------------------------

\* Every step of a pass keeps what it concluded within what it saw.
LEMMA SeenPass == TypeOK /\ Seen /\ Pass => Seen'
<1> SUFFICES ASSUME TypeOK, Seen, Pass, pc' # "idle"
             PROVE  /\ Whole(disk)' \subseteq held' /\ seeded' \subseteq held'
                    /\ \A n \in Names : want'[n] = "synced" => n \in held'
                    /\ pc' \in {"record", "adopt"} => cur' \in held'
  BY DEF Seen
<1> USE DEF TypeOK, Seen, Visit, Stir, outside, local
<1>1. CASE Begin
  BY <1>1 DEF Begin, Whole
<1>2. CASE ReadRecord
  BY <1>2 DEF ReadRecord, Whole
<1>3. CASE PatchLabels
  BY <1>3 DEF PatchLabels, AfterPatch, Whole
<1>4. CASE Adopt
  BY <1>4 DEF Adopt, Whole
<1>5. CASE Collect
  BY <1>5 DEF Collect, Whole, Absent
<1>6. CASE End
  BY <1>6 DEF End
<1>7. ASSUME NEW n \in Names, Look(n)
      PROVE  /\ Whole(disk)' \subseteq held' /\ seeded' \subseteq held'
             /\ \A m \in Names : want'[m] = "synced" => m \in held'
             /\ pc' \in {"record", "adopt"} => cur' \in held'
  BY <1>7 DEF Look, Whole
<1>8. ASSUME NEW n \in Names, Resolve(n) \/ ResolveFails(n)
      PROVE  /\ Whole(disk)' \subseteq held' /\ seeded' \subseteq held'
             /\ \A m \in Names : want'[m] = "synced" => m \in held'
             /\ pc' \in {"record", "adopt"} => cur' \in held'
  BY <1>8 DEF Resolve, ResolveFails, Whole
<1>9. ASSUME NEW n \in Names, Sync(n)
      PROVE  /\ Whole(disk)' \subseteq held' /\ seeded' \subseteq held'
             /\ \A m \in Names : want'[m] = "synced" => m \in held'
             /\ pc' \in {"record", "adopt"} => cur' \in held'
  <2>1. /\ disk' = [disk EXCEPT ![n] = Complete("agent", desired[n])]
        /\ want' = [want EXCEPT ![n] = "synced"]
        /\ held' = held \cup Whole(disk')
        /\ pc = "work" /\ pc' \in {"work", "gc"} /\ seeded' = seeded
    BY <1>9 DEF Sync, Due
  <2>2. n \in Whole(disk') /\ Whole(disk)' = Whole(disk')
    BY <2>1 DEF Whole, Complete
  <2>3. QED
    BY <2>1, <2>2
<1>10. ASSUME NEW n \in Names, SyncFails(n)
      PROVE  /\ Whole(disk)' \subseteq held' /\ seeded' \subseteq held'
             /\ \A m \in Names : want'[m] = "synced" => m \in held'
             /\ pc' \in {"record", "adopt"} => cur' \in held'
  <2>1. PICK slot \in Leftovers(disk[n]) : disk' = [disk EXCEPT ![n] = slot]
    BY <1>10 DEF SyncFails, Leftovers
  <2>2. slot.state = "complete" => disk[n].state = "complete"
    BY <2>1 DEF Leftovers, Absent, Unmarked, Slot
  <2>3. Whole(disk)' \subseteq Whole(disk)
    BY <2>1, <2>2 DEF Whole
  <2>4. QED
    BY <1>10, <2>3 DEF SyncFails, Due
<1>11. QED
  BY <1>1, <1>2, <1>3, <1>4, <1>5, <1>6, <1>7, <1>8, <1>9, <1>10 DEF Pass

\* So does every other step.
LEMMA SeenNext == TypeOK /\ Seen /\ [Next]_vars => Seen'
<1> SUFFICES ASSUME TypeOK, Seen, [Next]_vars PROVE Seen'
  OBVIOUS
<1> USE DEF TypeOK, Seen, Visit, Stir, outside, local
<1>1. CASE Failures
  <2>1. CASE CollectFails
    BY <2>1 DEF CollectFails, Whole, Absent
  <2>2. CASE ~CollectFails
    BY <1>1, <2>2
       DEF Failures, BeginFails, ReadRecordFails, PatchLabelsFails, AfterPatch, AdoptFails,
           Restart, LookFails, Whole
  <2>3. QED
    BY <2>1, <2>2
<1>2. ASSUME NEW n \in Names, Tamper(n) PROVE Seen'
  <2>1. [disk[n] EXCEPT !.state = "partial"].state = "partial"
    BY DEF Slot
  <2>2. Whole(disk)' \subseteq Whole(disk)
    <3>1. CASE disk' = [disk EXCEPT ![n] = Absent]
      BY <3>1 DEF Whole, Absent
    <3>2. CASE disk' = [disk EXCEPT ![n].state = "partial"]
      <4>1. disk'[n].state = "partial" /\ \A m \in Names \ {n} : disk'[m] = disk[m]
        BY <2>1, <3>2
      <4>2. QED
        BY <4>1 DEF Whole
    <3>3. QED
      BY <1>2, <3>1, <3>2 DEF Tamper
  <2>3. QED
    BY <1>2, <2>2 DEF Tamper
<1>3. ASSUME NEW n \in Names, NEW i \in Images, ImportEnd(n, i) PROVE Seen'
  BY <1>3 DEF ImportEnd, Whole
<1>4. CASE \/ \E n \in Names, i \in Images \cup {None} : SetResource(n, i)
           \/ \E n \in Names, i \in Images : ImportBegin(n, i)
           \/ Relabel \/ DeliverResource \/ DeliverNode \/ Requeue \/ Forward
           \/ UNCHANGED vars
  BY <1>4 DEF SetResource, ImportBegin, Relabel, DeliverResource, DeliverNode, Requeue,
              Forward, vars, Whole
<1>5. QED
  BY <1>1, <1>2, <1>3, <1>4, SeenPass DEF Next, Outside

\* Seen always holds.
LEMMA SeenInvariant == Spec => []Seen
<1>1. Init => Seen
  BY DEF Init, Seen
<1>2. QED
  BY <1>1, TypeCorrect, SeenNext, PTL DEF Spec

\* A step writes the node on the server in one of these ways only.
LEMMA ServerNext ==
    ASSUME TypeOK, [Next]_vars
    PROVE  \/ server' = server
           \/ Relabel
           \/ pc \in {"patch", "patchAgain"} /\ server' = Merged
BY DEF Next, Pass, Failures, Outside, Begin, ReadRecord, PatchLabels, Adopt, Collect, End,
       Look, Resolve, ResolveFails, Sync, SyncFails, BeginFails, ReadRecordFails,
       PatchLabelsFails, AdoptFails, CollectFails, Restart, LookFails, SetResource, Tamper,
       ImportBegin, ImportEnd, DeliverResource, DeliverNode, Requeue, Forward, Apply,
       outside, vars

\* SyncedWasSeen: a node is labelled synced only by a pass in which the
\* directory was complete, whatever happens to it, to the caches and to the
\* patches meanwhile.
THEOREM SyncedSeen == Spec => SyncedWasSeen
<1>1. TypeOK /\ Seen /\ [Next]_vars =>
        [\A n \in Names :
            server.label[n] # "synced" /\ server'.label[n] = "synced"
               => n \in held]_vars
  <2> SUFFICES ASSUME TypeOK, Seen, [Next]_vars, NEW n \in Names,
                      server.label[n] # "synced", server'.label[n] = "synced"
               PROVE  n \in held
    OBVIOUS
  <2>1. ~Relabel
    BY DEF Relabel, TypeOK, Node
  <2>2. pc \in {"patch", "patchAgain"} /\ server' = Merged
    BY <2>1, ServerNext
  <2>3. want[n] = "synced"
    BY <2>2, MergedType
  <2>4. QED
    BY <2>2, <2>3 DEF Seen
<1>2. QED
  BY <1>1, TypeCorrect, SeenInvariant, PTL DEF Spec, SyncedWasSeen

\* OthersLabelsSurvive: no patch of the agent, made from however stale a copy
\* of the node, changes a label of another writer.
THEOREM OthersLabelsKept == Spec => OthersLabelsSurvive
<1>1. TypeOK /\ [Next]_vars => [server'.role # server.role => changes' = changes + 1]_vars
  BY ServerNext, MergedType DEF Relabel, Change
<1>2. QED
  BY <1>1, TypeCorrect, PTL DEF Spec, OthersLabelsSurvive
=============================================================================
