------------------------------- MODULE Preload ------------------------------
(***************************************************************************)
(* The reader of the cache path: containerd-image-preload                  *)
(* (rpm/sources/containerd-image-preload.sh), which a systemd timer starts *)
(* at boot and every ten minutes after, and which imports every archive it *)
(* finds into containerd.  Archives says what the store does to the        *)
(* resource directories meanwhile; CacheStore implements it.               *)
(*                                                                         *)
(* containerd is external: an archive that is whole is imported unless     *)
(* containerd is failing, one that is not never is, and importing twice is *)
(* importing once.                                                         *)
(***************************************************************************)
EXTENDS Archives, Naturals, FiniteSets

CONSTANTS
    Root,       \* the cache path itself, where flat archives are
    Flat,       \* the name of a flat archive
    MaxFaults   \* bound on the imports containerd fails and the runs killed

ASSUME PreloadAssumption ==
    /\ Root \notin Names
    /\ Flat \notin FileNames
    /\ IsFiniteSet(Names) /\ IsFiniteSet(FileNames)
    /\ None \notin Images /\ Altered \notin Images /\ None # Altered
    /\ MaxFaults \in Nat

VARIABLES
    flat,      \* what the flat archive holds
    loaded,    \* archives containerd holds, by name and content
    pc,        \* where the run is
    dirs,      \* directories the glob has yet to list
    todo,      \* the archives listed and not yet tried
    tar,       \* the archive being tried
    failures,  \* imports that failed in this run
    faults,    \* failed imports and kills so far
    steady     \* archives there when the run began, and untouched since

script == <<pc, dirs, todo, tar, failures>>
vars == <<archive, flat, loaded, pc, dirs, todo, tar, failures, faults, steady>>

FlatTar == <<Root, Flat>>

Tars == (Names \X FileNames) \cup {FlatTar}

NoTar == <<None, None>>

Content(t) == IF t = FlatTar THEN flat ELSE archive[t[1]][t[2]]

\* What importing t adds to containerd.
Key(t) == <<t[2], Content(t)>>

Loadable == (FileNames \cup {Flat}) \X Images

Present(s) == {t \in s : Content(t) # None}

-----------------------------------------------------------------------------
(***************************************************************************)
(* What others do, at any time: the store, provisioning, and whoever       *)
(* removes an image from containerd, as the kubelet does when the disk is  *)
(* short.                                                                  *)
(***************************************************************************)

Untouched == steady' = {t \in steady : Content(t)' = Content(t)}

StoreStep ==
    /\ ArchivesNext
    /\ UNCHANGED <<flat, loaded, script, faults>>
    /\ Untouched

\* A flat archive is copied, which takes a while, or deleted.
ProvisionStep ==
    /\ \/ flat = None /\ flat' = Altered
       \/ flat = Altered /\ flat' \in Images
       \/ flat # None /\ flat' = None
    /\ UNCHANGED <<archive, loaded, script, faults>>
    /\ Untouched

Evict(x) ==
    /\ x \in loaded
    /\ loaded' = loaded \ {x}
    /\ steady' = {t \in steady : Key(t) # x}
    /\ UNCHANGED <<archive, flat, script, faults>>

-----------------------------------------------------------------------------
(***************************************************************************)
(* The script.                                                             *)
(***************************************************************************)

\* Mutant: the failures of the runs add up.
StartRunAddsUp ==
    /\ pc = "idle"
    /\ pc' = "scan"
    /\ todo' = Present({FlatTar})
    /\ dirs' = Names
    /\ steady' = Present(Tars)
    /\ UNCHANGED <<archive, flat, loaded, tar, failures, faults>>

\* The timer starts a run; the glob lists the cache path.
StartRun ==
    /\ pc = "idle"
    /\ pc' = "scan"
    /\ todo' = Present({FlatTar})
    /\ dirs' = Names
    /\ failures' = 0
    /\ steady' = Present(Tars)
    /\ UNCHANGED <<archive, flat, loaded, tar, faults>>

\* The glob lists the directories below it, one after the other.
ListDirectory(n) ==
    /\ pc = "scan"
    /\ n \in dirs
    /\ dirs' = dirs \ {n}
    /\ todo' = todo \cup Present({n} \X FileNames)
    /\ pc' = IF dirs = {n} THEN "loop" ELSE "scan"
    /\ UNCHANGED <<archive, flat, loaded, tar, failures, faults, steady>>

\* The next archive: passed over when it is gone.
TestArchive(t) ==
    /\ pc = "loop"
    /\ t \in todo
    /\ todo' = todo \ {t}
    /\ IF Content(t) = None
       THEN UNCHANGED <<pc, tar>>
       ELSE pc' = "import" /\ tar' = t
    /\ UNCHANGED <<archive, flat, loaded, dirs, failures, faults, steady>>

Imported ==
    /\ Content(tar) \in Images
    /\ loaded' = loaded \cup {Key(tar)}
    /\ UNCHANGED <<failures, faults>>

\* Mutant: a failed import is not counted.
ImportFailsQuietly ==
    /\ \/ Content(tar) \notin Images /\ UNCHANGED faults
       \/ faults < MaxFaults /\ faults' = faults + 1
    /\ UNCHANGED <<loaded, failures>>

\* An archive that is altered, or gone since the test, or containerd failing.
ImportFails ==
    /\ \/ Content(tar) \notin Images /\ UNCHANGED faults
       \/ faults < MaxFaults /\ faults' = faults + 1
    /\ failures' = failures + 1
    /\ UNCHANGED loaded

\* Mutant: the first failure ends the run.
ImportArchiveOrExit ==
    /\ pc = "import"
    /\ \/ Imported /\ pc' = "loop" /\ UNCHANGED todo
       \/ ImportFails /\ pc' = "done" /\ todo' = {}
    /\ tar' = NoTar
    /\ UNCHANGED <<archive, flat, dirs, steady>>

\* ctr images import: the loop goes on, whatever it returns.
ImportArchive ==
    /\ pc = "import"
    /\ Imported \/ ImportFails
    /\ pc' = "loop"
    /\ tar' = NoTar
    /\ UNCHANGED <<archive, flat, dirs, todo, steady>>

\* The loop is over; the exit status is whether an import failed.
EndLoop ==
    /\ pc = "loop"
    /\ todo = {}
    /\ pc' = "done"
    /\ UNCHANGED <<archive, flat, loaded, dirs, todo, tar, failures, faults,
                   steady>>

\* The unit is inactive again: the timer, which counts from the start of a run,
\* may start the next one.
Settle ==
    /\ pc = "done"
    /\ pc' = "idle"
    /\ steady' = {}
    /\ UNCHANGED <<archive, flat, loaded, dirs, todo, tar, failures, faults>>

\* The run is killed, or the node restarts: containerd keeps what it has.
Killed ==
    /\ pc \in {"scan", "loop", "import"}
    /\ faults < MaxFaults
    /\ faults' = faults + 1
    /\ pc' = "idle"
    /\ dirs' = {}
    /\ todo' = {}
    /\ tar' = NoTar
    /\ steady' = {}
    /\ UNCHANGED <<archive, flat, loaded, failures>>

-----------------------------------------------------------------------------

Init ==
    /\ ArchivesInit
    /\ flat = None
    /\ loaded = {}
    /\ pc = "idle"
    /\ dirs = {}
    /\ todo = {}
    /\ tar = NoTar
    /\ failures = 0
    /\ faults = 0
    /\ steady = {}

Script ==
    \/ StartRun
    \/ \E n \in Names : ListDirectory(n)
    \/ \E t \in Tars : TestArchive(t)
    \/ ImportArchive
    \/ EndLoop
    \/ Settle

Next ==
    \/ Script
    \/ Killed
    \/ StoreStep
    \/ ProvisionStep
    \/ \E x \in Loadable : Evict(x)

Spec == Init /\ [][Next]_vars

(***************************************************************************)
(* Fairness: the timer starts a run ten minutes after the last one began,  *)
(* whatever its status, and a run is running code.  Nobody else owes a     *)
(* step.                                                                   *)
(***************************************************************************)
FairSpec == Spec /\ WF_vars(Script)

-----------------------------------------------------------------------------
(***************************************************************************)
(* Properties.                                                             *)
(***************************************************************************)

\* Type invariant of the preload service.
TypeOK ==
    /\ archive \in [Names -> [FileNames -> Images \cup {None, Altered}]]
    /\ flat \in Images \cup {None, Altered}
    /\ loaded \subseteq Loadable
    /\ pc \in {"idle", "scan", "loop", "import", "done"}
    /\ dirs \subseteq Names
    /\ todo \subseteq Tars
    /\ tar \in Tars \cup {NoTar}
    /\ failures \in 0 .. Cardinality(Tars)
    /\ faults \in 0 .. MaxFaults
    /\ steady \subseteq Tars

\* A run that exits with 0 has given containerd every archive that was there
\* when it began and stayed as it was, wherever the glob was when the store
\* swapped or collected the directories around it.
SuccessMeansLoaded ==
    pc = "done" /\ failures = 0 => \A t \in steady : Key(t) \in loaded

\* Why these hold.  What a run may yet try: the archive in hand, those listed,
\* and any in a directory not listed yet.
ToTry ==
    todo \cup (dirs \X FileNames) \cup (IF pc = "import" THEN {tar} ELSE {})

\* Each archive is tried once: the loop begins when the glob is done, and takes
\* an archive off the list before it tries it.
TriedOnce ==
    /\ pc \in {"loop", "import", "done"} => dirs = {}
    /\ pc = "import" => tar \in Tars \ todo
    /\ pc = "done" => todo = {}
    /\ pc # "idle" => failures + Cardinality(ToTry) <= Cardinality(Tars)

\* An archive that stays is there, and is loaded or to be tried, unless the run
\* has failed.
SteadyTried ==
    \A t \in steady :
        /\ Content(t) # None
        /\ pc # "idle"
        /\ Key(t) \in loaded \/ t \in ToTry \/ failures > 0

\* An archive that stays in the cache is in containerd, and is put back each
\* time it is removed from there: neither an archive that can never be
\* imported, nor a run that failed or was killed, keeps the others out.
StayingIsLoaded ==
    \A t \in Tars, i \in Images :
        <>[](Content(t) = i) => []<>(<<t[2], i>> \in loaded)

=============================================================================
