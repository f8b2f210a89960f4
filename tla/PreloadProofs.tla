--------------------------- MODULE PreloadProofs ----------------------------
(***************************************************************************)
(* What holds of Preload for any resources, images and archives.           *)
(***************************************************************************)
EXTENDS Preload, TLAPS, FiniteSetTheorems

\* There are finitely many archives.
LEMMA TarsFinite == IsFiniteSet(Tars) /\ Cardinality(Tars) \in Nat
BY PreloadAssumption, FS_Product, FS_AddElement, FS_CardinalityType DEF Tars

\* What the script may yet try is finite, and its number drops with a part of it.
LEMMA FewerToTry ==
    ASSUME NEW S \in SUBSET Tars, NEW T \in SUBSET S
    PROVE  /\ IsFiniteSet(S) /\ Cardinality(S) \in Nat
           /\ Cardinality(T) \in Nat /\ Cardinality(T) <= Cardinality(S)
           /\ Cardinality(S) <= Cardinality(Tars)
           /\ \A t \in S : Cardinality(S \ {t}) = Cardinality(S) - 1
BY TarsFinite, FS_Subset, FS_CardinalityType, FS_RemoveElement

\* What the script may yet try are archives.
LEMMA ToTryTars == TypeOK /\ TriedOnce => ToTry \in SUBSET Tars
BY DEF TypeOK, TriedOnce, ToTry, Tars

\* The archives keep their type.
LEMMA ArchivesType ==
    ASSUME archive \in [Names -> [FileNames -> Images \cup {None, Altered}]], ArchivesNext
    PROVE  archive' \in [Names -> [FileNames -> Images \cup {None, Altered}]]
BY DEF ArchivesNext, Publish, Lose, Tamper

Bounded == TypeOK /\ TriedOnce

\* The steps of the script keep the types, and try each archive once.
LEMMA BoundedScript == Bounded /\ Script => Bounded'
<1> SUFFICES ASSUME Bounded, Script PROVE Bounded'
  OBVIOUS
<1> USE PreloadAssumption, TarsFinite DEF Bounded, TypeOK
<1>0. ToTry \in SUBSET Tars
  BY ToTryTars
<1>1. ASSUME ToTry' \subseteq ToTry, failures' = failures, pc # "idle"
      PROVE  failures' + Cardinality(ToTry') <= Cardinality(Tars)
  BY <1>0, <1>1, FewerToTry DEF TriedOnce
<1>2. CASE StartRun
  <2>1. ToTry' \in SUBSET Tars
    BY <1>2 DEF StartRun, ToTry, Present, Tars
  <2>2. Cardinality(ToTry') <= Cardinality(Tars) /\ Cardinality(ToTry') \in Nat
    BY <2>1, FewerToTry
  <2>3. failures' + Cardinality(ToTry') <= Cardinality(Tars)
    BY <1>2, <2>2 DEF StartRun
  <2>4. TypeOK'
    BY <1>2 DEF StartRun, Present, Tars
  <2>5. QED
    BY <1>2, <2>3, <2>4 DEF StartRun, TriedOnce
<1>3. ASSUME NEW n \in Names, ListDirectory(n) PROVE Bounded'
  <2>1. ToTry' \subseteq ToTry
    BY <1>3 DEF ListDirectory, ToTry, Present
  <2>2. TypeOK'
    BY <1>3 DEF ListDirectory, Present, Tars
  <2>3. QED
    BY <1>1, <1>3, <2>1, <2>2 DEF ListDirectory, TriedOnce
<1>4. ASSUME NEW t \in Tars, TestArchive(t) PROVE Bounded'
  <2>1. ToTry' \subseteq ToTry
    BY <1>4 DEF TestArchive, ToTry
  <2>2. TypeOK'
    BY <1>4 DEF TestArchive
  <2>3. QED
    BY <1>1, <1>4, <2>1, <2>2 DEF TestArchive, TriedOnce
<1>5. CASE ImportArchive
  <2>1. /\ pc = "import" /\ pc' = "loop" /\ tar \in ToTry /\ tar \in Tars
        /\ ToTry' = ToTry \ {tar}
    BY <1>5 DEF ImportArchive, ToTry, TriedOnce
  <2>2. Cardinality(ToTry') = Cardinality(ToTry) - 1 /\ Cardinality(ToTry) \in Nat
    BY <1>0, <2>1, FewerToTry
  <2>3. Cardinality(ToTry) > 0
    BY <1>0, <2>1, <2>2, FewerToTry, FS_EmptySet
  <2>4. failures' \in {failures, failures + 1}
    BY <1>5 DEF ImportArchive, Imported, ImportFails
  <2>5. failures' + Cardinality(ToTry') <= Cardinality(Tars)
    BY <2>1, <2>2, <2>4 DEF TriedOnce
  <2>6. failures' \in 0 .. Cardinality(Tars)
    BY <2>1, <2>2, <2>3, <2>4 DEF TriedOnce
  <2>7. Key(tar) \in Loadable \/ Content(tar) \notin Images
    BY <2>1 DEF Key, Loadable, Tars, FlatTar
  <2>8. faults' \in 0 .. MaxFaults
    BY <1>5 DEF ImportArchive, Imported, ImportFails
  <2>9. TypeOK'
    BY <1>5, <2>6, <2>7, <2>8 DEF ImportArchive, Imported, ImportFails
  <2>10. QED
    BY <1>5, <2>1, <2>5, <2>9 DEF ImportArchive, TriedOnce
<1>6. CASE EndLoop
  <2>1. ToTry' \subseteq ToTry
    BY <1>6 DEF EndLoop, ToTry
  <2>2. QED
    BY <1>1, <1>6, <2>1 DEF EndLoop, TriedOnce
<1>7. CASE Settle
  BY <1>7 DEF Settle, TriedOnce
<1>8. QED
  BY <1>2, <1>3, <1>4, <1>5, <1>6, <1>7 DEF Script

\* So do the steps of the others.
LEMMA BoundedNext == Bounded /\ [Next]_vars => Bounded'
<1> SUFFICES ASSUME Bounded, [Next]_vars PROVE Bounded'
  OBVIOUS
<1> USE PreloadAssumption DEF Bounded, TypeOK, script
<1>1. CASE StoreStep
  BY <1>1, ArchivesType DEF StoreStep, Untouched, TriedOnce, ToTry
<1>2. CASE ProvisionStep
  BY <1>2 DEF ProvisionStep, Untouched, TriedOnce, ToTry
<1>3. CASE \E x \in Loadable : Evict(x)
  BY <1>3 DEF Evict, TriedOnce, ToTry
<1>4. CASE Killed
  BY <1>4 DEF Killed, TriedOnce
<1>5. CASE UNCHANGED vars
  BY <1>5 DEF vars, TriedOnce, ToTry
<1>6. QED
  BY <1>1, <1>2, <1>3, <1>4, <1>5, BoundedScript DEF Next

\* Bounded always holds.
LEMMA BoundedInvariant == Spec => []Bounded
<1>1. Init => Bounded
  BY PreloadAssumption, TarsFinite DEF Init, Bounded, TypeOK, TriedOnce, ArchivesInit
<1>2. QED
  BY <1>1, BoundedNext, PTL DEF Spec

\* TypeOK: the types hold throughout; a run counts no more failures than
\* there are archives, though the directories change while it lists them.
THEOREM TypeCorrect == Spec => []TypeOK
BY BoundedInvariant, PTL DEF Bounded
-----------------------------------------------------------------------------

\* An archive others leave alone keeps its content.
LEMMA SteadyOthers ==
    ASSUME SteadyTried, UNCHANGED <<loaded, script>>, Untouched
    PROVE  SteadyTried'
BY DEF SteadyTried, Untouched, Key, ToTry, script

\* Every step keeps each steady archive loaded, to be tried or failed.
LEMMA SteadyNext == Bounded /\ SteadyTried /\ [Next]_vars => SteadyTried'
<1> SUFFICES ASSUME Bounded, SteadyTried, [Next]_vars PROVE SteadyTried'
  OBVIOUS
<1> USE PreloadAssumption
<1>1. CASE StoreStep \/ ProvisionStep
  BY <1>1, SteadyOthers DEF StoreStep, ProvisionStep
<1>2. ASSUME NEW x \in Loadable, Evict(x) PROVE SteadyTried'
  BY <1>2 DEF Evict, SteadyTried, Key, Content, ToTry, script
<1>3. CASE StartRun
  <2>1. \A t \in steady' : t \in Tars /\ Content(t) # None /\ t \in ToTry'
    BY <1>3 DEF StartRun, ToTry, Present, Tars
  <2>2. QED
    BY <1>3, <2>1 DEF StartRun, SteadyTried, Content
<1>4. ASSUME NEW n \in Names, ListDirectory(n) PROVE SteadyTried'
  <2>1. \A t \in steady : Content(t)' = Content(t) /\ Key(t)' = Key(t)
    BY <1>4 DEF ListDirectory, Content, Key
  <2>2. ASSUME NEW t \in steady, t \in ToTry PROVE t \in ToTry'
    BY <1>4, <2>2 DEF ListDirectory, ToTry, Present, SteadyTried
  <2>3. QED
    BY <1>4, <2>1, <2>2 DEF ListDirectory, SteadyTried
<1>5. ASSUME NEW t \in Tars, TestArchive(t) PROVE SteadyTried'
  <2>1. \A s \in steady : Content(s)' = Content(s) /\ Key(s)' = Key(s)
    BY <1>5 DEF TestArchive, Content, Key
  <2>2. ASSUME NEW s \in steady, s \in ToTry PROVE s \in ToTry'
    BY <1>5, <2>2 DEF TestArchive, ToTry, SteadyTried
  <2>3. QED
    BY <1>5, <2>1, <2>2 DEF TestArchive, SteadyTried
<1>6. CASE ImportArchive
  <2>1. \A s \in steady : Content(s)' = Content(s) /\ Key(s)' = Key(s)
    BY <1>6 DEF ImportArchive, Content, Key
  <2>2. ToTry \ {tar} \subseteq ToTry' /\ pc' = "loop" /\ steady' = steady
    BY <1>6 DEF ImportArchive, ToTry
  <2>3. CASE Imported
    BY <2>1, <2>2, <2>3 DEF Imported, SteadyTried
  <2>4. CASE ImportFails
    <3>1. failures' > 0
      BY <2>4, TarsFinite DEF ImportFails, Bounded, TypeOK
    <3>2. QED
      BY <2>1, <2>2, <3>1 DEF SteadyTried
  <2>5. QED
    BY <1>6, <2>3, <2>4 DEF ImportArchive
<1>7. CASE EndLoop
  BY <1>7 DEF EndLoop, SteadyTried, Content, Key, ToTry
<1>8. CASE Settle \/ Killed
  BY <1>8 DEF Settle, Killed, SteadyTried
<1>9. CASE UNCHANGED vars
  BY <1>9 DEF vars, SteadyTried, Content, Key, ToTry
<1>10. QED
  BY <1>1, <1>2, <1>3, <1>4, <1>5, <1>6, <1>7, <1>8, <1>9 DEF Next, Script

\* SuccessMeansLoaded: a run that exits with 0 has given containerd every
\* archive that was there when it began and stayed as it was, whatever the
\* store published, swapped or collected under the glob and the loop.
THEOREM SuccessLoaded == Spec => []SuccessMeansLoaded
<1>1. Init => SteadyTried
  BY DEF Init, SteadyTried
<1>2. Bounded /\ SteadyTried => SuccessMeansLoaded
  BY DEF Bounded, TypeOK, TriedOnce, SteadyTried, ToTry, SuccessMeansLoaded
<1>3. QED
  BY <1>1, <1>2, BoundedInvariant, SteadyNext, PTL DEF Spec
=============================================================================
