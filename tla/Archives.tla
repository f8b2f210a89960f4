------------------------------ MODULE Archives ------------------------------
(***************************************************************************)
(* What the cache path promises to whoever reads the archives in it, the   *)
(* preload service first: the directory of a resource gets its archives    *)
(* all at once, whole, of one image, and only where it had none; from then *)
(* on it can only lose them, one by one, until it has none again.  No      *)
(* reader ever finds an archive half written, or two images side by side,  *)
(* but for what others than the store do to it.                            *)
(*                                                                         *)
(* CacheStore implements this: sentinels, locks, temporary directories and *)
(* the processes are what it takes.                                        *)
(***************************************************************************)
CONSTANTS
    Names,      \* resource names
    Images,     \* boot cache images
    FileNames,  \* base names of the archives an image carries
    None, Altered

VARIABLE archive  \* [Names -> [FileNames -> Images, None or Altered]]

NoArchive == [f \in FileNames |-> None]

\* An extraction is renamed into place.
Publish(n) ==
    /\ archive[n] = NoArchive
    /\ \E i \in Images :
          archive' = [archive EXCEPT ![n] = [f \in FileNames |-> i]]

\* An archive goes: a removal is under way.
Lose(n, f) ==
    /\ archive[n][f] # None
    /\ archive' = [archive EXCEPT ![n][f] = None]

\* An operator, or a bad disk, alters an archive.
Tamper(n, f) ==
    /\ archive[n][f] # None
    /\ archive' = [archive EXCEPT ![n][f] = Altered]

ArchivesInit ==
    archive \in [Names -> [FileNames -> Images \cup {None, Altered}]]

ArchivesNext ==
    \E n \in Names : \/ Publish(n)
                     \/ \E f \in FileNames : Lose(n, f) \/ Tamper(n, f)

ArchivesSpec == ArchivesInit /\ [][ArchivesNext]_archive

=============================================================================
