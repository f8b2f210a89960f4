---------------------------- MODULE MCCacheStore ----------------------------
(***************************************************************************)
(* Instances of CacheStore for TLC.                                        *)
(***************************************************************************)
EXTENDS CacheStore, TLC

CONSTANTS f1, f2, i1, i2

\* A directory the store wrote in full.
Whole(owner, i) ==
    [mark |-> "parsed", owner |-> owner, image |-> i, lists |-> FileNames,
     files |-> [f \in FileNames |-> i]]

\* One that lost a file since.
Short(owner, i, f) == [Whole(owner, i) EXCEPT !.files[f] = None]

\* One the store never wrote: files and no sentinel.
Stranger ==
    [Blank EXCEPT !.files = [f \in FileNames |-> Altered]]

\* One whose sentinel does not parse.
Corrupt == Signed(Whole("agent", i1), "corrupt", "none", None, {})

MCNothing == {Blank}

MCRacing == {Whole("agent", i1), Short("agent", i1, f1)}

\* One a command seeded, whose sentinel cannot be read.
MCUnread == {[Whole("command", i1) EXCEPT !.mark = "unreadable"]}

MCMixed ==
    {Stranger, Corrupt, Whole("command", i1), Short("agent", i1, f1)}

\* Every set of names may be wanted, or every name always is.
MCAnyKeep == SUBSET Names

MCKeepAll == {Names}

\* A fault or a tampering, not both.
OneMishap == faults + damage <= 1

Symmetry == Permutations(Dirs) \cup Permutations(Commands)

=============================================================================
