---------------------------- MODULE ContentSums ----------------------------
(***************************************************************************)
(* The content check of the agent's Store: State compares the files of one *)
(* resource directory with the digests in its sentinel, and sums remembers *)
(* the digest of a file under its path, with the key the file had, so that *)
(* a pass reads again only what changed (agent/internal/cache/content.go,  *)
(* key_linux.go, and State in store.go).                                   *)
(*                                                                         *)
(* The agent runs one pass at a time, so checks and extractions do not     *)
(* overlap; the files change under them at any moment.  All contents have  *)
(* the size the sentinel records: another size is told by the stat alone.  *)
(* Time is counted in units of the model.  The filesystem stamps a change  *)
(* with its own clock, fsnow, which trails the agent's by a tick at most.  *)
(***************************************************************************)
EXTENDS Integers

CONSTANTS
    Files,        \* names the sentinel lists
    Contents,     \* same-size contents a file may have
    Good,         \* the one the sentinel records
    Torn,         \* what a read gives of a file written meanwhile
    Granularity,  \* the tick of the filesystem's timestamps
    Racy,         \* racyWindow
    MaxNow,       \* bound on the time
    MaxInode,     \* bound on the number of files made
    MaxChanges    \* bound on the number of changes from outside

ASSUME ContentAssumption == Good \in Contents /\ Torn \notin Contents

\* DESIGN.md, "Content check": the window is longer than a tick.
ASSUME ClockAssumption ==
    /\ Granularity \in Nat
    /\ Racy \in Nat
    /\ Granularity <= Racy
    /\ MaxNow \in Nat
    /\ MaxInode \in Nat
    /\ MaxChanges \in Nat

VARIABLES
    now,      \* the agent's clock
    fsnow,    \* the filesystem's clock
    file,     \* [Files -> File]: what is on disk
    inode,    \* inode numbers handed out so far
    entry,    \* [Files -> Entry]: sums.entries
    pc,       \* where the pass is
    todo,     \* files the loop at hand has yet to visit
    cur,      \* the file being hashed
    info,     \* [Files -> Key]: mismatch's infos
    at,       \* when the hash began
    seen,     \* the content when the file was opened
    dirty,    \* the file changed since it was opened
    wasGood,  \* [Files -> BOOLEAN]: held Good at some moment of the check
    changes   \* number of changes, restarts and cancellations so far

clocks == <<now, fsnow>>
check == <<todo, cur, info, at, seen, dirty>>
vars == <<now, fsnow, file, inode, entry, pc, todo, cur, info, at, seen, dirty,
          wasGood, changes>>

\* sumKey, without the device and the size, which do not change here.
Key == [ino : Nat, mtime : Nat, ctime : Nat]

File == [here : BOOLEAN, key : Key, content : Contents]

\* sumEntry; kept says whether there is one.
Entry == [kept : BOOLEAN, key : Key, digest : Contents \cup {Torn}, at : Nat,
          written : BOOLEAN]

NoKey == [ino |-> 0, mtime |-> 0, ctime |-> 0]

NoEntry == [kept |-> FALSE, key |-> NoKey, digest |-> Good, at |-> 0,
            written |-> FALSE]

PCs == {"idle", "stat", "digest", "read", "complete", "incomplete", "remember"}

\* Mutant: a digest the store computed is trusted whatever became of the file.
TrustedWritten(e, k) ==
    /\ e.kept
    /\ e.written \/ (e.key = k /\ k.ctime < e.at - Racy)

\* trusted: the key did not change, and either the store wrote the file or it
\* had not changed for racy when it was hashed.
Trusted(e, k) ==
    /\ e.kept
    /\ e.key = k
    /\ e.written \/ k.ctime < e.at - Racy

-----------------------------------------------------------------------------
(***************************************************************************)
(* What goes on around the agent.                                          *)
(***************************************************************************)

\* Time passes; the filesystem's clock follows by ticks.
Tick ==
    /\ now < MaxNow
    /\ now' = now + 1
    /\ fsnow' \in fsnow .. now'
    /\ now' - fsnow' <= Granularity
    /\ UNCHANGED <<file, inode, entry, pc, check, wasGood, changes>>

\* Bookkeeping of a change of f from outside.
Changed(f) ==
    /\ changes < MaxChanges
    /\ changes' = changes + 1
    /\ dirty' = (dirty \/ (pc = "read" /\ cur = f))
    /\ wasGood' = [wasGood EXCEPT ![f] =
                      @ \/ (pc # "idle" /\ file'[f].here /\ file'[f].content = Good)]
    /\ UNCHANGED <<clocks, entry, pc, todo, cur, info, at, seen>>

\* f is written in place.  ctime is the filesystem's, mtime may be put back.
Rewrite(f, c, restore) ==
    /\ file[f].here
    /\ file' = [file EXCEPT ![f] =
                   [here |-> TRUE, content |-> c,
                    key |-> [ino   |-> file[f].key.ino,
                             mtime |-> IF restore THEN file[f].key.mtime ELSE fsnow,
                             ctime |-> fsnow]]]
    /\ Changed(f)
    /\ UNCHANGED inode

\* Another file takes the name, with the timestamp it came with: a directory
\* swapped in carries files written earlier.
Replace(f, c, t) ==
    /\ t <= fsnow
    /\ inode < MaxInode
    /\ inode' = inode + 1
    /\ file' = [file EXCEPT ![f] =
                   [here |-> TRUE, content |-> c,
                    key |-> [ino |-> inode', mtime |-> t, ctime |-> t]]]
    /\ Changed(f)

\* f is deleted.
Remove(f) ==
    /\ file[f].here
    /\ file' = [file EXCEPT ![f].here = FALSE]
    /\ Changed(f)
    /\ UNCHANGED inode

-----------------------------------------------------------------------------
(***************************************************************************)
(* State: mismatch and digest.                                             *)
(***************************************************************************)

\* mismatch: the loop over names and sizes begins.
CheckBegin ==
    /\ pc = "idle"
    /\ pc' = "stat"
    /\ todo' = Files
    /\ wasGood' = [f \in Files |-> file[f].here /\ file[f].content = Good]
    /\ UNCHANGED <<clocks, file, inode, entry, cur, info, at, seen, dirty, changes>>

\* mismatch returns, or goes on with the files of rest: its infos go with it.
Verdict(label) ==
    /\ pc' = label
    /\ todo' = {}
    /\ info' = [f \in Files |-> NoKey]

GoOn(label, rest) ==
    /\ pc' = label
    /\ todo' = rest
    /\ UNCHANGED info

\* digest returns.
HashOver ==
    /\ at' = 0
    /\ seen' = Good
    /\ dirty' = FALSE

\* mismatch: stat one file; a missing one ends the check.
StatFile(f) ==
    /\ pc = "stat"
    /\ f \in todo
    /\ \/ /\ ~file[f].here
          /\ Verdict("incomplete")
       \/ /\ file[f].here
          /\ info' = [info EXCEPT ![f] = file[f].key]
          /\ IF todo = {f}
             THEN pc' = "digest" /\ todo' = Files
             ELSE pc' = "stat" /\ todo' = todo \ {f}
    /\ UNCHANGED <<clocks, file, inode, entry, cur, at, seen, dirty, wasGood, changes>>

\* mismatch: the digest of f is d; another than the recorded one ends the
\* check, and so does the last file.
Compare(f, d) ==
    \/ d # Good /\ Verdict("incomplete")
    \/ d = Good /\ todo = {f} /\ Verdict("complete")
    \/ d = Good /\ todo # {f} /\ GoOn("digest", todo \ {f})

\* Mutant: an entry answers whatever the key of the file is now.
LookupByPath(f) ==
    /\ pc = "digest"
    /\ f \in todo
    /\ entry[f].kept
    /\ Compare(f, entry[f].digest)
    /\ UNCHANGED <<clocks, file, inode, entry, cur, at, seen, dirty, wasGood, changes>>

\* digest: a trusted entry answers without a read.
Lookup(f) ==
    /\ pc = "digest"
    /\ f \in todo
    /\ Trusted(entry[f], info[f])
    /\ Compare(f, entry[f].digest)
    /\ UNCHANGED <<clocks, file, inode, entry, cur, at, seen, dirty, wasGood, changes>>

\* digest: take the time, open the file.  One that is gone ends the check.
HashBegin(f) ==
    /\ pc = "digest"
    /\ f \in todo
    /\ ~Trusted(entry[f], info[f])
    /\ \/ /\ ~file[f].here
          /\ Verdict("incomplete")
          /\ UNCHANGED <<cur, at, seen, dirty>>
       \/ /\ file[f].here
          /\ GoOn("read", todo)
          /\ cur' = f
          /\ at' = now
          /\ seen' = file[f].content
          /\ dirty' = FALSE
    /\ UNCHANGED <<clocks, file, inode, entry, wasGood, changes>>

\* What the read may give: the content, or one written meanwhile, or a mix.
ReadResults == IF dirty THEN {seen, Torn, file[cur].content} ELSE {seen}

\* Mutant: the time is taken once the file is read.
HashEndLate(d) ==
    /\ pc = "read"
    /\ d \in ReadResults
    /\ entry' = [entry EXCEPT ![cur] =
                    [kept |-> TRUE, key |-> info[cur], digest |-> d, at |-> now,
                     written |-> FALSE]]
    /\ Compare(cur, d)
    /\ HashOver
    /\ UNCHANGED <<clocks, file, inode, cur, wasGood, changes>>

\* digest: remember what the read gave, with the key of the stat.
HashEnd(d) ==
    /\ pc = "read"
    /\ d \in ReadResults
    /\ entry' = [entry EXCEPT ![cur] =
                    [kept |-> TRUE, key |-> info[cur], digest |-> d, at |-> at,
                     written |-> FALSE]]
    /\ Compare(cur, d)
    /\ HashOver
    /\ UNCHANGED <<clocks, file, inode, cur, wasGood, changes>>

\* Mutant: the digest of a failed read is remembered.
HashFailsRemembered ==
    /\ pc = "read"
    /\ entry' = [entry EXCEPT ![cur] =
                    [kept |-> TRUE, key |-> info[cur], digest |-> "", at |-> at,
                     written |-> FALSE]]
    /\ Verdict("incomplete")
    /\ HashOver
    /\ UNCHANGED <<clocks, file, inode, cur, wasGood, changes>>

\* digest: the read fails, which does not match either.
HashFails ==
    /\ pc = "read"
    /\ Verdict("incomplete")
    /\ HashOver
    /\ UNCHANGED <<clocks, file, inode, entry, cur, wasGood, changes>>

\* State: a ctx cancelled meanwhile is an error, and no verdict.
Cancel ==
    /\ pc \in {"stat", "digest", "read"}
    /\ changes < MaxChanges
    /\ changes' = changes + 1
    /\ Verdict("idle")
    /\ HashOver
    /\ UNCHANGED <<clocks, file, inode, entry, cur, wasGood>>

\* The pass has its answer, and leaves a complete resource alone.
Keep ==
    /\ pc = "complete"
    /\ pc' = "idle"
    /\ UNCHANGED <<clocks, file, inode, entry, check, wasGood, changes>>

-----------------------------------------------------------------------------
(***************************************************************************)
(* Extract and GC, as far as sums takes part in them.                      *)
(***************************************************************************)

\* Extract: forget, then rename.  The files are those written at t.
Publish(t) ==
    /\ pc = "incomplete"
    /\ t <= fsnow
    /\ inode < MaxInode
    /\ inode' = inode + 1
    /\ file' = [f \in Files |->
                   [here |-> TRUE, content |-> Good,
                    key |-> [ino |-> inode', mtime |-> t, ctime |-> t]]]
    /\ entry' = [f \in Files |-> NoEntry]
    /\ pc' = "remember"
    /\ todo' = Files
    /\ UNCHANGED <<clocks, cur, info, at, seen, dirty, wasGood, changes>>

\* Extract fails: before the swap, in the middle of the removal, or once the
\* directory is cleared and forgotten.
ExtractFails ==
    /\ pc = "incomplete"
    /\ pc' = "idle"
    /\ \E gone \in SUBSET Files :
          /\ file' = [f \in Files |->
                         IF f \in gone THEN [file[f] EXCEPT !.here = FALSE]
                                       ELSE file[f]]
          /\ \/ UNCHANGED entry
             \/ gone = Files /\ entry' = [f \in Files |-> NoEntry]
    /\ UNCHANGED <<clocks, inode, check, wasGood, changes>>

\* remember: stat the file where it now is, and keep the digest written.  One
\* that cannot be found is left out.
Remember(f) ==
    /\ pc = "remember"
    /\ f \in todo
    /\ todo' = todo \ {f}
    /\ pc' = IF todo = {f} THEN "idle" ELSE "remember"
    /\ entry' = [entry EXCEPT ![f] =
                    IF file[f].here
                    THEN [kept |-> TRUE, key |-> file[f].key, digest |-> Good,
                          at |-> 0, written |-> TRUE]
                    ELSE @]
    /\ UNCHANGED <<clocks, file, inode, cur, info, at, seen, dirty, wasGood, changes>>

\* GC: forget, then remove the directory.
Collect ==
    /\ pc = "idle"
    /\ entry' = [f \in Files |-> NoEntry]
    /\ file' = [f \in Files |-> [file[f] EXCEPT !.here = FALSE]]
    /\ UNCHANGED <<clocks, inode, pc, check, wasGood, changes>>

\* The agent restarts: its memory is gone.
Restart ==
    /\ changes < MaxChanges
    /\ changes' = changes + 1
    /\ entry' = [f \in Files |-> NoEntry]
    /\ Verdict("idle")
    /\ HashOver
    /\ UNCHANGED <<clocks, file, inode, cur, wasGood>>

-----------------------------------------------------------------------------

Init ==
    /\ now = 0 /\ fsnow = 0
    /\ inode = 0
    /\ file \in [Files -> {[here |-> h, key |-> NoKey, content |-> c] :
                              h \in BOOLEAN, c \in Contents}]
    /\ entry = [f \in Files |-> NoEntry]
    /\ pc = "idle"
    /\ todo = {}
    /\ cur \in Files
    /\ info = [f \in Files |-> NoKey]
    /\ at = 0
    /\ seen = Good
    /\ dirty = FALSE
    /\ wasGood = [f \in Files |-> FALSE]
    /\ changes = 0

\* The steps of a pass, to its verdict and the repair that follows.
Pass ==
    \/ CheckBegin
    \/ \E f \in Files : StatFile(f) \/ Lookup(f) \/ HashBegin(f) \/ Remember(f)
    \/ \E d \in Contents \cup {Torn} : HashEnd(d)
    \/ HashFails
    \/ Keep
    \/ \E t \in 0 .. MaxNow : Publish(t)
    \/ ExtractFails

Outside ==
    \/ Tick
    \/ \E f \in Files, c \in Contents, restore \in BOOLEAN : Rewrite(f, c, restore)
    \/ \E f \in Files, c \in Contents, t \in 0 .. MaxNow : Replace(f, c, t)
    \/ \E f \in Files : Remove(f)

Next == Pass \/ Outside \/ Cancel \/ Collect \/ Restart

Spec == Init /\ [][Next]_vars

\* A pass that has begun goes on, and another follows it: the agent resyncs.
FairSpec == Spec /\ WF_vars(Pass)

-----------------------------------------------------------------------------
(***************************************************************************)
(* Properties.                                                             *)
(***************************************************************************)

\* Type invariant of the content check.
TypeOK ==
    /\ now \in 0 .. MaxNow
    /\ fsnow \in 0 .. now
    /\ file \in [Files -> File]
    /\ inode \in 0 .. MaxInode
    /\ entry \in [Files -> Entry]
    /\ pc \in PCs
    /\ todo \in SUBSET Files
    /\ cur \in Files
    /\ info \in [Files -> Key]
    /\ at \in 0 .. now
    /\ seen \in Contents
    /\ dirty \in BOOLEAN
    /\ wasGood \in [Files -> BOOLEAN]
    /\ changes \in 0 .. MaxChanges

\* The digest remembered from a read, once trusted for the file on disk, is
\* the file's: no rewrite before, during or after the read, with the mtime put
\* back or in the tick of the change before, leaves a stale one trusted.
TrustedIsCurrent ==
    \A f \in Files :
        /\ file[f].here
        /\ ~entry[f].written
        /\ Trusted(entry[f], file[f].key)
        => entry[f].digest = file[f].content

\* State reports complete only if each file held the recorded content at some
\* moment of that check, though it goes by a stat taken earlier.  Digests an
\* extraction computed are taken on its word.
CompleteWasTrue ==
    pc = "complete" => \A f \in Files : wasGood[f] \/ entry[f].written

\* A file that was altered does not stay in the cache unnoticed, whether the
\* digest remembered for it is the extraction's or a read's.  What the code
\* cannot tell is left out: a change that the extraction's digest was recorded
\* over, between the rename and the stat of remember, or that left the key as
\* that stat found it, in the same tick.
TamperSeen ==
    \A f \in Files :
        (/\ file[f].here /\ file[f].content # Good
         /\ ~(pc = "remember" /\ f \in todo)
         /\ ~(entry[f].written /\ entry[f].key = file[f].key))
        ~> (pc = "incomplete" \/ ~file[f].here \/ file[f].content = Good)

-----------------------------------------------------------------------------
(***************************************************************************)
(* Why TrustedIsCurrent and CompleteWasTrue hold: the invariants that      *)
(* every step keeps.                                                       *)
(***************************************************************************)

Checking == {"stat", "digest", "read"}

\* The clocks, and what they stamped, are in step.
Stamps ==
    /\ now - fsnow <= Granularity
    /\ \A f \in Files :
          /\ file[f].key.ctime <= fsnow
          /\ file[f].key.ino <= inode
          /\ entry[f].at <= now
          /\ entry[f].key.ino <= inode
          /\ info[f].ino <= inode

\* A key seen, and old enough at t for a change since t to show in it, is
\* still the file's.
Settled(f, k, t) == file[f].here /\ file[f].key = k /\ k.ctime < t - Racy

EntryHolds(f) ==
    entry[f].kept /\ ~entry[f].written /\ Settled(f, entry[f].key, entry[f].at)
        => entry[f].digest = file[f].content

ReadHolds ==
    pc = "read" /\ Settled(cur, info[cur], at) => ~dirty /\ seen = file[cur].content

Memory == Stamps /\ ReadHolds /\ \A f \in Files : EntryHolds(f)

\* What the check may conclude from f later was true of f in the check.
Grounded(f) ==
    /\ pc \in Checking /\ file[f].here /\ file[f].content = Good => wasGood[f]
    /\ (pc = "stat" /\ f \notin todo) \/ (pc \in {"digest", "read"} /\ f \in todo) =>
          (Trusted(entry[f], info[f]) /\ entry[f].digest = Good
              => wasGood[f] \/ entry[f].written)
    /\ pc \in {"digest", "read", "complete"} /\ f \notin todo =>
          wasGood[f] \/ entry[f].written
    /\ pc = "read" /\ f = cur =>
          (seen = Good \/ file[f].content = Good => wasGood[f])

Verdicts ==
    /\ pc = "read" => cur \in todo
    /\ pc = "complete" => todo = {}
    /\ \A f \in Files : Grounded(f)

=============================================================================
