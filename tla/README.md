# A TLA+ model of image-cache

image-cache keeps, on every Kubernetes node, a directory of container image
archives (the *cache path*) that containerd can be fed from when no registry
can be reached. An agent fills the path with what `ImageCache` resources ask
for, a command (`imagecachectl`) fills it at provisioning, and a service loads
the archives into containerd at boot.

This directory holds TLA+ modules for the parts of the program that keep state,
the TLC configurations that check them, and TLAPS proofs of every safety
property the runs check. `PROJECT.json` lists components, runs, mutants, the definition to
source map, findings, hazards and theorems.

To check a run: `tlc -config CacheStore_faults.cfg MCCacheStore`.
To check the proofs: `tlapm CacheStoreProofs.tla`.

## 1. The system

| component | source (under `src/agent`) | state | operations |
|---|---|---|---|
| cache store | `internal/cache/store.go` | resource directories `<path>/<name>`, each with a sentinel (owner, image, list of files); hidden temporary directories `.<name>.tmp-*`, flocked by their writer | `State`, `ReadRecord`, `Adopt`, `Extract`, `SweepTemporaries`, `GC` |
| content check | `internal/cache/content.go`, `key_linux.go` | `sums.entries`: path → stat key, digest, when, written by the store | `mismatch`, `digest`, `remember`, `forget` |
| fill | `internal/fill/fill.go` | none | `Replaceable`, pull, `Extract` |
| imagecachectl | `cmd/imagecachectl/main.go`, `internal/cli/cli.go` | the context, the signal caught, the exit code | `Run`: validate, state, sweep, fill; the signal handler |
| node reconciler | `internal/controller/node_reconciler.go` | per pass: node copy, desired resources, labels wanted, seeded and unread directories, errors | `Reconcile`, `adopt`, `sync`, `patchLabels`, triggers |
| status labels | `internal/controller/labels.go` | the node's labels under one prefix | `matches`, `applyStatusLabels` |
| filesystem watcher | `internal/controller/fswatch.go` | paths watched, a channel with a buffer of one | `Start`, `SetPaths` |
| manager wiring | `cmd/manager/main.go` | controller-runtime workqueue with one key | start, resync, backoff |
| puller and layer stream | `internal/puller` | how the registry is reached; a pipe and the goroutine that writes it | `NewRemote`, `Pull`, `Resolve`, `entries` |
| preload service | `../rpm/sources/containerd-image-preload.sh` | the archives listed, the failures counted | list, test, import each archive; the timer |

How they interact. One agent process runs one pass at a time; any number of
commands run beside it. Agent and commands share the filesystem and nothing
else: the lock on a temporary directory, the atomicity of a rename and the
sentinel written last are all the coordination there is. The agent also shares
the Node object with every other writer of its labels, through an API server it
reads with a lag. Files change under everyone. A change on disk comes back to
the agent as an inotify event, and so do the agent's own changes. The preload
service reads the same directories with no lock and no sentinel.

What is hard here: check-then-act by path across processes (sentinel read, then
`RemoveAll`; `replaceable`, then swap; record read, then `Adopt`); kills between
any two system calls; a directory that cannot be created already locked; digests
remembered by stat keys on a clock with ticks; labels patched from stale copies;
watches that die with the inode they are on; events dropped from a full buffer;
a stream whose digest is known when its files are on disk, whose errors may wrap
`io.EOF`, and whose reader may leave first; a signal at any moment; a reader that
takes no lock.
`PROJECT.json` lists each at its line, with the properties that cover it.

## 2. Modules

    CacheStore      <- MCCacheStore                        (implements Archives)
                    <- CacheStoreProofs <- CachePathProofs, CacheRaceProofs
    ContentSums     <- ContentSumsProofs
    NodeReconciler  <- MCNodeReconciler, NodeReconcilerProofs
    FSWatcher       <- FSWatcherProofs
    ImageStream     <- Import <- MCImport, ImportProofs
    Archives        <- Preload <- PreloadProofs

`CacheStore` is the most detailed: one step per system call. The others take its
calls as single steps and look at what surrounds them. `ContentSums` is the
inside of the agent's `State`. `NodeReconciler` is a whole pass over resources,
labels and directories. `FSWatcher` is how a change on disk becomes a pass.
`ImageStream` is the inside of `Extract`'s loop, `Import` a whole command around
it. `Archives` is what `CacheStore` promises to a reader, `Preload` the reader.

### CacheStore

A directory is an inode (`Dirs`). `at[n]` is what sits under a resource name: an
inode, nothing, a flat file or a link. `temp[d]` is the name whose temporary
directory `d` is. `dir[d]` is the content: what looking at the sentinel gives
(`mark`), its owner, image and list, and which image each file came from.
`lock[d]` is the flock. Each process has a program counter through

    state -> sweep -> scan (rtlock, rtremove) -> fill -> mkdir -> open -> flock
      -> stat -> write -> sentinel -> swap -> clear -> unlink -> rmdir -> rename -> done

with `abort` and `cleanup` for `Extract`'s deferred calls, and `adopt`, `own` for
`Adopt`. GC uses `scan`, and `clear` to `rmdir` for `os.RemoveAll`, which opens
a directory, unlinks what it listed one by one and removes the path by name: the
three may concern different directories, which is the point.

The callers are the most general ones: the agent syncs, adopts and collects in
any order, a command imports any name at any time. So whatever holds here holds
for the passes `NodeReconciler` models. `store.go` says `Extract` must not be
called concurrently for the same name; nothing prevents a command and the agent,
or two commands, from doing so, and the model lets them.

Abstractions:
- every image carries the same file names, so a part or a mix shows as such;
- a refused tar entry, a failed read and a cancelled context are one step,
  `StreamFails`; the stream may end only with all of its files (`StreamEnds`),
  which is what `PublishedIsTheImage` of `ImageStream` shows;
- the removal of a temporary directory, done under its lock, is one step;
- `Adopt`'s write of the new sentinel and its rename are one step: a kill between
  them leaves a temporary file in the directory, which is in no list;
- a `Link` leads to no resource;
- a sentinel that is there but cannot be read is one of two things, for the code
  asks in two ways. "unreadable" can be stat'ed (a bad sector, a directory of that
  name): `State`, `Adopt` and GC, which read it, fail, and `replaceable`, which
  stats it, lets the swap go on. "sealed" cannot be stat'ed either (a resource
  directory without search permission), and everything fails (`Unreadable` is
  both, `Sealed` the second);
- inodes are reused once nothing refers to them;
- what is there before anything runs (`Found`) is whole, short of a file, without
  a sentinel or with one that cannot be used. A sentinel that parses lists every
  file, and the files left are of one image, since the store put them there; files
  of others are in directories with no sentinel (`FoundAssumption`).

### ContentSums

One resource directory, whose files change at any moment: written in place with
the mtime put back or not, replaced, deleted. The filesystem stamps a change with
its own clock, which trails the agent's by at most `Granularity`. A check is a
loop of stats, then a lookup or a read per file; a read of a file changed since
it was opened gives the old content, the new or a mix. `Publish` and `Remember`
are the part of `Extract` that touches the memory. All contents have the recorded
size, since another size is told by the stat; inode numbers are not reused; a
change that touches no metadata (bit rot) is excluded, as `agent/DESIGN.md` does.
`TamperSeen` holds of files with the extraction's digest and with a read's. It
leaves out the changes the code cannot tell: one made between the rename and the
stat of `remember`, which records the digest over it, and one in the tick of that
stat, which leaves the key as it was.

### NodeReconciler

`api` and `server` are the API server's resources and node; `apiFeed` and
`nodeFeed` the watch events the informers have yet to apply; `apiCache` and
`nodeCache` what the pass reads. `disk[n]` is a directory as `State` and
`ReadRecord` report it. The pass goes `look`, `record`, `patch`, `work`, `adopt`,
`gc`, `patchAgain`, `end`, every call with its failure. A merge patch carries
only the labels that differ from the node as it was read; a failed patch may have
been applied. A source resolves to one image, always; what a registry does not
have is in `Broken`. The filesystem watcher is reduced to `watched` and `stir`.

### FSWatcher

`ino[n]` is the inode at a name and `watch[n]` the inode watched under it, so a
swap silently ends a watch. `inotify`, `events`, `queued` and `waiting` are the
four places a trigger can be: kernel, channel buffer, workqueue, delayed queue.
`resync` is the flag, either way. `open` is whether the watcher's channels are:
one that closes on its own makes `Start` return an error, which ends the manager
and so the process, and its restart is a first pass.
The pass is reduced to its two loops, the first checking every resource and the
second extracting what was found short (`due`), and to `SetPaths`, which lists the
path, drops what is gone and adds path by path.

### ImageStream

An image is a sequence of layers, a layer a sequence of entries, each of a kind
(file, directory, link, file with no file name, deletion) and under a base name
(`Bases`), which may be the sentinel's. `gpc` is where the
goroutine of `entries` is, `xpc` where `Extract` is. `io.Pipe` holds nothing, so
a write and the read that takes it are one step of both. A read of the source may
fail at any place, with an error that wraps `io.EOF`, or `context.Canceled` once
the context is; one from a registry may also never return. A layer from a
registry may be altered: its files are written as they come, and only `Drain`
tells. A layer of an archive has no digest the code checks, so `checked` is false
there. The directory is reduced to `slot`, what is under the resource name; the
extraction is alone on it, since `CacheStore` has the others. The goroutine has
started by the time `Extract` creates its temporary directory, which may fail too.

### Import

One run of `imagecachectl import`. `args` is the command line by what the code
asks of it (is the name valid, is there a CA file and is it usable, does the
source declare a platform). `mpc` is `main`, `hpc` the signal handler, with the
two channels of one element between them: the signal is passed on before the
context is cancelled, and once the handler has called `Stop` a second signal
kills. After the exit the goroutine goes on, as it does in the agent, which calls
the same `Fill` in a loop.

### Archives

The abstract specification: for each name, which image each archive came from.
A directory is filled all at once, with one image, where there was none; then it
can only lose archives, or have one altered by somebody else. `CacheStore`
implements it with the mapping `Path`, which looks at the directory under each
name and forgets sentinels, locks, temporaries and processes
(`ImplementsArchives`).

### Preload

The script over `Archives`: the glob lists the root, then directory by directory,
while the store goes on; each archive listed is tested, then imported; the exit
status is whether one failed. Flat archives at the root are copied in a while,
containerd fails imports and loses images, a run may be killed. `steady` is
history: the archives there when the run began and untouched since.

## 3. Runs

| run | question | bounds |
|---|---|---|
| `writers` | do the agent and two commands racing for a name leave each other's temporaries alone, and the name filled? | 3 processes, 4 inodes, 2 files |
| `faults` | is what is reported complete whole, with a kill or a failed call anywhere? are strangers' directories spared, and, by GC, those whose sentinel cannot be read? is `Archives` implemented? | 2 processes, 2 images, 2 files, 1 fault or 1 tampering |
| `store_live` | does every call return, and every leftover go? | 2 processes, 1 fault |
| `sums` | is a trusted digest the file's, is a verdict true, and is tampering found? | 5 time units, 2 changes |
| `reconcile` | are labels honest, others' labels safe, and do disk and labels converge? | 2 changes, 1 fault, lag 2 |
| `reconcile_pair` | does one resource converge beside another that cannot? | 2 resources, 1 change |
| `watch` | is every change heard of, does the agent rest without a resync, and does a resync, or a watcher that closes, repair what no event told? | 3 changes, 2 faults, both values of the flag |
| `import` | is what is published the image, does the exit code tell the truth, is the registry reached as asked, do run and goroutine end? | images of at most 2 layers, 2 entries each; 2 signals |
| `preload` | has a run that succeeds loaded what stayed, and is what stays loaded again and again? | 2 names, 1 archive each and a flat one, 2 images, 1 fault |

Bounds. Two commands and the agent are the fewest processes in which one writer
can disturb another's swap while a third collects. Four inodes give each of three
writers its temporary and leave one for the directory in place; `Free` blocks a
`mkdir` when none is left, which only delays it. Two files are enough for a part
and, with two images, for a mix. One fault is one kill between any two system
calls; what a second one would add is a second leftover. `TemporaryTries` is 3 as
in the code in `writers`, 2 in `store_live`, 1 in `faults`: the last try is the
case that matters. `faults` has a fault or a tampering (a sentinel made
unreadable or out of a stat's reach, a file altered), not both (`OneMishap`); the proofs cover any number
of both, and every kind of tampering.
The images of `import` are two the store takes and one for each refusal; two
layers are the fewest with a boundary to fail at. Its command lines are a path and
a reference, each platform, each TLS setting, two that exclude each other, and each
refusal of `validate`; two signals are the one that is caught and the one that is
dropped or kills. Two names in `preload` let one directory be swapped while the
glob is in the other; the one fault is a failed import or a kill.
`watch` has one name: its two loops run once each, and the theorem on
`ChangesAreSeen` covers any number.
`Racy` is longer than `Granularity` as in the code (2 s and at most 1 s), with
`MaxNow` past the window so that entries come to be trusted. The lag of 2 lets a
node be patched twice from one stale copy. Symmetry is used for interchangeable
inodes, commands and images, in safety runs only.

Every property of a passing run has a mutant in `PROJECT.json`: a definition with
a plausible bug (a check dropped, an attempt too many, a key without ctime, an
update where a patch is due), under which TLC finds the property violated.

### What the documents say and the code does not keep

Three runs check a sentence of the documents or of a comment and end in a
counterexample.

- `adopt_checked`, in a window of one pass: `Adopt` signs, by path, whatever directory is there by then,
  which may be one whose image nobody compared. The agent owns it from then on
  and does not compare it again.
- `unread`: `agent/DESIGN.md:119` keeps a directory whose sentinel cannot be read,
  since it may be seeded, and the comment of `replaceable` (`store.go:400`) says so
  too. GC does keep it. But the pass that gets an error from `State` syncs the
  resource all the same (`node_reconciler.go:83`, `:124`), and `replaceable` only
  stats the sentinel (`store.go:415`): one that can be stat'ed is replaced, with
  the content a command seeded. `UnreadableStays`, of run `faults`, is what the
  code does keep.
- `backoff`: a temporary directory is a create and a delete at the watched root,
  so a failed extraction asks for the next pass at once.

Two more sentences hold outside a window, and no run is about them.
`agent/DESIGN.md:113` says a directory of another writer stays: GC reads a
sentinel and then removes by path (`store.go:625`), so it takes a seeded directory
that was swapped in between. `agent/DESIGN.md:70` says the agent removes the label of
a resource that stops selecting the node: with `--resync-period=0` no event of the
node starts a pass (`node_reconciler.go:229`), which is why `Converges` is checked
with the resync.

One more behaviour contradicts no sentence: a command killed while it clears the
old directory may leave files with no sentinel. No later import replaces those, for
it cannot tell them from files of others; the agent does.

## 4. Fairness

- `CacheStore`: weak fairness of each process's own steps: a call under way is
  running code and waits for nothing but a flock, which weak fairness covers as
  the holder lets go. Strong fairness of the agent's GC: each pass ends with one
  and passes recur, though other calls come between them. None for imports, kills
  or tampering.
- `ContentSums`: weak fairness of `Pass`, since the resync starts another check.
- `NodeReconciler`, `FSWatcher`: weak fairness of the pass, of informer delivery,
  of the watcher's goroutine and of the delayed queue, that is of the loops
  controller-runtime and the kernel run. Without a resync nothing is due after a
  pass that succeeded: the runs with that value of the flag (`watch`, `backoff`)
  do not check for deadlock, for the system may rest. `Closed` is fair with the
  watcher's goroutine: kubelet restarts the container.
- `Import`: weak fairness of `main`, of the handler, of the goroutine and of
  `Extract`, which are running code. A failing read, a stalled one and a signal
  owe nothing, so `GoroutineEnds` and `RunEnds` except a connection that never
  answers; `RunEnds` still has the handler through with the first signal by then, so
  that the next one kills. No deadlock check: the command ends.
- `Preload`: weak fairness of the script and of the timer, which counts from the
  start of the last run (`OnUnitActiveSec`), whatever its status. The store, provisioning and containerd
  owe nothing.

## 5. Proofs

For every value of the constants that the named assumptions allow: any number of
commands, names, images, files, layers, changes, faults and signals. The
assumptions say that the model values are distinct, that bounds are numbers, that
the sets given are of the right kind, and two things of the code:
`FoundAssumption` (section 2) and `Granularity <= Racy` (`ClockAssumption`).
`PreloadAssumption` has finitely many archives, which a glob lists. Each inductive
invariant below was an invariant of a TLC run before it was proved.

`CacheStoreProofs`:
- `TypeCorrect`: `TypeOK` always holds.
- `OwnershipInvariant`, `LockProtects`: `LockedTemporaryStays` always holds. It is
  not inductive: that a remover finds the lock taken depends on who holds which
  lock at which step. `Ownership` says it per process: it works on a name
  (`Targeted`), has a temporary directory of its own (`OwnTemporary`), holds its
  lock from the flock to the close, as a remover does while it removes
  (`OwnLock`), and so the name is linked from the stat under the lock on
  (`OwnName`). The step that matters is `RemoveTemporary`: it unlinks a directory
  whose lock it holds, so it is nobody else's past `LockStat`.
- `LayoutInvariant`: `Layout` always holds, with an operator at work too. A
  temporary directory is neither a resource directory nor one being removed
  (`Hidden`), no directory is under two names (`Apart`), a removal is of the name
  it set out for (`Removing`), and an extraction writes one image, its sentinel
  last, and renames what is whole (`Filling`).
- `CompleteWhole`: `CompleteIsWhole` always holds. `Wholeness` adds that a sentinel
  lists every file and the files left are of one image (`ListsAll`), and that what
  an adoption is about to write back lists every file (`Adopting`). `ListsAll` is
  why a removal under way is harmless: a file missing from a directory that lists
  it makes it incomplete.

`CachePathProofs`:
- `StoreImplementsArchives`: `CacheStore` implements `Archives`. The initial
  directories are initial archives; a rename that takes place is a `Publish`, since
  it replaces nothing or an empty directory and `Filling` has every file in place;
  an unlink is a `Lose`; tampering is a `Tamper` or a `Lose`; every other step
  leaves the files under every name alone, because what it writes is a temporary
  (`Hidden`) or a sentinel.
- `UnreadableKept`: `UnreadableStays`, from `Ownership` and `Layout`: only an
  adoption or a removal of that name writes a directory in place. An adoption
  leaves the files, and fails on a sentinel it cannot stat; GC reads the sentinel
  before it sets out, and a swap stats it.
- `CommandsSpareForeign`: `CommandSparesForeign`. `Sparing` carries it: others'
  files are only in directories with no sentinel, under a name, and what a command
  clears has none of them.

`CacheRaceProofs`:
- `SuccessKept`: `SuccessSticks` always holds, of the names every pass keeps
  (`Retained`). Each swap removes by name before it renames, so between the two the
  name is empty, or half empty, and several swaps may be there at once. `Sticking`
  says what is true all along of a name some call reported filled: it is filled, or
  a swap is unlinking what is there, or nothing is there and some swap is past its
  check (`Refilling`). Such a swap ends by filling the name or finds that another
  has. It rests on `Emptying`: what a removal has yet to unlink covers what is left
  in the directory it opened, but for a sentinel an adoption put back, which is the
  exception the property names.

`ContentSumsProofs`:
- `TypeCorrect`: `TypeOK` always holds.
- `MemoryInvariant`, `TrustedCurrent`: `TrustedIsCurrent` always holds, from
  `Granularity <= Racy`. `Memory` says that stamps do not run ahead of the clocks
  and that a key older than the racy window when the read began, and still the
  file's, has not been through a change since.
- `CompleteTrue`: `CompleteWasTrue` always holds. `Verdicts` carries what each
  file's stat and lookup establish from the moment they are made to the verdict.

`NodeReconcilerProofs`:
- `TypeCorrect`: `TypeOK` always holds, the lag of the two informers included.
- `SyncedSeen`: `SyncedWasSeen`. During a pass the history variable `held` has
  every directory that is complete, so whatever the pass concludes from one is in
  it (`Seen`), though the directory may be gone by the patch.
- `OthersLabelsKept`: `OthersLabelsSurvive`, from what the steps that write the
  node may write: a merge patch carries only the agent's own labels, those that
  differ from the copy the pass read (`MergedType`), however stale the copy.

`FSWatcherProofs`:
- `TypeCorrect`: `TypeOK` always holds.
- `NoChangeMissed`: `ChangesAreSeen` always holds. `Watching` says, as long as
  nothing failed, that a directory that is whole is watched, or that the event of
  the swap that put it there is still on its way and the pass has yet to set the
  watch: `SetPaths` comes after every swap of its pass.

`ImportProofs`:
- `TypeCorrect`: `TypeOK` always holds. Where the goroutine is in the image
  (`Position`) is part of the argument, for the entry it is at must be one.
- `PublishedWhole`: `PublishedIsTheImage` always holds. `InStep` has the two ends of
  the pipe at the same entry; `AsSent` says that the files written are the copies of
  the entries sent in full and that no base was sent twice; `Faithful`, that this
  holds as long as the extraction can still succeed. The stream ends well only past
  its last layer, where what was sent is all there is, and checked.
- `SignalNamed`, `ExitTrue`: `ExitNamesSignal` and `ExitTellsTheTruth` always hold.
  `Interruption` follows the first signal through the handler: it is passed on
  before the context is cancelled, so an error that says cancelled finds it.
  `Outcome` relates the error, the exit code and what is under the name.
- `RegistryReached`: `RegistryAsAsked` always holds: the `Remote` that `Reached`
  speaks of is the one `validate` accepted, as long as anything may read through it.

`PreloadProofs`:
- `TypeCorrect`: `TypeOK` always holds. That the failures of a run are at most the
  archives there are needs `TriedOnce`: each is tried once, though the directories
  change while they are listed.
- `SuccessLoaded`: `SuccessMeansLoaded` always holds. `SteadyTried`: an archive
  that stays is loaded, or to be tried, or the run has failed.

Only model-checked: the liveness properties `CallsReturn`, `LeftoversGo`,
`TamperSeen`, `Converges`, `Repaired`, `ClosedRepairs`, `Rests`, `GoroutineEnds`,
`RunEnds` and `StayingIsLoaded`. Each rests on fairness, which is out of the
prover's reach. The three violations are counterexamples, TLC's to find.

## 6. Not modelled

- The registry client, `archive/tar`, certificates and TLS themselves: libraries,
  modelled from what the code does with their answers.
- Flags, probes, metrics and the manager's startup checks: configuration, or an
  exit before there is any state.
- Manifests, RPM packaging, systemd units other than the timer's period: no logic.
- Kubernetes events, log lines and messages: nothing reads them back.
- Generated deep copies, and the CRD's validation, which the API server does.
- `key_other.go`: no key, so every check reads every file; the agent runs on Linux.

## 7. Plan

All the parts that keep state are modelled, and every safety property of the
passing runs is proved. What is left:

1. Step lemmas towards liveness that need no fairness: what bounds the retries of
   `createTemporary`, the steps of one removal and the archives of one run, as
   variants that each step of a process lowers.
2. A composition of `NodeReconciler` with `FSWatcher`'s watches in place of
   `watched` and `stir`; each has the other's part reduced today.
