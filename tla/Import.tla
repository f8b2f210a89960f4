------------------------------- MODULE Import -------------------------------
(***************************************************************************)
(* One run of imagecachectl import, from its command line to its exit      *)
(* code: main and its signal handler (agent/cmd/imagecachectl/main.go),    *)
(* Run, validate and do (agent/internal/cli/cli.go), Fill                  *)
(* (agent/internal/fill/fill.go) and the two pullers                       *)
(* (agent/internal/puller/puller.go), around the stream and the extraction *)
(* of ImageStream.                                                         *)
(*                                                                         *)
(* The goroutine of the stream goes on after the command has exited, as it *)
(* does in the agent, which calls the same Fill on a loop.                 *)
(***************************************************************************)
EXTENDS ImageStream

CONSTANTS
    CommandLines, \* the command lines, elements of Args
    Int, Term,    \* the signals, by number
    MaxSignals    \* bound on the number of signals sent

\* The command line: what validate refuses or not, the shape of the source,
\* the TLS settings; what is at the cache path, and what the source declares.
Args ==
    [name     : BOOLEAN,
     path     : BOOLEAN,
     shape    : {"path", "reference"},
     ca       : {"none", "usable", "unusable"},
     skip     : BOOLEAN,
     plain    : BOOLEAN,
     mount    : BOOLEAN,
     platform : {"undeclared", "own", "other"}]

ASSUME ArgsAssumption == CommandLines \subseteq Args

ASSUME SignalAssumption ==
    /\ Int \in Nat \ {0}
    /\ Term \in Nat \ {0}
    /\ MaxSignals \in Nat

Signals == {Int, Term}

VARIABLES
    args,      \* the command line
    found,     \* what was under the name when the run began
    remote,    \* how the Remote reaches its registry
    mpc,       \* where main is
    err,       \* nil, or the class of the error Run has
    code,      \* the exit code, or none
    hpc,       \* where the signal handler is
    signals,   \* the channel Notify feeds: a buffer of one
    sig,       \* the signal the handler took
    stopped,   \* the channel main reads, a buffer of one
    sent       \* signals sent so far

command == <<args, found, remote, mpc, err, code>>
handler == <<hpc, signals, sig, stopped>>
stream == <<source, goroutine, closed, extract, slot>>
vars == <<image, checked, ctx, gpc, li, ei, altered, gerr, closed, xpc, cur,
          files, xerr, slot, args, found, remote, mpc, err, code, hpc, signals,
          sig, stopped, sent>>

None == 0

MPCs == {"args", "state", "sweep", "pull", "stalled", "fill", "exit", "over",
         "killed"}

Transports == {"none", "default", "ca", "insecure"}

NoRemote == [transport |-> "none", plain |-> FALSE]

-----------------------------------------------------------------------------
(***************************************************************************)
(* Before the cache path is read: Run, validate and pullerFor.             *)
(***************************************************************************)

\* ValidCachePath: an absolute path that climbs nowhere.
ValidCachePath == args.path

\* validate: that, and a resource name.
Validate == args.name /\ ValidCachePath

\* CheckCachePath: the cache path is there and is a directory.
CheckCachePath == args.mount

\* Run: two settings that exclude each other.
Conflict ==
    \/ args.ca # "none" /\ args.skip
    \/ args.plain /\ (args.ca # "none" \/ args.skip)

\* caPool: the system CAs and those of the file.
CAPool == args.ca = "usable"

\* Mutant: without one of the two settings, the default transport does.
NewRemoteEither(r) ==
    IF args.ca = "none" \/ ~args.skip
    THEN r = [transport |-> "default", plain |-> args.plain]
    ELSE /\ ~Conflict
         /\ r = [transport |-> "insecure", plain |-> FALSE]

\* NewRemote and newRemote: r is how the registry is reached.
NewRemote(r) ==
    IF args.ca = "none" /\ ~args.skip
    THEN r = [transport |-> "default", plain |-> args.plain]
    ELSE /\ ~Conflict
         /\ args.skip \/ CAPool
         /\ r = [transport |-> IF args.skip THEN "insecure" ELSE "ca",
                 plain |-> FALSE]

\* pullerFor: the shape of the source decides; a path reads no TLS setting.
PullerFor(r) ==
    IF args.shape = "path" THEN r = NoRemote ELSE NewRemote(r)

Remotes == [transport : Transports, plain : BOOLEAN]

Accepted(r) == Validate /\ ~Conflict /\ PullerFor(r) /\ CheckCachePath

Exit(e) ==
    /\ mpc' = "exit"
    /\ err' = e

\* Run, validate, pullerFor and CheckCachePath.
CheckArgs ==
    /\ mpc = "args"
    /\ \/ \E r \in Remotes :
             /\ Accepted(r)
             /\ remote' = r
             /\ mpc' = "state"
             /\ UNCHANGED err
       \/ /\ \A r \in Remotes : ~Accepted(r)
          /\ Exit("other")
          /\ UNCHANGED remote
    /\ UNCHANGED <<stream, ctx, args, found, code, handler, sent>>

-----------------------------------------------------------------------------
(***************************************************************************)
(* do and Fill.                                                            *)
(***************************************************************************)

\* do: the state decides.  The zero Store does not look at the context.
CheckState ==
    /\ mpc = "state"
    /\ CASE slot = "unreadable" -> Exit("other")
         [] slot = "complete"   -> Exit("nil")
         [] OTHER               -> mpc' = "sweep" /\ UNCHANGED err
    /\ UNCHANGED <<stream, ctx, args, found, remote, code, handler, sent>>

\* do: SweepTemporaries, then Fill's Replaceable.
Sweep ==
    /\ mpc = "sweep"
    /\ IF Replaceable THEN mpc' = "pull" /\ UNCHANGED err ELSE Exit("other")
    /\ UNCHANGED <<stream, ctx, args, found, remote, code, handler, sent>>

\* do: the state cannot be read, or a leftover not removed.
CacheFails ==
    /\ mpc \in {"state", "sweep"}
    /\ Exit("other")
    /\ UNCHANGED <<stream, ctx, args, found, remote, code, handler, sent>>

\* identify: only a declared mismatch is refused.
Identify == args.platform # "other"

\* Pull: the image is opened and identified, and its stream started; Extract
\* makes its temporary directory.  An archive is not opened once the context
\* is cancelled.
Pull ==
    /\ mpc = "pull"
    /\ args.shape = "path" => ~ctx
    /\ Identify
    /\ mpc' = "fill"
    /\ GoStart
    /\ xpc' = "create"
    /\ UNCHANGED <<source, ctx, altered, gerr, closed, cur, files, xerr, slot,
                   args, found, remote, err, code, handler, sent>>

\* Pull: the source cannot be opened, is another platform's, or the context is
\* cancelled.
PullFails ==
    /\ mpc = "pull"
    /\ IF args.shape = "path" /\ ctx
       THEN Exit("canceled")
       ELSE \E e \in ReadErrors : Exit(e)
    /\ UNCHANGED <<stream, ctx, args, found, remote, code, handler, sent>>

\* Pull: the registry does not answer, or not for long.
PullStalls ==
    /\ \/ /\ mpc = "pull"
          /\ args.shape = "reference"
          /\ mpc' = "stalled"
          /\ UNCHANGED err
       \/ /\ mpc = "stalled"
          /\ \E e \in ReadErrors : Exit(e)
    /\ UNCHANGED <<stream, ctx, args, found, remote, code, handler, sent>>

\* Mutant: the stream is closed once the extraction went through.
FillClosesOnSuccess ==
    /\ mpc = "fill"
    /\ xpc \in {"ok", "failed"}
    /\ closed' = (xpc = "ok")
    /\ Exit(IF xpc = "ok" THEN "nil" ELSE xerr)
    /\ UNCHANGED <<source, ctx, goroutine, extract, slot, args, found, remote,
                   code, handler, sent>>

\* Fill returns what Extract did; the deferred Close runs either way.
FillReturns ==
    /\ mpc = "fill"
    /\ xpc \in {"ok", "failed"}
    /\ closed' = TRUE
    /\ Exit(IF xpc = "ok" THEN "nil" ELSE xerr)
    /\ UNCHANGED <<source, ctx, goroutine, extract, slot, args, found, remote,
                   code, handler, sent>>

-----------------------------------------------------------------------------
(***************************************************************************)
(* main: the exit code and the signals.                                    *)
(***************************************************************************)

ExitInterrupted == 130

\* Run: the exit code of the command.
RunCode ==
    CASE err = "nil"      -> 0
      [] err = "canceled" -> ExitInterrupted
      [] OTHER            -> 1

\* Mutant: the signal is the exit code.
SetCodeRaw ==
    /\ mpc = "exit"
    /\ mpc' = "over"
    /\ code' = IF RunCode = ExitInterrupted /\ stopped # None THEN stopped
               ELSE RunCode
    /\ UNCHANGED <<stream, ctx, args, found, remote, err, handler, sent>>

\* main: an interrupted run exits with 128 and the signal that was passed on.
SetCode ==
    /\ mpc = "exit"
    /\ mpc' = "over"
    /\ code' = IF RunCode = ExitInterrupted /\ stopped # None
               THEN 128 + stopped ELSE RunCode
    /\ UNCHANGED <<stream, ctx, args, found, remote, err, handler, sent>>

\* A signal arrives: it goes to the buffer, is dropped when that is full, or,
\* once the handler has called Stop, kills the command.
Signal(s) ==
    /\ mpc \notin {"over", "killed"}
    /\ sent < MaxSignals
    /\ sent' = sent + 1
    /\ IF hpc \in {"wait", "stop"}
       THEN /\ signals' = IF signals = None THEN s ELSE signals
            /\ UNCHANGED mpc
       ELSE /\ mpc' = "killed"
            /\ UNCHANGED signals
    /\ UNCHANGED <<stream, ctx, args, found, remote, err, code, hpc, sig,
                   stopped>>

TakeSignal ==
    /\ hpc = "wait"
    /\ signals # None
    /\ sig' = signals
    /\ signals' = None
    /\ hpc' = "stop"
    /\ UNCHANGED <<stream, ctx, command, stopped, sent>>

StopSignals ==
    /\ hpc = "stop"
    /\ hpc' = "pass"
    /\ UNCHANGED <<stream, ctx, command, signals, sig, stopped, sent>>

\* Mutant: the context is cancelled first.
PassSignalLate ==
    /\ \/ hpc = "pass" /\ hpc' = "cancel" /\ ctx' = TRUE /\ UNCHANGED stopped
       \/ hpc = "cancel" /\ hpc' = "end" /\ stopped' = sig /\ UNCHANGED ctx
    /\ UNCHANGED <<stream, command, signals, sig, sent>>

\* stopped <- sig, then cancel.
PassSignal ==
    /\ \/ hpc = "pass" /\ hpc' = "cancel" /\ stopped' = sig /\ UNCHANGED ctx
       \/ hpc = "cancel" /\ hpc' = "end" /\ ctx' = TRUE /\ UNCHANGED stopped
    /\ UNCHANGED <<stream, command, signals, sig, sent>>

-----------------------------------------------------------------------------

Alive == mpc # "killed"

Running == mpc \notin {"over", "killed"}

Init ==
    /\ StreamInit
    /\ args \in CommandLines
    /\ checked = (args.shape = "reference")
    /\ slot \in Slots \ {"filled"}
    /\ found = slot
    /\ remote = NoRemote
    /\ mpc = "args"
    /\ err = "nil"
    /\ code = None
    /\ hpc = "wait"
    /\ signals = None
    /\ sig = None
    /\ stopped = None
    /\ sent = 0

Main ==
    \/ CheckArgs \/ CheckState \/ Sweep \/ Pull \/ PullFails
    \/ FillReturns \/ SetCode

Handler == Running /\ (TakeSignal \/ StopSignals \/ PassSignal)

Goroutine == Alive /\ GoStep /\ UNCHANGED <<command, handler, sent>>

Extract == Running /\ ExtractStep /\ UNCHANGED <<command, handler, sent>>

Fault ==
    \/ Alive /\ StreamFault /\ UNCHANGED <<command, handler, sent>>
    \/ CacheFails
    \/ PullStalls

Next ==
    \/ Main
    \/ Handler
    \/ Goroutine
    \/ Extract
    \/ Fault
    \/ \E s \in Signals : Signal(s)

(***************************************************************************)
(* Fairness: main, its handler and the goroutine are running code.  Reads  *)
(* that fail, that never return, and signals owe nothing.                  *)
(***************************************************************************)
Spec ==
    /\ Init
    /\ [][Next]_vars
    /\ WF_vars(Main)
    /\ WF_vars(Handler)
    /\ WF_vars(Goroutine)
    /\ WF_vars(Extract)

-----------------------------------------------------------------------------
(***************************************************************************)
(* Properties.                                                             *)
(***************************************************************************)

\* Type invariant of the command and its stream.
TypeOK ==
    /\ StreamTypeOK
    /\ args \in CommandLines
    /\ found \in Slots
    /\ remote \in Remotes
    /\ mpc \in MPCs
    /\ err \in Errors \cup {"nil"}
    /\ code \in {0, 1, ExitInterrupted, 128 + Int, 128 + Term}
    /\ hpc \in {"wait", "stop", "pass", "cancel", "end"}
    /\ {signals, sig, stopped} \subseteq Signals \cup {None}
    /\ sent \in 0 .. MaxSignals

\* The exit code names the signal that interrupted the run, the first one to
\* be caught, whatever arrives after it and however far the run had come: the
\* signal is in the channel before the context is cancelled.
ExitNamesSignal ==
    mpc = "over" /\ code > 1 => code = 128 + sig

\* An exit code of 0 means the resource is there, from this run or before it;
\* one that says the run was interrupted means it is as it was found, cli.go's
\* "nothing half written is left behind": the context is not looked at between
\* the removal of the old directory and the rename of the new one.
ExitTellsTheTruth ==
    mpc = "over" =>
        /\ code = 0 => slot \in {"complete", "filled"}
        /\ code > 1 => slot = found

\* A registry is read the way the command line asked, and no other: plain
\* HTTP and unverified certificates only when they were asked for, never both
\* and never next to a CA file, and a CA file is trusted whenever it is given.
RegistryAsAsked ==
    gpc # "off" /\ args.shape = "reference" =>
        /\ remote.plain = args.plain
        /\ remote.transport = IF args.ca # "none" THEN "ca"
                              ELSE IF args.skip THEN "insecure" ELSE "default"

-----------------------------------------------------------------------------
(***************************************************************************)
(* What makes the properties of the exit code and of the registry          *)
(* inductive.                                                              *)
(***************************************************************************)

\* The stream starts with the pull, and the extraction is over when main
\* leaves Fill.
Phases ==
    /\ mpc \in {"args", "state", "sweep", "pull", "stalled"} => xpc = "idle"
    /\ mpc = "fill" => xpc # "idle"
    /\ mpc \in {"exit", "over"} => xpc \in {"idle", "ok", "failed"}

\* How far the first signal has come.
Interruption ==
    /\ hpc = "wait" => sig = None
    /\ hpc # "wait" => sig # None
    /\ hpc \in {"wait", "stop", "pass"} => stopped = None
    /\ hpc \in {"cancel", "end"} => stopped = sig
    /\ ctx => hpc = "end"
    /\ "canceled" \in {gerr, xerr, err} => ctx

\* What is under the name, as far as the run has come.
Outcome ==
    /\ xpc \notin {"rename", "ok", "failed"} => slot = found
    /\ xpc = "ok" => slot = "filled"
    /\ xpc = "failed" /\ xerr = "canceled" => slot = found
    /\ mpc \in {"exit", "over"} =>
        /\ err = "nil" => slot \in {"complete", "filled"}
        /\ err = "canceled" => slot = found
    /\ mpc = "over" => /\ code = 0 <=> err = "nil"
                       /\ code > 1 <=> err = "canceled"
                       /\ code > 1 => code = 128 + sig

\* The Remote is the one the command line was accepted with.
Reached ==
    mpc \in {"state", "sweep", "pull", "stalled", "fill"} \/ gpc # "off" =>
        Accepted(remote)

-----------------------------------------------------------------------------

\* Once Extract has returned, the goroutine writing its stream ends, wherever
\* it is, unless it waits on a connection that gives no answer: a refusal, a
\* full disk or a cancellation leaves nobody reading, and nothing behind.
GoroutineEnds ==
    xpc \in {"ok", "failed"} ~> gpc \in {"end", "stalled"} \/ mpc = "killed"

\* Extract, or the pull before it, waits for a registry that does not answer.
Waiting ==
    \/ mpc = "stalled"
    \/ mpc = "fill" /\ gpc = "stalled" /\ xpc \in {"reading", "copying"}

\* The run ends, and an interrupted one too, unless the registry leaves it
\* waiting for good, which no cancellation reaches.  Even then the handler has
\* done its part once a signal was sent: the next one is the kernel's, and
\* kills.
RunEnds ==
    \/ <>(mpc \in {"over", "killed"})
    \/ <>[](Waiting /\ (sent = 0 \/ hpc = "end"))

=============================================================================
