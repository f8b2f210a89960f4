----------------------------- MODULE ImageStream ----------------------------
(***************************************************************************)
(* How an image becomes the files of a directory: the goroutine that       *)
(* writes the layers of the image into a pipe                              *)
(* (agent/internal/puller/stream.go), and Extract, which reads the pipe    *)
(* and publishes what it read (agent/internal/cache/store.go).             *)
(*                                                                         *)
(* The pipe is io.Pipe, which holds nothing: a write returns once it is    *)
(* read.  A transfer is therefore one step of both ends, and what the      *)
(* goroutine offers shows in gpc.  An entry is its header and, for a       *)
(* regular file, one piece of content.                                     *)
(*                                                                         *)
(* CacheStore has the directories, their locks and the other processes;    *)
(* here the resource is one slot and the extraction is alone on it.        *)
(***************************************************************************)
EXTENDS Naturals, Sequences

CONSTANTS
    Images,    \* sequences of layers, which are sequences of entries
    Bases,     \* base names
    Sentinel   \* the one the store keeps for itself

\* Entries: a regular file, a directory or a global header, a link or a
\* device, a file with no file name, a deletion.
Kinds == {"file", "dir", "link", "nameless", "whiteout"}

Entries == [kind : Kinds, base : Bases]

ASSUME ImageAssumption ==
    /\ Sentinel \in Bases
    /\ Images \subseteq Seq(Seq(Entries))

VARIABLES
    image,     \* the image of the source
    checked,   \* the layers come with a digest: the source is a registry
    ctx,       \* the context is cancelled
    gpc,       \* where the goroutine of entries is
    li, ei,    \* its layer, and the entry in it
    altered,   \* the layer at hand is not what its digest says
    gerr,      \* what CloseWithError passed on: the class of the error
    closed,    \* the reading end is closed
    xpc,       \* where Extract is
    cur,       \* the last header it read
    files,     \* the files it wrote: base name, and what they hold
    xerr,      \* the class of the error it returns
    slot       \* what is under the resource name

goroutine == <<gpc, li, ei, altered, gerr>>
extract == <<xpc, cur, files, xerr>>
source == <<image, checked>>

\* Classes of errors: one that wraps io.EOF is not the end of a stream, one
\* that wraps context.Canceled is an interruption.
Errors == {"eof", "canceled", "other"}

\* What a failing read of the source may wrap.
ReadErrors == {"eof", "other"} \cup (IF ctx THEN {"canceled"} ELSE {})

Slots == {"absent", "short", "foreign", "unreadable", "complete", "filled"}

Reading == {"layer", "next", "content", "drain"}

GPCs == {"off", "list", "header", "body", "trailer", "stalled", "end"} \cup Reading

XPCs == {"idle", "create", "loop", "next", "reading", "entry", "body",
         "copying", "finish", "swap", "rename", "ok", "failed"}

Layer == image[li]

NoEntry == [kind |-> "dir", base |-> Sentinel]

-----------------------------------------------------------------------------
(***************************************************************************)
(* The goroutine: writeEntries and copyEntries.                            *)
(***************************************************************************)

\* Mutant: the pipe is closed when the stream is whole.
GoEndSilent(e) ==
    /\ gpc' = IF e = "nil" THEN "end" ELSE "off"
    /\ gerr' = e

\* writeEntries returns e, and CloseWithError hands it to the reader.
GoEnd(e) ==
    /\ gpc' = "end"
    /\ gerr' = e

\* entries: the goroutine starts.
GoStart ==
    /\ gpc' = "list"
    /\ li' = 1
    /\ ei' = 1

\* writeEntries: the layers are listed.
ListLayers ==
    /\ gpc = "list"
    /\ \/ gpc' = "layer" /\ UNCHANGED gerr
       \/ GoEnd("other")
    /\ UNCHANGED <<source, ctx, li, ei, altered, closed, extract, slot>>

\* copyEntries: the layer is opened; after the last one the stream ends.
OpenLayer ==
    /\ gpc = "layer"
    /\ IF li > Len(image)
       THEN /\ gpc' = "trailer"
            /\ UNCHANGED <<ei, altered>>
       ELSE /\ gpc' = "next"
            /\ ei' = 1
            /\ altered' \in {FALSE, checked}
    /\ UNCHANGED <<source, ctx, li, gerr, closed, extract, slot>>

\* copyEntries: the next header of the layer.  A deletion is refused.
NextHeader ==
    /\ gpc = "next"
    /\ \/ /\ ei > Len(Layer)
          /\ gpc' = "drain"
          /\ UNCHANGED gerr
       \/ /\ ei <= Len(Layer)
          /\ Layer[ei].kind = "whiteout"
          /\ GoEnd("other")
       \/ /\ ei <= Len(Layer)
          /\ Layer[ei].kind # "whiteout"
          /\ gpc' = "header"
          /\ UNCHANGED gerr
    /\ UNCHANGED <<source, ctx, li, ei, altered, closed, extract, slot>>

\* copyEntries: the content of the entry is read.
ReadContent ==
    /\ gpc = "content"
    /\ gpc' = "body"
    /\ UNCHANGED <<source, ctx, li, ei, altered, gerr, closed, extract, slot>>

\* copyEntries: the layer is read to its end, where its digest is checked.
Drain ==
    /\ gpc = "drain"
    /\ IF altered
       THEN GoEnd("other") /\ UNCHANGED li
       ELSE gpc' = "layer" /\ li' = li + 1 /\ UNCHANGED gerr
    /\ UNCHANGED <<source, ctx, ei, altered, closed, extract, slot>>

\* Any read of the source may fail, and one that waits on a registry may
\* never return: a half-open connection.  One that comes back, fails.
ReadFails ==
    /\ gpc \in Reading \cup {"stalled"}
    /\ gpc = "layer" => li <= Len(image)
    /\ \E e \in ReadErrors : GoEnd(e)
    /\ UNCHANGED <<source, ctx, li, ei, altered, closed, extract, slot>>

ReadStalls ==
    /\ checked
    /\ gpc \in Reading
    /\ gpc = "layer" => li <= Len(image)
    /\ gpc' = "stalled"
    /\ UNCHANGED <<source, ctx, li, ei, altered, gerr, closed, extract, slot>>

\* A write to the pipe fails once the reading end is closed.
WriteFails ==
    /\ gpc \in {"header", "body", "trailer"}
    /\ closed
    /\ GoEnd("other")
    /\ UNCHANGED <<source, ctx, li, ei, altered, closed, extract, slot>>

\* A write is read: the goroutine goes on to the content, to the next entry,
\* or, past the trailer, to its end.
Written ==
    \/ /\ gpc = "header"
       /\ Layer[ei].kind \in {"file", "nameless"}
       /\ gpc' = "content"
       /\ UNCHANGED <<ei, gerr>>
    \/ /\ \/ gpc = "header" /\ Layer[ei].kind \notin {"file", "nameless"}
          \/ gpc = "body"
       /\ gpc' = "next"
       /\ ei' = ei + 1
       /\ UNCHANGED gerr
    \/ /\ gpc = "trailer"
       /\ GoEnd("nil")
       /\ UNCHANGED ei

-----------------------------------------------------------------------------
(***************************************************************************)
(* Extract.                                                                *)
(***************************************************************************)

\* Extract returns an error; its temporary directory goes.
Fail(e) ==
    /\ xpc' = "failed"
    /\ xerr' = e
    /\ files' = {}

Goto(label) ==
    /\ xpc' = label
    /\ UNCHANGED <<files, xerr>>

\* createTemporary, with the goroutine started already.
CreateTemporary ==
    /\ xpc = "create"
    /\ Goto("loop")
    /\ UNCHANGED <<source, ctx, goroutine, closed, cur, slot>>

\* The loop and ctxReader look at the context, then the read blocks.
CheckContext ==
    /\ xpc \in {"loop", "next", "body"}
    /\ IF ctx
       THEN Fail("canceled")
       ELSE Goto(CASE xpc = "loop" -> "next"
                   [] xpc = "next" -> "reading"
                   [] xpc = "body" -> "copying")
    /\ UNCHANGED <<source, ctx, goroutine, closed, cur, slot>>

\* Next: a header, what is left of an entry that was passed over, or the
\* trailer, which ends the loop.
TarNext ==
    /\ xpc = "reading"
    /\ gpc \in {"header", "body", "trailer"}
    /\ Written
    /\ CASE gpc = "header"  -> Goto("entry") /\ cur' = Layer[ei]
         [] gpc = "body"    -> Goto("next") /\ UNCHANGED cur
         [] gpc = "trailer" -> Goto("finish") /\ UNCHANGED cur
    /\ UNCHANGED <<source, ctx, li, altered, closed, slot>>

\* Mutant: an error that wraps io.EOF is taken for the end.
TarNextEndsWrapped ==
    /\ xpc = "reading"
    /\ gpc = "end"
    /\ IF gerr \in {"nil", "eof"} THEN Goto("finish") ELSE Fail(gerr)
    /\ UNCHANGED <<source, ctx, goroutine, closed, cur, slot>>

\* Next: the stream is over.  Only io.EOF itself ends the loop.
TarNextEnds ==
    /\ xpc = "reading"
    /\ gpc = "end"
    /\ IF gerr = "nil" THEN Goto("finish") ELSE Fail(gerr)
    /\ UNCHANGED <<source, ctx, goroutine, closed, cur, slot>>

\* The names O_EXCL refuses.
Taken == {f.base : f \in files}

\* What becomes of the entry: passed over, refused, or written to a new file.
Entry ==
    /\ xpc = "entry"
    /\ \/ cur.kind = "dir" /\ Goto("loop")
       \/ cur.kind \in {"link", "nameless"} /\ Fail("other")
       \/ /\ cur.kind \notin {"dir", "link", "nameless"}
          /\ \/ cur.base = Sentinel /\ Goto("loop")
             \/ cur.base \in Taken \ {Sentinel} /\ Fail("other")
             \/ cur.base \notin Taken \cup {Sentinel} /\ Goto("body")
    /\ UNCHANGED <<source, ctx, goroutine, closed, cur, slot>>

\* sumOf: the content lands in the file.
CopyContent ==
    /\ xpc = "copying"
    /\ gpc = "body"
    /\ Written
    /\ xpc' = "loop"
    /\ files' = files \cup {[base |-> cur.base, intact |-> ~altered]}
    /\ UNCHANGED <<source, ctx, li, altered, closed, cur, xerr, slot>>

CopyEnds ==
    /\ xpc = "copying"
    /\ gpc = "end"
    /\ Fail(gerr)
    /\ UNCHANGED <<source, ctx, goroutine, closed, cur, slot>>

\* The temporary directory or a file cannot be created or written, nor the
\* sentinel, or the rename fails.
DiskFails ==
    /\ xpc \in {"create", "body", "copying", "finish", "rename"}
    /\ Fail("other")
    /\ UNCHANGED <<source, ctx, goroutine, closed, cur, slot>>

\* An image with no file is refused; otherwise the sentinel is written.
Finish ==
    /\ xpc = "finish"
    /\ IF files = {} THEN Fail("other") ELSE Goto("swap")
    /\ UNCHANGED <<source, ctx, goroutine, closed, cur, slot>>

\* replaceable, for a command: nothing there, or what a store wrote.  The run
\* does not come here with a sentinel that State could not read.
Replaceable == slot \in {"absent", "short", "complete"}

\* replaceable and RemoveAll, which may stop half way, past the sentinel too.
Swap ==
    /\ xpc = "swap"
    /\ IF ~Replaceable
       THEN Fail("other") /\ UNCHANGED slot
       ELSE \/ Goto("rename") /\ slot' = "absent"
            \/ /\ Fail("other")
               /\ slot' \in IF slot = "absent" THEN {slot}
                            ELSE {slot, "short", "foreign"}
    /\ UNCHANGED <<source, ctx, goroutine, closed, cur>>

\* Mutant: the context is consulted once more, the directory cleared.
RenameChecksContext ==
    /\ xpc = "rename"
    /\ IF ctx
       THEN Fail("canceled") /\ UNCHANGED slot
       ELSE Goto("ok") /\ slot' = "filled"
    /\ UNCHANGED <<source, ctx, goroutine, closed, cur>>

Rename ==
    /\ xpc = "rename"
    /\ Goto("ok")
    /\ slot' = "filled"
    /\ UNCHANGED <<source, ctx, goroutine, closed, cur>>

-----------------------------------------------------------------------------

GoStep ==
    ListLayers \/ OpenLayer \/ NextHeader \/ ReadContent \/ Drain \/ WriteFails

ExtractStep ==
    \/ CreateTemporary \/ CheckContext \/ TarNext \/ TarNextEnds \/ Entry
    \/ CopyContent \/ CopyEnds \/ Finish \/ Swap \/ Rename

StreamFault == ReadFails \/ ReadStalls \/ DiskFails

StreamInit ==
    /\ image \in Images
    /\ ctx = FALSE
    /\ gpc = "off"
    /\ li = 0 /\ ei = 0
    /\ altered = FALSE
    /\ gerr = "none"
    /\ closed = FALSE
    /\ xpc = "idle"
    /\ cur = NoEntry
    /\ files = {}
    /\ xerr = "none"

StreamTypeOK ==
    /\ image \in Images
    /\ checked \in BOOLEAN
    /\ ctx \in BOOLEAN
    /\ gpc \in GPCs
    /\ li \in Nat /\ ei \in Nat
    /\ altered \in BOOLEAN
    /\ gerr \in Errors \cup {"none", "nil"}
    /\ closed \in BOOLEAN
    /\ xpc \in XPCs
    /\ cur \in Entries
    /\ files \subseteq [base : Bases, intact : BOOLEAN]
    /\ xerr \in Errors \cup {"none"}
    /\ slot \in Slots

-----------------------------------------------------------------------------
(***************************************************************************)
(* Properties.                                                             *)
(***************************************************************************)

Places == UNION {{l} \X DOMAIN image[l] : l \in DOMAIN image}

At(p) == image[p[1]][p[2]]

\* The places of the files the image carries.
Carried == {p \in Places : At(p).kind = "file" /\ At(p).base # Sentinel}

\* What is published is the image: every entry is one the store can write out
\* or pass over without losing an archive, no two files share a name, and the
\* directory holds all of them, with the content their digests vouch for.  A
\* connection that drops, whatever its error wraps, a layer altered in
\* transit, known only at its end, a link, a deletion, and a failure between
\* two layers never end in a resource that is short and marked complete.
PublishedIsTheImage ==
    slot = "filled" =>
        /\ \A p \in Places : At(p).kind \in {"file", "dir"}
        /\ \A p, q \in Carried : At(p).base = At(q).base => p = q
        /\ files = {[base |-> At(p).base, intact |-> TRUE] : p \in Carried}

-----------------------------------------------------------------------------
(***************************************************************************)
(* What makes PublishedIsTheImage inductive.                               *)
(***************************************************************************)

\* The goroutine goes on, neither waiting on a registry nor at its end.
Flowing ==
    gpc \in {"list", "layer", "next", "header", "content", "body", "drain",
             "trailer"}

\* The places the goroutine has sent to the last byte.
Sent ==
    {p \in Places : \/ p[1] < li
                    \/ p[1] = li /\ gpc # "layer" /\ p[2] < ei}

\* Where the goroutine is in the image, and where a stream that ended well did.
Position ==
    /\ gpc \in {"next", "header", "content", "body", "drain"} =>
        li \in DOMAIN image
    /\ gpc = "next" => ei >= 1
    /\ gpc \in {"header", "content", "body"} => ei \in DOMAIN Layer
    /\ gpc = "header" => Layer[ei].kind # "whiteout"
    /\ gpc \in {"content", "body"} => Layer[ei].kind \in {"file", "nameless"}
    /\ gpc = "drain" => ei > Len(Layer)
    /\ gpc = "list" => li = 1 /\ ei = 1
    /\ gpc = "layer" => li >= 1
    /\ gpc = "trailer" => li > Len(image)
    /\ gerr = "nil" =>
        /\ gpc = "end" /\ li > Len(image)
        /\ xpc \in {"finish", "swap", "rename", "ok", "failed"}
    /\ gpc = "off" <=> xpc = "idle"
    /\ xpc = "idle" => files = {}
    /\ xpc \in {"finish", "swap", "rename", "ok"} => gerr = "nil"
    /\ gpc = "end" => gerr # "none"
    /\ xpc = "failed" => xerr # "none"

\* The two ends are at the same entry when its content goes through the pipe,
\* and a content nobody writes out is the sentinel's.
InStep ==
    /\ xpc \in {"entry", "body", "copying"} /\ gpc \in {"content", "body"} =>
        cur = Layer[ei]
    /\ xpc = "entry" /\ Flowing /\ cur.kind \notin {"dir", "link"} =>
        gpc \in {"content", "body"}
    /\ xpc \in {"body", "copying"} =>
        /\ cur.kind \notin {"dir", "link", "nameless"}
        /\ cur.base \notin Taken \cup {Sentinel}
        /\ Flowing => gpc \in {"content", "body"}
    /\ xpc \in {"create", "loop", "next", "reading"} /\ gpc \in {"content", "body"} =>
        Layer[ei].kind = "file" /\ Layer[ei].base = Sentinel

\* The file made of the entry at p; its layer's digest may be still to come.
Copy(p) == [base |-> At(p).base, intact |-> (p[1] < li \/ ~altered)]

\* What went through the pipe is what was written.
AsSent ==
    /\ \A p \in Sent : \/ At(p).kind \in {"file", "dir"}
                       \/ xpc = "entry" /\ cur.kind = "link"
    /\ \A p, q \in Carried \cap Sent : At(p).base = At(q).base => p = q
    /\ files = {Copy(p) : p \in Carried \cap Sent}

\* So it is as long as the stream may still be published.
Faithful == (Flowing \/ gerr = "nil") /\ xpc # "failed" => AsSent

Streaming ==
    /\ Position
    /\ InStep
    /\ Faithful
    /\ slot = "filled" => xpc = "ok"

=============================================================================
