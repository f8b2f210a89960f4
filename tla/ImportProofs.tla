---------------------------- MODULE ImportProofs ----------------------------
(***************************************************************************)
(* Proofs about the import and its stream, for every set of images and of  *)
(* command lines and any number of signals.                                *)
(***************************************************************************)
EXTENDS Import, TLAPS

\* What only main and the handler change.
streamed == <<image, checked, gpc, li, ei, altered, gerr, xpc, cur, files,
              xerr, slot>>

\* A step that moves the stream or the extraction is one of theirs, or the
\* pull that starts them.
LEMMA StreamFrame ==
    [Next]_vars => \/ UNCHANGED streamed
                   \/ Pull
                   \/ GoStep /\ Alive /\ UNCHANGED <<command, handler, sent>>
                   \/ ExtractStep /\ Running /\ UNCHANGED <<command, handler, sent>>
                   \/ StreamFault /\ Alive /\ UNCHANGED <<command, handler, sent>>
  BY DEF Next, vars, streamed, Main, Handler, Goroutine, Extract, Fault,
         CheckArgs, CheckState, Sweep, PullFails, FillReturns, SetCode,
         TakeSignal, StopSignals, PassSignal, CacheFails, PullStalls, Signal,
         stream, source, goroutine, extract

-----------------------------------------------------------------------------
(***************************************************************************)
(* Types.                                                                  *)
(***************************************************************************)

\* A run starts with its types.
LEMMA TypeInit == Init => TypeOK
<1> SUFFICES ASSUME Init PROVE TypeOK
  OBVIOUS
<1>1. /\ checked \in BOOLEAN /\ ctx \in BOOLEAN /\ altered \in BOOLEAN
      /\ closed \in BOOLEAN
  BY DEF Init, StreamInit
<1>2. NoRemote \in Remotes
  BY DEF NoRemote, Remotes, Transports
<1>3. NoEntry \in Entries
  BY ImageAssumption DEF NoEntry, Entries, Kinds
<1>4. QED
  BY <1>1, <1>2, <1>3, SignalAssumption
  DEF Init, StreamInit, TypeOK, StreamTypeOK, GPCs, XPCs, MPCs, Errors, Slots,
      Signals, None, Reading

\* The entry the goroutine is at is an entry.
LEMMA EntryAt ==
    ASSUME TypeOK, li \in DOMAIN image, ei \in DOMAIN Layer
    PROVE  /\ Layer \in Seq(Entries)
           /\ Layer[ei] \in Entries
  BY ImageAssumption DEF TypeOK, StreamTypeOK, Layer

\* The steps of the stream keep its types.
LEMMA StreamTypeStep ==
    ASSUME TypeOK, Position, GoStep \/ ExtractStep \/ StreamFault
    PROVE  StreamTypeOK'
<1> USE DEF TypeOK, StreamTypeOK, GPCs, XPCs, Errors, Reading, Slots, GoEnd,
            source, goroutine, extract
<1>1. CASE ListLayers BY <1>1 DEF ListLayers
<1>2. CASE OpenLayer
  <2>1. altered' = altered \/ altered' = FALSE \/ altered' = checked
    BY <1>2 DEF OpenLayer
  <2>2. altered' \in BOOLEAN
    BY <2>1
  <2>3. gpc' \in {"trailer", "next"} /\ ei' \in {ei, 1}
    BY <1>2 DEF OpenLayer
  <2>4. QED
    BY <1>2, <2>2, <2>3 DEF OpenLayer
<1>3. CASE NextHeader BY <1>3 DEF NextHeader
<1>4. CASE ReadContent BY <1>4 DEF ReadContent
<1>5. CASE Drain BY <1>5 DEF Drain
<1>6. CASE WriteFails BY <1>6 DEF WriteFails
<1>7. CASE CreateTemporary \/ CheckContext
  BY <1>7 DEF CreateTemporary, CheckContext, Fail, Goto
<1>8. CASE TarNext
  <2>1. gpc' \in GPCs /\ ei' \in Nat /\ gerr' \in Errors \cup {"none", "nil"}
    BY <1>8 DEF TarNext, Written
  <2>5. xpc' \in XPCs
    BY <1>8 DEF TarNext, Goto
  <2>2. cur' \in Entries
    <3>1. CASE gpc = "header"
      <4>1. cur' = Layer[ei] BY <1>8, <3>1 DEF TarNext
      <4>2. QED BY <4>1, <3>1, EntryAt DEF Position
    <3>2. CASE gpc # "header" BY <1>8, <3>2 DEF TarNext
    <3>3. QED BY <3>1, <3>2
  <2>3. files' = files /\ xerr' = xerr BY <1>8 DEF TarNext, Goto
  <2>4. QED BY <1>8, <2>1, <2>2, <2>3, <2>5 DEF TarNext
<1>9. CASE TarNextEnds
  BY <1>9 DEF TarNextEnds, Fail, Goto
<1>10. CASE Entry BY <1>10 DEF Entry, Fail, Goto
<1>11. CASE CopyContent
  <2>1. (~altered) \in BOOLEAN OBVIOUS
  <2>2. [base |-> cur.base, intact |-> ~altered]
          \in [base : Bases, intact : BOOLEAN]
    BY <2>1 DEF Entries
  <2>3. files' \subseteq [base : Bases, intact : BOOLEAN]
    BY <1>11, <2>2 DEF CopyContent
  <2>4. gpc' \in GPCs /\ ei' \in Nat /\ gerr' \in Errors \cup {"none", "nil"}
    BY <1>11 DEF CopyContent, Written
  <2>5. QED BY <1>11, <2>3, <2>4 DEF CopyContent
<1>12. CASE CopyEnds
  BY <1>12 DEF CopyEnds, Fail, Position
<1>13. CASE Finish BY <1>13 DEF Finish, Fail, Goto
<1>14. CASE Swap BY <1>14 DEF Swap, Fail, Goto, Replaceable
<1>15. CASE Rename BY <1>15 DEF Rename, Goto
<1>16. CASE ReadFails BY <1>16 DEF ReadFails, ReadErrors
<1>17. CASE ReadStalls BY <1>17 DEF ReadStalls
<1>18. CASE DiskFails BY <1>18 DEF DiskFails, Fail
<1>19. QED
  BY <1>1, <1>2, <1>3, <1>4, <1>5, <1>6, <1>7, <1>8, <1>9, <1>10, <1>11,
     <1>12, <1>13, <1>14, <1>15, <1>16, <1>17, <1>18
  DEF GoStep, ExtractStep, StreamFault

\* So do the steps of main, of the handler and of the faults around it.
LEMMA TypeStep ==
    ASSUME TypeOK, Position, [Next]_vars
    PROVE  TypeOK'
<1> USE SignalAssumption
    DEF TypeOK, MPCs, Errors, Exit, Slots, Signals, None, stream, command,
        handler, source, goroutine, extract
<1>1. CASE CheckArgs
  <2>1. mpc' \in MPCs /\ err' \in Errors \cup {"nil"} /\ remote' \in Remotes
    BY <1>1 DEF CheckArgs
  <2>2. QED
    BY <1>1, <2>1 DEF CheckArgs, StreamTypeOK
<1>2. CASE CheckState
  BY <1>2 DEF CheckState, StreamTypeOK
<1>3. CASE Sweep
  BY <1>3 DEF Sweep, StreamTypeOK
<1>4. CASE Pull
  BY <1>4 DEF Pull, GoStart, StreamTypeOK, GPCs, XPCs, Reading
<1>5. CASE PullFails
  BY <1>5 DEF PullFails, ReadErrors, StreamTypeOK
<1>6. CASE FillReturns
  <2>1. closed' \in BOOLEAN
    BY <1>6 DEF FillReturns
  <2>2. err' \in Errors \cup {"nil"}
    BY <1>6 DEF FillReturns, StreamTypeOK, Position
  <2>3. QED
    BY <1>6, <2>1, <2>2 DEF FillReturns, StreamTypeOK
<1>7. CASE SetCode
  BY <1>7 DEF SetCode, RunCode, ExitInterrupted, StreamTypeOK
<1>8. CASE TakeSignal
  BY <1>8 DEF TakeSignal, StreamTypeOK
<1>9. CASE StopSignals
  BY <1>9 DEF StopSignals, StreamTypeOK
<1>10. CASE PassSignal
  <2>1. ctx' \in BOOLEAN
    BY <1>10 DEF PassSignal, StreamTypeOK
  <2>2. QED
    BY <1>10, <2>1 DEF PassSignal, StreamTypeOK
<1>11. CASE CacheFails
  BY <1>11 DEF CacheFails, StreamTypeOK
<1>12. CASE PullStalls
  BY <1>12 DEF PullStalls, ReadErrors, StreamTypeOK
<1>13. ASSUME NEW s \in Signals, Signal(s) PROVE TypeOK'
  BY <1>13 DEF Signal, StreamTypeOK
<1>14. CASE (GoStep \/ ExtractStep \/ StreamFault) /\ UNCHANGED <<command, handler, sent>>
  BY <1>14, StreamTypeStep
<1>15. CASE UNCHANGED vars
  BY <1>15 DEF vars, StreamTypeOK
<1>16. QED
  BY <1>1, <1>2, <1>3, <1>4, <1>5, <1>6, <1>7, <1>8, <1>9, <1>10, <1>11,
     <1>12, <1>13, <1>14, <1>15
  DEF Next, Main, Handler, Goroutine, Extract, Fault

-----------------------------------------------------------------------------
(***************************************************************************)
(* What a step of both ends, and a look at a header, come to.              *)
(***************************************************************************)

\* What the read of a header does, by what the goroutine is at.
LEMMA TarNextTakes ==
    ASSUME TarNext
    PROVE  /\ UNCHANGED <<files, xerr>>
           /\ \/ gpc = "header" /\ xpc' = "entry" /\ cur' = Layer[ei]
              \/ gpc = "body" /\ xpc' = "next" /\ cur' = cur
              \/ gpc = "trailer" /\ xpc' = "finish" /\ cur' = cur
<1>1. gpc \in {"header", "body", "trailer"}
  BY DEF TarNext
<1>2. CASE gpc = "header"
  BY <1>2 DEF TarNext, Goto
<1>3. CASE gpc = "body"
  BY <1>3 DEF TarNext, Goto
<1>4. CASE gpc = "trailer"
  BY <1>4 DEF TarNext, Goto
<1>5. QED
  BY <1>1, <1>2, <1>3, <1>4

\* Where the entry read leads: to a refusal, past it, or to its content.
LEMMA EntryLeads ==
    ASSUME Entry
    PROVE  \/ xpc' = "failed" /\ xerr' = "other" /\ files' = {}
           \/ /\ UNCHANGED <<files, xerr>>
              /\ \/ xpc' = "loop" /\ cur.kind = "dir"
                 \/ /\ xpc' = "loop"
                    /\ cur.kind \notin {"dir", "link", "nameless"}
                    /\ cur.base = Sentinel
                 \/ /\ xpc' = "body"
                    /\ cur.kind \notin {"dir", "link", "nameless"}
                    /\ cur.base \notin Taken \cup {Sentinel}
  BY DEF Entry, Goto, Fail

-----------------------------------------------------------------------------
(***************************************************************************)
(* The stream: where its two ends are.                                     *)
(***************************************************************************)

\* Lengths and domains of what the goroutine goes through.
LEMMA Lengths ==
    ASSUME TypeOK
    PROVE  /\ Len(image) \in Nat
           /\ DOMAIN image = 1 .. Len(image)
           /\ \A l \in DOMAIN image : /\ image[l] \in Seq(Entries)
                                      /\ Len(image[l]) \in Nat
                                      /\ DOMAIN image[l] = 1 .. Len(image[l])
  BY ImageAssumption DEF TypeOK, StreamTypeOK

\* Every step keeps the place in the image true.
LEMMA PositionStep ==
    ASSUME TypeOK, Position, Phases, [Next]_vars
    PROVE  Position'
<1> USE DEF Position, Layer, GoEnd, source, goroutine, extract
<1>0. li \in Nat /\ ei \in Nat
  BY DEF TypeOK, StreamTypeOK
<1>1. CASE UNCHANGED streamed
  BY <1>1 DEF streamed
<1>2. CASE Pull
  BY <1>2, Lengths DEF Pull, GoStart, Phases
<1>3. CASE ListLayers
  BY <1>3 DEF ListLayers
<1>4. CASE OpenLayer
  <2>1. CASE li > Len(image)
    BY <1>0, <1>4, <2>1 DEF OpenLayer
  <2>2. CASE ~(li > Len(image))
    <3>1. li \in DOMAIN image
      BY <1>0, <1>4, <2>2, Lengths DEF OpenLayer
    <3>2. QED
      BY <1>4, <2>2, <3>1 DEF OpenLayer
  <2>3. QED
    BY <2>1, <2>2
<1>5. CASE NextHeader
  <2>1. li \in DOMAIN image /\ (ei > Len(Layer) \/ ei \in DOMAIN Layer)
    BY <1>0, <1>5, Lengths DEF NextHeader
  <2>2. QED
    BY <1>0, <1>5, <2>1, Lengths DEF NextHeader
<1>6. CASE ReadContent
  BY <1>6 DEF ReadContent
<1>7. CASE Drain
  BY <1>0, <1>7 DEF Drain
<1>8. CASE WriteFails
  BY <1>8 DEF WriteFails
<1>9. CASE CreateTemporary \/ CheckContext
  BY <1>9 DEF CreateTemporary, CheckContext, Fail, Goto
<1>10. CASE TarNext
  <2>1. li' = li /\ image' = image
    BY <1>10 DEF TarNext
  <2>2. CASE gpc = "header"
    <3>1. xpc = "reading" /\ xpc' = "entry" /\ gerr' = gerr /\ files' = files
      BY <1>10, <2>2, TarNextTakes DEF TarNext, Written
    <3>2. CASE gpc' = "content" /\ ei' = ei /\ Layer[ei].kind \in {"file", "nameless"}
      BY <2>1, <2>2, <3>1, <3>2
    <3>3. CASE gpc' = "next" /\ ei' = ei + 1
      BY <1>0, <2>1, <2>2, <3>1, <3>3
    <3>4. QED
      BY <1>10, <2>2, <3>2, <3>3 DEF TarNext, Written
  <2>3. CASE gpc = "body"
    <3>1. /\ xpc = "reading" /\ xpc' = "next" /\ gerr' = gerr /\ files' = files
          /\ gpc' = "next" /\ ei' = ei + 1
      BY <1>10, <2>3, TarNextTakes DEF TarNext, Written
    <3>2. QED
      BY <1>0, <2>1, <2>3, <3>1
  <2>4. CASE gpc = "trailer"
    <3>1. xpc' = "finish" /\ gerr' = "nil" /\ gpc' = "end"
      BY <1>10, <2>4, TarNextTakes DEF TarNext, Written
    <3>2. QED
      BY <2>1, <2>4, <3>1
  <2>5. QED
    BY <1>10, <2>2, <2>3, <2>4 DEF TarNext
<1>11. CASE TarNextEnds
  BY <1>11 DEF TarNextEnds, Fail, Goto
<1>12. CASE Entry
  BY <1>12 DEF Entry, Fail, Goto
<1>13. CASE CopyContent
  BY <1>0, <1>13, Lengths DEF CopyContent, Written
<1>14. CASE CopyEnds
  BY <1>14 DEF CopyEnds, Fail
<1>15. CASE Finish
  BY <1>15 DEF Finish, Fail, Goto
<1>16. CASE Swap
  BY <1>16 DEF Swap, Fail, Goto
<1>17. CASE Rename
  BY <1>17 DEF Rename, Goto
<1>18. CASE ReadFails
  BY <1>18 DEF ReadFails, ReadErrors, Reading
<1>19. CASE ReadStalls
  BY <1>19 DEF ReadStalls, Reading
<1>20. CASE DiskFails
  BY <1>20 DEF DiskFails, Fail
<1>21. QED
  BY <1>1, <1>2, <1>3, <1>4, <1>5, <1>6, <1>7, <1>8, <1>9, <1>10, <1>11,
     <1>12, <1>13, <1>14, <1>15, <1>16, <1>17, <1>18, <1>19, <1>20, StreamFrame
  DEF GoStep, ExtractStep, StreamFault

\* Every step keeps the two ends at the same entry.
LEMMA InStepStep ==
    ASSUME TypeOK, Position, InStep, Phases, [Next]_vars
    PROVE  InStep'
<1> USE DEF InStep, Layer, Flowing, Taken, GoEnd, source, goroutine, extract
<1>1. CASE UNCHANGED streamed
  BY <1>1 DEF streamed
<1>2. CASE Pull
  BY <1>2 DEF Pull, GoStart
<1>3. CASE ListLayers
  BY <1>3 DEF ListLayers
<1>4. CASE OpenLayer
  BY <1>4 DEF OpenLayer
<1>5. CASE NextHeader
  BY <1>5 DEF NextHeader
<1>6. CASE ReadContent
  BY <1>6 DEF ReadContent
<1>7. CASE Drain
  BY <1>7 DEF Drain
<1>8. CASE WriteFails
  BY <1>8 DEF WriteFails
<1>9. CASE CreateTemporary \/ CheckContext
  BY <1>9 DEF CreateTemporary, CheckContext, Fail, Goto
<1>10. CASE TarNext
  <2>1. li' = li /\ image' = image /\ files' = files
    BY <1>10, TarNextTakes DEF TarNext
  <2>2. CASE gpc = "header"
    <3>1. xpc' = "entry" /\ cur' = Layer[ei]
      BY <1>10, <2>2, TarNextTakes
    <3>2. CASE gpc' = "content" /\ ei' = ei
      BY <2>1, <3>1, <3>2
    <3>3. CASE gpc' = "next" /\ Layer[ei].kind \notin {"file", "nameless"}
      <4>1. Layer[ei].kind \in {"dir", "link"}
        BY <1>10, <2>2, <3>3, EntryAt DEF Position, Entries, Kinds
      <4>2. QED
        BY <2>1, <3>1, <3>3, <4>1
    <3>4. QED
      BY <1>10, <2>2, <3>2, <3>3 DEF TarNext, Written
  <2>3. CASE gpc = "body"
    BY <1>10, <2>3, TarNextTakes DEF TarNext, Written
  <2>4. CASE gpc = "trailer"
    BY <1>10, <2>4, TarNextTakes DEF TarNext, Written
  <2>5. QED
    BY <1>10, <2>2, <2>3, <2>4 DEF TarNext
<1>11. CASE TarNextEnds
  BY <1>11 DEF TarNextEnds, Fail, Goto
<1>12. CASE Entry
  <2>1. gpc \in {"content", "body"} =>
          cur = Layer[ei] /\ cur.kind \in {"file", "nameless"}
    BY <1>12 DEF Entry, Position
  <2>2. QED
    BY <1>12, <2>1, EntryLeads DEF Entry
<1>13. CASE CopyContent
  BY <1>13 DEF CopyContent, Written
<1>14. CASE CopyEnds
  BY <1>14 DEF CopyEnds, Fail
<1>15. CASE Finish
  BY <1>15 DEF Finish, Fail, Goto
<1>16. CASE Swap
  BY <1>16 DEF Swap, Fail, Goto
<1>17. CASE Rename
  BY <1>17 DEF Rename, Goto
<1>18. CASE ReadFails
  BY <1>18 DEF ReadFails
<1>19. CASE ReadStalls
  BY <1>19 DEF ReadStalls
<1>20. CASE DiskFails
  BY <1>20 DEF DiskFails, Fail
<1>21. QED
  BY <1>1, <1>2, <1>3, <1>4, <1>5, <1>6, <1>7, <1>8, <1>9, <1>10, <1>11,
     <1>12, <1>13, <1>14, <1>15, <1>16, <1>17, <1>18, <1>19, <1>20, StreamFrame
  DEF GoStep, ExtractStep, StreamFault

-----------------------------------------------------------------------------
(***************************************************************************)
(* The stream: what went through it.                                       *)
(***************************************************************************)

\* What a place is.
LEMMA PlaceIs ==
    ASSUME NEW p
    PROVE  p \in Places <=> /\ p = <<p[1], p[2]>>
                            /\ p[1] \in DOMAIN image
                            /\ p[2] \in DOMAIN image[p[1]]
  BY DEF Places

\* The coordinates of a place are positive numbers.
LEMMA PlaceNumbers ==
    ASSUME TypeOK, NEW p \in Places
    PROVE  /\ p[1] \in Nat /\ p[2] \in Nat
           /\ 1 <= p[1] /\ p[1] <= Len(image)
           /\ 1 <= p[2] /\ p[2] <= Len(image[p[1]])
<1>1. p[1] \in DOMAIN image /\ p[2] \in DOMAIN image[p[1]]
  BY PlaceIs
<1>2. QED
  BY <1>1, Lengths

\* A step that sends no entry to its end leaves what was sent as it was written.
LEMMA AsSentKept ==
    ASSUME AsSent, image' = image, files' = files, Sent' = Sent,
           \A p \in Sent : (p[1] < li' \/ ~altered') <=> (p[1] < li \/ ~altered),
           xpc = "entry" /\ cur.kind = "link" => xpc' = "entry" /\ cur' = cur
    PROVE  AsSent'
<1>1. Carried' = Carried
  BY DEF Carried, Places, At
<1>2. ASSUME NEW p \in Sent PROVE At(p)' = At(p) /\ Copy(p)' = Copy(p)
  <2>1. (p[1] < li' \/ ~altered') = (p[1] < li \/ ~altered)
    OBVIOUS
  <2>2. QED
    BY <2>1 DEF At, Copy
<1>3. {Copy(p)' : p \in Carried \cap Sent} = {Copy(p) : p \in Carried \cap Sent}
  BY <1>2
<1>4. QED
  BY <1>1, <1>2, <1>3 DEF AsSent

\* The entry at hand goes to its end: it is the one place that is added.
LEMMA SentGrows ==
    ASSUME TypeOK, li \in DOMAIN image, ei \in DOMAIN Layer,
           gpc # "layer", gpc' = "next", ei' = ei + 1, UNCHANGED <<image, li>>
    PROVE  /\ <<li, ei>> \in Places
           /\ <<li, ei>> \notin Sent
           /\ Sent' = Sent \cup {<<li, ei>>}
           /\ At(<<li, ei>>) = Layer[ei]
<1> DEFINE at == <<li, ei>>
<1>1. at[1] = li /\ at[2] = ei /\ li \in Nat /\ ei \in Nat
  BY DEF TypeOK, StreamTypeOK
<1>2. at \in Places
  BY <1>1, PlaceIs DEF Layer
<1>3. Places' = Places
  BY DEF Places
<1>4. at \notin Sent
  BY <1>1 DEF Sent
<1>5. ASSUME NEW p \in Places PROVE p \in Sent' <=> (p \in Sent \/ p = at)
  <2>1. p[1] \in Nat /\ p[2] \in Nat /\ p = <<p[1], p[2]>>
    BY PlaceNumbers, PlaceIs
  <2>2. p \in Sent' <=> (p[1] < li \/ (p[1] = li /\ p[2] < ei + 1))
    BY <1>3 DEF Sent
  <2>3. p \in Sent <=> (p[1] < li \/ (p[1] = li /\ p[2] < ei))
    BY DEF Sent
  <2>4. p = at <=> (p[1] = li /\ p[2] = ei)
    BY <2>1, <1>1
  <2>5. QED
    BY <1>1, <2>1, <2>2, <2>3, <2>4
<1>6. Sent' \subseteq Places /\ Sent \subseteq Places
  BY <1>3 DEF Sent
<1>7. QED
  BY <1>1, <1>2, <1>4, <1>5, <1>6 DEF At, Layer

\* An entry goes to its end: what is written out grows by it when it is a file
\* of the image, and by nothing otherwise.
LEMMA AsSentGrows ==
    ASSUME TypeOK, AsSent, li \in DOMAIN image, ei \in DOMAIN Layer,
           gpc # "layer", gpc' = "next", ei' = ei + 1,
           UNCHANGED <<image, li, altered>>,
           xpc # "entry",
           \/ Layer[ei].kind \in {"file", "dir"}
           \/ Layer[ei].kind = "link" /\ xpc' = "entry" /\ cur'.kind = "link",
           IF Layer[ei].kind = "file" /\ Layer[ei].base # Sentinel
           THEN /\ Layer[ei].base \notin Taken
                /\ files' = files \cup {[base |-> Layer[ei].base,
                                         intact |-> ~altered]}
           ELSE files' = files
    PROVE  AsSent'
<1> DEFINE at == <<li, ei>>
<1>1. at \in Places /\ at \notin Sent /\ Sent' = Sent \cup {at} /\ At(at) = Layer[ei]
  BY SentGrows
<1>2. Carried' = Carried
  BY DEF Carried, Places, At
<1>3. ASSUME NEW p PROVE At(p)' = At(p) /\ Copy(p)' = Copy(p)
  BY DEF At, Copy
<1>4. ASSUME NEW p \in Carried \cap Sent PROVE At(p).base \in Taken
  <2>1. Copy(p) \in files
    BY DEF AsSent
  <2>2. Copy(p).base = At(p).base
    BY DEF Copy
  <2>3. QED
    BY <2>1, <2>2 DEF Taken
<1>5. (\A p \in Sent : \/ At(p).kind \in {"file", "dir"}
                       \/ xpc = "entry" /\ cur.kind = "link")'
  <2>1. \A p \in Sent : At(p).kind \in {"file", "dir"}
    BY DEF AsSent
  <2>2. QED
    BY <1>1, <1>3, <2>1
<1>6. CASE Layer[ei].kind = "file" /\ Layer[ei].base # Sentinel
  <2>1. at \in Carried /\ At(at).base \notin Taken
    BY <1>1, <1>6 DEF Carried
  <2>2. (Carried \cap Sent)' = (Carried \cap Sent) \cup {at}
    BY <1>1, <1>2, <2>1
  <2>3. (\A p, q \in Carried \cap Sent : At(p).base = At(q).base => p = q)'
    BY <1>3, <1>4, <2>1, <2>2 DEF AsSent
  <2>4. Copy(at) = [base |-> Layer[ei].base, intact |-> ~altered]
    <3>1. at[1] = li /\ li \in Nat
      BY DEF TypeOK, StreamTypeOK
    <3>2. (at[1] < li \/ ~altered) = ~altered
      BY <3>1
    <3>3. QED
      BY <1>1, <3>2 DEF Copy
  <2>5. files' = {Copy(p) : p \in (Carried \cap Sent) \cup {at}}
    BY <1>6, <2>4 DEF AsSent
  <2>6. (files = {Copy(p) : p \in Carried \cap Sent})'
    BY <1>3, <2>2, <2>5
  <2>7. QED
    BY <1>5, <2>3, <2>6 DEF AsSent
<1>7. CASE ~(Layer[ei].kind = "file" /\ Layer[ei].base # Sentinel)
  <2>1. at \notin Carried
    BY <1>1, <1>7 DEF Carried
  <2>2. (Carried \cap Sent)' = Carried \cap Sent
    BY <1>1, <1>2, <2>1
  <2>3. (\A p, q \in Carried \cap Sent : At(p).base = At(q).base => p = q)'
    BY <1>3, <2>2 DEF AsSent
  <2>4. (files = {Copy(p) : p \in Carried \cap Sent})'
    BY <1>3, <1>7, <2>2 DEF AsSent
  <2>5. QED
    BY <1>5, <2>3, <2>4 DEF AsSent
<1>8. QED
  BY <1>6, <1>7

\* A step of the goroutine that sends nothing.
LEMMA FaithfulGo ==
    ASSUME TypeOK, Position, Faithful, GoStep
    PROVE  Faithful'
<1> USE DEF Faithful, Flowing, GoEnd, source, goroutine, extract
<1>0. li \in Nat /\ ei \in Nat
  BY DEF TypeOK, StreamTypeOK
<1>1. image' = image /\ files' = files /\ xpc' = xpc /\ cur' = cur
  BY DEF GoStep, ListLayers, OpenLayer, NextHeader, ReadContent, Drain, WriteFails
<1>2. Places' = Places
  BY <1>1 DEF Places
<1>3. CASE ListLayers
  <2>1. CASE gpc' = "layer"
    <3>1. li = 1 /\ ei = 1 /\ li' = li /\ ei' = ei /\ altered' = altered
      BY <1>3 DEF ListLayers, Position
    <3>2. Sent = {} /\ Sent' = {}
      BY <1>2, <3>1, PlaceNumbers DEF Sent
    <3>3. QED
      BY <1>1, <1>3, <3>1, <3>2, AsSentKept DEF ListLayers
  <2>2. QED
    BY <1>3, <2>1 DEF ListLayers
<1>4. CASE OpenLayer
  <2>0. gpc = "layer" /\ li' = li /\ gerr' = gerr
    BY <1>4 DEF OpenLayer
  <2>1. CASE li > Len(image)
    <3>1. gpc' = "trailer" /\ altered' = altered
      BY <1>4, <2>1 DEF OpenLayer
    <3>2. Sent' = Sent
      BY <1>0, <1>2, <2>0, <2>1, PlaceNumbers, Lengths DEF Sent
    <3>3. QED
      BY <1>1, <2>0, <3>1, <3>2, AsSentKept
  <2>2. CASE ~(li > Len(image))
    <3>1. gpc' = "next" /\ ei' = 1
      BY <1>4, <2>2 DEF OpenLayer
    <3>2. Sent' = Sent /\ \A p \in Sent : p[1] < li
      BY <1>2, <2>0, <3>1, PlaceNumbers DEF Sent
    <3>3. QED
      BY <1>1, <2>0, <3>1, <3>2, AsSentKept
  <2>3. QED
    BY <2>1, <2>2
<1>5. CASE NextHeader
  <2>1. CASE gpc' = "end"
    BY <1>5, <2>1 DEF NextHeader, Position
  <2>2. CASE gpc' \in {"drain", "header"}
    <3>1. gpc = "next" /\ UNCHANGED <<li, ei, altered, gerr>>
      BY <1>5, <2>2 DEF NextHeader
    <3>2. Sent' = Sent
      BY <1>2, <2>2, <3>1 DEF Sent
    <3>3. QED
      BY <1>1, <2>2, <3>1, <3>2, AsSentKept
  <2>3. QED
    BY <1>5, <2>1, <2>2 DEF NextHeader
<1>6. CASE ReadContent
  <2>1. gpc = "content" /\ gpc' = "body" /\ UNCHANGED <<li, ei, altered, gerr>>
    BY <1>6 DEF ReadContent
  <2>2. Sent' = Sent
    BY <1>2, <2>1 DEF Sent
  <2>3. QED
    BY <1>1, <2>1, <2>2, AsSentKept
<1>7. CASE Drain
  <2>0. gpc = "drain" /\ altered' = altered
    BY <1>7 DEF Drain
  <2>1. CASE altered
    BY <1>7, <2>1 DEF Drain
  <2>2. CASE ~altered
    <3>1. gpc' = "layer" /\ li' = li + 1 /\ gerr' = gerr
      BY <1>7, <2>2 DEF Drain
    <3>2. li \in DOMAIN image /\ ei > Len(image[li])
      BY <2>0 DEF Position, Layer
    <3>3. ASSUME NEW p \in Places PROVE p \in Sent' <=> p \in Sent
      BY <1>0, <1>2, <2>0, <3>1, <3>2, <3>3, PlaceNumbers, Lengths DEF Sent
    <3>4. Sent' = Sent
      BY <1>2, <3>3 DEF Sent
    <3>5. QED
      BY <1>1, <2>0, <2>2, <3>1, <3>4, AsSentKept
  <2>3. QED
    BY <2>1, <2>2
<1>8. CASE WriteFails
  BY <1>8 DEF WriteFails
<1>9. QED
  BY <1>3, <1>4, <1>5, <1>6, <1>7, <1>8 DEF GoStep

\* A step of Extract, or of both ends at once.
LEMMA FaithfulExtract ==
    ASSUME TypeOK, Position, InStep, Faithful, ExtractStep
    PROVE  Faithful'
<1> USE DEF Faithful, Flowing, source, goroutine, extract
<1>1. image' = image /\ li' = li /\ altered' = altered
  BY DEF ExtractStep, CreateTemporary, CheckContext, TarNext, TarNextEnds, Entry, CopyContent,
         CopyEnds, Finish, Swap, Rename
<1>2. ASSUME UNCHANGED <<goroutine, files>>, xpc # "failed",
             xpc = "entry" => cur.kind # "link"
      PROVE  Faithful'
  <2>1. Sent' = Sent
    BY <1>1, <1>2 DEF Sent, Places
  <2>2. QED
    BY <1>1, <1>2, <2>1, AsSentKept
<1>3. CASE xpc' = "failed"
  BY <1>3
<1>4. CASE CreateTemporary \/ CheckContext
  BY <1>2, <1>3, <1>4 DEF CreateTemporary, CheckContext, Fail, Goto
<1>5. CASE TarNext
  <2>0. files' = files /\ xpc = "reading"
    BY <1>5, TarNextTakes DEF TarNext
  <2>1. CASE gpc = "header"
    <3>0. xpc' = "entry" /\ cur' = Layer[ei] /\ gerr' = gerr
      BY <1>5, <2>1, TarNextTakes DEF TarNext, Written
    <3>1. CASE gpc' = "content" /\ ei' = ei
      <4>1. Sent' = Sent
        BY <1>1, <2>1, <3>1 DEF Sent, Places
      <4>2. QED
        BY <1>1, <2>0, <2>1, <3>0, <3>1, <4>1, AsSentKept
    <3>2. CASE gpc' = "next" /\ ei' = ei + 1 /\ Layer[ei].kind \notin {"file", "nameless"}
      <4>1. li \in DOMAIN image /\ ei \in DOMAIN Layer /\ Layer[ei].kind # "whiteout"
        BY <2>1 DEF Position
      <4>2. Layer[ei].kind \in {"dir", "link"}
        BY <3>2, <4>1, EntryAt DEF Entries, Kinds
      <4>3. AsSent
        BY <2>0, <2>1
      <4>4. AsSent'
        BY <1>1, <2>0, <2>1, <3>0, <3>2, <4>1, <4>2, <4>3, AsSentGrows
      <4>5. QED
        BY <4>4
    <3>3. QED
      BY <1>5, <2>1, <3>1, <3>2 DEF TarNext, Written
  <2>2. CASE gpc = "body"
    <3>1. gpc' = "next" /\ ei' = ei + 1
      BY <1>5, <2>2 DEF TarNext, Written
    <3>2. /\ li \in DOMAIN image /\ ei \in DOMAIN Layer
          /\ Layer[ei].kind = "file" /\ Layer[ei].base = Sentinel
      BY <2>0, <2>2 DEF Position, InStep
    <3>3. AsSent
      BY <2>0, <2>2
    <3>4. AsSent'
      BY <1>1, <2>0, <2>2, <3>1, <3>2, <3>3, AsSentGrows
    <3>5. QED
      BY <3>4
  <2>3. CASE gpc = "trailer"
    <3>1. gpc' = "end" /\ ei' = ei /\ xpc' = "finish" /\ cur' = cur
      BY <1>5, <2>3, TarNextTakes DEF TarNext, Written, GoEnd
    <3>2. Sent' = Sent
      BY <1>1, <2>3, <3>1 DEF Sent, Places
    <3>3. QED
      BY <1>1, <2>0, <2>3, <3>1, <3>2, AsSentKept
  <2>4. QED
    BY <1>5, <2>1, <2>2, <2>3 DEF TarNext
<1>6. CASE TarNextEnds
  BY <1>2, <1>3, <1>6 DEF TarNextEnds, Fail, Goto
<1>7. CASE Entry
  <2>1. CASE cur.kind = "link"
    BY <1>3, <1>7, <2>1, EntryLeads
  <2>2. CASE cur.kind # "link"
    BY <1>2, <1>3, <1>7, <2>2, EntryLeads DEF Entry
  <2>3. QED
    BY <2>1, <2>2
<1>8. CASE CopyContent
  <2>1. /\ gpc = "body" /\ gpc' = "next" /\ ei' = ei + 1 /\ xpc = "copying"
        /\ files' = files \cup {[base |-> cur.base, intact |-> ~altered]}
    BY <1>8 DEF CopyContent, Written
  <2>2. /\ li \in DOMAIN image /\ ei \in DOMAIN Layer /\ cur = Layer[ei]
        /\ Layer[ei].kind = "file"
        /\ Layer[ei].base # Sentinel /\ Layer[ei].base \notin Taken
    BY <2>1 DEF Position, InStep
  <2>3. AsSent
    BY <2>1
  <2>4. AsSent'
    BY <1>1, <2>1, <2>2, <2>3, AsSentGrows
  <2>5. QED
    BY <2>4
<1>9. CASE CopyEnds
  BY <1>3, <1>9 DEF CopyEnds, Fail
<1>10. CASE Finish
  BY <1>2, <1>3, <1>10 DEF Finish, Fail, Goto
<1>11. CASE Swap
  BY <1>2, <1>3, <1>11 DEF Swap, Fail, Goto
<1>12. CASE Rename
  BY <1>2, <1>12 DEF Rename, Goto
<1>13. QED
  BY <1>4, <1>5, <1>6, <1>7, <1>8, <1>9, <1>10, <1>11, <1>12 DEF ExtractStep

\* Every step keeps the files those that were sent.
LEMMA FaithfulStep ==
    ASSUME TypeOK, Position, InStep, Faithful, Phases, [Next]_vars
    PROVE  Faithful'
<1>1. CASE UNCHANGED streamed
  BY <1>1 DEF streamed, Faithful, Flowing, AsSent, Sent, Places, Carried, At, Copy
<1>2. CASE Pull
  <2>1. li' = 1 /\ ei' = 1 /\ image' = image /\ files' = {}
    BY <1>2 DEF Pull, GoStart, Phases, Position, source
  <2>2. Sent' = {}
    <3>1. ASSUME NEW p \in Places PROVE ~(p[1] < 1) /\ ~(p[1] = 1 /\ p[2] < 1)
      BY PlaceNumbers
    <3>2. Places' = Places
      BY <2>1 DEF Places
    <3>3. QED
      BY <2>1, <3>1, <3>2 DEF Sent
  <2>3. AsSent'
    BY <2>1, <2>2 DEF AsSent
  <2>4. QED
    BY <2>3 DEF Faithful
<1>3. CASE GoStep
  BY <1>3, FaithfulGo
<1>4. CASE ExtractStep
  BY <1>4, FaithfulExtract
<1>5. CASE StreamFault
  BY <1>5 DEF StreamFault, ReadFails, ReadStalls, DiskFails, GoEnd, Fail,
              ReadErrors, Faithful, Flowing, Position, Reading
<1>6. QED
  BY <1>1, <1>2, <1>3, <1>4, <1>5, StreamFrame

-----------------------------------------------------------------------------
(***************************************************************************)
(* The command.                                                            *)
(***************************************************************************)

\* Where the extraction may go in a step of its own, or of a fault.
LEMMA ExtractMoves ==
    ASSUME GoStep \/ ExtractStep \/ StreamFault
    PROVE  /\ xpc \in {"idle", "ok", "failed"} => xpc' = xpc /\ xerr' = xerr
           /\ xpc # "idle" => xpc' # "idle"
           /\ xpc' = "ok" => xpc = "ok" \/ (xpc = "rename" /\ slot' = "filled")
           /\ slot' # slot => xpc \in {"swap", "rename"}
           /\ xpc \in {"swap", "rename"} /\ xpc' # xpc =>
                xpc' \in {"rename", "ok"} \/ (xpc' = "failed" /\ xerr' = "other")
           /\ xpc \notin {"rename", "ok", "failed"} /\ xpc' = xpc => slot' = slot
<1>1. CASE GoStep
  BY <1>1 DEF GoStep, ListLayers, OpenLayer, NextHeader, ReadContent, Drain,
              WriteFails, extract
<1>2. CASE CreateTemporary \/ CheckContext
  BY <1>2 DEF CreateTemporary, CheckContext, Fail, Goto
<1>3. CASE TarNext
  BY <1>3, TarNextTakes DEF TarNext
<1>4. CASE TarNextEnds
  BY <1>4 DEF TarNextEnds, Fail, Goto
<1>5. CASE Entry
  BY <1>5, EntryLeads DEF Entry
<1>6. CASE CopyContent
  BY <1>6 DEF CopyContent
<1>7. CASE CopyEnds
  BY <1>7 DEF CopyEnds, Fail
<1>8. CASE Finish
  BY <1>8 DEF Finish, Fail, Goto
<1>9. CASE Swap
  BY <1>9 DEF Swap, Fail, Goto
<1>10. CASE Rename
  BY <1>10 DEF Rename, Goto
<1>11. CASE StreamFault
  BY <1>11 DEF StreamFault, ReadFails, ReadStalls, DiskFails, Fail, extract
<1>12. QED
  BY <1>1, <1>2, <1>3, <1>4, <1>5, <1>6, <1>7, <1>8, <1>9, <1>10, <1>11
  DEF ExtractStep

\* Only the rename fills the slot, and nothing follows it.
LEMMA FilledStep ==
    ASSUME slot = "filled" => xpc = "ok", Phases, [Next]_vars
    PROVE  slot' = "filled" => xpc' = "ok"
<1>1. CASE UNCHANGED streamed
  BY <1>1 DEF streamed
<1>2. CASE Pull
  BY <1>2 DEF Pull, Phases
<1>3. CASE GoStep \/ StreamFault
  BY <1>3, ExtractMoves
  DEF GoStep, ListLayers, OpenLayer, NextHeader, ReadContent, Drain, WriteFails,
      StreamFault, ReadFails, ReadStalls, DiskFails
<1>4. CASE ExtractStep
  <2>1. CASE Swap
    BY <2>1 DEF Swap, Fail, Goto, Replaceable
  <2>2. CASE Rename
    BY <2>2 DEF Rename, Goto
  <2>3. CASE ~Swap /\ ~Rename
    <3>1. slot' = slot
      BY <1>4, <2>3
      DEF ExtractStep, CreateTemporary, CheckContext, TarNext, TarNextEnds, Entry, CopyContent,
          CopyEnds, Finish
    <3>2. QED
      BY <1>4, <3>1, ExtractMoves
  <2>4. QED
    BY <2>1, <2>2, <2>3
<1>5. QED
  BY <1>1, <1>2, <1>3, <1>4, StreamFrame

\* Every step keeps main and the extraction in order.
LEMMA PhasesStep ==
    ASSUME TypeOK, Phases, [Next]_vars
    PROVE  Phases'
<1> USE DEF Phases, Exit, command, stream, handler, extract
<1>1. CASE Main
  BY <1>1 DEF Main, CheckArgs, CheckState, Sweep, Pull, PullFails, FillReturns,
              SetCode
<1>2. CASE Handler
  BY <1>2 DEF Handler, TakeSignal, StopSignals, PassSignal
<1>3. CASE (GoStep \/ ExtractStep \/ StreamFault) /\ UNCHANGED <<command, handler, sent>>
  BY <1>3, ExtractMoves
<1>4. CASE CacheFails \/ PullStalls
  BY <1>4 DEF CacheFails, PullStalls
<1>5. ASSUME NEW s \in Signals, Signal(s) PROVE Phases'
  BY <1>5 DEF Signal
<1>6. CASE UNCHANGED vars
  BY <1>6 DEF vars
<1>7. QED
  BY <1>1, <1>2, <1>3, <1>4, <1>5, <1>6 DEF Next, Goroutine, Extract, Fault

\* An error that wraps context.Canceled comes after the cancellation.
LEMMA CanceledStep ==
    ASSUME Interruption, GoStep \/ ExtractStep \/ StreamFault
    PROVE  /\ ctx' = ctx
           /\ "canceled" \in {gerr', xerr'} => ctx
<1> USE DEF Interruption, GoEnd, source, goroutine, extract
<1>1. CASE GoStep
  BY <1>1 DEF GoStep, ListLayers, OpenLayer, NextHeader, ReadContent, Drain, WriteFails
<1>2. CASE CreateTemporary \/ CheckContext
  BY <1>2 DEF CreateTemporary, CheckContext, Fail, Goto
<1>3. CASE TarNext
  BY <1>3, TarNextTakes DEF TarNext, Written
<1>4. CASE TarNextEnds
  BY <1>4 DEF TarNextEnds, Fail, Goto
<1>5. CASE Entry
  BY <1>5, EntryLeads DEF Entry
<1>6. CASE CopyContent
  BY <1>6 DEF CopyContent, Written
<1>7. CASE CopyEnds
  BY <1>7 DEF CopyEnds, Fail
<1>8. CASE Finish
  BY <1>8 DEF Finish, Fail, Goto
<1>9. CASE Swap
  BY <1>9 DEF Swap, Fail, Goto
<1>10. CASE Rename
  BY <1>10 DEF Rename, Goto
<1>11. CASE StreamFault
  BY <1>11 DEF StreamFault, ReadFails, ReadStalls, DiskFails, Fail, ReadErrors
<1>12. QED
  BY <1>1, <1>2, <1>3, <1>4, <1>5, <1>6, <1>7, <1>8, <1>9, <1>10, <1>11
  DEF ExtractStep

\* Every step keeps the signal on its way.
LEMMA InterruptionStep ==
    ASSUME TypeOK, Interruption, [Next]_vars
    PROVE  Interruption'
<1> USE DEF Interruption, Exit, command, stream, handler, goroutine, extract
<1>1. CASE CheckArgs \/ CheckState \/ Sweep \/ Pull \/ FillReturns \/ SetCode \/ CacheFails
  BY <1>1 DEF CheckArgs, CheckState, Sweep, Pull, FillReturns, SetCode, CacheFails
<1>2. CASE PullFails \/ PullStalls
  BY <1>2 DEF PullFails, PullStalls, ReadErrors
<1>3. CASE Handler
  BY <1>3 DEF Handler, TakeSignal, StopSignals, PassSignal, TypeOK
<1>4. CASE (GoStep \/ ExtractStep \/ StreamFault) /\ UNCHANGED <<command, handler, sent>>
  BY <1>4, CanceledStep
<1>5. ASSUME NEW s \in Signals, Signal(s) PROVE Interruption'
  BY <1>5 DEF Signal
<1>6. CASE UNCHANGED vars
  BY <1>6 DEF vars
<1>7. QED
  BY <1>1, <1>2, <1>3, <1>4, <1>5, <1>6 DEF Next, Main, Goroutine, Extract, Fault

\* Every step keeps what is under the name true to the outcome.
LEMMA OutcomeStep ==
    ASSUME TypeOK, Position, Phases, Interruption, Outcome, [Next]_vars
    PROVE  Outcome'
<1> USE DEF Outcome, Exit, command, stream, handler, extract
<1>1. CASE CheckArgs \/ Sweep \/ CacheFails
  BY <1>1 DEF CheckArgs, Sweep, CacheFails, Phases
<1>2. CASE CheckState
  <2>1. xpc = "idle" /\ slot = found
    BY <1>2 DEF CheckState, Phases
  <2>2. QED
    BY <1>2, <2>1 DEF CheckState
<1>3. CASE Pull
  BY <1>3 DEF Pull, Phases
<1>4. CASE PullFails \/ PullStalls
  <2>1. xpc = "idle" /\ slot = found
    BY <1>4 DEF PullFails, PullStalls, Phases
  <2>2. QED
    BY <1>4, <2>1 DEF PullFails, PullStalls, ReadErrors
<1>5. CASE FillReturns
  <2>1. /\ xpc' = xpc /\ xerr' = xerr /\ slot' = slot /\ found' = found
        /\ mpc' = "exit" /\ err' = IF xpc = "ok" THEN "nil" ELSE xerr
        /\ xpc \in {"ok", "failed"}
    BY <1>5 DEF FillReturns
  <2>2. xpc = "failed" => xerr # "nil"
    BY DEF TypeOK, StreamTypeOK, Errors
  <2>3. QED
    BY <2>1, <2>2
<1>6. CASE SetCode
  <2>1. /\ UNCHANGED <<xpc, xerr, slot, found, err, sig>>
        /\ mpc = "exit"
        /\ code' = IF RunCode = ExitInterrupted /\ stopped # None
                   THEN 128 + stopped ELSE RunCode
    BY <1>6 DEF SetCode
  <2>2. sig \in Nat
    BY SignalAssumption DEF TypeOK, Signals, None
  <2>3. CASE err = "nil"
    <3>1. RunCode = 0 BY <2>3 DEF RunCode
    <3>2. QED BY <2>1, <2>3, <3>1 DEF ExitInterrupted
  <2>4. CASE err = "canceled"
    <3>1. RunCode = ExitInterrupted BY <2>4 DEF RunCode
    <3>2. stopped = sig /\ sig # None
      BY <2>4 DEF Interruption
    <3>3. code' = 128 + sig
      BY <2>1, <3>1, <3>2
    <3>4. QED BY <2>1, <2>2, <2>4, <3>3
  <2>5. CASE err \notin {"nil", "canceled"}
    <3>1. RunCode = 1 BY <2>5 DEF RunCode
    <3>2. QED BY <2>1, <2>5, <3>1 DEF ExitInterrupted
  <2>6. QED
    BY <2>3, <2>4, <2>5
<1>7. CASE Handler
  BY <1>7 DEF Handler, Running, TakeSignal, StopSignals, PassSignal
<1>8. CASE (GoStep \/ ExtractStep \/ StreamFault) /\ UNCHANGED <<command, handler, sent>>
  BY <1>8, ExtractMoves DEF Phases
<1>9. ASSUME NEW s \in Signals, Signal(s) PROVE Outcome'
  BY <1>9 DEF Signal
<1>10. CASE UNCHANGED vars
  BY <1>10 DEF vars
<1>11. QED
  BY <1>1, <1>2, <1>3, <1>4, <1>5, <1>6, <1>7, <1>8, <1>9, <1>10
  DEF Next, Main, Goroutine, Extract, Fault

\* Every step keeps the Remote the one accepted.
LEMMA ReachedStep ==
    ASSUME Position, Phases, Reached, [Next]_vars
    PROVE  Reached'
<1> USE DEF Exit, command, stream, goroutine, handler, extract
<1>0. UNCHANGED <<args, remote>> => (Accepted(remote)' <=> Accepted(remote))
  BY DEF Accepted, Validate, ValidCachePath, Conflict, PullerFor, NewRemote,
         CAPool, CheckCachePath
<1>1. CASE CheckArgs
  <2>1. CASE mpc' = "state"
    <3>1. Accepted(remote')
      BY <1>1, <2>1 DEF CheckArgs
    <3>2. args' = args
      BY <1>1 DEF CheckArgs
    <3>3. Accepted(remote)'
      BY <3>1, <3>2
      DEF Accepted, Validate, ValidCachePath, Conflict, PullerFor, NewRemote,
          CAPool, CheckCachePath
    <3>4. QED
      BY <3>3 DEF Reached
  <2>2. CASE mpc' = "exit"
    <3>1. gpc' = "off"
      BY <1>1 DEF CheckArgs, Phases, Position
    <3>2. QED
      BY <2>2, <3>1 DEF Reached
  <2>3. QED
    BY <1>1, <2>1, <2>2 DEF CheckArgs
<1>2. CASE CheckState \/ Sweep \/ Pull \/ PullFails \/ FillReturns \/ SetCode
           \/ CacheFails \/ PullStalls
  BY <1>0, <1>2
  DEF Reached, CheckState, Sweep, Pull, GoStart, PullFails, FillReturns, SetCode,
      CacheFails, PullStalls
<1>3. CASE Handler
  BY <1>0, <1>3 DEF Reached, Handler, TakeSignal, StopSignals, PassSignal
<1>4. CASE (GoStep \/ ExtractStep \/ StreamFault) /\ UNCHANGED <<command, handler, sent>>
  <2>1. gpc = "off" => gpc' = "off"
    BY <1>4, TarNextTakes
    DEF GoStep, ListLayers, OpenLayer, NextHeader, ReadContent, Drain, WriteFails,
        ExtractStep, CreateTemporary, CheckContext, TarNext, TarNextEnds, Entry, CopyContent,
        CopyEnds, Finish, Swap, Rename, StreamFault, ReadFails, ReadStalls,
        DiskFails, Reading
  <2>2. QED
    BY <1>0, <1>4, <2>1 DEF Reached
<1>5. ASSUME NEW s \in Signals, Signal(s) PROVE Reached'
  BY <1>0, <1>5 DEF Reached, Signal
<1>6. CASE UNCHANGED vars
  BY <1>0, <1>6 DEF Reached, vars
<1>7. QED
  BY <1>1, <1>2, <1>3, <1>4, <1>5, <1>6 DEF Next, Main, Goroutine, Extract, Fault

-----------------------------------------------------------------------------
(***************************************************************************)
(* The invariants together, and what follows from them.                    *)
(***************************************************************************)

\* What each step keeps.
IInv == TypeOK /\ Streaming /\ Phases /\ Interruption /\ Outcome /\ Reached

\* The invariants of the stream and of the command hold in every reachable
\* state, the ones after the command has exited or was killed included.
LEMMA Invariance == Spec => []IInv
<1>1. Init => IInv
  <2> SUFFICES ASSUME Init PROVE IInv
    OBVIOUS
  <2>1. Streaming
    BY DEF Init, StreamInit, Streaming, Position, InStep, Faithful, Flowing, Slots
  <2>2. Phases /\ Interruption /\ Outcome /\ Reached
    BY DEF Init, StreamInit, Phases, Interruption, Outcome, Reached
  <2>3. QED
    BY <2>1, <2>2, TypeInit DEF IInv
<1>2. IInv /\ [Next]_vars => IInv'
  <2> SUFFICES ASSUME IInv, [Next]_vars PROVE IInv'
    OBVIOUS
  <2> USE DEF IInv, Streaming
  <2>1. TypeOK' BY TypeStep
  <2>2. Position' /\ InStep' /\ Faithful' BY PositionStep, InStepStep, FaithfulStep
  <2>3. (slot = "filled" => xpc = "ok")' BY FilledStep
  <2>4. Phases' /\ Interruption' /\ Outcome' /\ Reached'
    BY PhasesStep, InterruptionStep, OutcomeStep, ReachedStep
  <2>5. QED
    BY <2>1, <2>2, <2>3, <2>4
<1>3. QED
  BY <1>1, <1>2, PTL DEF Spec

\* TypeOK: types hold, for every image, command line and order of signals.
THEOREM TypeCorrect == Spec => []TypeOK
<1>1. IInv => TypeOK
  BY DEF IInv
<1>2. QED
  BY <1>1, Invariance, PTL

\* PublishedIsTheImage: whatever the images hold, and wherever reads, writes and
\* the context fail, what Extract renames into place is the whole image, each
\* file once and with the content its digest vouches for.
THEOREM PublishedWhole == Spec => []PublishedIsTheImage
<1>1. IInv => PublishedIsTheImage
  <2> SUFFICES ASSUME IInv, slot = "filled" PROVE PublishedIsTheImage
    BY DEF PublishedIsTheImage
  <2>1. AsSent /\ li > Len(image) /\ xpc = "ok" /\ TypeOK
    BY DEF IInv, Streaming, Position, Faithful
  <2>2. ASSUME NEW p \in Places PROVE p[1] < li
    BY <2>1, <2>2, PlaceNumbers, Lengths DEF TypeOK, StreamTypeOK
  <2>3. Sent = Places /\ Carried \cap Sent = Carried
    BY <2>2 DEF Sent, Carried
  <2>4. ASSUME NEW p \in Carried
        PROVE  Copy(p) = [base |-> At(p).base, intact |-> TRUE]
    <3>1. (p[1] < li \/ ~altered) = TRUE
      BY <2>2 DEF Carried
    <3>2. QED
      BY <3>1 DEF Copy
  <2>5. files = {[base |-> At(p).base, intact |-> TRUE] : p \in Carried}
    BY <2>1, <2>3, <2>4 DEF AsSent
  <2>6. QED
    BY <2>1, <2>3, <2>5 DEF AsSent, PublishedIsTheImage
<1>2. QED
  BY <1>1, Invariance, PTL

\* ExitNamesSignal: however many signals arrive and whenever they do, an exit
\* code above 1 is 128 and the first one the handler took.
THEOREM SignalNamed == Spec => []ExitNamesSignal
<1>1. IInv => ExitNamesSignal
  BY DEF IInv, Outcome, ExitNamesSignal
<1>2. QED
  BY <1>1, Invariance, PTL

\* ExitTellsTheTruth: an exit code of 0 means the resource is there, and one
\* that says interrupted that what was under the name has not been touched.
THEOREM ExitTrue == Spec => []ExitTellsTheTruth
<1>1. IInv => ExitTellsTheTruth
  BY DEF IInv, Outcome, ExitTellsTheTruth
<1>2. QED
  BY <1>1, Invariance, PTL

\* RegistryAsAsked: every combination of the TLS settings is refused or leads to
\* the transport it asks for.
THEOREM RegistryReached == Spec => []RegistryAsAsked
<1>1. IInv => RegistryAsAsked
  <2> SUFFICES ASSUME IInv, gpc # "off", args.shape = "reference"
               PROVE  RegistryAsAsked
    BY DEF RegistryAsAsked
  <2>1. ~Conflict /\ NewRemote(remote)
    BY DEF IInv, Reached, Accepted, PullerFor
  <2>2. args \in Args
    BY ArgsAssumption DEF IInv, TypeOK
  <2>3. args.plain \in BOOLEAN /\ args.skip \in BOOLEAN
    BY <2>2 DEF Args
  <2>4. CASE args.ca = "none" /\ ~args.skip
    BY <2>1, <2>4 DEF NewRemote, RegistryAsAsked
  <2>5. CASE ~(args.ca = "none" /\ ~args.skip)
    <3>1. args.plain = FALSE
      BY <2>1, <2>3, <2>5 DEF Conflict
    <3>2. remote.plain = FALSE /\ remote.transport = IF args.skip THEN "insecure" ELSE "ca"
      BY <2>1, <2>5 DEF NewRemote
    <3>3. QED
      BY <2>1, <2>5, <3>1, <3>2 DEF Conflict, RegistryAsAsked
  <2>6. QED
    BY <2>4, <2>5
<1>2. QED
  BY <1>1, Invariance, PTL

=============================================================================
