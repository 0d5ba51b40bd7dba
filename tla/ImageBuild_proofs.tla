------------------------- MODULE ImageBuild_proofs -------------------------
(* For a stream of any length: an image reported as built is complete, no party *)
(* of the build is left waiting, and the steps of a build are bounded.           *)
EXTENDS ImageBuild, TLAPS

\* Nothing is lost between the exporter and tar while tar runs.
Held == IF copier = "write" THEN 1 ELSE 0

StreamInv ==
  /\ tar \in {"none", "running"} => written = extracted + stdin + Held
  /\ tar = "none" <=> copier = "none"
  /\ tar = "running" /\ copier = "done" => "write" \notin pipe
  /\ tar = "ok" => extracted = Chunks \/ ("write" \notin pipe /\ extracted = written)
  /\ "write" \notin pipe => exporter = "done"
  /\ exportErr = "ok" => written = Chunks
  /\ exportErr # "empty" <=> exporter \in {"close", "done"}
  /\ exporter = "none" <=> main \in {"pull", "start"} \/ (main = "ended" /\ tar = "none")
  /\ tar = "none" <=> exporter = "none"

\* What each step of the command may rely on.
StepInv ==
  /\ main \in {"start", "run", "receive", "config", "agent", "pack", "mkfs"} => dir = "made"
  /\ main \in {"receive", "config", "agent", "pack", "mkfs"} => tar = "ok"
  /\ main \in {"config", "agent", "pack", "mkfs"} => exportErr = "ok"
  /\ main = "agent" => "config" \in installed
  /\ main \in {"pack", "mkfs"} => installed = {"config", "agent"}
  /\ result = "built" => main \in {"remove", "ended"}

IInv == TypeOK /\ StreamInv /\ StepInv /\ BuiltIsComplete

LEMMA InitInv == Init => IInv
<1> SUFFICES ASSUME Init PROVE IInv
  OBVIOUS
<1>1. TypeOK
  <2>1. written \in 0 .. Chunks /\ extracted \in 0 .. Chunks
    BY ChunksAssumption DEF Init
  <2>2. installed \subseteq {"config", "agent"} /\ dir = "none"
    BY DEF Init
  <2> QED
    BY <2>1, <2>2 DEF Init, TypeOK
<1>2. StreamInv
  BY DEF Init, StreamInv, Held
<1>3. StepInv /\ BuiltIsComplete
  BY DEF Init, StepInv, BuiltIsComplete
<1> QED
  BY <1>1, <1>2, <1>3 DEF IInv

\* The exporter and the two parties of extractTar: what is in flight is in the
\* hands of exactly one of them, and the ends of the pipe close behind it.
LEMMA StreamSteps ==
  ASSUME IInv, Exporter \/ Copier \/ Tar
  PROVE  IInv'
<1> USE ChunksAssumption DEF IInv, TypeOK, StreamInv, StepInv, Held, BuiltIsComplete,
      exportVars, tarVars, fileVars
<1>1. CASE Write
  BY <1>1 DEF Write
<1>2. CASE ExportReturns
  BY <1>2 DEF ExportReturns, Report
<1>3. CASE ExportFails
  BY <1>3 DEF ExportFails, Report
<1>4. CASE CloseWriter
  BY <1>4 DEF CloseWriter
<1>5. CASE CopyToStdin
  BY <1>5 DEF CopyToStdin
<1>6. CASE CopyEnds
  BY <1>6 DEF CopyEnds
<1>7. CASE Extract
  BY <1>7 DEF Extract
<1>8. CASE TarExits
  BY <1>8 DEF TarExits
<1>9. CASE TarFails
  BY <1>9 DEF TarFails
<1> QED
  BY <1>1, <1>2, <1>3, <1>4, <1>5, <1>6, <1>7, <1>8, <1>9 DEF Exporter, Copier, Tar

\* The command: each step has what the next one relies on.
LEMMA CommandSteps ==
  ASSUME IInv, Main
  PROVE  IInv'
<1> USE ChunksAssumption DEF IInv, TypeOK, StreamInv, StepInv, Held, BuiltIsComplete,
      exportVars, tarVars, fileVars
<1>1. CASE Pull
  BY <1>1 DEF Pull, Goto, Fail
<1>2. CASE StartExport
  BY <1>2 DEF StartExport, Goto
<1>3. CASE RunReturns
  BY <1>3 DEF RunReturns, Goto, Fail
<1>4. CASE CloseReader
  BY <1>4 DEF CloseReader, Goto
<1>5. CASE AwaitExporter
  BY <1>5 DEF AwaitExporter, Goto
<1>6. CASE ReceiveExportErr
  BY <1>6 DEF ReceiveExportErr, Goto, Fail
<1>7. CASE Install("config", "agent")
  <2>1. TypeOK' /\ StepInv' /\ BuiltIsComplete'
    BY <1>7 DEF Install, Goto, Fail
  <2>2. StreamInv'
    BY <1>7 DEF Install, Goto, Fail
  <2> QED
    BY <2>1, <2>2 DEF IInv
<1>8. CASE Install("agent", "pack")
  <2>1. TypeOK' /\ StepInv' /\ BuiltIsComplete'
    BY <1>8 DEF Install, Goto, Fail
  <2>2. StreamInv'
    BY <1>8 DEF Install, Goto, Fail
  <2> QED
    BY <2>1, <2>2 DEF IInv
<1>9. CASE PackExt4
  BY <1>9 DEF PackExt4, Goto, Fail
<1>10. CASE Mkfs
  BY <1>10 DEF Mkfs, Complete
<1>11. CASE RemoveAll
  <2>0. main = "remove" /\ main' = "ended" /\ dir' \in {"none", "left"}
        /\ UNCHANGED <<result, exportVars, pipe, tarVars, installed, out>>
    BY <1>11 DEF RemoveAll, Goto
  <2>1. TypeOK'
    <3>1. /\ main' \in {"remove", "ended"} /\ dir' \in {"none", "made", "left"}
          /\ UNCHANGED <<result, exporter, exportErr, written, pipe, copier, stdin, tar, extracted>>
          /\ UNCHANGED <<installed, out>>
      BY <2>0
    <3> HIDE DEF IInv, StreamInv, StepInv, BuiltIsComplete
    <3>2. TypeOK
      BY DEF IInv
    <3> QED
      BY <3>1, <3>2
  <2>2. StreamInv'
    BY <1>11 DEF RemoveAll, Goto
  <2>3. StepInv' /\ BuiltIsComplete'
    BY <1>11 DEF RemoveAll, Goto
  <2> QED
    BY <2>1, <2>2, <2>3
<1> QED
  BY <1>1, <1>2, <1>3, <1>4, <1>5, <1>6, <1>7, <1>8, <1>9, <1>10, <1>11 DEF Main

LEMMA NextInv ==
  ASSUME IInv, [Next]_vars
  PROVE  IInv'
<1>1. CASE Next
  BY <1>1, StreamSteps, CommandSteps DEF Next
<1>2. CASE UNCHANGED vars
  BY <1>2 DEF vars, exportVars, tarVars, fileVars, IInv, TypeOK, StreamInv, StepInv, Held,
              BuiltIsComplete
<1> QED
  BY <1>1, <1>2

LEMMA Invariance == Spec => []IInv
<1> QED
  BY InitInv, NextInv, PTL DEF Spec

\* No party of the build ever leaves the steps written for it, and tar extracts
\* no more than was exported.
THEOREM TypeCorrect == Spec => []TypeOK
<1>1. IInv => TypeOK
  BY DEF IInv
<1> QED
  BY <1>1, Invariance, PTL

\* However many writes the stream takes and wherever one of the four parties
\* fails, an image reported as built is whole.
THEOREM BuiltImagesAreComplete == Spec => []BuiltIsComplete
<1>1. IInv => BuiltIsComplete
  BY DEF IInv
<1> QED
  BY <1>1, Invariance, PTL

-----------------------------------------------------------------------------
(* The build ends: no party waits for one that waits for it, and every step   *)
(* takes something off what is left to do.                                    *)

\* Who can go on without failing: an exporter in a write needs a reader, or to
\* learn that there is none; the copier needs an end of the stream or room in
\* tar's input; tar needs input or its end; the command waits for both, in turn.
ExporterCan ==
  \/ exporter = "export" /\ (written = Chunks \/ copier = "read" \/ "read" \notin pipe)
  \/ exporter = "close"
CopierCan ==
  \/ copier = "read" /\ "write" \notin pipe
  \/ copier = "write" /\ (stdin = 0 \/ tar # "running")
TarCan == tar = "running" /\ (stdin = 1 \/ extracted = Chunks \/ copier = "done")
MainCan ==
  \/ main \in {"pull", "start", "abort", "config", "agent", "pack", "mkfs", "remove"}
  \/ main = "run" /\ tar # "running" /\ copier = "done"
  \/ main \in {"drain", "receive"} /\ exportErr # "empty"

SomeoneCan == ExporterCan \/ CopierCan \/ TarCan \/ MainCan
Finished == main = "ended" /\ dir # "made" /\ exporter \in {"none", "done"}

\* Which ends of the pipe are open, and what the command has waited for.
WaitInv ==
  /\ "write" \notin pipe <=> exporter = "done"
  /\ main \in {"pull", "start", "run", "abort"} => "read" \in pipe
  /\ main = "drain" => "read" \notin pipe
  /\ main \in {"abort", "drain", "receive"} => tar \in {"ok", "failed"} /\ copier = "done"
  /\ main \in {"remove", "ended"} => exporter \in {"none", "close", "done"}
  /\ main = "pull" => dir = "none"
  /\ main = "ended" => dir # "made"
  /\ extracted <= written

LEMMA WaitHolds == Spec => []WaitInv
<1>1. Init => WaitInv
  BY ChunksAssumption DEF Init, WaitInv
<1>2. IInv /\ WaitInv /\ [Next]_vars => WaitInv'
  <2> SUFFICES ASSUME IInv, WaitInv, [Next]_vars PROVE WaitInv'
    OBVIOUS
  <2> USE ChunksAssumption DEF WaitInv, IInv, TypeOK, StreamInv, StepInv, Held, exportVars,
        tarVars, fileVars
  <2>1. CASE Exporter
    BY <2>1 DEF Exporter, Write, ExportReturns, ExportFails, Report, CloseWriter
  <2>2. CASE Copier \/ Tar
    BY <2>2 DEF Copier, CopyToStdin, CopyEnds, Tar, Extract, TarExits, TarFails
  <2>3. CASE Pull \/ StartExport
    BY <2>3 DEF Pull, StartExport, Goto, Fail
  <2>4. CASE RunReturns \/ CloseReader
    BY <2>4 DEF RunReturns, CloseReader, Goto, Fail
  <2>5. CASE AwaitExporter \/ ReceiveExportErr
    BY <2>5 DEF AwaitExporter, ReceiveExportErr, Goto, Fail
  <2>6. CASE Install("config", "agent") \/ Install("agent", "pack") \/ PackExt4
    BY <2>6 DEF Install, PackExt4, Goto, Fail
  <2>7. CASE Mkfs \/ RemoveAll
    BY <2>7 DEF Mkfs, RemoveAll, Goto
  <2>8. CASE UNCHANGED vars
    BY <2>8 DEF vars
  <2> QED
    BY <2>1, <2>2, <2>3, <2>4, <2>5, <2>6, <2>7, <2>8 DEF Next, Main
<1> QED
  BY <1>1, <1>2, Invariance, PTL DEF Spec

\* While tar runs, the stream moves on somewhere.
LEMMA StreamMoves ==
  ASSUME IInv, WaitInv, main = "run", tar = "running"
  PROVE  ExporterCan \/ CopierCan \/ TarCan
<1> USE DEF IInv, TypeOK, StreamInv, WaitInv, Held, ExporterCan, CopierCan, TarCan
<1>1. CASE stdin = 1
  BY <1>1
<1>2. CASE stdin = 0 /\ copier = "read"
  BY <1>2
<1>3. CASE stdin = 0 /\ copier \in {"write", "done"}
  BY <1>3
<1> QED
  BY <1>1, <1>2, <1>3

\* Wherever one of the four parties fails, one of them can go on until all have
\* ended and the directory is dealt with: nobody blocks on the pipe that another holds.
THEOREM NobodyIsStuck == Spec => [](~Finished => SomeoneCan)
<1>1. IInv /\ WaitInv => (~Finished => SomeoneCan)
  <2> SUFFICES ASSUME IInv, WaitInv, ~Finished PROVE SomeoneCan
    OBVIOUS
  <2> USE DEF IInv, TypeOK, StreamInv, StepInv, WaitInv, SomeoneCan
  <2>1. CASE main = "run"
    <3>1. CASE tar = "running"
      BY <2>1, <3>1, StreamMoves
    <3>2. CASE tar # "running"
      BY <2>1, <3>2 DEF CopierCan, ExporterCan, MainCan
    <3> QED
      BY <3>1, <3>2
  <2>2. CASE main \in {"drain", "receive"}
    <3>1. exportErr # "empty" => MainCan
      BY <2>2 DEF MainCan
    <3>2. exportErr = "empty" => exporter = "export"
      BY <2>2
    <3>3. main = "receive" /\ exporter = "export" => written = Chunks
      BY ChunksAssumption
    <3> QED
      BY <2>2, <3>1, <3>2, <3>3 DEF ExporterCan
  <2>3. CASE main = "ended"
    BY <2>3 DEF Finished, ExporterCan
  <2>4. CASE main \notin {"run", "drain", "receive", "ended"}
    BY <2>4 DEF MainCan
  <2> QED
    BY <2>1, <2>2, <2>3, <2>4
<1> QED
  BY <1>1, Invariance, WaitHolds, PTL

\* What is left to do: for each chunk a write, a copy and an extraction, and the
\* ends of the parties.
StreamLeft == 3 * (Chunks - written) + 2 * Held + stdin
PartiesLeft ==
  (CASE exporter = "none" -> 3 [] exporter = "export" -> 2
     [] exporter = "close" -> 1 [] exporter = "done" -> 0)
  + (IF copier = "done" THEN 0 ELSE 1) + (IF tar \in {"ok", "failed"} THEN 0 ELSE 1)
MainLeft ==
  CASE main = "pull" -> 11 [] main = "start" -> 10 [] main = "run" -> 9
    [] main \in {"abort", "receive"} -> 8 [] main \in {"drain", "config"} -> 7
    [] main = "agent" -> 6 [] main = "pack" -> 5 [] main = "mkfs" -> 4
    [] main = "remove" -> 1 [] main = "ended" -> 0
Left == StreamLeft + PartiesLeft + MainLeft

LEMMA LeftBounds ==
  ASSUME IInv
  PROVE  StreamLeft \in 0 .. 3 * Chunks + 3 /\ PartiesLeft \in 0 .. 5 /\ MainLeft \in 0 .. 11
<1>1. StreamLeft \in 0 .. 3 * Chunks + 3
  BY ChunksAssumption DEF IInv, TypeOK, StreamLeft, Held
<1>2. PartiesLeft \in 0 .. 5
  BY DEF IInv, TypeOK, PartiesLeft
<1>3. MainLeft \in 0 .. 11
  BY DEF IInv, TypeOK, MainLeft
<1> QED
  BY <1>1, <1>2, <1>3

LEMMA LeftsAreInts ==
  ASSUME IInv
  PROVE  StreamLeft \in Int /\ PartiesLeft \in Int /\ MainLeft \in Int
<1>1. /\ StreamLeft \in 0 .. 3 * Chunks + 3 /\ PartiesLeft \in 0 .. 5
      /\ MainLeft \in 0 .. 11
  BY LeftBounds
<1> QED
  BY <1>1, ChunksAssumption

\* The same of the next state.
LEMMA LeftsStayInts ==
  ASSUME IInv'
  PROVE  StreamLeft' \in Int /\ PartiesLeft' \in Int /\ MainLeft' \in Int
<1>1. StreamLeft' \in Int
  BY ChunksAssumption DEF IInv, TypeOK, StreamLeft, Held
<1>2. PartiesLeft' \in Int /\ MainLeft' \in Int
  BY DEF IInv, TypeOK, PartiesLeft, MainLeft
<1> QED
  BY <1>1, <1>2

LEMMA StreamCountsDown ==
  ASSUME IInv, Exporter \/ Copier \/ Tar
  PROVE  StreamLeft' + PartiesLeft' < StreamLeft + PartiesLeft /\ MainLeft' = MainLeft
<1> USE ChunksAssumption DEF IInv, TypeOK, StreamLeft, PartiesLeft, Held, exportVars, tarVars
<1>0. MainLeft' = MainLeft
  BY DEF MainLeft, Exporter, Copier, Tar, Write, ExportReturns, ExportFails, Report, CloseWriter,
         CopyToStdin, CopyEnds, Extract, TarExits, TarFails
<1>1. CASE Write
  BY <1>0, <1>1 DEF Write
<1>2. CASE ExportReturns \/ ExportFails \/ CloseWriter
  <2>1. \/ exporter = "export" /\ exporter' = "close"
        \/ exporter = "close" /\ exporter' = "done"
    BY <1>2 DEF ExportReturns, ExportFails, Report, CloseWriter
  <2>2. UNCHANGED <<written, tarVars>>
    BY <1>2 DEF ExportReturns, ExportFails, Report, CloseWriter
  <2>3. /\ written \in Int /\ stdin \in Int
        /\ written' = written /\ copier' = copier /\ stdin' = stdin /\ tar' = tar
    BY <2>2
  <2> QED
    BY <1>0, <2>1, <2>3
<1>3. CASE CopyToStdin
  BY <1>0, <1>3 DEF CopyToStdin
<1>4. CASE CopyEnds
  BY <1>0, <1>4 DEF CopyEnds
<1>5. CASE Extract
  BY <1>0, <1>5 DEF Extract
<1>6. CASE TarExits \/ TarFails
  BY <1>0, <1>6 DEF TarExits, TarFails
<1> QED
  BY <1>1, <1>2, <1>3, <1>4, <1>5, <1>6 DEF Exporter, Copier, Tar

LEMMA MainCountsDown ==
  ASSUME IInv, IInv', Main
  PROVE  StreamLeft' + PartiesLeft' <= StreamLeft + PartiesLeft /\ MainLeft' < MainLeft
<1>1. MainLeft' < MainLeft
  BY DEF MainLeft, Main, Pull, StartExport, RunReturns, CloseReader, AwaitExporter,
         ReceiveExportErr, Install, PackExt4, Mkfs, RemoveAll, Goto, Fail
<1>2. CASE StartExport
  <2>1. /\ main = "start" /\ exporter = "none" /\ copier = "none" /\ tar = "none"
        /\ exporter' = "export" /\ written' = written /\ stdin' = stdin
        /\ \/ tar' = "running" /\ copier' = "read"
           \/ tar' = "failed" /\ copier' = "done"
    BY <1>2 DEF StartExport, IInv, TypeOK, StreamInv
  <2>2. StreamLeft' = StreamLeft
    BY <2>1 DEF StreamLeft, Held
  <2>3. PartiesLeft' <= PartiesLeft
    BY <2>1 DEF PartiesLeft
  <2> QED
    BY <1>1, <2>2, <2>3, LeftsAreInts, LeftsStayInts
<1>3. CASE UNCHANGED <<exportVars, tarVars>>
  <2>1. StreamLeft' = StreamLeft /\ PartiesLeft' = PartiesLeft
    BY <1>3 DEF StreamLeft, PartiesLeft, Held, exportVars, tarVars
  <2> QED
    BY <1>1, <2>1, LeftsAreInts
<1> QED
  BY <1>1, <1>2, <1>3 DEF Main, Pull, RunReturns, CloseReader, AwaitExporter,
         ReceiveExportErr, Install, PackExt4, Mkfs, RemoveAll

\* A build takes at most three steps for each chunk and nineteen more, whatever
\* fails.  As long as it has not finished somebody can take one (NobodyIsStuck),
\* so with the fairness of FairSpec it ends.
THEOREM BuildCountsDown == Spec => [](Left \in 0 .. 3 * Chunks + 19) /\ [][Left' < Left]_vars
<1>1. IInv => Left \in 0 .. 3 * Chunks + 19
  BY LeftBounds, ChunksAssumption DEF Left
<1>2. IInv /\ IInv' /\ [Next]_vars => [Left' < Left]_vars
  <2> SUFFICES ASSUME IInv, IInv', Next PROVE Left' < Left
    OBVIOUS
  <2>1. StreamLeft' \in Int /\ PartiesLeft' \in Int /\ MainLeft' \in Int
    BY LeftsStayInts
  <2>2. CASE Exporter \/ Copier \/ Tar
    BY <2>1, <2>2, StreamCountsDown, LeftsAreInts DEF Left
  <2>3. CASE Main
    BY <2>1, <2>3, MainCountsDown, LeftsAreInts DEF Left
  <2> QED
    BY <2>2, <2>3 DEF Next
<1> QED
  BY <1>1, <1>2, Invariance, PTL DEF Spec
=============================================================================
