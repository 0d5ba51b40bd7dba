----------------------------- MODULE ImageBuild -----------------------------
(***************************************************************************)
(* labctl image build (src/cmd/image_build.go, src/ociimage/ociimage.go,   *)
(* ext4.go).  export runs four parties over two pipes: a goroutine writes  *)
(* the flattened image as a tar stream into an io.Pipe, a goroutine of     *)
(* os/exec copies it to tar's standard input, tar extracts it, and the     *)
(* command waits for tar, then for the exporter.  Each may fail alone; the *)
(* exporter closes its pipe the same way whether it failed or not.  The    *)
(* command then packs the directory with mkfs.ext4.                        *)
(***************************************************************************)
EXTENDS Integers

CONSTANT Chunks   \* writes of a whole stream; the archive's end is in the last
ASSUME ChunksAssumption == Chunks \in Nat \ {0}

VARIABLES
  main,       \* the next step of the command
  result,     \* what it reports: none, built, failed
  exporter,   \* the export goroutine: none, export, close, done
  exportErr,  \* its buffered channel: empty, ok, error
  written,    \* chunks it has written
  pipe,       \* the ends of the io.Pipe that are open
  copier,     \* os/exec's goroutine: none, read, write, done
  stdin,      \* chunks in tar's standard input
  tar,        \* none, running, ok, failed
  extracted,  \* chunks extracted
  dir,        \* the temporary directory: none, made, or left by a removal that failed
  installed,  \* what else was put into it
  out         \* the output file: absent, old, partial, truncated, whole

exportVars == <<exporter, exportErr, written>>
tarVars == <<copier, stdin, tar, extracted>>
fileVars == <<dir, installed, out>>
vars == <<main, result, exportVars, pipe, tarVars, fileVars>>

Init ==
  /\ main = "pull" /\ result = "none"
  /\ exporter = "none" /\ exportErr = "empty" /\ written = 0
  /\ pipe = {"read", "write"}
  /\ copier = "none" /\ stdin = 0 /\ tar = "none" /\ extracted = 0
  /\ dir = "none" /\ installed = {}
  /\ out \in {"absent", "old"}

-----------------------------------------------------------------------------
(* The exporter: crane.Export, the channel, pw.Close.                      *)

\* An io.Pipe has no buffer: a write returns when the copier has read it.
Write ==
  /\ exporter = "export" /\ written < Chunks
  /\ copier = "read" /\ "read" \in pipe
  /\ written' = written + 1
  /\ copier' = "write"
  /\ UNCHANGED <<main, result, exporter, exportErr, pipe, stdin, tar, extracted, fileVars>>

Report(err) ==
  /\ exportErr' = err
  /\ exporter' = "close"
  /\ UNCHANGED <<main, result, written, pipe, tarVars, fileVars>>

ExportReturns == exporter = "export" /\ written = Chunks /\ Report("ok")

\* A layer cannot be fetched, or the pipe's reader has gone.
ExportFails == exporter = "export" /\ Report("error")

WriteFails == written < Chunks /\ "read" \notin pipe /\ ExportFails

\* A plain Close: the reader sees the end of the stream, not the error.
CloseWriter ==
  /\ exporter = "close"
  /\ exporter' = "done"
  /\ pipe' = pipe \ {"write"}
  /\ UNCHANGED <<main, result, exportErr, written, tarVars, fileVars>>

-----------------------------------------------------------------------------
(* extractTar: exec's copier and tar.                                      *)

CopyToStdin ==
  /\ copier = "write" /\ tar = "running" /\ stdin = 0
  /\ stdin' = 1
  /\ copier' = "read"
  /\ UNCHANGED <<main, result, exportVars, pipe, tar, extracted, fileVars>>

\* The end of the stream, or EPIPE from a tar that has exited, which os/exec
\* does not report.
CopyEnds ==
  /\ \/ copier = "read" /\ "write" \notin pipe
     \/ copier = "write" /\ tar # "running"
  /\ copier' = "done"
  /\ UNCHANGED <<main, result, exportVars, pipe, stdin, tar, extracted, fileVars>>

Extract ==
  /\ tar = "running" /\ stdin = 1
  /\ stdin' = 0
  /\ extracted' = extracted + 1
  /\ UNCHANGED <<main, result, exportVars, pipe, copier, tar, fileVars>>

\* At the archive's end, or where the stream stops: between two members that
\* is no error to tar.
TarExits ==
  /\ tar = "running"
  /\ \/ extracted = Chunks /\ tar' = "ok"
     \/ stdin = 0 /\ copier = "done" /\ tar' \in {"ok", "failed"}
  /\ UNCHANGED <<main, result, exportVars, pipe, copier, stdin, extracted, fileVars>>

\* A full disk, a member that cannot be created.
TarFails ==
  /\ tar = "running"
  /\ tar' = "failed"
  /\ UNCHANGED <<main, result, exportVars, pipe, copier, stdin, extracted, fileVars>>

-----------------------------------------------------------------------------
(* The command: Build, export, PackExt4.                                   *)

Goto(step) ==
  /\ main' = step
  /\ UNCHANGED result

Fail(step) ==
  /\ main' = step
  /\ result' = "failed"

\* The flags, the reference, the image's config and the temporary directory.
Pull ==
  /\ main = "pull"
  /\ \/ dir' = "made" /\ Goto("start")
     \/ UNCHANGED dir /\ Fail("ended")
  /\ UNCHANGED <<exportVars, pipe, tarVars, installed, out>>

\* The exporter is started first; tar may not be on PATH.
StartExport ==
  /\ main = "start"
  /\ exporter' = "export"
  /\ \/ tar' = "running" /\ copier' = "read"
     \/ tar' = "failed" /\ copier' = "done"
  /\ Goto("run")
  /\ UNCHANGED <<exportErr, written, pipe, stdin, extracted, fileVars>>

\* cmd.Run waits for tar and for the copier.
RunReturns ==
  /\ main = "run" /\ tar # "running" /\ copier = "done"
  /\ IF tar = "ok" THEN Goto("receive") ELSE Fail("abort")
  /\ UNCHANGED <<exportVars, pipe, tarVars, fileVars>>

\* Broken variant: the pipe is left open under an exporter that writes.
CloseReaderNot ==
  /\ main = "abort"
  /\ Goto("drain")
  /\ UNCHANGED <<exportVars, pipe, tarVars, fileVars>>

\* pr.CloseWithError: the exporter's next write fails.
CloseReader ==
  /\ main = "abort"
  /\ pipe' = pipe \ {"read"}
  /\ Goto("drain")
  /\ UNCHANGED <<exportVars, tarVars, fileVars>>

AwaitExporter ==
  /\ main = "drain" /\ exportErr # "empty"
  /\ Goto("remove")
  /\ UNCHANGED <<exportVars, pipe, tarVars, fileVars>>

\* Broken variant: only the end of the exporter is waited for.
ReceiveAndIgnore ==
  /\ main = "receive" /\ exportErr # "empty"
  /\ Goto("config")
  /\ UNCHANGED <<exportVars, pipe, tarVars, fileVars>>

ReceiveExportErr ==
  /\ main = "receive" /\ exportErr # "empty"
  /\ IF exportErr = "ok" THEN Goto("config") ELSE Fail("remove")
  /\ UNCHANGED <<exportVars, pipe, tarVars, fileVars>>

\* writeImageConfig, then installGuestAgent.
Install(step, next) ==
  /\ main = step
  /\ \/ installed' = installed \cup {step} /\ Goto(next)
     \/ UNCHANGED installed /\ Fail("remove")
  /\ UNCHANGED <<exportVars, pipe, tarVars, dir, out>>

\* PackExt4 writes no file that exists, and needs mkfs.ext4.
PackExt4 ==
  /\ main = "pack"
  /\ \/ out = "absent" /\ out' = "partial" /\ Goto("mkfs")
     \/ UNCHANGED out /\ Fail("remove")
  /\ UNCHANGED <<exportVars, pipe, tarVars, dir, installed>>

Complete == dir = "made" /\ extracted = Chunks /\ installed = {"config", "agent"}

\* A mkfs.ext4 that fails leaves what it has written.
Mkfs ==
  /\ main = "mkfs" /\ main' = "remove"
  /\ \/ /\ out' = IF Complete THEN "whole" ELSE "truncated"
        /\ result' = "built"
     \/ /\ out' \in {"absent", "partial"}
        /\ result' = "failed"
  /\ UNCHANGED <<exportVars, pipe, tarVars, dir, installed>>

\* Its error is not looked at.
RemoveAll ==
  /\ main = "remove"
  /\ dir' \in {"none", "left"}
  /\ Goto("ended")
  /\ UNCHANGED <<exportVars, pipe, tarVars, installed, out>>

-----------------------------------------------------------------------------
Exporter == Write \/ ExportReturns \/ ExportFails \/ CloseWriter
Copier == CopyToStdin \/ CopyEnds
Tar == Extract \/ TarExits \/ TarFails
Main ==
  \/ Pull \/ StartExport \/ RunReturns \/ CloseReader \/ AwaitExporter
  \/ ReceiveExportErr \/ Install("config", "agent") \/ Install("agent", "pack")
  \/ PackExt4 \/ Mkfs \/ RemoveAll

Next == Exporter \/ Copier \/ Tar \/ Main
Spec == Init /\ [][Next]_vars

\* Threads that can go on do; crane.Export comes to an end; tar reads on, and exits
\* when there is no more.  Nothing makes a party fail.
FairSpec ==
  /\ Spec
  /\ WF_vars(Write \/ ExportReturns \/ WriteFails \/ CloseWriter)
  /\ WF_vars(Copier) /\ WF_vars(Extract \/ TarExits) /\ WF_vars(Main)

-----------------------------------------------------------------------------
TypeOK ==
  /\ main \in {"pull", "start", "run", "abort", "drain", "receive", "config",
               "agent", "pack", "mkfs", "remove", "ended"}
  /\ result \in {"none", "built", "failed"}
  /\ exporter \in {"none", "export", "close", "done"}
  /\ exportErr \in {"empty", "ok", "error"}
  /\ written \in 0 .. Chunks
  /\ pipe \subseteq {"read", "write"}
  /\ copier \in {"none", "read", "write", "done"}
  /\ stdin \in {0, 1}
  /\ tar \in {"none", "running", "ok", "failed"}
  /\ extracted \in 0 .. Chunks
  /\ dir \in {"none", "made", "left"}
  /\ installed \subseteq {"config", "agent"}
  /\ out \in {"absent", "old", "partial", "truncated", "whole"}

\* An image reported as built holds the whole stream, the config and the
\* agent, though tar takes a stream cut short for a whole one and neither
\* pipe tells it that the exporter failed; no other file is ever called whole.
BuiltIsComplete ==
  /\ result = "built" => out = "whole"
  /\ out # "truncated"

\* However the four parties fail, the command ends and the exporter is not left
\* blocked in a write; its directory stays only if it cannot be removed.
BuildEnds == <>[](main = "ended" /\ dir # "made" /\ exporter \in {"none", "done"})
=============================================================================
