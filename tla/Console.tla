------------------------------ MODULE Console ------------------------------
(***************************************************************************)
(* The host's end of a PTY session: labctl console, and run or restore     *)
(* --attach-console (AttachConsole, AttachSession and waitOrBackground in  *)
(* src/vm/vm.go), over what the guest promises (PtyService).  With run or  *)
(* restore the session is a goroutine beside the main one, which also      *)
(* listens for signals and for the unit's exit; the process may end while  *)
(* the session still has the terminal.                                     *)
(***************************************************************************)
EXTENDS PtyService

CONSTANT Attached   \* the connection of this session

ASSUME AttachedAssumption == Attached \in Conns

VARIABLES
  command,  \* "console", or "run" for run and restore --attach-console
  main,     \* the main goroutine: select, stop, unwind, ended
  how,      \* what it ended with
  session,  \* AttachConsole: dial, raw, listen, copy, restore, close, done
  failed,   \* AttachConsole returned an error
  done,     \* the done channel of AttachSession is closed
  signals,  \* goroutines with a signal in their channel
  exited,   \* the result of Wait is in its channel
  terminal  \* cooked, raw

sessionVars == <<session, failed, done, terminal>>
mainVars == <<command, main, how, exited>>
consoleVars == <<sessionVars, mainVars, signals>>
allVars == <<vars, consoleVars>>

Alive == main # "ended"
ConnectionEnds == vm = "gone" \/ line[Attached] = "ended"

ConsoleInit ==
  /\ Init
  /\ command \in {"console", "run"}
  /\ main = "select"
  /\ how = "none"
  /\ session = "dial"
  /\ failed = FALSE
  /\ done = FALSE
  /\ signals = {}
  /\ exited = FALSE
  /\ terminal = "cooked"

-----------------------------------------------------------------------------
(* AttachConsole and AttachSession.                                        *)

AttachConsole ==
  /\ Alive /\ session = "dial"
  /\ Dial(Attached)
  /\ session' = "raw"
  /\ UNCHANGED <<failed, done, terminal, mainVars, signals>>

\* Nothing answered for five seconds.
DialTimesOut ==
  /\ Alive /\ session = "dial"
  /\ session' = "done"
  /\ failed' = TRUE
  /\ UNCHANGED <<vars, done, terminal, mainVars, signals>>

MakeRaw ==
  /\ Alive /\ session = "raw"
  /\ session' = "listen"
  /\ terminal' = "raw"
  /\ UNCHANGED <<vars, failed, done, mainVars, signals>>

\* Standard input is no terminal.
MakeRawFails ==
  /\ Alive /\ session = "raw"
  /\ session' = "close"
  /\ failed' = TRUE
  /\ UNCHANGED <<vars, done, terminal, mainVars, signals>>

\* signal.Notify for SIGINT, and the two goroutines that copy.
Notify ==
  /\ Alive /\ session = "listen"
  /\ session' = "copy"
  /\ UNCHANGED <<vars, failed, done, terminal, mainVars, signals>>

\* ctrl+], or the end of standard input.
Detach ==
  /\ Alive /\ session = "copy" /\ ~done
  /\ done' = TRUE
  /\ UNCHANGED <<vars, session, failed, terminal, mainVars, signals>>

\* Broken variant: only standard input ends a session.
CopyToStdoutEndsQuietly ==
  /\ Alive /\ session = "copy" /\ ~done /\ ConnectionEnds
  /\ UNCHANGED <<vars, consoleVars>>

CopyToStdoutEnds ==
  /\ Alive /\ session = "copy" /\ ~done /\ ConnectionEnds
  /\ done' = TRUE
  /\ UNCHANGED <<vars, session, failed, terminal, mainVars, signals>>

\* The select of AttachSession; signal.Stop is the first deferred call.
SessionEnds ==
  /\ Alive /\ session = "copy"
  /\ done \/ "session" \in signals
  /\ session' = "restore"
  /\ signals' = signals \ {"session"}
  /\ UNCHANGED <<vars, failed, done, terminal, mainVars>>

Restore ==
  /\ Alive /\ session = "restore"
  /\ terminal' = "cooked"
  /\ session' = "close"
  /\ UNCHANGED <<vars, failed, done, mainVars, signals>>

Close ==
  /\ Alive /\ session = "close"
  /\ HostCloses(Attached)
  /\ session' = "done"
  /\ UNCHANGED <<failed, done, terminal, mainVars, signals>>

-----------------------------------------------------------------------------
(* waitOrBackground, signals and the end of the process.                   *)

\* The kernel closes the connection of a process that ends.
Exit(result) ==
  /\ main' = "ended"
  /\ how' = result
  /\ host' = [host EXCEPT ![Attached] = IF @ = "open" THEN "closed" ELSE @]
  /\ UNCHANGED <<vm, line, sessionVars, command, exited, signals>>

\* labctl console returns what AttachConsole returns.
ConsoleReturns ==
  /\ command = "console" /\ Alive /\ session = "done"
  /\ Exit(IF failed THEN "failed" ELSE "detached")

\* Wait polls the unit's state; systemctl may fail it at any time.
WaitReturns ==
  /\ command = "run" /\ Alive /\ ~exited
  /\ exited' = TRUE
  /\ UNCHANGED <<vars, sessionVars, command, main, how, signals>>

SelectExited ==
  /\ command = "run" /\ main = "select" /\ exited
  /\ Exit("exited")

SelectSignal ==
  /\ command = "run" /\ main = "select" /\ "main" \in signals
  /\ main' = "stop"
  /\ signals' = signals \ {"main"}
  /\ UNCHANGED <<vars, sessionVars, command, how, exited>>

\* The error of a Stop that fails is dropped.
Stop ==
  /\ main = "stop"
  /\ main' = "unwind"
  /\ vm' \in {vm, "gone"}
  /\ UNCHANGED <<host, line, sessionVars, command, how, exited, signals>>

\* Broken variant: the session is not waited for.
UnwindAtOnce ==
  /\ main = "unwind"
  /\ Exit("signalled")

Unwind ==
  /\ main = "unwind" /\ session = "done"
  /\ Exit("signalled")

SelectConsoleDone ==
  /\ command = "run" /\ main = "select" /\ session = "done"
  /\ Exit(CASE failed -> "failed" [] exited -> "exited" [] OTHER -> "detached")

\* Go delivers a signal to every channel that asked for it.
Interrupt ==
  LET told == {g \in {"main", "session"} : IF g = "main" THEN command = "run"
                                                         ELSE session = "copy"} IN
  /\ Alive /\ told # {} /\ ~(told \subseteq signals)
  /\ signals' = signals \cup told
  /\ UNCHANGED <<vars, sessionVars, mainVars>>

Terminate ==
  /\ command = "run" /\ Alive /\ "main" \notin signals
  /\ signals' = signals \cup {"main"}
  /\ UNCHANGED <<vars, sessionVars, mainVars>>

\* SIGTERM, or SIGINT while nothing listens, ends labctl console at once.
Killed ==
  /\ command = "console" /\ Alive
  /\ Exit("killed")

-----------------------------------------------------------------------------
Session ==
  \/ AttachConsole \/ DialTimesOut \/ MakeRaw \/ MakeRawFails \/ Notify
  \/ CopyToStdoutEnds \/ SessionEnds \/ Restore \/ Close

Main ==
  \/ ConsoleReturns \/ SelectExited \/ SelectSignal \/ Stop \/ Unwind
  \/ SelectConsoleDone

\* The guest and the hosts of its other sessions.
Others ==
  /\ \/ Halt
     \/ \E c \in Conns : Begin(c) \/ Die(c) \/ End(c)
     \/ \E c \in Conns \ {Attached} : Dial(c) \/ HostCloses(c)
  /\ UNCHANGED consoleVars

ConsoleNext ==
  \/ Others
  \/ Session \/ Main
  \/ Detach \/ WaitReturns \/ Interrupt \/ Terminate \/ Killed

ConsoleSpec ==
  /\ ConsoleInit /\ [][ConsoleNext]_allVars
  /\ WF_allVars(Session)
  /\ WF_allVars(Main)

-----------------------------------------------------------------------------
TypeOK ==
  /\ vm \in {"up", "gone"}
  /\ host \in [Conns -> {"none", "open", "closed"}]
  /\ line \in [Conns -> {"none", "waiting", "live", "dead", "ended"}]
  /\ command \in {"console", "run"}
  /\ main \in {"select", "stop", "unwind", "ended"}
  /\ how \in {"none", "exited", "detached", "failed", "signalled", "killed"}
  /\ session \in {"dial", "raw", "listen", "copy", "restore", "close", "done"}
  /\ failed \in BOOLEAN /\ done \in BOOLEAN /\ exited \in BOOLEAN
  /\ signals \subseteq {"main", "session"}
  /\ terminal \in {"cooked", "raw"}

\* Whether the user detaches, the guest ends the session or a signal stops the
\* VM, the command does not end before the terminal is restored ("its deferred
\* terminal restore runs before we return").  Two ends are not covered: the
\* unit's exit winning the select, and a labctl console that is killed.
TerminalRestored ==
  main = "ended" /\ how \notin {"exited", "killed"} => terminal = "cooked"

\* Whatever the command waits for, it ends when the VM has gone, by itself or
\* by the Stop of a signal.
AttachEnds == vm = "gone" ~> main = "ended"
=============================================================================
