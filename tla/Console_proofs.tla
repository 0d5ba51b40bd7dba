--------------------------- MODULE Console_proofs ---------------------------
(***************************************************************************)
(* For any connections: the terminal is restored before the command ends,  *)
(* and the command asks nothing of the guest that PtyService does not      *)
(* offer, so it runs over the agent that GuestAgent_proofs shows to        *)
(* implement it.                                                           *)
(***************************************************************************)
EXTENDS Console, TLAPS

\* The terminal is raw only between MakeRaw and Restore, and an end that is
\* not the unit's or a kill comes after the session's.
SessionInv ==
  /\ terminal = "raw" => session \in {"listen", "copy", "restore"}
  /\ main = "ended" /\ how \notin {"exited", "killed"} => session = "done"

IInv == TypeOK /\ SessionInv

LEMMA InitInv == ConsoleInit => IInv
  BY DEF ConsoleInit, Init, IInv, TypeOK, SessionInv

\* The process's end, whatever brings it about.
LEMMA ExitStep ==
  ASSUME IInv, NEW result \in {"exited", "detached", "failed", "signalled", "killed"},
         Exit(result), result \in {"exited", "killed"} \/ session = "done"
  PROVE  IInv'
  BY DEF Exit, IInv, TypeOK, SessionInv, sessionVars

LEMMA SessionStep ==
  ASSUME IInv, Session
  PROVE  IInv'
<1> USE DEF IInv, TypeOK, SessionInv, vars, mainVars, Alive
<1>1. CASE AttachConsole
  BY <1>1 DEF AttachConsole, Dial
<1>2. CASE DialTimesOut
  BY <1>2 DEF DialTimesOut
<1>3. CASE MakeRaw
  BY <1>3 DEF MakeRaw
<1>4. CASE MakeRawFails
  BY <1>4 DEF MakeRawFails
<1>5. CASE Notify
  BY <1>5 DEF Notify
<1>6. CASE CopyToStdoutEnds
  BY <1>6 DEF CopyToStdoutEnds
<1>7. CASE Restore
  BY <1>7 DEF Restore
<1>8. CASE SessionEnds
  BY <1>8 DEF SessionEnds
<1>9. CASE Close
  BY <1>9 DEF Close, HostCloses
<1> QED
  BY <1>1, <1>2, <1>3, <1>4, <1>5, <1>6, <1>7, <1>8, <1>9 DEF Session

LEMMA MainStep ==
  ASSUME IInv, Main
  PROVE  IInv'
<1>1. CASE ConsoleReturns
  BY <1>1, ExitStep DEF ConsoleReturns
<1>2. CASE SelectExited
  BY <1>2, ExitStep DEF SelectExited
<1>3. CASE SelectSignal
  BY <1>3 DEF SelectSignal, IInv, TypeOK, SessionInv, vars, sessionVars
<1>4. CASE Stop
  BY <1>4 DEF Stop, IInv, TypeOK, SessionInv, sessionVars
<1>5. CASE Unwind
  BY <1>5, ExitStep DEF Unwind
<1>6. CASE SelectConsoleDone
  <2>1. CASE failed
    BY <1>6, <2>1, ExitStep DEF SelectConsoleDone
  <2>2. CASE ~failed /\ exited
    BY <1>6, <2>2, ExitStep DEF SelectConsoleDone
  <2>3. CASE ~failed /\ ~exited
    BY <1>6, <2>3, ExitStep DEF SelectConsoleDone
  <2> QED
    BY <2>1, <2>2, <2>3
<1> QED
  BY <1>1, <1>2, <1>3, <1>4, <1>5, <1>6 DEF Main

LEMMA OtherStep ==
  ASSUME IInv, Others
  PROVE  IInv'
<1> USE DEF IInv, TypeOK, SessionInv, consoleVars, sessionVars, mainVars
<1>1. CASE Halt
  BY <1>1 DEF Others, Halt
<1>2. CASE \E c \in Conns : Begin(c) \/ Die(c) \/ End(c)
  BY <1>2 DEF Others, Begin, Die, End, Moves
<1>3. CASE \E c \in Conns \ {Attached} : Dial(c) \/ HostCloses(c)
  BY <1>3 DEF Others, Dial, HostCloses
<1> QED
  BY <1>1, <1>2, <1>3 DEF Others

LEMMA NextInv ==
  ASSUME IInv, [ConsoleNext]_allVars
  PROVE  IInv'
<1> USE DEF IInv, TypeOK, SessionInv, vars, sessionVars, mainVars
<1>1. CASE Detach
  BY <1>1 DEF Detach
<1>2. CASE WaitReturns
  BY <1>2 DEF WaitReturns
<1>3. CASE Interrupt
  <2>1. signals' \subseteq {"main", "session"}
    <3> DEFINE told == {g \in {"main", "session"} : IF g = "main" THEN command = "run"
                                                                  ELSE session = "copy"}
    <3>1. told \subseteq {"main", "session"}
      OBVIOUS
    <3>2. signals' = signals \cup told
      BY <1>3 DEF Interrupt
    <3> HIDE DEF told
    <3> QED
      BY <3>1, <3>2
  <2>2. UNCHANGED <<vars, sessionVars, mainVars>>
    BY <1>3 DEF Interrupt
  <2> QED
    BY <2>1, <2>2
<1>4. CASE Terminate
  BY <1>4 DEF Terminate
<1>5. CASE Killed
  BY <1>5, ExitStep DEF Killed
<1>6. CASE UNCHANGED allVars
  BY <1>6 DEF allVars, consoleVars
<1> QED
  BY <1>1, <1>2, <1>3, <1>4, <1>5, <1>6, SessionStep, MainStep, OtherStep DEF ConsoleNext

LEMMA Invariance == ConsoleSpec => []IInv
<1> QED
  BY InitInv, NextInv, PTL DEF ConsoleSpec

\* Both goroutines, the signals and the terminal keep to their states.
THEOREM TypeCorrect == ConsoleSpec => []TypeOK
<1>1. IInv => TypeOK
  BY DEF IInv
<1> QED
  BY <1>1, Invariance, PTL

\* Of detaching, errors, the end of the session and signals, none ends the
\* command with the terminal raw, in whatever order they come.
THEOREM TerminalIsRestored == ConsoleSpec => []TerminalRestored
<1>1. IInv => TerminalRestored
  BY DEF IInv, TypeOK, SessionInv, TerminalRestored
<1> QED
  BY <1>1, Invariance, PTL

-----------------------------------------------------------------------------
LEMMA StepIsService ==
  ASSUME TypeOK, [ConsoleNext]_allVars
  PROVE  [Next]_vars
<1> USE AttachedAssumption DEF vars
<1>1. ASSUME NEW result, Exit(result) PROVE [Next]_vars
  <2>1. CASE host[Attached] = "open"
    <3>1. HostCloses(Attached)
      BY <1>1, <2>1 DEF Exit, HostCloses
    <3> QED
      BY <3>1 DEF Next
  <2>2. CASE host[Attached] # "open"
    BY <1>1, <2>2 DEF Exit, TypeOK
  <2> QED
    BY <2>1, <2>2
<1>2. CASE Session
  BY <1>2 DEF Session, AttachConsole, DialTimesOut, MakeRaw, MakeRawFails, Notify,
     CopyToStdoutEnds, SessionEnds, Restore, Close, Next
<1>3. CASE Stop
  <2>1. CASE vm' = vm
    BY <1>3, <2>1 DEF Stop
  <2>2. CASE vm' # vm
    <3>1. Halt
      BY <1>3, <2>2 DEF Stop, Halt, TypeOK
    <3> QED
      BY <3>1 DEF Next
  <2> QED
    BY <2>1, <2>2
<1>4. CASE SelectSignal
  BY <1>4 DEF SelectSignal
<1>5. CASE ConsoleReturns \/ SelectExited \/ Unwind \/ SelectConsoleDone \/ Killed
  BY <1>1, <1>5 DEF ConsoleReturns, SelectExited, Unwind, SelectConsoleDone, Killed
<1>6. CASE Others
  BY <1>6 DEF Others, Next
<1>7. CASE Detach \/ WaitReturns \/ Interrupt \/ Terminate
  BY <1>7 DEF Detach, WaitReturns, Interrupt, Terminate
<1>8. CASE UNCHANGED allVars
  BY <1>8 DEF allVars
<1> QED
  BY <1>2, <1>3, <1>4, <1>5, <1>6, <1>7, <1>8 DEF ConsoleNext, Main

\* labctl and the end of its process are one more host of the service: what
\* the agent is shown to implement is all the command relies on.
THEOREM ConsoleUsesService == ConsoleSpec => Init /\ [][Next]_vars
<1>1. ConsoleInit => Init
  BY DEF ConsoleInit
<1>2. TypeOK /\ [ConsoleNext]_allVars => [Next]_vars
  BY StepIsService
<1> QED
  BY <1>1, <1>2, TypeCorrect, PTL DEF ConsoleSpec
=============================================================================
