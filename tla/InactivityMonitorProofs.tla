----------------------- MODULE InactivityMonitorProofs -----------------------
(***************************************************************************)
(* Invariance proofs for InactivityMonitor.  The model has no parameters   *)
(* and TLC visits every state of it; the proofs say why the invariants     *)
(* hold of threads that share flags no lock protects: which thread alone   *)
(* writes what, and which order of its stores the read check relies on.    *)
(***************************************************************************)
EXTENDS InactivityMonitor, TLAPS

Labels ==
    {"idle", "receiving", "received", "heard", "wireFormat", "inRead", "oneway", "write",
     "blocked", "check", "loop", "exited", "onException", "stop", "lock", "join", "stopped",
     "closing", "closed"}

\* TypeOK, part by part.
Names ==
    /\ peer \in {"talking", "silent", "dead"} /\ pc \in [Threads -> Labels]
    /\ monitor \in Stoppers \cup {Nobody} /\ inWriteMutex \in Writers \cup {Nobody}
    /\ since \in {"quiet", "busy", "erased"}

Flags ==
    /\ local \in BOOLEAN /\ remote \in BOOLEAN /\ monitorStarted \in BOOLEAN
    /\ failed \in BOOLEAN /\ commandReceived \in BOOLEAN /\ commandSent \in BOOLEAN
    /\ inRead \in BOOLEAN /\ inWrite \in BOOLEAN /\ readFailed \in BOOLEAN /\ write \in BOOLEAN
    /\ cancelled \in BOOLEAN /\ started \in BOOLEAN /\ closed \in BOOLEAN
    /\ during \in BOOLEAN /\ falseAlarm \in BOOLEAN

RunnerTypes ==
    runner \in [count : 0..1, state : {"none", "running", "stopping"}, pending : BOOLEAN,
                head : {"read", "write"}]

\* The parts together.
LEMMA TypeParts == TypeOK <=> Names /\ Flags /\ RunnerTypes /\ told \in 0..1
<1>1. {local, remote, monitorStarted, failed, commandReceived, commandSent, inRead, inWrite,
       readFailed, write, cancelled, started, closed, during, falseAlarm} \subseteq BOOLEAN
      <=> Flags
  BY DEF Flags
<1> QED BY <1>1 DEF TypeOK, Names, RunnerTypes, Labels

\* A thread goes to a label.
LEMMA Goes ==
  ASSUME Names, NEW t \in Threads, NEW x \in Labels, Goto(t, x)
  PROVE  /\ pc' \in [Threads -> Labels] /\ pc'[t] = x
         /\ \A u \in Threads : u # t => pc'[u] = pc[u]
BY DEF Names, Goto

-----------------------------------------------------------------------------
(* The inductive invariant *)

\* Each wire format is named once, by one thread, and the monitor starts with the
\* second of them.
Starting ==
    /\ pc[Reader] = "wireFormat" => ~remote
    /\ pc[Sender] = "wireFormat" => ~local
    /\ runner.count > 0 => local /\ remote

\* Thread t is on its way to the listener.
Telling(t) == pc[t] \in {"stop", "lock", "join", "stopped"}

\* One thread tells the listener: the one that found failed unset.
ToldOnce ==
    /\ Telling(Reader) \/ Telling(Runner) \/ told > 0 => failed
    /\ Telling(Reader) \/ Telling(Runner) => told = 0
    /\ ~(Telling(Reader) /\ Telling(Runner))

\* The reader has stored commandReceived and has not yet come back for the next command.
Hearing == pc[Reader] \in {"heard", "wireFormat", "inRead"}

\* While both sides are there: a reader that is busy after a quiet check has stored
\* its mark since; one that was busy at the last check has stored it, or is about to
\* when the next check begins; and a command that comes in the course of a check is
\* noticed by it.
Watching ==
    /\ inRead <=> pc[Reader] \in {"wireFormat", "inRead"}
    /\ pc[Closer] # "idle" => ~started
    /\ closed => ~started
    /\ since = "busy" => InUse
    /\ InUse /\ since = "quiet" /\ pc[ReadTimer] = "idle" /\ Hearing => commandReceived
    /\ InUse /\ pc[ReadTimer] = "check" /\ Hearing => during
    /\ since = "busy" =>
          \/ commandReceived
          \/ pc[Reader] = "received"
          \/ pc[Reader] = "receiving" /\ pc[ReadTimer] # "check"

IInv == TypeOK /\ Starting /\ ToldOnce /\ Watching /\ BusyReaderSpared

-----------------------------------------------------------------------------
(* Types *)

\* Every variable keeps the values its field can hold.
LEMMA NamesStep == ASSUME Names, [Next]_vars PROVE Names'
<1> USE DEF Names, Labels, Threads, Stoppers, Writers, Goto, At, Reader, Sender, Runner, ReadTimer,
            Closer, Nobody
<1>1. CASE PeerSteps
  BY <1>1 DEF PeerSteps, PeerFails, BeginReceive, EndReceive, life, history
<1>2. CASE ReaderSteps
  BY <1>2 DEF ReaderSteps, OnCommand, MarkInRead, RemoteWireFormat, EndCommand, ReadFails, life,
              history
<1>3. ASSUME NEW t \in Writers, Oneway(t) \/ WriteSteps(t) PROVE Names'
  <2>1. CASE Oneway(t)
    BY <1>3, <2>1 DEF Oneway, LeaveOneway, life, history
  <2>2. CASE WriteDone(t)
    BY <1>3, <2>2 DEF WriteDone, LeaveOneway, life, history
  <2>3. CASE WriteFails(t)
    BY <1>3, <2>3 DEF WriteFails, LeaveOneway, life, history
  <2>4. CASE WriteBlocks(t)
    BY <1>3, <2>4 DEF WriteBlocks, life, history
  <2> QED BY <1>3, <2>1, <2>2, <2>3, <2>4 DEF WriteSteps
<1>4. CASE LocalWireFormat
  BY <1>4 DEF LocalWireFormat, history
<1>5. CASE ReadTimerSteps \/ WriteCheck
  BY <1>5 DEF ReadTimerSteps, SkipReadCheck, BeginReadCheck, ReadCheck, WriteCheck, life, history
<1>6. CASE RunnerSteps
  BY <1>6 DEF RunnerSteps, NothingPending, RunnerExits, RunTask, life, history
<1>7. ASSUME NEW t \in Stoppers, StopSteps(t) PROVE Names'
  BY <1>7 DEF StopSteps, OnException, StopMonitorThreads, Shutdown, Joined, TellListener, Return,
              life, history
<1>8. CASE Close \/ CloserSteps
  BY <1>8 DEF Close, CloserSteps, CloseNext, DoClose, CloseDone, life, history
<1>9. CASE UNCHANGED vars
  BY <1>9 DEF vars, life, history
<1> QED BY <1>1, <1>2, <1>3, <1>4, <1>5, <1>6, <1>7, <1>8, <1>9 DEF Next

\* Every flag is set or not.
LEMMA FlagsStep == ASSUME Flags, [Next]_vars PROVE Flags'
<1> USE DEF Flags, InUse, At
<1>1. CASE PeerFails
  <2>1. /\ UNCHANGED <<local, remote, monitorStarted, failed, commandReceived, commandSent,
                       inRead, inWrite, readFailed, write, cancelled, started, closed, falseAlarm>>
        /\ during' = FALSE
    BY <1>1 DEF PeerFails, flags, tasks, life, filter, history
  <2>2. during' \in BOOLEAN
    BY <2>1, Zenon
  <2> QED BY <2>1, <2>2
<1>2. CASE BeginReceive \/ EndReceive \/ ReadFails
  BY <1>2 DEF BeginReceive, EndReceive, ReadFails, flags, tasks, life, filter, history
<1>3. CASE OnCommand
  BY <1>3 DEF OnCommand, flags, tasks, life, filter, history
<1>4. CASE MarkInRead
  BY <1>4 DEF MarkInRead, flags, tasks, life, filter, history
<1>5. CASE RemoteWireFormat
  <2>1. /\ UNCHANGED <<local, failed, commandReceived, commandSent, inRead, inWrite, cancelled,
                       started, closed, during, falseAlarm>>
        /\ remote' = TRUE
        /\ readFailed' = FALSE \/ readFailed' = readFailed
        /\ write' = FALSE \/ write' = write
        /\ monitorStarted' = TRUE \/ monitorStarted' = monitorStarted
    BY <1>5 DEF RemoteWireFormat, StartMonitorThreads, flags, tasks, life, filter, history
  <2>2. remote' \in BOOLEAN /\ readFailed' \in BOOLEAN /\ write' \in BOOLEAN /\ monitorStarted' \in BOOLEAN
    BY <2>1, Zenon
  <2> QED BY <2>1, <2>2
<1>6. CASE EndCommand
  <2>1. /\ UNCHANGED <<local, remote, monitorStarted, failed, commandReceived, commandSent,
                       inWrite, readFailed, write, cancelled, started, closed, during, falseAlarm>>
        /\ inRead' = FALSE
    BY <1>6 DEF EndCommand, flags, tasks, life, filter, history
  <2>2. inRead' \in BOOLEAN
    BY <2>1, Zenon
  <2> QED BY <2>1, <2>2
<1>7. ASSUME NEW t \in Writers, Oneway(t) PROVE Flags'
  <2>1. /\ UNCHANGED <<local, remote, monitorStarted, failed, commandReceived, inRead,
                       readFailed, write, cancelled, started, closed, during, falseAlarm>>
        /\ commandSent' = TRUE \/ commandSent' = commandSent
        /\ inWrite' = TRUE \/ inWrite' = FALSE
    BY <1>7 DEF Oneway, LeaveOneway, flags, tasks, life, filter, history
  <2>2. commandSent' \in BOOLEAN /\ inWrite' \in BOOLEAN
    BY <2>1, Zenon
  <2> QED BY <2>1, <2>2
<1>8. ASSUME NEW t \in Writers, WriteDone(t) \/ WriteFails(t) PROVE Flags'
  <2>1. /\ UNCHANGED <<local, remote, monitorStarted, failed, commandReceived, inRead,
                       readFailed, write, cancelled, started, closed, during, falseAlarm>>
        /\ commandSent' = TRUE /\ inWrite' = FALSE
    BY <1>8 DEF WriteDone, WriteFails, LeaveOneway, flags, tasks, life, filter, history
  <2>2. commandSent' \in BOOLEAN /\ inWrite' \in BOOLEAN
    BY <2>1, Zenon
  <2> QED BY <2>1, <2>2
<1>9. ASSUME NEW t \in Writers, WriteBlocks(t) PROVE Flags'
  BY <1>9 DEF WriteBlocks, flags, tasks, life, filter, history
<1>10. CASE LocalWireFormat
  <2>1. /\ UNCHANGED <<remote, failed, commandReceived, commandSent, inRead, inWrite, cancelled,
                       started, closed, during, falseAlarm>>
        /\ local' = TRUE
        /\ readFailed' = FALSE \/ readFailed' = readFailed
        /\ write' = FALSE \/ write' = write
        /\ monitorStarted' = TRUE \/ monitorStarted' = monitorStarted
    BY <1>10 DEF LocalWireFormat, StartMonitorThreads, flags, tasks, life, filter, history
  <2>2. local' \in BOOLEAN /\ readFailed' \in BOOLEAN /\ write' \in BOOLEAN /\ monitorStarted' \in BOOLEAN
    BY <2>1, Zenon
  <2> QED BY <2>1, <2>2
<1>11. CASE SkipReadCheck
  BY <1>11 DEF SkipReadCheck, flags, tasks, life, filter, history
<1>12. CASE BeginReadCheck
  BY <1>12 DEF BeginReadCheck, flags, tasks, life, filter, history
<1>13. CASE ReadCheck
  <2>1. /\ UNCHANGED <<local, remote, monitorStarted, failed, commandSent, inRead, inWrite,
                       write, cancelled, started, closed>>
        /\ commandReceived' = FALSE /\ during' = FALSE
        /\ readFailed' = TRUE \/ readFailed' = readFailed
        /\ falseAlarm' \in BOOLEAN
    BY <1>13 DEF ReadCheck, flags, tasks, life, filter, history
  <2>2. /\ commandReceived' \in BOOLEAN /\ during' \in BOOLEAN /\ readFailed' \in BOOLEAN
        /\ falseAlarm' \in BOOLEAN
    BY <2>1, Zenon
  <2> QED BY <2>1, <2>2
<1>14. CASE WriteCheck
  <2>1. /\ UNCHANGED <<local, remote, monitorStarted, failed, commandReceived, inRead, inWrite,
                       readFailed, cancelled, started, closed, during, falseAlarm>>
        /\ commandSent' = FALSE
        /\ write' = TRUE \/ write' = write
    BY <1>14 DEF WriteCheck, flags, tasks, life, filter, history
  <2>2. commandSent' \in BOOLEAN /\ write' \in BOOLEAN
    BY <2>1, Zenon
  <2> QED BY <2>1, <2>2
<1>15. CASE NothingPending \/ RunnerExits
  BY <1>15 DEF NothingPending, RunnerExits, flags, tasks, life, filter, history
<1>16. ASSUME NEW task \in {"read", "write"}, RunTask(task) PROVE Flags'
  <2>1. /\ UNCHANGED <<local, remote, monitorStarted, failed, commandReceived, commandSent,
                       inRead, inWrite, cancelled, started, closed, during, falseAlarm>>
        /\ readFailed' = FALSE \/ readFailed' = readFailed
        /\ write' = FALSE \/ write' = write
    BY <1>16 DEF RunTask, flags, tasks, life, filter, history
  <2>2. readFailed' \in BOOLEAN /\ write' \in BOOLEAN
    BY <2>1, Zenon
  <2> QED BY <2>1, <2>2
<1>17. ASSUME NEW t \in Stoppers, OnException(t) PROVE Flags'
  <2>1. /\ UNCHANGED <<local, remote, monitorStarted, commandReceived, commandSent, inRead,
                       inWrite, readFailed, write, cancelled, started, closed, during, falseAlarm>>
        /\ failed' = TRUE
    BY <1>17 DEF OnException, flags, tasks, life, filter, history
  <2>2. failed' \in BOOLEAN
    BY <2>1, Zenon
  <2> QED BY <2>1, <2>2
<1>18. ASSUME NEW t \in Stoppers, StopMonitorThreads(t) PROVE Flags'
  <2>1. /\ UNCHANGED <<local, remote, failed, commandReceived, commandSent, inRead, inWrite,
                       readFailed, write, cancelled, started, closed, during, falseAlarm>>
        /\ monitorStarted' = FALSE
    BY <1>18 DEF StopMonitorThreads, flags, tasks, life, filter, history
  <2>2. monitorStarted' \in BOOLEAN
    BY <2>1, Zenon
  <2> QED BY <2>1, <2>2
<1>19. ASSUME NEW t \in Stoppers, Shutdown(t) PROVE Flags'
  <2>1. /\ UNCHANGED <<local, remote, monitorStarted, failed, commandReceived, commandSent,
                       inRead, inWrite, readFailed, write, started, closed, during, falseAlarm>>
        /\ cancelled' = TRUE
    BY <1>19 DEF Shutdown, flags, tasks, life, filter, history
  <2>2. cancelled' \in BOOLEAN
    BY <2>1, Zenon
  <2> QED BY <2>1, <2>2
<1>20. ASSUME NEW t \in Stoppers, Joined(t) \/ TellListener(t) PROVE Flags'
  BY <1>20 DEF Joined, TellListener, flags, tasks, life, filter, history
<1>21. CASE Close
  <2>1. /\ UNCHANGED <<local, remote, monitorStarted, failed, commandReceived, commandSent,
                       inRead, inWrite, readFailed, write, cancelled, closed, falseAlarm>>
        /\ started' = FALSE /\ during' = FALSE
    BY <1>21 DEF Close, flags, tasks, life, filter, history
  <2>2. started' \in BOOLEAN /\ during' \in BOOLEAN
    BY <2>1, Zenon
  <2> QED BY <2>1, <2>2
<1>22. CASE CloseNext
  <2>1. /\ UNCHANGED <<local, remote, monitorStarted, failed, commandReceived, commandSent,
                       inRead, inWrite, readFailed, write, cancelled, started, during, falseAlarm>>
        /\ closed' = TRUE
    BY <1>22 DEF CloseNext, flags, tasks, life, filter, history
  <2>2. closed' \in BOOLEAN
    BY <2>1, Zenon
  <2> QED BY <2>1, <2>2
<1>23. CASE DoClose \/ CloseDone
  BY <1>23 DEF DoClose, CloseDone, flags, tasks, life, filter, history
<1>24. CASE UNCHANGED vars
  BY <1>24 DEF vars, flags, tasks, life, filter, history
<1> QED BY <1>1, <1>2, <1>3, <1>4, <1>5, <1>6, <1>7, <1>8, <1>9, <1>10, <1>11, <1>12, <1>13,
           <1>14, <1>15, <1>16, <1>17, <1>18, <1>19, <1>20, <1>21, <1>22, <1>23, <1>24
        DEF Next, PeerSteps, ReaderSteps, WriteSteps, ReadTimerSteps, RunnerSteps, StopSteps, CloserSteps

\* A monitor starts its runner, unless the runner was started before.
LEMMA StartsRunner ==
  ASSUME RunnerTypes, NEW known, StartMonitorThreads(known), known => runner.count = 0
  PROVE  RunnerTypes'
<1>1. CASE monitorStarted \/ ~known
  BY <1>1 DEF StartMonitorThreads, RunnerTypes
<1>2. CASE ~(monitorStarted \/ ~known)
  <2>1. runner' = [count |-> runner.count + 1, state |-> "running", pending |-> TRUE, head |-> "read"]
    BY <1>2 DEF StartMonitorThreads
  <2>2. runner.count + 1 = 1
    BY <1>2
  <2>3. runner' = [count |-> 1, state |-> "running", pending |-> TRUE, head |-> "read"]
    BY <2>1, <2>2, Zenon
  <2> QED BY <2>3 DEF RunnerTypes
<1> QED BY <1>1, <1>2

\* There is one runner at most: the thread that names the second wire format starts it.
LEMMA RunnerStep == ASSUME RunnerTypes, Starting, [Next]_vars PROVE RunnerTypes'
<1>1. CASE PeerSteps
  BY <1>1 DEF RunnerTypes, PeerSteps, PeerFails, BeginReceive, EndReceive, tasks
<1>2. CASE OnCommand \/ MarkInRead \/ EndCommand \/ ReadFails
  BY <1>2 DEF RunnerTypes, OnCommand, MarkInRead, EndCommand, ReadFails, tasks
<1>3. CASE RemoteWireFormat
  <2>1. StartMonitorThreads(local) /\ ~remote
    BY <1>3 DEF RemoteWireFormat, At, Starting
  <2>2. runner.count = 0
    BY <2>1 DEF Starting, RunnerTypes
  <2> QED BY <2>1, <2>2, StartsRunner
<1>4. ASSUME NEW t \in Writers, Oneway(t) \/ WriteSteps(t) PROVE RunnerTypes'
  BY <1>4 DEF RunnerTypes, WriteSteps, Oneway, WriteDone, WriteFails, WriteBlocks, tasks
<1>5. CASE LocalWireFormat
  <2>1. StartMonitorThreads(remote) /\ ~local
    BY <1>5 DEF LocalWireFormat, At, Starting
  <2>2. runner.count = 0
    BY <2>1 DEF Starting, RunnerTypes
  <2> QED BY <2>1, <2>2, StartsRunner
<1>6. CASE ReadTimerSteps \/ WriteCheck
  <2>1. runner' = runner \/ runner' = Wakeup
    BY <1>6 DEF ReadTimerSteps, SkipReadCheck, BeginReadCheck, ReadCheck, WriteCheck, tasks
  <2> QED BY <2>1 DEF Wakeup, RunnerTypes
<1>7. CASE RunnerSteps
  <2>1. \/ runner' = runner \/ runner' = [runner EXCEPT !.pending = FALSE]
        \/ \E task \in {"read", "write"} : runner' = [runner EXCEPT !.head = Other(task)]
    BY <1>7 DEF RunnerSteps, NothingPending, RunnerExits, RunTask, tasks
  <2> QED BY <2>1 DEF Other, RunnerTypes
<1>8. ASSUME NEW t \in Stoppers, StopSteps(t) PROVE RunnerTypes'
  <2>1. \/ runner' = runner
        \/ runner' = [runner EXCEPT !.state = "stopping", !.pending = TRUE]
    BY <1>8 DEF StopSteps, OnException, StopMonitorThreads, Shutdown, Joined, TellListener, tasks
  <2> QED BY <2>1 DEF RunnerTypes
<1>9. CASE Close \/ CloserSteps \/ UNCHANGED vars
  BY <1>9 DEF RunnerTypes, Close, CloserSteps, CloseNext, DoClose, CloseDone, vars, tasks
<1> QED BY <1>1, <1>2, <1>3, <1>4, <1>5, <1>6, <1>7, <1>8, <1>9 DEF Next, ReaderSteps

-----------------------------------------------------------------------------
(* Starting and telling the listener *)

\* A wire format is named by the thread that found it unset, and no other thread
\* sets it meanwhile; so the runner is started by the second naming only.
LEMMA StartingStep == ASSUME Names, RunnerTypes, Starting, [Next]_vars PROVE Starting'
<1> USE DEF Names, Labels, Threads, Stoppers, Writers, Goto, At, Reader, Sender, Runner, ReadTimer,
            Closer, Nobody, Starting
<1>1. CASE PeerSteps
  BY <1>1 DEF PeerSteps, PeerFails, BeginReceive, EndReceive, life, tasks
<1>2. CASE OnCommand \/ MarkInRead \/ EndCommand \/ ReadFails
  BY <1>2 DEF OnCommand, MarkInRead, EndCommand, ReadFails, life, tasks
<1>3. CASE RemoteWireFormat
  <2>1. /\ local' = local /\ remote'
        /\ pc'[Reader] = "inRead" /\ pc'[Sender] = pc[Sender]
        /\ runner'.count = runner.count \/ local
    BY <1>3 DEF RemoteWireFormat, StartMonitorThreads
  <2> QED BY <2>1
<1>4. ASSUME NEW t \in Writers, Oneway(t) \/ WriteSteps(t) PROVE Starting'
  BY <1>4 DEF WriteSteps, Oneway, LeaveOneway, WriteDone, WriteFails, WriteBlocks, life, tasks
<1>5. CASE LocalWireFormat
  <2>1. /\ remote' = remote /\ local'
        /\ pc'[Sender] = "write" /\ pc'[Reader] = pc[Reader]
        /\ runner'.count = runner.count \/ remote
    BY <1>5 DEF LocalWireFormat, StartMonitorThreads
  <2> QED BY <2>1
<1>6. CASE ReadTimerSteps \/ WriteCheck
  <2>1. runner' = runner \/ runner' = Wakeup
    BY <1>6 DEF ReadTimerSteps, SkipReadCheck, BeginReadCheck, ReadCheck, WriteCheck, tasks
  <2>2. runner'.count = runner.count
    BY <2>1 DEF Wakeup, RunnerTypes
  <2> QED BY <1>6, <2>2 DEF ReadTimerSteps, SkipReadCheck, BeginReadCheck, ReadCheck, WriteCheck, life
<1>7. CASE RunnerSteps
  <2>1. runner'.count = runner.count
    BY <1>7 DEF RunnerTypes, RunnerSteps, NothingPending, RunnerExits, RunTask, tasks
  <2> QED BY <1>7, <2>1 DEF RunnerSteps, NothingPending, RunnerExits, RunTask, life
<1>8. ASSUME NEW t \in Stoppers, StopSteps(t) PROVE Starting'
  <2>1. runner'.count = runner.count
    BY <1>8 DEF RunnerTypes, StopSteps, OnException, StopMonitorThreads, Shutdown, Joined,
                TellListener, tasks
  <2> QED BY <1>8, <2>1 DEF StopSteps, OnException, StopMonitorThreads, Shutdown, Joined, TellListener,
                            Return, life
<1>9. CASE Close \/ CloserSteps \/ UNCHANGED vars
  BY <1>9 DEF Close, CloserSteps, CloseNext, DoClose, CloseDone, vars, life, tasks
<1> QED BY <1>1, <1>2, <1>3, <1>4, <1>5, <1>6, <1>7, <1>8, <1>9 DEF Next, ReaderSteps

\* Of the threads that meet an exception the first to store failed tells the
\* listener, and the others return.
LEMMA ToldStep ==
  ASSUME Names, told \in 0..1, ToldOnce, [Next]_vars
  PROVE  told' \in 0..1 /\ ToldOnce'
<1> USE DEF Names, Labels, Threads, Stoppers, Writers, Goto, At, Reader, Sender, Runner, ReadTimer,
            Closer, Nobody, ToldOnce, Telling
<1>1. CASE PeerSteps
  BY <1>1 DEF PeerSteps, PeerFails, BeginReceive, EndReceive, filter
<1>2. CASE ReaderSteps
  BY <1>2 DEF ReaderSteps, OnCommand, MarkInRead, RemoteWireFormat, EndCommand, ReadFails, filter
<1>3. ASSUME NEW t \in Writers, Oneway(t) \/ WriteSteps(t) PROVE told' \in 0..1 /\ ToldOnce'
  BY <1>3 DEF WriteSteps, Oneway, LeaveOneway, WriteDone, WriteFails, WriteBlocks, filter
<1>4. CASE LocalWireFormat
  BY <1>4 DEF LocalWireFormat, filter
<1>5. CASE ReadTimerSteps \/ WriteCheck
  BY <1>5 DEF ReadTimerSteps, SkipReadCheck, BeginReadCheck, ReadCheck, WriteCheck, filter
<1>6. CASE RunnerSteps
  BY <1>6 DEF RunnerSteps, NothingPending, RunnerExits, RunTask, filter
<1>7. ASSUME NEW t \in Stoppers, StopSteps(t) PROVE told' \in 0..1 /\ ToldOnce'
  <2>1. CASE OnException(t)
    BY <1>7, <2>1 DEF OnException, Return
  <2>2. CASE StopMonitorThreads(t) \/ Shutdown(t) \/ Joined(t)
    BY <1>7, <2>2 DEF StopMonitorThreads, Shutdown, Joined, filter
  <2>3. CASE TellListener(t)
    BY <1>7, <2>3 DEF TellListener, Return
  <2> QED BY <1>7, <2>1, <2>2, <2>3 DEF StopSteps
<1>8. CASE Close \/ CloserSteps \/ UNCHANGED vars
  BY <1>8 DEF Close, CloserSteps, CloseNext, DoClose, CloseDone, vars, filter
<1> QED BY <1>1, <1>2, <1>3, <1>4, <1>5, <1>6, <1>7, <1>8 DEF Next

-----------------------------------------------------------------------------
(* What the read check relies on *)

\* A step that leaves the reader, the read timer, the mark and the histories alone,
\* and neither starts nor closes the filter, keeps Watching.
LEMMA WatchingFrame ==
  ASSUME Watching,
         pc'[Reader] = pc[Reader], pc'[ReadTimer] = pc[ReadTimer],
         pc'[Closer] = pc[Closer] \/ ~started,
         UNCHANGED <<peer, started, closed, inRead, commandReceived, during, since>>
  PROVE  Watching'
BY DEF Watching, Hearing, InUse

\* The reader stores commandReceived before inRead, and resets inRead last.
LEMMA WatchingReader ==
  ASSUME Names, Flags, Watching, BeginReceive \/ EndReceive \/ ReaderSteps
  PROVE  Watching'
<1> USE DEF Names, Labels, Threads, Goto, At, Reader, Sender, Runner, ReadTimer, Closer, Watching,
            Hearing, InUse
<1>1. CASE BeginReceive
  BY <1>1 DEF BeginReceive, flags, filter, history
<1>2. CASE EndReceive
  BY <1>2 DEF EndReceive, flags, filter, history
<1>3. CASE OnCommand
  BY <1>3 DEF OnCommand, filter
<1>4. CASE MarkInRead
  BY <1>4 DEF MarkInRead, filter, history
<1>5. CASE RemoteWireFormat
  BY <1>5 DEF RemoteWireFormat, flags, filter, history
<1>6. CASE EndCommand
  BY <1>6 DEF EndCommand, filter, history
<1>7. CASE ReadFails
  BY <1>7 DEF ReadFails, flags, filter, history
<1> QED BY <1>1, <1>2, <1>3, <1>4, <1>5, <1>6, <1>7 DEF ReaderSteps

\* A check that found the reader at work is remembered; the next one reads the mark
\* of that command, and then erases it.
LEMMA WatchingTimer ==
  ASSUME Names, Flags, Watching, ReadTimerSteps
  PROVE  Watching'
<1> USE DEF Names, Labels, Threads, Goto, At, Reader, Sender, Runner, ReadTimer, Closer, Watching,
            Hearing, InUse
<1>1. CASE SkipReadCheck
  BY <1>1 DEF SkipReadCheck, flags, filter
<1>2. CASE BeginReadCheck
  BY <1>2 DEF BeginReadCheck, flags, filter
<1>3. CASE ReadCheck
  BY <1>3 DEF ReadCheck, filter
<1> QED BY <1>1, <1>2, <1>3 DEF ReadTimerSteps

\* Every step keeps it.
LEMMA WatchingStep == ASSUME Names, Flags, Watching, [Next]_vars PROVE Watching'
<1> USE DEF Names, Labels, Threads, Stoppers, Writers, Goto, At, Reader, Sender, Runner, ReadTimer,
            Closer, Nobody
<1>1. CASE PeerFails
  BY <1>1 DEF PeerFails, Watching, Hearing, InUse, flags, filter
<1>2. CASE BeginReceive \/ EndReceive \/ ReaderSteps
  BY <1>2, WatchingReader
<1>3. ASSUME NEW t \in Writers, Oneway(t) \/ WriteSteps(t) PROVE Watching'
  BY <1>3, WatchingFrame
     DEF WriteSteps, Oneway, LeaveOneway, WriteDone, WriteFails, WriteBlocks, flags, filter, history
<1>4. CASE LocalWireFormat
  BY <1>4, WatchingFrame DEF LocalWireFormat, flags, filter, history
<1>5. CASE ReadTimerSteps
  BY <1>5, WatchingTimer
<1>6. CASE WriteCheck \/ RunnerSteps
  BY <1>6, WatchingFrame
     DEF WriteCheck, RunnerSteps, NothingPending, RunnerExits, RunTask, flags, filter, history
<1>7. ASSUME NEW t \in Stoppers, StopSteps(t) PROVE Watching'
  BY <1>7 DEF Watching, Hearing, InUse, StopSteps, OnException, StopMonitorThreads, Shutdown, Joined,
              TellListener, Return, flags, filter, history
<1>8. CASE Close
  BY <1>8 DEF Close, Watching, Hearing, InUse, flags
<1>9. CASE CloserSteps
  BY <1>9 DEF CloserSteps, CloseNext, DoClose, CloseDone, Watching, Hearing, InUse, flags, filter,
              history
<1>10. CASE UNCHANGED vars
  BY <1>10, WatchingFrame DEF vars, flags, filter, history
<1> QED BY <1>1, <1>2, <1>3, <1>4, <1>5, <1>6, <1>7, <1>8, <1>9, <1>10 DEF Next, PeerSteps

\* Only a read check raises the alarm, and one that finds no mark after a busy
\* check finds a reader that has not yet stored it.
LEMMA SparedStep == ASSUME Watching, BusyReaderSpared, [Next]_vars PROVE BusyReaderSpared'
<1>1. CASE ReadCheck
  BY <1>1 DEF ReadCheck, Watching, BusyReaderSpared, At, Reader, ReadTimer
<1>2. falseAlarm' = falseAlarm \/ ReadCheck
  BY DEF Next, PeerSteps, PeerFails, BeginReceive, EndReceive, ReaderSteps, OnCommand, MarkInRead,
         RemoteWireFormat, EndCommand, ReadFails, Oneway, WriteSteps, WriteDone, WriteFails,
         WriteBlocks, LocalWireFormat, ReadTimerSteps, SkipReadCheck, BeginReadCheck, WriteCheck,
         RunnerSteps, NothingPending, RunnerExits, RunTask, StopSteps, OnException,
         StopMonitorThreads, Shutdown, Joined, TellListener, Close, CloserSteps, CloseNext, DoClose,
         CloseDone, history, vars
<1> QED BY <1>1, <1>2 DEF BusyReaderSpared

-----------------------------------------------------------------------------
(* The theorems *)

\* The invariant holds of a connection that has just been made.
LEMMA Initially == Init => IInv
<1> SUFFICES ASSUME Init PROVE IInv
  OBVIOUS
<1> USE DEF Init, Threads, Reader, Sender, Runner, ReadTimer, Closer, Nobody
<1>1. pc[Reader] = "idle" /\ pc[Sender] = "idle" /\ pc[Runner] = "loop" /\ pc[ReadTimer] = "idle"
      /\ pc[Closer] = "idle"
  OBVIOUS
<1>2. Names
  BY DEF Names, Labels
<1>3. Flags
  BY Zenon DEF Flags
<1>4. RunnerTypes
  BY DEF RunnerTypes
<1>5. told \in 0..1
  OBVIOUS
<1>6. TypeOK
  BY <1>2, <1>3, <1>4, <1>5, TypeParts
<1>7. Starting /\ ToldOnce /\ Watching /\ BusyReaderSpared
  BY <1>1 DEF Starting, ToldOnce, Telling, Watching, Hearing, BusyReaderSpared
<1> QED BY <1>6, <1>7 DEF IInv

\* Every step keeps the invariant.
LEMMA Inductive == IInv /\ [Next]_vars => IInv'
<1> SUFFICES ASSUME IInv, [Next]_vars PROVE IInv'
  OBVIOUS
<1>1. Names /\ Flags /\ RunnerTypes /\ told \in 0..1
  BY TypeParts DEF IInv
<1>2. Starting /\ ToldOnce /\ Watching /\ BusyReaderSpared
  BY DEF IInv
<1>3. Names' /\ Flags' /\ RunnerTypes'
  BY <1>1, <1>2, NamesStep, FlagsStep, RunnerStep
<1>4. told' \in 0..1 /\ ToldOnce'
  BY <1>1, <1>2, ToldStep
<1>5. TypeOK'
  <2>1. ({local, remote, monitorStarted, failed, commandReceived, commandSent, inRead, inWrite,
          readFailed, write, cancelled, started, closed, during, falseAlarm} \subseteq BOOLEAN)'
    BY <1>3 DEF Flags
  <2> QED BY <1>3, <1>4, <2>1 DEF TypeOK, Names, RunnerTypes, Labels
<1>6. Starting' /\ Watching' /\ BusyReaderSpared'
  BY <1>1, <1>2, StartingStep, WatchingStep, SparedStep
<1> QED BY <1>4, <1>5, <1>6 DEF IInv

\* So it always holds.
LEMMA Invariance == Spec => []IInv
BY Initially, Inductive, PTL DEF Spec

\* The monitor starts one runner though two threads name the wire formats, and the
\* listener is told of one exception though the reader, the runner and the read
\* timer find failures independently; every flag holds what it can hold.
THEOREM TypeCorrect == Spec => []TypeOK
<1>1. IInv => TypeOK
  BY DEF IInv
<1> QED BY <1>1, Invariance, PTL

\* A reader found at work by one read check is not taken for inactive by the next.
THEOREM BusyReaderIsSpared == Spec => []BusyReaderSpared
<1>1. IInv => BusyReaderSpared
  BY DEF IInv
<1> QED BY <1>1, Invariance, PTL
=============================================================================
