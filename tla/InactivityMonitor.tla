--------------------------- MODULE InactivityMonitor ---------------------------
(***************************************************************************)
(* The InactivityMonitor of one connection, with the CompositeTaskRunner   *)
(* it runs its two tasks on, the part of TransportFilter that starts,      *)
(* stops and closes it, and the reader of the IOTransport below it.        *)
(*                                                                         *)
(* The monitor starts when both sides have named their wire format.  The   *)
(* read timer looks whether a command came since its last check, the write *)
(* timer whether one was sent; what they find is left to one task runner,  *)
(* which tells the listener or writes a keep-alive.  Six threads share     *)
(* flags that no lock protects; two loads or stores of a thread are one    *)
(* step only where what could come between them has the same effect when   *)
(* it comes before or after.                                               *)
(*                                                                         *)
(* There are no clocks: a timer may fire at any moment.  Both sides agreed *)
(* on a maximum inactivity duration above zero (zero disables the timers). *)
(***************************************************************************)
EXTENDS Naturals

VARIABLES
    peer,             \* the broker (external): "talking", "silent" or "dead"
    pc,               \* where each thread is
    local, remote,    \* localWireFormatInfo, remoteWireFormatInfo: are they known
    monitor,          \* the thread that holds the mutex of that name
    inWriteMutex,     \* the thread that holds the mutex of that name
    monitorStarted, failed, commandReceived, commandSent, inRead, inWrite,
    runner,           \* CompositeTaskRunner: [count, state, pending, head]
    readFailed,       \* AsyncSignalReadErrorkTask::failed
    write,            \* AsyncWriteTask::write
    cancelled,        \* both timers are cancelled
    started,          \* TransportFilter::started
    closed,           \* TransportFilter::closed, and the streams are closed
    told,             \* how often the listener was told of an exception
    during,           \* history: a command came in the course of the current read check
    since,            \* history, since the last read check: "quiet"; "busy" (one was skipped);
                      \* "erased" (a command had come in the course of it).  Neither is
                      \* recorded once the connection is lost or being closed.
    falseAlarm        \* history: the alarm went off for a busy reader

flags == <<commandReceived, commandSent, inRead, inWrite>>
tasks == <<runner, readFailed, write>>
life == <<local, remote, monitor, monitorStarted, cancelled>>
filter == <<failed, started, closed, told>>
history == <<during, since, falseAlarm>>
vars == <<peer, pc, inWriteMutex, flags, tasks, life, filter, history>>

Reader == "reader"          \* IOTransport::run
Sender == "sender"          \* the application, in oneway()
Runner == "runner"          \* CompositeTaskRunner::run
ReadTimer == "readTimer"
Closer == "closer"          \* who calls TransportFilter::close()
Threads == {Reader, Sender, Runner, ReadTimer, Closer}
Writers == {Sender, Runner}
Stoppers == {Reader, Runner, Closer}
Nobody == "nobody"

\* Both sides are there.
InUse == peer = "talking" /\ started

Goto(t, label) == pc' = [pc EXCEPT ![t] = label]
At(t, label) == pc[t] = label

Init ==
    /\ peer = "talking"
    /\ pc = [t \in Threads |-> IF t = Runner THEN "loop" ELSE "idle"]
    /\ local = FALSE /\ remote = FALSE
    /\ monitor = Nobody /\ inWriteMutex = Nobody
    /\ monitorStarted = FALSE /\ failed = FALSE
    /\ commandReceived = TRUE /\ commandSent = FALSE
    /\ inRead = FALSE /\ inWrite = FALSE
    /\ runner = [count |-> 0, state |-> "none", pending |-> FALSE, head |-> "read"]
    /\ readFailed = FALSE /\ write = FALSE /\ cancelled = FALSE
    /\ started = TRUE /\ closed = FALSE /\ told = 0
    /\ during = FALSE /\ since = "quiet" /\ falseAlarm = FALSE

-----------------------------------------------------------------------------
(* The peer: it may fall silent and keep the connection, or break it. *)

PeerFails ==
    /\ peer' = IF peer = "talking" THEN "silent" ELSE "dead"
    /\ peer # "dead"
    /\ during' = FALSE /\ since' = "quiet"
    /\ UNCHANGED <<pc, inWriteMutex, flags, tasks, life, filter, falseAlarm>>

-----------------------------------------------------------------------------
(* Starting *)

\* startMonitorThreads() by a thread that holds monitor, and that has just set
\* one of the two wire formats (known says whether the other is set).
StartMonitorThreads(known) ==
    IF monitorStarted \/ ~known
    THEN UNCHANGED <<runner, monitorStarted, readFailed, write>>
    ELSE /\ runner' = [count |-> runner.count + 1, state |-> "running",
                       pending |-> TRUE, head |-> "read"]
         /\ readFailed' = FALSE /\ write' = FALSE
         /\ monitorStarted' = TRUE

-----------------------------------------------------------------------------
(* The reader of the IOTransport *)

\* OpenWireFormat::doUnmarshal() has set receiving once the size is read.
BeginReceive ==
    /\ At(Reader, "idle") /\ peer = "talking" /\ ~closed
    /\ Goto(Reader, "receiving")
    /\ UNCHANGED <<peer, inWriteMutex, flags, tasks, life, filter, history>>

\* The command is complete; receiving is reset.
EndReceive ==
    /\ At(Reader, "receiving") /\ peer = "talking" /\ ~closed
    /\ Goto(Reader, "received")
    /\ UNCHANGED <<peer, inWriteMutex, flags, tasks, life, filter, history>>

\* onCommand() stores commandReceived.  fire() drops the command of a transport
\* that is closed, and run() ends.
OnCommand ==
    /\ At(Reader, "received")
    /\ Goto(Reader, IF closed THEN "exited" ELSE "heard")
    /\ commandReceived' = (commandReceived \/ ~closed)
    /\ during' = (InUse /\ At(ReadTimer, "check"))
    /\ UNCHANGED <<peer, inWriteMutex, commandSent, inRead, inWrite, tasks, life, filter,
                   since, falseAlarm>>

\* It stores inRead.  The first command names the peer's wire format.
MarkInRead ==
    /\ At(Reader, "heard")
    /\ inRead' = TRUE
    /\ Goto(Reader, IF remote THEN "inRead" ELSE "wireFormat")
    /\ UNCHANGED <<peer, inWriteMutex, commandReceived, commandSent, inWrite, tasks, life, filter, history>>

RemoteWireFormat ==
    /\ At(Reader, "wireFormat") /\ monitor = Nobody
    /\ remote' = TRUE
    /\ StartMonitorThreads(local)
    /\ Goto(Reader, "inRead")
    /\ UNCHANGED <<peer, inWriteMutex, flags, local, monitor, cancelled, filter, history>>

\* The listener returns, in its own time.
EndCommand ==
    /\ At(Reader, "inRead")
    /\ inRead' = FALSE
    /\ Goto(Reader, "idle")
    /\ UNCHANGED <<peer, inWriteMutex, commandReceived, commandSent, inWrite, tasks, life, filter, history>>

\* The read ends with an exception: fire() tells the monitor, unless the
\* transport was closed, and run() ends.
ReadFails ==
    /\ pc[Reader] \in {"idle", "receiving"} /\ (peer = "dead" \/ closed)
    /\ Goto(Reader, IF closed THEN "exited" ELSE "onException")
    /\ UNCHANGED <<peer, inWriteMutex, flags, tasks, life, filter, history>>

-----------------------------------------------------------------------------
(* oneway(), called by the application and by the keep-alive task *)

\* The command is sent or refused: commandSent, inWrite, then the mutex.  The
\* application has its answer; the task tells the monitor of an exception.
LeaveOneway(t, thrown) ==
    /\ commandSent' = TRUE /\ inWrite' = FALSE /\ inWriteMutex' = Nobody
    /\ Goto(t, CASE t = Sender -> "idle" [] thrown -> "onException" [] OTHER -> "loop")

\* A monitor that has failed refuses; the first command of the application
\* names the local wire format.
Oneway(t) ==
    /\ At(t, IF t = Sender THEN "idle" ELSE "oneway") /\ inWriteMutex = Nobody
    /\ IF failed
       THEN /\ LeaveOneway(t, TRUE)
            /\ UNCHANGED <<commandReceived, inRead>>
       ELSE /\ inWriteMutex' = t
            /\ inWrite' = TRUE
            /\ Goto(t, IF t = Sender /\ ~local THEN "wireFormat" ELSE "write")
            /\ UNCHANGED <<commandReceived, commandSent, inRead>>
    /\ UNCHANGED <<peer, tasks, life, filter, history>>

LocalWireFormat ==
    /\ At(Sender, "wireFormat") /\ monitor = Nobody
    /\ local' = TRUE
    /\ StartMonitorThreads(remote)
    /\ Goto(Sender, "write")
    /\ UNCHANGED <<peer, inWriteMutex, flags, remote, monitor, cancelled, filter, history>>

\* IOTransport::oneway() writes the command: what the socket's buffer takes is
\* written whatever the peer does.
WriteDone(t) ==
    /\ At(t, "write") /\ peer # "dead" /\ ~closed
    /\ LeaveOneway(t, FALSE)
    /\ UNCHANGED <<peer, commandReceived, inRead, tasks, life, filter, history>>

WriteFails(t) ==
    /\ pc[t] \in {"write", "blocked"} /\ (peer = "dead" \/ closed)
    /\ LeaveOneway(t, TRUE)
    /\ UNCHANGED <<peer, commandReceived, inRead, tasks, life, filter, history>>

\* A peer that does not read lets the buffer fill; there is no timeout.
WriteBlocks(t) ==
    /\ At(t, "write") /\ peer = "silent" /\ ~closed
    /\ Goto(t, "blocked")
    /\ UNCHANGED <<peer, inWriteMutex, flags, tasks, life, filter, history>>

-----------------------------------------------------------------------------
(* The timers *)

\* The timers fire from the start of the monitor until they are cancelled.
Scheduled == runner.state # "none" /\ ~cancelled

\* readCheck() gives up while the reader is at work on a command.
SkipReadCheck ==
    /\ At(ReadTimer, "idle") /\ Scheduled
    /\ inRead \/ At(Reader, "receiving")
    /\ since' = IF InUse /\ since = "quiet" THEN "busy" ELSE since
    /\ UNCHANGED <<peer, pc, inWriteMutex, flags, tasks, life, filter, during, falseAlarm>>

\* Mutant: readCheck() does not ask the wire format.
BeginIgnoresReceive ==
    /\ At(ReadTimer, "idle") /\ Scheduled
    /\ ~inRead
    /\ Goto(ReadTimer, "check")
    /\ during' = (InUse /\ At(Reader, "heard"))
    /\ UNCHANGED <<peer, inWriteMutex, flags, tasks, life, filter, since, falseAlarm>>

BeginReadCheck ==
    /\ At(ReadTimer, "idle") /\ Scheduled
    /\ ~inRead /\ ~At(Reader, "receiving")
    /\ Goto(ReadTimer, "check")
    /\ during' = (InUse /\ At(Reader, "heard"))
    /\ UNCHANGED <<peer, inWriteMutex, flags, tasks, life, filter, since, falseAlarm>>

\* wakeup() of the runner, once one of its tasks is pending.
Wakeup == [runner EXCEPT !.pending = @ \/ runner.state = "running"]

\* No command since the last check: the read error task is to tell the listener.
ReadCheck ==
    /\ At(ReadTimer, "check")
    /\ IF commandReceived
       THEN UNCHANGED <<runner, readFailed, falseAlarm>>
       ELSE /\ readFailed' = TRUE
            /\ runner' = Wakeup
            /\ falseAlarm' = (falseAlarm \/ (since = "busy" /\ ~At(Reader, "received")))
    /\ commandReceived' = FALSE
    /\ since' = IF during THEN "erased" ELSE "quiet"
    /\ during' = FALSE
    /\ Goto(ReadTimer, "idle")
    /\ UNCHANGED <<peer, inWriteMutex, commandSent, inRead, inWrite, write, life, filter>>

\* writeCheck() gives up while a command is being written.  Nothing sent since
\* the last check: the write task is to send a keep-alive.
WriteCheck ==
    /\ Scheduled
    /\ ~inWrite
    /\ IF commandSent
       THEN UNCHANGED <<runner, write>>
       ELSE write' = TRUE /\ runner' = Wakeup
    /\ commandSent' = FALSE
    /\ UNCHANGED <<peer, pc, inWriteMutex, commandReceived, inRead, inWrite, readFailed, life, filter, history>>

-----------------------------------------------------------------------------
(* CompositeTaskRunner::run() and the two tasks *)

Other(task) == IF task = "read" THEN "write" ELSE "read"
IsPending(task) == IF task = "read" THEN readFailed ELSE write

\* Once woken, or when it has run a task, the loop resets pending and iterate()
\* runs the first pending task of the list and puts it last: of two tasks the
\* other one then stands first.
RunTask(task) ==
    /\ At(Runner, "loop") /\ runner.state = "running" /\ runner.pending
    /\ IsPending(task)
    /\ task = runner.head \/ ~IsPending(runner.head)
    /\ runner' = [runner EXCEPT !.head = Other(task)]
    /\ IF task = "read"
       THEN /\ readFailed' = FALSE
            /\ Goto(Runner, "onException")
            /\ UNCHANGED write
       ELSE /\ write' = FALSE
            /\ Goto(Runner, IF monitorStarted THEN "oneway" ELSE "loop")
            /\ UNCHANGED readFailed
    /\ UNCHANGED <<peer, inWriteMutex, flags, life, filter, history>>

NothingPending ==
    /\ At(Runner, "loop") /\ runner.state = "running" /\ runner.pending
    /\ ~readFailed /\ ~write
    /\ runner' = [runner EXCEPT !.pending = FALSE]
    /\ UNCHANGED <<peer, pc, inWriteMutex, flags, readFailed, write, life, filter, history>>

\* The loop ends when the runner is stopping.
RunnerExits ==
    /\ At(Runner, "loop") /\ runner.state = "stopping"
    /\ Goto(Runner, "exited")
    /\ UNCHANGED <<peer, inWriteMutex, flags, tasks, life, filter, history>>

-----------------------------------------------------------------------------
(* onException(), stopMonitorThreads() and TransportFilter::close() *)

\* Where a thread that called onException() goes on.
Return(t) == IF t = Runner THEN "loop" ELSE "exited"

\* Mutant: every exception is acted on.
OnEveryException(t) ==
    /\ At(t, "onException")
    /\ failed' = TRUE
    /\ Goto(t, "stop")
    /\ UNCHANGED <<peer, inWriteMutex, flags, tasks, life, started, closed, told, history>>

\* Only the first exception is acted on.
OnException(t) ==
    /\ At(t, "onException")
    /\ failed' = TRUE
    /\ Goto(t, IF failed THEN Return(t) ELSE "stop")
    /\ UNCHANGED <<peer, inWriteMutex, flags, tasks, life, started, closed, told, history>>

\* TransportFilter::close() calls stop(), which stops the monitor first.
Close ==
    /\ At(Closer, "idle")
    /\ started' = FALSE
    /\ Goto(Closer, "stop")
    /\ during' = FALSE /\ since' = "quiet"
    /\ UNCHANGED <<peer, inWriteMutex, flags, tasks, life, failed, closed, told, falseAlarm>>

\* stopMonitorThreads() is done by the one that resets monitorStarted.
StopMonitorThreads(t) ==
    /\ At(t, "stop")
    /\ monitorStarted' = FALSE
    /\ Goto(t, IF monitorStarted THEN "lock" ELSE "stopped")
    /\ UNCHANGED <<peer, inWriteMutex, flags, tasks, local, remote, monitor, cancelled, filter, history>>

\* Mutant: the runner's thread joins itself.
ShutdownJoinsItself(t) ==
    /\ At(t, "lock") /\ monitor = Nobody
    /\ cancelled' = TRUE
    /\ runner' = [runner EXCEPT !.state = "stopping", !.pending = TRUE]
    /\ monitor' = t
    /\ Goto(t, "join")
    /\ UNCHANGED <<peer, inWriteMutex, flags, readFailed, write, local, remote, monitorStarted,
                   filter, history>>

\* It cancels the timers and shuts the runner down, which a thread other than
\* the runner's joins with monitor held.
Shutdown(t) ==
    /\ At(t, "lock") /\ monitor = Nobody
    /\ cancelled' = TRUE
    /\ runner' = [runner EXCEPT !.state = "stopping", !.pending = TRUE]
    /\ monitor' = IF t = Runner THEN Nobody ELSE t
    /\ Goto(t, IF t = Runner THEN "stopped" ELSE "join")
    /\ UNCHANGED <<peer, inWriteMutex, flags, readFailed, write, local, remote, monitorStarted,
                   filter, history>>

\* The timers' threads are then awaited, for ten seconds at most.
Joined(t) ==
    /\ At(t, "join") /\ At(Runner, "exited")
    /\ monitor' = Nobody
    /\ Goto(t, "stopped")
    /\ UNCHANGED <<peer, inWriteMutex, flags, tasks, local, remote, monitorStarted, cancelled,
                   filter, history>>

\* TransportFilter::onException() tells the listener of a started filter.
TellListener(t) ==
    /\ t # Closer /\ At(t, "stopped")
    /\ told' = IF started /\ ~closed THEN told + 1 ELSE told
    /\ Goto(t, Return(t))
    /\ UNCHANGED <<peer, inWriteMutex, flags, tasks, life, failed, started, closed, history>>

\* Mutant: the reader is joined before the streams are closed.
CloseNextJoinsFirst ==
    /\ At(Closer, "stopped") /\ ~closed
    /\ Goto(Closer, "closing")
    /\ UNCHANGED <<peer, inWriteMutex, flags, tasks, life, filter, history>>

\* Then next->close() closes the streams, joins the reader, and doClose() stops
\* a monitor that has started meanwhile.
CloseNext ==
    /\ At(Closer, "stopped") /\ ~closed
    /\ closed' = TRUE
    /\ Goto(Closer, "closing")
    /\ UNCHANGED <<peer, inWriteMutex, flags, tasks, life, failed, started, told, history>>

DoClose ==
    /\ At(Closer, "closing") /\ At(Reader, "exited")
    /\ Goto(Closer, "stop")
    /\ UNCHANGED <<peer, inWriteMutex, flags, tasks, life, filter, history>>

CloseDone ==
    /\ At(Closer, "stopped") /\ closed
    /\ Goto(Closer, "closed")
    /\ UNCHANGED <<peer, inWriteMutex, flags, tasks, life, filter, history>>

-----------------------------------------------------------------------------
(* The specification *)

PeerSteps == PeerFails \/ BeginReceive \/ EndReceive
ReaderSteps == OnCommand \/ MarkInRead \/ RemoteWireFormat \/ EndCommand \/ ReadFails
WriteSteps(t) == WriteDone(t) \/ WriteFails(t) \/ WriteBlocks(t)
ReadTimerSteps == SkipReadCheck \/ BeginReadCheck \/ ReadCheck
RunnerSteps ==
    NothingPending \/ RunnerExits \/ \E task \in {"read", "write"} : RunTask(task)
StopSteps(t) == OnException(t) \/ StopMonitorThreads(t) \/ Shutdown(t) \/ Joined(t) \/ TellListener(t)
CloserSteps == CloseNext \/ DoClose \/ CloseDone

Next ==
    \/ PeerSteps \/ ReaderSteps
    \/ \E t \in Writers : Oneway(t) \/ WriteSteps(t)
    \/ LocalWireFormat
    \/ ReadTimerSteps \/ WriteCheck \/ RunnerSteps
    \/ \E t \in Stoppers : StopSteps(t)
    \/ Close \/ CloserSteps

Spec == Init /\ [][Next]_vars

\* The threads run, the listener's onCommand() returns, and senders do not keep
\* the runner from inWriteMutex for ever.  The peer owes nothing, nobody has to
\* call oneway() or close(), and a blocked write need not end.
Fairness ==
    /\ WF_vars(ReaderSteps \/ StopSteps(Reader))
    /\ WF_vars(LocalWireFormat \/ WriteSteps(Sender))
    /\ WF_vars(RunnerSteps \/ WriteSteps(Runner) \/ StopSteps(Runner))
    /\ SF_vars(Oneway(Runner))
    /\ WF_vars(ReadTimerSteps)
    /\ WF_vars(CloserSteps \/ StopSteps(Closer))

FairSpec == Spec /\ Fairness

-----------------------------------------------------------------------------
(* Properties *)

\* Every variable holds what its field can hold.  In particular the monitor
\* starts one runner, though the two wire formats become known to two threads,
\* and the listener is told once, though three threads may find the failure.
TypeOK ==
    /\ peer \in {"talking", "silent", "dead"}
    /\ pc \in [Threads -> {"idle", "receiving", "received", "heard", "wireFormat", "inRead",
                           "oneway", "write", "blocked", "check",
                           "loop", "exited",
                           "onException", "stop", "lock", "join", "stopped", "closing", "closed"}]
    /\ {local, remote, monitorStarted, failed, commandReceived, commandSent, inRead, inWrite,
        readFailed, write, cancelled, started, closed, during, falseAlarm} \subseteq BOOLEAN
    /\ monitor \in Stoppers \cup {Nobody}
    /\ inWriteMutex \in Writers \cup {Nobody}
    /\ runner \in [count : 0..1, state : {"none", "running", "stopping"}, pending : BOOLEAN,
                   head : {"read", "write"}]
    /\ told \in 0..1
    /\ since \in {"quiet", "busy", "erased"}

\* A reader that was at work on a command when its check came is not taken for
\* inactive at the next one while both sides are there, unless a command came in
\* the very course of a check (its mark is erased) or has been read and not yet
\* been marked as received.
BusyReaderSpared == ~falseAlarm

\* The connection is lost: broken, or silent while the monitor runs.
Lost == peer = "dead" \/ (peer = "silent" /\ monitorStarted)

\* A lost connection is reported to the listener of a filter that is not being
\* stopped, unless a write to the silent peer has blocked (the runner's, or one
\* the runner's keep-alive waits for), or it fell silent within a command.
LossReported ==
    Lost ~> \/ told > 0 \/ ~started
            \/ peer = "silent" /\ (At(Reader, "receiving") \/ \E t \in Writers : At(t, "blocked"))

\* close() returns, unless it waits for a runner that is kept by a write to a
\* silent peer: the streams are closed after that wait only.
CloseReturns ==
    At(Closer, "stop") ~>
        \/ At(Closer, "closed")
        \/ peer = "silent" /\ (\E t \in Writers : At(t, "blocked")) /\ \E t \in Stoppers : At(t, "join")
=============================================================================
