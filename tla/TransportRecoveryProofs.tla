------------------------ MODULE TransportRecoveryProofs ------------------------
(***************************************************************************)
(* Invariance proofs for TransportRecovery, for any number of consumers,   *)
(* lost connections and readers that have outlived their connection.       *)
(*                                                                         *)
(* OneConnection is about the moment a message is enqueued; it holds       *)
(* because what an earlier connection left in a channel is flagged (or     *)
(* about to be) before the next connection brings anything, because the    *)
(* flag is only reset by a thread that has emptied the channel and held    *)
(* its lock since, and because dispatch() looks at the flag after its      *)
(* message has arrived.  The parts of IInv say just that, for behaviours   *)
(* in which no message in hand has outlived its connection.                *)
(***************************************************************************)
EXTENDS TransportRecovery, TLAPS, FiniteSetTheorems, WellFoundedInduction

\* How many connections have been lost.
Interruptions == IF connected THEN epoch - 1 ELSE epoch

\* Where a clearing thread holds the lock of its consumer's channel.
Locked == {"sub", "signal", "control", "store", "reset"}

\* While consumers are still to be asked there is no connection.
AskingOffline ==
    /\ todo # {} => reconnectMutex
    /\ reconnectMutex => ~connected
    /\ ~connected => epoch <= MaxInterruptions

\* A consumer is counted once per interruption.
CountBound == counter + Cardinality(todo) <= NumConsumers

\* A consumer is asked once per interruption.
FlagBound ==
    \A c \in Consumers :
        /\ flag[c] <= Interruptions
        /\ c \in todo /\ asked # c => flag[c] < Interruptions

\* Who may be where, and that a clearing thread holds the channel's lock.
Places ==
    /\ \A r \in Readers : pc[r] \in {"idle", "wait", "signal", "control", "store"}
    /\ pc[Scheduler] \in {"idle", "clear"} \cup Locked
    /\ pc[Dispatcher] \in {"idle", "clear", "enqueue"} \cup Locked
    /\ \A t \in Threads : pc[t] # "idle" => on[t] \in Consumers
    /\ \A t \in Clearers : pc[t] \in Locked => owner[on[t]] = t

\* The dispatcher and the readers have a message in hand while they work.
InHand ==
    /\ message[Scheduler] = 0
    /\ \A t \in {Dispatcher} \cup Readers : pc[t] = "idle" <=> message[t] = 0

\* A channel whose lock a clearing thread holds has been emptied.
LockedIsEmpty == \A c \in Consumers : owner[c] # Nobody => channel[c] = {}

\* A message in hand came over the present connection.
HandIsFresh ==
    ~stale => \A t \in Threads : message[t] # 0 => connected /\ message[t] = epoch

\* What an earlier connection left is flagged, or will be.
LeftoversFlagged ==
    ~stale => \A c \in Consumers : \A m \in channel[c] :
                  (m = epoch /\ connected) \/ flag[c] > 0 \/ c \in todo

\* A consumer that was just asked is flagged, unless it was cleared since.
AskedIsFlagged ==
    ~stale /\ asked # None => flag[asked] > 0 \/ channel[asked] = {}

\* dispatch() adds a message to messages of the same connection.
EnqueueIsClean ==
    ~stale /\ pc[Dispatcher] = "enqueue" =>
        \A m \in channel[on[Dispatcher]] : m = epoch

\* OneConnection, without counting.
OneEpoch == ~stale => \A c \in Consumers : \A m, n \in channel[c] : m = n

Safe ==
    /\ LockedIsEmpty /\ HandIsFresh /\ LeftoversFlagged
    /\ AskedIsFlagged /\ EnqueueIsClean /\ OneEpoch

IInv ==
    /\ TypeOK
    /\ AskingOffline /\ CountBound /\ FlagBound
    /\ Places /\ InHand
    /\ Safe

-----------------------------------------------------------------------------
(* The initial state and lemmas on the operators *)

\* The consumers are asked in their order, so the one asked is one of those left.
LEMMA MinIsMember == ASSUME NEW S \in SUBSET Nat, S # {} PROVE Min(S) \in S
<1>1. \A x, y \in Nat : <<y, x>> \in OpToRel(<, Nat) <=> y < x
  BY Zenon DEF OpToRel
<1>2. PICK x \in S : \A y \in S : ~(<<y, x>> \in OpToRel(<, Nat))
  BY NatLessThanWellFounded, WFMin, Zenon
<1>3. \A y \in S : x \in Nat /\ y \in Nat /\ ~(y < x)
  BY <1>1, <1>2, Zenon
<1>4. \A y \in S : x <= y
  BY <1>3
<1> QED BY <1>4 DEF Min

\* The consumers of a session are finitely many, and so are those left to ask.
LEMMA TodoIsFinite ==
  ASSUME TypeOK PROVE IsFiniteSet(todo) /\ Cardinality(todo) \in 0..NumConsumers
<1>1. IsFiniteSet(Consumers) /\ Cardinality(Consumers) = NumConsumers
  BY RecoveryAssumption, FS_Interval DEF Consumers
<1>2. IsFiniteSet(todo) /\ Cardinality(todo) <= NumConsumers
  BY <1>1, FS_Subset DEF TypeOK
<1> QED BY <1>2, FS_CardinalityType, RecoveryAssumption

\* A session starts connected, with nothing to clear.
LEMMA InitIInv == Init => IInv
<1> SUFFICES ASSUME Init PROVE IInv
  OBVIOUS
<1> USE RecoveryAssumption DEF Init, Consumers, Threads, Clearers,
     Readers, Scheduler, Dispatcher, Nobody, None
<1>1. TypeOK
  <2>1. /\ pc \in [Threads -> {"idle", "clear", "sub", "signal", "control", "store", "reset",
                               "wait", "enqueue"}]
        /\ prefetch \in [Consumers -> {"full", "zero", "none"}]
        /\ owner \in [Consumers -> Clearers \cup {Nobody}]
    OBVIOUS
  <2>2. /\ connected \in BOOLEAN /\ reconnectMutex \in BOOLEAN /\ complete \in BOOLEAN
        /\ stale \in BOOLEAN /\ raced \in BOOLEAN
    OBVIOUS
  <2>3. flag \in [Consumers -> 0..MaxInterruptions]
    OBVIOUS
  <2>4. channel \in [Consumers -> SUBSET (1..epoch)]
    OBVIOUS
  <2> QED BY <2>1, <2>2, <2>3, <2>4 DEF TypeOK
<1>2. AskingOffline /\ FlagBound /\ Places /\ InHand
  BY DEF AskingOffline, FlagBound, Interruptions, Places, Locked, InHand
<1>3. CountBound
  BY FS_EmptySet DEF CountBound
<1>4. Safe
  BY DEF Safe, LockedIsEmpty, HandIsFresh, LeftoversFlagged, AskedIsFlagged,
     EnqueueIsClean, OneEpoch
<1> QED BY <1>1, <1>2, <1>3, <1>4 DEF IInv


-----------------------------------------------------------------------------
(* The connection is lost, and found again *)

\* Every channel becomes a leftover of a lost connection, and every consumer is
\* still to be asked.
LEMMA TransportInterruptedIInv ==
  ASSUME IInv, TransportInterrupted
  PROVE  IInv'
<1>a. stale' \in BOOLEAN /\ raced' \in BOOLEAN /\ reconnectMutex' \in BOOLEAN
  BY Zenon DEF TransportInterrupted
<1>b. stale' <=> (stale \/ \E t \in Threads : message[t] # 0)
  BY Zenon DEF TransportInterrupted
<1>c. reconnectMutex' <=> Consumers # {}
  BY Zenon DEF TransportInterrupted
<1>d. asked = None
  BY DEF TransportInterrupted, IInv, AskingOffline, TypeOK
<1>e. Cardinality(Consumers) = NumConsumers
  BY RecoveryAssumption, FS_Interval DEF Consumers
<1> USE <1>a, <1>b, <1>c, <1>d, <1>e
<1> USE RecoveryAssumption DEF IInv, Safe, TypeOK, TransportInterrupted, tvars,
     cvars, pvars, Threads, Clearers,
     Readers, Scheduler, Dispatcher, Nobody, None
<1>f. counter' \in Int /\ counter' <= NumConsumers /\ asked' \in todo' \cup {None}
      /\ prefetch' \in [Consumers -> {"full", "zero", "none"}]
  OBVIOUS
<1>1. TypeOK'
   BY <1>f 
<1>2. AskingOffline'
   BY DEF AskingOffline, Consumers
<1>3. CountBound'
   BY DEF CountBound
<1>4. FlagBound'
   BY DEF FlagBound, Interruptions, AskingOffline
<1>5. Places' /\ InHand' /\ LockedIsEmpty'
   BY DEF Places, InHand, LockedIsEmpty, Locked
<1>6. HandIsFresh'
   BY DEF HandIsFresh
<1>7. LeftoversFlagged' /\ AskedIsFlagged'
   BY DEF LeftoversFlagged, AskedIsFlagged, AskingOffline
<1>8. EnqueueIsClean' /\ OneEpoch'
   BY DEF EnqueueIsClean, OneEpoch, InHand
<1> QED BY <1>1, <1>2, <1>3, <1>4, <1>5, <1>6, <1>7, <1>8

\* The next consumer is flagged.
LEMMA InProgressClearRequiredIInv ==
  ASSUME IInv, InProgressClearRequired
  PROVE  IInv'
<1> USE RecoveryAssumption DEF IInv, Safe, TypeOK, InProgressClearRequired, tvars,
     cvars, pvars, Threads, Clearers,
     Readers, Scheduler, Dispatcher, Nobody, None
<1>a. todo \in SUBSET Nat /\ 0 \notin todo
  BY DEF Consumers
<1>b. Min(todo) \in todo
  BY <1>a, MinIsMember
<1>c. asked' \in todo /\ asked' \in Consumers /\ asked' # None
  BY <1>a, <1>b
<1>d. \A c \in Consumers : flag'[c] = IF c = asked' THEN flag[c] + 1 ELSE flag[c]
  BY <1>c
<1> USE <1>c
<1>1. TypeOK'
   BY DEF FlagBound, AskingOffline, Interruptions
<1>2. AskingOffline' /\ CountBound'
   BY DEF AskingOffline, CountBound
<1>3. FlagBound'
   BY <1>d DEF FlagBound, Interruptions, Consumers
<1>4. Places' /\ InHand' /\ LockedIsEmpty' /\ HandIsFresh'
   BY DEF Places, InHand, LockedIsEmpty, HandIsFresh, Locked
<1>5. LeftoversFlagged' /\ AskedIsFlagged'
   BY DEF LeftoversFlagged, AskedIsFlagged
<1>6. EnqueueIsClean' /\ OneEpoch'
   BY DEF EnqueueIsClean, OneEpoch
<1> QED BY <1>1, <1>2, <1>3, <1>4, <1>5, <1>6

\* It is counted, and gets its task.
LEMMA CountConsumerIInv ==
  ASSUME IInv, CountConsumer
  PROVE  IInv'
<1>a. reconnectMutex' \in BOOLEAN /\ (reconnectMutex' <=> todo' # {})
  BY Zenon DEF CountConsumer
<1>b. asked \in todo /\ asked \in Consumers /\ todo' = todo \ {asked}
  BY DEF CountConsumer, IInv, TypeOK
<1>c. /\ Cardinality(todo') = Cardinality(todo) - 1
      /\ Cardinality(todo) \in Nat /\ Cardinality(todo) >= 1
  <2>1. IsFiniteSet(todo) /\ IsFiniteSet(todo') /\ asked \in todo
    BY <1>b, TodoIsFinite, FS_RemoveElement DEF IInv
  <2>2. Cardinality(todo) \in Nat /\ Cardinality(todo') \in Nat
    BY <2>1, FS_CardinalityType
  <2>3. Cardinality(todo') = Cardinality(todo) - 1
    BY <1>b, <2>1, FS_RemoveElement
  <2> QED BY <2>2, <2>3
<1> USE <1>a, <1>b, <1>c
<1> USE RecoveryAssumption DEF IInv, Safe, TypeOK, CountConsumer, tvars, cvars,
     pvars, Threads, Clearers,
     Readers, Scheduler, Dispatcher, Nobody, None
<1>1. TypeOK'
   BY DEF CountBound
<1>2. AskingOffline'
   BY DEF AskingOffline
<1>3. CountBound'
   BY DEF CountBound
<1>4. FlagBound'
   BY DEF FlagBound, Interruptions
<1>5. Places' /\ InHand' /\ LockedIsEmpty' /\ HandIsFresh'
   BY DEF Places, InHand, LockedIsEmpty, HandIsFresh, Locked
<1>6. LeftoversFlagged'
   BY DEF LeftoversFlagged, AskedIsFlagged
<1>7. AskedIsFlagged' /\ EnqueueIsClean' /\ OneEpoch'
   BY DEF AskedIsFlagged, EnqueueIsClean, OneEpoch
<1> QED BY <1>1, <1>2, <1>3, <1>4, <1>5, <1>6, <1>7

\* The next connection: nothing is in hand, and what is in a channel is flagged.
LEMMA ReconnectIInv ==
  ASSUME IInv, Reconnect
  PROVE  IInv'
<1> USE RecoveryAssumption DEF IInv, Safe, TypeOK, Reconnect, tvars, cvars, pvars,
     Threads, Clearers,
     Readers, Scheduler, Dispatcher, Nobody, None
<1>1. TypeOK'
   BY DEF AskingOffline
<1>2. AskingOffline' /\ CountBound'
   BY DEF AskingOffline, CountBound
<1>3. FlagBound'
   BY DEF FlagBound, Interruptions, AskingOffline
<1>4. Places' /\ InHand' /\ LockedIsEmpty'
   BY DEF Places, InHand, LockedIsEmpty, Locked
<1>5. HandIsFresh' /\ LeftoversFlagged'
   BY DEF HandIsFresh, LeftoversFlagged
<1>6. AskedIsFlagged' /\ OneEpoch'
   BY DEF AskedIsFlagged, OneEpoch
<1>7. EnqueueIsClean'
   BY DEF EnqueueIsClean, HandIsFresh, InHand
<1> QED BY <1>1, <1>2, <1>3, <1>4, <1>5, <1>6, <1>7

-----------------------------------------------------------------------------
(* A consumer is cleared *)

\* The channel is emptied, and stays so while its lock is held.
LEMMA ClearChannelIInv ==
  ASSUME IInv, NEW t \in Clearers, ClearChannel(t)
  PROVE  IInv'
<1> USE RecoveryAssumption DEF IInv, Safe, TypeOK, ClearChannel, tvars,
     cvars, pvars, Threads, Clearers,
     Readers, Scheduler, Dispatcher, Nobody, None
<1>a. on[t] \in Consumers
  BY DEF Places
<1> USE <1>a
<1>1. TypeOK'
   OBVIOUS
<1>2. AskingOffline' /\ CountBound' /\ FlagBound'
   BY DEF AskingOffline, CountBound, FlagBound, Interruptions
<1>3. Places'
   BY DEF Places, Locked
<1>4. InHand'
   BY DEF InHand
<1>5. LockedIsEmpty'
   BY DEF LockedIsEmpty
<1>6. HandIsFresh'
   BY DEF HandIsFresh
<1>7. LeftoversFlagged' /\ AskedIsFlagged'
   BY DEF LeftoversFlagged, AskedIsFlagged
<1>8. EnqueueIsClean'
   BY DEF EnqueueIsClean, Places, LockedIsEmpty
<1>9. OneEpoch'
   BY DEF OneEpoch
<1> QED BY <1>1, <1>2, <1>3, <1>4, <1>5, <1>6, <1>7, <1>8, <1>9

\* dispatch() goes on with a channel that holds no leftovers.
LEMMA NothingToClearIInv ==
  ASSUME IInv, NEW t \in Clearers, NothingToClear(t)
  PROVE  IInv'
<1> USE RecoveryAssumption DEF IInv, Safe, TypeOK, NothingToClear, Return,
     tvars, cvars, pvars, Threads, Clearers,
     Readers, Scheduler, Dispatcher, Nobody, None
<1>a. on[t] \in Consumers
  BY DEF Places
<1> USE <1>a
<1>1. TypeOK'
   OBVIOUS
<1>2. AskingOffline' /\ CountBound' /\ FlagBound'
   BY DEF AskingOffline, CountBound, FlagBound, Interruptions
<1>3. Places'
   BY DEF Places, Locked
<1>4. InHand'
   BY DEF InHand
<1>5. LockedIsEmpty' /\ HandIsFresh'
   BY DEF LockedIsEmpty, HandIsFresh
<1>6. LeftoversFlagged' /\ AskedIsFlagged'
   BY DEF LeftoversFlagged, AskedIsFlagged
<1>7. EnqueueIsClean'
   BY DEF EnqueueIsClean, LeftoversFlagged, HandIsFresh, InHand, AskingOffline
<1>8. OneEpoch'
   BY DEF OneEpoch
<1> QED BY <1>1, <1>2, <1>3, <1>4, <1>5, <1>6, <1>7, <1>8

\* setTransportInterruptionProcessingComplete() changes the counter only.
LEMMA CompleteIInv ==
  ASSUME IInv, NEW t \in Clearers, SetInterruptionProcessingComplete(t)
  PROVE  IInv'
<1>a. raced' \in BOOLEAN
  BY Zenon DEF SetInterruptionProcessingComplete
<1>b. on[t] \in Consumers
  BY DEF IInv, Places, SetInterruptionProcessingComplete, Clearers, Threads
<1> USE <1>a, <1>b
<1> USE RecoveryAssumption DEF IInv, Safe, TypeOK,
     SetInterruptionProcessingComplete, tvars, cvars, pvars, Threads, Clearers,
     Readers, Scheduler, Dispatcher, Nobody, None
<1>1. TypeOK'
   OBVIOUS
<1>2. AskingOffline' /\ CountBound' /\ FlagBound'
   BY TodoIsFinite DEF AskingOffline, CountBound, FlagBound, Interruptions
<1>3. Places'
   BY DEF Places, Locked
<1>4. InHand'
   BY DEF InHand
<1>5. LockedIsEmpty' /\ HandIsFresh'
   BY DEF LockedIsEmpty, HandIsFresh
<1>6. LeftoversFlagged' /\ AskedIsFlagged'
   BY DEF LeftoversFlagged, AskedIsFlagged
<1>7. EnqueueIsClean'
   BY DEF EnqueueIsClean
<1>8. OneEpoch'
   BY DEF OneEpoch
<1> QED BY <1>1, <1>2, <1>3, <1>4, <1>5, <1>6, <1>7, <1>8

\* The flag is reset while the channel is still empty.
LEMMA ResetFlagIInv ==
  ASSUME IInv, NEW t \in Clearers, ResetFlag(t)
  PROVE  IInv'
<1> USE RecoveryAssumption DEF IInv, Safe, TypeOK, ResetFlag, Return,
     tvars, cvars, pvars, Threads, Clearers,
     Readers, Scheduler, Dispatcher, Nobody, None
<1>a. on[t] \in Consumers /\ owner[on[t]] = t /\ t # Nobody
  BY DEF Places, Locked
<1>b. channel[on[t]] = {}
  BY <1>a DEF LockedIsEmpty
<1> USE <1>a, <1>b
<1>1. TypeOK'
   OBVIOUS
<1>2. AskingOffline' /\ CountBound'
   BY DEF AskingOffline, CountBound
<1>3. FlagBound'
   BY DEF FlagBound, Interruptions
<1>4. Places'
   BY DEF Places, Locked
<1>5. InHand'
   BY DEF InHand
<1>6. LockedIsEmpty' /\ HandIsFresh'
   BY DEF LockedIsEmpty, HandIsFresh
<1>7. LeftoversFlagged' /\ AskedIsFlagged'
   BY DEF LeftoversFlagged, AskedIsFlagged
<1>8. EnqueueIsClean'
   BY DEF EnqueueIsClean
<1>9. OneEpoch'
   BY DEF OneEpoch
<1> QED BY <1>1, <1>2, <1>3, <1>4, <1>5, <1>6, <1>7, <1>8, <1>9

\* The tracker is told; a clearing thread keeps its lock meanwhile.
LEMMA SignalIInv ==
  ASSUME IInv, NEW t \in Threads, Signal(t)
  PROVE  IInv'
<1> USE RecoveryAssumption DEF IInv, Safe, TypeOK, Signal, SendConsumerControls,
     tvars, cvars, pvars, Threads, Clearers,
     Readers, Scheduler, Dispatcher, Nobody, None
<1>1. TypeOK'
   OBVIOUS
<1>2. AskingOffline' /\ FlagBound'
   BY DEF AskingOffline, FlagBound, Interruptions
<1>3. CountBound'
   BY TodoIsFinite DEF CountBound
<1>4. Places'
   BY DEF Places, Locked
<1>5. InHand'
   BY DEF InHand
<1>6. LockedIsEmpty' /\ HandIsFresh'
   BY DEF LockedIsEmpty, HandIsFresh
<1>7. LeftoversFlagged' /\ AskedIsFlagged'
   BY DEF LeftoversFlagged, AskedIsFlagged
<1>8. EnqueueIsClean' /\ OneEpoch'
   BY DEF EnqueueIsClean, OneEpoch
<1> QED BY <1>1, <1>2, <1>3, <1>4, <1>5, <1>6, <1>7, <1>8

\* The ConsumerControls that waited for a connection are sent.
LEMMA ControlsSentIInv ==
  ASSUME IInv, NEW t \in Threads, ControlsSent(t)
  PROVE  IInv'
<1> USE RecoveryAssumption DEF IInv, Safe, TypeOK, ControlsSent,
     SendConsumerControls, tvars, cvars, pvars, Threads, Clearers,
     Readers, Scheduler, Dispatcher, Nobody, None
<1>1. TypeOK'
   OBVIOUS
<1>2. AskingOffline' /\ FlagBound'
   BY DEF AskingOffline, FlagBound, Interruptions
<1>3. CountBound'
   BY TodoIsFinite DEF CountBound
<1>4. Places'
   BY DEF Places, Locked
<1>5. InHand'
   BY DEF InHand
<1>6. LockedIsEmpty' /\ HandIsFresh'
   BY DEF LockedIsEmpty, HandIsFresh
<1>7. LeftoversFlagged' /\ AskedIsFlagged'
   BY DEF LeftoversFlagged, AskedIsFlagged
<1>8. EnqueueIsClean' /\ OneEpoch'
   BY DEF EnqueueIsClean, OneEpoch
<1> QED BY <1>1, <1>2, <1>3, <1>4, <1>5, <1>6, <1>7, <1>8

\* The counter is set to zero.
LEMMA StoreZeroIInv ==
  ASSUME IInv, NEW t \in Threads, StoreZero(t)
  PROVE  IInv'
<1> USE RecoveryAssumption DEF IInv, Safe, TypeOK, StoreZero, tvars, cvars, pvars,
     Threads, Clearers,
     Readers, Scheduler, Dispatcher, Nobody, None
<1>1. TypeOK'
   OBVIOUS
<1>2. AskingOffline' /\ FlagBound'
   BY DEF AskingOffline, FlagBound, Interruptions
<1>3. CountBound'
   BY TodoIsFinite DEF CountBound
<1>4. Places'
   BY DEF Places, Locked
<1>5. InHand'
   BY DEF InHand
<1>6. LockedIsEmpty' /\ HandIsFresh'
   BY DEF LockedIsEmpty, HandIsFresh
<1>7. LeftoversFlagged' /\ AskedIsFlagged'
   BY DEF LeftoversFlagged, AskedIsFlagged
<1>8. EnqueueIsClean' /\ OneEpoch'
   BY DEF EnqueueIsClean, OneEpoch
<1> QED BY <1>1, <1>2, <1>3, <1>4, <1>5, <1>6, <1>7, <1>8

-----------------------------------------------------------------------------
(* The threads *)

\* The scheduler starts a ClearConsumerTask.
LEMMA RunTaskIInv ==
  ASSUME IInv, NEW c \in Consumers, RunTask(c)
  PROVE  IInv'
<1> USE RecoveryAssumption DEF IInv, Safe, TypeOK, RunTask, tvars, cvars, pvars,
     Threads, Clearers,
     Readers, Scheduler, Dispatcher, Nobody, None
<1>1. TypeOK'
   OBVIOUS
<1>2. AskingOffline' /\ CountBound' /\ FlagBound'
   BY DEF AskingOffline, CountBound, FlagBound, Interruptions
<1>3. Places'
   BY DEF Places, Locked
<1>4. InHand'
   BY DEF InHand
<1>5. LockedIsEmpty' /\ HandIsFresh'
   BY DEF LockedIsEmpty, HandIsFresh
<1>6. LeftoversFlagged' /\ AskedIsFlagged'
   BY DEF LeftoversFlagged, AskedIsFlagged
<1>7. EnqueueIsClean' /\ OneEpoch'
   BY DEF EnqueueIsClean, OneEpoch
<1> QED BY <1>1, <1>2, <1>3, <1>4, <1>5, <1>6, <1>7

\* A message of the present connection arrives.
LEMMA OnCommandIInv ==
  ASSUME IInv, NEW c \in Consumers, NEW r \in Readers, OnCommand(c, r)
  PROVE  IInv'
<1> USE RecoveryAssumption DEF IInv, Safe, TypeOK, OnCommand, tvars, cvars, pvars,
     Threads, Clearers,
     Readers, Scheduler, Dispatcher, Nobody, None
<1>1. TypeOK'
   OBVIOUS
<1>2. AskingOffline' /\ CountBound' /\ FlagBound'
   BY DEF AskingOffline, CountBound, FlagBound, Interruptions
<1>3. Places'
   BY DEF Places, Locked
<1>4. InHand'
   BY DEF InHand
<1>5. LockedIsEmpty' /\ HandIsFresh'
   BY DEF LockedIsEmpty, HandIsFresh
<1>6. LeftoversFlagged' /\ AskedIsFlagged'
   BY DEF LeftoversFlagged, AskedIsFlagged
<1>7. EnqueueIsClean' /\ OneEpoch'
   BY DEF EnqueueIsClean, OneEpoch
<1> QED BY <1>1, <1>2, <1>3, <1>4, <1>5, <1>6, <1>7

\* The application empties a channel.
LEMMA ReceiveIInv ==
  ASSUME IInv, NEW c \in Consumers, Receive(c)
  PROVE  IInv'
<1> USE RecoveryAssumption DEF IInv, Safe, TypeOK, Receive, tvars, cvars, pvars,
     Threads, Clearers,
     Readers, Scheduler, Dispatcher, Nobody, None
<1>1. TypeOK'
   OBVIOUS
<1>2. AskingOffline' /\ CountBound' /\ FlagBound'
   BY DEF AskingOffline, CountBound, FlagBound, Interruptions
<1>3. Places'
   BY DEF Places, Locked
<1>4. InHand'
   BY DEF InHand
<1>5. LockedIsEmpty' /\ HandIsFresh'
   BY DEF LockedIsEmpty, HandIsFresh
<1>6. LeftoversFlagged' /\ AskedIsFlagged'
   BY DEF LeftoversFlagged, AskedIsFlagged
<1>7. EnqueueIsClean'
   BY DEF EnqueueIsClean, Places
<1>8. OneEpoch'
   BY DEF OneEpoch
<1> QED BY <1>1, <1>2, <1>3, <1>4, <1>5, <1>6, <1>7, <1>8

\* A reader reports instead of waiting.
LEMMA WaitLoopIInv ==
  ASSUME IInv, NEW r \in Readers, WaitLoop(r)
  PROVE  IInv'
<1> USE RecoveryAssumption DEF IInv, Safe, TypeOK, WaitLoop, tvars, cvars, pvars,
     Threads, Clearers,
     Readers, Scheduler, Dispatcher, Nobody, None
<1>1. TypeOK'
   OBVIOUS
<1>2. AskingOffline' /\ CountBound' /\ FlagBound'
   BY DEF AskingOffline, CountBound, FlagBound, Interruptions
<1>3. Places'
   BY DEF Places, Locked
<1>4. InHand'
   BY DEF InHand
<1>5. LockedIsEmpty' /\ HandIsFresh'
   BY DEF LockedIsEmpty, HandIsFresh
<1>6. LeftoversFlagged' /\ AskedIsFlagged'
   BY DEF LeftoversFlagged, AskedIsFlagged
<1>7. EnqueueIsClean' /\ OneEpoch'
   BY DEF EnqueueIsClean, OneEpoch
<1> QED BY <1>1, <1>2, <1>3, <1>4, <1>5, <1>6, <1>7

\* The dispatching thread takes the message from a reader.
LEMMA HandOverIInv ==
  ASSUME IInv, NEW r \in Readers, HandOver(r)
  PROVE  IInv'
<1> USE RecoveryAssumption DEF IInv, Safe, TypeOK, HandOver, tvars, cvars, pvars,
     Threads, Clearers,
     Readers, Scheduler, Dispatcher, Nobody, None
<1>a. on[r] \in Consumers /\ message[r] \in 0..epoch
  BY DEF Places
<1>b. on' \in [Threads -> Consumers \cup {None}]
  BY <1>a
<1>c. message' \in [Threads -> 0..epoch]
  BY <1>a
<1>d. pc' \in [Threads -> {"idle", "clear", "sub", "signal", "control", "store", "reset",
                           "wait", "enqueue"}]
  OBVIOUS
<1>1. TypeOK'
   BY <1>b, <1>c, <1>d 
<1>2. AskingOffline' /\ CountBound' /\ FlagBound'
   BY DEF AskingOffline, CountBound, FlagBound, Interruptions
<1>3. Places'
  <2>1. r # Dispatcher /\ Dispatcher \in Threads /\ r \in Threads
    OBVIOUS
  <2>2. /\ pc'[r] = "idle" /\ pc'[Dispatcher] = "clear" /\ on'[Dispatcher] \in Consumers
        /\ \A t \in Threads \ {r, Dispatcher} : pc'[t] = pc[t] /\ on'[t] = on[t]
    BY <1>a, <2>1
  <2>3. owner' = owner
    OBVIOUS
  <2>4. \A q \in Readers : pc'[q] \in {"idle", "wait", "signal", "control", "store"}
    BY <2>1, <2>2 DEF Places
  <2>5. /\ pc'[Scheduler] \in {"idle", "clear"} \cup Locked
        /\ pc'[Dispatcher] \in {"idle", "clear", "enqueue"} \cup Locked
    BY <2>1, <2>2 DEF Places, Locked
  <2>6. \A t \in Threads : pc'[t] # "idle" => on'[t] \in Consumers
    BY <2>1, <2>2 DEF Places
  <2>7. \A t \in Clearers : pc'[t] \in Locked => owner'[on'[t]] = t
    BY <2>1, <2>2, <2>3 DEF Places, Locked
  <2> QED BY <2>4, <2>5, <2>6, <2>7, Zenon DEF Places
<1>4. InHand'
   BY DEF InHand
<1>5. LockedIsEmpty' /\ HandIsFresh'
   BY DEF LockedIsEmpty, HandIsFresh
<1>6. LeftoversFlagged' /\ AskedIsFlagged'
   BY DEF LeftoversFlagged, AskedIsFlagged
<1>7. EnqueueIsClean' /\ OneEpoch'
   BY DEF EnqueueIsClean, OneEpoch
<1> QED BY <1>1, <1>2, <1>3, <1>4, <1>5, <1>6, <1>7

\* The message joins messages of its own connection.
LEMMA EnqueueIInv ==
  ASSUME IInv, Enqueue
  PROVE  IInv'
<1> USE RecoveryAssumption DEF IInv, Safe, TypeOK, Enqueue, tvars, cvars, pvars,
     Threads, Clearers,
     Readers, Scheduler, Dispatcher, Nobody, None
<1>a. on[Dispatcher] \in Consumers /\ message[Dispatcher] # 0
  BY DEF Places, InHand
<1>b. ~stale => connected /\ message[Dispatcher] = epoch
  BY <1>a DEF HandIsFresh
<1> USE <1>a
<1>1. TypeOK'
   OBVIOUS
<1>2. AskingOffline' /\ CountBound' /\ FlagBound'
   BY DEF AskingOffline, CountBound, FlagBound, Interruptions
<1>3. Places'
   BY DEF Places, Locked
<1>4. InHand'
   BY DEF InHand
<1>5. LockedIsEmpty' /\ HandIsFresh'
   BY DEF LockedIsEmpty, HandIsFresh
<1>6. LeftoversFlagged' /\ AskedIsFlagged'
   BY <1>b DEF LeftoversFlagged, AskedIsFlagged, AskingOffline
<1>7. EnqueueIsClean'
   BY DEF EnqueueIsClean
<1>8. OneEpoch'
   BY <1>b DEF OneEpoch, EnqueueIsClean
<1> QED BY <1>1, <1>2, <1>3, <1>4, <1>5, <1>6, <1>7, <1>8

\* Every step of every thread keeps the inductive invariant.
LEMMA NextIInv == IInv /\ [Next]_vars => IInv'
<1> SUFFICES ASSUME IInv, [Next]_vars PROVE IInv'
  OBVIOUS
<1>1. CASE TransportInterrupted \/ HandleFailure \/ Reconnect
  BY <1>1, TransportInterruptedIInv, InProgressClearRequiredIInv, CountConsumerIInv,
     ReconnectIInv DEF HandleFailure
<1>2. ASSUME NEW t \in Threads, ThreadStep(t) PROVE IInv'
  BY <1>2, ClearChannelIInv, NothingToClearIInv, CompleteIInv, ResetFlagIInv,
     SignalIInv, ControlsSentIInv, StoreZeroIInv DEF ThreadStep
<1>3. ASSUME NEW c \in Consumers, RunTask(c) \/ Receive(c) PROVE IInv'
  BY <1>3, RunTaskIInv, ReceiveIInv
<1>4. ASSUME NEW r \in Readers,
             WaitLoop(r) \/ HandOver(r) \/ \E c \in Consumers : OnCommand(c, r)
      PROVE  IInv'
  BY <1>4, WaitLoopIInv, HandOverIInv, OnCommandIInv
<1>5. CASE UNCHANGED vars
  BY <1>5 DEF IInv, Safe, TypeOK, AskingOffline, CountBound, FlagBound, Interruptions,
     Places, InHand, LockedIsEmpty, HandIsFresh, LeftoversFlagged, AskedIsFlagged,
     EnqueueIsClean, OneEpoch, vars, tvars, cvars, pvars
<1>6. CASE Enqueue
  BY <1>6, EnqueueIInv
<1> QED BY <1>1, <1>2, <1>3, <1>4, <1>5, <1>6 DEF Next

\* IInv holds in every reachable state of the recovery.
THEOREM RecoveryInductive == Spec => []IInv
<1> QED BY InitIInv, NextIInv, PTL DEF Spec

-----------------------------------------------------------------------------
\* Every variable keeps its type: the counter of transportInterrupted() never
\* exceeds the number of consumers and no consumer is asked twice for one
\* interruption, however clearing, counting and further interruptions interleave.
THEOREM RecoveryTypeCorrect == Spec => []TypeOK
<1>1. IInv => TypeOK
  BY DEF IInv
<1> QED BY <1>1, RecoveryInductive, PTL

\* No consumer's channel mixes messages of two connections, unless dispatch() had
\* a message in hand when its connection was lost: for any number of consumers,
\* of lost connections and of readers still in onCommand().
THEOREM ChannelsKeepApart == Spec => []OneConnection
<1>1. IInv => OneConnection
  <2> SUFFICES ASSUME IInv, ~stale, NEW c \in Consumers
               PROVE  Cardinality(channel[c]) <= 1
    BY DEF OneConnection
  <2>1. CASE channel[c] = {}
    BY <2>1, FS_EmptySet
  <2>2. CASE channel[c] # {}
    <3>1. PICK m \in channel[c] : channel[c] = {m}
      BY <2>2 DEF IInv, Safe, OneEpoch
    <3>2. Cardinality({m}) = 1
      BY FS_Singleton
    <3> QED BY <3>1, <3>2
  <2> QED BY <2>1, <2>2
<1> QED BY <1>1, RecoveryInductive, PTL
=============================================================================
