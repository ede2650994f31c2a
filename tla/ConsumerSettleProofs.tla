------------------------ MODULE ConsumerSettleProofs ------------------------
(***************************************************************************)
(* What the acknowledgements of ActiveMQConsumerKernel do to a message     *)
(* that the application is not done with.                                  *)
(*                                                                         *)
(* Poison acks.  dispatch() sends one for a message that the connection's  *)
(* audit has seen and that no open transaction waits for; the first        *)
(* theorem says that such a message is one the application is done with.   *)
(* The invariant is on what the audit records: a message it knows is with  *)
(* the consumer, or was dealt with.                                        *)
(*                                                                         *)
(* Consumed acks.  Those of acknowledge() and commit() name a range; the   *)
(* second theorem says that the broker consumes by it only what the        *)
(* application has settled, unless an end of it or what lies between was   *)
(* caught by an interruption.  The invariant follows every message that    *)
(* the broker has in flight: all lists are in the order of the queue, so   *)
(* what lies between the ends of a range is held by the application, has   *)
(* been refused, or was dropped before.                                    *)
(***************************************************************************)
EXTENDS ConsumerAckProofs

\* Message m is in the channel, in receive()'s hands, held or settled.
Located(m) == m \in ToSet(unconsumed) \/ m = hand \/ m \in held \/ m \in done

\* What the audit knows is located, or dequeue() has refused it; what the
\* application has not settled is in the list of delivered messages.
Recognised(m) ==
    /\ m \in audit => Located(m) \/ stamp[m] > maximumRedeliveries
    /\ m \in held \/ (m = hand /\ apc = "after") => m \in ToSet(delivered)

Recorded ==
    /\ mode = "auto" => held = {}
    /\ \A m \in Messages \ caught : Recognised(m)

-----------------------------------------------------------------------------
(* Steps that move no message between the audit, the channel and the lists *)

\* What Recorded speaks of stays; an interruption may catch more.
Aloof ==
    /\ UNCHANGED <<mode, maximumRedeliveries, audit, unconsumed, hand, held, done, delivered, stamp>>
    /\ apc' = "after" => apc = "after"
    /\ caught \subseteq caught'

\* Such steps keep the record.
LEMMA AloofRecorded == ASSUME Recorded, Aloof PROVE Recorded'
<1>1. mode' = "auto" => held' = {}
  BY DEF Recorded, Aloof
<1>2. ASSUME NEW m \in Messages, m \notin caught' PROVE Recognised(m)'
  <2>1. Recognised(m)
    BY <1>2 DEF Recorded, Aloof
  <2> QED BY <2>1 DEF Aloof, Recognised, Located
<1> QED BY <1>1, <1>2 DEF Recorded

\* The broker, the transport and the scheduler, and the commands of a transaction.
LEMMA StepsAloof ==
  ASSUME \/ BrokerProcess \/ BrokerDispatch \/ Restore \/ StartConsumerTask \/ DispatchTake
         \/ SendCommit \/ SendRollback \/ TransportInterrupted \/ BeforeEnd
         \/ CommitInDoubt \/ ReceiveNothing \/ UNCHANGED vars
  PROVE  Aloof
<1>1. CASE BrokerProcess
  BY <1>1 DEF Aloof, BrokerProcess, cvars, kvars, lvars, rvars, tvars, hvars
<1>2. CASE BrokerDispatch
  BY <1>2 DEF Aloof, BrokerDispatch, cvars, kvars, lvars, rvars, tvars, hvars
<1>3. CASE Restore
  BY <1>3 DEF Aloof, Restore, cvars, kvars, lvars, rvars, tvars, hvars
<1>4. CASE StartConsumerTask
  BY <1>4 DEF Aloof, StartConsumerTask, cvars, kvars, lvars, rvars, tvars, hvars
<1>5. CASE DispatchTake
  BY <1>5 DEF Aloof, DispatchTake, cvars, kvars, lvars, rvars, tvars, hvars
<1>6. CASE SendCommit
  BY <1>6 DEF Aloof, SendCommit, SendEnd, cvars, kvars, lvars, rvars, tvars, hvars
<1>7. CASE SendRollback
  BY <1>7 DEF Aloof, SendRollback, SendEnd, cvars, kvars, lvars, rvars, tvars, hvars
<1>8. CASE TransportInterrupted
  BY <1>8 DEF Aloof, TransportInterrupted, cvars, kvars, lvars, rvars, tvars, hvars
<1>9. CASE BeforeEnd
  <2>1. apc' # "after"
    BY <1>9 DEF BeforeEnd
  <2> QED BY <1>9, <2>1 DEF Aloof, BeforeEnd, cvars, kvars, lvars, rvars, tvars, hvars
<1>10. CASE UNCHANGED vars
  BY <1>10 DEF Aloof, vars, cvars, kvars, lvars, rvars, tvars, hvars
<1>11. CASE CommitInDoubt
  BY <1>11 DEF Aloof, CommitInDoubt, cvars, kvars, lvars, rvars, tvars, hvars
<1>12. CASE ReceiveNothing
  BY <1>12 DEF Aloof, ReceiveNothing, cvars, kvars, lvars, rvars, tvars, hvars
<1> QED BY <1>1, <1>2, <1>3, <1>4, <1>5, <1>6, <1>7, <1>8, <1>9, <1>10, <1>11, <1>12

-----------------------------------------------------------------------------
(* Steps that clear the consumer after an interruption *)

\* A session that forgets what it has delivered has only messages that the
\* interruption caught, or none.
LEMMA StillListed ==
  ASSUME Typed, Knows, Recorded, ClearDeliveredList, NEW m \in Messages, m \notin caught,
         m \in held \/ (m = hand /\ apc = "after")
  PROVE  m \in ToSet(delivered')
<1>1. Known(m) /\ Recognised(m) /\ (clearDelivered => clearRequired)
  BY DEF Knows, Recorded, Lists
<1>2. CASE clearDelivered /\ ~Transacted
  <2>1. mode \in {"auto", "client", "individual"}
    BY <1>2, ConsumerAssumption DEF Typed, TypeOK, Transacted, AllModes
  <2>2. m \notin held
    BY <1>1, <1>2, <2>1 DEF Known, Recorded
  <2>3. m # hand
    BY <1>1, <1>2 DEF Known
  <2> QED BY <2>2, <2>3
<1>3. CASE ~(clearDelivered /\ ~Transacted)
  <2>1. delivered' = delivered
    BY <1>3 DEF ClearDeliveredList
  <2> QED BY <1>1, <2>1 DEF Recognised
<1> QED BY <1>2, <1>3

\* What is cleared from the channel is cleared from the audit.
LEMMA ClearedRecorded ==
  ASSUME Typed, Knows, Recorded, ClearDeliveredList,
         UNCHANGED <<mode, maximumRedeliveries, hand, held, done, caught, stamp>>,
         apc' = "after" => apc = "after",
         audit' \subseteq audit,
         \A m \in audit' : m \in ToSet(unconsumed) => m \in ToSet(unconsumed')
  PROVE  Recorded'
<1>1. mode' = "auto" => held' = {}
  BY DEF Recorded
<1>2. ASSUME NEW m \in Messages, m \notin caught' PROVE Recognised(m)'
  <2>1. Recognised(m) /\ m \notin caught
    BY <1>2 DEF Recorded
  <2>2. m \in held \/ (m = hand /\ apc = "after") => m \in ToSet(delivered')
    BY <2>1, StillListed
  <2> QED BY <2>1, <2>2 DEF Recognised, Located
<1> QED BY <1>1, <1>2 DEF Recorded

\* ClearConsumerTask, and the clear in dispatch().
LEMMA ClearRecorded ==
  ASSUME Typed, Knows, Recorded, ClearConsumerTask \/ DispatchClear
  PROVE  Recorded'
<1>1. /\ UNCHANGED <<mode, maximumRedeliveries, hand, held, done, caught, stamp>>
      /\ apc' = apc
  BY DEF ClearConsumerTask, DispatchClear, cvars, rvars, tvars, hvars
<1>2. ClearMessagesInProgress
  BY DEF ClearConsumerTask, DispatchClear
<1>3. /\ ClearDeliveredList /\ audit' \subseteq audit
      /\ \A m \in audit' : m \in ToSet(unconsumed) => m \in ToSet(unconsumed')
  BY <1>2 DEF ClearMessagesInProgress
<1> QED BY <1>1, <1>3, ClearedRecorded

\* receive(), acknowledge(), commit(), rollback() and recover() begin.
LEMMA EnterRecorded ==
  ASSUME Typed, Knows, Recorded, Enters
  PROVE  Recorded'
<1>1. /\ UNCHANGED <<mode, maximumRedeliveries, hand, held, done, caught, stamp, unconsumed>>
      /\ apc' # "after" /\ ClearDeliveredList /\ audit' \subseteq audit
  BY EnterFacts DEF Enter, cvars, kvars, rvars, hvars
<1> QED BY <1>1, ClearedRecorded

\* The transaction has been rolled back.
LEMMA AfterRollbackRecorded ==
  ASSUME Typed, Knows, Recorded, AfterRollback
  PROVE  Recorded'
<1>1. /\ UNCHANGED <<mode, maximumRedeliveries, hand, held, done, caught, stamp, unconsumed,
                     audit>>
      /\ apc' # "after" /\ (ClearDeliveredList \/ delivered' = delivered)
  BY DEF AfterRollback, cvars, kvars, rvars, hvars
<1>2. CASE ClearDeliveredList
  BY <1>1, <1>2, ClearedRecorded
<1>3. CASE delivered' = delivered
  <2>1. Aloof
    BY <1>1, <1>3 DEF Aloof
  <2> QED BY <2>1, AloofRecorded
<1> QED BY <1>1, <1>2, <1>3

-----------------------------------------------------------------------------
(* Steps that move a message *)

\* dispatch() puts the message it adds to the audit in the channel.
LEMMA DispatchEnqueueRecorded ==
  ASSUME Typed, Recorded, DispatchEnqueue
  PROVE  Recorded'
<1>1. /\ UNCHANGED <<mode, maximumRedeliveries, hand, held, done, caught, delivered>>
      /\ apc' = apc
  BY DEF DispatchEnqueue, cvars, lvars, tvars, hvars
<1>2. dhand \in Messages /\ unconsumed \in Seq(Messages) /\ stamp \in [Messages -> Nat]
  BY MessageFacts DEF DispatchEnqueue, Typed, TypeOK, Hands
<1>3. /\ audit' \subseteq audit \cup {dhand}
      /\ dhand \in audit => UNCHANGED <<audit, unconsumed, stamp>>
      /\ dhand \notin audit => /\ unconsumed' = Append(unconsumed, dhand)
                              /\ \E x : stamp' = [stamp EXCEPT ![dhand] = x]
  BY DEF DispatchEnqueue, rvars
<1>4. /\ dhand \notin audit => dhand \in ToSet(unconsumed')
      /\ ToSet(unconsumed) \subseteq ToSet(unconsumed')
  <2>1. ToSet(Append(unconsumed, dhand)) = ToSet(unconsumed) \cup {dhand}
    BY <1>2, Appended
  <2> QED BY <1>3, <2>1
<1>5. \A m \in Messages : m # dhand => stamp'[m] = stamp[m]
  BY <1>2, <1>3
<1>6. ASSUME NEW m \in Messages, m \notin caught' PROVE Recognised(m)'
  <2>1. Recognised(m)
    BY <1>1, <1>6 DEF Recorded
  <2>2. CASE m = dhand /\ dhand \notin audit
    BY <1>1, <1>4, <2>1, <2>2 DEF Recognised, Located
  <2>3. CASE m # dhand \/ dhand \in audit
    <3>1. (m \in audit' => m \in audit) /\ stamp'[m] = stamp[m]
      BY <1>3, <1>5, <2>3
    <3> QED BY <1>1, <1>4, <2>1, <3>1 DEF Recognised, Located
  <2> QED BY <2>2, <2>3
<1> QED BY <1>1, <1>6 DEF Recorded

\* dequeue() takes the message in hand, or refuses it.
LEMMA DequeueRecorded ==
  ASSUME Typed, Recorded, Dequeue
  PROVE  Recorded'
<1>1. UNCHANGED <<mode, maximumRedeliveries, held, done, delivered, audit, stamp>>
  BY DEF Dequeue, cvars, lvars, rvars
<1>2. hand = 0 /\ apc # "after" /\ unconsumed \in Seq(Messages) /\ unconsumed # <<>>
  BY DEF Dequeue, Typed, TypeOK, Hands
<1>3. ToSet(unconsumed) = {Head(unconsumed)} \cup ToSet(Tail(unconsumed))
  BY <1>2, HeadAndTail
<1>4. /\ unconsumed' = Tail(unconsumed) /\ caught \subseteq caught' /\ apc' # "after"
      /\ hand' = Head(unconsumed) \/ stamp[Head(unconsumed)] > maximumRedeliveries
  BY <1>2 DEF Dequeue
<1>5. ASSUME NEW m \in Messages, m \notin caught' PROVE Recognised(m)'
  <2>1. Recognised(m) /\ m # hand
    BY <1>2, <1>4, <1>5, MessageFacts DEF Recorded
  <2> QED BY <1>1, <1>3, <1>4, <2>1 DEF Recognised, Located
<1> QED BY <1>1, <1>5 DEF Recorded

\* beforeMessageIsConsumed() records the message.
LEMMA BeforeMessageIsConsumedRecorded ==
  ASSUME Typed, Recorded, BeforeMessageIsConsumed
  PROVE  Recorded'
<1>1. /\ UNCHANGED <<mode, maximumRedeliveries, hand, held, done, audit, stamp, unconsumed, caught>>
      /\ delivered' = Append(delivered, hand)
  BY DEF BeforeMessageIsConsumed, cvars, kvars, rvars, hvars
<1>2. hand \in Messages /\ delivered \in Seq(Messages)
  BY MessageFacts DEF BeforeMessageIsConsumed, Typed, TypeOK, Hands
<1>3. ToSet(delivered') = ToSet(delivered) \cup {hand}
  BY <1>1, <1>2, Appended
<1>4. ASSUME NEW m \in Messages, m \notin caught' PROVE Recognised(m)'
  <2>1. Recognised(m)
    BY <1>1, <1>4 DEF Recorded
  <2> QED BY <1>1, <1>3, <2>1 DEF Recognised, Located
<1> QED BY <1>1, <1>4 DEF Recorded

\* receive() returns a message the application will settle.
LEMMA ReceiveRecorded ==
  ASSUME Typed, Recorded, ReceiveTransacted \/ ReceiveManual
  PROVE  Recorded'
<1>1. /\ UNCHANGED <<mode, maximumRedeliveries, done, audit, stamp, unconsumed, caught, delivered>>
      /\ held' = held \cup {hand} /\ apc = "after" /\ apc' # "after" /\ mode # "auto"
  <2>1. CASE ReceiveTransacted
    BY <2>1 DEF ReceiveTransacted, ReceiveReturns, Transacted, cvars, kvars, rvars
  <2>2. CASE ReceiveManual
    BY <2>2 DEF ReceiveManual, ReceiveReturns, cvars, kvars, rvars
  <2> QED BY <2>1, <2>2
<1>2. ASSUME NEW m \in Messages, m \notin caught' PROVE Recognised(m)'
  <2>1. Recognised(m)
    BY <1>1, <1>2 DEF Recorded
  <2> QED BY <1>1, <2>1 DEF Recognised, Located
<1> QED BY <1>1, <1>2 DEF Recorded

\* receive() acknowledges the message it returns.
LEMMA ReceiveAutoRecorded ==
  ASSUME Typed, Recorded, ReceiveAuto
  PROVE  Recorded'
<1>1. /\ UNCHANGED <<mode, maximumRedeliveries, audit, stamp, unconsumed, caught, held>>
      /\ done' = done \cup {hand} /\ apc' # "after" /\ mode = "auto"
  BY DEF ReceiveAuto, ReceiveReturns, cvars, kvars, rvars
<1>2. ASSUME NEW m \in Messages, m \notin caught' PROVE Recognised(m)'
  <2>1. Recognised(m) /\ held = {}
    BY <1>1, <1>2 DEF Recorded
  <2> QED BY <1>1, <2>1 DEF Recognised, Located
<1> QED BY <1>1, <1>2 DEF Recorded

\* A message is acknowledged by itself.
LEMMA AcknowledgeOneRecorded ==
  ASSUME Typed, Recorded, NEW n \in Messages, AcknowledgeOne(n)
  PROVE  Recorded'
<1>1. /\ UNCHANGED <<mode, maximumRedeliveries, audit, stamp, unconsumed, caught, hand, delivered>>
      /\ held' = held \ {n} /\ done' = done \cup {n} /\ apc' = "remove" /\ mode # "auto"
  BY DEF AcknowledgeOne, cvars, kvars, rvars, lvars
<1>2. ASSUME NEW m \in Messages, m \notin caught' PROVE Recognised(m)'
  <2>1. Recognised(m)
    BY <1>1, <1>2 DEF Recorded
  <2> QED BY <1>1, <2>1 DEF Recognised, Located
<1> QED BY <1>1, <1>2 DEF Recorded

\* It leaves the list.
LEMMA RemoveAcknowledgedRecorded ==
  ASSUME Typed, Knows, Recorded, RemoveAcknowledged
  PROVE  Recorded'
<1> DEFINE I == {i \in 1..Len(delivered) : delivered[i] # acked}
<1>1. /\ UNCHANGED <<mode, maximumRedeliveries, audit, stamp, unconsumed, caught, hand, held, done>>
      /\ apc = "remove" /\ apc' = "idle" /\ delivered' = KeepAt(delivered, I)
  BY DEF RemoveAcknowledged, cvars, kvars, rvars, hvars
<1>2. delivered \in Seq(Messages) /\ I \subseteq 1..Len(delivered)
  BY DEF Typed, TypeOK
<1>3. \A m : m \in ToSet(delivered) /\ m # acked => \E i \in I : delivered[i] = m
  BY <1>2, InList
<1> HIDE DEF I
<1>4. ToSet(delivered') = {delivered[i] : i \in I}
  BY <1>1, <1>2, Keeps
<1>5. ASSUME NEW m \in Messages, m \notin caught' PROVE Recognised(m)'
  <2>1. Recognised(m) /\ Known(m)
    BY <1>1, <1>5 DEF Recorded, Knows
  <2>2. m \in held => m # acked
    BY <1>1, <2>1 DEF Known
  <2>3. m \in ToSet(delivered) /\ m # acked => m \in ToSet(delivered')
    BY <1>3, <1>4
  <2> QED BY <1>1, <2>1, <2>2, <2>3 DEF Recognised, Located
<1> QED BY <1>1, <1>5 DEF Recorded

\* acknowledge() and commit() settle what the application holds.
LEMMA SettleRecorded ==
  ASSUME Typed, Recorded, AcknowledgeSection \/ AfterCommit
  PROVE  Recorded'
<1>1. /\ UNCHANGED <<mode, maximumRedeliveries, audit, stamp, unconsumed, hand>>
      /\ held' = {} /\ done' = done \cup held /\ apc' # "after" /\ caught \subseteq caught'
  BY DEF AcknowledgeSection, AfterCommit, cvars, kvars, rvars
<1>2. ASSUME NEW m \in Messages, m \notin caught' PROVE Recognised(m)'
  <2>1. Recognised(m)
    BY <1>1, <1>2 DEF Recorded
  <2> QED BY <1>1, <2>1 DEF Recognised, Located
<1> QED BY <1>1, <1>2 DEF Recorded

\* rollback() takes what was delivered out of the audit.
LEMMA RollbackConsumerRecorded ==
  ASSUME Typed, Recorded, RollbackConsumer
  PROVE  Recorded'
<1> DEFINE ms == KeepAt(delivered, PutBack)
<1>1. /\ UNCHANGED <<mode, maximumRedeliveries, stamp, hand, done, caught>>
      /\ held' = {} /\ apc' = "idle" /\ audit' = audit \ ToSet(delivered)
  BY Zenon DEF RollbackConsumer, cvars, hvars
<1>2. IF ms # <<>> THEN Redeliver(ms) ELSE UNCHANGED <<redelivery, deliveredCounter, up, kvars>>
  BY Zenon DEF RollbackConsumer, PutBack
<1>3. ms \in Seq(Messages) /\ unconsumed \in Seq(Messages)
  BY PutBackType DEF Typed, TypeOK
<1> HIDE DEF ms
<1>4. unconsumed' = unconsumed \/ unconsumed' = ms \o unconsumed
  BY <1>2 DEF Redeliver, kvars
<1>5. ToSet(unconsumed) \subseteq ToSet(unconsumed')
  <2>1. ToSet(ms \o unconsumed) = ToSet(ms) \cup ToSet(unconsumed)
    BY <1>3, Joined
  <2> QED BY <1>4, <2>1
<1>6. ASSUME NEW m \in Messages, m \notin caught' PROVE Recognised(m)'
  <2>1. Recognised(m)
    BY <1>1, <1>6 DEF Recorded
  <2> QED BY <1>1, <1>5, <2>1 DEF Recognised, Located
<1> QED BY <1>1, <1>6 DEF Recorded

\* Initially the audit knows nothing.
LEMMA InitRecorded == ASSUME Init PROVE Recorded
BY MessageFacts DEF Init, Recorded, Recognised

\* Every step keeps the record.
LEMMA RecordedStep == ASSUME Typed, Knows, Recorded, [Next]_vars PROVE Recorded'
<1>1. CASE Receive
  BY <1>1, EnterRecorded, DequeueRecorded, StepsAloof, AloofRecorded,
     BeforeMessageIsConsumedRecorded, ReceiveRecorded, ReceiveAutoRecorded DEF Receive, Enters
<1>2. CASE Settle
  BY <1>2, EnterRecorded, SettleRecorded, StepsAloof, AloofRecorded, AfterRollbackRecorded,
     RollbackConsumerRecorded, AcknowledgeOneRecorded, RemoveAcknowledgedRecorded
     DEF Settle, Enters
<1>3. CASE Undo
  BY <1>3, EnterRecorded DEF Undo, Enters
<1>4. CASE DispatchStep
  BY <1>4, StepsAloof, AloofRecorded, ClearRecorded, DispatchEnqueueRecorded DEF DispatchStep
<1>5. CASE Scheduler \/ Broker
  BY <1>5, StepsAloof, AloofRecorded, ClearRecorded DEF Scheduler, Broker
<1>6. CASE TransportInterrupted \/ Restore \/ UNCHANGED vars
  BY <1>6, StepsAloof, AloofRecorded
<1> QED BY <1>1, <1>2, <1>3, <1>4, <1>5, <1>6 DEF Next

-----------------------------------------------------------------------------
(* Which steps send a poison ack *)

\* A list that is one longer than before has what was sent as its last element.
LEMMA SentOne ==
  ASSUME NEW S, NEW u \in Seq(S), NEW x, NEW v, v = u \o <<x>> \/ v = u, v = Append(u, Last(v))
  PROVE  Last(v) = x
<1> DEFINE T == S \cup {x, Last(v)}
<1>1. u \in Seq(T) /\ <<x>> \in Seq(T) /\ Last(v) \in T /\ x \in T
  OBVIOUS
<1> HIDE DEF T
<1>2. Len(v) = Len(u) + 1 /\ v \in Seq(T)
  BY <1>1
<1>3. v = u \o <<x>>
  BY <1>1, <1>2
<1>4. v[Len(u) + 1] = x
  BY <1>1, <1>3
<1> QED BY <1>2, <1>4 DEF Last

\* Nothing is sent by a step that leaves the commands, or takes one.
LEMMA NothingSent ==
  ASSUME Typed, SendsPoison, up' = up \/ up' = Tail(up) \/ up' = <<>>
  PROVE  FALSE
<1>1. up \in Seq(Commands)
  BY DEF Typed, TypeOK
<1> DEFINE T == Commands \cup {Last(up')}
<1>2. up \in Seq(T) /\ Last(up') \in T
  BY <1>1
<1> HIDE DEF T
<1>3. Len(up') = Len(up) + 1 /\ up' # <<>>
  BY <1>2 DEF SendsPoison
<1>4. CASE up' = up
  BY <1>2, <1>3, <1>4
<1>5. CASE up' = Tail(up)
  <2>1. up # <<>> \/ up = <<>>
    OBVIOUS
  <2>2. CASE up # <<>>
    <3>1. Len(Tail(up)) = Len(up) - 1 /\ Len(up) \in Nat
      BY <1>2, <2>2
    <3> QED BY <1>3, <1>5, <3>1
  <2>3. CASE up = <<>>
    BY <1>2, <1>3, <1>5, <2>3 DEF SendsPoison
  <2> QED BY <2>1, <2>2, <2>3
<1> QED BY <1>3, <1>4, <1>5

\* What sendAck() sends.
LEMMA SentAck ==
  ASSUME Typed, SendsPoison, NEW t, NEW f, NEW l, SendAck(t, f, l)
  PROVE  Last(up') = Ack(t, f, l) /\ t = "POISON" /\ Last(up').first = f /\ Last(up').last = l
<1>1. up \in Seq(Commands) /\ (up' = up \o <<Ack(t, f, l)>> \/ up' = up)
  BY DEF Typed, TypeOK, SendAck, SendAll
<1>2. Last(up') = Ack(t, f, l)
  BY <1>1, SentOne DEF SendsPoison
<1> QED BY <1>2 DEF SendsPoison, Ack

\* ackLater(), after begin() or by itself, sends no poison ack.
LEMMA AckLaterSends ==
  ASSUME Typed, SendsPoison, NEW m \in Messages, NEW cs, cs \in {<<>>, <<TxCommand("BEGIN")>>},
         AckLater(m, cs)
  PROVE  FALSE
<1>1. up \in Seq(Commands) /\ pendingAck \in Commands \cup {None}
  BY DEF Typed, TypeOK
<1> DEFINE f == IF pendingAck = None THEN m ELSE pendingAck.first
           ack == Ack("DELIVERED", f, m)
<1>2. SendAll(Append(cs, ack)) \/ SendAll(cs)
  BY DEF AckLater
<1>3. TxCommand("BEGIN").type = "BEGIN" /\ ack.type = "DELIVERED"
  BY DEF TxCommand, Ack
<1> DEFINE b == TxCommand("BEGIN")
<1> HIDE DEF ack, b
<1>4. \/ up' = up \/ up' = up \o <<b>> \/ up' = up \o <<ack>> \/ up' = up \o Append(<<b>>, ack)
  <2>1. CASE cs = <<>>
    <3>1. Append(cs, ack) = <<ack>> /\ up \o cs = up
      BY <1>1, <2>1
    <3> QED BY <1>2, <2>1, <3>1 DEF SendAll
  <2>2. CASE cs = <<b>>
    BY <1>2, <2>2 DEF SendAll
  <2> QED BY <2>1, <2>2 DEF b
<1>5. up' = Append(up, Last(up')) /\ Last(up').type = "POISON"
  BY DEF SendsPoison
<1>6. CASE up' = up
  BY <1>6, NothingSent
<1>7. CASE up' = up \o <<b>>
  <2>1. Last(up') = b
    BY <1>1, <1>5, <1>7, SentOne
  <2> QED BY <1>3, <1>5, <2>1 DEF b
<1>8. CASE up' = up \o <<ack>>
  <2>1. Last(up') = ack
    BY <1>1, <1>5, <1>8, SentOne
  <2> QED BY <1>3, <1>5, <2>1
<1>9. CASE up' = up \o Append(<<b>>, ack)
  <2> DEFINE T == Commands \cup {b, ack, Last(up')}
  <2>1. up \in Seq(T) /\ <<b>> \in Seq(T) /\ ack \in T /\ Last(up') \in T
    BY <1>1
  <2> HIDE DEF T
  <2>2. Len(up') = Len(up) + 2 /\ Len(up') = Len(up) + 1 /\ Len(up) \in Nat
    BY <1>5, <1>9, <2>1
  <2> QED BY <2>2
<1> QED BY <1>4, <1>6, <1>7, <1>8, <1>9

\* COMMIT, ROLLBACK and what is sent when a connection is restored are no acks.
LEMMA TransactionSends ==
  ASSUME Typed, SendsPoison, SendCommit \/ SendRollback \/ Restore
  PROVE  FALSE
<1>1. \A t : TxCommand(t).type = t
  BY DEF TxCommand
<1>2. up \in Seq(Commands) /\ Last(up').type = "POISON"
  BY DEF Typed, TypeOK, SendsPoison
<1>3. CASE SendCommit \/ SendRollback
  <2>1. PICK t \in {"COMMIT", "ROLLBACK"} : up' = Append(up, TxCommand(t))
    BY <1>3 DEF SendCommit, SendRollback, SendEnd
  <2> DEFINE x == TxCommand(t)
             T == Commands \cup {x}
  <2>2. up \in Seq(T) /\ x \in T /\ up' = Append(up, x) /\ x.type = t
    BY <1>1, <1>2, <2>1
  <2> HIDE DEF x, T
  <2>3. Last(up') = x
    BY <2>2 DEF Last
  <2> QED BY <1>2, <2>1, <2>2, <2>3
<1>4. CASE Restore
  <2>1. up' \in {<<>>, <<TxCommand("BEGIN")>>, <<TxCommand("BEGIN"), TxCommand("ROLLBACK")>>}
    <3>1. tracked \in {"none", "BEGIN", "COMMIT", "ROLLBACK"}
      BY DEF Typed, TypeOK
    <3> QED BY <1>4, <3>1 DEF Restore, DoRestoreTransactions
  <2>2. CASE up' = <<TxCommand("BEGIN")>>
    <3>1. Last(up') = TxCommand("BEGIN")
      BY <2>2 DEF Last
    <3> QED BY <1>1, <1>2, <3>1
  <2>3. CASE up' = <<TxCommand("BEGIN"), TxCommand("ROLLBACK")>>
    <3>1. Last(up') = TxCommand("ROLLBACK")
      BY <2>3 DEF Last
    <3> QED BY <1>1, <1>2, <3>1
  <2> QED BY <2>1, <2>2, <2>3 DEF SendsPoison
<1> QED BY <1>3, <1>4

Justified(c) ==
    \/ c.first = c.last /\ c.last \in done \cup caught
    \/ LimitPassed(c.last)

\* A duplicate that dispatch() calls poison is a message the application is done
\* with: the channel is cleared, and what the application has is expected.
LEMMA DuplicateIsDone ==
  ASSUME Typed, Knows, Recorded, dpc = "enqueue", dhand \in audit, previously[dhand] = "no",
         dhand \notin caught
  PROVE  dhand \in done \/ stamp[dhand] > maximumRedeliveries
<1>1. dhand \in Messages
  BY MessageFacts DEF Typed, TypeOK, Hands
<1>2. Known(dhand) /\ Recognised(dhand)
  BY <1>1 DEF Knows, Recorded
<1>3. dhand \in Coming /\ ~clearRequired /\ ~clearDelivered
  BY DEF Coming, Knows, Dispatched, Lists
<1>4. dhand \notin ToSet(unconsumed) /\ dhand # hand /\ dhand \notin ToSet(delivered)
  BY <1>2, <1>3 DEF Known
<1> QED BY <1>2, <1>4 DEF Recognised, Located

\* dispatch() sends a poison ack for a duplicate.
LEMMA DispatchSends ==
  ASSUME Typed, Knows, Recorded, DispatchEnqueue, SendsPoison
  PROVE  Justified(Last(up'))
<1>1. dpc = "enqueue" /\ dhand \in audit /\ previously[dhand] = "no" /\ SendAck("POISON", dhand, dhand)
  <2>1. \/ up' = up
        \/ SendAck("DELIVERED", dhand, dhand)
        \/ dhand \in audit /\ previously[dhand] = "no" /\ SendAck("POISON", dhand, dhand)
    BY DEF DispatchEnqueue
  <2>2. up' # up
    BY NothingSent
  <2>3. ~SendAck("DELIVERED", dhand, dhand)
    BY SentAck
  <2> QED BY <2>1, <2>2, <2>3 DEF DispatchEnqueue
<1>2. Last(up').first = dhand /\ Last(up').last = dhand
  BY <1>1, SentAck
<1>3. dhand \in caught \/ dhand \in done \/ stamp[dhand] > maximumRedeliveries
  BY <1>1, DuplicateIsDone
<1> QED BY <1>2, <1>3 DEF Justified, LimitPassed

\* dequeue() sends a poison ack for a message that came over the limit.
LEMMA DequeueSends ==
  ASSUME Typed, Dequeue, SendsPoison
  PROVE  Justified(Last(up'))
<1>1. \/ up' = up
      \/ /\ stamp[Head(unconsumed)] > maximumRedeliveries
         /\ SendAck("POISON", Head(unconsumed), Head(unconsumed))
  BY DEF Dequeue
<1>2. up' # up
  BY NothingSent
<1>3. Last(up').last = Head(unconsumed) /\ stamp[Head(unconsumed)] > maximumRedeliveries
  BY <1>1, <1>2, SentAck
<1> QED BY <1>3 DEF Justified, LimitPassed

\* rollback() sends a poison ack when it counts the newest message over the limit.
LEMMA RollbackSends ==
  ASSUME Typed, RollbackConsumer, SendsPoison
  PROVE  Justified(Last(up'))
<1> DEFINE ms == KeepAt(delivered, PutBack)
<1>1. IF ms # <<>> THEN Redeliver(ms) ELSE UNCHANGED <<redelivery, deliveredCounter, up, kvars>>
  BY Zenon DEF RollbackConsumer, PutBack
<1>2. ms \in Seq(Messages)
  BY PutBackType DEF Typed
<1> HIDE DEF ms
<1>3. up' # up
  BY NothingSent
<1>4. ms # <<>> /\ Redeliver(ms)
  BY <1>1, <1>3
<1>5. Last(ms) \in Messages /\ Last(ms) \in ToSet(ms)
  BY <1>2, <1>4, InList DEF Last
<1>6. redelivery[Last(ms)] + 1 > maximumRedeliveries /\ SendAck("POISON", Head(ms), Last(ms))
  <2>1. \/ up' = up
        \/ SendAck("REDELIVERED", Head(ms), Last(ms))
        \/ redelivery[Last(ms)] + 1 > maximumRedeliveries /\ SendAck("POISON", Head(ms), Last(ms))
    BY <1>4 DEF Redeliver
  <2>2. ~SendAck("REDELIVERED", Head(ms), Last(ms))
    BY SentAck
  <2> QED BY <1>3, <2>1, <2>2
<1>7. redelivery' = [m \in Messages |-> redelivery[m] + IF m \in ToSet(ms) THEN 1 ELSE 0]
  BY <1>4 DEF Redeliver
<1>8. redelivery[Last(ms)] \in Nat /\ redelivery'[Last(ms)] = redelivery[Last(ms)] + 1
  BY <1>5, <1>7 DEF Typed, TypeOK
<1>9. Last(up').last = Last(ms)
  BY <1>6, SentAck
<1> QED BY <1>6, <1>8, <1>9 DEF Justified, LimitPassed

\* The ack for all that is delivered, by itself.
LEMMA AckAllSent ==
  ASSUME AckAllDelivered(<<>>)
  PROVE  SendAck("CONSUMED", Head(delivered), Last(delivered))
<1> DEFINE a == Ack("CONSUMED", Head(delivered), Last(delivered))
<1>1. SendAll(Append(<<>>, a))
  BY DEF AckAllDelivered
<1> HIDE DEF a
<1>2. Append(<<>>, a) = <<a>>
  OBVIOUS
<1>3. SendAll(<<a>>)
  BY <1>1, <1>2
<1> QED BY <1>3 DEF SendAck, a

\* The ack of commit() or rollback(), after begin() or by itself, is no poison ack.
LEMMA AckAllSends ==
  ASSUME Typed, SendsPoison, AckAllDelivered(Begin)
  PROVE  FALSE
<1> DEFINE ack == Ack("CONSUMED", Head(delivered), Last(delivered))
           b == TxCommand("BEGIN")
<1>1. up \in Seq(Commands) /\ ack.type = "CONSUMED"
  BY DEF Typed, TypeOK, Ack
<1>2. CASE inTransaction
  <2>1. AckAllDelivered(<<>>)
    BY <1>2 DEF Begin
  <2> QED BY <2>1, AckAllSent, SentAck
<1>3. CASE ~inTransaction
  <2>1. Begin = <<b>> /\ SendAll(Append(Begin, ack))
    BY <1>3 DEF Begin, AckAllDelivered
  <2> HIDE DEF ack, b
  <2>2. SendAll(Append(<<b>>, ack))
    BY <2>1
  <2>3. up' = up \o Append(<<b>>, ack)
    BY <2>2, NothingSent DEF SendAll
  <2> DEFINE T == Commands \cup {b, ack, Last(up')}
  <2>4. up \in Seq(T) /\ <<b>> \in Seq(T) /\ ack \in T /\ Last(up') \in T
    BY <1>1
  <2>5. up' = Append(up, Last(up'))
    BY DEF SendsPoison
  <2> HIDE DEF T
  <2>6. Len(up') = Len(up) + 2 /\ Len(up') = Len(up) + 1 /\ Len(up) \in Nat
    BY <2>3, <2>4, <2>5
  <2> QED BY <2>6
<1> QED BY <1>2, <1>3

\* The other steps of receive() and acknowledge() send no poison ack.
LEMMA ApplicationSends ==
  ASSUME Typed, SendsPoison,
         \/ ReceiveTransacted \/ ReceiveAuto \/ ReceiveManual \/ AcknowledgeSection \/ BeforeEnd
         \/ \E m \in Messages : AcknowledgeOne(m)
  PROVE  FALSE
<1>1. up' # up
  BY NothingSent
<1>2. \A t, f, l : SendAck(t, f, l) => t = "POISON"
  BY SentAck
<1>3. CASE ReceiveTransacted
  <2>1. hand \in Messages
    BY <1>3, MessageFacts DEF ReceiveTransacted, Typed, TypeOK, Hands
  <2>2. Begin \in {<<>>, <<TxCommand("BEGIN")>>} /\ AckLater(hand, Begin)
    BY <1>3 DEF ReceiveTransacted, Begin
  <2> QED BY <2>1, <2>2, AckLaterSends
<1>4. CASE ReceiveManual
  <2>1. hand \in Messages
    BY <1>4, MessageFacts DEF ReceiveManual, Typed, TypeOK, Hands
  <2>2. AckLater(hand, <<>>) \/ up' = up
    BY <1>4 DEF ReceiveManual
  <2> QED BY <1>1, <2>1, <2>2, AckLaterSends
<1>5. CASE ReceiveAuto
  BY <1>1, <1>2, <1>5 DEF ReceiveAuto
<1>6. CASE AcknowledgeSection
  <2>1. AckAllDelivered(<<>>) \/ up' = up
    BY <1>6 DEF AcknowledgeSection
  <2> QED BY <1>1, <1>2, <2>1, AckAllSent
<1>7. CASE BeforeEnd
  <2>1. AckAllDelivered(Begin) \/ up' = up
    BY <1>7 DEF BeforeEnd
  <2> QED BY <1>1, <2>1, AckAllSends
<1>8. CASE \E m \in Messages : AcknowledgeOne(m)
  BY <1>2, <1>8 DEF AcknowledgeOne
<1> QED BY <1>3, <1>4, <1>5, <1>6, <1>7, <1>8

\* Every poison ack is justified when it is sent.
LEMMA PoisonStep ==
  ASSUME Typed, Knows, Recorded, [Next]_vars, SendsPoison
  PROVE  Justified(Last(up'))
<1>1. ~(up' = up \/ up' = Tail(up) \/ up' = <<>>)
  BY NothingSent
<1>11. Enters => up' = up
  BY EnterFacts DEF Enter, nvars
<1>2. CASE Receive
  <2>1. CASE SendPullRequest
    BY <1>1, <1>11, <2>1 DEF Enters
  <2>2. CASE BeforeMessageIsConsumed \/ ReceiveNothing
    BY <1>1, <2>2 DEF BeforeMessageIsConsumed, ReceiveNothing, nvars
  <2> QED BY <1>2, <2>1, <2>2, DequeueSends, ApplicationSends DEF Receive
<1>3. CASE Settle
  <2>1. CASE Acknowledge \/ Commit \/ CommitFails
    BY <1>1, <1>11, <2>1 DEF Enters
  <2>2. CASE AfterCommit \/ AfterRollback \/ CommitInDoubt \/ RemoveAcknowledged
    BY <1>1, <2>2 DEF AfterCommit, AfterRollback, CommitInDoubt, RemoveAcknowledged, nvars
  <2> QED BY <1>3, <2>1, <2>2, ApplicationSends, TransactionSends, RollbackSends DEF Settle
<1>4. CASE Undo
  BY <1>1, <1>4, <1>11 DEF Undo, Enters
<1>5. CASE DispatchStep
  <2>1. CASE DispatchTake \/ DispatchClear
    BY <1>1, <2>1 DEF DispatchTake, DispatchClear, nvars
  <2> QED BY <1>5, <2>1, DispatchSends DEF DispatchStep
<1>6. CASE Scheduler
  BY <1>1, <1>6 DEF Scheduler, ClearConsumerTask, StartConsumerTask, nvars
<1>7. CASE Broker
  BY <1>1, <1>7 DEF Broker, BrokerProcess, BrokerDispatch
<1>8. CASE TransportInterrupted
  BY <1>1, <1>8 DEF TransportInterrupted
<1>9. CASE Restore
  BY <1>9, TransactionSends
<1>10. CASE UNCHANGED vars
  BY <1>1, <1>10 DEF vars, nvars
<1> QED BY <1>2, <1>3, <1>4, <1>5, <1>6, <1>7, <1>8, <1>9, <1>10 DEF Next

-----------------------------------------------------------------------------
(* Theorem *)

\* dispatch(), dequeue() and rollback() call a message poison only when the
\* application is done with it, a redelivery limit is passed, or an interruption
\* caught it half way: a duplicate of a message that the application still has, or
\* that an open transaction waits for, does not go to the dead letter queue,
\* however lost connections, rollbacks and the dispatching thread interleave.
THEOREM PoisonIsDeserved == Spec => PoisonIsJustified
<1>1. Init => Typed /\ Knows /\ Recorded
  BY InitTyped, InitKnows, InitRecorded
<1>2. Typed /\ Knows /\ Recorded /\ [Next]_vars => Typed' /\ Knows' /\ Recorded'
  BY TypedStep, KnowsStep, RecordedStep
<1>3. ASSUME Typed, Knows, Recorded, [Next]_vars
      PROVE  [SendsPoison => LET c == Last(up')
                             IN \/ c.first = c.last /\ c.last \in done \cup caught
                                \/ LimitPassed(c.last)]_vars
  BY <1>3, PoisonStep DEF Justified
<1> QED BY <1>1, <1>2, <1>3, PTL DEF Spec, PoisonIsJustified

-----------------------------------------------------------------------------
(* What the broker has consumed: the order of messages *)

\* List s is in order, apart from what is in X.
Sorted(s, X) ==
    \A i, j \in 1..Len(s) : i < j /\ s[i] \notin X /\ s[j] \notin X => s[i] < s[j]

\* The broker dispatches in order, and has nothing of a consumer without a connection.
BrokerOrder ==
    /\ Sorted(inflight, {}) /\ Sorted(down, {})
    /\ \A x \in ToSet(inflight) \cup ToSet(down), y \in queue : x < y
    /\ ~connected => inflight = <<>> /\ up = <<>> /\ brokerTx = {}

\* Of two messages that no interruption caught, the older is delivered before the
\* other is put in the channel, taken from it or brought by the broker.
InOrder(x, y) ==
    /\ x = dhand /\ (y \in queue \/ y \in ToSet(down)) => x < y
    /\ x = hand /\ y \in ToSet(unconsumed) => x < y
    /\ x \in ToSet(delivered) /\ y \in ToSet(unconsumed) => x < y
    /\ x \in ToSet(delivered) /\ y = hand /\ apc = "before" => x < y
    /\ x \in ToSet(delivered) /\ y \in Coming /\ y \notin audit => x < y
    /\ (x \in ToSet(unconsumed) \/ x = hand) /\ y \in Coming => clearRequired \/ x < y
    /\ x \in ToSet(delivered) /\ y \in Coming =>
          previously[x] = "pending" \/ clearDelivered \/ x < y

ClientOrder ==
    /\ Sorted(unconsumed, caught) /\ Sorted(delivered, caught)
    /\ \A x, y \in Messages \ caught : InOrder(x, y)
    /\ apc = "commit" /\ clearDelivered => ToSet(delivered) \subseteq caught

-----------------------------------------------------------------------------
(* Lists in order *)

\* A list stays in order when less is asked of it.
LEMMA SortedLess ==
  ASSUME NEW s, NEW X, NEW Y, X \subseteq Y, Sorted(s, X)
  PROVE  Sorted(s, Y)
BY DEF Sorted

\* The empty list is in order.
LEMMA SortedEmpty == \A X : Sorted(<<>>, X)
BY DEF Sorted

\* A list in order grows by a later message.
LEMMA SortedAppend ==
  ASSUME NEW s \in Seq(Messages), NEW x \in Messages, NEW X, Sorted(s, X),
         \A y \in ToSet(s) : y \notin X /\ x \notin X => y < x
  PROVE  Sorted(Append(s, x), X)
<1> DEFINE t == Append(s, x)
<1>1. /\ Len(t) = Len(s) + 1 /\ t[Len(s) + 1] = x /\ Len(s) \in Nat
      /\ \A i \in 1..Len(s) : t[i] = s[i]
  OBVIOUS
<1>2. \A i \in 1..Len(s) : s[i] \in ToSet(s)
  BY InList
<1> HIDE DEF t
<1>3. ASSUME NEW i \in 1..Len(t), NEW j \in 1..Len(t), i < j, t[i] \notin X, t[j] \notin X
      PROVE  t[i] < t[j]
  <2>1. i \in 1..Len(s) /\ t[i] = s[i]
    BY <1>1, <1>3
  <2>2. CASE j = Len(s) + 1
    BY <1>1, <1>2, <1>3, <2>1, <2>2
  <2>3. CASE j # Len(s) + 1
    <3>1. j \in 1..Len(s) /\ t[j] = s[j]
      BY <1>1, <2>3
    <3> QED BY <1>3, <2>1, <3>1 DEF Sorted
  <2> QED BY <2>2, <2>3
<1>4. Sorted(t, X)
  BY <1>3 DEF Sorted
<1> QED BY <1>4 DEF t

\* The front of a list in order is older than the rest, which is in order.
LEMMA SortedTail ==
  ASSUME NEW s \in Seq(Messages), s # <<>>, NEW X, Sorted(s, X)
  PROVE  /\ Sorted(Tail(s), X)
         /\ \A y \in ToSet(Tail(s)) : y \notin X /\ Head(s) \notin X => Head(s) < y
<1> DEFINE t == Tail(s)
<1>1. /\ t \in Seq(Messages) /\ Len(t) + 1 = Len(s) /\ Head(s) = s[1] /\ 1 \in 1..Len(s)
      /\ Len(t) \in Nat
      /\ \A i \in 1..Len(t) : t[i] = s[i + 1] /\ i + 1 \in 1..Len(s)
  OBVIOUS
<1> HIDE DEF t
<1>2. ASSUME NEW i \in 1..Len(t), NEW j \in 1..Len(t), i < j, t[i] \notin X, t[j] \notin X
      PROVE  t[i] < t[j]
  <2>1. i + 1 < j + 1
    BY <1>2
  <2> QED BY <1>1, <1>2, <2>1 DEF Sorted
<1>3. ASSUME NEW y \in ToSet(t), y \notin X, Head(s) \notin X PROVE Head(s) < y
  <2>1. PICK j \in 1..Len(t) : t[j] = y
    BY <1>1, InList
  <2>2. 1 < j + 1 /\ s[j + 1] = y /\ j + 1 \in 1..Len(s)
    BY <1>1, <2>1
  <2> QED BY <1>1, <1>3, <2>2 DEF Sorted
<1>4. Sorted(t, X)
  BY <1>2 DEF Sorted
<1> QED BY <1>3, <1>4 DEF t

\* Two lists in order, the one older than the other.
LEMMA SortedJoin ==
  ASSUME NEW s \in Seq(Messages), NEW t \in Seq(Messages), NEW X, Sorted(s, X), Sorted(t, X),
         \A x \in ToSet(s), y \in ToSet(t) : x \notin X /\ y \notin X => x < y
  PROVE  Sorted(s \o t, X)
<1> DEFINE u == s \o t
<1>1. Len(u) = Len(s) + Len(t) /\ Len(s) \in Nat /\ Len(t) \in Nat
  OBVIOUS
<1>2. \A i \in 1..Len(u) : \/ i \in 1..Len(s) /\ u[i] = s[i]
                           \/ i > Len(s) /\ i - Len(s) \in 1..Len(t) /\ u[i] = t[i - Len(s)]
  OBVIOUS
<1>3. (\A i \in 1..Len(s) : s[i] \in ToSet(s)) /\ (\A i \in 1..Len(t) : t[i] \in ToSet(t))
  BY InList
<1> HIDE DEF u
<1>4. ASSUME NEW i \in 1..Len(u), NEW j \in 1..Len(u), i < j, u[i] \notin X, u[j] \notin X
      PROVE  u[i] < u[j]
  <2>1. CASE j \in 1..Len(s) /\ u[j] = s[j]
    <3>1. i \in 1..Len(s) /\ u[i] = s[i]
      BY <1>1, <1>2, <1>4, <2>1
    <3> QED BY <1>4, <2>1, <3>1 DEF Sorted
  <2>2. CASE j > Len(s) /\ j - Len(s) \in 1..Len(t) /\ u[j] = t[j - Len(s)]
    <3>1. CASE i \in 1..Len(s) /\ u[i] = s[i]
      BY <1>3, <1>4, <2>2, <3>1
    <3>2. CASE i > Len(s) /\ i - Len(s) \in 1..Len(t) /\ u[i] = t[i - Len(s)]
      <4>1. i - Len(s) < j - Len(s)
        BY <1>1, <1>4, <2>2, <3>2
      <4> QED BY <1>4, <2>2, <3>2, <4>1 DEF Sorted
    <3> QED BY <1>2, <3>1, <3>2
  <2> QED BY <1>2, <2>1, <2>2
<1>5. Sorted(u, X)
  BY <1>4 DEF Sorted
<1> QED BY <1>5 DEF u

\* What is left of a list in order is in order.
LEMMA SortedKeep ==
  ASSUME NEW s \in Seq(Messages), NEW I, I \subseteq 1..Len(s), NEW X, Sorted(s, X)
  PROVE  Sorted(KeepAt(s, I), X)
<1> DEFINE c == Cardinality(I)
           at(k) == CHOOSE i \in I : Rank(I, i) = k
           t == KeepAt(s, I)
<1>1. Len(s) \in Nat /\ \A i \in I : i \in 1..Len(s) /\ i \in Nat
  OBVIOUS
<1>2. /\ c \in Nat /\ \A k \in 1..c : \E i \in I : Rank(I, i) = k
      /\ \A i, j \in I : i < j => Rank(I, i) < Rank(I, j)
      /\ \A i \in I : Rank(I, i) \in 1..c
  <2>1. \A i \in I : Rank(I, i) \in 1..c
    BY <1>1, RankGrows
  <2>2. \A i, j \in I : i < j => Rank(I, i) < Rank(I, j)
    BY <1>1, RankGrows
  <2> QED BY <1>1, <2>1, <2>2, Ranks
<1>3. \A k \in 1..c : at(k) \in I /\ Rank(I, at(k)) = k
  BY <1>2
<1>4. t = [k \in 1..c |-> s[at(k)]]
  BY DEF KeepAt, Rank
<1>5. t \in Seq(Messages)
  BY Keeps
<1> HIDE DEF at, t, c
<1>6. Len(t) = c /\ \A k \in 1..c : t[k] = s[at(k)]
  BY <1>2, <1>4, <1>5
<1>7. ASSUME NEW i \in 1..Len(t), NEW j \in 1..Len(t), i < j, t[i] \notin X, t[j] \notin X
      PROVE  t[i] < t[j]
  <2>1. /\ at(i) \in I /\ at(j) \in I /\ at(i) \in Nat /\ at(j) \in Nat
        /\ Rank(I, at(i)) = i /\ Rank(I, at(j)) = j
    BY <1>1, <1>3, <1>6
  <2>2. at(i) < at(j)
    <3>1. ~(at(j) < at(i)) /\ at(i) # at(j)
      BY <1>2, <1>6, <1>7, <2>1
    <3> QED BY <2>1, <3>1
  <2>3. t[i] = s[at(i)] /\ t[j] = s[at(j)] /\ at(i) \in 1..Len(s) /\ at(j) \in 1..Len(s)
    BY <1>1, <1>6, <2>1
  <2> QED BY <1>7, <2>2, <2>3 DEF Sorted
<1>8. Sorted(t, X)
  BY <1>7 DEF Sorted
<1> QED BY <1>8 DEF t

-----------------------------------------------------------------------------
(* What a step sends *)

\* Only commands of S are added at the end, and nothing without a connection.
Grown(S) ==
    /\ up' \in Seq(Commands) /\ Len(up) <= Len(up')
    /\ \A i \in 1..Len(up) : up'[i] = up[i]
    /\ \A i \in 1..Len(up') : i > Len(up) => up'[i] \in S
    /\ ~connected => up' = up

\* The commands that neither acknowledge a message as consumed nor end a transaction.
Harmless == {c \in Commands : c.type \in {"DELIVERED", "REDELIVERED", "POISON", "BEGIN"}}

\* What is sent stands behind what was.
LEMMA SendsGrown ==
  ASSUME Typed, NEW S, S \subseteq Commands, NEW cs \in Seq(S), SendAll(cs)
  PROVE  Grown(S)
<1>1. up \in Seq(Commands) /\ cs \in Seq(Commands) /\ Len(up) \in Nat
  BY DEF Typed, TypeOK
<1>2. CASE connected
  <2>1. up' = up \o cs
    BY <1>2 DEF SendAll
  <2> HIDE DEF SendAll
  <2>2. /\ up' \in Seq(Commands) /\ Len(up') = Len(up) + Len(cs) /\ Len(cs) \in Nat
        /\ \A i \in 1..Len(up) : up'[i] = up[i]
        /\ \A i \in 1..Len(up') : i > Len(up) => up'[i] = cs[i - Len(up)] /\ i - Len(up) \in 1..Len(cs)
    BY <1>1, <2>1
  <2>3. \A i \in 1..Len(cs) : cs[i] \in S
    OBVIOUS
  <2> QED BY <1>1, <1>2, <2>2, <2>3 DEF Grown
<1>3. CASE ~connected
  BY <1>1, <1>3 DEF SendAll, Grown
<1> QED BY <1>2, <1>3

\* An acknowledgement that is sent stands at the end.
LEMMA SendGrown ==
  ASSUME Typed, NEW t \in CommandTypes, NEW f \in Messages, NEW l \in Messages, SendAck(t, f, l)
  PROVE  Grown({Ack(t, f, l)})
<1>1. Ack(t, f, l) \in Commands
  BY AckIsCommand
<1>2. <<Ack(t, f, l)>> \in Seq({Ack(t, f, l)})
  OBVIOUS
<1> QED BY <1>1, <1>2, SendsGrown DEF SendAck

\* Nothing is sent.
LEMMA StillGrown == ASSUME Typed, NEW S, up' = up PROVE Grown(S)
BY DEF Typed, TypeOK, Grown

\* One may say less of what is sent.
LEMMA GrownMore == ASSUME NEW S, NEW T, S \subseteq T, Grown(S) PROVE Grown(T)
BY DEF Grown

\* An acknowledgement of the harmless types.
LEMMA HarmlessAck ==
  ASSUME Typed, NEW t \in {"DELIVERED", "REDELIVERED", "POISON"}, NEW f \in Messages,
         NEW l \in Messages, SendAck(t, f, l)
  PROVE  Grown(Harmless)
<1>1. t \in CommandTypes
  BY DEF CommandTypes
<1>2. Grown({Ack(t, f, l)}) /\ Ack(t, f, l) \in Commands
  BY <1>1, SendGrown, AckIsCommand
<1>3. Ack(t, f, l) \in Harmless
  BY <1>2 DEF Harmless, Ack
<1> QED BY <1>2, <1>3, GrownMore

\* ackLater() sends an announcement, after begin() or by itself.
LEMMA AckLaterGrown ==
  ASSUME Typed, NEW m \in Messages, NEW cs \in Seq(Harmless), AckLater(m, cs)
  PROVE  Grown(Harmless)
<1> DEFINE f == IF pendingAck = None THEN m ELSE pendingAck.first
           ack == Ack("DELIVERED", f, m)
<1>1. f \in 0..MaxMessages
  <2>1. CASE pendingAck = None
    BY <2>1, MessageFacts
  <2>2. CASE pendingAck # None
    BY <2>2 DEF Typed, TypeOK, Commands
  <2> QED BY <2>1, <2>2
<1>2. ack \in Harmless
  BY <1>1, MessageFacts DEF Ack, Commands, Harmless
<1>3. SendAll(Append(cs, ack)) \/ SendAll(cs)
  BY DEF AckLater
<1> HIDE DEF ack
<1>4. Append(cs, ack) \in Seq(Harmless) /\ Harmless \subseteq Commands
  BY <1>2 DEF Harmless
<1> QED BY <1>3, <1>4, SendsGrown

\* The front and the end of what is put back or declared poison.
LEMMA Ends ==
  ASSUME NEW s \in Seq(Messages), s # <<>>
  PROVE  /\ Head(s) \in Messages /\ Last(s) \in Messages
         /\ Head(s) \in ToSet(s) /\ Last(s) \in ToSet(s)
<1>1. Len(s) \in Nat /\ 1 \in 1..Len(s) /\ Len(s) \in 1..Len(s) /\ Head(s) = s[1]
  OBVIOUS
<1> QED BY <1>1, InList DEF Last

\* The steps that change the commands on their way only by harmless ones.
LEMMA CalmSteps ==
  ASSUME Typed,
         \/ BrokerDispatch \/ ClearConsumerTask \/ StartConsumerTask \/ DispatchTake
         \/ DispatchClear \/ DispatchEnqueue \/ Dequeue \/ BeforeMessageIsConsumed
         \/ ReceiveTransacted \/ ReceiveManual \/ ReceiveNothing \/ Enters
         \/ AfterCommit \/ CommitInDoubt \/ AfterRollback \/ RollbackConsumer
         \/ RemoveAcknowledged \/ UNCHANGED vars
  PROVE  Grown(Harmless) /\ connected' = connected
<1>1. CASE \/ BrokerDispatch \/ ClearConsumerTask \/ StartConsumerTask \/ DispatchTake
           \/ DispatchClear \/ BeforeMessageIsConsumed \/ ReceiveNothing \/ RemoveAcknowledged
  <2>1. up' = up /\ connected' = connected
    BY <1>1 DEF BrokerDispatch, ClearConsumerTask, StartConsumerTask, DispatchTake, DispatchClear,
                BeforeMessageIsConsumed, ReceiveNothing, RemoveAcknowledged, nvars
  <2> QED BY <2>1, StillGrown
<1>2. CASE Enters
  <2>1. up' = up /\ connected' = connected
    BY <1>2, EnterFacts DEF Enter, nvars
  <2> QED BY <2>1, StillGrown
<1>3. CASE AfterCommit \/ CommitInDoubt \/ AfterRollback \/ UNCHANGED vars
  <2>1. up' = up /\ connected' = connected
    BY <1>3 DEF AfterCommit, CommitInDoubt, AfterRollback, vars, nvars
  <2> QED BY <2>1, StillGrown
<1>4. CASE DispatchEnqueue
  <2>1. dhand \in Messages /\ connected' = connected
    BY <1>4, MessageFacts DEF DispatchEnqueue, Typed, TypeOK, Hands
  <2>2. up' = up \/ SendAck("DELIVERED", dhand, dhand) \/ SendAck("POISON", dhand, dhand)
    BY <1>4 DEF DispatchEnqueue
  <2> QED BY <2>1, <2>2, StillGrown, HarmlessAck
<1>5. CASE Dequeue
  <2>1. unconsumed # <<>> /\ unconsumed \in Seq(Messages) /\ connected' = connected
    BY <1>5 DEF Dequeue, Typed, TypeOK
  <2>2. Head(unconsumed) \in Messages
    BY <2>1, Ends
  <2>3. up' = up \/ SendAck("POISON", Head(unconsumed), Head(unconsumed))
    BY <1>5 DEF Dequeue
  <2> QED BY <2>1, <2>2, <2>3, StillGrown, HarmlessAck
<1>6. CASE ReceiveTransacted
  <2>1. hand \in Messages /\ connected' = connected
    BY <1>6, MessageFacts DEF ReceiveTransacted, Typed, TypeOK, Hands
  <2>2. Begin \in Seq(Harmless) /\ AckLater(hand, Begin)
    <3>1. TxCommand("BEGIN") \in Harmless
      BY MessageFacts DEF TxCommand, Harmless, Commands
    <3> QED BY <1>6, <3>1 DEF ReceiveTransacted, Begin
  <2> QED BY <2>1, <2>2, AckLaterGrown
<1>7. CASE ReceiveManual
  <2>1. hand \in Messages /\ connected' = connected
    BY <1>7, MessageFacts DEF ReceiveManual, Typed, TypeOK, Hands
  <2>3. <<>> \in Seq(Harmless)
    OBVIOUS
  <2>2. AckLater(hand, <<>>) \/ up' = up
    BY <1>7 DEF ReceiveManual
  <2> QED BY <2>1, <2>2, <2>3, AckLaterGrown, StillGrown
<1>8. CASE RollbackConsumer
  <2> DEFINE ms == KeepAt(delivered, PutBack)
  <2>1. IF ms # <<>> THEN Redeliver(ms) ELSE UNCHANGED <<redelivery, deliveredCounter, up, kvars>>
    BY <1>8, Zenon DEF RollbackConsumer, PutBack
  <2>2. ms \in Seq(Messages)
    BY PutBackType DEF Typed
  <2>3. connected' = connected
    BY <1>8 DEF RollbackConsumer
  <2> HIDE DEF ms
  <2>4. CASE ms # <<>>
    <3>1. Head(ms) \in Messages /\ Last(ms) \in Messages
      BY <2>2, <2>4, Ends
    <3>2. \/ up' = up \/ SendAck("REDELIVERED", Head(ms), Last(ms))
          \/ SendAck("POISON", Head(ms), Last(ms))
      BY <2>1, <2>4 DEF Redeliver
    <3> QED BY <2>3, <3>1, <3>2, StillGrown, HarmlessAck
  <2>5. CASE ms = <<>>
    BY <2>1, <2>3, <2>5, StillGrown
  <2> QED BY <2>4, <2>5
<1> QED BY <1>1, <1>2, <1>3, <1>4, <1>5, <1>6, <1>7, <1>8

\* receive() and acknowledge() acknowledge what is delivered, or nothing.
LEMMA AckSteps ==
  ASSUME Typed, ReceiveAuto \/ AcknowledgeSection
  PROVE  /\ connected' = connected
         /\ \/ up' = up
            \/ /\ delivered # <<>>
               /\ Grown({Ack("CONSUMED", Head(delivered), Last(delivered))})
<1>1. connected' = connected
  BY DEF ReceiveAuto, AcknowledgeSection
<1>2. \/ up' = up
      \/ delivered # <<>> /\ SendAck("CONSUMED", Head(delivered), Last(delivered))
  BY AckAllSent DEF ReceiveAuto, AcknowledgeSection
<1>3. ASSUME delivered # <<>>, SendAck("CONSUMED", Head(delivered), Last(delivered))
      PROVE  Grown({Ack("CONSUMED", Head(delivered), Last(delivered))})
  <2>1. Head(delivered) \in Messages /\ Last(delivered) \in Messages
    BY <1>3, Ends DEF Typed, TypeOK
  <2>2. "CONSUMED" \in CommandTypes
    BY DEF CommandTypes
  <2> QED BY <1>3, <2>1, <2>2, SendGrown
<1> QED BY <1>1, <1>2, <1>3

\* So do commit() and rollback(); they begin a transaction if there is none.
LEMMA EndAckStep ==
  ASSUME Typed, BeforeEnd
  PROVE  /\ connected' = connected
         /\ \/ up' = up /\ ~Acknowledges
            \/ /\ Acknowledges
               /\ Grown({TxCommand("BEGIN"), Ack("CONSUMED", Head(delivered), Last(delivered))})
<1> DEFINE a == Ack("CONSUMED", Head(delivered), Last(delivered))
           b == TxCommand("BEGIN")
<1>1. connected' = connected
  BY DEF BeforeEnd
<1>2. \/ up' = up /\ ~Acknowledges
      \/ Acknowledges /\ SendAll(Append(Begin, a))
  BY DEF BeforeEnd, AckAllDelivered
<1>3. ASSUME Acknowledges, SendAll(Append(Begin, a)) PROVE Grown({b, a})
  <2>1. Head(delivered) \in Messages /\ Last(delivered) \in Messages
    BY <1>3, Ends DEF Acknowledges, Typed, TypeOK
  <2>2. a \in Commands /\ b \in Commands
    BY <2>1, AckIsCommand, TxIsCommand DEF CommandTypes
  <2>3. Begin \in {<<>>, <<b>>}
    BY DEF Begin
  <2> DEFINE S == {b, a}
  <2>4. a \in S /\ b \in S /\ S \subseteq Commands
    BY <2>2
  <2> HIDE DEF a, b, S
  <2>5. Append(Begin, a) \in Seq(S)
    <3>1. <<>> \in Seq(S) /\ <<b>> \in Seq(S)
      BY <2>4
    <3>2. Begin \in Seq(S)
      BY <2>3, <3>1
    <3> QED BY <2>4, <3>2
  <2>6. Grown(S)
    BY <1>3, <2>4, <2>5, SendsGrown
  <2> QED BY <2>6 DEF S
<1> QED BY <1>1, <1>2, <1>3

\* A message is acknowledged by itself.
LEMMA AckOneStep ==
  ASSUME Typed, NEW m \in Messages, AcknowledgeOne(m)
  PROVE  connected' = connected /\ Grown({Ack("INDIVIDUAL", m, m)})
<1>1. connected' = connected /\ SendAck("INDIVIDUAL", m, m) /\ "INDIVIDUAL" \in CommandTypes
  BY DEF AcknowledgeOne, CommandTypes
<1> QED BY <1>1, SendGrown

\* The end of a transaction is sent.
LEMMA EndSteps ==
  ASSUME Typed, SendCommit \/ SendRollback
  PROVE  /\ connected' = connected /\ connected
         /\ up' \in Seq(Commands) /\ Len(up') = Len(up) + 1
         /\ \A i \in 1..Len(up) : up'[i] = up[i]
         /\ up'[Len(up) + 1].type = IF SendCommit THEN "COMMIT" ELSE "ROLLBACK"
<1>1. PICK t \in {"COMMIT", "ROLLBACK"} :
         /\ up' = Append(up, TxCommand(t)) /\ connected' = connected /\ connected
         /\ t = IF SendCommit THEN "COMMIT" ELSE "ROLLBACK"
  BY DEF SendCommit, SendRollback, SendEnd
<1> DEFINE x == TxCommand(t)
<1>2. x \in Commands /\ x.type = t
  BY TxIsCommand DEF x, TxCommand, CommandTypes
<1>3. up \in Seq(Commands) /\ up' = Append(up, x)
  BY <1>1 DEF Typed, TypeOK
<1> HIDE DEF x
<1>4. /\ up' \in Seq(Commands) /\ Len(up') = Len(up) + 1 /\ up'[Len(up) + 1] = x
      /\ \A i \in 1..Len(up) : up'[i] = up[i]
  BY <1>2, <1>3
<1> QED BY <1>1, <1>2, <1>4

-----------------------------------------------------------------------------
(* The broker *)

\* What an acknowledgement c does to what is in flight, in the transaction and consumed.
Takes(c) ==
    \/ /\ c.type \in {"DELIVERED", "REDELIVERED"}
       /\ UNCHANGED <<inflight, brokerTx, consumed, reply>>
    \/ /\ c.type = "CONSUMED" /\ Transacted
       /\ brokerTx' = brokerTx \/ brokerTx' = brokerTx \cup AckRange(c)
       /\ UNCHANGED <<inflight, consumed, reply>>
    \/ /\ c.type = "INDIVIDUAL" \/ (c.type = "CONSUMED" /\ ~Transacted)
       /\ consumed' = consumed \cup AckRange(c) /\ Discard(AckRange(c))
       /\ UNCHANGED <<brokerTx, reply>>
    \/ /\ c.type = "POISON"
       /\ Discard(AckRange(c))
       /\ UNCHANGED <<brokerTx, consumed, reply>>
    \/ /\ c.type = "BEGIN"
       /\ brokerTx' = {}
       /\ UNCHANGED <<inflight, consumed, reply>>
    \/ /\ c.type = "COMMIT"
       /\ consumed' = consumed \cup brokerTx /\ Discard(brokerTx)
       /\ brokerTx' = {} /\ reply' = "ok"
    \/ /\ c.type = "ROLLBACK"
       /\ brokerTx' = {} /\ reply' = "ok"
       /\ UNCHANGED <<inflight, consumed>>

\* The broker does so with the next command.
LEMMA BrokerTakes ==
  ASSUME Typed, BrokerProcess
  PROVE  /\ connected /\ connected' /\ up # <<>> /\ up' = Tail(up) /\ Takes(Head(up))
         /\ Head(up) \in Commands
<1> DEFINE c == Head(up)
<1>1. connected /\ connected' = connected /\ up # <<>> /\ up' = Tail(up)
  BY DEF BrokerProcess
<1>2. c \in Commands
  BY <1>1, HeadAndTail DEF Typed, TypeOK
<1>3. Takes(c)
  <2>1. CASE c.type = "DELIVERED"
    BY <2>1, Zenon DEF BrokerProcess, Takes
  <2>2. CASE c.type = "REDELIVERED"
    BY <2>2, Zenon DEF BrokerProcess, Takes
  <2>3. CASE c.type = "CONSUMED" /\ Transacted
    <3>1. /\ brokerTx' = IF brokerOpen THEN brokerTx \cup AckRange(c) ELSE brokerTx
          /\ UNCHANGED <<inflight, known, brokerOpen, attempts, consumed, dlq, reply>>
      BY <2>3, Zenon DEF BrokerProcess
    <3> QED BY <2>3, <3>1, Zenon DEF Takes
  <2>4. CASE c.type = "INDIVIDUAL" \/ (c.type = "CONSUMED" /\ ~Transacted)
    BY <2>4, Zenon DEF BrokerProcess, Takes
  <2>5. CASE c.type = "POISON"
    BY <2>5, Zenon DEF BrokerProcess, Takes
  <2>6. CASE c.type = "BEGIN"
    BY <2>6, Zenon DEF BrokerProcess, Takes
  <2>7. CASE c.type = "COMMIT"
    BY <2>7, Zenon DEF BrokerProcess, Takes
  <2>8. CASE c.type = "ROLLBACK"
    BY <2>8, Zenon DEF BrokerProcess, Takes
  <2>9. c.type \in CommandTypes
    BY <1>2 DEF Commands, CommandTypes
  <2> QED BY <2>1, <2>2, <2>3, <2>4, <2>5, <2>6, <2>7, <2>8, <2>9 DEF CommandTypes
<1> QED BY <1>1, <1>2, <1>3

\* What is discarded is no longer in flight; the rest stays, in order.
LEMMA Discards ==
  ASSUME Typed, NEW ms, Discard(ms), Sorted(inflight, {})
  PROVE  /\ Sorted(inflight', {})
         /\ \A m : m \in ToSet(inflight') <=> m \in ToSet(inflight) /\ m \notin ms
<1> DEFINE I == {i \in 1..Len(inflight) : inflight[i] \notin ms}
<1>1. inflight \in Seq(Messages) /\ I \subseteq 1..Len(inflight)
  BY DEF Typed, TypeOK
<1>2. inflight' = KeepAt(inflight, I)
  BY DEF Discard
<1>3. \A m : m \in ToSet(inflight) /\ m \notin ms => \E i \in I : inflight[i] = m
  BY <1>1, InList
<1>4. \A i \in I : inflight[i] \notin ms /\ inflight[i] \in ToSet(inflight)
  BY <1>1, InList
<1> HIDE DEF I
<1>5. /\ ToSet(inflight') = {inflight[i] : i \in I}
      /\ Sorted(inflight', {})
  BY <1>1, <1>2, Keeps, SortedKeep
<1> QED BY <1>3, <1>4, <1>5

\* Whatever the command, what is in flight stays in order and does not grow.
LEMMA TakesLess ==
  ASSUME Typed, NEW c, Takes(c), Sorted(inflight, {})
  PROVE  Sorted(inflight', {}) /\ ToSet(inflight') \subseteq ToSet(inflight)
<1>1. inflight' = inflight \/ \E ms : Discard(ms)
  BY Zenon DEF Takes
<1> QED BY <1>1, Discards

\* The ends of a range are in it, and what is in it lies between them.
LEMMA RangeBounds ==
  ASSUME Typed, Sorted(inflight, {}), NEW c, NEW x \in AckRange(c)
  PROVE  /\ c.first <= x /\ x <= c.last
         /\ c.first \in AckRange(c) /\ c.last \in AckRange(c)
<1> DEFINE at(m) == {i \in 1..Len(inflight) : inflight[i] = m}
           a == Min(at(c.first))
           b == Max(at(c.last))
<1>1. inflight \in Seq(Messages) /\ Len(inflight) \in Nat /\ Messages \subseteq Nat
  BY MessageFacts DEF Typed, TypeOK
<1>2. at(c.first) # {} /\ at(c.last) # {}
  BY DEF AckRange
<1>3. a \in at(c.first)
  <2>1. at(c.first) \subseteq Nat
    OBVIOUS
  <2> QED BY <1>2, <2>1, MinIn
<1>4. b \in at(c.last)
  <2>1. at(c.last) \subseteq 0..Len(inflight)
    BY <1>1
  <2> QED BY <1>1, <1>2, <2>1, MaxIn
<1>5. /\ a \in 1..Len(inflight) /\ b \in 1..Len(inflight)
      /\ inflight[a] = c.first /\ inflight[b] = c.last
  BY <1>3, <1>4
<1>6. AckRange(c) = {inflight[i] : i \in a..b}
  BY <1>2 DEF AckRange
<1> HIDE DEF a, b
<1>7. PICK i \in a..b : inflight[i] = x
  BY <1>6
<1>8. i \in 1..Len(inflight) /\ a <= i /\ i <= b /\ a \in a..b /\ b \in a..b
  BY <1>1, <1>5, <1>7
<1>9. \A j \in 1..Len(inflight) : inflight[j] \in Nat
  <2>1. \A j \in 1..Len(inflight) : inflight[j] \in Messages
    BY <1>1
  <2> QED BY <1>1, <2>1
<1>10. c.first <= x
  <2>1. a = i \/ a < i
    BY <1>5, <1>8
  <2> QED BY <1>5, <1>7, <1>8, <1>9, <2>1 DEF Sorted
<1>11. x <= c.last
  <2>1. b = i \/ i < b
    BY <1>5, <1>8
  <2> QED BY <1>5, <1>7, <1>8, <1>9, <2>1 DEF Sorted
<1> QED BY <1>5, <1>6, <1>8, <1>10, <1>11

\* The range of one message that is in flight has it.
LEMMA RangeOfOne ==
  ASSUME Typed, NEW c, c.first = c.last, c.last \in ToSet(inflight)
  PROVE  c.last \in AckRange(c)
<1> DEFINE at(m) == {i \in 1..Len(inflight) : inflight[i] = m}
           a == Min(at(c.last))
           b == Max(at(c.last))
<1>1. inflight \in Seq(Messages) /\ Len(inflight) \in Nat
  BY DEF Typed, TypeOK
<1>2. PICK i \in 1..Len(inflight) : inflight[i] = c.last
  BY <1>1, InList
<1>3. i \in at(c.last)
  BY <1>2
<1>4. a <= i
  <2>1. at(c.last) \subseteq Nat
    OBVIOUS
  <2> QED BY <1>3, <2>1, MinIn
<1>5. i <= b
  <2>1. at(c.last) \subseteq 0..Len(inflight)
    BY <1>1
  <2> QED BY <1>1, <1>3, <2>1, MaxIn
<1>6. a \in 1..Len(inflight) /\ b \in 1..Len(inflight)
  <2>1. at(c.last) \subseteq Nat /\ at(c.last) \subseteq 0..Len(inflight) /\ at(c.last) # {}
    BY <1>1, <1>3
  <2>2. a \in at(c.last) /\ b \in at(c.last)
    BY <1>1, <2>1, MinIn, MaxIn
  <2> QED BY <2>2
<1>7. AckRange(c) = {inflight[j] : j \in a..b}
  BY <1>3 DEF AckRange
<1> HIDE DEF a, b
<1>8. i \in a..b
  BY <1>4, <1>5, <1>6
<1> QED BY <1>2, <1>7, <1>8

-----------------------------------------------------------------------------
(* The broker dispatches in order *)

\* Steps that leave what is on its way to the consumer.
LEMMA GrownOrder ==
  ASSUME BrokerOrder, UNCHANGED <<inflight, down, queue, brokerTx, connected>>,
         ~connected => up' = up
  PROVE  BrokerOrder'
BY DEF BrokerOrder

\* The steps of the consumer do so.
LEMMA ConsumerSteps ==
  ASSUME Typed,
         \/ ClearConsumerTask \/ StartConsumerTask
         \/ DispatchClear \/ DispatchEnqueue \/ Receive \/ Settle \/ Undo \/ UNCHANGED vars
  PROVE  /\ UNCHANGED <<inflight, down, queue, brokerTx, connected, consumed>>
         /\ ~connected => up' = up
<1>1. CASE \/ ClearConsumerTask \/ StartConsumerTask
           \/ DispatchClear \/ DispatchEnqueue \/ UNCHANGED vars
  <2>1. UNCHANGED <<inflight, down, queue, brokerTx, connected, consumed>>
    BY <1>1 DEF ClearConsumerTask, StartConsumerTask, DispatchClear, DispatchEnqueue, vars, bvars,
                nvars
  <2>2. Grown(Harmless)
    BY <1>1, CalmSteps
  <2> QED BY <2>1, <2>2 DEF Grown
<1>2. CASE \/ Dequeue \/ ReceiveNothing \/ BeforeMessageIsConsumed \/ ReceiveTransacted
           \/ ReceiveManual
  <2>1. UNCHANGED <<inflight, down, queue, brokerTx, connected, consumed>>
    BY <1>2 DEF Dequeue, ReceiveNothing, BeforeMessageIsConsumed, ReceiveTransacted, ReceiveManual,
                bvars, nvars
  <2>2. Grown(Harmless)
    BY <1>2, CalmSteps
  <2> QED BY <2>1, <2>2 DEF Grown
<1>3. CASE Enters
  <2>1. UNCHANGED <<inflight, down, queue, brokerTx, connected, consumed>>
    BY <1>3, EnterFacts DEF Enter, bvars, nvars
  <2>2. Grown(Harmless)
    BY <1>3, CalmSteps
  <2> QED BY <2>1, <2>2 DEF Grown
<1>4. CASE \/ AfterCommit \/ CommitInDoubt \/ AfterRollback \/ RollbackConsumer
           \/ RemoveAcknowledged
  <2>1. UNCHANGED <<inflight, down, queue, brokerTx, connected, consumed>>
    BY <1>4 DEF AfterCommit, CommitInDoubt, AfterRollback, RollbackConsumer, RemoveAcknowledged,
                bvars, nvars
  <2>2. Grown(Harmless)
    BY <1>4, CalmSteps
  <2> QED BY <2>1, <2>2 DEF Grown
<1>5. CASE ReceiveAuto \/ AcknowledgeSection \/ BeforeEnd
  <2>1. UNCHANGED <<inflight, down, queue, brokerTx, connected, consumed>>
    BY <1>5 DEF ReceiveAuto, AcknowledgeSection, BeforeEnd, bvars
  <2> QED BY <1>5, <2>1, AckSteps, EndAckStep DEF Grown
<1>6. ASSUME NEW m \in Messages, AcknowledgeOne(m)
      PROVE  /\ UNCHANGED <<inflight, down, queue, brokerTx, connected, consumed>>
             /\ ~connected => up' = up
  <2>1. UNCHANGED <<inflight, down, queue, brokerTx, connected, consumed>>
    BY <1>6 DEF AcknowledgeOne, bvars
  <2> QED BY <1>6, <2>1, AckOneStep DEF Grown
<1>7. CASE SendCommit \/ SendRollback
  BY <1>7 DEF SendCommit, SendRollback, SendEnd, bvars
<1> QED BY <1>1, <1>2, <1>3, <1>4, <1>5, <1>6, <1>7 DEF Receive, Settle, Undo, Enters

\* The next message is the oldest of those not dispatched.
LEMMA BrokerDispatchOrder ==
  ASSUME Typed, BrokerOrder, BrokerDispatch
  PROVE  BrokerOrder'
<1> DEFINE m == Min(queue)
<1>1. /\ queue' = queue \ {m} /\ inflight' = Append(inflight, m) /\ down' = Append(down, m)
      /\ connected /\ connected' = connected
  BY DEF BrokerDispatch
<1>2. /\ inflight \in Seq(Messages) /\ down \in Seq(Messages) /\ queue \subseteq Messages
      /\ Messages \subseteq Nat /\ queue # {}
  BY MessageFacts DEF Typed, TypeOK, BrokerDispatch
<1>3. m \in queue /\ \A y \in queue : m <= y
  BY <1>2, MinIn
<1> HIDE DEF m
<1>4. m \in Messages
  BY <1>2, <1>3
<1>5. \A x \in ToSet(inflight) \cup ToSet(down), y \in queue : x < y
  BY DEF BrokerOrder
<1>6. Sorted(inflight', {}) /\ Sorted(down', {})
  BY <1>1, <1>2, <1>3, <1>4, <1>5, SortedAppend DEF BrokerOrder
<1>7. ToSet(inflight') = ToSet(inflight) \cup {m} /\ ToSet(down') = ToSet(down) \cup {m}
  BY <1>1, <1>2, <1>4, Appended
<1>8. \A y \in queue' : m < y
  BY <1>1, <1>2, <1>3, <1>4
<1>9. \A x \in ToSet(inflight') \cup ToSet(down'), y \in queue' : x < y
  BY <1>1, <1>5, <1>7, <1>8
<1> QED BY <1>1, <1>6, <1>9 DEF BrokerOrder

\* The broker takes a command.
LEMMA BrokerProcessOrder ==
  ASSUME Typed, BrokerOrder, BrokerProcess
  PROVE  BrokerOrder'
<1>1. connected' /\ Takes(Head(up)) /\ Sorted(inflight, {})
  BY BrokerTakes DEF BrokerOrder
<1>2. UNCHANGED <<queue, down>>
  BY DEF BrokerProcess
<1>3. Sorted(inflight', {}) /\ ToSet(inflight') \subseteq ToSet(inflight)
  BY <1>1, TakesLess
<1> QED BY <1>1, <1>2, <1>3 DEF BrokerOrder

\* The dispatching thread takes the oldest message of the session's queue.
LEMMA DispatchTakeOrder ==
  ASSUME Typed, BrokerOrder, DispatchTake
  PROVE  BrokerOrder'
<1>1. /\ down # <<>> /\ down \in Seq(Messages) /\ down' = Tail(down)
      /\ UNCHANGED <<inflight, queue, brokerTx, connected, up>>
  BY DEF DispatchTake, Typed, TypeOK, bvars
<1>2. Sorted(down', {}) /\ ToSet(down') \subseteq ToSet(down)
  BY <1>1, SortedTail, HeadAndTail DEF BrokerOrder
<1> QED BY <1>1, <1>2 DEF BrokerOrder

\* Every step keeps the order.
LEMMA BrokerOrderStep == ASSUME Typed, BrokerOrder, [Next]_vars PROVE BrokerOrder'
<1>1. CASE \/ ClearConsumerTask \/ StartConsumerTask
           \/ DispatchClear \/ DispatchEnqueue \/ Receive \/ Settle \/ Undo \/ UNCHANGED vars
  BY <1>1, ConsumerSteps, GrownOrder
<1>2. CASE TransportInterrupted
  <2>1. /\ inflight' = <<>> /\ down' = <<>> /\ up' = <<>> /\ brokerTx' = {}
        /\ ToSet(<<>>) = {}
    BY <1>2, EmptyList DEF TransportInterrupted
  <2>2. Sorted(<<>>, {})
    BY SortedEmpty
  <2> QED BY <2>1, <2>2 DEF BrokerOrder
<1>3. CASE Restore
  BY <1>3 DEF Restore, bvars, BrokerOrder
<1> QED BY <1>1, <1>2, <1>3, BrokerDispatchOrder, BrokerProcessOrder, DispatchTakeOrder
        DEF Next, DispatchStep, Scheduler, Broker

\* Initially nothing is dispatched.
LEMMA InitBrokerOrder == ASSUME Init PROVE BrokerOrder
<1>1. inflight = <<>> /\ down = <<>> /\ connected /\ Sorted(<<>>, {}) /\ ToSet(<<>>) = {}
  BY SortedEmpty, EmptyList DEF Init
<1> QED BY <1>1 DEF BrokerOrder

-----------------------------------------------------------------------------
(* The consumer keeps the order: steps that at most take something away *)

\* The channel and the flags stay, what is delivered is at most shortened, and
\* nothing is on its way that was not.
OrderFrame ==
    /\ UNCHANGED <<unconsumed, dhand, audit, clearRequired, clearDelivered>>
    /\ Sorted(delivered', caught) /\ ToSet(delivered') \subseteq ToSet(delivered)
    /\ \A m \in ToSet(delivered') : previously'[m] = previously[m]
    /\ \A m \in Messages : m \in queue' \/ m \in ToSet(down') => m \in queue \/ m \in ToSet(down)
    /\ hand' = hand \/ hand' = 0
    /\ apc' = "before" => apc = "before"
    /\ apc' = "commit" => apc = "commit"
    /\ caught \subseteq caught'

\* Such steps keep the order.
LEMMA FrameOrder == ASSUME ClientOrder, OrderFrame PROVE ClientOrder'
<1>1. Sorted(unconsumed', caught') /\ Sorted(delivered', caught')
  BY SortedLess DEF ClientOrder, OrderFrame
<1>2. ASSUME NEW x \in Messages, NEW y \in Messages, x \notin caught', y \notin caught'
      PROVE  InOrder(x, y)'
  <2>1. InOrder(x, y) /\ x # 0 /\ y # 0
    BY <1>2, MessageFacts DEF ClientOrder, OrderFrame
  <2>2. y \in Coming' => y \in Coming
    BY DEF Coming, OrderFrame
  <2> QED BY <2>1, <2>2 DEF InOrder, OrderFrame
<1>3. apc' = "commit" /\ clearDelivered' => ToSet(delivered') \subseteq caught'
  BY DEF ClientOrder, OrderFrame
<1> QED BY <1>1, <1>2, <1>3 DEF ClientOrder

\* The broker, the transport, the scheduler and the commands of a transaction.
LEMMA StepsFrameOrder ==
  ASSUME Typed, ClientOrder,
         \/ BrokerProcess \/ Restore \/ StartConsumerTask \/ SendCommit \/ SendRollback
         \/ BeforeEnd \/ ReceiveNothing \/ ReceiveTransacted \/ ReceiveManual \/ CommitInDoubt
         \/ (\E m \in Messages : AcknowledgeOne(m)) \/ UNCHANGED vars
  PROVE  OrderFrame
<1>1. /\ UNCHANGED <<unconsumed, dhand, audit, clearRequired, clearDelivered, delivered,
                     previously, queue, down, caught>>
      /\ hand' = hand \/ hand' = 0
      /\ apc' = "before" => apc = "before"
      /\ apc' = "commit" => apc = "commit"
  <2>1. CASE BrokerProcess
    BY <2>1 DEF BrokerProcess, kvars, lvars, fvars, tvars, dvars, hvars
  <2>2. CASE Restore
    BY <2>2 DEF Restore, bvars, kvars, lvars, fvars, tvars, dvars, hvars
  <2>3. CASE StartConsumerTask
    BY <2>3 DEF StartConsumerTask, bvars, nvars, lvars, fvars, tvars, dvars, hvars
  <2>4. CASE SendCommit \/ SendRollback
    BY <2>4 DEF SendCommit, SendRollback, SendEnd, bvars, kvars, lvars, fvars, dvars, hvars
  <2>5. CASE BeforeEnd
    BY <2>5 DEF BeforeEnd, bvars, kvars, fvars, dvars, hvars
  <2>6. CASE ReceiveTransacted
    BY <2>6 DEF ReceiveTransacted, ReceiveReturns, bvars, kvars, fvars, dvars
  <2>7. CASE ReceiveManual
    BY <2>7 DEF ReceiveManual, ReceiveReturns, bvars, kvars, fvars, dvars
  <2>8. CASE UNCHANGED vars
    BY <2>8 DEF vars, bvars, nvars, kvars, lvars, fvars, tvars, dvars, hvars
  <2>9. CASE ReceiveNothing \/ CommitInDoubt
    BY <2>9 DEF ReceiveNothing, CommitInDoubt, bvars, nvars, kvars, lvars, fvars, dvars, hvars
  <2>10. CASE \E m \in Messages : AcknowledgeOne(m)
    BY <2>10 DEF AcknowledgeOne, bvars, kvars, lvars, fvars, dvars
  <2> QED BY <2>1, <2>2, <2>3, <2>4, <2>5, <2>6, <2>7, <2>8, <2>9, <2>10
<1> QED BY <1>1 DEF OrderFrame, ClientOrder

\* The broker dispatches a message: it was coming and still is.
LEMMA BrokerDispatchFrame ==
  ASSUME Typed, ClientOrder, BrokerDispatch
  PROVE  OrderFrame
<1>1. Min(queue) \in queue /\ queue \subseteq Messages /\ down \in Seq(Messages)
  BY MinIn, MessageFacts DEF BrokerDispatch, Typed, TypeOK
<1>2. /\ UNCHANGED <<unconsumed, dhand, audit, clearRequired, clearDelivered, delivered,
                     previously, caught, hand, apc>>
      /\ queue' = queue \ {Min(queue)} /\ down' = Append(down, Min(queue))
  BY DEF BrokerDispatch, kvars, lvars, fvars, tvars, dvars, hvars
<1>3. ToSet(down') = ToSet(down) \cup {Min(queue)}
  BY <1>1, <1>2, Appended
<1> QED BY <1>1, <1>2, <1>3 DEF OrderFrame, ClientOrder

\* receive(), acknowledge() and commit() empty the list, or take a message out.
LEMMA SettleFrame ==
  ASSUME Typed, ClientOrder,
         ReceiveAuto \/ AcknowledgeSection \/ AfterCommit \/ RemoveAcknowledged
  PROVE  OrderFrame
<1>1. CASE ReceiveAuto \/ AcknowledgeSection \/ AfterCommit
  <2>1. /\ UNCHANGED <<unconsumed, dhand, audit, clearRequired, clearDelivered, queue, down>>
        /\ (hand' = hand \/ hand' = 0) /\ apc' = "idle" /\ caught \subseteq caught'
        /\ delivered' = <<>> \/ UNCHANGED <<delivered, previously>>
    BY <1>1 DEF ReceiveAuto, ReceiveReturns, AcknowledgeSection, AfterCommit, bvars, kvars, fvars,
                dvars
  <2>2. ToSet(<<>>) = {} /\ Sorted(<<>>, caught)
    BY EmptyList, SortedEmpty
  <2> QED BY <2>1, <2>2 DEF OrderFrame, ClientOrder
<1>2. CASE RemoveAcknowledged
  <2> DEFINE I == {i \in 1..Len(delivered) : delivered[i] # acked}
  <2>1. /\ UNCHANGED <<unconsumed, dhand, audit, clearRequired, clearDelivered, queue, down,
                       previously, caught, hand>>
        /\ delivered' = KeepAt(delivered, I) /\ apc' = "idle"
    BY <1>2 DEF RemoveAcknowledged, bvars, nvars, kvars, fvars, dvars, hvars
  <2>2. delivered \in Seq(Messages) /\ I \subseteq 1..Len(delivered)
    BY DEF Typed, TypeOK
  <2> HIDE DEF I
  <2>3. Sorted(delivered', caught) /\ ToSet(delivered') = {delivered[i] : i \in I}
    BY <2>1, <2>2, SortedKeep, Keeps DEF ClientOrder
  <2>4. ToSet(delivered') \subseteq ToSet(delivered)
    BY <2>2, <2>3, InList
  <2> QED BY <2>1, <2>3, <2>4 DEF OrderFrame
<1> QED BY <1>1, <1>2

-----------------------------------------------------------------------------
(* The consumer keeps the order: interruption and clear *)

\* What comes back out of order was seen by the audit, or caught half way.
LEMMA TransportInterruptedOrder ==
  ASSUME Typed, ClientOrder, TransportInterrupted
  PROVE  ClientOrder'
<1>1. /\ UNCHANGED <<unconsumed, delivered, dhand, hand, audit, apc, previously>>
      /\ clearRequired' = TRUE /\ clearDelivered' = TRUE
      /\ queue' = queue \cup ToSet(inflight) /\ down' = <<>>
      /\ caught' = caught \cup Halfway
  BY DEF TransportInterrupted, kvars, lvars, tvars, dvars
<1>2. ToSet(down') = {}
  BY <1>1, EmptyList
<1>3. Sorted(unconsumed', caught') /\ Sorted(delivered', caught')
  BY <1>1, SortedLess DEF ClientOrder
<1>4. ASSUME NEW x \in Messages, NEW y \in Messages, x \notin caught', y \notin caught'
      PROVE  InOrder(x, y)'
  <2>1. InOrder(x, y) /\ x \notin Halfway /\ y \notin Halfway
    BY <1>1, <1>4 DEF ClientOrder
  <2>2. x # dhand /\ y # dhand /\ x # hand /\ y # hand
    BY <2>1 DEF Halfway
  <2>3. y \in ToSet(inflight) /\ y \notin audit => y \in Coming
    BY <2>1 DEF Halfway, Coming
  <2>4. y \in Coming' => y \in Coming \/ y \in ToSet(inflight)
    BY <1>1, <1>2 DEF Coming
  <2> QED BY <1>1, <1>2, <2>1, <2>2, <2>3, <2>4 DEF InOrder
<1>5. ASSUME apc' = "commit" PROVE ToSet(delivered') \subseteq caught'
  <2>1. ToSet(delivered) \subseteq Messages
    BY InList DEF Typed, TypeOK
  <2> QED BY <1>1, <1>5, <2>1 DEF Halfway
<1> QED BY <1>3, <1>4, <1>5 DEF ClientOrder

\* clearDeliveredList() leaves the list or empties it.
LEMMA ClearedSorted ==
  ASSUME Typed, ClearDeliveredList, Sorted(delivered, caught)
  PROVE  /\ Sorted(delivered', caught)
         /\ delivered' = delivered \/ delivered' = <<>>
         /\ clearDelivered /\ ~Transacted => delivered' = <<>>
  <1>1. delivered' = delivered \/ delivered' = <<>>
    BY DEF ClearDeliveredList
  <1>2. clearDelivered /\ ~Transacted => delivered' = <<>>
    BY DEF ClearDeliveredList
  <1> QED BY <1>1, <1>2, SortedEmpty

\* Steps that clear the list, and perhaps the channel.
LEMMA ClearedOrder ==
  ASSUME Typed, Knows, ClientOrder, ClearDeliveredList,
         UNCHANGED <<dhand, hand, queue, down, caught>>,
         apc' = "before" => apc = "before",
         \/ unconsumed' = <<>> /\ clearRequired
         \/ unconsumed' = unconsumed /\ clearRequired' = clearRequired,
         \A m \in audit : m \in audit' \/ m \in ToSet(unconsumed) \/ m \in Reopened
  PROVE  ClientOrder'
<1>1. /\ Sorted(delivered', caught) /\ (delivered' = delivered \/ delivered' = <<>>)
      /\ clearDelivered /\ ~Transacted => delivered' = <<>>
  BY ClearedSorted DEF ClientOrder
<1>2. /\ clearDelivered' = FALSE /\ ToSet(delivered') \subseteq ToSet(delivered)
      /\ \A m \in ToSet(delivered') : clearDelivered => previously'[m] = "pending"
      /\ \A m \in ToSet(delivered') : ~clearDelivered => previously'[m] = previously[m]
  BY ClearedList DEF Typed
<1>3. ToSet(<<>>) = {} /\ Sorted(<<>>, caught)
  BY EmptyList, SortedEmpty
<1>4. Sorted(unconsumed', caught') /\ Sorted(delivered', caught')
  BY <1>1, <1>3 DEF ClientOrder
<1>5. ToSet(unconsumed') \subseteq ToSet(unconsumed)
  BY <1>3
<1>6. \A m \in Reopened : ToSet(delivered') = {}
  BY <1>1, <1>3 DEF Reopened, Transacted
<1>7. Coming' = Coming
  BY DEF Coming
<1>8. ASSUME NEW x \in Messages, NEW y \in Messages, x \notin caught', y \notin caught'
      PROVE  InOrder(x, y)'
  <2>1. InOrder(x, y) /\ Known(x)
    BY <1>8 DEF ClientOrder, Knows
  <2>2. x \in ToSet(delivered') /\ y \in Coming' /\ y \notin audit' => x < y
    BY <1>2, <1>6, <1>7, <2>1 DEF InOrder
  <2>3. (x \in ToSet(unconsumed') \/ x = hand') /\ y \in Coming' => clearRequired' \/ x < y
    <3>1. CASE unconsumed' = <<>> /\ clearRequired
      BY <1>3, <2>1, <3>1 DEF Known
    <3>2. CASE unconsumed' = unconsumed /\ clearRequired' = clearRequired
      BY <1>7, <2>1, <3>2 DEF InOrder
    <3> QED BY <3>1, <3>2
  <2>4. x \in ToSet(delivered') /\ y \in Coming' =>
            previously'[x] = "pending" \/ clearDelivered' \/ x < y
    BY <1>2, <1>7, <2>1 DEF InOrder
  <2> QED BY <1>2, <1>5, <2>1, <2>2, <2>3, <2>4 DEF InOrder
<1> QED BY <1>2, <1>4, <1>8 DEF ClientOrder

\* ClearConsumerTask and dispatch(), and any entry into receive(), acknowledge(),
\* commit(), rollback() and recover().
LEMMA ClearOrder ==
  ASSUME Typed, Knows, ClientOrder,
         ClearConsumerTask \/ DispatchClear \/ Enters \/ AfterRollback
  PROVE  ClientOrder'
<1>1. CASE ClearConsumerTask \/ DispatchClear
  <2>1. UNCHANGED <<dhand, hand, queue, down, caught, apc>> /\ ClearMessagesInProgress
    BY <1>1 DEF ClearConsumerTask, DispatchClear, bvars, nvars, tvars, dvars, hvars
  <2>2. /\ ClearDeliveredList
        /\ \/ unconsumed' = <<>> /\ clearRequired
           \/ unconsumed' = unconsumed /\ clearRequired' = clearRequired
        /\ \A m \in audit : m \in audit' \/ m \in ToSet(unconsumed) \/ m \in Reopened
    BY <2>1 DEF ClearMessagesInProgress, Typed, TypeOK
  <2> QED BY <2>1, <2>2, ClearedOrder
<1>2. CASE Enters
  <2>1. /\ UNCHANGED <<dhand, hand, queue, down, caught, unconsumed, clearRequired>>
        /\ apc' # "before" /\ ClearDeliveredList /\ audit' = audit \ Reopened
    BY <1>2, EnterFacts DEF Enter, bvars, nvars, kvars, dvars, hvars
  <2> QED BY <2>1, ClearedOrder
<1>3. CASE AfterRollback
  <2>1. /\ UNCHANGED <<dhand, hand, queue, down, caught, unconsumed, clearRequired, audit>>
        /\ apc' # "before" /\ apc' # "commit"
    BY <1>3 DEF AfterRollback, bvars, kvars, dvars, hvars
  <2>2. ClearDeliveredList \/ UNCHANGED <<clearDelivered, delivered, previously>>
    BY <1>3 DEF AfterRollback
  <2>3. CASE ClearDeliveredList
    BY <2>1, <2>3, ClearedOrder
  <2>4. CASE UNCHANGED <<clearDelivered, delivered, previously>>
    <3>1. OrderFrame
      BY <2>1, <2>4 DEF OrderFrame, ClientOrder
    <3> QED BY <3>1, FrameOrder
  <2> QED BY <2>2, <2>3, <2>4
<1> QED BY <1>1, <1>2, <1>3

-----------------------------------------------------------------------------
(* The consumer keeps the order: steps that move a message *)

\* The dispatching thread takes the oldest message of the session's queue.
LEMMA DispatchTakeClientOrder ==
  ASSUME Typed, BrokerOrder, ClientOrder, DispatchTake
  PROVE  ClientOrder'
<1>1. /\ UNCHANGED <<unconsumed, delivered, hand, audit, apc, previously, clearRequired,
                     clearDelivered, queue, caught>>
      /\ dhand' = Head(down) /\ down' = Tail(down)
  BY DEF DispatchTake, bvars, kvars, lvars, fvars, tvars, hvars
<1>2. down # <<>> /\ down \in Seq(Messages)
  BY DEF DispatchTake, Typed, TypeOK
<1>3. ToSet(down) = {dhand'} \cup ToSet(down') /\ dhand' \in ToSet(down)
  BY <1>1, <1>2, HeadAndTail
<1>4. \A y \in ToSet(down') \cup queue' : dhand' < y
  BY <1>1, <1>2, <1>3, SortedTail DEF BrokerOrder
<1>5. \A y \in Coming' : y \in Coming
  BY <1>1, <1>3 DEF Coming
<1>6. ASSUME NEW x \in Messages, NEW y \in Messages, x \notin caught', y \notin caught'
      PROVE  InOrder(x, y)'
  <2>1. InOrder(x, y)
    BY <1>1, <1>6 DEF ClientOrder
  <2> QED BY <1>1, <1>4, <1>5, <2>1 DEF InOrder
<1> QED BY <1>1, <1>6 DEF ClientOrder

\* dispatch() puts a message behind those that are there, or marks it as come back.
LEMMA DispatchEnqueueOrder ==
  ASSUME Typed, Knows, ClientOrder, DispatchEnqueue
  PROVE  ClientOrder'
<1>1. /\ UNCHANGED <<delivered, hand, apc, clearRequired, clearDelivered, queue, down, caught>>
      /\ dhand' = 0
  BY DEF DispatchEnqueue, bvars, fvars, tvars, hvars
<1>2. /\ dhand \in Messages /\ unconsumed \in Seq(Messages) /\ Messages \subseteq Nat
      /\ 0 \notin Messages
  BY MessageFacts DEF DispatchEnqueue, Typed, TypeOK, Hands
<1>3. dhand \in Coming /\ (dhand \in caught \/ ~clearRequired)
  BY DEF Coming, DispatchEnqueue, Knows, Dispatched
<1>4. \A y \in Coming' \cap Messages : y \in Coming /\ (y \in queue \/ y \in ToSet(down))
  BY <1>1, <1>2 DEF Coming
<1>5. CASE dhand \notin audit
  <2>1. /\ unconsumed' = Append(unconsumed, dhand) /\ audit \subseteq audit'
        /\ previously' = previously
    BY <1>5 DEF DispatchEnqueue
  <2>2. ToSet(unconsumed') = ToSet(unconsumed) \cup {dhand}
    BY <1>2, <2>1, Appended
  <2>3. Sorted(unconsumed', caught)
    <3>1. \A y \in ToSet(unconsumed) : y \in Messages
      BY <1>2, InList
    <3>2. \A y \in ToSet(unconsumed) : y \notin caught /\ dhand \notin caught => y < dhand
      BY <1>2, <1>3, <3>1 DEF ClientOrder, InOrder
    <3> QED BY <1>2, <2>1, <3>2, SortedAppend DEF ClientOrder
  <2>4. ASSUME NEW x \in Messages, NEW y \in Messages, x \notin caught', y \notin caught'
        PROVE  InOrder(x, y)'
    <3>1. InOrder(x, y)
      BY <1>1, <2>4 DEF ClientOrder
    <3> QED BY <1>1, <1>2, <1>3, <1>4, <1>5, <2>1, <2>2, <2>4, <3>1 DEF InOrder
  <2> QED BY <1>1, <2>3, <2>4 DEF ClientOrder
<1>6. CASE dhand \in audit
  <2>1. /\ UNCHANGED <<unconsumed, audit>>
        /\ previously' = previously \/ previously' = [previously EXCEPT ![dhand] = "back"]
    BY <1>6 DEF DispatchEnqueue
  <2>2. \A m \in Messages : m # dhand => previously'[m] = previously[m]
    BY <2>1 DEF Typed, TypeOK
  <2>3. ASSUME NEW x \in Messages, NEW y \in Messages, x \notin caught', y \notin caught'
        PROVE  InOrder(x, y)'
    <3>1. InOrder(x, y)
      BY <1>1, <2>3 DEF ClientOrder
    <3> QED BY <1>1, <1>2, <1>4, <2>1, <2>2, <3>1 DEF InOrder
  <2> QED BY <1>1, <2>1, <2>3 DEF ClientOrder
<1> QED BY <1>5, <1>6

\* dequeue() takes the oldest message of the channel.
LEMMA DequeueOrder ==
  ASSUME Typed, ClientOrder, Dequeue
  PROVE  ClientOrder'
<1>1. /\ UNCHANGED <<delivered, dhand, audit, previously, clearRequired, clearDelivered, queue,
                     down>>
      /\ unconsumed' = Tail(unconsumed) /\ unconsumed # <<>> /\ unconsumed \in Seq(Messages)
      /\ apc' # "commit" /\ hand = 0
  BY DEF Dequeue, bvars, lvars, fvars, dvars, Typed, TypeOK, Hands
<1>2. /\ caught \subseteq caught'
      /\ (hand' = 0 /\ apc' # "before") \/ hand' = Head(unconsumed)
  BY <1>1 DEF Dequeue
<1>3. /\ ToSet(unconsumed) = {Head(unconsumed)} \cup ToSet(unconsumed')
      /\ Head(unconsumed) \in ToSet(unconsumed)
  BY <1>1, HeadAndTail
<1>4. /\ Sorted(unconsumed', caught)
      /\ \A y \in ToSet(unconsumed') : y \notin caught /\ Head(unconsumed) \notin caught =>
                                          Head(unconsumed) < y
  BY <1>1, SortedTail DEF ClientOrder
<1>5. Sorted(unconsumed', caught') /\ Sorted(delivered', caught')
  BY <1>1, <1>2, <1>4, SortedLess DEF ClientOrder
<1>6. Coming' = Coming
  BY <1>1 DEF Coming
<1>7. ASSUME NEW x \in Messages, NEW y \in Messages, x \notin caught', y \notin caught'
      PROVE  InOrder(x, y)'
  <2>1. InOrder(x, y) /\ x \notin caught /\ y \notin caught /\ x # 0 /\ y # 0
    BY <1>2, <1>7, MessageFacts DEF ClientOrder
  <2> QED BY <1>1, <1>2, <1>3, <1>4, <1>6, <2>1 DEF InOrder
<1> QED BY <1>1, <1>5, <1>7 DEF ClientOrder

\* beforeMessageIsConsumed() puts the message behind those delivered before.
LEMMA BeforeMessageIsConsumedOrder ==
  ASSUME Typed, Knows, ClientOrder, BeforeMessageIsConsumed
  PROVE  ClientOrder'
<1>1. /\ UNCHANGED <<unconsumed, dhand, hand, audit, previously, clearRequired, clearDelivered,
                     queue, down, caught>>
      /\ delivered' = Append(delivered, hand) /\ apc = "before" /\ apc' = "after"
  BY DEF BeforeMessageIsConsumed, bvars, nvars, kvars, fvars, dvars, hvars
<1>2. hand \in Messages /\ delivered \in Seq(Messages)
  BY <1>1, MessageFacts DEF Typed, TypeOK, Hands
<1>3. ToSet(delivered') = ToSet(delivered) \cup {hand}
  BY <1>1, <1>2, Appended
<1>4. Sorted(delivered', caught)
  <2>1. \A y \in ToSet(delivered) : y \in Messages
    BY <1>2, InList
  <2>2. \A y \in ToSet(delivered) : y \notin caught /\ hand \notin caught => y < hand
    BY <1>1, <1>2, <2>1 DEF ClientOrder, InOrder
  <2> QED BY <1>1, <1>2, <2>2, SortedAppend DEF ClientOrder
<1>5. hand \in caught \/ ~clearRequired
  BY <1>2 DEF Knows, Known
<1>6. Coming' = Coming
  BY <1>1 DEF Coming
<1>7. ASSUME NEW x \in Messages, NEW y \in Messages, x \notin caught', y \notin caught'
      PROVE  InOrder(x, y)'
  <2>1. InOrder(x, y)
    BY <1>1, <1>7 DEF ClientOrder
  <2> QED BY <1>1, <1>3, <1>5, <1>6, <1>7, <2>1 DEF InOrder
<1> QED BY <1>1, <1>4, <1>7 DEF ClientOrder

\* What a rollback puts back is all that was delivered and is not expected again.
LEMMA PutBackAll ==
  ASSUME Typed, NEW m \in ToSet(delivered), previously[m] # "pending"
  PROVE  m \in ToSet(KeepAt(delivered, PutBack))
<1>1. delivered \in Seq(Messages) /\ PutBack \subseteq 1..Len(delivered)
  BY DEF Typed, TypeOK, PutBack
<1>2. PICK i \in 1..Len(delivered) : delivered[i] = m
  BY <1>1, InList
<1>3. i \in PutBack
  BY <1>2 DEF PutBack, NotReplayed
<1>4. ToSet(KeepAt(delivered, PutBack)) = {delivered[j] : j \in PutBack}
  BY <1>1, Keeps
<1> QED BY <1>2, <1>3, <1>4

\* rollback() puts them back in front of the channel, or drops them.
LEMMA RollbackConsumerOrder ==
  ASSUME Typed, Knows, ClientOrder, RollbackConsumer
  PROVE  ClientOrder'
<1> DEFINE ms == KeepAt(delivered, PutBack)
<1>1. /\ UNCHANGED <<hand, dhand, clearRequired, clearDelivered, queue, down, caught>>
      /\ apc = "rollbackConsumer" /\ apc' = "idle" /\ delivered' = <<>>
  BY Zenon DEF RollbackConsumer, bvars, fvars, dvars
<1>2. IF ms # <<>> THEN Redeliver(ms) ELSE UNCHANGED <<redelivery, deliveredCounter, up, kvars>>
  BY Zenon DEF RollbackConsumer, PutBack
<1>3. /\ ms \in Seq(Messages) /\ unconsumed \in Seq(Messages) /\ delivered \in Seq(Messages)
      /\ ToSet(ms) \subseteq ToSet(delivered)
      /\ \A m : Once(delivered, m) /\ m \in ToSet(ms) => m \notin NotReplayed
  BY PutBackType DEF Typed, TypeOK
<1>4. Sorted(ms, caught)
  <2>1. PutBack \subseteq 1..Len(delivered)
    BY DEF PutBack
  <2> QED BY <1>3, <2>1, SortedKeep DEF ClientOrder
<1> HIDE DEF ms
<1>5. unconsumed' = unconsumed \/ unconsumed' = ms \o unconsumed
  BY <1>2 DEF Redeliver, kvars
<1>6. ToSet(ms) \subseteq Messages /\ ToSet(unconsumed) \subseteq Messages
  BY <1>3, InList
<1>7. Sorted(unconsumed', caught)
  <2>1. \A x \in ToSet(ms), y \in ToSet(unconsumed) : x \notin caught /\ y \notin caught => x < y
    BY <1>3, <1>6 DEF ClientOrder, InOrder
  <2> QED BY <1>3, <1>4, <1>5, <2>1, SortedJoin DEF ClientOrder
<1>8. ToSet(unconsumed') \subseteq ToSet(ms) \cup ToSet(unconsumed)
  <2>1. ToSet(ms \o unconsumed) = ToSet(ms) \cup ToSet(unconsumed)
    BY <1>3, Joined
  <2> QED BY <1>5, <2>1
<1>9. ToSet(delivered') = {} /\ Sorted(delivered', caught) /\ Coming' = Coming
  BY <1>1, EmptyList, SortedEmpty DEF Coming
<1>10. ASSUME NEW x \in Messages, NEW y \in Messages, x \notin caught', y \notin caught'
       PROVE  InOrder(x, y)'
  <2>1. InOrder(x, y) /\ Known(x) /\ (clearDelivered => clearRequired)
    BY <1>1, <1>10 DEF ClientOrder, Knows, Lists
  <2>2. hand = 0 /\ x # 0
    BY <1>1, <1>10, MessageFacts DEF Typed, Hands
  <2>3. x \in ToSet(ms) => previously[x] # "pending"
    BY <1>3, <1>10, <2>1 DEF Known, NotReplayed
  <2> QED BY <1>1, <1>3, <1>8, <1>9, <2>1, <2>2, <2>3 DEF InOrder
<1> QED BY <1>1, <1>7, <1>9, <1>10 DEF ClientOrder

\* Initially there are no messages with the consumer.
LEMMA InitClientOrder == ASSUME Init PROVE ClientOrder
<1>1. /\ unconsumed = <<>> /\ delivered = <<>> /\ ToSet(<<>>) = {} /\ Sorted(<<>>, caught)
      /\ hand = 0 /\ dhand = 0 /\ 0 \notin Messages
  BY EmptyList, SortedEmpty, MessageFacts DEF Init
<1>2. ASSUME NEW x \in Messages, NEW y \in Messages PROVE InOrder(x, y)
  BY <1>1 DEF InOrder
<1> QED BY <1>1, <1>2 DEF ClientOrder

\* Every step keeps the order of the consumer's messages.
LEMMA ClientOrderStep ==
  ASSUME Typed, Knows, BrokerOrder, ClientOrder, [Next]_vars
  PROVE  ClientOrder'
<1>1. CASE Receive
  BY <1>1, ClearOrder, DequeueOrder, BeforeMessageIsConsumedOrder, StepsFrameOrder, SettleFrame,
     FrameOrder DEF Receive, Enters
<1>2. CASE Settle
  BY <1>2, ClearOrder, SettleFrame, StepsFrameOrder, FrameOrder, RollbackConsumerOrder
     DEF Settle, Enters
<1>3. CASE Undo
  BY <1>3, ClearOrder DEF Undo, Enters
<1>4. CASE DispatchStep
  BY <1>4, DispatchTakeClientOrder, ClearOrder, DispatchEnqueueOrder DEF DispatchStep
<1>5. CASE Scheduler \/ Broker
  BY <1>5, ClearOrder, StepsFrameOrder, BrokerDispatchFrame, FrameOrder DEF Scheduler, Broker
<1>6. CASE TransportInterrupted \/ Restore \/ UNCHANGED vars
  BY <1>6, TransportInterruptedOrder, StepsFrameOrder, FrameOrder
<1> QED BY <1>1, <1>2, <1>3, <1>4, <1>5, <1>6 DEF Next

-----------------------------------------------------------------------------
(* The commands of a transaction *)

Ending == {"sendCommit", "awaitCommit", "sendRollback", "awaitRollback"}
Waiting == {"awaitCommit", "awaitRollback"}
AckTypes == {"CONSUMED", "INDIVIDUAL"}
EndTypes == {"COMMIT", "ROLLBACK"}

\* No message is acknowledged in the transaction, or about to be.
Quiet == brokerTx = {} /\ \A i \in 1..Len(up) : up[i].type \notin AckTypes

\* Command i ends the transaction that a thread waits for; no ack comes after it.
EndsWell(i) ==
    up[i].type \in EndTypes =>
        /\ reply = "none"
        /\ apc = IF up[i].type = "COMMIT" THEN "awaitCommit" ELSE "awaitRollback"
        /\ \A j \in 1..Len(up) : i < j => up[j].type \notin EndTypes \cup AckTypes

\* Only commit() and rollback() acknowledge in a transaction, between the ends of it.
Protocol ==
    /\ apc \in Ending \cup {"commit", "commitFails", "rollback"} => Transacted
    /\ apc = "acknowledge" => mode = "client"
    /\ apc = "remove" => mode = "individual"
    /\ Transacted /\ apc \notin Ending => Quiet
    /\ reply # "none" => Quiet /\ apc \in Waiting /\ connected
    /\ tracked = "COMMIT" => apc = "awaitCommit"
    /\ tracked = "ROLLBACK" => apc = "awaitRollback"
    /\ \A i \in 1..Len(up) : EndsWell(i)

\* Steps that send nothing of the kind and do not end a transaction.
ProtocolFrame ==
    /\ Grown(Harmless) /\ UNCHANGED <<brokerTx, mode, reply, connected>>
    /\ tracked' = tracked \/ tracked' = "BEGIN"
    /\ \/ apc' = apc
       \/ /\ apc \notin Ending /\ apc' \notin Ending \cup {"remove"}
          /\ apc' \in {"commit", "commitFails", "rollback"} => Transacted
          /\ apc' = "acknowledge" => mode = "client"

\* Such steps keep the protocol.
LEMMA FrameProtocol == ASSUME Typed, Protocol, ProtocolFrame PROVE Protocol'
<1>1. Len(up) \in Nat /\ Len(up') \in Nat
  BY DEF Typed, TypeOK, ProtocolFrame, Grown
<1>2. /\ \A i \in 1..Len(up') : i > Len(up) => up'[i].type \notin AckTypes \cup EndTypes
      /\ \A i \in 1..Len(up) : up'[i] = up[i]
  BY DEF ProtocolFrame, Grown, Harmless, AckTypes, EndTypes
<1>3. Quiet => Quiet'
  BY <1>1, <1>2 DEF Quiet, ProtocolFrame
<1>4. ASSUME NEW i \in 1..Len(up') PROVE EndsWell(i)'
  <2>1. SUFFICES ASSUME up'[i].type \in EndTypes PROVE EndsWell(i)'
    BY DEF EndsWell
  <2>2. i \in 1..Len(up) /\ up[i] = up'[i]
    BY <1>1, <1>2, <2>1
  <2>3. EndsWell(i) /\ up[i].type \in EndTypes
    BY <2>1, <2>2 DEF Protocol
  <2>4. apc \in Ending
    BY <2>3 DEF EndsWell, Ending, EndTypes
  <2>5. apc' = apc /\ reply' = reply
    BY <2>4 DEF ProtocolFrame
  <2>6. \A j \in 1..Len(up') : i < j => up'[j].type \notin EndTypes \cup AckTypes
    <3> SUFFICES ASSUME NEW j \in 1..Len(up'), i < j PROVE up'[j].type \notin EndTypes \cup AckTypes
      OBVIOUS
    <3>1. CASE j \in 1..Len(up)
      BY <1>2, <2>3, <3>1 DEF EndsWell
    <3>2. CASE j > Len(up)
      BY <1>2, <3>2
    <3> QED BY <1>1, <3>1, <3>2
  <2> QED BY <2>2, <2>3, <2>5, <2>6 DEF EndsWell
<1>5. reply' # "none" => Quiet' /\ apc' \in Waiting /\ connected'
  BY <1>3 DEF Protocol, ProtocolFrame, Waiting, Ending
<1> QED BY <1>3, <1>4, <1>5 DEF Protocol, ProtocolFrame, Ending, Transacted

\* The broker's dispatch, the scheduler, dispatch(), and most of receive() and rollback().
LEMMA StepsFrameProtocol ==
  ASSUME Typed, Protocol,
         \/ BrokerDispatch \/ ClearConsumerTask \/ StartConsumerTask \/ DispatchTake
         \/ DispatchClear \/ DispatchEnqueue \/ Dequeue \/ BeforeMessageIsConsumed
         \/ ReceiveTransacted \/ ReceiveManual \/ ReceiveNothing \/ Enters
         \/ RollbackConsumer \/ RemoveAcknowledged \/ UNCHANGED vars
  PROVE  ProtocolFrame
<1> USE DEF ProtocolFrame, Ending
<1>1. Grown(Harmless) /\ connected' = connected
  BY CalmSteps
<1>2. CASE BrokerDispatch \/ ClearConsumerTask \/ StartConsumerTask
  BY <1>1, <1>2 DEF BrokerDispatch, ClearConsumerTask, StartConsumerTask, cvars, bvars, nvars, tvars
<1>3. CASE DispatchTake \/ DispatchClear \/ DispatchEnqueue
  BY <1>1, <1>3 DEF DispatchTake, DispatchClear, DispatchEnqueue, cvars, bvars, nvars, tvars
<1>4. CASE Dequeue \/ BeforeMessageIsConsumed \/ ReceiveNothing \/ RemoveAcknowledged
  BY <1>1, <1>4 DEF Dequeue, BeforeMessageIsConsumed, ReceiveNothing, RemoveAcknowledged, cvars,
                    bvars, nvars
<1>5. CASE ReceiveTransacted \/ ReceiveManual
  BY <1>1, <1>5 DEF ReceiveTransacted, ReceiveManual, ReceiveReturns, cvars, bvars
<1>6. CASE Enters
  <2>1. /\ UNCHANGED <<mode, brokerTx, reply, tracked>> /\ apc \notin Ending
        /\ apc' \in {"dequeue", "acknowledge", "commit", "rollback", "rollbackConsumer"}
    BY <1>6, EnterFacts DEF Enter, cvars, bvars, nvars
  <2>2. /\ apc' \in {"commit", "rollback"} => Transacted
        /\ apc' = "acknowledge" => mode = "client"
    BY <1>6 DEF Enters, SendPullRequest, Acknowledge, Commit, CommitAgain, Rollback, CommitFails,
                Recover, Enter, Protocol
  <2> QED BY <1>1, <2>1, <2>2
<1>8. CASE RollbackConsumer
  <2>1. UNCHANGED <<brokerTx, mode, reply, tracked>> /\ apc = "rollbackConsumer" /\ apc' = "idle"
    BY <1>8, Zenon DEF RollbackConsumer, cvars, bvars
  <2> QED BY <1>1, <2>1
<1>9. CASE UNCHANGED vars
  BY <1>1, <1>9 DEF vars, cvars, bvars, nvars, tvars
<1> QED BY <1>2, <1>3, <1>4, <1>5, <1>6, <1>8, <1>9

\* commit() or rollback() has its answer.
LEMMA AnsweredProtocol ==
  ASSUME Typed, Protocol, AfterCommit \/ CommitInDoubt \/ AfterRollback
  PROVE  Protocol'
<1>1. /\ UNCHANGED <<up, brokerTx, mode, connected>> /\ reply' = "none" /\ tracked' = "none"
      /\ apc' \in {"idle", "rollbackConsumer"} /\ reply # "none"
  BY DEF AfterCommit, CommitInDoubt, AfterRollback, cvars, bvars
<1>2. Quiet
  BY <1>1 DEF Protocol
<1>3. Quiet'
  BY <1>1, <1>2 DEF Quiet
<1>4. \A i \in 1..Len(up) : up[i].type \notin EndTypes
  BY <1>1 DEF Protocol, EndsWell
<1>5. \A i \in 1..Len(up') : EndsWell(i)'
  BY <1>1, <1>4 DEF EndsWell
<1> QED BY <1>1, <1>3, <1>5 DEF Protocol, Ending

\* A session that is not transacted acknowledges.
LEMMA AcknowledgedProtocol ==
  ASSUME Typed, Typed', Protocol,
         \/ ReceiveAuto \/ AcknowledgeSection \/ \E m \in Messages : AcknowledgeOne(m)
  PROVE  Protocol'
<1>1. /\ UNCHANGED <<mode, reply, tracked, connected>> /\ apc' \in {"idle", "remove"}
      /\ ~Transacted /\ (apc' = "remove" => mode = "individual")
  BY DEF ReceiveAuto, ReceiveReturns, AcknowledgeSection, AcknowledgeOne, cvars, tvars, Protocol,
         Transacted
<1>2. /\ \A i \in 1..Len(up) : up'[i] = up[i]
      /\ \A i \in 1..Len(up') : i > Len(up) => up'[i].type \notin EndTypes
  <2>1. CASE ReceiveAuto \/ AcknowledgeSection
    <3>1. Ack("CONSUMED", Head(delivered), Last(delivered)).type \notin EndTypes
      BY DEF Ack, EndTypes
    <3>2. CASE up' = up
      BY <3>2 DEF Typed, TypeOK
    <3>3. CASE Grown({Ack("CONSUMED", Head(delivered), Last(delivered))})
      BY <3>1, <3>3 DEF Grown
    <3> QED BY <2>1, <3>2, <3>3, AckSteps
  <2>2. ASSUME NEW m \in Messages, AcknowledgeOne(m)
        PROVE  /\ \A i \in 1..Len(up) : up'[i] = up[i]
               /\ \A i \in 1..Len(up') : i > Len(up) => up'[i].type \notin EndTypes
    <3>1. Ack("INDIVIDUAL", m, m).type \notin EndTypes
      BY DEF Ack, EndTypes
    <3>2. Grown({Ack("INDIVIDUAL", m, m)})
      BY <2>2, AckOneStep
    <3> QED BY <3>1, <3>2 DEF Grown
  <2> QED BY <2>1, <2>2
<1>3. apc \notin Ending
  BY <1>1 DEF Protocol
<1>4. \A i \in 1..Len(up) : up[i].type \notin EndTypes
  BY <1>3 DEF Protocol, EndsWell, Ending, EndTypes
<1>5. \A i \in 1..Len(up') : up'[i].type \notin EndTypes
  <2>1. Len(up) \in Nat /\ Len(up') \in Nat
    <3>1. up \in Seq(Commands)
      BY DEF Typed, TypeOK
    <3>2. up' \in Seq(Commands)
      BY DEF Typed, TypeOK
    <3> QED BY <3>1, <3>2
  <2> QED BY <1>2, <1>4, <2>1
<1>6. \A i \in 1..Len(up') : EndsWell(i)'
  BY <1>5 DEF EndsWell
<1>7. reply = "none" /\ tracked # "COMMIT" /\ tracked # "ROLLBACK"
  BY <1>3 DEF Protocol, Waiting, Ending
<1> QED BY <1>1, <1>6, <1>7 DEF Protocol, Ending, Transacted

\* commit() and rollback() acknowledge before they end the transaction.
LEMMA BeforeEndProtocol ==
  ASSUME Typed, Typed', Protocol, BeforeEnd
  PROVE  Protocol'
<1>1. /\ UNCHANGED <<mode, reply, connected, brokerTx>> /\ tracked' \in {tracked, "BEGIN"}
      /\ apc \in {"commit", "rollback"}
      /\ \/ apc' \in {"sendCommit", "sendRollback"}
         \/ apc' \in {"commitFails", "idle"} /\ up' = up
  <2>1. /\ UNCHANGED <<mode, reply, connected, brokerTx>> /\ tracked' \in {tracked, "BEGIN"}
        /\ apc \in {"commit", "rollback"}
    BY DEF BeforeEnd, cvars, bvars
  <2>2. \/ apc' \in {"sendCommit", "sendRollback"}
        \/ apc' = "commitFails" /\ Throws
        \/ apc' = "idle" /\ ~inTransaction'
    BY DEF BeforeEnd
  <2>3. Throws \/ ~inTransaction' => ~Acknowledges
    BY DEF BeforeEnd, Throws, Acknowledges
  <2> QED BY <2>1, <2>2, <2>3, EndAckStep
<1>2. Transacted /\ apc \notin Ending /\ Quiet
  BY <1>1 DEF Protocol, Ending
<1>3. \A i \in 1..Len(up') : up'[i].type \notin EndTypes
  <2>1. /\ Ack("CONSUMED", Head(delivered), Last(delivered)).type \notin EndTypes
        /\ TxCommand("BEGIN").type \notin EndTypes
    BY DEF Ack, TxCommand, EndTypes
  <2>2. \A i \in 1..Len(up) : up[i].type \notin EndTypes
    BY <1>2 DEF Protocol, EndsWell, Ending, EndTypes
  <2>3. Len(up) \in Nat /\ Len(up') \in Nat
    <3>1. up \in Seq(Commands)
      BY DEF Typed, TypeOK
    <3>2. up' \in Seq(Commands)
      BY DEF Typed, TypeOK
    <3> QED BY <3>1, <3>2
  <2>4. CASE up' = up
    BY <2>2, <2>4
  <2>5. CASE Grown({TxCommand("BEGIN"), Ack("CONSUMED", Head(delivered), Last(delivered))})
    <3>1. /\ \A i \in 1..Len(up) : up'[i] = up[i]
          /\ \A i \in 1..Len(up') : i > Len(up) => up'[i].type \notin EndTypes
      BY <2>1, <2>5 DEF Grown
    <3> QED BY <2>2, <2>3, <3>1
  <2> QED BY <2>4, <2>5, EndAckStep
<1>4. \A i \in 1..Len(up') : EndsWell(i)'
  BY <1>3 DEF EndsWell
<1>5. reply = "none" /\ tracked # "COMMIT" /\ tracked # "ROLLBACK"
  BY <1>2 DEF Protocol, Waiting, Ending
<1>6. apc' \in Ending \/ Quiet'
  BY <1>1, <1>2 DEF Ending, Quiet
<1> QED BY <1>1, <1>2, <1>4, <1>5, <1>6 DEF Protocol, Ending, Transacted

\* The end of the transaction is sent.
LEMMA SendEndProtocol ==
  ASSUME Typed, Protocol, SendCommit \/ SendRollback
  PROVE  Protocol'
<1>1. /\ UNCHANGED <<mode, reply, brokerTx>> /\ apc \in {"sendCommit", "sendRollback"}
      /\ IF SendCommit THEN apc' = "awaitCommit" /\ tracked' = "COMMIT"
         ELSE apc' = "awaitRollback" /\ tracked' = "ROLLBACK"
  BY DEF SendCommit, SendRollback, SendEnd, cvars, bvars
<1>2. /\ up' \in Seq(Commands) /\ Len(up') = Len(up) + 1 /\ Len(up) \in Nat
      /\ \A i \in 1..Len(up) : up'[i] = up[i]
      /\ up'[Len(up) + 1].type = IF SendCommit THEN "COMMIT" ELSE "ROLLBACK"
  BY EndSteps DEF Typed, TypeOK
<1>3. \A i \in 1..Len(up) : up[i].type \notin EndTypes
  BY <1>1 DEF Protocol, EndsWell, EndTypes
<1>4. Transacted /\ reply = "none"
  BY <1>1 DEF Protocol, Ending, Waiting
<1>5. ASSUME NEW i \in 1..Len(up') PROVE EndsWell(i)'
  <2>1. CASE i \in 1..Len(up)
    BY <1>2, <1>3, <2>1 DEF EndsWell
  <2>2. CASE i = Len(up) + 1
    <3>1. \A j \in 1..Len(up') : ~(i < j)
      BY <1>2, <2>2
    <3> QED BY <1>1, <1>2, <1>4, <2>2, <3>1 DEF EndsWell
  <2> QED BY <1>2, <2>1, <2>2
<1> QED BY <1>1, <1>4, <1>5 DEF Protocol, Ending, Transacted

\* The broker takes a command.
LEMMA BrokerProcessProtocol ==
  ASSUME Typed, Protocol, BrokerProcess
  PROVE  Protocol'
<1> DEFINE c == Head(up)
<1>1. UNCHANGED <<mode, tracked, apc>>
  BY DEF BrokerProcess, cvars, tvars
<1>2. connected' /\ up # <<>> /\ up' = Tail(up) /\ Takes(c) /\ c \in Commands
  BY BrokerTakes
<1>3. /\ up \in Seq(Commands) /\ Len(up') + 1 = Len(up) /\ c = up[1] /\ 1 \in 1..Len(up)
      /\ Len(up') \in Nat
      /\ \A i \in 1..Len(up') : up'[i] = up[i + 1] /\ i + 1 \in 1..Len(up)
  <2>1. up \in Seq(Commands)
    BY DEF Typed, TypeOK
  <2> QED BY <1>2, <2>1
<1> HIDE DEF c
<1>4. CASE c.type \in EndTypes
  <2>1. EndsWell(1) /\ up[1].type \in EndTypes
    BY <1>3, <1>4 DEF Protocol
  <2>2. brokerTx' = {} /\ apc \in Waiting
    BY <1>2, <1>4, <2>1 DEF Takes, EndTypes, EndsWell, Waiting
  <2>3. \A i \in 1..Len(up') : up'[i].type \notin EndTypes \cup AckTypes
    <3> SUFFICES ASSUME NEW i \in 1..Len(up') PROVE up'[i].type \notin EndTypes \cup AckTypes
      OBVIOUS
    <3>1. 1 < i + 1 /\ i + 1 \in 1..Len(up) /\ up'[i] = up[i + 1]
      BY <1>3
    <3> QED BY <2>1, <3>1 DEF EndsWell
  <2>4. Quiet'
    BY <2>2, <2>3 DEF Quiet
  <2>5. \A i \in 1..Len(up') : EndsWell(i)'
    BY <2>3 DEF EndsWell
  <2> QED BY <1>1, <1>2, <2>2, <2>4, <2>5 DEF Protocol, Transacted
<1>5. CASE c.type \notin EndTypes
  <2>1. reply' = reply
    BY <1>2, <1>5 DEF Takes, EndTypes
  <2>2. Quiet => Quiet'
    <3>1. Quiet => c.type \notin AckTypes
      BY <1>3 DEF Quiet
    <3>2. Quiet => brokerTx' = {}
      BY <1>2, <1>5, <3>1 DEF Takes, Quiet, AckTypes, EndTypes
    <3> QED BY <1>3, <3>2 DEF Quiet
  <2>3. ASSUME NEW i \in 1..Len(up') PROVE EndsWell(i)'
    <3>1. EndsWell(i + 1) /\ up'[i] = up[i + 1]
      BY <1>3 DEF Protocol
    <3>2. \A j \in 1..Len(up') : i < j => i + 1 < j + 1 /\ j + 1 \in 1..Len(up) /\ up'[j] = up[j + 1]
      BY <1>3
    <3> QED BY <1>1, <2>1, <3>1, <3>2 DEF EndsWell
  <2> QED BY <1>1, <1>2, <2>1, <2>2, <2>3 DEF Protocol, Transacted
<1> QED BY <1>4, <1>5

\* The connection is lost, and with it what was on its way.
LEMMA TransportInterruptedProtocol ==
  ASSUME Typed, Protocol, TransportInterrupted
  PROVE  Protocol'
<1>1. /\ UNCHANGED <<mode, tracked, apc>> /\ up' = <<>> /\ brokerTx' = {} /\ reply' = "none"
  BY DEF TransportInterrupted, cvars, tvars
<1>2. 1..Len(up') = {}
  BY <1>1
<1>3. Quiet'
  BY <1>1, <1>2 DEF Quiet
<1> QED BY <1>1, <1>2, <1>3 DEF Protocol, Transacted

\* A restored connection gets the transaction without its acks.
LEMMA RestoreProtocol ==
  ASSUME Typed, BrokerOrder, Protocol, Restore
  PROVE  Protocol'
<1> DEFINE b == TxCommand("BEGIN")
           r == TxCommand("ROLLBACK")
<1>1. UNCHANGED <<mode, apc, brokerTx>> /\ ~connected /\ connected'
  BY DEF Restore, cvars, bvars, tvars
<1>2. brokerTx = {} /\ reply = "none"
  BY <1>1 DEF BrokerOrder, Protocol
<1>3. /\ b.type = "BEGIN" /\ r.type = "ROLLBACK"
      /\ "BEGIN" \notin AckTypes \cup EndTypes /\ "ROLLBACK" \notin AckTypes
  BY DEF TxCommand, AckTypes, EndTypes
<1>4. /\ \/ up' = <<>> \/ up' = <<b>>
         \/ tracked = "ROLLBACK" /\ up' = <<b, r>>
      /\ tracked' = tracked \/ tracked' = "none"
      /\ reply' = reply \/ (reply' = "failed" /\ tracked = "COMMIT")
      /\ reply' # reply => tracked = "COMMIT" /\ up' = <<>>
  <2>1. tracked \in {"none", "BEGIN", "COMMIT", "ROLLBACK"}
    BY DEF Typed, TypeOK
  <2>2. CASE tracked = "none"
    BY <2>2 DEF Restore, DoRestoreTransactions
  <2>3. CASE tracked = "BEGIN"
    BY <2>3 DEF Restore, DoRestoreTransactions
  <2>4. CASE tracked = "COMMIT"
    BY <2>4 DEF Restore, DoRestoreTransactions
  <2>5. CASE tracked = "ROLLBACK"
    BY <2>5 DEF Restore, DoRestoreTransactions
  <2> QED BY <2>1, <2>2, <2>3, <2>4, <2>5
<1> HIDE DEF b, r
<1>5. /\ \A i \in 1..Len(up') : up'[i] = b \/ up'[i] = r
      /\ \A i \in 1..Len(up') : up'[i] = r /\ r # b => i = 2 /\ Len(up') = 2 /\ tracked = "ROLLBACK"
  <2>1. CASE up' = <<>>
    BY <2>1
  <2>2. CASE up' = <<b>>
    BY <2>2
  <2>3. CASE up' = <<b, r>> /\ tracked = "ROLLBACK"
    BY <2>3
  <2> QED BY <1>4, <2>1, <2>2, <2>3
<1>6. Quiet'
  BY <1>1, <1>2, <1>3, <1>5 DEF Quiet
<1>7. ASSUME NEW i \in 1..Len(up') PROVE EndsWell(i)'
  <2>1. SUFFICES ASSUME up'[i].type \in EndTypes PROVE EndsWell(i)'
    BY DEF EndsWell
  <2>2. r # b /\ up'[i] = r
    BY <1>3, <1>5, <2>1
  <2>3. i = 2 /\ Len(up') = 2 /\ tracked = "ROLLBACK" /\ up'[i].type = "ROLLBACK"
    BY <1>3, <1>5, <2>2
  <2>4. reply' = "none" /\ apc' = "awaitRollback"
    BY <1>1, <1>2, <1>4, <2>3 DEF Protocol
  <2>5. \A j \in 1..Len(up') : ~(i < j)
    BY <2>3
  <2> QED BY <2>3, <2>4, <2>5 DEF EndsWell
<1>8. reply' # "none" => apc' \in Waiting
  BY <1>1, <1>2, <1>4 DEF Protocol, Waiting
<1>9. (tracked' = "COMMIT" => apc' = "awaitCommit") /\ (tracked' = "ROLLBACK" => apc' = "awaitRollback")
  BY <1>1, <1>4 DEF Protocol
<1> QED BY <1>1, <1>6, <1>7, <1>8, <1>9 DEF Protocol, Transacted

\* Initially nothing is sent.
LEMMA InitProtocol == ASSUME Init PROVE Protocol
<1>1. /\ up = <<>> /\ brokerTx = {} /\ apc = "idle" /\ reply = "none" /\ tracked = "none"
  BY DEF Init
<1>2. 1..Len(up) = {}
  BY <1>1
<1> QED BY <1>1, <1>2 DEF Protocol, Quiet, Ending

\* Every step keeps the protocol.
LEMMA ProtocolStep ==
  ASSUME Typed, Typed', BrokerOrder, Protocol, [Next]_vars
  PROVE  Protocol'
<1>1. CASE Receive
  BY <1>1, StepsFrameProtocol, FrameProtocol, AcknowledgedProtocol DEF Receive, Enters
<1>2. CASE Settle
  BY <1>2, StepsFrameProtocol, FrameProtocol, AcknowledgedProtocol, BeforeEndProtocol,
     SendEndProtocol, AnsweredProtocol DEF Settle, Enters
<1>3. CASE Undo
  BY <1>3, StepsFrameProtocol, FrameProtocol DEF Undo, Enters
<1>4. CASE DispatchStep \/ Scheduler
  BY <1>4, StepsFrameProtocol, FrameProtocol DEF DispatchStep, Scheduler
<1>5. CASE Broker
  BY <1>5, StepsFrameProtocol, FrameProtocol, BrokerProcessProtocol DEF Broker
<1>6. CASE TransportInterrupted \/ Restore \/ UNCHANGED vars
  BY <1>6, TransportInterruptedProtocol, RestoreProtocol, StepsFrameProtocol, FrameProtocol
<1> QED BY <1>1, <1>2, <1>3, <1>4, <1>5, <1>6 DEF Next

-----------------------------------------------------------------------------
(* What an open transaction expects to come back *)

\* Only a transacted session waits for messages, and they are delivered ones.
Expected == \A m \in Messages : previously[m] # "no" => Transacted /\ m \in ToSet(delivered)

\* clearDeliveredList() expects what is delivered.
LEMMA ClearedExpected ==
  ASSUME Typed, Expected, ClearDeliveredList, mode' = mode
  PROVE  Expected'
<1>1. ToSet(delivered) \subseteq Messages
  BY InList DEF Typed, TypeOK
<1>2. CASE clearDelivered /\ delivered # <<>> /\ Transacted
  BY <1>1, <1>2 DEF ClearDeliveredList, Expected, Transacted
<1>3. CASE clearDelivered /\ delivered # <<>> /\ ~Transacted
  BY <1>3 DEF ClearDeliveredList, Expected, Transacted
<1>4. CASE ~(clearDelivered /\ delivered # <<>>)
  BY <1>4 DEF ClearDeliveredList, Expected, Transacted
<1> QED BY <1>2, <1>3, <1>4

\* Every step keeps it.
LEMMA ExpectedStep ==
  ASSUME Typed, Protocol, Expected, [Next]_vars
  PROVE  Expected'
<1>1. CASE \/ BrokerProcess \/ BrokerDispatch \/ Restore \/ StartConsumerTask \/ DispatchTake
           \/ TransportInterrupted \/ ReceiveNothing \/ CommitInDoubt \/ UNCHANGED vars
  <2>1. UNCHANGED <<delivered, previously, mode>>
    BY <1>1 DEF BrokerProcess, BrokerDispatch, Restore, StartConsumerTask, DispatchTake,
                TransportInterrupted, ReceiveNothing, CommitInDoubt, vars, cvars, lvars
  <2> QED BY <2>1 DEF Expected, Transacted
<1>2. CASE \/ SendCommit \/ SendRollback \/ BeforeEnd \/ ReceiveTransacted \/ ReceiveManual
           \/ Dequeue
  <2>1. UNCHANGED <<delivered, previously, mode>>
    BY <1>2 DEF SendCommit, SendRollback, SendEnd, BeforeEnd, ReceiveTransacted, ReceiveManual,
                Dequeue, cvars, lvars
  <2> QED BY <2>1 DEF Expected, Transacted
<1>3. CASE DispatchEnqueue
  <2>1. /\ UNCHANGED <<delivered, mode>>
        /\ \/ previously' = previously
           \/ /\ previously[dhand] # "no"
              /\ previously' = [previously EXCEPT ![dhand] = "back"]
    BY <1>3 DEF DispatchEnqueue, cvars
  <2>2. \A m \in Messages : previously'[m] # "no" => previously[m] # "no"
    BY <2>1 DEF Typed, TypeOK
  <2> QED BY <2>1, <2>2 DEF Expected, Transacted
<1>4. CASE BeforeMessageIsConsumed
  <2>1. /\ UNCHANGED <<previously, mode>> /\ delivered' = Append(delivered, hand)
        /\ delivered \in Seq(Messages) /\ hand \in Messages
    BY <1>4, MessageFacts DEF BeforeMessageIsConsumed, cvars, Typed, TypeOK, Hands
  <2>2. ToSet(delivered) \subseteq ToSet(delivered')
    BY <2>1, Appended
  <2> QED BY <2>1, <2>2 DEF Expected, Transacted
<1>5. CASE ReceiveAuto \/ AcknowledgeSection \/ RemoveAcknowledged
  <2>1. UNCHANGED <<previously, mode>> /\ ~Transacted
    BY <1>5 DEF ReceiveAuto, AcknowledgeSection, RemoveAcknowledged, cvars, Protocol, Transacted
  <2> QED BY <2>1 DEF Expected, Transacted
<1>6. CASE AfterCommit \/ RollbackConsumer
  <2>1. /\ mode' = mode
        /\ \/ previously' = [m \in Messages |-> "no"]
           \/ UNCHANGED <<delivered, previously>>
    BY <1>6, Zenon DEF AfterCommit, RollbackConsumer, cvars
  <2> QED BY <2>1 DEF Expected, Transacted
<1>7. CASE ClearConsumerTask \/ DispatchClear \/ Enters
  <2>1. ClearDeliveredList /\ mode' = mode
    BY <1>7, EnterFacts DEF ClearConsumerTask, DispatchClear, ClearMessagesInProgress, Enter, cvars
  <2> QED BY <2>1, ClearedExpected
<1>8. CASE AfterRollback
  <2>1. mode' = mode /\ (ClearDeliveredList \/ UNCHANGED <<delivered, previously>>)
    BY <1>8 DEF AfterRollback, cvars
  <2>2. CASE UNCHANGED <<delivered, previously>>
    BY <2>1, <2>2 DEF Expected, Transacted
  <2> QED BY <2>1, <2>2, ClearedExpected
<1>9. CASE \E m \in Messages : AcknowledgeOne(m)
  <2>1. UNCHANGED <<delivered, previously, mode>>
    BY <1>9 DEF AcknowledgeOne, cvars, lvars
  <2> QED BY <2>1 DEF Expected, Transacted
<1> QED BY <1>1, <1>2, <1>3, <1>4, <1>5, <1>6, <1>7, <1>8, <1>9
        DEF Next, Receive, Settle, Undo, DispatchStep, Scheduler, Broker, Enters

\* Initially nothing is expected.
LEMMA InitExpected == ASSUME Init PROVE Expected
BY DEF Init, Expected

-----------------------------------------------------------------------------
(* Where the messages in flight are *)

OnTheWay == ToSet(down) \cup {dhand}
Poison(m) == Ack("POISON", m, m)
Refused(m) == \E i \in 1..Len(up) : up[i] = Poison(m)

\* Message y is with the consumer, or will be.
Ahead(y) == y \in ToSet(delivered) \/ y = hand \/ y \in ToSet(unconsumed) \/ y \in Coming

\* Message m is older than all of these.
Gone(m) == \A y \in Messages \ caught : Ahead(y) => m < y

\* A message in flight is on its way, with the consumer, settled, or refused; or a
\* rollback has dropped it, and the consumer has only newer ones.
Account(m) ==
    /\ m \in OnTheWay \/ Located(m) \/ Refused(m) \/ Gone(m)
    /\ clearRequired => m \in OnTheWay
    /\ m \in ToSet(delivered) /\ previously[m] = "pending" => m \in OnTheWay

Accounted == \A m \in Messages \ caught : m \in ToSet(inflight) => Account(m)

\* Steps after which a message is where it was, and no other is with the consumer.
AccountFrame ==
    /\ caught \subseteq caught'
    /\ ToSet(inflight') \subseteq ToSet(inflight)
    /\ clearRequired' => clearRequired
    /\ \A m \in Messages \ caught' :
          /\ m \in OnTheWay => m \in OnTheWay'
          /\ Located(m) => Located(m)'
          /\ m \in ToSet(inflight') /\ Refused(m) => Refused(m)'
          /\ Ahead(m)' => Ahead(m)
          /\ m \in ToSet(delivered') /\ previously'[m] = "pending" =>
                m \in ToSet(delivered) /\ previously[m] = "pending"

\* A message that is older than the others stays so.
LEMMA StillGone ==
  ASSUME caught \subseteq caught', \A y \in Messages \ caught' : Ahead(y)' => Ahead(y),
         NEW m, Gone(m)
  PROVE  Gone(m)'
BY DEF Gone

\* Such steps keep the account.
LEMMA FrameAccounted == ASSUME Accounted, AccountFrame PROVE Accounted'
<1> SUFFICES ASSUME NEW m \in Messages, m \notin caught', m \in ToSet(inflight') PROVE Account(m)'
  BY DEF Accounted
<1>1. Account(m)
  BY DEF Accounted, AccountFrame
<1>2. Gone(m) => Gone(m)'
  BY StillGone DEF AccountFrame
<1> QED BY <1>1, <1>2 DEF Account, AccountFrame

\* What was refused stays so while commands are only added.
LEMMA StillRefused ==
  ASSUME Typed, NEW S, Grown(S), NEW m, Refused(m)
  PROVE  Refused(m)'
<1>1. Len(up) \in Nat /\ Len(up') \in Nat
  BY DEF Typed, TypeOK, Grown
<1> QED BY <1>1 DEF Refused, Grown

\* A poison ack that is sent is on its way.
LEMMA NowRefused ==
  ASSUME Typed, connected, NEW m \in Messages, SendAck("POISON", m, m)
  PROVE  Refused(m)'
<1> DEFINE a == Poison(m)
<1>1. a \in Commands
  BY AckIsCommand DEF a, Poison, CommandTypes
<1>2. up \in Seq(Commands) /\ up' = up \o <<a>>
  BY DEF Typed, TypeOK, SendAck, SendAll, Poison
<1> HIDE DEF a
<1>3. Len(up) + 1 \in 1..Len(up') /\ up'[Len(up) + 1] = a
  BY <1>1, <1>2
<1> QED BY <1>3 DEF Refused, a, Poison, Ack

\* Steps that move no message.
LEMMA StepsFrameAccount ==
  ASSUME Typed,
         \/ StartConsumerTask \/ SendCommit \/ SendRollback \/ BeforeEnd \/ ReceiveNothing
         \/ CommitInDoubt \/ UNCHANGED vars
  PROVE  AccountFrame
<1>1. UNCHANGED <<inflight, down, dhand, queue, unconsumed, hand, held, done, delivered, previously,
                  clearRequired, caught>>
  <2>1. CASE StartConsumerTask
    BY <2>1 DEF StartConsumerTask, bvars, nvars, lvars, fvars, tvars, dvars, hvars
  <2>2. CASE SendCommit \/ SendRollback
    BY <2>2 DEF SendCommit, SendRollback, SendEnd, bvars, kvars, lvars, fvars, dvars, hvars
  <2>3. CASE BeforeEnd
    BY <2>3 DEF BeforeEnd, bvars, kvars, fvars, dvars, hvars
  <2>4. CASE UNCHANGED vars
    BY <2>4 DEF vars, bvars, nvars, kvars, lvars, fvars, tvars, dvars, hvars
  <2>5. CASE ReceiveNothing \/ CommitInDoubt
    BY <2>5 DEF ReceiveNothing, CommitInDoubt, bvars, nvars, kvars, lvars, fvars, dvars, hvars
  <2> QED BY <2>1, <2>2, <2>3, <2>4, <2>5
<1>2. \A m : Refused(m) => Refused(m)'
  <2>1. CASE StartConsumerTask \/ ReceiveNothing \/ CommitInDoubt \/ UNCHANGED vars
    BY <2>1, CalmSteps, StillRefused
  <2>2. CASE BeforeEnd
    <3>1. Grown({TxCommand("BEGIN"), Ack("CONSUMED", Head(delivered), Last(delivered))})
      BY <2>2, EndAckStep, StillGrown
    <3> QED BY <3>1, StillRefused
  <2>3. CASE SendCommit \/ SendRollback
    <3>1. /\ Len(up') = Len(up) + 1
          /\ \A i \in 1..Len(up) : up'[i] = up[i]
      BY <2>3, EndSteps
    <3>2. Len(up) \in Nat
      BY DEF Typed, TypeOK
    <3> QED BY <3>1, <3>2 DEF Refused
  <2> QED BY <2>1, <2>2, <2>3
<1>3. ASSUME NEW m PROVE OnTheWay' = OnTheWay /\ Located(m)' = Located(m) /\ Ahead(m)' = Ahead(m)
  BY <1>1 DEF OnTheWay, Located, Ahead, Coming
<1> QED BY <1>1, <1>2, <1>3 DEF AccountFrame

\* receive() returns a message, or the application settles some.
LEMMA SettleFrameAccount ==
  ASSUME Typed, Protocol,
         \/ ReceiveTransacted \/ ReceiveManual \/ ReceiveAuto \/ AcknowledgeSection \/ AfterCommit
         \/ RemoveAcknowledged \/ \E m \in Messages : AcknowledgeOne(m)
  PROVE  AccountFrame
<1>1. /\ UNCHANGED <<inflight, down, dhand, queue, unconsumed, clearRequired>>
      /\ caught \subseteq caught' /\ (hand' = hand \/ hand' = 0)
      /\ \A m : (m = hand \/ m \in held \/ m \in done) /\ m # 0 =>
                   (m = hand' \/ m \in held' \/ m \in done')
      /\ previously' = previously \/ previously' = [m \in Messages |-> "no"]
  <2>1. CASE ReceiveTransacted \/ ReceiveManual
    BY <2>1 DEF ReceiveTransacted, ReceiveManual, ReceiveReturns, bvars, kvars, fvars, dvars
  <2>2. CASE ReceiveAuto
    BY <2>2 DEF ReceiveAuto, ReceiveReturns, bvars, kvars, fvars, dvars
  <2>3. CASE AcknowledgeSection
    BY <2>3 DEF AcknowledgeSection, bvars, kvars, fvars, dvars
  <2>4. CASE AfterCommit
    BY <2>4 DEF AfterCommit, bvars, kvars, fvars, dvars
  <2>5. CASE \E m \in Messages : AcknowledgeOne(m)
    BY <2>5 DEF AcknowledgeOne, bvars, kvars, lvars, fvars, dvars
  <2>6. CASE RemoveAcknowledged
    BY <2>6 DEF RemoveAcknowledged, bvars, nvars, kvars, fvars, dvars, hvars
  <2> QED BY <2>1, <2>2, <2>3, <2>4, <2>5, <2>6
<1>2. ToSet(delivered') \subseteq ToSet(delivered)
  <2>1. CASE ReceiveTransacted \/ ReceiveManual \/ \E m \in Messages : AcknowledgeOne(m)
    BY <2>1 DEF ReceiveTransacted, ReceiveManual, AcknowledgeOne, lvars
  <2>2. CASE ReceiveAuto \/ AcknowledgeSection \/ AfterCommit
    <3>1. delivered' = delivered \/ delivered' = <<>>
      BY <2>2 DEF ReceiveAuto, AcknowledgeSection, AfterCommit
    <3> QED BY <3>1, EmptyList
  <2>3. CASE RemoveAcknowledged
    <3> DEFINE I == {i \in 1..Len(delivered) : delivered[i] # acked}
    <3>1. delivered' = KeepAt(delivered, I)
      BY <2>3 DEF RemoveAcknowledged
    <3>2. delivered \in Seq(Messages) /\ I \subseteq 1..Len(delivered)
      BY DEF Typed, TypeOK
    <3> HIDE DEF I
    <3>3. ToSet(delivered') = {delivered[i] : i \in I}
      BY <3>1, <3>2, Keeps
    <3> QED BY <3>2, <3>3, InList
  <2> QED BY <2>1, <2>2, <2>3
<1>3. \A m : Refused(m) => Refused(m)'
  <2>1. CASE ReceiveTransacted \/ ReceiveManual \/ AfterCommit \/ RemoveAcknowledged
    BY <2>1, CalmSteps, StillRefused
  <2>2. CASE ReceiveAuto \/ AcknowledgeSection
    <3>1. Grown({Ack("CONSUMED", Head(delivered), Last(delivered))})
      BY <2>2, AckSteps, StillGrown
    <3> QED BY <3>1, StillRefused
  <2>3. CASE \E m \in Messages : AcknowledgeOne(m)
    BY <2>3, AckOneStep, StillRefused
  <2> QED BY <2>1, <2>2, <2>3
<1>4. OnTheWay' = OnTheWay /\ Coming' = Coming
  BY <1>1 DEF OnTheWay, Coming
<1>5. ASSUME NEW m \in Messages
      PROVE  /\ Located(m) => Located(m)'
             /\ Ahead(m)' => Ahead(m)
             /\ m \in ToSet(delivered') /\ previously'[m] = "pending" =>
                   m \in ToSet(delivered) /\ previously[m] = "pending"
  <2>1. m # 0
    BY MessageFacts
  <2> QED BY <1>1, <1>2, <1>4, <2>1 DEF Located, Ahead
<1> QED BY <1>1, <1>3, <1>4, <1>5 DEF AccountFrame

\* The broker takes a command: a poison ack that is taken has its effect.
LEMMA BrokerProcessAccount ==
  ASSUME Typed, BrokerOrder, BrokerProcess
  PROVE  AccountFrame
<1> DEFINE c == Head(up)
<1>1. UNCHANGED <<down, dhand, queue, unconsumed, hand, held, done, delivered, previously,
                  clearRequired, caught>>
  BY DEF BrokerProcess, kvars, lvars, fvars, tvars, dvars, hvars
<1>2. up # <<>> /\ up' = Tail(up) /\ Takes(c) /\ Sorted(inflight, {})
  BY BrokerTakes DEF BrokerOrder
<1>3. /\ Len(up') + 1 = Len(up) /\ c = up[1] /\ Len(up') \in Nat
      /\ \A i \in 1..Len(up) : i = 1 \/ (i - 1 \in 1..Len(up') /\ up'[i - 1] = up[i])
  <2>1. up \in Seq(Commands)
    BY DEF Typed, TypeOK
  <2> QED BY <1>2, <2>1
<1> HIDE DEF c
<1>4. ToSet(inflight') \subseteq ToSet(inflight)
  BY <1>2, TakesLess
<1>5. ASSUME NEW m \in Messages, m \in ToSet(inflight'), Refused(m) PROVE Refused(m)'
  <2>1. PICK i \in 1..Len(up) : up[i] = Poison(m)
    BY <1>5 DEF Refused
  <2>2. CASE i = 1
    <3>1. c.type = "POISON" /\ c.first = m /\ c.last = m
      BY <1>3, <2>1, <2>2 DEF Poison, Ack
    <3>2. Discard(AckRange(c))
      BY <1>2, <3>1 DEF Takes
    <3>3. m \in AckRange(c)
      BY <1>4, <1>5, <3>1, RangeOfOne
    <3> QED BY <1>2, <1>5, <3>2, <3>3, Discards
  <2>3. CASE i # 1
    <3>1. i - 1 \in 1..Len(up') /\ up'[i - 1] = Poison(m)
      BY <1>3, <2>1, <2>3
    <3> QED BY <3>1 DEF Refused, Poison, Ack
  <2> QED BY <2>2, <2>3
<1>6. ASSUME NEW m PROVE OnTheWay' = OnTheWay /\ Located(m)' = Located(m) /\ Ahead(m)' = Ahead(m)
  BY <1>1 DEF OnTheWay, Located, Ahead, Coming
<1> QED BY <1>1, <1>4, <1>5, <1>6 DEF AccountFrame

\* A message that is dispatched is on its way.
LEMMA BrokerDispatchAccounted ==
  ASSUME Typed, Accounted, BrokerDispatch
  PROVE  Accounted'
<1> DEFINE n == Min(queue)
<1>1. /\ UNCHANGED <<dhand, unconsumed, hand, held, done, delivered, previously, clearRequired,
                     caught, up>>
      /\ queue' = queue \ {n} /\ inflight' = Append(inflight, n) /\ down' = Append(down, n)
  BY DEF BrokerDispatch, kvars, lvars, fvars, tvars, dvars, hvars
<1>2. n \in queue /\ n \in Messages /\ inflight \in Seq(Messages) /\ down \in Seq(Messages)
  BY MinIn, MessageFacts DEF BrokerDispatch, Typed, TypeOK
<1> HIDE DEF n
<1>3. ToSet(inflight') = ToSet(inflight) \cup {n} /\ ToSet(down') = ToSet(down) \cup {n}
  BY <1>1, <1>2, Appended
<1>4. /\ \A y : Ahead(y)' => Ahead(y)
      /\ \A y : Located(y) => Located(y)'
      /\ OnTheWay' = OnTheWay \cup {n}
  BY <1>1, <1>2, <1>3 DEF Ahead, Coming, Located, OnTheWay
<1> SUFFICES ASSUME NEW m \in Messages, m \notin caught', m \in ToSet(inflight') PROVE Account(m)'
  BY DEF Accounted
<1>5. CASE m = n
  BY <1>4, <1>5 DEF Account
<1>6. CASE m # n
  <2>1. Account(m)
    BY <1>1, <1>3, <1>6 DEF Accounted
  <2>2. Gone(m) => Gone(m)'
    BY <1>1, <1>4, StillGone
  <2>3. Refused(m) => Refused(m)'
    BY <1>1 DEF Refused
  <2> QED BY <1>1, <1>4, <2>1, <2>2, <2>3 DEF Account
<1> QED BY <1>5, <1>6

\* The dispatching thread takes a message, which stays on its way.
LEMMA DispatchTakeAccount ==
  ASSUME Typed, DispatchTake
  PROVE  AccountFrame
<1>1. /\ UNCHANGED <<inflight, queue, unconsumed, hand, held, done, delivered, previously,
                     clearRequired, caught, up>>
      /\ dhand' = Head(down) /\ down' = Tail(down) /\ dhand = 0
  BY DEF DispatchTake, Typed, Hands, bvars, kvars, lvars, fvars, tvars, hvars
<1>2. down # <<>> /\ down \in Seq(Messages)
  BY DEF DispatchTake, Typed, TypeOK
<1>3. ToSet(down) = {dhand'} \cup ToSet(down')
  BY <1>1, <1>2, HeadAndTail
<1>4. ASSUME NEW m \in Messages
      PROVE  /\ m \in OnTheWay => m \in OnTheWay'
             /\ Located(m)' = Located(m) /\ Refused(m)' = Refused(m)
             /\ Ahead(m)' => Ahead(m)
  <2>1. m # 0
    BY MessageFacts
  <2> QED BY <1>1, <1>3, <2>1 DEF OnTheWay, Located, Refused, Ahead, Coming
<1> QED BY <1>1, <1>4 DEF AccountFrame

\* dispatch() puts its message in the channel, recognises one the application has, or
\* refuses it.
LEMMA DispatchEnqueueAccounted ==
  ASSUME Typed, Knows, BrokerOrder, Expected, Accounted, DispatchEnqueue
  PROVE  Accounted'
<1>1. /\ UNCHANGED <<inflight, down, queue, hand, held, done, delivered, clearRequired, caught, apc>>
      /\ dhand' = 0 /\ dpc = "enqueue"
  BY DEF DispatchEnqueue, bvars, fvars, tvars, hvars
<1>2. dhand \in Messages /\ unconsumed \in Seq(Messages) /\ 0 \notin Messages
  BY <1>1, MessageFacts DEF Typed, TypeOK, Hands
<1>3. /\ dhand \notin audit => unconsumed' = Append(unconsumed, dhand) /\ previously' = previously
      /\ dhand \in audit =>
           /\ unconsumed' = unconsumed
           /\ \/ /\ previously[dhand] # "no"
                 /\ previously' = [previously EXCEPT ![dhand] = "back"]
              \/ SendAck("POISON", dhand, dhand) /\ previously' = previously
                 /\ previously[dhand] = "no"
  BY DEF DispatchEnqueue
<1>4. /\ dhand \notin audit => ToSet(unconsumed') = ToSet(unconsumed) \cup {dhand}
      /\ dhand \in audit => ToSet(unconsumed') = ToSet(unconsumed)
  <2>1. ToSet(Append(unconsumed, dhand)) = ToSet(unconsumed) \cup {dhand}
    BY <1>2, Appended
  <2>2. /\ dhand \notin audit => unconsumed' = Append(unconsumed, dhand)
        /\ dhand \in audit => unconsumed' = unconsumed
    BY <1>3
  <2> QED BY <2>1, <2>2, Zenon
<1>5. \A m \in Messages : m # dhand => previously'[m] = previously[m]
  BY <1>3 DEF Typed, TypeOK
<1>6. \A m : Refused(m) => Refused(m)'
  BY CalmSteps, StillRefused
<1>7. /\ \A y \in Messages : Ahead(y)' => Ahead(y)
      /\ \A y : Located(y) => Located(y)'
  BY <1>1, <1>2, <1>4 DEF Ahead, Coming, Located
<1> SUFFICES ASSUME NEW m \in Messages, m \notin caught', m \in ToSet(inflight') PROVE Account(m)'
  BY DEF Accounted
<1>8. Account(m) /\ m \in ToSet(inflight) /\ m \notin caught
  BY <1>1 DEF Accounted
<1>9. Gone(m) => Gone(m)'
  BY <1>1, <1>7, StillGone
<1>10. CASE m # dhand
  <2>1. m \in OnTheWay => m \in OnTheWay'
    BY <1>1, <1>10 DEF OnTheWay
  <2> QED BY <1>1, <1>5, <1>6, <1>7, <1>8, <1>9, <1>10, <2>1 DEF Account
<1>11. CASE m = dhand
  <2>1. ~clearRequired /\ Known(m) /\ m \in Coming
    BY <1>1, <1>8, <1>11 DEF Knows, Dispatched, Coming
  <2>2. m \in ToSet(delivered) => m \in held \/ m \in done \/ (m = hand /\ apc = "after")
    BY <1>8, <2>1 DEF Knows, Lists, Known
  <2>3. m \in ToSet(delivered) => m \in audit
    BY <2>1, <2>2 DEF Known
  <2>4. connected
    BY <1>8, EmptyList DEF BrokerOrder
  <2>5. CASE dhand \notin audit
    <3>1. Located(m)' /\ m \notin ToSet(delivered')
      BY <1>1, <1>4, <1>11, <2>3, <2>5 DEF Located
    <3> QED BY <1>1, <2>1, <3>1 DEF Account
  <2>6. CASE dhand \in audit /\ previously[dhand] # "no"
    <3>1. previously'[m] = "back"
      BY <1>2, <1>3, <1>11, <2>6 DEF Typed, TypeOK
    <3>2. Located(m)
      BY <1>2, <1>11, <2>2, <2>6 DEF Expected, Located
    <3> QED BY <1>1, <1>7, <2>1, <3>1, <3>2 DEF Account
  <2>7. CASE dhand \in audit /\ previously[dhand] = "no"
    <3>1. SendAck("POISON", dhand, dhand) /\ previously' = previously
      BY <1>3, <2>7
    <3>2. Refused(m)'
      BY <1>2, <1>11, <2>4, <3>1, NowRefused
    <3> QED BY <1>1, <1>11, <2>1, <2>7, <3>1, <3>2 DEF Account
  <2> QED BY <2>5, <2>6, <2>7
<1> QED BY <1>10, <1>11

\* dequeue() takes a message in hand, or refuses it.
LEMMA DequeueAccounted ==
  ASSUME Typed, BrokerOrder, Accounted, Dequeue
  PROVE  Accounted'
<1>1. /\ UNCHANGED <<inflight, down, dhand, queue, held, done, delivered, previously, clearRequired>>
      /\ unconsumed' = Tail(unconsumed) /\ unconsumed # <<>> /\ unconsumed \in Seq(Messages)
      /\ hand = 0
  BY DEF Dequeue, bvars, lvars, fvars, dvars, Typed, TypeOK, Hands
<1> DEFINE n == Head(unconsumed)
<1>2. /\ caught \subseteq caught'
      /\ (hand' = 0 /\ SendAck("POISON", n, n)) \/ hand' = n
  BY <1>1 DEF Dequeue
<1>3. ToSet(unconsumed) = {n} \cup ToSet(unconsumed') /\ n \in Messages
  BY <1>1, HeadAndTail
<1> HIDE DEF n
<1>4. \A m : Refused(m) => Refused(m)'
  BY CalmSteps, StillRefused
<1>5. \A y \in Messages : Ahead(y)' => Ahead(y)
  BY <1>1, <1>2, <1>3, MessageFacts DEF Ahead, Coming
<1> SUFFICES ASSUME NEW m \in Messages, m \notin caught', m \in ToSet(inflight') PROVE Account(m)'
  BY DEF Accounted
<1>6. Account(m) /\ m \in ToSet(inflight)
  BY <1>1, <1>2 DEF Accounted
<1>7. connected
  BY <1>6, EmptyList DEF BrokerOrder
<1>8. Located(m) => Located(m)' \/ Refused(m)'
  <2>1. CASE hand' = n
    BY <1>1, <1>3, <2>1, MessageFacts DEF Located
  <2>2. CASE hand' = 0 /\ SendAck("POISON", n, n)
    <3>1. m = n => SendAck("POISON", m, m)
      BY <2>2
    <3>2. m = n => Refused(m)'
      BY <1>7, <3>1, NowRefused
    <3> QED BY <1>1, <1>3, <3>2, MessageFacts DEF Located
  <2> QED BY <1>2, <2>1, <2>2
<1>9. Gone(m) => Gone(m)'
  BY <1>2, <1>5, StillGone
<1>10. OnTheWay' = OnTheWay
  BY <1>1 DEF OnTheWay
<1> QED BY <1>1, <1>4, <1>6, <1>8, <1>9, <1>10 DEF Account

\* beforeMessageIsConsumed() records a message that nobody expects.
LEMMA BeforeMessageIsConsumedAccount ==
  ASSUME Typed, Knows, Expected, BeforeMessageIsConsumed
  PROVE  AccountFrame
<1>1. /\ UNCHANGED <<inflight, down, dhand, queue, unconsumed, hand, held, done, previously,
                     clearRequired, caught, up>>
      /\ delivered' = Append(delivered, hand) /\ apc = "before"
  BY DEF BeforeMessageIsConsumed, bvars, nvars, kvars, fvars, dvars, hvars
<1>2. hand \in Messages /\ delivered \in Seq(Messages)
  BY <1>1, MessageFacts DEF Typed, TypeOK, Hands
<1>3. ToSet(delivered') = ToSet(delivered) \cup {hand}
  BY <1>1, <1>2, Appended
<1>4. hand \notin caught => previously[hand] = "no"
  <2>1. hand \notin caught => hand \notin held
    BY <1>2 DEF Knows, Known
  <2>2. hand \in ToSet(delivered) /\ hand \notin caught => hand \in held
    BY <1>1 DEF Knows, Lists
  <2> QED BY <1>2, <2>1, <2>2 DEF Expected
<1>5. ASSUME NEW m
      PROVE  /\ OnTheWay' = OnTheWay /\ Located(m)' = Located(m) /\ Refused(m)' = Refused(m)
             /\ Ahead(m)' = Ahead(m)
  BY <1>1, <1>3 DEF OnTheWay, Located, Refused, Ahead, Coming
<1> QED BY <1>1, <1>3, <1>4, <1>5 DEF AccountFrame

\* Steps that clear the list, and perhaps the channel: what is dropped comes again.
LEMMA ClearedAccounted ==
  ASSUME Typed, Knows, Accounted, ClearDeliveredList,
         UNCHANGED <<inflight, down, dhand, queue, hand, held, done, caught, up>>,
         clearRequired' => clearRequired,
         unconsumed' = unconsumed \/ (unconsumed' = <<>> /\ clearRequired)
  PROVE  Accounted'
<1>1. /\ ToSet(delivered') \subseteq ToSet(delivered)
      /\ \A m \in ToSet(delivered') : ~clearDelivered => previously'[m] = previously[m]
  BY ClearedList DEF Typed
<1>2. clearDelivered => clearRequired
  BY DEF Knows, Lists
<1>3. ToSet(unconsumed') \subseteq ToSet(unconsumed)
  BY EmptyList
<1> SUFFICES ASSUME NEW m \in Messages, m \notin caught', m \in ToSet(inflight') PROVE Account(m)'
  BY DEF Accounted
<1>4. Account(m)
  BY DEF Accounted
<1>5. OnTheWay' = OnTheWay
  BY DEF OnTheWay
<1>6. CASE clearRequired
  BY <1>4, <1>5, <1>6 DEF Account
<1>7. CASE ~clearRequired
  <2>1. Located(m) => Located(m)'
    BY <1>7 DEF Located
  <2>2. Refused(m) => Refused(m)'
    BY DEF Refused
  <2>3. \A y : Ahead(y)' => Ahead(y)
    BY <1>1, <1>3 DEF Ahead, Coming
  <2>4. Gone(m) => Gone(m)'
    BY <2>3, StillGone
  <2> QED BY <1>1, <1>2, <1>4, <1>5, <1>7, <2>1, <2>2, <2>4 DEF Account
<1> QED BY <1>6, <1>7

\* ClearConsumerTask and dispatch(), and any entry into receive(), acknowledge(),
\* commit(), rollback() and recover().
LEMMA ClearAccounted ==
  ASSUME Typed, Knows, Accounted,
         ClearConsumerTask \/ DispatchClear \/ Enters \/ AfterRollback
  PROVE  Accounted'
<1>1. CASE ClearConsumerTask \/ DispatchClear
  <2>1. /\ UNCHANGED <<inflight, down, dhand, queue, hand, held, done, caught, up>>
        /\ ClearMessagesInProgress
    BY <1>1 DEF ClearConsumerTask, DispatchClear, bvars, nvars, tvars, dvars, hvars
  <2>2. /\ ClearDeliveredList /\ (clearRequired' => clearRequired)
        /\ unconsumed' = unconsumed \/ (unconsumed' = <<>> /\ clearRequired)
    BY <2>1 DEF ClearMessagesInProgress
  <2> QED BY <2>1, <2>2, ClearedAccounted
<1>2. CASE Enters
  <2>1. /\ UNCHANGED <<inflight, down, dhand, queue, hand, held, done, caught, up, unconsumed,
                       clearRequired>>
        /\ ClearDeliveredList
    BY <1>2, EnterFacts DEF Enter, bvars, nvars, kvars, dvars, hvars
  <2> QED BY <2>1, ClearedAccounted
<1>3. CASE AfterRollback
  <2>1. /\ UNCHANGED <<inflight, down, dhand, queue, hand, held, done, caught, up, unconsumed,
                       clearRequired>>
        /\ ClearDeliveredList \/ UNCHANGED <<delivered, previously>>
    BY <1>3 DEF AfterRollback, bvars, kvars, dvars, hvars
  <2>2. CASE UNCHANGED <<delivered, previously>>
    <3>1. ASSUME NEW m
          PROVE  /\ OnTheWay' = OnTheWay /\ Located(m)' = Located(m) /\ Ahead(m)' = Ahead(m)
                 /\ Refused(m)' = Refused(m)
      BY <2>1, <2>2 DEF OnTheWay, Located, Ahead, Coming, Refused
    <3>2. AccountFrame
      BY <2>1, <2>2, <3>1 DEF AccountFrame
    <3> QED BY <3>2, FrameAccounted
  <2> QED BY <2>1, <2>2, ClearedAccounted
<1> QED BY <1>1, <1>2, <1>3

\* rollback() puts a message back, leaves one that comes again, or drops it; then
\* what the consumer has left is newer.
LEMMA RollbackConsumerAccounted ==
  ASSUME Typed, Knows, Recorded, ClientOrder, Accounted, RollbackConsumer
  PROVE  Accounted'
<1> DEFINE ms == KeepAt(delivered, PutBack)
<1>1. /\ UNCHANGED <<inflight, down, dhand, queue, hand, done, caught, clearRequired>>
      /\ apc = "rollbackConsumer" /\ delivered' = <<>> /\ held' = {}
  BY Zenon DEF RollbackConsumer, bvars, fvars, dvars
<1>2. IF ms # <<>> THEN Redeliver(ms) ELSE UNCHANGED <<redelivery, deliveredCounter, up, kvars>>
  BY Zenon DEF RollbackConsumer, PutBack
<1>3. /\ ms \in Seq(Messages) /\ unconsumed \in Seq(Messages)
      /\ ToSet(ms) \subseteq ToSet(delivered)
  BY PutBackType DEF Typed, TypeOK
<1>4. \A m \in ToSet(delivered) : previously[m] # "pending" => m \in ToSet(ms)
  BY PutBackAll
<1> HIDE DEF ms
<1>5. unconsumed' = unconsumed \/ unconsumed' = ms \o unconsumed
  BY <1>2 DEF Redeliver, kvars
<1>6. ToSet(ms \o unconsumed) = ToSet(ms) \cup ToSet(unconsumed)
  BY <1>3, Joined
<1>7. ToSet(delivered') = {} /\ OnTheWay' = OnTheWay /\ Coming' = Coming
  BY <1>1, EmptyList DEF OnTheWay, Coming
<1>8. \A y : Ahead(y)' => Ahead(y)
  BY <1>1, <1>3, <1>5, <1>6, <1>7 DEF Ahead
<1>9. \A m : Refused(m) => Refused(m)'
  BY CalmSteps, StillRefused
<1> SUFFICES ASSUME NEW m \in Messages, m \notin caught', m \in ToSet(inflight') PROVE Account(m)'
  BY DEF Accounted
<1>10. Account(m) /\ m \in ToSet(inflight) /\ m \notin caught /\ m # 0
  BY <1>1, MessageFacts DEF Accounted
<1>11. CASE m \in OnTheWay
  BY <1>7, <1>11 DEF Account
<1>12. CASE m \notin OnTheWay
  <2>1. ~clearRequired /\ ~clearDelivered /\ hand = 0
    BY <1>1, <1>10, <1>12 DEF Account, Knows, Lists, Typed, Hands
  <2>2. Gone(m) => Gone(m)'
    BY <1>1, <1>8, StillGone
  <2>3. Located(m) => Located(m)' \/ Gone(m)'
    <3>1. CASE m \in ToSet(unconsumed) \/ m \in done
      BY <1>1, <1>5, <1>6, <3>1 DEF Located
    <3>2. CASE m \in held
      <4>1. m \in ToSet(delivered)
        BY <1>10, <3>2 DEF Recorded, Recognised
      <4>2. previously[m] # "pending"
        BY <1>10, <1>12, <4>1 DEF Account
      <4>3. m \in ToSet(ms)
        BY <1>4, <4>1, <4>2
      <4>4. CASE unconsumed' = ms \o unconsumed
        BY <1>6, <4>3, <4>4 DEF Located
      <4>5. CASE unconsumed' = unconsumed
        <5> SUFFICES ASSUME NEW y \in Messages, y \notin caught', Ahead(y)' PROVE m < y
          BY DEF Gone
        <5>1. InOrder(m, y) /\ y # 0
          BY <1>1, <1>10, MessageFacts DEF ClientOrder
        <5>2. y \in ToSet(unconsumed) \/ y \in Coming
          BY <1>1, <1>7, <2>1, <4>5, <5>1 DEF Ahead
        <5> QED BY <2>1, <4>1, <4>2, <5>1, <5>2 DEF InOrder
      <4> QED BY <1>5, <4>4, <4>5
    <3> QED BY <1>10, <2>1, <3>1, <3>2 DEF Located
  <2> QED BY <1>1, <1>7, <1>9, <1>10, <1>12, <2>1, <2>2, <2>3 DEF Account
<1> QED BY <1>11, <1>12

\* Initially nothing is in flight.
LEMMA InitAccounted == ASSUME Init PROVE Accounted
BY EmptyList DEF Init, Accounted

\* Every step keeps the account.
LEMMA AccountedStep ==
  ASSUME Typed, Knows, Recorded, BrokerOrder, ClientOrder, Protocol, Expected, Accounted,
         [Next]_vars
  PROVE  Accounted'
<1>1. CASE Receive
  BY <1>1, ClearAccounted, DequeueAccounted, StepsFrameAccount, BeforeMessageIsConsumedAccount,
     SettleFrameAccount, FrameAccounted DEF Receive, Enters
<1>2. CASE Settle
  BY <1>2, ClearAccounted, SettleFrameAccount, StepsFrameAccount, FrameAccounted,
     RollbackConsumerAccounted DEF Settle, Enters
<1>3. CASE Undo
  BY <1>3, ClearAccounted DEF Undo, Enters
<1>4. CASE DispatchStep
  BY <1>4, DispatchTakeAccount, ClearAccounted, DispatchEnqueueAccounted, FrameAccounted
     DEF DispatchStep
<1>5. CASE Scheduler
  BY <1>5, ClearAccounted, StepsFrameAccount, FrameAccounted DEF Scheduler
<1>6. CASE Broker
  BY <1>6, BrokerProcessAccount, BrokerDispatchAccounted, FrameAccounted DEF Broker
<1>7. CASE TransportInterrupted
  BY <1>7, EmptyList DEF TransportInterrupted, Accounted
<1>8. CASE Restore
  <2>1. inflight' = <<>>
    BY <1>8 DEF Restore, BrokerOrder, bvars
  <2> QED BY <2>1, EmptyList DEF Accounted
<1>9. CASE UNCHANGED vars
  BY <1>9, StepsFrameAccount, FrameAccounted
<1> QED BY <1>1, <1>2, <1>3, <1>4, <1>5, <1>6, <1>7, <1>8, <1>9 DEF Next

-----------------------------------------------------------------------------
(* A session that acknowledges by itself has delivered one message *)

\* Nobody changes the mode.
LEMMA ModeStays == ASSUME [Next]_vars PROVE mode' = mode
<1>1. CASE Enters
  BY <1>1, EnterFacts DEF Enter, cvars
<1>2. CASE Receive
  BY <1>1, <1>2 DEF Receive, Enters, Dequeue, ReceiveNothing, BeforeMessageIsConsumed,
     ReceiveTransacted, ReceiveAuto, ReceiveManual, cvars
<1>3. CASE RollbackConsumer
  BY <1>3, Zenon DEF RollbackConsumer, cvars
<1>4. CASE Settle
  BY <1>1, <1>3, <1>4 DEF Settle, Enters, AcknowledgeSection, BeforeEnd, SendCommit, SendRollback,
     SendEnd, AfterCommit, CommitInDoubt, AfterRollback, RemoveAcknowledged, AcknowledgeOne, cvars
<1>5. CASE DispatchStep \/ Scheduler
  BY <1>5 DEF DispatchStep, DispatchTake, DispatchClear, DispatchEnqueue, Scheduler,
     ClearConsumerTask, StartConsumerTask, cvars
<1>6. CASE Broker \/ TransportInterrupted \/ Restore \/ UNCHANGED vars
  BY <1>6 DEF Broker, BrokerProcess, BrokerDispatch, TransportInterrupted, Restore, vars, cvars
<1> QED BY <1>1, <1>2, <1>4, <1>5, <1>6 DEF Next, Undo, Enters

\* In auto-acknowledge mode deliveredMessages holds at most the message that receive()
\* is about to return.
Alone == mode = "auto" /\ delivered # <<>> => apc = "after" /\ ToSet(delivered) \subseteq {hand}

\* Every step keeps it.
LEMMA AloneStep == ASSUME Typed, Protocol, Alone, [Next]_vars PROVE Alone'
<1> SUFFICES ASSUME mode = "auto", delivered' # <<>>
             PROVE  apc' = "after" /\ ToSet(delivered') \subseteq {hand'}
  BY ModeStays DEF Alone
<1>1. ASSUME delivered' = delivered \/ delivered' = <<>>, UNCHANGED <<apc, hand>> \/ apc # "after"
      PROVE  apc' = "after" /\ ToSet(delivered') \subseteq {hand'}
  BY <1>1 DEF Alone
<1>2. CASE \/ BrokerProcess \/ BrokerDispatch \/ Restore \/ StartConsumerTask \/ DispatchTake
           \/ TransportInterrupted \/ DispatchEnqueue \/ UNCHANGED vars
  BY <1>1, <1>2 DEF BrokerProcess, BrokerDispatch, Restore, StartConsumerTask, DispatchTake,
     TransportInterrupted, DispatchEnqueue, vars, lvars, tvars
<1>3. CASE ClearConsumerTask \/ DispatchClear
  BY <1>1, <1>3 DEF ClearConsumerTask, DispatchClear, ClearMessagesInProgress, ClearDeliveredList,
     tvars
<1>4. CASE Enters
  BY <1>1, <1>4, EnterFacts DEF Enter, ClearDeliveredList
<1>5. CASE Dequeue \/ ReceiveNothing \/ SendCommit \/ SendRollback \/ BeforeEnd \/ CommitInDoubt
  BY <1>1, <1>5 DEF Dequeue, ReceiveNothing, SendCommit, SendRollback, SendEnd, BeforeEnd,
     CommitInDoubt, lvars
<1>6. CASE AcknowledgeSection \/ AfterCommit \/ AfterRollback \/ \E m \in Messages : AcknowledgeOne(m)
  BY <1>1, <1>6 DEF AcknowledgeSection, AfterCommit, AfterRollback, ClearDeliveredList,
     AcknowledgeOne, lvars
<1>7. CASE RollbackConsumer
  <2>1. delivered' = <<>>
    BY <1>7, Zenon DEF RollbackConsumer
  <2> QED BY <2>1
<1>8. CASE BeforeMessageIsConsumed
  <2>1. /\ apc = "before" /\ apc' = "after" /\ delivered' = Append(delivered, hand)
        /\ delivered \in Seq(Messages) /\ hand \in Messages /\ hand' = hand
    BY <1>8, MessageFacts DEF BeforeMessageIsConsumed, Typed, TypeOK, Hands
  <2>2. ToSet(delivered') = ToSet(delivered) \cup {hand} /\ delivered = <<>>
    BY <2>1, Appended DEF Alone
  <2> QED BY <2>1, <2>2, EmptyList
<1>9. CASE ReceiveAuto
  BY <1>9 DEF ReceiveAuto
<1>10. ~(ReceiveTransacted \/ ReceiveManual \/ RemoveAcknowledged)
  BY DEF ReceiveTransacted, ReceiveManual, RemoveAcknowledged, Transacted, Protocol
<1> QED BY <1>2, <1>3, <1>4, <1>5, <1>6, <1>7, <1>8, <1>9, <1>10
        DEF Next, Receive, Settle, Undo, DispatchStep, Scheduler, Broker, Enters

\* Initially nothing is delivered.
LEMMA InitAlone == ASSUME Init PROVE Alone
BY DEF Init, Alone

-----------------------------------------------------------------------------
(* What an acknowledgement on its way covers *)

Committing == {"sendCommit", "awaitCommit"}

\* What the application has acknowledged, or received in the transaction it commits.
Answered == done \cup (IF Transacted THEN held ELSE {})

\* A poison ack for message x is ahead of command i.
PoisonBefore(x, i) == \E j \in 1..Len(up) : j < i /\ up[j] = Poison(x)

\* The range from f to l that command i names reaches to a message that an interruption
\* caught, or the broker finds in it only messages the application has answered for,
\* or has refused before.
Covers(i, f, l) ==
    \/ f \in caught \/ l \in caught
    \/ /\ l \notin queue
       /\ l \in ToSet(inflight) =>
            \A x \in Messages \ caught :
               x \in ToSet(inflight) /\ f <= x /\ x <= l => x \in Answered \/ PoisonBefore(x, i)

\* Acknowledgement i is for one message that is settled, or covers what is.
AckWell(i) ==
    /\ mode \in {"auto", "individual"} => up[i].first = up[i].last /\ up[i].last \in done
    /\ mode = "client" \/ apc \in Committing => Covers(i, up[i].first, up[i].last)

Acks ==
    /\ \A i \in 1..Len(up) : up[i].type \in AckTypes => AckWell(i)
    /\ apc \in Committing => brokerTx \cap caught # {} \/ brokerTx \subseteq held \cup done

\* Nothing is asked of a transaction before commit() has acknowledged.
LEMMA OpenAcks ==
  ASSUME Transacted, mode' = mode, apc' \notin Committing
  PROVE  Acks'
<1>1. mode' \notin {"auto", "individual", "client"}
  BY DEF Transacted
<1> QED BY <1>1 DEF Acks, AckWell

\* No acknowledgement is on its way.
LEMMA QuietAcks == ASSUME Quiet' PROVE Acks'
BY DEF Quiet, Acks

\* Steps that add commands; what is settled stays so, and what the broker dispatches
\* is newer than what it has dispatched.
AcksFrame ==
    /\ mode' = mode /\ queue' \subseteq queue /\ brokerTx' = brokerTx
    /\ up' \in Seq(Commands) /\ Len(up) <= Len(up')
    /\ \A i \in 1..Len(up) : up'[i] = up[i]
    /\ caught \subseteq caught' /\ done \subseteq done'
    /\ \A x \in ToSet(inflight') : x \in ToSet(inflight) \/ x \in queue
    /\ apc' \in Committing => apc \in Committing /\ held \subseteq held'

\* An acknowledgement still covers what it did.
LEMMA StillWell ==
  ASSUME Typed, BrokerOrder, Protocol, AcksFrame, NEW i \in 1..Len(up), AckWell(i)
  PROVE  AckWell(i)'
<1>1. up'[i] = up[i] /\ mode' = mode /\ done \subseteq done' /\ caught \subseteq caught'
  BY DEF AcksFrame
<1>2. Len(up) \in Nat /\ Len(up') \in Nat /\ Len(up) <= Len(up')
  <2>1. up \in Seq(Commands)
    BY DEF Typed, TypeOK
  <2>2. up' \in Seq(Commands)
    BY DEF AcksFrame
  <2> QED BY <2>1, <2>2 DEF AcksFrame
<1>3. mode' \in {"auto", "individual"} => up'[i].first = up'[i].last /\ up'[i].last \in done'
  BY <1>1 DEF AckWell
<1>4. ASSUME mode' = "client" \/ apc' \in Committing
      PROVE  Covers(i, up[i].first, up[i].last)'
  <2>1. /\ mode = "client" \/ apc \in Committing
        /\ Answered \subseteq Answered'
    <3>1. CASE mode = "client"
      BY <1>1, <3>1 DEF Answered, Transacted
    <3>2. CASE apc' \in Committing
      BY <1>1, <3>2 DEF Answered, Transacted, AcksFrame
    <3> QED BY <1>1, <1>4, <3>1, <3>2
  <2>2. PICK f, l : f = up[i].first /\ l = up[i].last
    OBVIOUS
  <2>3. Covers(i, f, l)
    BY <2>1, <2>2 DEF AckWell
  <2>4. \A x : PoisonBefore(x, i) => PoisonBefore(x, i)'
    BY <1>2 DEF PoisonBefore, AcksFrame, Poison, Ack
  <2>5. l \in 0..MaxMessages
    <3>1. up[i] \in Commands
      BY DEF Typed, TypeOK
    <3> QED BY <2>2, <3>1 DEF Commands
  <2>6. CASE f \in caught \/ l \in caught
    BY <1>1, <2>2, <2>6 DEF Covers
  <2>7. CASE l \notin queue
    <3>1. l \notin queue'
      BY <2>7 DEF AcksFrame
    <3>2. l \in ToSet(inflight') => l \in ToSet(inflight)
      BY <2>7 DEF AcksFrame
    <3>3. ASSUME NEW x \in Messages, x \in ToSet(inflight'), l \in ToSet(inflight), x <= l
          PROVE  x \in ToSet(inflight)
      <4>1. x \in queue => l < x
        BY <3>3 DEF BrokerOrder
      <4>2. ~(l < x)
        BY <2>5, <3>3, MessageFacts
      <4> QED BY <3>3, <4>1, <4>2 DEF AcksFrame
    <3>4. Covers(i, f, l)'
      BY <1>1, <2>1, <2>3, <2>4, <2>7, <3>1, <3>2, <3>3 DEF Covers
    <3> QED BY <1>1, <2>2, <3>4 DEF Covers
  <2> QED BY <2>3, <2>6, <2>7 DEF Covers
<1> QED BY <1>3, <1>4 DEF AckWell

\* Steps that add no acknowledgement keep those on their way.
LEMMA FrameAcks ==
  ASSUME Typed, BrokerOrder, Protocol, Acks, AcksFrame,
         \A i \in 1..Len(up') : i > Len(up) => up'[i].type \notin AckTypes
  PROVE  Acks'
<1>1. Len(up) \in Nat /\ Len(up') \in Nat
  <2>1. up \in Seq(Commands)
    BY DEF Typed, TypeOK
  <2>2. up' \in Seq(Commands)
    BY DEF AcksFrame
  <2> QED BY <2>1, <2>2
<1>2. ASSUME NEW i \in 1..Len(up'), up'[i].type \in AckTypes PROVE AckWell(i)'
  <2>1. i \in 1..Len(up)
    BY <1>1, <1>2
  <2>2. up[i].type \in AckTypes
    BY <1>2, <2>1 DEF AcksFrame
  <2> QED BY <2>1, <2>2, StillWell DEF Acks
<1>3. apc' \in Committing => brokerTx' \cap caught' # {} \/ brokerTx' \subseteq held' \cup done'
  BY DEF Acks, AcksFrame
<1> QED BY <1>2, <1>3 DEF Acks

\* The next message the broker dispatches comes from the queue.
LEMMA BrokerDispatchAcks ==
  ASSUME Typed, BrokerOrder, Protocol, Acks, BrokerDispatch
  PROVE  Acks'
<1>1. /\ UNCHANGED <<mode, brokerTx, up, caught, done, held, apc>>
      /\ queue' = queue \ {Min(queue)} /\ inflight' = Append(inflight, Min(queue))
  BY DEF BrokerDispatch, cvars, tvars, hvars
<1>2. Min(queue) \in queue /\ Min(queue) \in Messages
  BY MinIn, MessageFacts DEF BrokerDispatch, Typed, TypeOK
<1>3. ToSet(inflight') = ToSet(inflight) \cup {Min(queue)}
  BY <1>1, <1>2, Appended DEF Typed, TypeOK
<1>4. up \in Seq(Commands) /\ Len(up) \in Nat
  BY DEF Typed, TypeOK
<1>5. AcksFrame
  BY <1>1, <1>2, <1>3, <1>4 DEF AcksFrame
<1>6. \A i \in 1..Len(up') : ~(i > Len(up))
  BY <1>1, <1>4
<1> QED BY <1>5, <1>6, FrameAcks

\* The steps of the consumer that send no acknowledgement.
LEMMA CalmAcks ==
  ASSUME Typed, BrokerOrder, Protocol, Acks,
         \/ ClearConsumerTask \/ StartConsumerTask \/ DispatchTake
         \/ DispatchClear \/ DispatchEnqueue \/ Dequeue \/ BeforeMessageIsConsumed
         \/ ReceiveTransacted \/ ReceiveManual \/ ReceiveNothing \/ Enters
         \/ AfterCommit \/ CommitInDoubt \/ AfterRollback \/ RollbackConsumer
         \/ RemoveAcknowledged \/ UNCHANGED vars
  PROVE  Acks'
<1>1. Grown(Harmless)
  BY CalmSteps
<1>2. /\ UNCHANGED <<mode, queue, brokerTx, inflight>> /\ caught \subseteq caught' /\ done \subseteq done'
      /\ apc' \in Committing => apc \in Committing /\ held \subseteq held'
  <2> USE DEF Committing
  <2>1. CASE ClearConsumerTask \/ StartConsumerTask
    BY <2>1 DEF ClearConsumerTask, StartConsumerTask, cvars, bvars, tvars, hvars
  <2>2. CASE DispatchTake \/ DispatchClear \/ DispatchEnqueue
    BY <2>2 DEF DispatchTake, DispatchClear, DispatchEnqueue, cvars, bvars, tvars, hvars
  <2>3. CASE Dequeue
    BY <2>3 DEF Dequeue, cvars, bvars
  <2>4. CASE BeforeMessageIsConsumed \/ ReceiveNothing \/ RemoveAcknowledged
    BY <2>4 DEF BeforeMessageIsConsumed, ReceiveNothing, RemoveAcknowledged, cvars, bvars, hvars
  <2>5. CASE ReceiveTransacted \/ ReceiveManual
    BY <2>5 DEF ReceiveTransacted, ReceiveManual, ReceiveReturns, cvars, bvars
  <2>6. CASE Enters
    BY <2>6, EnterFacts DEF Enter, cvars, bvars, hvars
  <2>7. CASE AfterCommit
    BY <2>7 DEF AfterCommit, cvars, bvars
  <2>8. CASE AfterRollback \/ CommitInDoubt
    BY <2>8 DEF AfterRollback, CommitInDoubt, cvars, bvars, hvars
  <2>9. CASE RollbackConsumer
    BY <2>9, Zenon DEF RollbackConsumer, cvars, bvars
  <2>10. CASE UNCHANGED vars
    BY <2>10 DEF vars, cvars, bvars, tvars, hvars
  <2> QED BY <2>1, <2>2, <2>3, <2>4, <2>5, <2>6, <2>7, <2>8, <2>9, <2>10
<1>3. AcksFrame
  BY <1>1, <1>2 DEF AcksFrame, Grown
<1>4. \A i \in 1..Len(up') : i > Len(up) => up'[i].type \notin AckTypes
  BY <1>1 DEF Grown, Harmless, AckTypes
<1> QED BY <1>3, <1>4, FrameAcks

\* COMMIT and ROLLBACK are no acknowledgements.
LEMMA SendEndAcks ==
  ASSUME Typed, BrokerOrder, Protocol, Acks, SendCommit \/ SendRollback
  PROVE  Acks'
<1>1. /\ UNCHANGED <<mode, queue, brokerTx, inflight, caught, done, held>>
      /\ apc' \in Committing => apc \in Committing
  BY DEF SendCommit, SendRollback, SendEnd, cvars, bvars, hvars, Committing
<1>2. /\ up' \in Seq(Commands) /\ Len(up') = Len(up) + 1 /\ Len(up) \in Nat
      /\ \A i \in 1..Len(up) : up'[i] = up[i]
      /\ up'[Len(up) + 1].type \in EndTypes
  <2>1. Len(up) \in Nat
    BY DEF Typed, TypeOK
  <2> QED BY <2>1, EndSteps DEF EndTypes
<1>3. AcksFrame
  BY <1>1, <1>2 DEF AcksFrame
<1>4. \A i \in 1..Len(up') : i > Len(up) => i = Len(up) + 1
  BY <1>2
<1>5. \A i \in 1..Len(up') : i > Len(up) => up'[i].type \notin AckTypes
  BY <1>2, <1>4 DEF AckTypes, EndTypes
<1> QED BY <1>3, <1>5, FrameAcks

\* A lost connection takes the acknowledgements with it, a restored one gets none.
LEMMA TransportQuiet ==
  ASSUME Typed, BrokerOrder, TransportInterrupted \/ Restore
  PROVE  Quiet'
<1>1. CASE TransportInterrupted
  <2>1. up' = <<>> /\ brokerTx' = {}
    BY <1>1 DEF TransportInterrupted
  <2>2. 1..Len(up') = {}
    BY <2>1
  <2> QED BY <2>1, <2>2 DEF Quiet
<1>2. CASE Restore
  <2> DEFINE b == TxCommand("BEGIN")
             r == TxCommand("ROLLBACK")
  <2>1. brokerTx' = {}
    BY <1>2 DEF Restore, BrokerOrder, bvars
  <2>2. up' = <<>> \/ up' = <<b>> \/ up' = <<b, r>>
    <3>1. tracked \in {"none", "BEGIN", "COMMIT", "ROLLBACK"}
      BY DEF Typed, TypeOK
    <3>2. CASE tracked \in {"none", "COMMIT"}
      BY <1>2, <3>2 DEF Restore, DoRestoreTransactions
    <3>3. CASE tracked = "BEGIN"
      BY <1>2, <3>3 DEF Restore, DoRestoreTransactions
    <3>4. CASE tracked = "ROLLBACK"
      BY <1>2, <3>4 DEF Restore, DoRestoreTransactions
    <3> QED BY <3>1, <3>2, <3>3, <3>4
  <2>3. b.type \notin AckTypes /\ r.type \notin AckTypes
    BY DEF TxCommand, AckTypes
  <2> HIDE DEF b, r
  <2>4. \A i \in 1..Len(up') : up'[i] = b \/ up'[i] = r
    <3>1. CASE up' = <<>>
      BY <3>1
    <3>2. CASE up' = <<b>>
      BY <3>2
    <3>3. CASE up' = <<b, r>>
      BY <3>3
    <3> QED BY <2>2, <3>1, <3>2, <3>3
  <2> QED BY <2>1, <2>3, <2>4 DEF Quiet
<1> QED BY <1>1, <1>2

\* An acknowledgement of all that is delivered covers nothing else: what the broker has
\* dispatched in between is settled by it, or was refused before.
LEMMA NewCovers ==
  ASSUME Typed, Knows, BrokerOrder, ClientOrder, Accounted, hand = 0,
         delivered # <<>>, NEW f, NEW l, f = Head(delivered), l = Last(delivered),
         clearDelivered => ToSet(delivered) \subseteq caught,
         \A m \in Messages : previously[m] # "pending",
         UNCHANGED <<inflight, queue, caught>>, held \cup done \subseteq Answered',
         up' \in Seq(Commands), Len(up) <= Len(up'), \A i \in 1..Len(up) : up'[i] = up[i],
         NEW k \in Nat, k > Len(up)
  PROVE  Covers(k, f, l)'
<1>1. f \in Messages /\ l \in Messages /\ f \in ToSet(delivered) /\ l \in ToSet(delivered)
  BY Ends DEF Typed, TypeOK
<1>2. Len(up) \in Nat /\ Len(up') \in Nat
  BY DEF Typed, TypeOK
<1> SUFFICES ASSUME f \notin caught, l \notin caught
             PROVE  /\ l \notin queue
                    /\ \A x \in Messages \ caught :
                          x \in ToSet(inflight) /\ f <= x /\ x <= l =>
                             x \in Answered' \/ PoisonBefore(x, k)'
  BY DEF Covers
<1>3. ~clearDelivered /\ Known(l)
  BY <1>1 DEF Knows
<1>4. l \notin queue
  BY <1>1, <1>3 DEF Known, Coming
<1>5. ASSUME NEW x \in Messages, x \notin caught, x \in ToSet(inflight), f <= x, x <= l
      PROVE  x \in Answered' \/ PoisonBefore(x, k)'
  <2>1. Account(x) /\ InOrder(l, x) /\ ~(l < x) /\ ~(x < f) /\ x # 0
    BY <1>1, <1>5, MessageFacts DEF Accounted, ClientOrder
  <2>2. x \notin OnTheWay
    BY <1>1, <1>3, <2>1 DEF InOrder, OnTheWay, Coming
  <2>3. x \notin ToSet(unconsumed)
    BY <1>1, <2>1 DEF InOrder
  <2>4. ~Gone(x)
    BY <1>1, <2>1 DEF Gone, Ahead
  <2>5. Refused(x) => PoisonBefore(x, k)'
    <3> SUFFICES ASSUME NEW j \in 1..Len(up), up[j] = Poison(x) PROVE PoisonBefore(x, k)'
      BY DEF Refused
    <3>1. j \in 1..Len(up') /\ j < k /\ up'[j] = Poison(x)
      BY <1>2
    <3> QED BY <3>1 DEF PoisonBefore, Poison, Ack
  <2> QED BY <2>1, <2>2, <2>3, <2>4, <2>5 DEF Account, Located
<1> QED BY <1>4, <1>5

\* What is added is one of the commands.
LEMMA Added ==
  ASSUME Typed, NEW S, Grown(S), NEW i \in 1..Len(up'), i \notin 1..Len(up)
  PROVE  up'[i] \in S /\ i > Len(up) /\ i \in Nat
<1>1. up \in Seq(Commands) /\ Len(up) \in Nat
  BY DEF Typed, TypeOK
<1>2. up' \in Seq(Commands) /\ Len(up') \in Nat
  BY DEF Grown
<1> QED BY <1>1, <1>2 DEF Grown

\* acknowledge() in a client-acknowledge session.
LEMMA AcknowledgeAcks ==
  ASSUME Typed, Knows, BrokerOrder, ClientOrder, Protocol, Expected, Accounted, Acks,
         AcknowledgeSection
  PROVE  Acks'
<1> DEFINE a == Ack("CONSUMED", Head(delivered), Last(delivered))
<1>1. /\ UNCHANGED <<mode, queue, brokerTx, inflight, caught>>
      /\ apc = "acknowledge" /\ apc' = "idle" /\ done' = done \cup held
  BY DEF AcknowledgeSection, cvars, bvars
<1>2. mode = "client" /\ hand = 0
  BY <1>1 DEF Protocol, Typed, Hands
<1>3. up' = up \/ (delivered # <<>> /\ Grown({a}))
  BY AckSteps
<1>4. CASE up' = up
  <2>1. up \in Seq(Commands) /\ Len(up) \in Nat
    BY DEF Typed, TypeOK
  <2>2. AcksFrame
    BY <1>1, <1>4, <2>1 DEF AcksFrame, Committing
  <2>3. \A i \in 1..Len(up') : ~(i > Len(up))
    BY <1>4, <2>1
  <2> QED BY <2>2, <2>3, FrameAcks
<1>5. CASE delivered # <<>> /\ Grown({a})
  <2>1. AcksFrame
    BY <1>1, <1>5 DEF AcksFrame, Grown, Committing
  <2>2. PICK f, l : f = Head(delivered) /\ l = Last(delivered)
    OBVIOUS
  <2>3. a.first = f /\ a.last = l
    BY <2>2 DEF Ack
  <2>4. clearDelivered => ToSet(delivered) \subseteq caught
    <3> SUFFICES ASSUME clearDelivered, NEW m \in ToSet(delivered), m \notin caught PROVE FALSE
      OBVIOUS
    <3>1. m \in Messages
      BY InList DEF Typed, TypeOK
    <3>2. m \in held
      BY <1>1 DEF Knows, Lists
    <3> QED BY <1>2, <3>1, <3>2 DEF Knows, Known
  <2>5. \A m \in Messages : previously[m] # "pending"
    BY <1>2 DEF Expected, Transacted
  <2>6. held \cup done \subseteq Answered'
    BY <1>1 DEF Answered
  <2>7. up' \in Seq(Commands) /\ Len(up) <= Len(up') /\ \A i \in 1..Len(up) : up'[i] = up[i]
    BY <1>5 DEF Grown
  <2> HIDE DEF a
  <2>8. ASSUME NEW i \in 1..Len(up'), up'[i].type \in AckTypes PROVE AckWell(i)'
    <3>1. CASE i \in 1..Len(up)
      <4>1. up[i].type \in AckTypes
        BY <2>7, <2>8, <3>1
      <4> QED BY <2>1, <3>1, <4>1, StillWell DEF Acks
    <3>2. CASE i \notin 1..Len(up)
      <4>1. up'[i] = a /\ i > Len(up) /\ i \in Nat
        <5>1. up'[i] \in {a} /\ i > Len(up) /\ i \in Nat
          BY <1>5, <3>2, Added
        <5> QED BY <5>1
      <4>2. Covers(i, f, l)'
        BY <1>1, <1>2, <1>5, <2>2, <2>4, <2>5, <2>6, <2>7, <4>1, NewCovers
      <4>3. Covers(i, up[i].first, up[i].last)'
        BY <2>3, <4>1, <4>2 DEF Covers
      <4> QED BY <1>1, <1>2, <4>3 DEF AckWell
    <3> QED BY <3>1, <3>2
  <2> QED BY <1>1, <2>8 DEF Acks, Committing
<1> QED BY <1>3, <1>4, <1>5

\* commit() acknowledges what was received in the transaction.
LEMMA BeforeEndAcks ==
  ASSUME Typed, Knows, BrokerOrder, ClientOrder, Protocol, Expected, Accounted, BeforeEnd
  PROVE  Acks'
<1> DEFINE a == Ack("CONSUMED", Head(delivered), Last(delivered))
           b == TxCommand("BEGIN")
<1>1. /\ UNCHANGED <<mode, queue, brokerTx, inflight, caught, held, done>>
      /\ apc \in {"commit", "rollback"}
      /\ apc' \in Committing => apc = "commit"
  BY DEF BeforeEnd, cvars, bvars, hvars, Committing
<1>2. Transacted /\ Quiet /\ hand = 0
  BY <1>1 DEF Protocol, Ending, Typed, Hands
<1>3. CASE apc' \notin Committing
  BY <1>1, <1>2, <1>3, OpenAcks
<1>4. CASE apc' \in Committing
  <2>1. up' = up \/ (Acknowledges /\ Grown({b, a}))
    BY EndAckStep
  <2>2. CASE up' = up
    BY <1>1, <1>2, <2>2, QuietAcks DEF Quiet
  <2>3. CASE Acknowledges /\ Grown({b, a})
    <3>1. PICK f, l : f = Head(delivered) /\ l = Last(delivered)
      OBVIOUS
    <3>2. a.first = f /\ a.last = l /\ b.type \notin AckTypes
      BY <3>1 DEF Ack, TxCommand, AckTypes
    <3>3. clearDelivered => ToSet(delivered) \subseteq caught
      BY <1>1, <1>4 DEF ClientOrder
    <3>4. (\A m \in Messages : previously[m] # "pending") /\ delivered # <<>>
      BY <2>3 DEF Acknowledges, NotReplayed
    <3>5. held \cup done \subseteq Answered' /\ Transacted'
      BY <1>1, <1>2 DEF Answered, Transacted
    <3>6. up' \in Seq(Commands) /\ Len(up) <= Len(up') /\ \A i \in 1..Len(up) : up'[i] = up[i]
      BY <2>3 DEF Grown
    <3> HIDE DEF a, b
    <3>7. ASSUME NEW i \in 1..Len(up'), up'[i].type \in AckTypes PROVE AckWell(i)'
      <4>1. i \notin 1..Len(up)
        BY <1>2, <3>6, <3>7 DEF Quiet
      <4>2. up'[i] = a /\ i > Len(up) /\ i \in Nat
        <5>1. up'[i] \in {b, a} /\ i > Len(up) /\ i \in Nat
          BY <2>3, <4>1, Added
        <5> QED BY <3>2, <3>7, <5>1
      <4>3. Covers(i, f, l)'
        BY <1>1, <1>2, <2>3, <3>1, <3>3, <3>4, <3>5, <3>6, <4>2, NewCovers
      <4>4. Covers(i, up[i].first, up[i].last)'
        BY <3>2, <4>2, <4>3 DEF Covers
      <4> QED BY <3>5, <4>4 DEF AckWell, Transacted
    <3>8. brokerTx' = {}
      BY <1>1, <1>2 DEF Quiet
    <3> QED BY <3>7, <3>8 DEF Acks
  <2> QED BY <2>1, <2>2, <2>3
<1> QED BY <1>3, <1>4

\* receive() acknowledges the one message it returns, and so does acknowledge() of a
\* message by itself.
LEMMA AckOneAcks ==
  ASSUME Typed, Alone, BrokerOrder, Protocol, Acks,
         ReceiveAuto \/ \E m \in Messages : AcknowledgeOne(m)
  PROVE  Acks'
<1>1. /\ UNCHANGED <<mode, queue, brokerTx, inflight, caught>>
      /\ done \subseteq done' /\ apc' \in {"idle", "remove"} /\ mode \in {"auto", "individual"}
  BY DEF ReceiveAuto, ReceiveReturns, AcknowledgeOne, cvars, bvars, tvars
<1>2. PICK a : Grown({a}) /\ a.first = a.last /\ (a.last \in done' \/ up' = up)
  <2>1. CASE ReceiveAuto
    <3> DEFINE a == Ack("CONSUMED", Head(delivered), Last(delivered))
    <3>1. up' = up \/ (delivered # <<>> /\ Grown({a}))
      BY <2>1, AckSteps
    <3>2. CASE up' = up
      <4> DEFINE z == Ack("CONSUMED", 0, 0)
      <4>1. z.first = z.last
        BY DEF Ack
      <4> HIDE DEF z
      <4> QED BY <3>2, <4>1, StillGrown
    <3>3. CASE delivered # <<>> /\ Grown({a})
      <4>1. apc = "after" /\ mode = "auto" /\ done' = done \cup {hand}
        BY <2>1 DEF ReceiveAuto
      <4>2. ToSet(delivered) \subseteq {hand}
        BY <3>3, <4>1 DEF Alone
      <4>3. Head(delivered) = hand /\ Last(delivered) = hand
        BY <3>3, <4>2, Ends DEF Typed, TypeOK
      <4>4. a.first = hand /\ a.last = hand
        BY <4>3 DEF Ack
      <4> HIDE DEF a
      <4> QED BY <3>3, <4>1, <4>4
    <3> QED BY <3>1, <3>2, <3>3
  <2>2. ASSUME NEW m \in Messages, AcknowledgeOne(m)
        PROVE  \E a : Grown({a}) /\ a.first = a.last /\ (a.last \in done' \/ up' = up)
    <3> DEFINE a == Ack("INDIVIDUAL", m, m)
    <3>1. Grown({a}) /\ done' = done \cup {m}
      BY <2>2, AckOneStep DEF AcknowledgeOne
    <3>2. a.first = m /\ a.last = m
      BY DEF Ack
    <3> HIDE DEF a
    <3> QED BY <3>1, <3>2
  <2> QED BY <2>1, <2>2
<1>3. AcksFrame
  BY <1>1, <1>2 DEF AcksFrame, Grown, Committing
<1>4. ASSUME NEW i \in 1..Len(up'), up'[i].type \in AckTypes PROVE AckWell(i)'
  <2>1. CASE i \in 1..Len(up)
    <3>1. up[i].type \in AckTypes
      BY <1>3, <1>4, <2>1 DEF AcksFrame
    <3> QED BY <1>3, <2>1, <3>1, StillWell DEF Acks
  <2>2. CASE i \notin 1..Len(up)
    <3>1. up'[i] \in {a}
      BY <1>2, <2>2, Added
    <3>2. up' # up
      BY <2>2
    <3> QED BY <1>1, <1>2, <3>1, <3>2 DEF AckWell, Committing
  <2> QED BY <2>1, <2>2
<1> QED BY <1>1, <1>4 DEF Acks, Committing

\* A range is of messages in flight.
LEMMA RangeInFlight == ASSUME Typed, NEW c PROVE AckRange(c) \subseteq ToSet(inflight)
<1> DEFINE at(m) == {i \in 1..Len(inflight) : inflight[i] = m}
           a == Min(at(c.first))
           b == Max(at(c.last))
<1>1. inflight \in Seq(Messages) /\ Len(inflight) \in Nat
  BY DEF Typed, TypeOK
<1>2. CASE at(c.first) = {} \/ at(c.last) = {}
  BY <1>2 DEF AckRange
<1>3. CASE at(c.first) # {} /\ at(c.last) # {}
  <2>1. at(c.first) \subseteq Nat /\ at(c.last) \subseteq 0..Len(inflight)
    BY <1>1
  <2>2. a \in at(c.first) /\ b \in at(c.last)
    BY <1>1, <1>3, <2>1, MinIn, MaxIn
  <2>3. AckRange(c) = {inflight[i] : i \in a..b}
    BY <1>3 DEF AckRange
  <2>4. a \in 1..Len(inflight) /\ b \in 1..Len(inflight)
    BY <2>2
  <2> HIDE DEF a, b
  <2>5. \A i \in a..b : i \in 1..Len(inflight)
    BY <1>1, <2>4
  <2> QED BY <1>1, <2>3, <2>5, InList
<1> QED BY <1>2, <1>3

\* What the broker takes from an acknowledgement that covers what is settled: only
\* that, or also a message that an interruption caught.
LEMMA CoveredRange ==
  ASSUME Typed, BrokerOrder, NEW c, Covers(1, c.first, c.last)
  PROVE  AckRange(c) \cap caught # {} \/ AckRange(c) \subseteq Answered
<1> SUFFICES ASSUME AckRange(c) \cap caught = {}, NEW x \in AckRange(c) PROVE x \in Answered
  OBVIOUS
<1>1. /\ c.first <= x /\ x <= c.last /\ c.first \in AckRange(c) /\ c.last \in AckRange(c)
  BY RangeBounds DEF BrokerOrder
<1>2. AckRange(c) \subseteq ToSet(inflight)
  BY RangeInFlight
<1>3. x \in Messages /\ x \notin caught
  BY <1>2, InList DEF Typed, TypeOK
<1>4. ~PoisonBefore(x, 1)
  BY DEF PoisonBefore
<1> QED BY <1>1, <1>2, <1>3, <1>4 DEF Covers

\* The broker takes a command: the next ones are one place further on.
LEMMA BrokerProcessAcks ==
  ASSUME Typed, BrokerOrder, Protocol, Acks, BrokerProcess
  PROVE  Acks'
<1> DEFINE c == Head(up)
<1>1. UNCHANGED <<mode, queue, held, done, caught, apc>>
  BY DEF BrokerProcess, cvars, tvars, hvars
<1>2. up # <<>> /\ up' = Tail(up) /\ Takes(c) /\ Sorted(inflight, {})
  BY BrokerTakes DEF BrokerOrder
<1>3. /\ Len(up') + 1 = Len(up) /\ c = up[1] /\ Len(up') \in Nat /\ 1 \in 1..Len(up)
      /\ \A i \in 1..Len(up') : up'[i] = up[i + 1] /\ i + 1 \in 1..Len(up)
      /\ \A i \in 1..Len(up) : i = 1 \/ (i - 1 \in 1..Len(up') /\ up'[i - 1] = up[i])
  <2>1. up \in Seq(Commands)
    BY DEF Typed, TypeOK
  <2> QED BY <1>2, <2>1
<1> HIDE DEF c
<1>4. ToSet(inflight') \subseteq ToSet(inflight) /\ Answered' = Answered
  BY <1>1, <1>2, TakesLess DEF Answered, Transacted
<1>5. ASSUME NEW x \in Messages, x \in ToSet(inflight'), NEW i \in 1..Len(up'),
             PoisonBefore(x, i + 1)
      PROVE  PoisonBefore(x, i)'
  <2>1. PICK j \in 1..Len(up) : j < i + 1 /\ up[j] = Poison(x)
    BY <1>5 DEF PoisonBefore
  <2>2. j # 1
    <3> SUFFICES ASSUME j = 1 PROVE FALSE
      OBVIOUS
    <3>1. c.type = "POISON" /\ c.first = x /\ c.last = x
      BY <1>3, <2>1 DEF Poison, Ack
    <3>2. Discard(AckRange(c))
      BY <1>2, <3>1 DEF Takes
    <3>3. x \in AckRange(c)
      BY <1>4, <1>5, <3>1, RangeOfOne
    <3> QED BY <1>2, <1>5, <3>2, <3>3, Discards
  <2>3. j - 1 \in 1..Len(up') /\ up'[j - 1] = Poison(x) /\ j - 1 < i
    BY <1>3, <2>1, <2>2
  <2> QED BY <2>3 DEF PoisonBefore, Poison, Ack
<1>6. ASSUME NEW i \in 1..Len(up'), up'[i].type \in AckTypes PROVE AckWell(i)'
  <2>1. up'[i] = up[i + 1] /\ i + 1 \in 1..Len(up)
    BY <1>3
  <2>2. AckWell(i + 1)
    BY <1>6, <2>1 DEF Acks
  <2>3. PICK f, l : f = up[i + 1].first /\ l = up[i + 1].last
    OBVIOUS
  <2>4. Covers(i + 1, f, l) => Covers(i, f, l)'
    BY <1>1, <1>4, <1>5 DEF Covers
  <2>5. Covers(i + 1, up[i + 1].first, up[i + 1].last) => Covers(i, up[i].first, up[i].last)'
    BY <2>1, <2>3, <2>4 DEF Covers
  <2> QED BY <1>1, <2>1, <2>2, <2>5 DEF AckWell
<1>7. ASSUME apc \in Committing
      PROVE  brokerTx' \cap caught # {} \/ brokerTx' \subseteq held \cup done
  <2>1. Transacted /\ (brokerTx \cap caught # {} \/ brokerTx \subseteq held \cup done)
    BY <1>7 DEF Protocol, Acks, Committing, Ending
  <2>2. CASE brokerTx' = brokerTx \/ brokerTx' = {}
    BY <2>1, <2>2
  <2>3. CASE c.type = "CONSUMED" /\ brokerTx' = brokerTx \cup AckRange(c)
    <3>1. Covers(1, c.first, c.last)
      BY <1>3, <1>7, <2>3 DEF Acks, AckWell, AckTypes
    <3>2. AckRange(c) \cap caught # {} \/ AckRange(c) \subseteq Answered
      BY <3>1, CoveredRange
    <3> QED BY <2>1, <2>3, <3>2 DEF Answered
  <2> QED BY <1>2, <2>2, <2>3 DEF Takes
<1> QED BY <1>1, <1>6, <1>7 DEF Acks

\* Initially nothing is acknowledged.
LEMMA InitAcks == ASSUME Init PROVE Acks
<1>1. up = <<>> /\ apc = "idle"
  BY DEF Init
<1>2. 1..Len(up) = {}
  BY <1>1
<1> QED BY <1>1, <1>2 DEF Acks, Committing

\* Every step keeps it.
LEMMA AcksStep ==
  ASSUME Typed, Knows, Alone, BrokerOrder, ClientOrder, Protocol, Expected, Accounted, Acks,
         [Next]_vars
  PROVE  Acks'
<1>1. CASE Receive
  BY <1>1, CalmAcks, AckOneAcks DEF Receive, Enters
<1>2. CASE Settle
  BY <1>2, CalmAcks, AckOneAcks, AcknowledgeAcks, BeforeEndAcks, SendEndAcks
     DEF Settle, Enters
<1>3. CASE Undo \/ DispatchStep \/ Scheduler
  BY <1>3, CalmAcks DEF Undo, DispatchStep, Scheduler, Enters
<1>4. CASE Broker
  BY <1>4, BrokerDispatchAcks, BrokerProcessAcks DEF Broker
<1>5. CASE TransportInterrupted \/ Restore \/ UNCHANGED vars
  BY <1>5, TransportQuiet, QuietAcks, CalmAcks
<1> QED BY <1>1, <1>2, <1>3, <1>4, <1>5 DEF Next

-----------------------------------------------------------------------------
(* Who acknowledges single messages *)

\* Only a session in that mode acknowledges a message by itself.
Single == \A i \in 1..Len(up) : up[i].type = "INDIVIDUAL" => mode = "individual"

\* Steps that add no such acknowledgement in another mode.
LEMMA GrownSingle ==
  ASSUME Typed, Single, mode' = mode, NEW S, Grown(S),
         \A a \in S : a.type = "INDIVIDUAL" => mode = "individual"
  PROVE  Single'
<1>1. up \in Seq(Commands) /\ Len(up) \in Nat
  BY DEF Typed, TypeOK
<1>2. up' \in Seq(Commands) /\ Len(up') \in Nat
  BY DEF Grown
<1>3. ASSUME NEW i \in 1..Len(up'), up'[i].type = "INDIVIDUAL" PROVE mode = "individual"
  <2>1. CASE i \in 1..Len(up)
    BY <1>3, <2>1 DEF Single, Grown
  <2>2. CASE i > Len(up)
    BY <1>3, <2>2 DEF Grown
  <2> QED BY <1>1, <1>2, <2>1, <2>2
<1> QED BY <1>3 DEF Single

\* Every step keeps it.
LEMMA SingleStep == ASSUME Typed, BrokerOrder, Single, [Next]_vars PROVE Single'
<1>1. mode' = mode
  BY ModeStays
<1>2. CASE Grown(Harmless)
  BY <1>1, <1>2, GrownSingle DEF Harmless
<1>3. CASE ReceiveAuto \/ AcknowledgeSection \/ BeforeEnd
  <2> DEFINE a == Ack("CONSUMED", Head(delivered), Last(delivered))
             b == TxCommand("BEGIN")
  <2>1. a.type # "INDIVIDUAL" /\ b.type # "INDIVIDUAL"
    BY DEF Ack, TxCommand
  <2>2. Grown({a}) \/ Grown({b, a})
    BY <1>3, AckSteps, EndAckStep, StillGrown
  <2> HIDE DEF a, b
  <2> QED BY <1>1, <2>1, <2>2, GrownSingle
<1>4. ASSUME NEW m \in Messages, AcknowledgeOne(m) PROVE Single'
  <2> DEFINE a == Ack("INDIVIDUAL", m, m)
  <2>1. Grown({a}) /\ mode = "individual"
    BY <1>4, AckOneStep DEF AcknowledgeOne
  <2> HIDE DEF a
  <2> QED BY <1>1, <2>1, GrownSingle
<1>5. CASE SendCommit \/ SendRollback
  <2>1. /\ Len(up') = Len(up) + 1 /\ Len(up) \in Nat
        /\ \A i \in 1..Len(up) : up'[i] = up[i]
        /\ up'[Len(up) + 1].type # "INDIVIDUAL"
    <3>1. Len(up) \in Nat
      BY DEF Typed, TypeOK
    <3> QED BY <1>5, <3>1, EndSteps
  <2>2. \A i \in 1..Len(up') : i \in 1..Len(up) \/ i = Len(up) + 1
    BY <2>1
  <2> QED BY <1>1, <2>1, <2>2 DEF Single
<1>6. CASE BrokerProcess
  <2>1. up \in Seq(Commands) /\ up # <<>> /\ up' = Tail(up)
    BY <1>6 DEF BrokerProcess, Typed, TypeOK
  <2>2. \A i \in 1..Len(up') : up'[i] = up[i + 1] /\ i + 1 \in 1..Len(up)
    BY <2>1
  <2> QED BY <1>1, <2>2 DEF Single
<1>7. CASE TransportInterrupted \/ Restore
  <2>1. \A i \in 1..Len(up') : up'[i].type \notin AckTypes
    BY <1>7, TransportQuiet DEF Quiet
  <2> QED BY <2>1 DEF Single, AckTypes
<1> QED BY <1>2, <1>3, <1>4, <1>5, <1>6, <1>7, CalmSteps
        DEF Next, Receive, Settle, Undo, DispatchStep, Scheduler, Broker, Enters

\* Initially nothing is acknowledged.
LEMMA InitSingle == ASSUME Init PROVE Single
<1>1. up = <<>>
  BY DEF Init
<1>2. 1..Len(up) = {}
  BY <1>1
<1> QED BY <1>2 DEF Single

-----------------------------------------------------------------------------
(* What the broker consumes *)

\* Steps by which nothing is consumed, and what is settled stays so.
LEMMA StillSettled ==
  ASSUME ConsumedIsSettled, UNCHANGED <<mode, consumed>>,
         done \subseteq done', doubt \subseteq doubt', caught \subseteq caught',
         apc = "awaitCommit" =>
            held \cap consumed \subseteq
                done' \cup doubt' \cup (IF apc' = "awaitCommit" THEN held' ELSE {})
  PROVE  ConsumedIsSettled'
BY DEF ConsumedIsSettled

\* The steps of everyone but the broker that takes a command.
LEMMA OthersSettled ==
  ASSUME Typed, ConsumedIsSettled,
         \/ BrokerDispatch \/ TransportInterrupted \/ Restore \/ DispatchTake
         \/ ClearConsumerTask \/ StartConsumerTask \/ DispatchClear \/ DispatchEnqueue
         \/ Receive \/ Settle \/ Undo \/ UNCHANGED vars
  PROVE  ConsumedIsSettled'
<1>1. CASE \/ BrokerDispatch \/ TransportInterrupted \/ Restore \/ DispatchTake
           \/ ClearConsumerTask \/ StartConsumerTask
  <2>1. UNCHANGED <<mode, consumed, done, doubt, held, apc>> /\ caught \subseteq caught'
    BY <1>1 DEF BrokerDispatch, TransportInterrupted, Restore, DispatchTake, ClearConsumerTask,
                StartConsumerTask, cvars, bvars, tvars, hvars
  <2> QED BY <2>1, StillSettled
<1>2. CASE DispatchClear \/ DispatchEnqueue \/ UNCHANGED vars
  <2>1. UNCHANGED <<mode, consumed, done, doubt, held, apc, caught>>
    BY <1>2 DEF DispatchClear, DispatchEnqueue, vars, cvars, bvars, tvars, hvars
  <2> QED BY <2>1, StillSettled
<1>3. CASE \/ Dequeue \/ ReceiveNothing \/ BeforeMessageIsConsumed \/ ReceiveTransacted
           \/ ReceiveAuto \/ ReceiveManual
  <2>1. /\ UNCHANGED <<mode, consumed, doubt>> /\ caught \subseteq caught' /\ done \subseteq done'
        /\ apc # "awaitCommit"
    BY <1>3 DEF Dequeue, ReceiveNothing, BeforeMessageIsConsumed, ReceiveTransacted, ReceiveAuto,
                ReceiveManual, cvars, bvars, hvars
  <2> QED BY <2>1, StillSettled
<1>4. CASE Enters
  <2>1. UNCHANGED <<mode, consumed, done, doubt, caught>> /\ apc # "awaitCommit"
    BY <1>4, EnterFacts DEF Enter, cvars, bvars, hvars
  <2> QED BY <2>1, StillSettled
<1>5. CASE \/ AcknowledgeSection \/ BeforeEnd \/ SendCommit \/ SendRollback \/ RemoveAcknowledged
           \/ \E m \in Messages : AcknowledgeOne(m)
  <2>1. UNCHANGED <<mode, consumed, doubt, caught>> /\ done \subseteq done' /\ apc # "awaitCommit"
    BY <1>5 DEF AcknowledgeSection, BeforeEnd, SendCommit, SendRollback, SendEnd, AcknowledgeOne,
                RemoveAcknowledged, cvars, bvars, hvars
  <2> QED BY <2>1, StillSettled
<1>6. CASE RollbackConsumer
  <2>1. UNCHANGED <<mode, consumed, done, doubt, caught>> /\ apc # "awaitCommit"
    BY <1>6, Zenon DEF RollbackConsumer, cvars, bvars
  <2> QED BY <2>1, StillSettled
<1>7. CASE AfterCommit
  <2>1. UNCHANGED <<mode, consumed, doubt>> /\ caught \subseteq caught' /\ done' = done \cup held
    BY <1>7 DEF AfterCommit, cvars, bvars
  <2> QED BY <2>1, StillSettled
<1>8. CASE AfterRollback
  <2>1. UNCHANGED <<mode, consumed, done, doubt, caught>> /\ apc # "awaitCommit"
    BY <1>8 DEF AfterRollback, cvars, bvars, hvars
  <2> QED BY <2>1, StillSettled
<1>9. CASE CommitInDoubt
  <2>1. UNCHANGED <<mode, consumed, done, caught>> /\ doubt' = doubt \cup (held \cap consumed)
    BY <1>9 DEF CommitInDoubt, cvars, bvars
  <2> QED BY <2>1, StillSettled
<1> QED BY <1>1, <1>2, <1>3, <1>4, <1>5, <1>6, <1>7, <1>8, <1>9
        DEF Receive, Settle, Undo, Enters

\* The broker consumes what an acknowledgement names, or what the transaction has.
LEMMA BrokerProcessSettled ==
  ASSUME Typed, BrokerOrder, Protocol, Acks, Single, ConsumedIsSettled, BrokerProcess
  PROVE  ConsumedIsSettled'
<1> DEFINE c == Head(up)
<1>1. UNCHANGED <<mode, held, done, doubt, caught, apc>>
  BY DEF BrokerProcess, cvars, tvars, hvars
<1>2. up # <<>> /\ Takes(c) /\ Sorted(inflight, {}) /\ c \in Commands
  BY BrokerTakes DEF BrokerOrder
<1>3. c = up[1] /\ 1 \in 1..Len(up)
  <2>1. up \in Seq(Commands)
    BY DEF Typed, TypeOK
  <2> QED BY <1>2, <2>1
<1>4. mode \in AllModes
  BY ConsumerAssumption DEF Typed, TypeOK
<1> HIDE DEF c
<1>5. CASE consumed' = consumed
  BY <1>1, <1>5, StillSettled
<1>6. CASE /\ c.type = "INDIVIDUAL" \/ (c.type = "CONSUMED" /\ ~Transacted)
           /\ consumed' = consumed \cup AckRange(c)
  <2>1. AckWell(1)
    BY <1>3, <1>6 DEF Acks, AckTypes
  <2>2. CASE mode \in {"auto", "individual"}
    <3>1. c.first = c.last /\ c.last \in done
      BY <1>3, <2>1, <2>2 DEF AckWell
    <3>2. AckRange(c) \subseteq done
      <4> SUFFICES ASSUME NEW x \in AckRange(c) PROVE x = c.last
        BY <3>1
      <4>1. c.first <= x /\ x <= c.last
        BY <1>2, RangeBounds
      <4>2. x \in Nat /\ c.last \in Nat
        <5>1. x \in ToSet(inflight)
          BY RangeInFlight
        <5>2. x \in Messages
          BY <5>1, InList DEF Typed, TypeOK
        <5> QED BY <1>2, <5>2, MessageFacts DEF Commands
      <4> QED BY <3>1, <4>1, <4>2
    <3> QED BY <1>1, <1>6, <2>2, <3>2 DEF ConsumedIsSettled
  <2>3. CASE mode = "client"
    <3>1. Covers(1, c.first, c.last)
      BY <1>3, <2>1, <2>3 DEF AckWell
    <3>2. AckRange(c) \cap caught # {} \/ AckRange(c) \subseteq done
      BY <2>3, <3>1, CoveredRange DEF Answered, Transacted
    <3> QED BY <1>1, <1>6, <2>3, <3>2 DEF ConsumedIsSettled
  <2>4. CASE mode = "transacted"
    <3>1. c.type = "INDIVIDUAL"
      BY <1>6, <2>4 DEF Transacted
    <3> QED BY <1>3, <2>4, <3>1 DEF Single
  <2> QED BY <1>4, <2>2, <2>3, <2>4 DEF AllModes
<1>7. CASE c.type = "COMMIT" /\ consumed' = consumed \cup brokerTx
  <2>1. apc = "awaitCommit"
    BY <1>3, <1>7 DEF Protocol, EndsWell, EndTypes
  <2>2. mode = "transacted" /\ (brokerTx \cap caught # {} \/ brokerTx \subseteq held \cup done)
    BY <2>1 DEF Protocol, Ending, Transacted, Acks, Committing
  <2> QED BY <1>1, <1>7, <2>1, <2>2 DEF ConsumedIsSettled
<1> QED BY <1>2, <1>5, <1>6, <1>7 DEF Takes

-----------------------------------------------------------------------------
(* Theorem *)

\* All that the proof needs.
Settling ==
    /\ Typed /\ Knows /\ Recorded /\ BrokerOrder /\ ClientOrder /\ Protocol /\ Expected
    /\ Accounted /\ Alone /\ Acks /\ Single

\* The broker removes a message as consumed only when the application has acknowledged
\* it, or its commit() is under way or has consumed it and lost the answer; or when
\* the range of an acknowledgement of a transacted or client-acknowledge session has
\* reached to a message that an interruption caught half way, or that a commit()
\* retried after a failure left with the consumer.  So without a lost connection no
\* range of acknowledge() or commit() covers a message the application has not been
\* given, whatever rollbacks, refused messages and announcements lie between its ends.
THEOREM ConsumedOnlyIfSettled == Spec => []ConsumedIsSettled
<1>1. Init => Settling /\ ConsumedIsSettled
  <2>1. ASSUME Init PROVE ConsumedIsSettled
    BY <2>1 DEF Init, ConsumedIsSettled
  <2> QED BY <2>1, InitTyped, InitKnows, InitRecorded, InitBrokerOrder, InitClientOrder,
             InitProtocol, InitExpected, InitAccounted, InitAlone, InitAcks, InitSingle DEF Settling
<1>2. ASSUME Settling, [Next]_vars PROVE Settling'
  <2>1. Typed' /\ Knows' /\ Recorded'
    BY <1>2, TypedStep, KnowsStep, RecordedStep DEF Settling
  <2>2. BrokerOrder' /\ ClientOrder' /\ Expected' /\ Alone' /\ Single'
    BY <1>2, BrokerOrderStep, ClientOrderStep, ExpectedStep, AloneStep, SingleStep DEF Settling
  <2>3. Protocol' /\ Accounted' /\ Acks'
    BY <1>2, <2>1, ProtocolStep, AccountedStep, AcksStep DEF Settling
  <2> QED BY <2>1, <2>2, <2>3 DEF Settling
<1>3. ASSUME Settling, ConsumedIsSettled, [Next]_vars PROVE ConsumedIsSettled'
  BY <1>3, OthersSettled, BrokerProcessSettled
     DEF Settling, Next, DispatchStep, Scheduler, Broker
<1> QED BY <1>1, <1>2, <1>3, PTL DEF Spec
=============================================================================
