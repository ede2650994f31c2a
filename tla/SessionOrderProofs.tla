------------------------- MODULE SessionOrderProofs -------------------------
(***************************************************************************)
(* The order in which a consumer's listener sees its messages, for one     *)
(* application thread that calls start(), stop() and setMessageListener(). *)
(*                                                                         *)
(* The places a message passes through are lined up: delivered, taken from *)
(* its consumer by iterate(), put aside at the consumer, taken from the    *)
(* session's queue, on its way back through redispatch(), queued at the    *)
(* session.  InLine says that a message that is ahead of another one of    *)
(* its consumer is the older one, unless stop() displaced the older; a     *)
(* step moves a message from a place to the next one and keeps the line.   *)
(***************************************************************************)
EXTENDS SessionDispatchProofs

\* Message a is in list s; a is in it before b.
Holds(s, a) == \E i \in 1..Len(s) : s[i] = a
Follows(s, a, b) == \E i, j \in 1..Len(s) : i < j /\ s[i] = a /\ s[j] = b

\* Where dispatch() has a message it has not yet passed on.
Passing == {"dispatch", "listen"}

IsShown(a)  == Holds(delivered, a)
IsPolled(a) == \E r \in Runners : dpc[r] \in Passing /\ hold[r] = a /\ cur[r] # None
IsAside(a)  == Holds(channel[Dest[a]], a)
IsTaken(a)  == \E r \in Runners : dpc[r] \in Passing /\ hold[r] = a /\ cur[r] = None
IsBack(a)   == \E c \in Controllers : Holds(moved[c], a)
IsQueued(a) == Holds(sessionQueue, a)

\* Message a reaches the listener before b, if nothing is displaced.
Ahead(a, b) ==
    \/ Follows(delivered, a, b)
    \/ Follows(channel[Dest[b]], a, b)
    \/ \E c \in Controllers : Follows(moved[c], a, b)
    \/ Follows(sessionQueue, a, b)
    \/ IsShown(a) /\ (IsPolled(b) \/ IsAside(b) \/ IsTaken(b) \/ IsBack(b) \/ IsQueued(b))
    \/ IsPolled(a) /\ (IsAside(b) \/ IsQueued(b))
    \/ IsAside(a) /\ (IsTaken(b) \/ IsQueued(b))
    \/ IsTaken(a) /\ IsQueued(b)
    \/ IsBack(a) /\ IsQueued(b)

\* Message a may be shown before b.
MayPrecede(a, b) == Dest[a] = Dest[b] /\ a > b => b \in displaced

InLine == async => \A a, b \in Messages : Ahead(a, b) => MayPrecede(a, b)

\* A consumer that would deliver has nothing put aside.
Clear(k) == listener[k] /\ channelRunning[k] => channel[k] = <<>>

\* iterate() takes a message from the session's queue only after the consumers
\* have been looked at; what it takes from a consumer is for that consumer.
ScannedBy(r) ==
    /\ dpc[r] \in {"scan", "poll"} => \A k \in Consumers \ scan[r] : Clear(k)
    /\ dpc[r] \in Passing /\ cur[r] = None => Clear(Dest[hold[r]])
    /\ dpc[r] \in Passing /\ cur[r] # None => cur[r] = Dest[hold[r]]
    /\ dpc[r] \notin {"poll"} \cup Carrying => cur[r] = None

Scanned == \A r \in Runners : ScannedBy(r)

\* While setMessageListener() is at work, and until start() has reached the
\* session's queue, that queue is stopped.
Halted ==
    \A c \in Controllers : cpc[c] \in Assigning \cup {"startConsumers", "startQueue"} => ~running

\* What redispatch() puts back is for the consumer it has emptied.
Emptied ==
    async => \A c \in Controllers :
        moved[c] # <<>> =>
            /\ channel[target[c]] = <<>>
            /\ \A i \in 1..Len(moved[c]) : Dest[moved[c][i]] = target[c]

\* A synchronous session delivers on the reader's thread, as messages arrive.
Direct ==
    ~async =>
        /\ \A i, j \in 1..Len(delivered) : i < j => delivered[i] <= delivered[j]
        /\ \A i \in 1..Len(delivered) : delivered[i] <= arrived
        /\ dpc[IO] \in Passing => hold[IO] = arrived

Lined == InLine /\ Scanned /\ Halted /\ Emptied /\ Direct

-----------------------------------------------------------------------------
(* Lemmas on lists: what is in them, and in which order *)

\* A message that is appended is in the list.
LEMMA AppendHolds ==
  ASSUME NEW S, NEW s \in Seq(S), NEW x \in S, NEW a
  PROVE  Holds(Append(s, x), a) <=> Holds(s, a) \/ a = x
BY DEF Holds

\* A message that is appended comes after the others.
LEMMA AppendLine ==
  ASSUME NEW S, NEW s \in Seq(S), NEW x \in S, NEW a, NEW b
  PROVE  Follows(Append(s, x), a, b) => Follows(s, a, b) \/ (Holds(s, a) /\ b = x)
<1>1. /\ Len(Append(s, x)) = Len(s) + 1 /\ Len(s) \in Nat
      /\ \A i \in 1..Len(s) : Append(s, x)[i] = s[i]
      /\ Append(s, x)[Len(s) + 1] = x
  OBVIOUS
<1>2. ASSUME Follows(Append(s, x), a, b) PROVE Follows(s, a, b) \/ (Holds(s, a) /\ b = x)
  <2>1. PICK i, j \in 1..(Len(s) + 1) : i < j /\ Append(s, x)[i] = a /\ Append(s, x)[j] = b
    BY <1>1, <1>2 DEF Follows
  <2>2. i \in 1..Len(s) /\ s[i] = a
    BY <1>1, <2>1
  <2> QED BY <1>1, <2>1, <2>2 DEF Follows, Holds
<1> QED BY <1>2

\* The first message of a list comes before the others.
LEMMA TailLine ==
  ASSUME NEW S, NEW s \in Seq(S), s # <<>>, NEW a, NEW b
  PROVE  /\ Holds(s, Head(s))
         /\ Holds(Tail(s), a) => Holds(s, a) /\ Follows(s, Head(s), a)
         /\ Follows(Tail(s), a, b) => Follows(s, a, b)
<1>1. /\ Len(s) \in Nat \ {0} /\ Len(Tail(s)) = Len(s) - 1 /\ Head(s) = s[1]
      /\ \A i \in 1..(Len(s) - 1) : Tail(s)[i] = s[i + 1]
  OBVIOUS
<1>2. Holds(s, Head(s))
  BY <1>1 DEF Holds
<1>3. ASSUME Holds(Tail(s), a) PROVE Holds(s, a) /\ Follows(s, Head(s), a)
  <2>1. PICK i \in 1..(Len(s) - 1) : Tail(s)[i] = a
    BY <1>1, <1>3 DEF Holds
  <2>2. i + 1 \in 1..Len(s) /\ 1 \in 1..Len(s) /\ 1 < i + 1 /\ s[i + 1] = a
    BY <1>1, <2>1
  <2> QED BY <1>1, <2>2 DEF Follows, Holds
<1>4. ASSUME Follows(Tail(s), a, b) PROVE Follows(s, a, b)
  <2>1. PICK i, j \in 1..(Len(s) - 1) : i < j /\ Tail(s)[i] = a /\ Tail(s)[j] = b
    BY <1>1, <1>4 DEF Follows
  <2>2. i + 1 \in 1..Len(s) /\ j + 1 \in 1..Len(s) /\ i + 1 < j + 1 /\ s[i + 1] = a /\ s[j + 1] = b
    BY <1>1, <2>1
  <2> QED BY <2>2 DEF Follows
<1> QED BY <1>2, <1>3, <1>4

\* The last message of a list comes after the others.
LEMMA FrontLine ==
  ASSUME NEW S, NEW s \in Seq(S), s # <<>>, NEW a, NEW b
  PROVE  /\ Holds(s, Last(s))
         /\ Holds(Front(s), a) => Holds(s, a) /\ Follows(s, a, Last(s))
         /\ Follows(Front(s), a, b) => Follows(s, a, b)
<1>1. /\ Len(s) \in Nat \ {0} /\ Len(Front(s)) = Len(s) - 1 /\ Last(s) = s[Len(s)]
      /\ \A i \in 1..(Len(s) - 1) : Front(s)[i] = s[i]
  <2>1. Len(s) \in Nat \ {0} /\ Last(s) = s[Len(s)]
    BY DEF Last
  <2>2. Front(s) = [i \in 1..(Len(s) - 1) |-> s[i]]
    BY <2>1 DEF Front
  <2> QED BY <2>1, <2>2
<1>2. Holds(s, Last(s))
  BY <1>1 DEF Holds
<1>3. ASSUME Holds(Front(s), a) PROVE Holds(s, a) /\ Follows(s, a, Last(s))
  <2>1. PICK i \in 1..(Len(s) - 1) : Front(s)[i] = a
    BY <1>1, <1>3 DEF Holds
  <2>2. i \in 1..Len(s) /\ Len(s) \in 1..Len(s) /\ i < Len(s) /\ s[i] = a
    BY <1>1, <2>1
  <2> QED BY <1>1, <2>2 DEF Follows, Holds
<1>4. ASSUME Follows(Front(s), a, b) PROVE Follows(s, a, b)
  <2>1. PICK i, j \in 1..(Len(s) - 1) : i < j /\ Front(s)[i] = a /\ Front(s)[j] = b
    BY <1>1, <1>4 DEF Follows
  <2>2. i \in 1..Len(s) /\ j \in 1..Len(s) /\ s[i] = a /\ s[j] = b
    BY <1>1, <2>1
  <2> QED BY <2>1, <2>2 DEF Follows
<1> QED BY <1>2, <1>3, <1>4

\* A message that is put in front comes before the others.
LEMMA ConsLine ==
  ASSUME NEW S, NEW s \in Seq(S), NEW x \in S, NEW a, NEW b
  PROVE  /\ Holds(<<x>> \o s, a) => Holds(s, a) \/ a = x
         /\ Follows(<<x>> \o s, a, b) => Follows(s, a, b) \/ (a = x /\ Holds(s, b))
<1> DEFINE t == <<x>> \o s
<1>1. /\ Len(t) = Len(s) + 1 /\ Len(s) \in Nat /\ t[1] = x
      /\ \A i \in 2..(Len(s) + 1) : t[i] = s[i - 1]
  OBVIOUS
<1> HIDE DEF t
<1>2. ASSUME Holds(t, a) PROVE Holds(s, a) \/ a = x
  <2>1. PICK i \in 1..(Len(s) + 1) : t[i] = a
    BY <1>1, <1>2 DEF Holds
  <2>2. CASE i = 1
    BY <1>1, <2>1, <2>2
  <2>3. CASE i # 1
    <3>1. i - 1 \in 1..Len(s) /\ s[i - 1] = a
      BY <1>1, <2>1, <2>3
    <3> QED BY <3>1 DEF Holds
  <2> QED BY <2>2, <2>3
<1>3. ASSUME Follows(t, a, b) PROVE Follows(s, a, b) \/ (a = x /\ Holds(s, b))
  <2>1. PICK i, j \in 1..(Len(s) + 1) : i < j /\ t[i] = a /\ t[j] = b
    BY <1>1, <1>3 DEF Follows
  <2>2. j - 1 \in 1..Len(s) /\ s[j - 1] = b
    BY <1>1, <2>1
  <2>3. CASE i = 1
    BY <1>1, <2>1, <2>2, <2>3 DEF Holds
  <2>4. CASE i # 1
    <3>1. i - 1 \in 1..Len(s) /\ s[i - 1] = a /\ i - 1 < j - 1
      BY <1>1, <2>1, <2>4
    <3> QED BY <2>2, <3>1 DEF Follows
  <2> QED BY <2>3, <2>4
<1> QED BY <1>2, <1>3 DEF t

\* Nothing is in an empty list.
LEMMA EmptyLine ==
  ASSUME NEW a, NEW b
  PROVE  ~Holds(<<>>, a) /\ ~Follows(<<>>, a, b)
BY DEF Holds, Follows

\* What is in order in a list is in the list.
LEMMA FollowsHolds ==
  ASSUME NEW s, NEW a, NEW b, Follows(s, a, b)
  PROVE  Holds(s, a) /\ Holds(s, b)
BY DEF Holds, Follows

-----------------------------------------------------------------------------
(* Which task runners run *)

\* At most one task runner runs.
LEMMA OneLive ==
  ASSUME OneController, Orderly, NEW r \in Runners, NEW e \in Runners,
         dpc[r] \notin {"unborn", "done"}, dpc[e] \notin {"unborn", "done"}
  PROVE  r = e
<1>1. r # 0 /\ e # 0
  BY DEF Runners
<1> QED BY <1>1 DEF Orderly, OneRunner, OneController

\* None runs where Halted says that the session's queue is stopped.
LEMMA NoneLive ==
  ASSUME OneController, Orderly, Halted, NEW c \in Controllers,
         cpc[c] \in Assigning \cup {"startConsumers", "startQueue"}
  PROVE  \A r \in Runners : dpc[r] \in {"unborn", "done"}
<1>1. ~running /\ taskRunner = 0
  BY DEF Halted, Orderly, OneRunner
<1>2. \A e \in Controllers : cpc[e] \notin Joining
  BY DEF OneController, Assigning, Joining
<1>3. \A r \in Runners : r # 0
  BY DEF Runners
<1> QED BY <1>1, <1>2, <1>3 DEF Orderly, OneRunner

\* While a task runner runs, nothing is on its way back.
LEMMA LiveIsSettled ==
  ASSUME OneController, Orderly, Halted, NEW r \in Runners, dpc[r] \notin {"unborn", "done"}
  PROVE  \A c \in Controllers : moved[c] = <<>> /\ cpc[c] \notin Assigning
<1>1. \A c \in Controllers : cpc[c] \notin Assigning
  BY NoneLive
<1> QED BY <1>1 DEF Orderly, Base, Struct, Errands, Assigning

\* A synchronous session has no task runner at work.
LEMMA SyncUnborn ==
  ASSUME Orderly, ~async
  PROVE  \A r \in Runners : dpc[r] = "unborn"
BY Kinds DEF Orderly, ModesApart, Base, Struct, Hands, Runners

\* Only one thread passes a message on.
LEMMA OnePasses ==
  ASSUME OneController, Orderly, NEW d \in Dispatchers, dpc[d] \in Passing,
         NEW e \in Dispatchers, dpc[e] \in Carrying
  PROVE  d = e
<1>1. hold[d] # 0 /\ hold[e] # 0
  BY DEF Orderly, Base, Struct, Hands, Passing, Carrying
<1> QED BY <1>1, OrderlyIsSerial DEF SerialDispatch

-----------------------------------------------------------------------------
(* The line *)

\* A step that leaves the lists alone and takes no message in hand.
Quiet ==
    /\ UNCHANGED <<async, delivered, channel, moved, sessionQueue, displaced>>
    /\ \A r \in Runners : dpc'[r] \in Passing =>
          dpc[r] \in Passing /\ hold'[r] = hold[r] /\ cur'[r] = cur[r]

\* Such a step keeps the line.
LEMMA QuietLine == ASSUME InLine, Quiet PROVE InLine'
<1>1. \A a \in Messages :
        /\ IsShown(a)' <=> IsShown(a)
        /\ IsPolled(a)' => IsPolled(a)
        /\ IsAside(a)' <=> IsAside(a)
        /\ IsTaken(a)' => IsTaken(a)
        /\ IsBack(a)' <=> IsBack(a)
        /\ IsQueued(a)' <=> IsQueued(a)
  BY DEF Quiet, IsShown, IsPolled, IsAside, IsTaken, IsBack, IsQueued
<1>2. \A a, b \in Messages : Ahead(a, b)' => Ahead(a, b)
  BY <1>1 DEF Quiet, Ahead
<1>3. \A a, b \in Messages : MayPrecede(a, b) => MayPrecede(a, b)'
  BY DEF Quiet, MayPrecede
<1> QED BY <1>2, <1>3 DEF InLine, Quiet

\* A message that is in some place has arrived.
LEMMA PlacedArrived ==
  ASSUME Base, NEW a \in Messages,
         \/ IsShown(a) \/ IsPolled(a) \/ IsAside(a) \/ IsTaken(a) \/ IsBack(a) \/ IsQueued(a)
  PROVE  a <= arrived
<1> SUFFICES ASSUME ~(a <= arrived) PROVE FALSE
  OBVIOUS
<1>1. Places(a) = 0
  BY DEF Base, InOnePlace
<1>2. /\ Queued(a) \in Nat /\ Aside(a) \in Nat /\ Shown(a) \in Nat
      /\ Gone(a) \in Nat /\ Moving(a) \in Nat
  BY CountsAreNat DEF Base, Struct
<1>3. IsFiniteSet(Carriers(a)) /\ Carried(a) \in Nat
  <2>1. IsFiniteSet(Runners)
    BY SessionAssumption, FS_Interval DEF Runners
  <2>2. IsFiniteSet(Dispatchers)
    BY <2>1, FS_AddElement DEF Dispatchers
  <2>3. Carriers(a) \in SUBSET Dispatchers
    BY DEF Carriers
  <2> QED BY <2>2, <2>3, FS_Subset, FS_CardinalityType DEF Carried
<1>4. Queued(a) + Aside(a) + Shown(a) + Moving(a) + Carried(a) + Gone(a) = 0
  BY <1>1 DEF Places, Queued, Aside, Shown, Moving, Carried, Gone
<1>5. Queued(a) = 0 /\ Aside(a) = 0 /\ Shown(a) = 0 /\ Moving(a) = 0 /\ Carried(a) = 0
  <2>1. Carried(a) = 0 /\ Shown(a) = 0
    BY <1>2, <1>3, <1>4
  <2>2. Queued(a) = 0
    BY <1>2, <1>3, <1>4
  <2>3. Aside(a) = 0
    BY <1>2, <1>3, <1>4
  <2>4. Moving(a) = 0
    BY <1>2, <1>3, <1>4, <2>1, <2>2, <2>3
  <2> QED BY <2>1, <2>2, <2>3, <2>4
<1>6. Positions(sessionQueue, a) = {} /\ Positions(delivered, a) = {}
  BY <1>5, PositionsFinite DEF Queued, Shown, TypeOK, Base, Struct
<1>7. Positions(channel[Dest[a]], a) = {}
  <2>1. channel[Dest[a]] \in Seq(Messages)
    BY Kinds DEF TypeOK, Base, Struct
  <2> QED BY <1>5, <2>1, PositionsFinite DEF Aside
<1>8. Carriers(a) = {}
  BY <1>3, <1>5, FS_EmptySet DEF Carried
<1>9. Returning(a) = {}
  <2>1. IsFiniteSet(Back(moved, a))
    BY BackFinite DEF TypeOK, Base, Struct
  <2>2. Returning(a) = Back(moved, a)
    BY DEF Returning, Back
  <2> QED BY <1>5, <2>1, <2>2, FS_EmptySet DEF Moving
<1>10. ~IsQueued(a) /\ ~IsShown(a) /\ ~IsAside(a)
  BY <1>6, <1>7 DEF IsQueued, IsShown, IsAside, Holds, Positions
<1>11. ~IsBack(a)
  <2> SUFFICES ASSUME NEW c \in Controllers, NEW i \in 1..Len(moved[c]), moved[c][i] = a
               PROVE  FALSE
    BY DEF IsBack, Holds
  <2>1. <<c, i>> \in {c} \X Positions(moved[c], a)
    BY DEF Positions
  <2> QED BY <1>9, <2>1 DEF Returning
<1>12. ~IsPolled(a) /\ ~IsTaken(a)
  BY <1>8 DEF IsPolled, IsTaken, Carriers, Passing, Dispatchers
<1> QED BY <1>10, <1>11, <1>12

\* A message that arrives is the newest, and the last of the session's queue.
LEMMA ExecuteLine == ASSUME Orderly, InLine, Execute PROVE InLine'
<1>1. UNCHANGED <<async, channel, moved, delivered, displaced, cur>> /\ arrived' = arrived + 1
      /\ arrived < MaxMessages
  BY DEF Execute, kvars, cvars, hvars, setup, dvars
<1>2. CASE ~async
  BY <1>1, <1>2 DEF InLine
<1>3. CASE async
  <2> DEFINE n == arrived + 1
  <2>1. sessionQueue' = Append(sessionQueue, n) /\ UNCHANGED <<dpc, hold>>
    BY <1>1, <1>3 DEF Execute, dvars
  <2>2. sessionQueue \in Seq(Messages) /\ n \in Messages /\ arrived \in Nat
    BY <1>1, SessionAssumption DEF Orderly, Base, Struct, TypeOK, Messages
  <2> HIDE DEF n
  <2>3. \A a, b \in Messages :
          /\ IsQueued(a)' => IsQueued(a) \/ a = n
          /\ Follows(sessionQueue', a, b) => Follows(sessionQueue, a, b) \/ (IsQueued(a) /\ b = n)
    BY <2>1, <2>2, AppendHolds, AppendLine DEF IsQueued
  <2>4. \A a \in Messages :
        /\ IsShown(a)' <=> IsShown(a)
        /\ IsPolled(a)' <=> IsPolled(a)
        /\ IsAside(a)' <=> IsAside(a)
        /\ IsTaken(a)' <=> IsTaken(a)
        /\ IsBack(a)' <=> IsBack(a)
    BY <1>1, <2>1 DEF IsShown, IsPolled, IsAside, IsTaken, IsBack
  <2>5. \A a, b \in Messages : Ahead(a, b)' =>
          \/ Ahead(a, b)
          \/ b = n /\ (IsShown(a) \/ IsPolled(a) \/ IsAside(a) \/ IsTaken(a) \/ IsBack(a) \/ IsQueued(a))
    BY <1>1, <2>3, <2>4 DEF Ahead
  <2>6. \A a, b \in Messages : Ahead(a, b)' => Ahead(a, b) \/ (b = n /\ a <= arrived)
    BY <2>5, PlacedArrived DEF Orderly
  <2>7. \A a \in Messages : a <= arrived => MayPrecede(a, n)
    BY <2>2 DEF MayPrecede, n, Messages
  <2>8. \A a, b \in Messages : MayPrecede(a, b) => MayPrecede(a, b)'
    BY <1>1 DEF MayPrecede
  <2> QED BY <1>1, <1>3, <2>6, <2>7, <2>8 DEF InLine
<1> QED BY <1>2, <1>3

\* What iterate() takes from a consumer was the first put aside there.
LEMMA PollConsumerLine ==
  ASSUME Orderly, InLine, NEW r \in Runners, PollConsumer(r)
  PROVE  InLine'
<1> DEFINE k == cur[r]
           n == Head(channel[k])
<1>1. /\ UNCHANGED <<async, moved, delivered, displaced, sessionQueue>>
      /\ dpc[r] = "poll" /\ k \in Consumers
  BY DEF PollConsumer, qvars, cvars, hvars, setup, Orderly, Base, Struct, Hands, Dispatchers
<1>2. CASE channelRunning[k] /\ channel[k] # <<>>
  <2>1. /\ hold' = [hold EXCEPT ![r] = n] /\ channel' = [channel EXCEPT ![k] = Tail(@)]
        /\ dpc' = [dpc EXCEPT ![r] = "dispatch"] /\ UNCHANGED cur
    BY <1>2 DEF PollConsumer
  <2>2. channel[k] \in Seq(Messages) /\ channel \in [Consumers -> Seq(Messages)]
    BY <1>1 DEF Orderly, Base, Struct, TypeOK
  <2>3. n \in Messages /\ Dest[n] = k
    BY <1>1, <1>2, <2>2 DEF Orderly, Base, Struct, Routed
  <2>4. /\ channel'[k] = Tail(channel[k])
        /\ \A e \in Consumers : e # k => channel'[e] = channel[e]
    BY <1>1, <2>1, <2>2
  <2>5. \A e \in Runners : e # r => dpc'[e] = dpc[e] /\ hold'[e] = hold[e]
    BY <2>1 DEF Orderly, Base, Struct, TypeOK, Dispatchers
  <2>6. hold'[r] = n
    BY <2>1 DEF Orderly, Base, Struct, TypeOK, Dispatchers
  <2> HIDE DEF k, n
  <2>7. \A a \in Messages : /\ IsPolled(a)' => IsPolled(a) \/ a = n
                            /\ IsTaken(a)' => IsTaken(a)
    <3>1. cur[r] # None
      BY <1>1, SessionAssumption DEF k
    <3> QED BY <2>1, <2>5, <2>6, <3>1 DEF IsPolled, IsTaken
  <2>8. \A a \in Messages : Dest[a] \in Consumers
    BY Kinds
  <2>9. /\ IsAside(n)
        /\ \A a \in Messages : IsAside(a)' =>
             IsAside(a) /\ (Dest[a] = k => Follows(channel[k], n, a))
    <3>1. Holds(channel[k], n)
      BY <1>2, <2>2, TailLine DEF n
    <3>2. ASSUME NEW a \in Messages, Holds(channel'[Dest[a]], a)
          PROVE  Holds(channel[Dest[a]], a) /\ (Dest[a] = k => Follows(channel[k], n, a))
      <4>1. CASE Dest[a] = k
        BY <1>2, <2>2, <2>4, <3>2, <4>1, TailLine DEF n
      <4>2. CASE Dest[a] # k
        BY <2>4, <2>8, <3>2, <4>2
      <4> QED BY <4>1, <4>2
    <3> QED BY <2>3, <3>1, <3>2 DEF IsAside
  <2>10. \A a, b \in Messages :
           Follows(channel'[Dest[b]], a, b) => Follows(channel[Dest[b]], a, b)
    BY <1>2, <2>2, <2>4, <2>8, TailLine
  <2>11. \A a \in Messages :
        /\ IsShown(a)' <=> IsShown(a)
        /\ IsBack(a)' <=> IsBack(a)
        /\ IsQueued(a)' <=> IsQueued(a)
    BY <1>1 DEF IsShown, IsBack, IsQueued
  <2>12. \A a, b \in Messages : Ahead(a, b)' => Ahead(a, b) \/ Dest[a] # Dest[b]
    BY <1>1, <2>3, <2>7, <2>9, <2>10, <2>11 DEF Ahead
  <2>13. \A a, b \in Messages : MayPrecede(a, b) \/ Dest[a] # Dest[b] => MayPrecede(a, b)'
    BY <1>1 DEF MayPrecede
  <2> QED BY <1>1, <2>12, <2>13 DEF InLine
<1>3. CASE ~(channelRunning[k] /\ channel[k] # <<>>)
  <2>1. Quiet
    BY <1>1, <1>3 DEF PollConsumer, Quiet, Passing, Orderly, Base, Struct, TypeOK, Dispatchers
  <2> QED BY <2>1, QuietLine
<1> QED BY <1>2, <1>3

\* What iterate() takes from the session's queue was the first there.
LEMMA DequeueLine ==
  ASSUME Orderly, InLine, Scanned, NEW r \in Runners, Dequeue(r)
  PROVE  InLine'
<1> DEFINE n == Head(sessionQueue)
<1>1. /\ UNCHANGED <<async, moved, delivered, displaced, channel, cur>>
      /\ dpc[r] = "scan"
  BY DEF Dequeue, kvars, cvars, hvars, setup
<1>2. CASE running /\ sessionQueue # <<>>
  <2>1. /\ hold' = [hold EXCEPT ![r] = n] /\ sessionQueue' = Tail(sessionQueue)
        /\ dpc' = [dpc EXCEPT ![r] = "dispatch"]
    BY <1>2 DEF Dequeue, DequeueNoWait
  <2>2. sessionQueue \in Seq(Messages) /\ n \in Messages
    BY <1>2 DEF Orderly, Base, Struct, TypeOK
  <2>3. \A e \in Runners : e # r => dpc'[e] = dpc[e] /\ hold'[e] = hold[e]
    BY <2>1 DEF Orderly, Base, Struct, TypeOK, Dispatchers
  <2>4. hold'[r] = n /\ cur[r] = None
    BY <1>1, <2>1 DEF Orderly, Base, Struct, TypeOK, Dispatchers, Scanned, ScannedBy, Carrying
  <2>5. /\ IsQueued(n)
        /\ \A a \in Messages : IsQueued(a)' => IsQueued(a) /\ Follows(sessionQueue, n, a)
        /\ \A a, b \in Messages : Follows(sessionQueue', a, b) => Follows(sessionQueue, a, b)
    BY <1>2, <2>1, <2>2, TailLine DEF IsQueued
  <2> HIDE DEF n
  <2>6. \A a \in Messages : /\ IsPolled(a)' => IsPolled(a)
                            /\ IsTaken(a)' => IsTaken(a) \/ a = n
    BY <1>1, <2>3, <2>4 DEF IsPolled, IsTaken
  <2>7. \A a \in Messages :
        /\ IsShown(a)' <=> IsShown(a)
        /\ IsAside(a)' <=> IsAside(a)
        /\ IsBack(a)' <=> IsBack(a)
    BY <1>1 DEF IsShown, IsBack, IsAside
  <2>8. \A a, b \in Messages : Ahead(a, b)' => Ahead(a, b)
    BY <1>1, <2>2, <2>5, <2>6, <2>7 DEF Ahead
  <2>9. \A a, b \in Messages : MayPrecede(a, b) => MayPrecede(a, b)'
    BY <1>1 DEF MayPrecede
  <2> QED BY <1>1, <2>8, <2>9 DEF InLine
<1>3. CASE ~(running /\ sessionQueue # <<>>)
  <2>1. Quiet
    BY <1>1, <1>3 DEF Dequeue, Quiet, Passing, Orderly, Base, Struct, TypeOK, Dispatchers
  <2> QED BY <2>1, QuietLine
<1> QED BY <1>2, <1>3

\* The listener gets a message that no message of its consumer is ahead of; a
\* message that is put aside goes behind the others or is displaced.
LEMMA ListenLine ==
  ASSUME OneController, Orderly, Lined, NEW d \in Dispatchers, Listen(d)
  PROVE  InLine'
<1> DEFINE m == hold[d]
           k == Dest[m]
<1>1. /\ UNCHANGED <<async, moved, sessionQueue>> /\ dpc[d] = "listen"
      /\ displaced \subseteq displaced'
  BY DEF Listen, qvars, cvars, setup
<1>2. CASE ~async
  BY <1>1, <1>2 DEF InLine
<1>3. CASE async
  <2>1. d \in Runners
    BY <1>1, <1>3 DEF Orderly, ModesApart, Dispatchers
  <2>2. m \in Messages /\ k \in Consumers
    BY <1>1, LocksRoute DEF Orderly, Base, Carrying
  <2>3. \A e \in Runners : dpc[e] \in Passing => e = d
    BY <1>1, OnePasses DEF Passing, Carrying, Dispatchers
  <2>4. \A a \in Messages : (IsPolled(a) \/ IsTaken(a) => a = m) /\ ~IsBack(a)
    <3>1. \A c \in Controllers : moved[c] = <<>>
      BY <1>1, <2>1, LiveIsSettled DEF Lined
    <3> QED BY <2>3, <3>1, EmptyLine DEF IsPolled, IsTaken, IsBack
  <2>5. IF cur[d] # None THEN IsPolled(m) ELSE IsTaken(m)
    BY <1>1, <2>1 DEF IsPolled, IsTaken, Passing
  <2>6. channel \in [Consumers -> Seq(Messages)] /\ delivered \in Seq(Messages)
    BY DEF Orderly, Base, Struct, TypeOK
  <2>7. \A a \in Messages : Dest[a] \in Consumers
    BY Kinds
  <2>8. \A a \in Messages : /\ IsQueued(a)' <=> IsQueued(a)
                            /\ IsBack(a)' <=> IsBack(a)
    BY <1>1 DEF IsQueued, IsBack
  <2>9. \A a, b \in Messages : MayPrecede(a, b) => MayPrecede(a, b)'
    BY <1>1 DEF MayPrecede
  <2>10. \A e \in Runners : e # d => dpc'[e] = dpc[e]
    <3>1. CASE listener[k] /\ channelRunning[k]
      BY <3>1 DEF Listen, Orderly, Base, Struct, TypeOK, Dispatchers
    <3>2. CASE ~(listener[k] /\ channelRunning[k])
      BY <3>2 DEF Listen, FinishDispatch, Orderly, Base, Struct, TypeOK, Dispatchers
    <3> QED BY <3>1, <3>2
  <2>11. dpc'[d] \notin Passing
    <3>1. CASE listener[k] /\ channelRunning[k]
      BY <3>1 DEF Listen, Orderly, Base, Struct, TypeOK, Passing
    <3>2. CASE ~(listener[k] /\ channelRunning[k])
      BY <3>2 DEF Listen, FinishDispatch, Orderly, Base, Struct, TypeOK, Passing
    <3> QED BY <3>1, <3>2
  <2>12. \A a \in Messages : ~IsPolled(a)' /\ ~IsTaken(a)'
    BY <2>3, <2>10, <2>11 DEF IsPolled, IsTaken
  <2>13. CASE listener[k] /\ channelRunning[k]
    <3>1. delivered' = Append(delivered, m) /\ UNCHANGED channel
      BY <2>13 DEF Listen
    <3>2. cur[d] = None => channel[k] = <<>>
      BY <1>1, <2>1, <2>13 DEF Lined, Scanned, ScannedBy, Clear, Passing
    <3> HIDE DEF m, k
    <3>3. \A a, b \in Messages :
            /\ IsShown(a)' => IsShown(a) \/ a = m
            /\ Follows(delivered', a, b) => Follows(delivered, a, b) \/ (IsShown(a) /\ b = m)
      BY <2>2, <2>6, <3>1, AppendHolds, AppendLine DEF IsShown
    <3>4. \A a \in Messages : IsAside(a)' <=> IsAside(a)
      BY <3>1 DEF IsAside
    <3>5. \A a \in Messages : Dest[a] = k /\ cur[d] = None => ~IsAside(a)
      BY <3>2, EmptyLine DEF IsAside
    <3>6. \A a, b \in Messages : Ahead(a, b)' => Ahead(a, b) \/ Dest[a] # Dest[b]
      BY <1>1, <2>2, <2>4, <2>5, <2>8, <2>12, <3>1, <3>3, <3>4, <3>5 DEF Ahead, k
    <3>7. \A a, b \in Messages : Dest[a] # Dest[b] => MayPrecede(a, b)'
      BY DEF MayPrecede
    <3> QED BY <1>1, <1>3, <2>9, <3>6, <3>7 DEF InLine, Lined
  <2>14. CASE ~(listener[k] /\ channelRunning[k])
    <3>1. /\ channel' = [channel EXCEPT ![k] = Append(@, m)] /\ UNCHANGED delivered
          /\ cur[d] = k /\ channel[k] # <<>> => m \in displaced'
      BY <2>14 DEF Listen, PutAside
    <3>2. cur[d] # None => cur[d] = k
      BY <1>1, <2>1 DEF Lined, Scanned, ScannedBy, Passing
    <3>3. /\ channel'[k] = Append(channel[k], m) /\ channel[k] \in Seq(Messages)
          /\ \A e \in Consumers : e # k => channel'[e] = channel[e]
      BY <2>2, <2>6, <3>1
    <3> HIDE DEF m, k
    <3>4. \A a \in Messages : IsAside(a)' => IsAside(a) \/ a = m
      <4> SUFFICES ASSUME NEW a \in Messages, Holds(channel'[Dest[a]], a)
                   PROVE  Holds(channel[Dest[a]], a) \/ a = m
        BY DEF IsAside
      <4>1. CASE Dest[a] = k
        <5>1. Holds(Append(channel[k], m), a)
          BY <3>3, <4>1
        <5>2. Holds(Append(channel[k], m), a) => Holds(channel[k], a) \/ a = m
          BY <2>2, <3>3, AppendHolds
        <5> QED BY <4>1, <5>1, <5>2
      <4>2. CASE Dest[a] # k
        BY <2>7, <3>3, <4>2
      <4> QED BY <4>1, <4>2
    <3>5. ASSUME NEW a \in Messages, NEW b \in Messages, Follows(channel'[Dest[b]], a, b)
          PROVE  \/ Follows(channel[Dest[b]], a, b)
                 \/ b = m /\ Holds(channel[k], a)
      <4>1. CASE Dest[b] = k
        <5>1. Follows(Append(channel[k], m), a, b)
          BY <3>3, <3>5, <4>1
        <5> QED BY <2>2, <3>3, <4>1, <5>1, AppendLine
      <4>2. CASE Dest[b] # k
        BY <2>7, <3>3, <3>5, <4>2
      <4> QED BY <4>1, <4>2
    <3>6. \A a \in Messages : Holds(channel[k], a) => IsAside(a)
      BY <2>2 DEF IsAside, Holds, Orderly, Base, Struct, Routed
    <3>7. \A a \in Messages : Holds(channel[k], a) => channel[k] # <<>>
      BY EmptyLine
    <3>8. \A a \in Messages : IsShown(a)' <=> IsShown(a)
      BY <3>1 DEF IsShown
    <3>9. \A a, b \in Messages : Ahead(a, b)' => Ahead(a, b) \/ (b = m /\ m \in displaced')
      BY <1>1, <2>2, <2>4, <2>5, <2>8, <2>12, <3>1, <3>2, <3>4, <3>5, <3>6, <3>7, <3>8 DEF Ahead
    <3>10. \A a, b \in Messages : b \in displaced' => MayPrecede(a, b)'
      BY DEF MayPrecede
    <3> QED BY <1>1, <1>3, <2>9, <3>9, <3>10 DEF InLine, Lined
  <2> QED BY <2>13, <2>14
<1> QED BY <1>2, <1>3

\* redispatch() takes the list of its consumer as it is.
LEMMA RedispatchLine ==
  ASSUME OneController, Orderly, Lined, NEW c \in Controllers, Redispatch(c)
  PROVE  InLine'
<1> DEFINE k == target[c]
<1>1. /\ UNCHANGED <<async, delivered, displaced, sessionQueue, dpc, hold, cur>>
      /\ cpc[c] = "redispatch"
      /\ moved' = [moved EXCEPT ![c] = channel[k]]
      /\ channel' = [channel EXCEPT ![k] = <<>>]
  BY DEF Redispatch, qvars, dvars, hvars, setup
<1>2. \A e \in Controllers : e = c
  BY DEF OneController
<1>3. /\ k \in Consumers /\ channel \in [Consumers -> Seq(Messages)]
      /\ moved \in [Controllers -> Seq(Messages)]
  BY <1>1 DEF Orderly, Base, Struct, TypeOK, Errands
<1>4. /\ moved'[c] = channel[k] /\ channel'[k] = <<>>
      /\ \A e \in Consumers : e # k => channel'[e] = channel[e]
  BY <1>1, <1>3
<1>5. \A a \in Messages : Dest[a] \in Consumers
  BY Kinds
<1>6. \A a \in Messages : ~IsPolled(a)' /\ ~IsTaken(a)'
  <2>1. \A r \in Runners : dpc[r] \in {"unborn", "done"}
    BY <1>1, NoneLive DEF Lined, Assigning
  <2> QED BY <1>1, <2>1 DEF IsPolled, IsTaken, Passing
<1>7. \A a \in Messages : Holds(channel[k], a) => Dest[a] = k
  BY <1>3 DEF Holds, Orderly, Base, Struct, Routed
<1> HIDE DEF k
<1>8. \A a \in Messages : IsBack(a)' => IsAside(a)
  BY <1>2, <1>4, <1>7 DEF IsBack, IsAside
<1>9. \A a, b \in Messages, e \in Controllers :
        Follows(moved'[e], a, b) => Follows(channel[Dest[b]], a, b)
  BY <1>2, <1>4, <1>7, FollowsHolds
<1>10. \A a \in Messages : IsAside(a)' => IsAside(a)
  BY <1>4, <1>5, EmptyLine DEF IsAside
<1>11. \A a, b \in Messages : Follows(channel'[Dest[b]], a, b) => Follows(channel[Dest[b]], a, b)
  BY <1>4, <1>5, EmptyLine
<1>12. \A a \in Messages : (IsShown(a)' <=> IsShown(a)) /\ (IsQueued(a)' <=> IsQueued(a))
  BY <1>1 DEF IsShown, IsQueued
<1>13. \A a, b \in Messages : Ahead(a, b)' => Ahead(a, b)
  BY <1>1, <1>6, <1>8, <1>9, <1>10, <1>11, <1>12 DEF Ahead
<1>14. \A a, b \in Messages : MayPrecede(a, b) => MayPrecede(a, b)'
  BY <1>1 DEF MayPrecede
<1> QED BY <1>1, <1>13, <1>14 DEF InLine, Lined

\* executeFirst() puts the list back from its end.
LEMMA ExecuteFirstLine ==
  ASSUME OneController, Orderly, Lined, NEW c \in Controllers, ExecuteFirst(c)
  PROVE  InLine'
<1> DEFINE n == Last(moved[c])
<1>1. /\ UNCHANGED <<async, delivered, displaced, channel, dpc, hold, cur>>
      /\ cpc[c] = "executeFirst" /\ moved[c] # <<>>
      /\ moved' = [moved EXCEPT ![c] = Front(@)]
      /\ sessionQueue' = <<n>> \o sessionQueue
  BY DEF ExecuteFirst, MoveBack, kvars, dvars, hvars, setup
<1>2. CASE ~async
  BY <1>1, <1>2 DEF InLine
<1>3. CASE async
  <2>1. \A e \in Controllers : e = c
    BY DEF OneController
  <2>2. /\ moved[c] \in Seq(Messages) /\ sessionQueue \in Seq(Messages)
        /\ moved'[c] = Front(moved[c])
    BY <1>1 DEF Orderly, Base, Struct, TypeOK
  <2>3. n \in Messages
    BY <1>1, <2>2, FrontPositions
  <2>4. \A a \in Messages : ~IsPolled(a)' /\ ~IsTaken(a)'
    <3>1. \A r \in Runners : dpc[r] \in {"unborn", "done"}
      BY <1>1, NoneLive DEF Lined, Assigning
    <3> QED BY <1>1, <3>1 DEF IsPolled, IsTaken, Passing
  <2>5. /\ IsBack(n)
        /\ \A a \in Messages : IsBack(a)' => IsBack(a) /\ Follows(moved[c], a, n)
        /\ \A a, b \in Messages, e \in Controllers :
             Follows(moved'[e], a, b) => Follows(moved[e], a, b)
    <3>1. Holds(moved[c], n)
      BY <1>1, <2>2, FrontLine
    <3>2. \A a \in Messages : Holds(moved'[c], a) => Holds(moved[c], a) /\ Follows(moved[c], a, n)
      BY <1>1, <2>2, FrontLine
    <3>3. \A a, b \in Messages : Follows(moved'[c], a, b) => Follows(moved[c], a, b)
      BY <1>1, <2>2, FrontLine
    <3> HIDE DEF n
    <3>4. IsBack(n) /\ \A a \in Messages : IsBack(a)' => IsBack(a) /\ Follows(moved[c], a, n)
      BY <2>1, <3>1, <3>2 DEF IsBack
    <3> QED BY <2>1, <3>3, <3>4
  <2>6. \A a, b \in Messages :
          /\ IsQueued(a)' => IsQueued(a) \/ a = n
          /\ Follows(sessionQueue', a, b) => Follows(sessionQueue, a, b) \/ (a = n /\ IsQueued(b))
    BY <1>1, <2>2, <2>3, ConsLine DEF IsQueued
  <2>7. \A a \in Messages : Dest[a] = Dest[n] => ~IsAside(a)
    <3>1. channel[target[c]] = <<>> /\ Dest[n] = target[c]
      BY <1>1, <1>3, <2>2 DEF Lined, Emptied, Last
    <3> HIDE DEF n
    <3> QED BY <3>1, EmptyLine DEF IsAside
  <2> HIDE DEF n
  <2>8. \A a \in Messages : (IsShown(a)' <=> IsShown(a)) /\ (IsAside(a)' <=> IsAside(a))
    BY <1>1 DEF IsShown, IsAside
  <2>9. \A a, b \in Messages : Ahead(a, b)' => Ahead(a, b) \/ Dest[a] # Dest[b]
    BY <1>1, <2>3, <2>4, <2>5, <2>6, <2>7, <2>8 DEF Ahead
  <2>10. \A a, b \in Messages : MayPrecede(a, b) \/ Dest[a] # Dest[b] => MayPrecede(a, b)'
    BY <1>1 DEF MayPrecede
  <2> QED BY <1>1, <2>9, <2>10 DEF InLine, Lined
<1> QED BY <1>2, <1>3

-----------------------------------------------------------------------------
(* What a step leaves alone *)

\* The other runners have nothing to do with what the one that runs does.
LEMMA OthersScanned ==
  ASSUME OneController, Orderly, Scanned, NEW r \in Runners, dpc[r] \notin {"unborn", "done"},
         ScannedBy(r)', \A e \in Runners : e # r => dpc'[e] = dpc[e] /\ cur'[e] = cur[e]
  PROVE  Scanned'
<1> SUFFICES ASSUME NEW e \in Runners, e # r PROVE ScannedBy(e)'
  BY DEF Scanned
<1>1. dpc[e] \in {"unborn", "done"}
  BY OneLive
<1> QED BY <1>1 DEF Scanned, ScannedBy, Passing, Carrying

\* A step of the application that stops or leaves the channels.
LEMMA StillScanned ==
  ASSUME Scanned, UNCHANGED <<dpc, hold, cur, scan, listener, channel>>,
         \A k \in Consumers : channelRunning'[k] => channelRunning[k],
         Orderly
  PROVE  Scanned'
<1>1. \A k \in Consumers : Clear(k) => Clear(k)'
  BY DEF Clear
<1>2. \A r \in Runners : dpc[r] \in Passing => Dest[hold[r]] \in Consumers
  BY LocksRoute DEF Orderly, Base, Passing, Carrying, Dispatchers
<1> QED BY <1>1, <1>2 DEF Scanned, ScannedBy

\* A step of the application while no runner runs.
LEMMA AloneScanned ==
  ASSUME OneController, Orderly, Lined, UNCHANGED <<dpc, cur>>, NEW c \in Controllers,
         cpc[c] \in Assigning \cup {"startConsumers", "startQueue"}
  PROVE  Scanned'
<1>1. \A r \in Runners : dpc[r] \in {"unborn", "done"}
  BY NoneLive DEF Lined
<1> QED BY <1>1 DEF Lined, Scanned, ScannedBy, Passing, Carrying

\* A step that keeps the lists, and what redispatch() is for.
LEMMA StillEmptied ==
  ASSUME Emptied, UNCHANGED <<async, channel, moved, target>>
  PROVE  Emptied'
BY DEF Emptied

\* A running task runner's step: redispatch() has no list.
LEMMA LiveEmptied ==
  ASSUME OneController, Orderly, Lined, UNCHANGED moved, NEW r \in Runners,
         dpc[r] \notin {"unborn", "done"}
  PROVE  Emptied'
BY LiveIsSettled DEF Emptied, Lined

\* A step that delivers nothing.
LEMMA StillDirect ==
  ASSUME Direct, UNCHANGED <<async, arrived, delivered>>,
         dpc'[IO] \in Passing => dpc[IO] \in Passing /\ hold'[IO] = hold[IO]
  PROVE  Direct'
BY DEF Direct

\* A step of a task runner has no effect on a synchronous session.
LEMMA LiveDirect ==
  ASSUME Orderly, UNCHANGED async, NEW r \in Runners, dpc[r] \notin {"unborn", "done"}
  PROVE  Direct'
BY SyncUnborn DEF Direct

\* A step that starts no queue.
LEMMA StillHalted == ASSUME Halted, UNCHANGED <<running, cpc>> PROVE Halted'
BY DEF Halted

-----------------------------------------------------------------------------
(* The threads that dispatch *)

\* Steps of a task runner outside dispatch().
LEMMA RunnerLined ==
  ASSUME OneController, Orderly, Lined, NEW r \in Runners, RunnerStep(r)
  PROVE  Lined'
<1> USE DEF Lined, Dispatchers
<1>1. dpc[r] \notin {"unborn", "done"} /\ UNCHANGED <<async, moved, running, cpc, target>>
  BY DEF RunnerStep, RunCheck, RunClear, RunWait, PollConsumer, Dequeue, IterateConsumer,
         qvars, cvars, setup
<1>2. Emptied' /\ Direct' /\ Halted'
  BY <1>1, LiveEmptied, LiveDirect, StillHalted
<1>3. /\ dpc \in [Dispatchers -> {"unborn", "idle", "check", "clear", "scan", "poll", "wait",
                                  "dispatch", "listen", "onMessage", "done"}]
      /\ hold \in [Dispatchers -> Messages \cup {0}]
      /\ scan \in [Dispatchers -> SUBSET Consumers]
      /\ cur \in [Dispatchers -> Consumers \cup {None}]
  BY DEF Orderly, Base, Struct, TypeOK
<1>4. ASSUME Quiet, ScannedBy(r)', \A e \in Runners : e # r => dpc'[e] = dpc[e] /\ cur'[e] = cur[e]
      PROVE  Lined'
  <2>1. InLine'
    BY <1>4, QuietLine
  <2>2. Scanned'
    BY <1>1, <1>4, OthersScanned
  <2> QED BY <1>2, <2>1, <2>2
<1>5. CASE RunCheck(r)
  <2>1. /\ UNCHANGED <<async, delivered, channel, moved, sessionQueue, displaced, cur, hold>>
        /\ dpc[r] = "check"
        /\ \/ dpc' = [dpc EXCEPT ![r] = "done"]
           \/ dpc' = [dpc EXCEPT ![r] = "clear"]
    BY <1>5 DEF RunCheck, qvars, kvars, cvars, hvars, setup
  <2>2. Quiet /\ ScannedBy(r)' /\ \A e \in Runners : e # r => dpc'[e] = dpc[e] /\ cur'[e] = cur[e]
    BY <1>3, <2>1 DEF Quiet, Scanned, ScannedBy, Passing, Carrying
  <2> QED BY <1>4, <2>2
<1>6. CASE RunClear(r)
  <2>1. /\ UNCHANGED <<async, delivered, channel, moved, sessionQueue, displaced, cur, hold>>
        /\ dpc[r] = "clear"
        /\ dpc' = [dpc EXCEPT ![r] = "scan"] /\ scan' = [scan EXCEPT ![r] = Consumers]
    BY <1>6 DEF RunClear, qvars, kvars, cvars, hvars, setup
  <2>2. Quiet /\ ScannedBy(r)' /\ \A e \in Runners : e # r => dpc'[e] = dpc[e] /\ cur'[e] = cur[e]
    BY <1>3, <2>1 DEF Quiet, Scanned, ScannedBy, Passing, Carrying
  <2> QED BY <1>4, <2>2
<1>7. CASE RunWait(r)
  <2>1. /\ UNCHANGED <<async, delivered, channel, moved, sessionQueue, displaced, cur, hold>>
        /\ dpc[r] = "wait"
        /\ dpc' = [dpc EXCEPT ![r] = "check"]
    BY <1>7 DEF RunWait, qvars, kvars, cvars, hvars, setup
  <2>2. Quiet /\ ScannedBy(r)' /\ \A e \in Runners : e # r => dpc'[e] = dpc[e] /\ cur'[e] = cur[e]
    BY <1>3, <2>1 DEF Quiet, Scanned, ScannedBy, Passing, Carrying
  <2> QED BY <1>4, <2>2
<1>8. ASSUME NEW k \in Consumers, IterateConsumer(r, k) PROVE Lined'
  <2>1. /\ UNCHANGED <<async, delivered, channel, moved, sessionQueue, displaced, hold,
                       channelRunning, listener>>
        /\ dpc[r] = "scan"
    BY <1>8 DEF IterateConsumer, qvars, kvars, cvars, hvars, setup
  <2>2. \A e \in Consumers : Clear(e)' <=> Clear(e)
    BY <2>1 DEF Clear
  <2>3. CASE listener[k]
    <3>1. /\ dpc' = [dpc EXCEPT ![r] = "poll"] /\ cur' = [cur EXCEPT ![r] = k]
          /\ UNCHANGED scan
      BY <1>8, <2>3 DEF IterateConsumer
    <3>2. Quiet /\ ScannedBy(r)' /\ \A e \in Runners : e # r => dpc'[e] = dpc[e] /\ cur'[e] = cur[e]
      BY <1>3, <2>1, <2>2, <3>1 DEF Quiet, Scanned, ScannedBy, Passing, Carrying
    <3> QED BY <1>4, <3>2
  <2>4. CASE ~listener[k]
    <3>1. UNCHANGED <<dpc, cur>> /\ scan' = [scan EXCEPT ![r] = @ \ {k}]
      BY <1>8, <2>4 DEF IterateConsumer
    <3>2. Clear(k)
      BY <2>4 DEF Clear
    <3>3. ScannedBy(r)'
      BY <1>3, <2>1, <2>2, <3>1, <3>2 DEF Scanned, ScannedBy, Passing, Carrying
    <3>4. Quiet
      BY <2>1, <3>1 DEF Quiet
    <3> QED BY <1>4, <3>1, <3>3, <3>4
  <2> QED BY <2>3, <2>4
<1>9. CASE PollConsumer(r)
  <2> DEFINE k == cur[r]
  <2>1. UNCHANGED <<channelRunning, listener>> /\ dpc[r] = "poll" /\ k \in Consumers
    BY <1>9 DEF PollConsumer, setup, Orderly, Base, Struct, Hands
  <2>2. InLine'
    BY <1>9, PollConsumerLine
  <2>3. CASE channelRunning[k] /\ channel[k] # <<>>
    <3>1. /\ hold' = [hold EXCEPT ![r] = Head(channel[k])]
          /\ dpc' = [dpc EXCEPT ![r] = "dispatch"] /\ UNCHANGED cur
      BY <1>9, <2>3 DEF PollConsumer
    <3>2. Dest[Head(channel[k])] = k
      <4>1. channel[k] \in Seq(Messages)
        BY <2>1 DEF Orderly, Base, Struct, TypeOK
      <4> QED BY <2>1, <2>3, <4>1 DEF Orderly, Base, Struct, Routed
    <3>3. ScannedBy(r)' /\ \A e \in Runners : e # r => dpc'[e] = dpc[e] /\ cur'[e] = cur[e]
      BY <1>3, <2>1, <3>1, <3>2, SessionAssumption DEF ScannedBy, Passing, Carrying
    <3> QED BY <1>1, <1>2, <2>2, <3>3, OthersScanned
  <2>4. CASE ~(channelRunning[k] /\ channel[k] # <<>>)
    <3>1. /\ dpc' = [dpc EXCEPT ![r] = "scan"] /\ scan' = [scan EXCEPT ![r] = @ \ {k}]
          /\ cur' = [cur EXCEPT ![r] = None] /\ UNCHANGED <<hold, channel>>
      BY <1>9, <2>4 DEF PollConsumer
    <3>2. Clear(k) /\ \A e \in Consumers : Clear(e)' <=> Clear(e)
      BY <2>1, <2>4, <3>1 DEF Clear
    <3>3. ScannedBy(r)' /\ \A e \in Runners : e # r => dpc'[e] = dpc[e] /\ cur'[e] = cur[e]
      BY <1>3, <2>1, <3>1, <3>2 DEF Scanned, ScannedBy, Passing, Carrying
    <3> QED BY <1>1, <1>2, <2>2, <3>3, OthersScanned
  <2> QED BY <2>3, <2>4
<1>10. CASE Dequeue(r)
  <2>1. /\ UNCHANGED <<channelRunning, listener, cur, scan, channel>>
        /\ dpc[r] = "scan" /\ scan[r] = {}
    BY <1>10 DEF Dequeue, setup, kvars
  <2>2. InLine'
    BY <1>10, DequeueLine
  <2>3. CASE running /\ sessionQueue # <<>>
    <3>1. /\ hold' = [hold EXCEPT ![r] = Head(sessionQueue)]
          /\ dpc' = [dpc EXCEPT ![r] = "dispatch"]
      BY <1>10, <2>3 DEF Dequeue, DequeueNoWait
    <3>2. Dest[Head(sessionQueue)] \in Consumers
      <4>1. Head(sessionQueue) \in Messages
        BY <2>3 DEF Orderly, Base, Struct, TypeOK
      <4> QED BY <4>1, Kinds
    <3>3. \A e \in Consumers : Clear(e)'
      BY <2>1 DEF Clear, Scanned, ScannedBy
    <3>4. ScannedBy(r)' /\ \A e \in Runners : e # r => dpc'[e] = dpc[e] /\ cur'[e] = cur[e]
      BY <1>3, <2>1, <3>1, <3>2, <3>3 DEF Scanned, ScannedBy, Passing, Carrying
    <3> QED BY <1>1, <1>2, <2>2, <3>4, OthersScanned
  <2>4. CASE ~(running /\ sessionQueue # <<>>)
    <3>1. dpc' = [dpc EXCEPT ![r] = "wait"]
      BY <1>10, <2>4 DEF Dequeue
    <3>2. ScannedBy(r)' /\ \A e \in Runners : e # r => dpc'[e] = dpc[e] /\ cur'[e] = cur[e]
      BY <1>3, <2>1, <3>1 DEF Scanned, ScannedBy, Passing, Carrying
    <3> QED BY <1>1, <1>2, <2>2, <3>2, OthersScanned
  <2> QED BY <2>3, <2>4
<1> QED BY <1>5, <1>6, <1>7, <1>8, <1>9, <1>10 DEF RunnerStep

\* A thread that is through with its message holds none.
LEMMA FinishScanned ==
  ASSUME OneController, Orderly, Lined, NEW d \in Dispatchers, dpc[d] \in Carrying,
         FinishDispatch(d), UNCHANGED <<async, listener, channelRunning>>
  PROVE  Scanned' /\ (dpc'[IO] \in Passing => dpc[IO] \in Passing /\ hold'[IO] = hold[IO])
<1>1. /\ dpc'[d] \in {"idle", "check", "wait"} /\ cur'[d] = None
      /\ \A e \in Dispatchers : e # d => dpc'[e] = dpc[e] /\ cur'[e] = cur[e] /\ hold'[e] = hold[e]
  BY DEF FinishDispatch, Orderly, Base, Struct, TypeOK
<1>2. dpc'[IO] \in Passing => dpc[IO] \in Passing /\ hold'[IO] = hold[IO]
  BY <1>1 DEF Passing, Dispatchers
<1>3. CASE d \in Runners
  <2>1. ScannedBy(d)'
    BY <1>1 DEF ScannedBy, Passing, Carrying
  <2>2. Scanned'
    BY <1>1, <1>3, <2>1, OthersScanned DEF Carrying, Dispatchers, Lined
  <2> QED BY <1>2, <2>2
<1>4. CASE d = IO
  <2>1. ~async
    BY <1>4 DEF Orderly, ModesApart, Carrying
  <2>2. \A r \in Runners : dpc'[r] = "unborn" /\ cur'[r] = cur[r]
    BY <1>1, <1>4, <2>1, SyncUnborn, SessionAssumption DEF Dispatchers
  <2>3. \A r \in Runners : dpc[r] = "unborn"
    BY <2>1, SyncUnborn
  <2>4. Scanned'
    BY <2>2, <2>3 DEF Scanned, ScannedBy, Passing, Carrying, Lined
  <2> QED BY <1>2, <2>4
<1> QED BY <1>3, <1>4 DEF Dispatchers

\* Steps of dispatch().
LEMMA DispatchLined ==
  ASSUME OneController, Orderly, Lined, NEW d \in Dispatchers, DispatchStep(d)
  PROVE  Lined'
<1>1. /\ UNCHANGED <<async, arrived, moved, sessionQueue, running, cpc, target, listener, channelRunning>>
      /\ dpc[d] \in Carrying
  BY DEF DispatchStep, Dispatch, Listen, OnMessageReturns, qvars, kvars, cvars, setup, Carrying
<1>2. Halted'
  BY <1>1, StillHalted DEF Lined
<1>3. /\ dpc \in [Dispatchers -> {"unborn", "idle", "check", "clear", "scan", "poll", "wait",
                                  "dispatch", "listen", "onMessage", "done"}]
      /\ hold \in [Dispatchers -> Messages \cup {0}]
      /\ cur \in [Dispatchers -> Consumers \cup {None}]
  BY DEF Orderly, Base, Struct, TypeOK
<1>4. IO \in Dispatchers /\ IO \notin Runners /\ Runners \subseteq Dispatchers
  BY SessionAssumption DEF Dispatchers
<1>5. ASSUME UNCHANGED <<channel, delivered, displaced>>,
             \/ FinishDispatch(d)
             \/ dpc[d] = "dispatch" /\ dpc' = [dpc EXCEPT ![d] = "listen"] /\ UNCHANGED <<hold, cur, scan>>
      PROVE  Lined'
  <2>1. Emptied'
    BY <1>1, <1>5, StillEmptied DEF Lined
  <2>2. CASE FinishDispatch(d)
    <3>1. Scanned' /\ (dpc'[IO] \in Passing => dpc[IO] \in Passing /\ hold'[IO] = hold[IO])
      BY <1>1, <2>2, FinishScanned
    <3>2. Direct'
      BY <1>1, <1>5, <3>1, StillDirect DEF Lined
    <3>3. /\ dpc'[d] \in {"idle", "check", "wait"}
          /\ \A e \in Dispatchers : e # d => dpc'[e] = dpc[e] /\ cur'[e] = cur[e] /\ hold'[e] = hold[e]
      BY <1>3, <2>2 DEF FinishDispatch
    <3>4. Quiet
      BY <1>1, <1>4, <1>5, <3>3 DEF Quiet, Passing
    <3> QED BY <1>2, <2>1, <3>1, <3>2, <3>4, QuietLine DEF Lined
  <2>3. CASE dpc[d] = "dispatch" /\ dpc' = [dpc EXCEPT ![d] = "listen"] /\ UNCHANGED <<hold, cur, scan>>
    <3>1. \A e \in Dispatchers : \/ dpc'[e] = dpc[e]
                                 \/ dpc[e] \in Passing /\ dpc'[e] \in Passing
      BY <1>3, <2>3 DEF Passing
    <3>2. Direct'
      BY <1>1, <1>4, <1>5, <2>3, <3>1, StillDirect DEF Lined
    <3>3. Quiet
      BY <1>1, <1>4, <1>5, <2>3, <3>1 DEF Quiet
    <3>4. \A k : Clear(k)' <=> Clear(k)
      BY <1>1, <1>5 DEF Clear
    <3>5. Scanned'
      BY <1>4, <2>3, <3>1, <3>4 DEF Lined, Scanned, ScannedBy, Passing, Carrying
    <3> QED BY <1>2, <2>1, <3>2, <3>3, <3>5, QuietLine DEF Lined
  <2> QED BY <1>5, <2>2, <2>3
<1>6. CASE Dispatch(d)
  <2>1. CASE CheckForDuplicates /\ hold[d] \in audit
    <3>1. FinishDispatch(d) /\ UNCHANGED <<channel, delivered, displaced>>
      BY <1>6, <2>1 DEF Dispatch, SuppressDuplicate, kvars
    <3> QED BY <1>5, <3>1
  <2>2. CASE ~(CheckForDuplicates /\ hold[d] \in audit)
    <3>1. /\ dpc[d] = "dispatch" /\ dpc' = [dpc EXCEPT ![d] = "listen"]
          /\ UNCHANGED <<hold, cur, scan, channel, delivered, displaced>>
      BY <1>6, <2>2 DEF Dispatch, kvars
    <3> QED BY <1>5, <3>1
  <2> QED BY <2>1, <2>2
<1>7. CASE OnMessageReturns(d)
  <2>1. FinishDispatch(d) /\ UNCHANGED <<channel, delivered, displaced>>
    BY <1>7 DEF OnMessageReturns, kvars, hvars
  <2> QED BY <1>5, <2>1
<1>8. CASE Listen(d)
  <2> DEFINE m == hold[d]
             k == Dest[m]
  <2>1. InLine' /\ dpc[d] = "listen"
    BY <1>8, ListenLine DEF Listen
  <2>2. Emptied'
    <3>1. CASE d \in Runners
      BY <1>1, <2>1, <3>1, LiveEmptied
    <3>2. CASE d = IO
      BY <1>1, <2>1, <3>2 DEF Orderly, ModesApart, Emptied
    <3> QED BY <3>1, <3>2 DEF Dispatchers
  <2>3. CASE listener[k] /\ channelRunning[k]
    <3>1. /\ delivered' = Append(delivered, m) /\ dpc' = [dpc EXCEPT ![d] = "onMessage"]
          /\ UNCHANGED <<hold, cur, scan, channel>>
      BY <1>8, <2>3 DEF Listen
    <3>2. Scanned'
      <4>1. \A e : Clear(e)' <=> Clear(e)
        BY <1>1, <3>1 DEF Clear
      <4>2. \A e \in Runners : e # d => dpc'[e] = dpc[e]
        BY <1>3, <1>4, <3>1
      <4>3. dpc'[d] = "onMessage"
        BY <1>3, <3>1
      <4> QED BY <3>1, <4>1, <4>2, <4>3 DEF Lined, Scanned, ScannedBy, Passing, Carrying
    <3>3. Direct'
      <4>1. CASE d \in Runners
        BY <1>1, <2>1, <4>1, LiveDirect
      <4>2. CASE d = IO
        <5>1. m \in Messages /\ delivered \in Seq(Messages) /\ arrived \in Nat
          BY <1>1, LocksRoute, SessionAssumption DEF Orderly, Base, Struct, TypeOK
        <5>2. ~async /\ m = arrived
          BY <2>1, <4>2 DEF Orderly, ModesApart, Lined, Direct, Passing
        <5>3. dpc'[IO] \notin Passing
          BY <1>3, <3>1, <4>2 DEF Passing
        <5>4. /\ Len(delivered') = Len(delivered) + 1 /\ Len(delivered) \in Nat
              /\ \A i \in 1..Len(delivered) : delivered'[i] = delivered[i]
              /\ delivered'[Len(delivered) + 1] = arrived
          BY <3>1, <5>1, <5>2
        <5>5. /\ \A i, j \in 1..Len(delivered) : i < j => delivered[i] <= delivered[j]
              /\ \A i \in 1..Len(delivered) : delivered[i] <= arrived
          BY <5>2 DEF Lined, Direct
        <5>6. \A i \in 1..Len(delivered') : delivered'[i] <= arrived
          BY <5>1, <5>4, <5>5
        <5>7. ASSUME NEW i \in 1..Len(delivered'), NEW j \in 1..Len(delivered'), i < j
              PROVE  delivered'[i] <= delivered'[j]
          <6>1. CASE j = Len(delivered) + 1
            BY <5>4, <5>6, <6>1
          <6>2. CASE j # Len(delivered) + 1
            <7>1. j \in 1..Len(delivered) /\ i \in 1..Len(delivered)
              BY <5>4, <5>7, <6>2
            <7> QED BY <5>4, <5>5, <5>7, <7>1
          <6> QED BY <6>1, <6>2
        <5> QED BY <1>1, <5>3, <5>6, <5>7 DEF Direct
      <4> QED BY <4>1, <4>2 DEF Dispatchers
    <3> QED BY <1>2, <2>1, <2>2, <3>2, <3>3 DEF Lined
  <2>4. CASE ~(listener[k] /\ channelRunning[k])
    <3>1. FinishDispatch(d) /\ UNCHANGED delivered
      BY <1>8, <2>4 DEF Listen
    <3>2. Scanned' /\ (dpc'[IO] \in Passing => dpc[IO] \in Passing /\ hold'[IO] = hold[IO])
      BY <1>1, <3>1, FinishScanned
    <3>3. Direct'
      BY <1>1, <3>1, <3>2, StillDirect DEF Lined
    <3> QED BY <1>2, <2>1, <2>2, <3>2, <3>3 DEF Lined
  <2> QED BY <2>3, <2>4
<1> QED BY <1>6, <1>7, <1>8 DEF DispatchStep

-----------------------------------------------------------------------------
(* The reader, the calls of wakeup() and the application *)

\* A message arrives.
LEMMA ExecuteLined == ASSUME OneController, Orderly, Lined, Execute PROVE Lined'
<1>1. /\ UNCHANGED <<async, channel, moved, running, cpc, target, listener, channelRunning, delivered>>
      /\ arrived' = arrived + 1 /\ dpc[IO] = "idle"
  BY DEF Execute, kvars, cvars, hvars, setup
<1>2. InLine' /\ Emptied' /\ Halted'
  BY <1>1, ExecuteLine, StillEmptied, StillHalted DEF Lined
<1>3. CASE async
  <2>1. UNCHANGED <<dpc, hold, cur, scan>>
    BY <1>3 DEF Execute, dvars
  <2>2. Scanned'
    BY <1>1, <2>1, StillScanned DEF Lined
  <2>3. Direct'
    BY <1>1, <1>3 DEF Direct
  <2> QED BY <1>2, <2>2, <2>3 DEF Lined
<1>4. CASE ~async
  <2>1. /\ hold' = [hold EXCEPT ![IO] = arrived + 1] /\ dpc' = [dpc EXCEPT ![IO] = "dispatch"]
        /\ UNCHANGED <<scan, cur>>
    BY <1>1, <1>4 DEF Execute
  <2>2. IO \notin Runners /\ IO \in Dispatchers
    BY SessionAssumption DEF Dispatchers
  <2>3. \A r \in Runners : dpc'[r] = "unborn" /\ dpc[r] = "unborn"
    BY <1>4, <2>1, <2>2, SyncUnborn DEF Orderly, Base, Struct, TypeOK, Dispatchers
  <2>4. Scanned'
    BY <2>1, <2>3 DEF Lined, Scanned, ScannedBy, Passing, Carrying
  <2>5. hold'[IO] = arrived'
    BY <1>1, <2>1, <2>2 DEF Orderly, Base, Struct, TypeOK
  <2>6. \A i \in 1..Len(delivered) : delivered[i] <= arrived + 1
    <3>1. arrived \in Nat /\ \A i \in 1..Len(delivered) : delivered[i] \in Nat
      BY SessionAssumption DEF Orderly, Base, Struct, TypeOK, Messages
    <3> QED BY <1>4, <3>1 DEF Lined, Direct
  <2>7. Direct'
    BY <1>1, <1>4, <2>5, <2>6 DEF Lined, Direct
  <2> QED BY <1>2, <2>4, <2>7 DEF Lined
<1> QED BY <1>3, <1>4

\* wakeup() creates a runner at most.
LEMMA WakerLined ==
  ASSUME OneController, Orderly, Lined, NEW w \in Wakers, WakerStep(w)
  PROVE  Lined'
<1>1. UNCHANGED <<async, arrived, channel, moved, sessionQueue, running, cpc, target, listener,
                  channelRunning, delivered, displaced, hold, cur, scan>>
  BY DEF WakerStep, WakeupLock, WakeupSignal, qvars, kvars, cvars, dvars, hvars, setup
<1>2. \A d \in Dispatchers : dpc'[d] = dpc[d] \/ (dpc[d] = "unborn" /\ dpc'[d] = "check")
  <2>1. CASE UNCHANGED dpc
    BY <2>1
  <2>2. CASE /\ created < MaxRunners /\ created' = created + 1
             /\ dpc' = [dpc EXCEPT ![created'] = "check"]
    <3>1. created + 1 \in Runners /\ created + 1 > created
      BY <2>2, SessionAssumption DEF Orderly, Base, Struct, TypeOK, Runners
    <3>2. dpc[created + 1] = "unborn"
      BY <3>1 DEF Orderly, Base, Struct, Hands
    <3> QED BY <2>2, <3>1, <3>2 DEF Orderly, Base, Struct, TypeOK, Dispatchers
  <2> QED BY <2>1, <2>2 DEF WakerStep, WakeupLock, WakeupSignal, dvars
<1>3. Quiet
  BY <1>1, <1>2 DEF Quiet, Passing, Dispatchers
<1>4. \A k : Clear(k)' <=> Clear(k)
  BY <1>1 DEF Clear
<1>5. Scanned'
  BY <1>1, <1>2, <1>4 DEF Lined, Scanned, ScannedBy, Passing, Carrying, Dispatchers
<1>6. Direct'
  BY <1>1, <1>2, StillDirect DEF Lined, Passing, Dispatchers
<1> QED BY <1>1, <1>3, <1>5, <1>6, QuietLine, StillEmptied, StillHalted DEF Lined

\* Steps of start() and stop(), and the beginning and end of setMessageListener().
LEMMA CallLined ==
  ASSUME OneController, Orderly, Lined, NEW c \in Controllers,
         \/ Start(c) \/ Stop(c) \/ StartTest(c) \/ StartQueue(c) \/ StartCheck(c)
         \/ StopQueue(c) \/ Shutdown(c) \/ Join(c) \/ RedispatchDone(c)
         \/ \E k \in Consumers : StopConsumer(c, k) \/ SetMessageListener(c, k)
  PROVE  Lined'
<1>1. /\ UNCHANGED <<async, arrived, channel, moved, sessionQueue, listener, delivered, displaced,
                     dpc, hold, cur, scan>>
      /\ UNCHANGED target \/ moved[c] = <<>>
  BY DEF Start, Stop, StartTest, StartQueue, StartCheck, StopQueue, Shutdown, Join, RedispatchDone,
         StopConsumer, SetMessageListener, qvars, kvars, dvars, hvars, setup, Idle, Orderly, Base,
         Struct, Errands
<1>2. Quiet
  BY <1>1 DEF Quiet
<1>3. \A k \in Consumers : channelRunning'[k] => channelRunning[k]
  <2>1. CASE UNCHANGED channelRunning
    BY <2>1
  <2>2. CASE \E k \in Consumers : channelRunning' = [channelRunning EXCEPT ![k] = FALSE]
    BY <2>2 DEF Orderly, Base, Struct, TypeOK
  <2> QED BY <2>1, <2>2 DEF Start, Stop, StartTest, StartQueue, StartCheck, StopQueue, Shutdown,
          Join, RedispatchDone, StopConsumer, SetMessageListener, kvars
<1>4. Scanned'
  BY <1>1, <1>3, StillScanned DEF Lined
<1>5. Direct'
  BY <1>1, StillDirect DEF Lined
<1>6. Emptied'
  <2>1. \A e \in Controllers : e = c
    BY DEF OneController
  <2>2. CASE UNCHANGED target
    BY <1>1, <2>2, StillEmptied DEF Lined
  <2>3. CASE moved[c] = <<>>
    BY <1>1, <2>1, <2>3 DEF Emptied
  <2> QED BY <1>1, <2>2, <2>3
<1>7. Halted'
  <2> SUFFICES ASSUME cpc'[c] \in Assigning \cup {"startConsumers", "startQueue"} PROVE ~running'
    BY DEF OneController, Halted
  <2> USE DEF Orderly, Base, Struct, TypeOK, Assigning
  <2>1. CASE Start(c)
    <3>1. ~running
      BY <2>1 DEF Start, Idle, Stopped
    <3> QED BY <2>1, <3>1 DEF Start, qvars
  <2>2. CASE Stop(c)
    BY <2>2 DEF Stop, Begin
  <2>3. CASE StartTest(c)
    BY <2>3 DEF StartTest, qvars, Lined, Halted
  <2>4. CASE StartQueue(c)
    BY <2>4 DEF StartQueue
  <2>5. CASE StartCheck(c)
    BY <2>5 DEF StartCheck
  <2>6. CASE StopQueue(c)
    BY <2>6 DEF StopQueue
  <2>7. CASE Shutdown(c) \/ Join(c)
    <3>1. cpc[c] \in Joining /\ UNCHANGED running
      BY <2>7 DEF Shutdown, Join, Joining, qvars
    <3> QED BY <3>1 DEF OneRunner
  <2>8. CASE RedispatchDone(c)
    BY <2>8 DEF RedispatchDone, qvars, Lined, Halted
  <2>9. ASSUME NEW k \in Consumers, StopConsumer(c, k) PROVE ~running'
    BY <2>9 DEF StopConsumer
  <2>10. ASSUME NEW k \in Consumers, SetMessageListener(c, k) PROVE ~running'
    BY <2>10 DEF SetMessageListener, Begin, qvars
  <2> QED BY <2>1, <2>2, <2>3, <2>4, <2>5, <2>6, <2>7, <2>8, <2>9, <2>10
<1> QED BY <1>2, <1>4, <1>5, <1>6, <1>7, QuietLine DEF Lined

\* start() starts a consumer, setMessageListener() sets the listener: no runner is
\* there to see it.
LEMMA AloneLined ==
  ASSUME OneController, Orderly, Lined, NEW c \in Controllers,
         AssignListener(c) \/ \E k \in Consumers : StartConsumer(c, k)
  PROVE  Lined'
<1>1. /\ UNCHANGED <<async, arrived, channel, moved, sessionQueue, delivered, displaced, dpc, hold,
                     cur, scan, running, target>>
      /\ cpc[c] \in {"assign", "startConsumers"}
      /\ UNCHANGED cpc \/ cpc' = [cpc EXCEPT ![c] = "redispatch"]
  <2>1. CASE AssignListener(c)
    BY <2>1 DEF AssignListener, qvars, kvars, dvars, hvars
  <2>2. CASE \E k \in Consumers : StartConsumer(c, k)
    <3>1. PICK k \in Consumers : StartConsumer(c, k)
      BY <2>2
    <3> QED BY <3>1 DEF StartConsumer, qvars, dvars, hvars, setup
  <2> QED BY <2>1, <2>2
<1>2. Quiet
  BY <1>1 DEF Quiet
<1>3. Scanned'
  BY <1>1, AloneScanned DEF Assigning
<1>4. ~running
  BY <1>1 DEF Lined, Halted, Assigning
<1> QED BY <1>1, <1>2, <1>3, <1>4, QuietLine, StillEmptied, StillDirect DEF Lined, Halted

\* redispatch() and executeFirst().
LEMMA RedispatchLined ==
  ASSUME OneController, Orderly, Lined, NEW c \in Controllers, Redispatch(c) \/ ExecuteFirst(c)
  PROVE  Lined'
<1>1. /\ UNCHANGED <<async, arrived, delivered, dpc, hold, cur, running, target>>
      /\ cpc[c] \in {"redispatch", "executeFirst"}
  BY DEF Redispatch, ExecuteFirst, qvars, dvars, hvars, setup
<1>2. InLine'
  BY RedispatchLine, ExecuteFirstLine
<1>3. Scanned'
  BY <1>1, AloneScanned DEF Assigning
<1>4. ~running
  BY <1>1 DEF Lined, Halted, Assigning
<1>5. Direct'
  BY <1>1, StillDirect DEF Lined
<1>6. Emptied'
  <2>1. \A e \in Controllers : e = c
    BY DEF OneController
  <2>2. /\ target[c] \in Consumers /\ channel \in [Consumers -> Seq(Messages)]
        /\ moved \in [Controllers -> Seq(Messages)]
    BY <1>1 DEF Orderly, Base, Struct, Errands, TypeOK
  <2>3. CASE Redispatch(c)
    <3>1. moved'[c] = channel[target[c]] /\ channel'[target[c]] = <<>>
      BY <2>2, <2>3 DEF Redispatch
    <3>2. \A i \in 1..Len(channel[target[c]]) : Dest[channel[target[c]][i]] = target[c]
      BY <2>2 DEF Orderly, Base, Struct, Routed
    <3> QED BY <1>1, <2>1, <3>1, <3>2 DEF Emptied
  <2>4. CASE ExecuteFirst(c)
    <3>1. moved'[c] = Front(moved[c]) /\ moved[c] # <<>> /\ UNCHANGED channel
      BY <2>2, <2>4 DEF ExecuteFirst, MoveBack, kvars
    <3>2. \A i \in 1..Len(Front(moved[c])) : i \in 1..Len(moved[c]) /\ Front(moved[c])[i] = moved[c][i]
      BY <2>2, <3>1 DEF Front
    <3> QED BY <1>1, <2>1, <3>1, <3>2 DEF Lined, Emptied
  <2> QED BY <2>3, <2>4
<1> QED BY <1>1, <1>2, <1>3, <1>4, <1>5, <1>6 DEF Lined, Halted

\* Every step keeps the line.
LEMMA LinedStep == ASSUME OneController, Orderly, Lined, [Next]_vars PROVE Lined'
<1>1. ASSUME NEW c \in Controllers, ControllerStep(c) \/ Start(c) \/ Stop(c) PROVE Lined'
  BY <1>1, CallLined, AloneLined, RedispatchLined DEF ControllerStep
<1>2. ASSUME NEW c \in Controllers, NEW k \in LateListeners, SetMessageListener(c, k) PROVE Lined'
  BY <1>2, CallLined, SessionAssumption
<1>3. CASE UNCHANGED vars
  <2>1. UNCHANGED <<async, arrived, channel, moved, sessionQueue, listener, delivered, displaced,
                    dpc, hold, cur, scan, running, cpc, target, channelRunning>>
    BY <1>3 DEF vars, qvars, kvars, dvars, cvars, hvars, setup
  <2>2. Quiet
    BY <2>1 DEF Quiet
  <2> QED BY <2>1, <2>2, QuietLine, StillScanned, StillEmptied, StillDirect, StillHalted DEF Lined
<1> QED BY <1>1, <1>2, <1>3, ExecuteLined, WakerLined, DispatchLined, RunnerLined DEF Next

\* Initially nothing is anywhere.
LEMMA InitLined == Init => Lined
<1> SUFFICES ASSUME Init PROVE Lined
  OBVIOUS
<1>1. \A d \in Dispatchers : dpc[d] = IF d = IO THEN "idle" ELSE "unborn"
  BY DEF Init
<1>2. IO \notin Runners
  BY SessionAssumption
<1>3. \A a \in Messages : /\ ~IsShown(a) /\ ~IsQueued(a) /\ ~IsBack(a) /\ ~IsAside(a)
                          /\ ~IsPolled(a) /\ ~IsTaken(a)
  BY <1>1, <1>2, Kinds, EmptyLine
     DEF Init, IsShown, IsQueued, IsBack, IsAside, IsPolled, IsTaken, Passing, Dispatchers
<1>4. InLine
  <2>1. \A a, b \in Messages : ~Ahead(a, b)
    BY <1>3, Kinds, EmptyLine DEF Init, Ahead
  <2> QED BY <2>1 DEF InLine
<1>5. Scanned
  BY <1>1, <1>2 DEF Init, Scanned, ScannedBy, Passing, Carrying, Dispatchers
<1>6. Halted /\ Emptied
  BY DEF Init, Halted, Emptied
<1>7. Direct
  BY <1>1 DEF Init, Direct, Passing, Dispatchers
<1> QED BY <1>4, <1>5, <1>6, <1>7 DEF Lined

\* What is in line is delivered in order.
LEMMA LinedInOrder == ASSUME Base, Lined PROVE InOrderButForStop
<1> SUFFICES ASSUME NEW i \in 1..Len(delivered), NEW j \in 1..Len(delivered), Overtaken(i, j)
             PROVE  delivered[j] \in displaced
  BY DEF InOrderButForStop
<1>1. delivered[i] \in Messages /\ delivered[j] \in Messages
  BY DEF Base, Struct, TypeOK
<1>2. CASE async
  <2>1. Follows(delivered, delivered[i], delivered[j])
    BY DEF Follows, Overtaken
  <2>2. MayPrecede(delivered[i], delivered[j])
    BY <1>1, <1>2, <2>1 DEF Lined, InLine, Ahead
  <2> QED BY <2>2 DEF MayPrecede, Overtaken
<1>3. CASE ~async
  <2>1. delivered[i] <= delivered[j]
    BY <1>3 DEF Lined, Direct, Overtaken
  <2> QED BY <1>1, <2>1 DEF Overtaken, Messages
<1> QED BY <1>2, <1>3

\* The serial order of a session: with one thread that starts, stops and sets
\* listeners, a listener sees the messages of its consumer in the order they were
\* sent, but for those that stop() caught in the hands of iterate() and that
\* dispatch() put back behind others.
THEOREM ListenerSeesOrder == OneController => (Spec => []InOrderButForStop)
<1> SUFFICES ASSUME OneController PROVE Spec => []InOrderButForStop
  OBVIOUS
<1>1. Orderly /\ Lined /\ [Next]_vars => (Orderly /\ Lined)'
  BY OrderlyStep, LinedStep
<1>2. Orderly /\ Lined => InOrderButForStop
  BY LinedInOrder DEF Orderly
<1>3. Init => Orderly /\ Lined
  BY InitOrderly, InitLined
<1> QED BY <1>1, <1>2, <1>3, PTL DEF Spec
=============================================================================
