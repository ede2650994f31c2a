---------------------------- MODULE FailoverProofs ----------------------------
(***************************************************************************)
(* Invariance proofs for Failover, for any commands, any brokers, any      *)
(* limits and any number of connections and calls.                         *)
(*                                                                         *)
(* The argument rests on reconnectMutex.  While the runner restores a      *)
(* connection it holds the lock, so no sender adds to the request map or   *)
(* to the tracked state, and what is still to be replayed is in iterate()'s*)
(* local copy (Replaying).  A command is held, or written anywhere, only   *)
(* once its oneway() is about to return (HeldReturned, WrittenReturned),   *)
(* so the write of a sender never repeats one of the runner.  Tracked      *)
(* state and held requests are commands of different kinds (HeldKinds),    *)
(* so the two parts of a replay do not overlap, and a connection is        *)
(* published only when all of the first part is out (StateIsOut).          *)
(***************************************************************************)
EXTENDS Failover, FiniteSetTheorems, WellFoundedInduction, TLAPS

\* Inside iterate() with the lock, and where it has a connection in hand.
Iterating  == {"connect", "starting", "restore", "replay", "publish", "tail"}
Connecting == {"restore", "replay", "publish"}

\* The runner's locals, and what is connected, agree with where the runner is.
Places ==
    /\ rpc \in {"wait", "check", "iterate", "sleep", "delay"} \cup Iterating
    /\ rpc \in Connecting \cup {"starting"} => uri \in Uris
    /\ rpc \in Connecting => transport \in 1..created
    /\ connectedTransport # 0 => connectedURI \in Uris
    /\ connectedURI # None /\ ~closed => connectedTransport # 0
    /\ rpc \in Connecting \cup {"sleep", "connect", "starting"} => connectedTransport = 0

\* RequestHeld does not depend on connectionFailure.
HeldUntilClosed ==
    ~closed =>
        \A c \in Commands :
            pc[c] = "returned" /\ c \notin answered /\ Kind[c] \in {"request", "message", "info"}
                => \/ c \in Held
                   \/ \E d \in Commands : Kind[d] = "remove" /\ Target[d] = c /\ pc[d] # "idle"

\* Until something was connected nothing is held.
FirstIsEmpty == firstConnection => connectedTransport = 0 /\ Held = {}

\* The tracker and the request map keep commands of different kinds.
HeldKinds ==
    /\ \A c \in tracked : Kind[c] = "info"
    /\ \A c \in requestMap : Kind[c] \in {"request", "message"}
    /\ restored \in [Connections -> SUBSET {c \in Commands : Kind[c] = "info"}]

\* What is held, or on its way, belongs to a oneway() that has returned.
HeldReturned == \A c \in Held \cup todo : pc[c] = "returned"
WrittenReturned == \A n \in Connections : \A c \in ToSet(written[n]) : pc[c] = "returned"

\* A connection not made yet was not written to.
FutureIsEmpty == \A n \in Connections : n > created => written[n] = <<>> /\ restored[n] = {}

\* While a connection is restored, what is held is on it or still to come.
Replaying ==
    /\ rpc = "restore" => tracked \subseteq ToSet(written[transport]) \cup todo
    /\ rpc = "replay" => /\ tracked \subseteq ToSet(written[transport])
                         /\ requestMap \subseteq ToSet(written[transport]) \cup todo
    /\ rpc = "publish" /\ started => firstConnection

\* What is still to come was not sent.
TodoIsNew ==
    /\ rpc \in {"restore", "replay"} => \A c \in todo : c \notin ToSet(written[transport])
    /\ rpc = "restore" => todo \cup ToSet(written[transport]) \subseteq restored[transport]

\* The tracked state is out before anything else is sent.
StateIsOut ==
    /\ rpc = "restore" =>
         Len(written[transport]) + Cardinality(todo) >= Cardinality(restored[transport])
    /\ rpc \in {"replay", "publish"} =>
         Len(written[transport]) >= Cardinality(restored[transport])
    /\ connectedTransport # 0 =>
         Len(written[connectedTransport]) >= Cardinality(restored[connectedTransport])

\* ListenerKnows, whoever holds the lock.
ListenerIsTold == ~IsClosedOrFailed => (told = "up" <=> connectedTransport # 0)

Delivery ==
    /\ HeldUntilClosed /\ FirstIsEmpty /\ HeldKinds /\ HeldReturned /\ WrittenReturned
    /\ FutureIsEmpty /\ Replaying /\ HeldIsWritten

Order == TodoIsNew /\ SentOnce /\ StateIsOut /\ StateFirst

IInv == TypeOK /\ Places /\ Delivery /\ Order /\ ListenerIsTold

-----------------------------------------------------------------------------
(* Lemmas on the operators *)

\* The counters stay below their cap.
LEMMA CountType ==
  CountCap \in Nat /\ \A n \in 0..CountCap : Count(n) \in 0..CountCap
BY FailoverAssumption DEF CountCap, Count

\* A command is replayed in the order of the ids, so the next one is one of
\* those that are left.
LEMMA LeastIsMember == ASSUME NEW S \in SUBSET Nat, S # {} PROVE Least(S) \in S
<1>1. \A x, y \in Nat : <<y, x>> \in OpToRel(<, Nat) <=> y < x
  BY Zenon DEF OpToRel
<1>2. PICK x \in S : \A y \in S : ~(<<y, x>> \in OpToRel(<, Nat))
  BY NatLessThanWellFounded, WFMin, Zenon
<1>3. \A y \in S : x \in Nat /\ y \in Nat /\ ~(y < x)
  BY <1>1, <1>2, Zenon
<1>4. \A y \in S : x <= y
  BY <1>3
<1> QED BY <1>4 DEF Least

\* What a write adds to a connection.
LEMMA WriteAppends ==
  ASSUME NEW S, NEW s \in Seq(S), NEW x \in S
  PROVE  /\ Append(s, x) \in Seq(S)
         /\ Len(Append(s, x)) = Len(s) + 1
         /\ ToSet(Append(s, x)) = ToSet(s) \cup {x}
         /\ \A i \in 1..Len(s) : Append(s, x)[i] = s[i]
         /\ Append(s, x)[Len(s) + 1] = x
         /\ IsInjective(s) /\ x \notin ToSet(s) => IsInjective(Append(s, x))
<1>1. /\ Append(s, x) \in Seq(S) /\ Len(Append(s, x)) = Len(s) + 1 /\ Len(s) \in Nat
      /\ DOMAIN s = 1..Len(s) /\ DOMAIN Append(s, x) = 1..(Len(s) + 1)
  OBVIOUS
<1>2. /\ \A i \in 1..Len(s) : Append(s, x)[i] = s[i]
      /\ Append(s, x)[Len(s) + 1] = x
  OBVIOUS
<1>3. ToSet(Append(s, x)) = ToSet(s) \cup {x}
  BY <1>1, <1>2 DEF ToSet
<1>4. IsInjective(s) /\ x \notin ToSet(s) => IsInjective(Append(s, x))
  BY <1>1, <1>2 DEF IsInjective, ToSet
<1> QED BY <1>1, <1>2, <1>3, <1>4

\* Sets of commands are finite.
LEMMA CommandsFinite == IsFiniteSet(Commands) /\ Commands \subseteq Nat
BY FailoverAssumption, FS_Interval DEF Commands

\* The parts of TypeOK.
Flags ==
    /\ started \in BOOLEAN /\ closed \in BOOLEAN /\ shutdown \in BOOLEAN
    /\ connected \in BOOLEAN /\ firstConnection \in BOOLEAN
    /\ connectionFailure \in BOOLEAN /\ doRebalance \in BOOLEAN
    /\ pending \in BOOLEAN /\ failure \in BOOLEAN /\ nullFailure \in BOOLEAN
Numbers ==
    /\ connectFailures \in 0..CountCap /\ failureCount \in [Uris -> 0..CountCap]
    /\ connectedTransport \in 0..created /\ created \in 0..MaxConnections
    /\ transport \in 0..created
Pools ==
    /\ uris \subseteq Uris /\ tried \subseteq Uris
    /\ connectedURI \in Uris \cup {None} /\ uri \in Uris \cup {None}
    /\ requestMap \subseteq Commands /\ tracked \subseteq Commands
    /\ todo \subseteq Commands /\ answered \subseteq Commands
Lock ==
    /\ mutex \in Commands \cup {None, Runner}
    /\ mutex = Runner <=> rpc \in Iterating
Conns ==
    /\ closing \subseteq 1..created /\ dead \subseteq 1..created
    /\ alive \in [Connections -> BOOLEAN] /\ disposed \in [Connections -> BOOLEAN]
    /\ exception \in [Connections -> {"none", "raised", "handled"}]
    /\ written \in [Connections -> Seq(Commands)]
Callers ==
    /\ pc \in [Commands -> {"idle", "wait", "retry", "returned", "threw"}]
    /\ closer \in {"open", "stopping", "closing", "closed"}
    /\ request \in {"none", "plain", "rebalance"}
    /\ told \in {"up", "down", "failed"}

\* The parts are all of TypeOK.
LEMMA TypeParts == TypeOK <=> Flags /\ Numbers /\ Pools /\ Lock /\ Conns /\ Callers
BY DEF TypeOK, Flags, Numbers, Pools, Lock, Conns, Callers, Iterating

\* The same for the next state.
LEMMA TypeFromParts ==
  ASSUME Flags', Numbers', Pools', Lock', Conns', Callers' PROVE TypeOK'
BY DEF TypeOK, Flags, Numbers, Pools, Lock, Conns, Callers, Iterating

-----------------------------------------------------------------------------
(* Steps that only forget *)

\* A step that writes nothing, connects nothing and holds nothing new.  It may
\* drop the connection, end an attempt, let a sender go and take out of the
\* request map or the tracker what was answered or removed.
OnlyForgets ==
    /\ UNCHANGED <<written, restored, created>>
    /\ closed => closed'
    /\ started' => started
    /\ shutdown => shutdown'
    /\ firstConnection' => firstConnection
    /\ connectedTransport' \in {connectedTransport, 0}
    /\ \/ rpc' \notin Connecting /\ todo' \in {todo, {}}
       \/ UNCHANGED <<rpc, todo, transport, firstConnection>>
    /\ answered \subseteq answered' /\ requestMap' \subseteq requestMap
    /\ \A c \in requestMap : c \in requestMap' \cup answered' \/ closed'
    /\ tracked' \subseteq tracked
    /\ \A c \in tracked : \/ c \in tracked'
                          \/ \E d \in Commands : /\ Kind[d] = "remove" /\ Target[d] = c
                                                 /\ pc'[d] # "idle"
    /\ \A c \in Commands : /\ pc[c] = "returned" => pc'[c] = "returned"
                           /\ pc[c] # "idle" => pc'[c] # "idle"
                           /\ pc'[c] = "returned" =>
                                \/ pc[c] = "returned" \/ closed'
                                \/ Kind[c] \notin {"request", "message", "info"}

\* Such a step keeps every promise about delivery ...
LEMMA ForgettingDelivers == ASSUME IInv, OnlyForgets, TypeOK' PROVE Delivery'
<1> USE DEF IInv, Delivery, OnlyForgets
<1>1. HeldUntilClosed'
  <2> SUFFICES ASSUME ~closed', NEW c \in Commands, pc'[c] = "returned", c \notin answered',
                      Kind[c] \in {"request", "message", "info"}
               PROVE  \/ c \in Held'
                      \/ \E d \in Commands : Kind[d] = "remove" /\ Target[d] = c /\ pc'[d] # "idle"
    BY DEF HeldUntilClosed
  <2>1. pc[c] = "returned" /\ c \notin answered /\ ~closed
    OBVIOUS
  <2>2. CASE c \in requestMap
    BY <2>2 DEF Held
  <2>3. CASE c \in tracked
    BY <2>3 DEF Held
  <2>4. CASE \E d \in Commands : Kind[d] = "remove" /\ Target[d] = c /\ pc[d] # "idle"
    BY <2>4
  <2> QED BY <2>1, <2>2, <2>3, <2>4 DEF HeldUntilClosed, Held
<1>2. FirstIsEmpty' /\ HeldKinds'
  BY DEF FirstIsEmpty, HeldKinds, Held
<1>3. HeldReturned' /\ WrittenReturned'
  <2>1. \A c \in Held' \cup todo' : c \in Held \cup todo /\ c \in Commands
    BY DEF Held, TypeOK
  <2>2. \A n \in Connections : ToSet(written[n]) \subseteq Commands
    BY DEF TypeOK, ToSet
  <2> QED BY <2>1, <2>2 DEF HeldReturned, WrittenReturned
<1>4. FutureIsEmpty'
  BY DEF FutureIsEmpty
<1>5. Replaying'
  BY DEF Replaying, Connecting
<1>6. HeldIsWritten'
  BY DEF HeldIsWritten, Held
<1> QED BY <1>1, <1>2, <1>3, <1>4, <1>5, <1>6

\* ... and about the order of what was sent.
LEMMA ForgettingKeepsOrder == ASSUME IInv, OnlyForgets PROVE Order'
<1> USE DEF IInv, Order, OnlyForgets
<1>1. TodoIsNew'
  BY DEF TodoIsNew, Connecting
<1>2. SentOnce' /\ StateFirst'
  BY DEF SentOnce, StateFirst
<1>3. StateIsOut'
  BY DEF StateIsOut, Connecting
<1> QED BY <1>1, <1>2, <1>3

-----------------------------------------------------------------------------
(* Senders *)

\* A closed transport returns without sending.
LEMMA OnewayClosedIInv ==
  ASSUME IInv, NEW c \in Commands, OnewayClosed(c)
  PROVE  IInv'
<1>a. mutex \in {None, c} /\ pc[c] \in {"idle", "wait", "retry"} /\ mutex # Runner
  BY FailoverAssumption DEF OnewayClosed, InLoop
<1> USE <1>a
<1> USE FailoverAssumption DEF IInv, OnewayClosed, Return, ivars, tvars, rvars,
     nvars, cvars, svars, hvars
<1>1. TypeOK'
  BY DEF TypeOK
<1>2. Places'
  BY DEF Places, Connecting, Iterating
<1>3. OnlyForgets
  BY DEF OnlyForgets, Connecting, TypeOK
<1>4. ListenerIsTold'
  BY DEF ListenerIsTold, IsClosedOrFailed
<1> QED BY <1>1, <1>2, <1>3, <1>4, ForgettingDelivers, ForgettingKeepsOrder

\* A transport that will not connect throws.
LEMMA OnewayFailsIInv ==
  ASSUME IInv, NEW c \in Commands, OnewayFails(c)
  PROVE  IInv'
<1>a. mutex \in {None, c} /\ pc[c] \in {"idle", "wait", "retry"} /\ mutex # Runner
  BY FailoverAssumption DEF OnewayFails, InLoop
<1> USE <1>a
<1> USE FailoverAssumption DEF IInv, OnewayFails, Return, ivars, tvars, rvars,
     nvars, cvars, svars, hvars
<1>1. TypeOK'
  BY DEF TypeOK
<1>2. Places'
  BY DEF Places, Connecting, Iterating
<1>3. OnlyForgets
  BY DEF OnlyForgets, Connecting, TypeOK
<1>4. ListenerIsTold'
  BY DEF ListenerIsTold, IsClosedOrFailed
<1> QED BY <1>1, <1>2, <1>3, <1>4, ForgettingDelivers, ForgettingKeepsOrder

\* A sender waits for a connection.
LEMMA OnewayWaitIInv ==
  ASSUME IInv, NEW c \in Commands, OnewayWait(c)
  PROVE  IInv'
<1>a. mutex \in {None, c} /\ pc[c] \in {"idle", "wait", "retry"} /\ mutex # Runner
  BY FailoverAssumption DEF OnewayWait, InLoop
<1> USE <1>a
<1> USE FailoverAssumption DEF IInv, OnewayWait, Return, ivars, tvars, rvars, nvars,
     cvars, svars, hvars
<1>1. TypeOK'
  BY DEF TypeOK
<1>2. Places'
  BY DEF Places, Connecting, Iterating
<1>3. OnlyForgets
  BY DEF OnlyForgets, Connecting, TypeOK
<1>4. ListenerIsTold'
  BY DEF ListenerIsTold, IsClosedOrFailed
<1> QED BY <1>1, <1>2, <1>3, <1>4, ForgettingDelivers, ForgettingKeepsOrder

\* A sender gives up waiting.
LEMMA OnewayTimeoutIInv ==
  ASSUME IInv, NEW c \in Commands, OnewayTimeout(c)
  PROVE  IInv'
<1> USE FailoverAssumption DEF IInv, OnewayTimeout, Return, ivars, tvars, rvars,
     nvars, cvars, svars, hvars
<1>1. TypeOK'
  BY DEF TypeOK
<1>2. Places'
  BY DEF Places, Connecting, Iterating
<1>3. OnlyForgets
  BY DEF OnlyForgets, Connecting, TypeOK
<1>4. ListenerIsTold'
  BY DEF ListenerIsTold, IsClosedOrFailed
<1> QED BY <1>1, <1>2, <1>3, <1>4, ForgettingDelivers, ForgettingKeepsOrder

\* A stale command is dropped; a RemoveInfo still takes its target out of the
\* tracker.
LEMMA SkipStaleIInv ==
  ASSUME IInv, NEW c \in Commands, SkipStale(c)
  PROVE  IInv'
<1> USE FailoverAssumption DEF IInv, SkipStale, Return, Track, Answered, ivars,
     tvars, rvars, nvars, cvars, svars, hvars
<1>1. TypeOK'
  BY DEF TypeOK
<1>2. Places'
  BY DEF Places, Connecting, Iterating
<1>3. OnlyForgets
  BY DEF OnlyForgets, Connecting, TypeOK, HeldKinds, Delivery
<1>4. ListenerIsTold'
  BY DEF ListenerIsTold, IsClosedOrFailed
<1> QED BY <1>1, <1>2, <1>3, <1>4, ForgettingDelivers, ForgettingKeepsOrder

-----------------------------------------------------------------------------
(* Readers and connections *)

\* A reader calls its listener.
LEMMA RaiseExceptionIInv ==
  ASSUME IInv, NEW n \in Connections, RaiseException(n)
  PROVE  IInv'
<1> USE FailoverAssumption DEF IInv, RaiseException, ivars, tvars, rvars, nvars,
     cvars, svars, hvars
<1>1. TypeOK'
  BY DEF TypeOK
<1>2. Places'
  BY DEF Places, Connecting, Iterating
<1>3. OnlyForgets
  BY DEF OnlyForgets, Connecting
<1>4. ListenerIsTold'
  BY DEF ListenerIsTold, IsClosedOrFailed
<1> QED BY <1>1, <1>2, <1>3, <1>4, ForgettingDelivers, ForgettingKeepsOrder

\* A connection breaks.
LEMMA BreakIInv ==
  ASSUME IInv, NEW n \in Connections, Break(n)
  PROVE  IInv'
<1> USE FailoverAssumption DEF IInv, Break, ivars, tvars, rvars, nvars, cvars,
     svars, hvars
<1>1. TypeOK'
  BY DEF TypeOK
<1>2. Places'
  BY DEF Places, Connecting, Iterating
<1>3. OnlyForgets
  BY DEF OnlyForgets, Connecting
<1>4. ListenerIsTold'
  BY DEF ListenerIsTold, IsClosedOrFailed
<1> QED BY <1>1, <1>2, <1>3, <1>4, ForgettingDelivers, ForgettingKeepsOrder

\* An answer takes its request out of the map.
LEMMA OnResponseIInv ==
  ASSUME IInv, NEW n \in Connections, NEW c \in Commands, OnResponse(n, c)
  PROVE  IInv'
<1> USE FailoverAssumption DEF IInv, OnResponse, ivars, tvars, rvars, nvars, cvars,
     svars, hvars
<1>1. TypeOK'
  BY DEF TypeOK
<1>2. Places'
  BY DEF Places, Connecting, Iterating
<1>3. OnlyForgets
  BY DEF OnlyForgets, Connecting
<1>4. ListenerIsTold'
  BY DEF ListenerIsTold, IsClosedOrFailed
<1> QED BY <1>1, <1>2, <1>3, <1>4, ForgettingDelivers, ForgettingKeepsOrder

-----------------------------------------------------------------------------
(* The runner *)

\* The runner wakes up.
LEMMA RunnerWakeupIInv ==
  ASSUME IInv, RunnerWakeup
  PROVE  IInv'
<1> USE FailoverAssumption DEF IInv, RunnerWakeup, ivars, tvars, rvars, nvars,
     cvars, svars, hvars
<1>1. TypeOK'
  BY DEF TypeOK
<1>2. Places'
  BY DEF Places, Connecting, Iterating
<1>3. OnlyForgets
  BY DEF OnlyForgets, Connecting
<1>4. ListenerIsTold'
  BY DEF ListenerIsTold, IsClosedOrFailed
<1> QED BY <1>1, <1>2, <1>3, <1>4, ForgettingDelivers, ForgettingKeepsOrder

\* The runner looks for a pending task, or closes abandoned connections.
LEMMA RunnerCheckIInv ==
  ASSUME IInv, RunnerCheck
  PROVE  IInv'
<1>z. alive' \in [Connections -> BOOLEAN]
  BY DEF RunnerCheck, IInv, TypeOK
<1> USE FailoverAssumption DEF IInv, RunnerCheck, ivars, tvars, rvars, nvars, cvars,
     svars, hvars
<1>1. TypeOK'
  <2>1. Flags'
    BY TypeParts DEF Flags
  <2>2. Numbers'
    BY TypeParts DEF Numbers
  <2>3. Pools'
    BY TypeParts DEF Pools
  <2>4. Lock'
    BY TypeParts DEF Lock, Iterating
  <2>5. Conns'
    BY TypeParts, <1>z DEF Conns
  <2>6. Callers'
    BY TypeParts DEF Callers
  <2> QED BY <2>1, <2>2, <2>3, <2>4, <2>5, <2>6, TypeFromParts
<1>2. Places'
  BY DEF Places, Connecting, Iterating
<1>3. OnlyForgets
  BY DEF OnlyForgets, Connecting
<1>4. ListenerIsTold'
  BY DEF ListenerIsTold, IsClosedOrFailed
<1> QED BY <1>1, <1>2, <1>3, <1>4, ForgettingDelivers, ForgettingKeepsOrder

\* iterate() takes the lock again.
LEMMA IterateResumeIInv ==
  ASSUME IInv, IterateResume
  PROVE  IInv'
<1> USE FailoverAssumption DEF IInv, IterateResume, ivars, tvars, rvars, nvars,
     cvars, svars, hvars
<1>1. TypeOK'
  <2>1. Flags'
    BY TypeParts DEF Flags
  <2>2. Numbers'
    BY TypeParts DEF Numbers
  <2>3. Pools'
    BY TypeParts DEF Pools
  <2>4. Lock'
    BY TypeParts DEF Lock, Iterating
  <2>5. Conns'
    BY TypeParts DEF Conns
  <2>6. Callers'
    BY TypeParts DEF Callers
  <2> QED BY <2>1, <2>2, <2>3, <2>4, <2>5, <2>6, TypeFromParts
<1>2. Places'
  BY DEF Places, Connecting, Iterating
<1>3. OnlyForgets
  BY DEF OnlyForgets, Connecting
<1>4. ListenerIsTold'
  BY DEF ListenerIsTold, IsClosedOrFailed
<1> QED BY <1>1, <1>2, <1>3, <1>4, ForgettingDelivers, ForgettingKeepsOrder

\* A URI is taken from the pool.
LEMMA PickUriIInv ==
  ASSUME IInv, NEW u \in Uris, PickUri(u)
  PROVE  IInv'
<1> USE FailoverAssumption DEF IInv, PickUri, ivars, tvars, rvars, nvars, cvars,
     svars, hvars
<1>1. TypeOK'
  BY DEF TypeOK
<1>2. Places'
  BY DEF Places, Connecting, Iterating
<1>3. OnlyForgets
  BY DEF OnlyForgets, Connecting
<1>4. ListenerIsTold'
  BY DEF ListenerIsTold, IsClosedOrFailed
<1> QED BY <1>1, <1>2, <1>3, <1>4, ForgettingDelivers, ForgettingKeepsOrder

\* An attempt fails before there is a connection.
LEMMA StartFailsIInv ==
  ASSUME IInv, StartFails
  PROVE  IInv'
<1> USE FailoverAssumption DEF IInv, StartFails, AttemptFailed, ivars, tvars, rvars,
     nvars, cvars, svars, hvars
<1>1. TypeOK'
  <2>1. Flags'
    BY TypeParts DEF Flags
  <2>2. Numbers'
    BY TypeParts, CountType DEF Numbers, Places, Connecting
  <2>3. Pools'
    BY TypeParts DEF Pools, Places, Connecting
  <2>4. Lock'
    BY TypeParts DEF Lock, Iterating
  <2>5. Conns'
    BY TypeParts DEF Conns
  <2>6. Callers'
    BY TypeParts DEF Callers
  <2> QED BY <2>1, <2>2, <2>3, <2>4, <2>5, <2>6, TypeFromParts
<1>2. Places'
  BY DEF Places, Connecting, Iterating
<1>3. OnlyForgets
  BY DEF OnlyForgets, Connecting
<1>4. ListenerIsTold'
  BY DEF ListenerIsTold, IsClosedOrFailed
<1> QED BY <1>1, <1>2, <1>3, <1>4, ForgettingDelivers, ForgettingKeepsOrder

\* An attempt fails during the replay; the connection is abandoned.
LEMMA RestoreThrowsIInv ==
  ASSUME IInv, RestoreThrows
  PROVE  IInv'
<1> USE FailoverAssumption DEF IInv, RestoreThrows, AttemptFailed, ivars, tvars,
     rvars, nvars, cvars, svars, hvars
<1>1. TypeOK'
  <2>1. Flags'
    BY TypeParts DEF Flags
  <2>2. Numbers'
    BY TypeParts, CountType DEF Numbers, Places, Connecting
  <2>3. Pools'
    BY TypeParts DEF Pools, Places, Connecting
  <2>4. Lock'
    BY TypeParts DEF Lock, Iterating
  <2>5. Conns'
    BY TypeParts DEF Conns, Places, Connecting, Numbers
  <2>6. Callers'
    BY TypeParts DEF Callers
  <2> QED BY <2>1, <2>2, <2>3, <2>4, <2>5, <2>6, TypeFromParts
<1>2. Places'
  BY DEF Places, Connecting, Iterating
<1>3. OnlyForgets
  BY DEF OnlyForgets, Connecting
<1>4. ListenerIsTold'
  BY DEF ListenerIsTold, IsClosedOrFailed
<1> QED BY <1>1, <1>2, <1>3, <1>4, ForgettingDelivers, ForgettingKeepsOrder

\* The reconnect delay is over.
LEMMA DelayEndsIInv ==
  ASSUME IInv, DelayEnds
  PROVE  IInv'
<1> USE FailoverAssumption DEF IInv, DelayEnds, ivars, tvars, rvars, nvars, cvars,
     svars, hvars
<1>1. TypeOK'
  BY DEF TypeOK
<1>2. Places'
  BY DEF Places, Connecting, Iterating
<1>3. OnlyForgets
  BY DEF OnlyForgets, Connecting
<1>4. ListenerIsTold'
  BY DEF ListenerIsTold, IsClosedOrFailed
<1> QED BY <1>1, <1>2, <1>3, <1>4, ForgettingDelivers, ForgettingKeepsOrder

-----------------------------------------------------------------------------
(* Calls from outside *)

\* An exhausted broker is tried again.
LEMMA RecoverExhaustedIInv ==
  ASSUME IInv, NEW u \in Uris, RecoverExhausted(u)
  PROVE  IInv'
<1> USE FailoverAssumption DEF IInv, RecoverExhausted, ivars, tvars, rvars, nvars,
     cvars, svars, hvars
<1>1. TypeOK'
  <2>1. Flags'
    BY TypeParts DEF Flags
  <2>2. Numbers'
    BY TypeParts, CountType DEF Numbers
  <2>3. Pools'
    BY TypeParts DEF Pools
  <2>4. Lock'
    BY TypeParts DEF Lock, Iterating
  <2>5. Conns'
    BY TypeParts DEF Conns
  <2>6. Callers'
    BY TypeParts DEF Callers
  <2> QED BY <2>1, <2>2, <2>3, <2>4, <2>5, <2>6, TypeFromParts
<1>2. Places'
  BY DEF Places, Connecting, Iterating
<1>3. OnlyForgets
  BY DEF OnlyForgets, Connecting
<1>4. ListenerIsTold'
  BY DEF ListenerIsTold, IsClosedOrFailed
<1> QED BY <1>1, <1>2, <1>3, <1>4, ForgettingDelivers, ForgettingKeepsOrder

\* A URI is added to the pool.
LEMMA AddURIIInv ==
  ASSUME IInv, NEW u \in Uris, NEW r \in BOOLEAN, AddURI(u, r)
  PROVE  IInv'
<1> USE FailoverAssumption DEF IInv, AddURI, ivars, tvars, rvars, nvars, cvars,
     svars, hvars
<1>1. TypeOK'
  BY DEF TypeOK
<1>2. Places'
  BY DEF Places, Connecting, Iterating
<1>3. OnlyForgets
  BY DEF OnlyForgets, Connecting
<1>4. ListenerIsTold'
  BY DEF ListenerIsTold, IsClosedOrFailed
<1> QED BY <1>1, <1>2, <1>3, <1>4, ForgettingDelivers, ForgettingKeepsOrder

\* A URI is taken out of the pool.
LEMMA RemoveURIIInv ==
  ASSUME IInv, NEW u \in Uris, NEW r \in BOOLEAN, RemoveURI(u, r)
  PROVE  IInv'
<1> USE FailoverAssumption DEF IInv, RemoveURI, ivars, tvars, rvars, nvars, cvars,
     svars, hvars
<1>1. TypeOK'
  BY DEF TypeOK
<1>2. Places'
  BY DEF Places, Connecting, Iterating
<1>3. OnlyForgets
  BY DEF OnlyForgets, Connecting
<1>4. ListenerIsTold'
  BY DEF ListenerIsTold, IsClosedOrFailed
<1> QED BY <1>1, <1>2, <1>3, <1>4, ForgettingDelivers, ForgettingKeepsOrder

\* reconnect() wakes the runner.
LEMMA ReconnectIInv ==
  ASSUME IInv, Reconnect
  PROVE  IInv'
<1> USE FailoverAssumption DEF IInv, Reconnect, ivars, tvars, rvars, nvars, cvars,
     svars, hvars
<1>1. TypeOK'
  BY DEF TypeOK
<1>2. Places'
  BY DEF Places, Connecting, Iterating
<1>3. OnlyForgets
  BY DEF OnlyForgets, Connecting
<1>4. ListenerIsTold'
  BY DEF ListenerIsTold, IsClosedOrFailed
<1> QED BY <1>1, <1>2, <1>3, <1>4, ForgettingDelivers, ForgettingKeepsOrder

\* The application closes the transport.
LEMMA CallCloseIInv ==
  ASSUME IInv, CallClose
  PROVE  IInv'
<1> USE FailoverAssumption DEF IInv, CallClose, ivars, tvars, rvars, nvars, cvars,
     svars, hvars
<1>1. TypeOK'
  BY DEF TypeOK
<1>2. Places'
  BY DEF Places, Connecting, Iterating
<1>3. OnlyForgets
  BY DEF OnlyForgets, Connecting
<1>4. ListenerIsTold'
  BY DEF ListenerIsTold, IsClosedOrFailed
<1> QED BY <1>1, <1>2, <1>3, <1>4, ForgettingDelivers, ForgettingKeepsOrder

\* stop().
LEMMA StopIInv ==
  ASSUME IInv, Stop
  PROVE  IInv'
<1> USE FailoverAssumption DEF IInv, Stop, ivars, tvars, rvars, nvars, cvars, svars,
     hvars
<1>1. TypeOK'
  <2>1. Flags'
    BY TypeParts DEF Flags
  <2>2. Numbers'
    BY TypeParts DEF Numbers
  <2>3. Pools'
    BY TypeParts DEF Pools
  <2>4. Lock'
    BY TypeParts DEF Lock, Iterating
  <2>5. Conns'
    BY TypeParts DEF Conns
  <2>6. Callers'
    BY TypeParts DEF Callers
  <2> QED BY <2>1, <2>2, <2>3, <2>4, <2>5, <2>6, TypeFromParts
<1>2. Places'
  BY DEF Places, Connecting, Iterating
<1>3. OnlyForgets
  BY DEF OnlyForgets, Connecting
<1>4. ListenerIsTold'
  BY DEF ListenerIsTold, IsClosedOrFailed
<1> QED BY <1>1, <1>2, <1>3, <1>4, ForgettingDelivers, ForgettingKeepsOrder

\* close() forgets the requests and the connection.
LEMMA CloseIInv ==
  ASSUME IInv, Close
  PROVE  IInv'
<1>z. alive' \in [Connections -> BOOLEAN]
  BY DEF Close, IInv, TypeOK
<1> USE FailoverAssumption DEF IInv, Close, ivars, tvars, rvars, nvars, cvars,
     svars, hvars
<1>1. TypeOK'
  <2>1. Flags'
    BY TypeParts DEF Flags
  <2>2. Numbers'
    BY TypeParts DEF Numbers
  <2>3. Pools'
    BY TypeParts DEF Pools
  <2>4. Lock'
    BY TypeParts DEF Lock, Iterating
  <2>5. Conns'
    BY TypeParts, <1>z DEF Conns
  <2>6. Callers'
    BY TypeParts DEF Callers
  <2> QED BY <2>1, <2>2, <2>3, <2>4, <2>5, <2>6, TypeFromParts
<1>2. Places'
  BY DEF Places, Connecting, Iterating
<1>3. OnlyForgets
  BY DEF OnlyForgets, Connecting
<1>4. ListenerIsTold'
  BY DEF ListenerIsTold, IsClosedOrFailed
<1> QED BY <1>1, <1>2, <1>3, <1>4, ForgettingDelivers, ForgettingKeepsOrder

-----------------------------------------------------------------------------
(* A connection is abandoned *)

\* handleTransportFailure() leaves things as they are, or nothing connected.
LEMMA FailureHandled ==
  ASSUME TypeOK, Places, HandleTransportFailure
  PROVE  /\ \/ /\ UNCHANGED <<connectedTransport, connectedURI, disposed, closing, uris>>
               /\ UNCHANGED <<connected, pending, told, connectionFailure>>
               /\ shutdown \/ connectedTransport = 0
            \/ connectedTransport' = 0 /\ connectedURI' = None /\ told' \in {"down", "failed"}
         /\ connectionFailure' \in BOOLEAN /\ connected' \in BOOLEAN /\ pending' \in BOOLEAN
         /\ closing' \subseteq 1..created /\ uris' \subseteq Uris
         /\ disposed' \in [Connections -> BOOLEAN]
<1>1. CASE shutdown \/ connectedTransport = 0
  BY <1>1 DEF HandleTransportFailure, tvars, TypeOK
<1>2. CASE ~(shutdown \/ connectedTransport = 0)
  <2>1. /\ Abandon /\ connected' = FALSE /\ pending' = TRUE
        /\ told' = IF CanReconnect THEN "down" ELSE "failed"
    BY <1>2 DEF HandleTransportFailure
  <2>2. connectionFailure' \in BOOLEAN
    BY <1>2, Zenon DEF HandleTransportFailure
  <2>3. /\ connectedTransport' = 0 /\ connectedURI' = None
        /\ closing' = closing \cup {connectedTransport} /\ uris' = uris \cup {connectedURI}
        /\ disposed' = [disposed EXCEPT ![connectedTransport] = TRUE]
    BY <2>1 DEF Abandon
  <2>4. connectedTransport \in 1..created /\ connectedURI \in Uris
    BY <1>2 DEF TypeOK, Places
  <2>5. /\ closing' \subseteq 1..created /\ uris' \subseteq Uris
        /\ disposed' \in [Connections -> BOOLEAN]
    BY <2>3, <2>4 DEF TypeOK
  <2> QED BY <2>1, <2>2, <2>3, <2>5
<1> QED BY <1>1, <1>2

\* The reader of a broken connection gets the lock.
LEMMA OnExceptionIInv ==
  ASSUME IInv, NEW n \in Connections, OnException(n)
  PROVE  IInv'
<1> USE FailureHandled DEF IInv
<1>a. HandleTransportFailure
  BY DEF OnException
<1> USE <1>a
<1> USE FailoverAssumption DEF IInv, OnException, ivars, tvars, rvars, nvars, cvars,
     svars, hvars
<1>1. TypeOK'
  <2>1. Flags'
    BY TypeParts DEF Flags
  <2>2. Numbers'
    BY TypeParts DEF Numbers
  <2>3. Pools'
    BY TypeParts DEF Pools
  <2>4. Lock'
    BY TypeParts DEF Lock, Iterating
  <2>5. Conns'
    BY TypeParts DEF Conns
  <2>6. Callers'
    BY TypeParts DEF Callers
  <2> QED BY <2>1, <2>2, <2>3, <2>4, <2>5, <2>6, TypeFromParts
<1>2. Places'
  BY DEF Places, Connecting, Iterating
<1>3. OnlyForgets
  BY DEF OnlyForgets, Connecting
<1>4. ListenerIsTold'
  BY DEF ListenerIsTold, IsClosedOrFailed
<1> QED BY <1>1, <1>2, <1>3, <1>4, ForgettingDelivers, ForgettingKeepsOrder

\* iterate() starts over, when it has nothing to do, no URI or no connection ...
LEMMA IterateKeepsIInv ==
  ASSUME IInv, Iterate, UNCHANGED <<connectedTransport, connectedURI>>
  PROVE  IInv'
<1>a. UNCHANGED <<disposed, closing, uris, told>>
  BY DEF Iterate, Abandon, IInv, TypeOK, Places
<1>b. rpc' = "sleep" => connectedTransport = 0
  BY FailoverAssumption DEF Iterate, Abandon, IInv, TypeOK, Places
<1>c. /\ rpc' \in {"check", "tail", "sleep"} /\ rpc = "iterate" /\ mutex = None
      /\ mutex' = IF rpc' = "tail" THEN Runner ELSE None
      /\ doRebalance' \in BOOLEAN /\ failure' \in BOOLEAN /\ tried' \subseteq Uris
  BY DEF Iterate, IInv, TypeOK
<1> USE FailoverAssumption, <1>a, <1>b, <1>c
      DEF IInv, Iterate, ivars, tvars, rvars, nvars, cvars, svars, hvars
<1>1. TypeOK'
  BY DEF TypeOK
<1>2. Places'
  BY DEF Places, Connecting, Iterating
<1>3. OnlyForgets
  BY DEF OnlyForgets, Connecting
<1>4. ListenerIsTold'
  BY DEF ListenerIsTold, IsClosedOrFailed
<1> QED BY <1>1, <1>2, <1>3, <1>4, ForgettingDelivers, ForgettingKeepsOrder

\* ... and when a rebalance makes it abandon the connection it has.
LEMMA IterateAbandonsIInv ==
  ASSUME IInv, Iterate, ~UNCHANGED <<connectedTransport, connectedURI>>
  PROVE  IInv'
<1>a. /\ Abandon /\ rpc' = "sleep" /\ told' = "down" /\ ~IsClosedOrFailed
      /\ connectedURI # None /\ rpc = "iterate" /\ mutex = None /\ doRebalance' = FALSE
      /\ UNCHANGED <<mutex, tried, failure>>
  BY DEF Iterate, tvars
<1>b. connectedTransport \in 1..created /\ connectedURI \in Uris
  BY <1>a DEF IInv, TypeOK, Places, IsClosedOrFailed
<1>c. /\ connectedTransport' = 0 /\ connectedURI' = None
      /\ closing' \subseteq 1..created /\ uris' \subseteq Uris
      /\ disposed' \in [Connections -> BOOLEAN]
  BY <1>a, <1>b DEF Abandon, IInv, TypeOK
<1>d. /\ UNCHANGED <<started, closed, shutdown, connected, firstConnection, connectionFailure>>
      /\ UNCHANGED <<connectFailures, failureCount, requestMap, tracked, transport, uri, todo>>
      /\ UNCHANGED <<pending, created, alive, dead, exception, written, svars>>
      /\ UNCHANGED <<answered, restored, nullFailure>>
  BY DEF Iterate
<1> USE FailoverAssumption, <1>a, <1>c, <1>d DEF IInv, svars, cvars
<1>1. TypeOK'
  <2>1. Flags'
    BY TypeParts DEF Flags
  <2>2. Numbers'
    BY TypeParts DEF Numbers
  <2>3. Pools'
    BY TypeParts DEF Pools
  <2>4. Lock'
    BY TypeParts DEF Lock, Iterating
  <2>5. Conns'
    BY TypeParts DEF Conns
  <2>6. Callers'
    BY TypeParts DEF Callers
  <2> QED BY <2>1, <2>2, <2>3, <2>4, <2>5, <2>6, TypeFromParts
<1>2. Places'
  BY DEF Places, Connecting, Iterating
<1>3. OnlyForgets
  BY DEF OnlyForgets, Connecting
<1>4. ListenerIsTold'
  BY DEF ListenerIsTold, IsClosedOrFailed
<1> QED BY <1>1, <1>2, <1>3, <1>4, ForgettingDelivers, ForgettingKeepsOrder

\* No URI is left to try.
LEMMA IterateTailIInv ==
  ASSUME IInv, IterateTail
  PROVE  IInv'
<1>a. /\ nullFailure' \in BOOLEAN /\ connectionFailure' \in BOOLEAN
      /\ (connectionFailure' <=> ~Transitioning) \/ UNCHANGED <<connectionFailure, told>>
  BY Zenon DEF IterateTail, Exhaust, Backoff, IInv, TypeOK
<1>b. connectFailures' \in 0..CountCap /\ failureCount' \in [Uris -> 0..CountCap]
  <2>1. connectFailures' \in {0, Count(connectFailures)}
        /\ failureCount' \in {failureCount, [u \in Uris |-> 0]}
    BY DEF IterateTail, Exhaust, Backoff
  <2>2. 0 \in 0..CountCap /\ Count(connectFailures) \in 0..CountCap
    BY CountType DEF IInv, TypeOK
  <2> QED BY <2>1, <2>2 DEF IInv, TypeOK
<1> USE FailoverAssumption DEF IInv, IterateTail, Exhaust, Backoff, ivars, tvars,
     rvars, nvars, cvars, svars, hvars
<1>1. TypeOK'
  <2>1. Flags'
    BY TypeParts, <1>a DEF Flags
  <2>2. Numbers'
    BY TypeParts, <1>b DEF Numbers
  <2>3. Pools'
    BY TypeParts DEF Pools
  <2>4. Lock'
    BY TypeParts DEF Lock, Iterating
  <2>5. Conns'
    BY TypeParts DEF Conns
  <2>6. Callers'
    BY TypeParts DEF Callers
  <2> QED BY <2>1, <2>2, <2>3, <2>4, <2>5, <2>6, TypeFromParts
<1>2. Places'
  BY DEF Places, Connecting, Iterating
<1>3. OnlyForgets
  BY DEF OnlyForgets, Connecting
<1>4. ListenerIsTold'
  BY <1>a DEF ListenerIsTold, IsClosedOrFailed, TypeOK, Transitioning, Delivery,
     FirstIsEmpty
<1> QED BY <1>1, <1>2, <1>3, <1>4, ForgettingDelivers, ForgettingKeepsOrder

-----------------------------------------------------------------------------
(* Writing to a connection *)

\* A command that is new to the connection, and state if state is still to be
\* sent, keeps the order of what the broker gets.
LEMMA WriteKeepsOrder ==
  ASSUME IInv, NEW n \in Connections, n <= created, NEW x \in Commands,
         x \notin ToSet(written[n]),
         x \in restored[n] \/ Len(written[n]) >= Cardinality(restored[n]),
         written' = [written EXCEPT ![n] = Append(@, x)],
         UNCHANGED <<restored, created>>
  PROVE  /\ written' \in [Connections -> Seq(Commands)]
         /\ \A m \in Connections : m # n => written'[m] = written[m]
         /\ Len(written'[n]) = Len(written[n]) + 1 /\ Len(written[n]) \in Nat
         /\ ToSet(written'[n]) = ToSet(written[n]) \cup {x}
         /\ Cardinality(restored[n]) \in Nat
         /\ FutureIsEmpty' /\ SentOnce' /\ StateFirst'
<1> DEFINE s == written[n]
<1>1. s \in Seq(Commands) /\ written \in [Connections -> Seq(Commands)]
  BY DEF IInv, TypeOK
<1>2. written'[n] = Append(s, x) /\ \A m \in Connections : m # n => written'[m] = written[m]
  BY <1>1
<1>3. /\ Append(s, x) \in Seq(Commands) /\ Len(Append(s, x)) = Len(s) + 1
      /\ ToSet(Append(s, x)) = ToSet(s) \cup {x}
      /\ \A i \in 1..Len(s) : Append(s, x)[i] = s[i]
      /\ Append(s, x)[Len(s) + 1] = x
      /\ IsInjective(s) => IsInjective(Append(s, x))
  BY <1>1, WriteAppends
<1> HIDE DEF s
<1>4. written' \in [Connections -> Seq(Commands)] /\ Len(s) \in Nat
  BY <1>1, <1>3 DEF s
<1>5. Cardinality(restored[n]) \in Nat
  BY CommandsFinite, FS_Subset, FS_CardinalityType DEF IInv, Delivery, HeldKinds
<1>6. FutureIsEmpty'
  BY <1>2 DEF IInv, Delivery, FutureIsEmpty, TypeOK, Connections
<1>7. SentOnce'
  BY <1>2, <1>3 DEF IInv, Order, SentOnce, s
<1>8. StateFirst'
  <2> SUFFICES ASSUME NEW m \in Connections, NEW i \in 1..Len(written'[m]),
                      i <= Cardinality(restored[m])
               PROVE  written'[m][i] \in restored[m]
    BY DEF StateFirst
  <2>1. CASE m # n
    BY <1>2, <2>1 DEF IInv, Order, StateFirst
  <2>2. CASE m = n /\ i \in 1..Len(s)
    BY <1>2, <1>3, <2>2 DEF IInv, Order, StateFirst, s
  <2>3. CASE m = n /\ i = Len(s) + 1
    BY <1>2, <1>3, <1>4, <1>5, <2>3 DEF s
  <2> QED BY <1>2, <1>3, <1>4, <2>1, <2>2, <2>3
<1> QED BY <1>2, <1>3, <1>4, <1>5, <1>6, <1>7, <1>8 DEF s

\* What oneway() remembers of a command it has written, or tried to.
LEMMA Remembered ==
  ASSUME IInv, NEW c \in Commands, Track(c), Hold(c)
  PROVE  /\ requestMap' \subseteq Commands /\ tracked' \subseteq Commands
         /\ requestMap \subseteq requestMap' /\ requestMap' \subseteq requestMap \cup {c}
         /\ tracked' \subseteq tracked \cup {c}
         /\ \A e \in tracked : e \in tracked' \/ (Kind[c] = "remove" /\ Target[c] = e)
         /\ Kind[c] \in {"request", "message", "info"} => c \in Held'
         /\ \A e \in tracked' : Kind[e] = "info"
         /\ \A e \in requestMap' : Kind[e] \in {"request", "message"}
BY DEF IInv, TypeOK, Delivery, HeldKinds, Track, Hold, Held, Answered, IsTracked

\* A sender that may go on has not returned, and the runner is not inside iterate().
LEMMA InLoopFacts ==
  ASSUME IInv, NEW c \in Commands, InLoop(c)
  PROVE  /\ pc[c] \in {"idle", "wait", "retry"} /\ mutex \in {None, c}
         /\ mutex # Runner /\ rpc \notin Iterating
BY FailoverAssumption DEF IInv, TypeOK, InLoop, Iterating

\* oneway() writes: the command was not on this connection yet, and is on it
\* before anything can be replayed.
LEMMA OnewayWriteIInv ==
  ASSUME IInv, NEW c \in Commands, OnewayWrite(c)
  PROVE  IInv'
<1> DEFINE n == connectedTransport
<1>1. /\ InLoop(c) /\ ~closed /\ n # 0 /\ Track(c) /\ Hold(c)
      /\ written' = [written EXCEPT ![n] = Append(@, c)]
      /\ pc' = [pc EXCEPT ![c] = "returned"] /\ mutex' = None
  BY DEF OnewayWrite, Return
<1>2. /\ UNCHANGED <<started, closed, connected, firstConnection, connectionFailure>>
      /\ UNCHANGED <<doRebalance, connectFailures, failureCount, uris, connectedTransport>>
      /\ UNCHANGED <<connectedURI, rpc, tried, failure, transport, uri, todo, pending>>
      /\ UNCHANGED <<closing, created, alive, dead, disposed, exception, closer, request>>
      /\ UNCHANGED <<answered, told, restored, nullFailure>>
  BY DEF OnewayWrite, tvars, rvars, cvars, hvars
<1>3. n \in Connections /\ n <= created
  BY <1>1, FailoverAssumption DEF IInv, TypeOK, Connections
<1>4. /\ pc[c] # "returned" /\ mutex # Runner /\ rpc \notin Iterating
      /\ ~firstConnection
  BY <1>1, InLoopFacts DEF IInv, Delivery, FirstIsEmpty
<1>5. c \notin ToSet(written[n])
  BY <1>3, <1>4 DEF IInv, Delivery, WrittenReturned
<1>6. Len(written[n]) >= Cardinality(restored[n])
  BY <1>1 DEF IInv, Order, StateIsOut
<1>7. /\ written' \in [Connections -> Seq(Commands)]
      /\ \A m \in Connections : m # n => written'[m] = written[m]
      /\ Len(written'[n]) = Len(written[n]) + 1 /\ Len(written[n]) \in Nat
      /\ ToSet(written'[n]) = ToSet(written[n]) \cup {c}
      /\ Cardinality(restored[n]) \in Nat
      /\ FutureIsEmpty' /\ SentOnce' /\ StateFirst'
  BY <1>1, <1>2, <1>3, <1>5, <1>6, WriteKeepsOrder
<1>8. /\ requestMap' \subseteq Commands /\ tracked' \subseteq Commands
      /\ requestMap \subseteq requestMap' /\ requestMap' \subseteq requestMap \cup {c}
      /\ tracked' \subseteq tracked \cup {c}
      /\ \A e \in tracked : e \in tracked' \/ (Kind[c] = "remove" /\ Target[c] = e)
      /\ Kind[c] \in {"request", "message", "info"} => c \in Held'
      /\ \A e \in tracked' : Kind[e] = "info"
      /\ \A e \in requestMap' : Kind[e] \in {"request", "message"}
  BY <1>1, Remembered
<1>9. \A e \in Commands : pc'[e] = IF e = c THEN "returned" ELSE pc[e]
  BY <1>1 DEF IInv, TypeOK
<1> HIDE DEF n
<1>10. TypeOK'
  <2>1. shutdown' \in BOOLEAN
    BY Zenon DEF OnewayWrite
  <2>2. pc' \in [Commands -> {"idle", "wait", "retry", "returned", "threw"}]
    BY <1>1 DEF IInv, TypeOK
  <2>3. Flags' /\ Numbers' /\ Pools'
    BY <1>2, <1>8, <2>1, TypeParts DEF IInv, Flags, Numbers, Pools
  <2>4. Lock' /\ Conns' /\ Callers'
    BY <1>1, <1>2, <1>4, <1>7, <2>2, TypeParts, FailoverAssumption
       DEF IInv, Lock, Conns, Callers, Iterating
  <2> QED BY <2>3, <2>4, TypeFromParts
<1>11. Places' /\ ListenerIsTold'
  BY <1>2 DEF IInv, Places, ListenerIsTold, IsClosedOrFailed, n
<1>12. HeldUntilClosed'
  <2> SUFFICES ASSUME NEW e \in Commands, pc'[e] = "returned", e \notin answered,
                      Kind[e] \in {"request", "message", "info"}
               PROVE  \/ e \in Held'
                      \/ \E d \in Commands : Kind[d] = "remove" /\ Target[d] = e /\ pc'[d] # "idle"
    BY <1>2 DEF HeldUntilClosed
  <2>1. CASE e = c
    BY <1>8, <2>1
  <2>2. CASE e # c
    <3>1. \/ e \in requestMap \/ e \in tracked
          \/ \E d \in Commands : Kind[d] = "remove" /\ Target[d] = e /\ pc[d] # "idle"
      BY <1>1, <1>9, <2>2 DEF IInv, Delivery, HeldUntilClosed, Held
    <3> QED BY <1>8, <1>9, <3>1 DEF Held
  <2> QED BY <2>1, <2>2
<1>13. FirstIsEmpty' /\ HeldKinds'
  BY <1>2, <1>4, <1>8 DEF IInv, Delivery, FirstIsEmpty, HeldKinds
<1>14. HeldReturned'
  BY <1>2, <1>8, <1>9 DEF IInv, TypeOK, Delivery, HeldReturned, Held
<1>15. WrittenReturned'
  <2> SUFFICES ASSUME NEW m \in Connections, NEW e \in ToSet(written'[m]) PROVE pc'[e] = "returned"
    BY DEF WrittenReturned
  <2>1. e \in Commands
    BY <1>7 DEF ToSet
  <2>2. e \in ToSet(written[m]) \/ e = c
    BY <1>7
  <2> QED BY <1>9, <2>1, <2>2 DEF IInv, Delivery, WrittenReturned
<1>16. Replaying' /\ TodoIsNew'
  BY <1>2, <1>4 DEF Replaying, TodoIsNew, Iterating
<1>17. HeldIsWritten'
  <2>1. shutdown => shutdown'
    BY Zenon DEF OnewayWrite
  <2>2. Held' \subseteq Held \cup {c}
    BY <1>8 DEF Held
  <2>3. started /\ ~shutdown => Held \subseteq ToSet(written[n])
    BY <1>1 DEF IInv, Delivery, HeldIsWritten, n
  <2> QED BY <1>2, <1>7, <2>1, <2>2, <2>3 DEF HeldIsWritten, n
<1>18. StateIsOut'
  BY <1>2, <1>4, <1>6, <1>7 DEF StateIsOut, Iterating, n
<1> QED BY <1>7, <1>10, <1>11, <1>12, <1>13, <1>14, <1>15, <1>16, <1>17, <1>18
        DEF IInv, Delivery, Order

\* The write throws: the connection is abandoned, whatever becomes of the command.
LEMMA OnewayThrowsTypes ==
  ASSUME IInv, NEW c \in Commands, OnewayThrows(c)
  PROVE  TypeOK' /\ Places' /\ ListenerIsTold'
<1>1. /\ InLoop(c) /\ connectedTransport # 0 /\ HandleTransportFailure /\ Track(c)
      /\ dead' = dead \cup {connectedTransport}
      /\ Hold(c) \/ Unhold(c)
      /\ pc' \in {[pc EXCEPT ![c] = "retry"], [pc EXCEPT ![c] = "returned"]}
      /\ mutex' \in {c, None}
  BY DEF OnewayThrows, Return
<1>2. /\ UNCHANGED <<started, closed, shutdown, firstConnection, doRebalance, connectFailures>>
      /\ UNCHANGED <<failureCount, rpc, tried, failure, transport, uri, todo, created>>
      /\ UNCHANGED <<alive, exception, written, closer, request, answered, nullFailure>>
  BY DEF OnewayThrows, rvars, cvars
<1>3. mutex # Runner /\ rpc \notin Iterating /\ None \notin Commands \cup {Runner}
      /\ Runner \notin Commands
  BY <1>1, InLoopFacts, FailoverAssumption
<1>4. /\ \/ /\ UNCHANGED <<connectedTransport, connectedURI, disposed, closing, uris>>
            /\ UNCHANGED <<connected, pending, told, connectionFailure>>
            /\ shutdown \/ connectedTransport = 0
         \/ connectedTransport' = 0 /\ connectedURI' = None /\ told' \in {"down", "failed"}
      /\ connectionFailure' \in BOOLEAN /\ connected' \in BOOLEAN /\ pending' \in BOOLEAN
      /\ closing' \subseteq 1..created /\ uris' \subseteq Uris
      /\ disposed' \in [Connections -> BOOLEAN]
  BY <1>1, FailureHandled DEF IInv
<1>5. requestMap' \subseteq Commands /\ tracked' \subseteq Commands
  BY <1>1 DEF IInv, TypeOK, Hold, Unhold, Track
<1>6. dead' \subseteq 1..created
  BY <1>1 DEF IInv, TypeOK
<1>7. TypeOK'
  <2>1. Flags' /\ Pools'
    BY <1>2, <1>4, <1>5, TypeParts DEF IInv, Flags, Pools
  <2>2. Numbers' /\ Lock'
    BY <1>1, <1>2, <1>3, <1>4, TypeParts DEF IInv, Numbers, Lock
  <2>3. Conns' /\ Callers'
    BY <1>1, <1>2, <1>4, <1>6, TypeParts DEF IInv, Conns, Callers
  <2> QED BY <2>1, <2>2, <2>3, TypeFromParts
<1>8. Places'
  BY <1>2, <1>3, <1>4 DEF IInv, Places, Connecting, Iterating
<1>9. ListenerIsTold'
  BY <1>2, <1>4 DEF IInv, ListenerIsTold, IsClosedOrFailed
<1> QED BY <1>7, <1>8, <1>9

\* The command is held, or its sender keeps it and the lock.
LEMMA OnewayThrowsIInv ==
  ASSUME IInv, NEW c \in Commands, OnewayThrows(c)
  PROVE  IInv'
<1>1. /\ InLoop(c) /\ ~closed /\ connectedTransport # 0 /\ HandleTransportFailure /\ Track(c)
      /\ UNCHANGED <<started, closed, shutdown, firstConnection, rpc, transport, todo>>
      /\ UNCHANGED <<created, written, answered, restored>>
  BY DEF OnewayThrows, rvars
<1>2. /\ pc[c] \in {"idle", "wait", "retry"} /\ rpc \notin Iterating /\ ~firstConnection
  BY <1>1, InLoopFacts DEF IInv, Delivery, FirstIsEmpty
<1>3. connectedTransport' = 0 \/ (shutdown /\ UNCHANGED connectedTransport)
  BY <1>1, FailureHandled DEF IInv
<1>4. TypeOK' /\ Places' /\ ListenerIsTold'
  BY OnewayThrowsTypes
<1>5. CASE ~IsTracked(c) /\ CanReconnect
  <2>1. /\ requestMap' = requestMap \ {c} /\ pc' = [pc EXCEPT ![c] = "retry"]
        /\ UNCHANGED tracked
    BY <1>5 DEF OnewayThrows, Unhold, Track, IsTracked
  <2>2. c \notin requestMap
    BY <1>2 DEF IInv, Delivery, HeldReturned, Held
  <2>3. \A e \in Commands : pc'[e] = IF e = c THEN "retry" ELSE pc[e]
    BY <2>1 DEF IInv, TypeOK
  <2>4. OnlyForgets
    BY <1>1, <1>2, <1>3, <2>1, <2>2, <2>3 DEF OnlyForgets
  <2> QED BY <1>4, <2>4, ForgettingDelivers, ForgettingKeepsOrder DEF IInv
<1>6. CASE ~(~IsTracked(c) /\ CanReconnect)
  <2>1. Hold(c) /\ pc' = [pc EXCEPT ![c] = "returned"]
    BY <1>6 DEF OnewayThrows, Return
  <2>2. \A e \in Commands : pc'[e] = IF e = c THEN "returned" ELSE pc[e]
    BY <2>1 DEF IInv, TypeOK
  <2>3. /\ requestMap' \subseteq Commands /\ tracked' \subseteq Commands
        /\ requestMap \subseteq requestMap' /\ requestMap' \subseteq requestMap \cup {c}
        /\ tracked' \subseteq tracked \cup {c}
        /\ \A e \in tracked : e \in tracked' \/ (Kind[c] = "remove" /\ Target[c] = e)
        /\ Kind[c] \in {"request", "message", "info"} => c \in Held'
        /\ \A e \in tracked' : Kind[e] = "info"
        /\ \A e \in requestMap' : Kind[e] \in {"request", "message"}
    BY <1>1, <2>1, Remembered
  <2>4. HeldUntilClosed'
    <3> SUFFICES ASSUME NEW e \in Commands, pc'[e] = "returned", e \notin answered,
                        Kind[e] \in {"request", "message", "info"}
                 PROVE  \/ e \in Held'
                        \/ \E d \in Commands : Kind[d] = "remove" /\ Target[d] = e /\ pc'[d] # "idle"
      BY <1>1 DEF HeldUntilClosed
    <3>1. CASE e = c
      BY <2>3, <3>1
    <3>2. CASE e # c
      <4>1. \/ e \in requestMap \/ e \in tracked
            \/ \E d \in Commands : Kind[d] = "remove" /\ Target[d] = e /\ pc[d] # "idle"
        BY <1>1, <2>2, <3>2 DEF IInv, Delivery, HeldUntilClosed, Held
      <4> QED BY <2>2, <2>3, <4>1 DEF Held
    <3> QED BY <3>1, <3>2
  <2>5. FirstIsEmpty' /\ HeldKinds' /\ FutureIsEmpty'
    BY <1>1, <1>2, <2>3 DEF IInv, Delivery, FirstIsEmpty, HeldKinds, FutureIsEmpty
  <2>6. HeldReturned'
    BY <1>1, <2>2, <2>3 DEF IInv, TypeOK, Delivery, HeldReturned, Held
  <2>7. WrittenReturned'
    <3>1. \A m \in Connections : ToSet(written[m]) \subseteq Commands
      BY DEF IInv, TypeOK, ToSet
    <3> QED BY <1>1, <2>2, <3>1 DEF IInv, Delivery, WrittenReturned
  <2>8. Replaying' /\ TodoIsNew'
    BY <1>1, <1>2 DEF Replaying, TodoIsNew, Iterating
  <2>9. HeldIsWritten'
    BY <1>1, <1>3 DEF HeldIsWritten
  <2>10. SentOnce' /\ StateFirst' /\ StateIsOut'
    BY <1>1, <1>2, <1>3 DEF IInv, Order, SentOnce, StateFirst, StateIsOut, Iterating
  <2> QED BY <1>4, <2>4, <2>5, <2>6, <2>7, <2>8, <2>9, <2>10 DEF IInv, Delivery, Order
<1> QED BY <1>5, <1>6

-----------------------------------------------------------------------------
(* A connection is restored *)

\* A connection is made: it is empty, and what is tracked is to be sent first.
LEMMA StartSucceedsIInv ==
  ASSUME IInv, StartSucceeds
  PROVE  IInv'
<1> DEFINE n == created + 1
<1>1. /\ rpc = "starting" /\ created < MaxConnections /\ created' = n /\ transport' = n
      /\ alive' = [alive EXCEPT ![n] = TRUE]
      /\ UNCHANGED <<started, closed, shutdown, connected, firstConnection, connectionFailure>>
      /\ UNCHANGED <<doRebalance, connectFailures, failureCount, uris, connectedTransport>>
      /\ UNCHANGED <<connectedURI, requestMap, mutex, tracked, tried, failure, uri, pending>>
      /\ UNCHANGED <<closing, dead, disposed, exception, written, pc, closer, request>>
      /\ UNCHANGED <<answered, told, nullFailure>>
  BY DEF StartSucceeds, ivars, tvars, svars, cvars
<1>2. \/ /\ started /\ ~firstConnection /\ rpc' = "restore" /\ todo' = tracked
         /\ restored' = [restored EXCEPT ![n] = tracked]
      \/ /\ ~(started /\ ~firstConnection) /\ rpc' = "publish" /\ UNCHANGED <<todo, restored>>
  BY <1>1 DEF StartSucceeds, StateToRestore
<1>3. /\ n \in Connections /\ created \in Nat /\ ~(n <= created) /\ uri \in Uris
      /\ connectedTransport = 0
      /\ written[n] = <<>> /\ restored[n] = {}
  <2>1. created \in Nat /\ n \in Connections /\ n > created /\ ~(n <= created)
    BY <1>1, FailoverAssumption DEF IInv, TypeOK, Connections
  <2>2. uri \in Uris /\ connectedTransport = 0
    BY <1>1 DEF IInv, Places
  <2>3. written[n] = <<>> /\ restored[n] = {}
    BY <2>1 DEF IInv, Delivery, FutureIsEmpty
  <2> QED BY <2>1, <2>2, <2>3
<1>4. ToSet(written[n]) = {} /\ Len(written[n]) = 0
  BY <1>3 DEF ToSet
<1>5. /\ \A m \in Connections : restored'[m] = IF m = n /\ rpc' = "restore" THEN tracked ELSE restored[m]
      /\ restored' \in [Connections -> SUBSET {c \in Commands : Kind[c] = "info"}]
  BY <1>2, <1>3 DEF IInv, TypeOK, Delivery, HeldKinds
<1>6. \A m \in 0..created : m \in 0..n
  BY <1>3
<1> HIDE DEF n
<1>7. TypeOK'
  <2>1. Flags' /\ Pools' /\ Callers'
    BY <1>1, <1>2, TypeParts DEF IInv, Flags, Pools, Callers
  <2>2. Numbers'
    BY <1>1, <1>3, <1>6, TypeParts, FailoverAssumption DEF IInv, Numbers, n
  <2>3. Lock'
    BY <1>1, <1>2, TypeParts DEF IInv, Lock, Iterating
  <2>4. Conns'
    BY <1>1, <1>3, <1>6, TypeParts DEF IInv, Conns, n
  <2> QED BY <2>1, <2>2, <2>3, <2>4, TypeFromParts
<1>8. Places'
  BY <1>1, <1>2, <1>3 DEF IInv, Places, Connecting, Iterating, n
<1>9. HeldUntilClosed' /\ FirstIsEmpty' /\ WrittenReturned' /\ ListenerIsTold'
  BY <1>1 DEF IInv, Delivery, HeldUntilClosed, FirstIsEmpty, WrittenReturned, Held,
     ListenerIsTold, IsClosedOrFailed
<1>10. HeldKinds'
  BY <1>1, <1>5 DEF IInv, Delivery, HeldKinds
<1>11. HeldReturned'
  BY <1>1, <1>2 DEF IInv, Delivery, HeldReturned, Held
<1>12. FutureIsEmpty'
  BY <1>1, <1>3, <1>5 DEF IInv, Delivery, FutureIsEmpty, n, Connections
<1>13. Replaying' /\ TodoIsNew'
  BY <1>1, <1>2, <1>3, <1>4, <1>5 DEF Replaying, TodoIsNew
<1>14. HeldIsWritten' /\ SentOnce'
  BY <1>1, <1>3 DEF IInv, HeldIsWritten, Order, SentOnce
<1>15. StateIsOut'
  <2>1. Cardinality(tracked) \in Nat
    BY CommandsFinite, FS_Subset, FS_CardinalityType DEF IInv, TypeOK
  <2>2. CASE rpc' = "restore"
    <3>1. Cardinality(restored'[n]) = Cardinality(tracked) /\ todo' = tracked
      BY <1>2, <1>3, <1>5, <2>2
    <3> QED BY <1>1, <1>3, <1>4, <2>1, <2>2, <3>1 DEF StateIsOut
  <2>3. CASE rpc' = "publish"
    <3>1. restored'[n] = {} /\ Cardinality({}) = 0
      BY <1>3, <1>5, <2>3, FS_EmptySet
    <3> QED BY <1>1, <1>3, <1>4, <2>3, <3>1 DEF StateIsOut
  <2> QED BY <1>2, <2>2, <2>3
<1>16. StateFirst'
  BY <1>1, <1>3, <1>4, <1>5 DEF IInv, Order, StateFirst
<1> QED BY <1>7, <1>8, <1>9, <1>10, <1>11, <1>12, <1>13, <1>14, <1>15, <1>16
        DEF IInv, Delivery, Order

\* One command of the replay is written.
LEMMA RestoreWriteIInv ==
  ASSUME IInv, RestoreWrite
  PROVE  IInv'
<1> DEFINE n == transport
           x == Least(todo)
<1>1. /\ rpc \in {"restore", "replay"} /\ todo # {} /\ todo' = todo \ {x}
      /\ written' = [written EXCEPT ![n] = Append(@, x)]
      /\ UNCHANGED <<started, closed, shutdown, connected, firstConnection, connectionFailure>>
      /\ UNCHANGED <<doRebalance, connectFailures, failureCount, uris, connectedTransport>>
      /\ UNCHANGED <<connectedURI, requestMap, mutex, tracked, rpc, tried, failure, transport>>
      /\ UNCHANGED <<uri, pending, closing, created, alive, dead, disposed, exception, pc>>
      /\ UNCHANGED <<closer, request, answered, told, restored, nullFailure>>
  BY DEF RestoreWrite, ivars, tvars, svars, cvars, hvars
<1>2. n \in Connections /\ n <= created /\ connectedTransport = 0
  <2>1. n \in 1..created /\ connectedTransport = 0
    BY <1>1 DEF IInv, Places, Connecting
  <2> QED BY <2>1, FailoverAssumption DEF IInv, TypeOK, Connections
<1>3. x \in todo /\ x \in Commands
  <2>1. todo \in SUBSET Nat
    BY CommandsFinite DEF IInv, TypeOK
  <2> QED BY <1>1, <2>1, LeastIsMember DEF IInv, TypeOK
<1>4. x \notin ToSet(written[n]) /\ pc[x] = "returned"
  BY <1>1, <1>3 DEF IInv, Order, TodoIsNew, Delivery, HeldReturned
<1>5. x \in restored[n] \/ Len(written[n]) >= Cardinality(restored[n])
  BY <1>1, <1>3 DEF IInv, Order, TodoIsNew, StateIsOut
<1> HIDE DEF x, n
<1>6. /\ written' \in [Connections -> Seq(Commands)]
      /\ \A m \in Connections : m # n => written'[m] = written[m]
      /\ Len(written'[n]) = Len(written[n]) + 1 /\ Len(written[n]) \in Nat
      /\ ToSet(written'[n]) = ToSet(written[n]) \cup {x}
      /\ Cardinality(restored[n]) \in Nat
      /\ FutureIsEmpty' /\ SentOnce' /\ StateFirst'
  BY <1>1, <1>2, <1>3, <1>4, <1>5, WriteKeepsOrder
<1>7. TypeOK'
  <2>1. Flags' /\ Numbers' /\ Callers'
    BY <1>1, TypeParts DEF IInv, Flags, Numbers, Callers
  <2>2. Pools' /\ Lock' /\ Conns'
    BY <1>1, <1>6, TypeParts DEF IInv, Pools, Lock, Conns
  <2> QED BY <2>1, <2>2, TypeFromParts
<1>8. Places' /\ ListenerIsTold' /\ HeldUntilClosed' /\ FirstIsEmpty' /\ HeldKinds'
  BY <1>1 DEF IInv, Places, ListenerIsTold, IsClosedOrFailed, Delivery, HeldUntilClosed,
     FirstIsEmpty, HeldKinds, Held
<1>9. HeldReturned' /\ WrittenReturned'
  BY <1>1, <1>4, <1>6 DEF IInv, Delivery, HeldReturned, WrittenReturned, Held
<1>10. Replaying' /\ HeldIsWritten'
  BY <1>1, <1>2, <1>6 DEF IInv, Delivery, Replaying, HeldIsWritten, n
<1>11. TodoIsNew'
  BY <1>1, <1>3, <1>6 DEF IInv, Order, TodoIsNew, n
<1>12. StateIsOut'
  <2>1. IsFiniteSet(todo)
    BY CommandsFinite, FS_Subset DEF IInv, TypeOK
  <2>2. Cardinality(todo') = Cardinality(todo) - 1
    BY <1>1, <1>3, <2>1, FS_RemoveElement
  <2>3. Cardinality(todo) \in Nat
    BY <2>1, FS_CardinalityType
  <2> QED BY <1>1, <1>2, <1>6, <2>2, <2>3 DEF IInv, Order, StateIsOut, n
<1> QED BY <1>6, <1>7, <1>8, <1>9, <1>10, <1>11, <1>12 DEF IInv, Delivery, Order

\* All the state is out; the held requests come next, and none of them was state.
LEMMA RestoreCopyIInv ==
  ASSUME IInv, RestoreCopy
  PROVE  IInv'
<1>1. /\ rpc = "restore" /\ todo = {} /\ todo' = requestMap /\ rpc' = "replay"
      /\ UNCHANGED <<started, closed, shutdown, connected, firstConnection, connectionFailure>>
      /\ UNCHANGED <<doRebalance, connectFailures, failureCount, uris, connectedTransport>>
      /\ UNCHANGED <<connectedURI, requestMap, mutex, tracked, tried, failure, transport>>
      /\ UNCHANGED <<uri, pending, closing, created, alive, dead, disposed, exception, written>>
      /\ UNCHANGED <<pc, closer, request, answered, told, restored, nullFailure>>
  BY DEF RestoreCopy, ToReplay, ivars, tvars, nvars, svars, cvars, hvars
<1>2. transport \in Connections
  <2>1. transport \in 1..created
    BY <1>1 DEF IInv, Places, Connecting
  <2> QED BY <2>1, FailoverAssumption DEF IInv, TypeOK, Connections
<1>3. TypeOK'
  <2>1. Flags' /\ Numbers' /\ Callers' /\ Pools'
    BY <1>1, TypeParts DEF IInv, Flags, Numbers, Callers, Pools
  <2>2. Lock' /\ Conns'
    BY <1>1, TypeParts DEF IInv, Lock, Conns, Iterating
  <2> QED BY <2>1, <2>2, TypeFromParts
<1>4. Places' /\ ListenerIsTold'
  BY <1>1 DEF IInv, Places, ListenerIsTold, IsClosedOrFailed, Connecting, Iterating
<1>5. HeldUntilClosed' /\ FirstIsEmpty' /\ HeldKinds' /\ WrittenReturned' /\ FutureIsEmpty'
  BY <1>1 DEF IInv, Delivery, HeldUntilClosed, FirstIsEmpty, HeldKinds, Held,
     WrittenReturned, FutureIsEmpty
<1>6. HeldReturned' /\ Replaying' /\ HeldIsWritten'
  BY <1>1 DEF IInv, Delivery, HeldReturned, Replaying, HeldIsWritten, Held
<1>7. TodoIsNew'
  BY <1>1, <1>2 DEF IInv, Order, TodoIsNew, Delivery, HeldKinds
<1>8. StateIsOut'
  <2>1. Cardinality(todo) = 0
    BY <1>1, FS_EmptySet
  <2>2. Len(written[transport]) \in Nat
    BY <1>2 DEF IInv, TypeOK
  <2> QED BY <1>1, <2>1, <2>2 DEF IInv, Order, StateIsOut
<1>9. SentOnce' /\ StateFirst'
  BY <1>1 DEF IInv, Order, SentOnce, StateFirst
<1> QED BY <1>3, <1>4, <1>5, <1>6, <1>7, <1>8, <1>9 DEF IInv, Delivery, Order

\* The connection is published: everything that is held has been written to it.
LEMMA PublishIInv ==
  ASSUME IInv, Publish
  PROVE  IInv'
<1>1. /\ rpc = "publish" \/ (rpc = "replay" /\ todo = {})
      /\ connectedTransport' = transport /\ connectedURI' = uri /\ transport' = 0
      /\ connected' = TRUE /\ firstConnection' = FALSE /\ connectFailures' = 0
      /\ failureCount' = [u \in Uris |-> 0] /\ uris' = uris \cup tried
      /\ told' = "up" /\ mutex' = None /\ rpc' = "check"
      /\ UNCHANGED <<started, closed, shutdown, connectionFailure, doRebalance, requestMap>>
      /\ UNCHANGED <<tracked, tried, failure, uri, todo, pending, closing, created, alive>>
      /\ UNCHANGED <<dead, disposed, exception, written, pc, closer, request, answered>>
      /\ UNCHANGED <<restored, nullFailure>>
  BY DEF Publish, nvars, svars, cvars
<1>2. transport \in 1..created /\ uri \in Uris
  BY <1>1 DEF IInv, Places, Connecting
<1>3. TypeOK'
  <2>1. Flags' /\ Callers'
    BY <1>1, TypeParts DEF IInv, Flags, Callers
  <2>2. Numbers'
    BY <1>1, <1>2, CountType, TypeParts DEF IInv, Numbers
  <2>3. Pools' /\ Lock' /\ Conns'
    BY <1>1, <1>2, TypeParts, FailoverAssumption DEF IInv, Pools, Lock, Conns, Iterating
  <2> QED BY <2>1, <2>2, <2>3, TypeFromParts
<1>4. Places' /\ ListenerIsTold'
  BY <1>1, <1>2 DEF IInv, Places, ListenerIsTold, IsClosedOrFailed, Connecting, Iterating
<1>5. HeldUntilClosed' /\ FirstIsEmpty' /\ HeldKinds'
  BY <1>1 DEF IInv, Delivery, HeldUntilClosed, FirstIsEmpty, HeldKinds, Held
<1>6. HeldReturned' /\ WrittenReturned' /\ FutureIsEmpty' /\ Replaying'
  BY <1>1 DEF IInv, Delivery, HeldReturned, WrittenReturned, FutureIsEmpty, Replaying, Held
<1>7. HeldIsWritten'
  BY <1>1 DEF IInv, Delivery, FirstIsEmpty, Replaying, HeldIsWritten, Held
<1>8. TodoIsNew' /\ SentOnce' /\ StateFirst'
  BY <1>1 DEF IInv, Order, TodoIsNew, SentOnce, StateFirst
<1>9. StateIsOut'
  BY <1>1 DEF IInv, Order, StateIsOut
<1> QED BY <1>3, <1>4, <1>5, <1>6, <1>7, <1>8, <1>9 DEF IInv, Delivery, Order

-----------------------------------------------------------------------------
(* The theorems *)

\* start() leaves nothing connected, held or written.
LEMMA InitIInv == Init => IInv
<1> SUFFICES ASSUME Init PROVE IInv
  OBVIOUS
<1>1. TypeOK
  <2>1. Flags
    BY DEF Init, Flags
  <2>4. Numbers
    <3>1. 0 \in 0..CountCap /\ 0 \in 0..MaxConnections
      BY CountType, FailoverAssumption
    <3> QED BY <3>1 DEF Init, Numbers
  <2>2. Pools /\ Lock
    BY FailoverAssumption DEF Init, Pools, Lock, Iterating
  <2>3. Conns /\ Callers
    BY DEF Init, Conns, Callers
  <2> QED BY <2>1, <2>2, <2>3, <2>4, TypeParts
<1>2. Places /\ ListenerIsTold
  BY DEF Init, Places, ListenerIsTold, IsClosedOrFailed, Connecting, Iterating
<1>3. Delivery
  BY DEF Init, Delivery, HeldUntilClosed, FirstIsEmpty, HeldKinds, HeldReturned,
     WrittenReturned, FutureIsEmpty, Replaying, HeldIsWritten, Held, ToSet
<1>4. Order
  BY DEF Init, Order, TodoIsNew, SentOnce, StateIsOut, StateFirst, IsInjective
<1> QED BY <1>1, <1>2, <1>3, <1>4 DEF IInv

\* Every step of every thread keeps the inductive invariant.
LEMMA NextIInv == IInv /\ [Next]_vars => IInv'
<1> SUFFICES ASSUME IInv, [Next]_vars PROVE IInv'
  OBVIOUS
<1>1. ASSUME NEW c \in Commands, Oneway(c) \/ OnewayTimeout(c) PROVE IInv'
  BY <1>1, SkipStaleIInv, OnewayClosedIInv, OnewayFailsIInv, OnewayWaitIInv,
     OnewayWriteIInv, OnewayThrowsIInv, OnewayTimeoutIInv DEF Oneway
<1>2. ASSUME NEW n \in Connections, RaiseException(n) \/ OnException(n) \/ Break(n)
      PROVE  IInv'
  BY <1>2, RaiseExceptionIInv, OnExceptionIInv, BreakIInv
<1>3. ASSUME NEW n \in Connections, NEW c \in Commands, OnResponse(n, c) PROVE IInv'
  BY <1>3, OnResponseIInv
<1>4. CASE RunnerStep
  <2>1. CASE Iterate
    BY <2>1, IterateKeepsIInv, IterateAbandonsIInv
  <2>2. CASE RunnerWakeup \/ RunnerCheck \/ IterateResume \/ \E u \in Uris : PickUri(u)
    BY <2>2, RunnerWakeupIInv, RunnerCheckIInv, IterateResumeIInv, PickUriIInv
  <2>3. CASE \/ StartFails \/ StartSucceeds \/ RestoreWrite \/ RestoreCopy
             \/ RestoreThrows \/ Publish \/ IterateTail \/ DelayEnds
    BY <2>3, StartFailsIInv, StartSucceedsIInv, RestoreWriteIInv, RestoreCopyIInv,
       RestoreThrowsIInv, PublishIInv, IterateTailIInv, DelayEndsIInv
  <2> QED BY <1>4, <2>1, <2>2, <2>3 DEF RunnerStep
<1>5. ASSUME NEW u \in Uris, NEW r \in BOOLEAN, AddURI(u, r) \/ RemoveURI(u, r) PROVE IInv'
  BY <1>5, AddURIIInv, RemoveURIIInv
<1>6. ASSUME NEW u \in Uris, RecoverExhausted(u) PROVE IInv'
  BY <1>6, RecoverExhaustedIInv
<1>7. CASE Reconnect \/ CallClose \/ Stop \/ Close
  BY <1>7, ReconnectIInv, CallCloseIInv, StopIInv, CloseIInv
<1>8. CASE UNCHANGED vars
  <2>1. TypeOK' /\ Places' /\ ListenerIsTold'
    BY <1>8 DEF IInv, TypeOK, Places, ListenerIsTold, IsClosedOrFailed, vars, ivars, tvars,
       rvars, nvars, cvars, svars, hvars
  <2>2. OnlyForgets
    BY <1>8 DEF OnlyForgets, vars, ivars, tvars, rvars, nvars, svars, hvars
  <2> QED BY <2>1, <2>2, ForgettingDelivers, ForgettingKeepsOrder DEF IInv
<1> QED BY <1>1, <1>2, <1>3, <1>4, <1>5, <1>6, <1>7, <1>8 DEF Next

\* IInv holds in every reachable state of the failover transport.
THEOREM FailoverInductive == Spec => []IInv
<1> QED BY InitIInv, NextIInv, PTL DEF Spec

\* Every variable keeps its type; in particular reconnectMutex is the runner's
\* exactly while iterate() connects and replays, and only real connections are
\* abandoned and only real URIs go back to the pool.
THEOREM FailoverTypeCorrect == Spec => []TypeOK
<1>1. IInv => TypeOK
  BY DEF IInv
<1> QED BY <1>1, FailoverInductive, PTL

\* A request whose oneway() has returned is held until it is answered or the
\* transport is closed or has failed.
THEOREM RequestsAreHeld == Spec => []RequestHeld
<1>1. IInv => RequestHeld
  BY DEF IInv, Delivery, HeldUntilClosed, RequestHeld, IsClosedOrFailed
<1> QED BY <1>1, FailoverInductive, PTL

\* What is held has been written to the connection in use.
THEOREM ReplayIsComplete == Spec => []HeldIsWritten
<1>1. IInv => HeldIsWritten
  BY DEF IInv, Delivery
<1> QED BY <1>1, FailoverInductive, PTL

\* No connection gets a command twice, though senders and replay both write.
THEOREM NothingIsSentTwice == Spec => []SentOnce
<1>1. IInv => SentOnce
  BY DEF IInv, Order
<1> QED BY <1>1, FailoverInductive, PTL

\* A broker gets the tracked state of the session before any request.
THEOREM StateComesFirst == Spec => []StateFirst
<1>1. IInv => StateFirst
  BY DEF IInv, Order
<1> QED BY <1>1, FailoverInductive, PTL

\* The listener's view of the transport is right whenever the lock is free.
THEOREM ListenerIsRight == Spec => []ListenerKnows
<1>1. IInv => ListenerKnows
  BY DEF IInv, ListenerIsTold, ListenerKnows
<1> QED BY <1>1, FailoverInductive, PTL

-----------------------------------------------------------------------------
(* The failure that iterate() reports *)

\* Nobody calls add(), removeURI() or reconnect().
UrisFixed == MaxRequests = 0

\* A URI with attempts left.
Fresh(us) == \E u \in us : ~IsUriExhausted(u)

\* Whenever iterate() starts to connect there is a URI that it will try, so that
\* it has a failure to report when none is left.
Untried ==
    /\ request = "none" /\ ~doRebalance
    /\ rpc = "sleep" => uris # {}
    /\ rpc = "tail" => failure
    /\ rpc = "connect" /\ ~failure => uris # {} /\ (firstConnection \/ Fresh(uris))
    /\ connectedTransport # 0 => \A u \in Uris : failureCount[u] = 0
    /\ ~firstConnection /\ ~IsClosedOrFailed /\ connectedTransport = 0 /\ rpc \notin Iterating
         => uris = {} \/ Fresh(uris)

Reports == Untried /\ NoNullFailure

\* Steps that leave the pool and the counts alone.
PoolFrame ==
    /\ UNCHANGED <<closed, firstConnection, connectionFailure, doRebalance, failureCount, uris,
                   connectedTransport, failure, request, nullFailure>>
    /\ \/ rpc' = rpc
       \/ /\ rpc' \notin {"sleep", "tail", "connect"}
          /\ rpc' \in Iterating \/ rpc \notin Iterating

\* Such steps change nothing.
LEMMA FrameReports == ASSUME Reports, PoolFrame PROVE Reports'
<1>1. \A u : IsUriExhausted(u)' <=> IsUriExhausted(u)
  BY DEF PoolFrame, IsUriExhausted, ReconnectAttemptLimit
<1>2. Fresh(uris)' <=> Fresh(uris)
  BY <1>1 DEF PoolFrame, Fresh
<1>3. IsClosedOrFailed' = IsClosedOrFailed
  BY DEF PoolFrame, IsClosedOrFailed
<1> QED BY <1>2, <1>3 DEF Reports, Untried, NoNullFailure, PoolFrame

\* A URI without failures has attempts left, if there are any.
LEMMA UnusedIsFresh ==
  ASSUME NEW us, NEW u \in us, failureCount[u] = 0, ReconnectAttemptLimit # 0
  PROVE  Fresh(us)
<1>1. ReconnectAttemptLimit \in Int
  BY FailoverAssumption DEF ReconnectAttemptLimit
<1> HIDE DEF ReconnectAttemptLimit
<1>2. ~IsUriExhausted(u)
  BY <1>1 DEF IsUriExhausted
<1> QED BY <1>2 DEF Fresh

\* A connection that worked leaves fresh URIs behind, or there is no reconnect.
LEMMA FailureReports ==
  ASSUME IInv, Reports, HandleTransportFailure,
         UNCHANGED <<closed, firstConnection, doRebalance, failureCount, request, nullFailure,
                     rpc, failure>>
  PROVE  Reports'
<1>1. CASE shutdown \/ connectedTransport = 0
  <2>1. PoolFrame
    BY <1>1 DEF HandleTransportFailure, tvars, PoolFrame
  <2> QED BY <2>1, FrameReports
<1>2. CASE ~(shutdown \/ connectedTransport = 0)
  <2>1. /\ connectedTransport' = 0 /\ uris' = uris \cup {connectedURI}
        /\ connectionFailure' = (connectionFailure \/ ~CanReconnect)
    BY <1>2 DEF HandleTransportFailure, Abandon
  <2>2. connectedURI \in Uris /\ failureCount[connectedURI] = 0
    BY <1>2 DEF IInv, Places, Reports, Untried
  <2>3. \A u : IsUriExhausted(u)' <=> IsUriExhausted(u)
    BY DEF IsUriExhausted, ReconnectAttemptLimit
  <2>4. CanReconnect => Fresh(uris)'
    <3> SUFFICES ASSUME CanReconnect PROVE Fresh(uris')
      BY <2>3 DEF Fresh
    <3>1. ReconnectAttemptLimit # 0 /\ connectedURI \in uris'
      BY <2>1 DEF CanReconnect
    <3> QED BY <2>2, <3>1, UnusedIsFresh
  <2>5. Fresh(uris) => Fresh(uris)'
    BY <2>1, <2>3 DEF Fresh
  <2>6. ~IsClosedOrFailed' => CanReconnect
    BY <2>1 DEF IsClosedOrFailed
  <2> QED BY <2>1, <2>4, <2>5, <2>6 DEF Reports, Untried, NoNullFailure
<1> QED BY <1>1, <1>2

\* iterate() goes on to connect only if there is a pool.
LEMMA IterateReports == ASSUME IInv, Reports, Iterate PROVE Reports'
<1>1. /\ rpc = "iterate"
      /\ UNCHANGED <<closed, firstConnection, connectionFailure, failureCount, request, nullFailure>>
  BY DEF Iterate, svars, cvars
<1>2. \A u : IsUriExhausted(u)' <=> IsUriExhausted(u)
  BY <1>1 DEF IsUriExhausted, ReconnectAttemptLimit
<1>3. IsClosedOrFailed' = IsClosedOrFailed
  BY <1>1 DEF IsClosedOrFailed
<1>4. CASE IsConnectionStateValid \/ IsClosedOrFailed
  <2>1. /\ rpc' = "check"
        /\ UNCHANGED <<doRebalance, uris, connectedTransport, failure>>
    BY <1>4 DEF Iterate, tvars
  <2>2. PoolFrame
    BY <1>1, <2>1 DEF PoolFrame, Iterating
  <2> QED BY <2>2, FrameReports
<1>5. CASE ~IsConnectionStateValid /\ ~IsClosedOrFailed /\ uris = {}
  <2>1. rpc' = "tail" /\ failure' = TRUE /\ UNCHANGED <<doRebalance, uris, connectedTransport>>
    BY <1>5 DEF Iterate, tvars
  <2> QED BY <1>1, <1>2, <1>3, <2>1 DEF Reports, Untried, NoNullFailure, Iterating
<1>6. CASE ~IsConnectionStateValid /\ ~IsClosedOrFailed /\ uris # {}
  <2>1. connectedTransport = 0 /\ connectedURI = None
    BY <1>6 DEF Reports, Untried, IsConnectionStateValid, IInv, Places, IsClosedOrFailed
  <2>2. /\ rpc' = "sleep" /\ doRebalance' = FALSE
        /\ UNCHANGED <<uris, connectedTransport, failure>>
    BY <1>6, <2>1 DEF Iterate, tvars
  <2>3. Fresh(uris)' <=> Fresh(uris)
    BY <1>2, <2>2 DEF Fresh
  <2> QED BY <1>1, <1>3, <1>6, <2>1, <2>2, <2>3
          DEF Reports, Untried, NoNullFailure, Iterating
<1> QED BY <1>4, <1>5, <1>6

\* The connect loop begins with a URI to try.
LEMMA IterateResumeReports == ASSUME IInv, Reports, IterateResume PROVE Reports'
<1>1. /\ rpc = "sleep" /\ connectedTransport = 0
      /\ UNCHANGED <<closed, firstConnection, connectionFailure, doRebalance, failureCount, uris,
                     connectedTransport, request, nullFailure>>
  BY DEF IterateResume, ivars, tvars, svars, cvars, hvars, IInv, Places
<1>2. \A u : IsUriExhausted(u)' <=> IsUriExhausted(u)
  BY <1>1 DEF IsUriExhausted, ReconnectAttemptLimit
<1>3. IsClosedOrFailed' = IsClosedOrFailed
  BY <1>1 DEF IsClosedOrFailed
<1>4. CASE IsClosedOrFailed \/ IsConnectionStateValid
  <2>1. rpc' = "check" /\ UNCHANGED failure
    BY <1>4 DEF IterateResume
  <2>2. PoolFrame
    BY <1>1, <2>1 DEF PoolFrame, Iterating
  <2> QED BY <2>2, FrameReports
<1>5. CASE ~(IsClosedOrFailed \/ IsConnectionStateValid)
  <2>1. rpc' = "connect" /\ failure' = FALSE
    BY <1>5 DEF IterateResume
  <2>2. uris # {} /\ (firstConnection \/ Fresh(uris))
    BY <1>1, <1>5 DEF Reports, Untried, Iterating
  <2>3. Fresh(uris)' <=> Fresh(uris)
    BY <1>1, <1>2 DEF Fresh
  <2> QED BY <1>1, <2>1, <2>2, <2>3 DEF Reports, Untried, NoNullFailure, Iterating
<1> QED BY <1>4, <1>5

\* Only exhausted URIs are skipped, so a fresh one stays until it is tried.
LEMMA PickUriReports == ASSUME IInv, Reports, NEW u \in Uris, PickUri(u) PROVE Reports'
<1>1. /\ rpc = "connect" /\ uris' = uris \ {u}
      /\ UNCHANGED <<closed, firstConnection, connectionFailure, doRebalance, failureCount,
                     connectedTransport, failure, request, nullFailure>>
  BY DEF PickUri, ivars, tvars, svars, cvars, hvars
<1>2. \A v : IsUriExhausted(v)' <=> IsUriExhausted(v)
  BY <1>1 DEF IsUriExhausted, ReconnectAttemptLimit
<1>3. CASE ~firstConnection /\ IsUriExhausted(u)
  <2>1. rpc' = rpc
    BY <1>3 DEF PickUri
  <2>2. Fresh(uris) => Fresh(uris)' /\ uris' # {}
    BY <1>1, <1>2, <1>3 DEF Fresh
  <2> QED BY <1>1, <1>3, <2>1, <2>2 DEF Reports, Untried, NoNullFailure, Iterating
<1>4. CASE ~(~firstConnection /\ IsUriExhausted(u))
  <2>1. rpc' = "starting"
    BY <1>4 DEF PickUri
  <2> QED BY <1>1, <2>1 DEF Reports, Untried, NoNullFailure, Iterating
<1> QED BY <1>3, <1>4

\* A failed attempt is a failure to report.
LEMMA AttemptFailedReports ==
  ASSUME IInv, Reports, AttemptFailed, rpc \in {"starting", "restore", "replay"},
         UNCHANGED <<connectedTransport, uris, request, nullFailure>>
  PROVE  Reports'
<1>1. connectedTransport = 0
  BY DEF IInv, Places, Connecting
<1>2. rpc' = "connect" /\ failure' = TRUE /\ UNCHANGED doRebalance
  BY DEF AttemptFailed
<1> QED BY <1>1, <1>2 DEF Reports, Untried, NoNullFailure, Iterating

\* A connection forgets the failed attempts.
LEMMA PublishReports == ASSUME IInv, Reports, Publish PROVE Reports'
<1>1. /\ connectedTransport' = transport /\ failureCount' = [u \in Uris |-> 0] /\ rpc' = "check"
      /\ UNCHANGED <<doRebalance, request, nullFailure>>
      /\ rpc \in Connecting
  BY DEF Publish, svars, cvars, Connecting
<1>2. transport \in 1..created /\ created \in Nat
  BY <1>1, FailoverAssumption DEF IInv, Places, TypeOK
<1>3. connectedTransport' # 0
  BY <1>1, <1>2
<1> QED BY <1>1, <1>3 DEF Reports, Untried, NoNullFailure, Iterating

\* The end of iterate(): it has a failure, and leaves a fresh URI unless the
\* transport has failed.
LEMMA IterateTailReports == ASSUME IInv, Reports, IterateTail PROVE Reports'
<1>1. /\ uris' = uris \cup tried
      /\ UNCHANGED <<closed, doRebalance, connectedTransport, failure, request>>
  BY DEF IterateTail, tvars, svars, cvars
<1>2. failure
  <2>1. CASE rpc = "tail"
    BY <2>1 DEF Reports, Untried
  <2>2. CASE rpc = "connect" /\ uris = {}
    BY <2>2 DEF Reports, Untried
  <2> QED BY <2>1, <2>2 DEF IterateTail
<1>3. CASE Exhaust
  <2>1. /\ nullFailure' = (nullFailure \/ ~failure) /\ rpc' = "check"
        /\ connectionFailure' = ~Transitioning /\ firstConnection' = FALSE
        /\ failureCount' = IF firstConnection THEN [u \in Uris |-> 0] ELSE failureCount
    BY <1>3 DEF Exhaust
  <2>2. ASSUME ~IsClosedOrFailed', uris' # {} PROVE Fresh(uris)'
    <3>1. Transitioning
      BY <2>1, <2>2 DEF IsClosedOrFailed
    <3>2. MaxReconnectAttempts # 0 /\ firstConnection
      BY <3>1 DEF Transitioning
    <3>3. PICK u : u \in uris'
      BY <2>2
    <3>4. u \in Uris
      BY <1>1, <3>3 DEF IInv, TypeOK
    <3>5. ReconnectAttemptLimit' = MaxReconnectAttempts
      BY <2>1 DEF ReconnectAttemptLimit
    <3>6. failureCount'[u] = 0
      BY <2>1, <3>2, <3>4
    <3>7. ~IsUriExhausted(u)'
      BY <3>2, <3>5, <3>6, FailoverAssumption DEF IsUriExhausted
    <3> QED BY <3>3, <3>7 DEF Fresh
  <2>3. connectedTransport # 0 => \A u \in Uris : failureCount'[u] = 0
    BY <2>1 DEF Reports, Untried
  <2>4. nullFailure' = FALSE
    BY <1>2, <2>1 DEF Reports, NoNullFailure, IInv, TypeOK
  <2> QED BY <1>1, <2>1, <2>2, <2>3, <2>4 DEF Reports, Untried, NoNullFailure, Iterating
<1>4. CASE Backoff
  <2>1. /\ rpc' = "delay" /\ ~AllUrisExhausted(uris \cup tried)
        /\ UNCHANGED <<connectionFailure, nullFailure, firstConnection, failureCount>>
    BY <1>4 DEF Backoff
  <2>2. \A u : IsUriExhausted(u)' <=> IsUriExhausted(u)
    BY <2>1 DEF IsUriExhausted, ReconnectAttemptLimit
  <2>3. uris' = {} \/ Fresh(uris)'
    BY <1>1, <2>1, <2>2 DEF AllUrisExhausted, Fresh, IsUriExhausted
  <2> QED BY <1>1, <2>1, <2>3 DEF Reports, Untried, NoNullFailure, Iterating
<1> QED BY <1>3, <1>4 DEF IterateTail

\* An exhausted broker that recovers is fresh again, or was not the fresh one.
LEMMA RecoverExhaustedReports ==
  ASSUME IInv, Reports, NEW u \in Uris, RecoverExhausted(u)
  PROVE  Reports'
<1>1. /\ IsUriExhausted(u) /\ failureCount' = [failureCount EXCEPT ![u] = 0]
      /\ UNCHANGED <<closed, firstConnection, connectionFailure, doRebalance, uris,
                     connectedTransport, failure, request, nullFailure, rpc>>
  BY DEF RecoverExhausted, tvars, rvars, hvars
<1>2. \A v : v # u => (IsUriExhausted(v)' <=> IsUriExhausted(v))
  BY <1>1 DEF IsUriExhausted, ReconnectAttemptLimit, IInv, TypeOK
<1>3. Fresh(uris) => Fresh(uris)'
  BY <1>1, <1>2 DEF Fresh
<1>4. IsClosedOrFailed' = IsClosedOrFailed
  BY <1>1 DEF IsClosedOrFailed
<1>5. \A v \in Uris : failureCount[v] = 0 => failureCount'[v] = 0
  BY <1>1 DEF IInv, TypeOK
<1> QED BY <1>1, <1>3, <1>4, <1>5 DEF Reports, Untried, NoNullFailure

\* close() leaves the pool alone.
LEMMA CloseReports == ASSUME IInv, Reports, Close PROVE Reports'
<1>1. /\ closed' = TRUE /\ connectedTransport' = 0
      /\ UNCHANGED <<firstConnection, doRebalance, failureCount, uris, failure, request,
                     nullFailure, rpc>>
  BY DEF Close, rvars, hvars
<1>2. Fresh(uris)' <=> Fresh(uris)
  BY <1>1 DEF Fresh, IsUriExhausted, ReconnectAttemptLimit
<1> QED BY <1>1, <1>2 DEF Reports, Untried, NoNullFailure, IsClosedOrFailed

\* No call that changes the URIs is ever made.
LEMMA NextCalm == ASSUME UrisFixed, requests = 0, [Next]_vars PROVE requests' = 0
<1> USE DEF ivars, tvars, rvars, nvars, svars, cvars, hvars
<1>1. ASSUME NEW u \in Uris, NEW rebalance \in BOOLEAN, AddURI(u, rebalance) \/ RemoveURI(u, rebalance)
      PROVE  FALSE
  BY <1>1 DEF AddURI, RemoveURI, UrisFixed
<1>2. ASSUME NEW c \in Commands, Oneway(c) \/ OnewayTimeout(c) PROVE UNCHANGED requests
  BY <1>2 DEF Oneway, SkipStale, OnewayClosed, OnewayFails, OnewayWait, OnewayWrite, OnewayThrows,
              OnewayTimeout
<1>3. ASSUME NEW n \in Connections,
             \/ RaiseException(n) \/ OnException(n) \/ Break(n)
             \/ \E c \in Commands : OnResponse(n, c)
      PROVE  UNCHANGED requests
  BY <1>3 DEF RaiseException, OnException, Break, OnResponse
<1>4. CASE RunnerWakeup \/ RunnerCheck \/ Iterate \/ IterateResume \/ DelayEnds \/ IterateTail
  BY <1>4 DEF RunnerWakeup, RunnerCheck, Iterate, IterateResume, DelayEnds, IterateTail
<1>5. CASE StartSucceeds \/ RestoreWrite \/ RestoreCopy \/ StartFails \/ RestoreThrows \/ Publish
  BY <1>5 DEF StartSucceeds, RestoreWrite, RestoreCopy, StartFails, RestoreThrows, Publish
<1>6. ASSUME NEW u \in Uris, PickUri(u) \/ RecoverExhausted(u) PROVE UNCHANGED requests
  BY <1>6 DEF PickUri, RecoverExhausted
<1>7. CASE RunnerStep
  BY <1>4, <1>5, <1>6, <1>7 DEF RunnerStep
<1>8. CASE Reconnect \/ CallClose \/ Stop \/ Close
  BY <1>8 DEF Reconnect, CallClose, Stop, Close
<1>9. CASE UNCHANGED vars
  BY <1>9 DEF vars
<1> QED BY <1>1, <1>2, <1>3, <1>6, <1>7, <1>8, <1>9 DEF Next

\* Every step keeps Reports when nobody changes the URIs.
LEMMA NextReports ==
  ASSUME UrisFixed, IInv, Reports, requests = 0, [Next]_vars
  PROVE  Reports'
<1> USE DEF ivars, tvars, rvars, nvars, svars, cvars, hvars
<1>1. ASSUME NEW c \in Commands, Oneway(c) \/ OnewayTimeout(c) PROVE Reports'
  <2>1. CASE SkipStale(c) \/ OnewayClosed(c) \/ OnewayFails(c) \/ OnewayWait(c) \/ OnewayTimeout(c)
    <3>1. PoolFrame
      BY <2>1 DEF PoolFrame, SkipStale, OnewayClosed, OnewayFails, OnewayWait, OnewayTimeout
    <3> QED BY <3>1, FrameReports
  <2>2. CASE OnewayWrite(c)
    <3>1. PoolFrame
      BY <2>2 DEF PoolFrame, OnewayWrite
    <3> QED BY <3>1, FrameReports
  <2>3. CASE OnewayThrows(c)
    <3>1. /\ HandleTransportFailure
          /\ UNCHANGED <<closed, firstConnection, doRebalance, failureCount, request, nullFailure,
                         rpc, failure>>
      BY <2>3 DEF OnewayThrows
    <3> QED BY <3>1, FailureReports
  <2> QED BY <1>1, <2>1, <2>2, <2>3 DEF Oneway
<1>2. ASSUME NEW n \in Connections, RaiseException(n) \/ OnException(n) \/ Break(n) PROVE Reports'
  <2>1. CASE RaiseException(n) \/ Break(n)
    <3>1. PoolFrame
      BY <2>1 DEF PoolFrame, RaiseException, Break
    <3> QED BY <3>1, FrameReports
  <2>2. CASE OnException(n)
    <3>1. /\ HandleTransportFailure
          /\ UNCHANGED <<closed, firstConnection, doRebalance, failureCount, request, nullFailure,
                         rpc, failure>>
      BY <2>2 DEF OnException
    <3> QED BY <3>1, FailureReports
  <2> QED BY <1>2, <2>1, <2>2
<1>3. ASSUME NEW n \in Connections, NEW c \in Commands, OnResponse(n, c) PROVE Reports'
  <2>1. PoolFrame
    BY <1>3 DEF PoolFrame, OnResponse
  <2> QED BY <2>1, FrameReports
<1>4. CASE RunnerWakeup \/ RunnerCheck \/ DelayEnds
  <2>1. PoolFrame
    BY <1>4 DEF PoolFrame, RunnerWakeup, RunnerCheck, DelayEnds, Iterating
  <2> QED BY <2>1, FrameReports
<1>5. CASE StartSucceeds \/ RestoreWrite \/ RestoreCopy
  <2>1. PoolFrame
    BY <1>5 DEF PoolFrame, StartSucceeds, RestoreWrite, RestoreCopy, Iterating
  <2> QED BY <2>1, FrameReports
<1>6. CASE StartFails
  <2>1. /\ AttemptFailed /\ rpc \in {"starting", "restore", "replay"}
        /\ UNCHANGED <<connectedTransport, uris, request, nullFailure>>
    BY <1>6 DEF StartFails
  <2> QED BY <2>1, AttemptFailedReports
<1>7. CASE RestoreThrows
  <2>1. /\ AttemptFailed /\ rpc \in {"starting", "restore", "replay"}
        /\ UNCHANGED <<connectedTransport, uris, request, nullFailure>>
    BY <1>7 DEF RestoreThrows
  <2> QED BY <2>1, AttemptFailedReports
<1>8. CASE \E u \in Uris : \E rebalance \in BOOLEAN : AddURI(u, rebalance) \/ RemoveURI(u, rebalance)
  <2>1. requests < MaxRequests
    BY <1>8 DEF AddURI, RemoveURI
  <2> QED BY <2>1 DEF UrisFixed
<1>9. CASE Reconnect
  BY <1>9 DEF Reconnect, Reports, Untried
<1>10. CASE CallClose \/ Stop
  <2>1. PoolFrame
    BY <1>10 DEF PoolFrame, CallClose, Stop
  <2> QED BY <2>1, FrameReports
<1>11. CASE UNCHANGED vars
  <2>1. PoolFrame
    BY <1>11 DEF PoolFrame, vars
  <2> QED BY <2>1, FrameReports
<1>12. CASE RunnerStep
  BY <1>4, <1>5, <1>6, <1>7, <1>12, IterateReports, IterateResumeReports, PickUriReports,
     PublishReports, IterateTailReports DEF RunnerStep
<1> QED BY <1>1, <1>2, <1>3, <1>8, <1>9, <1>10, <1>11, <1>12, RecoverExhaustedReports, CloseReports
        DEF Next

\* While nobody adds or removes a URI or forces a reconnect, iterate() has a
\* failure in hand when it reports that the brokers are exhausted: it never
\* dereferences a null one, whatever the limits, the brokers and the connections.
THEOREM FailureIsReported == UrisFixed => (Spec => []NoNullFailure)
<1> SUFFICES ASSUME UrisFixed PROVE Spec => []NoNullFailure
  OBVIOUS
<1>1. Init => Reports /\ requests = 0
  BY DEF Init, Reports, Untried, NoNullFailure
<1>2. IInv /\ Reports /\ requests = 0 /\ [Next]_vars => (Reports /\ requests = 0)'
  BY NextReports, NextCalm
<1>3. Reports => NoNullFailure
  BY DEF Reports
<1> QED BY <1>1, <1>2, <1>3, FailoverInductive, PTL DEF Spec
=============================================================================
