------------------------ MODULE SessionDispatchProofs ------------------------
(***************************************************************************)
(* Invariance proofs for SessionDispatch, for any number of consumers,     *)
(* messages, task runners and calls, in three layers.                      *)
(*                                                                         *)
(* Base holds however many application threads there are: the types, what  *)
(* a thread carries where, and that every message is in exactly one place. *)
(* Heard adds what the duplicate audit knows, for consumers that have      *)
(* their listener from the start.  Orderly adds how start(), stop() and    *)
(* setMessageListener() of one application thread follow each other.       *)
(***************************************************************************)
EXTENDS SessionDispatch, TLAPS, FiniteSetTheorems

\* Where a dispatching thread carries a message.
Carrying == {"dispatch", "listen", "onMessage"}

\* A thread has a message in hand just where dispatch() is under way, a task
\* runner does not run before it is created, and iterate() polls a consumer.
Hands ==
    /\ \A d \in Dispatchers : hold[d] # 0 <=> dpc[d] \in Carrying
    /\ dpc[IO] \in Carrying \cup {"idle"}
    /\ \A r \in Runners : dpc[r] # "idle" /\ (r > created => dpc[r] = "unborn")
    /\ \A d \in Dispatchers : dpc[d] = "poll" => cur[d] \in Consumers

\* setMessageListener() knows its consumer, and redispatch() has a list only
\* while it puts it back.
Errands ==
    \A c \in Controllers :
        /\ cpc[c] \in {"assign", "redispatch", "executeFirst"} => target[c] \in Consumers
        /\ cpc[c] # "executeFirst" => moved[c] = <<>>

\* A message is put aside at the consumer it is for.
Routed ==
    \A k \in Consumers : \A i \in 1..Len(channel[k]) : Dest[channel[k][i]] = k

Struct == TypeOK /\ Hands /\ Errands /\ Routed

Base == Struct /\ InOnePlace

-----------------------------------------------------------------------------
\* The consumers have listeners from the start, or duplicates are not looked for.
EarlyListeners == LateListeners = {} \/ ~CheckForDuplicates

\* What the audit knows was delivered or is being dispatched.
AuditKnows ==
    LateListeners = {} =>
        /\ \A k \in Consumers : listener[k]
        /\ \A m \in audit :
              \/ Positions(delivered, m) # {}
              \/ \E d \in Dispatchers : hold[d] = m /\ dpc[d] = "listen"

Heard == Base /\ AuditKnows /\ NothingSuppressed

-----------------------------------------------------------------------------
\* One application thread calls start(), stop() and setMessageListener().
OneController == \E c \in Controllers : Controllers = {c}

Starting  == {"startConsumers", "startQueue", "startCheck"}
Joining   == {"shutdown", "join"}
Assigning == {"assign", "redispatch", "executeFirst"}

\* A synchronous session has no task runner, an asynchronous one does not
\* dispatch on the reader's thread.
ModesApart ==
    /\ ~async => created = 0
    /\ async => dpc[IO] = "idle"

\* Only the executor's task runner runs, or the one that stop() waits for.
OneRunner ==
    /\ \A r \in Runners : dpc[r] \notin {"unborn", "done"} =>
          r = taskRunner \/ \E c \in Controllers : cpc[c] \in Joining /\ local[c] = r
    /\ \A r \in Runners : state[r] # "RUNNING" =>
          /\ r # taskRunner /\ r <= created
          /\ \A c \in Controllers : cpc[c] = "shutdown" => local[c] # r
    /\ \A c \in Controllers : cpc[c] \in Joining => ~running /\ local[c] \in 1..created
    /\ ~running => taskRunner = 0

\* What the thread has still to do agrees with whether the connection is started.
Calls ==
    \A c \in Controllers :
        /\ wpc[c] # "none" => cpc[c] \in {"startConsumers", "idle", "executeFirst"}
        /\ cpc[c] \in Starting => started /\ target[c] = None
        /\ cpc[c] = "idle" => target[c] = None /\ (started => running)
        /\ cpc[c] = "startCheck" => running
        /\ cpc[c] \in {"stopConsumers"} \cup Joining =>
              (started <=> target[c] # None) /\ (started => wasStarted[c])
        /\ cpc[c] \in Assigning => wasStarted[c] = started

\* A connection that is not started has stopped what stop() has visited.
Stopped ==
    ~started =>
        \A c \in Controllers :
            /\ cpc[c] # "stopConsumers" => ~running /\ \A k \in Consumers : ~channelRunning[k]
            /\ \A k \in Consumers \ todo[c] : ~channelRunning[k]

\* A thread in onMessage keeps its consumer's channel locked, and running.
LockHeld ==
    \A d \in Dispatchers :
        /\ dpc[d] \in {"listen", "onMessage"} => channelLock[Dest[hold[d]]] = d
        /\ dpc[d] = "onMessage" => channelRunning[Dest[hold[d]]]

Orderly == Base /\ ModesApart /\ OneRunner /\ Calls /\ Stopped /\ LockHeld

-----------------------------------------------------------------------------
(* Lemmas on the operators: how often a message is in a queue *)

\* A queue holds a message finitely often.
LEMMA PositionsFinite ==
  ASSUME NEW S, NEW s \in Seq(S), NEW m
  PROVE  /\ IsFiniteSet(Positions(s, m))
         /\ Cardinality(Positions(s, m)) \in Nat
         /\ Cardinality(Positions(s, m)) = 0 <=> Positions(s, m) = {}
<1>1. IsFiniteSet(1..Len(s))
  BY FS_Interval
<1>2. Positions(s, m) \in SUBSET (1..Len(s))
  BY DEF Positions
<1>3. IsFiniteSet(Positions(s, m))
  BY <1>1, <1>2, FS_Subset
<1> QED BY <1>3, FS_CardinalityType, FS_EmptySet

\* Appending a message adds one position of it.
LEMMA AppendCounts ==
  ASSUME NEW S, NEW s \in Seq(S), NEW x \in S, NEW m
  PROVE  Cardinality(Positions(Append(s, x), m)) =
           Cardinality(Positions(s, m)) + IF x = m THEN 1 ELSE 0
<1>1. Positions(Append(s, x), m) =
        IF x = m THEN Positions(s, m) \cup {Len(s) + 1} ELSE Positions(s, m)
  BY DEF Positions
<1>2. Len(s) + 1 \notin Positions(s, m)
  BY DEF Positions
<1>3. Cardinality(Positions(s, m) \cup {Len(s) + 1}) = Cardinality(Positions(s, m)) + 1
  BY <1>2, PositionsFinite, FS_AddElement
<1> QED BY <1>1, <1>3, PositionsFinite

\* Putting a message in front adds one position of it.
LEMMA ConsCounts ==
  ASSUME NEW S, NEW s \in Seq(S), NEW x \in S, NEW m
  PROVE  Cardinality(Positions(<<x>> \o s, m)) =
           Cardinality(Positions(s, m)) + IF x = m THEN 1 ELSE 0
<1> DEFINE P == Positions(s, m)
           T == {i \in 2..(Len(s) + 1) : s[i - 1] = m}
           f == [i \in P |-> i + 1]
<1>1. Positions(<<x>> \o s, m) = IF x = m THEN T \cup {1} ELSE T
  BY DEF Positions
<1>2. f \in Bijection(P, T)
  <2>1. f \in [P -> T]
    BY DEF Positions
  <2>2. \A a, b \in P : f[a] = f[b] => a = b
    BY DEF Positions
  <2>3. \A t \in T : \E a \in P : f[a] = t
    <3>1. TAKE t \in T
    <3>2. t - 1 \in P /\ f[t - 1] = t
      BY DEF Positions
    <3> QED BY <3>2
  <2> QED BY <2>1, <2>2, <2>3 DEF Bijection, Injection, Surjection, IsInjective
<1>3. IsFiniteSet(P)
  BY PositionsFinite
<1>4. IsFiniteSet(T) /\ Cardinality(T) = Cardinality(P)
  <2>1. ExistsBijection(P, T)
    BY <1>2, Zenon DEF ExistsBijection
  <2> QED BY <1>3, <2>1, FS_Bijection
<1>5. Cardinality(T \cup {1}) = Cardinality(T) + 1
  <2>1. 1 \notin T
    OBVIOUS
  <2> HIDE DEF T
  <2> QED BY <1>4, <2>1, FS_AddElement
<1> QED BY <1>1, <1>4, <1>5, PositionsFinite

\* Taking the first message off a queue removes one position of it.
LEMMA TailCounts ==
  ASSUME NEW S, NEW s \in Seq(S), s # <<>>, NEW m
  PROVE  Cardinality(Positions(s, m)) =
           Cardinality(Positions(Tail(s), m)) + IF Head(s) = m THEN 1 ELSE 0
<1>1. Head(s) \in S /\ Tail(s) \in Seq(S)
  OBVIOUS
<1> DEFINE t == <<Head(s)>> \o Tail(s)
<1>2. Len(t) = Len(s) /\ \A i \in 1..Len(s) : t[i] = s[i]
  OBVIOUS
<1>3. Positions(s, m) = Positions(t, m)
  BY <1>2 DEF Positions
<1>4. \A u \in Seq(S), x \in S :
        Cardinality(Positions(<<x>> \o u, m)) =
          Cardinality(Positions(u, m)) + IF x = m THEN 1 ELSE 0
  BY ConsCounts
<1> QED BY <1>1, <1>3, <1>4, Zenon

\* Taking the last message off a list leaves the positions of the others.
LEMMA FrontPositions ==
  ASSUME NEW S, NEW s \in Seq(S), s # <<>>, NEW m
  PROVE  /\ Front(s) \in Seq(S) /\ Last(s) \in S
         /\ Positions(Front(s), m) = Positions(s, m) \ {Len(s)}
         /\ Len(s) \in Positions(s, m) <=> Last(s) = m
BY DEF Positions, Front, Last

\* Two finite sets that differ in one element at most.
LEMMA OneDiffers ==
  ASSUME NEW A, IsFiniteSet(A), NEW B, IsFiniteSet(B), NEW x,
         A \ {x} = B \ {x}
  PROVE  /\ Cardinality(A) \in Nat /\ Cardinality(B) \in Nat
         /\ Cardinality(A) + (IF x \in B THEN 1 ELSE 0) =
              Cardinality(B) + (IF x \in A THEN 1 ELSE 0)
<1>1. Cardinality(A) \in Nat /\ Cardinality(B) \in Nat
  BY FS_CardinalityType
<1>2. Cardinality(A \ {x}) = IF x \in A THEN Cardinality(A) - 1 ELSE Cardinality(A)
  BY FS_RemoveElement
<1>3. Cardinality(B \ {x}) = IF x \in B THEN Cardinality(B) - 1 ELSE Cardinality(B)
  BY FS_RemoveElement
<1> QED BY <1>1, <1>2, <1>3

\* Returning(m) when redispatch() has still to put back the lists f.
Back(f, m) == UNION {{c} \X Positions(f[c], m) : c \in Controllers}

\* Finitely many controllers put back finitely many messages.
LEMMA BackFinite ==
  ASSUME NEW f \in [Controllers -> Seq(Messages)], NEW m
  PROVE  IsFiniteSet(Back(f, m)) /\ Cardinality(Back(f, m)) \in Nat
<1> DEFINE P(c) == {c} \X Positions(f[c], m)
           T == {P(c) : c \in Controllers}
           g == [c \in Controllers |-> P(c)]
<1>1. IsFiniteSet(Controllers)
  BY SessionAssumption
<1>2. g \in Surjection(Controllers, T)
  BY DEF Surjection
<1>3. IsFiniteSet(T)
  BY <1>1, <1>2, FS_Surjection
<1>4. \A c \in Controllers : IsFiniteSet(P(c))
  <2> TAKE c \in Controllers
  <2>1. IsFiniteSet(Positions(f[c], m))
    BY PositionsFinite
  <2>2. IsFiniteSet({c})
    BY FS_Singleton
  <2> QED BY <2>1, <2>2, FS_Product
<1>5. IsFiniteSet(UNION T)
  BY <1>3, <1>4, FS_UNION, Zenon
<1>6. Back(f, m) = UNION T
  BY DEF Back
<1> QED BY <1>5, <1>6, FS_CardinalityType

\* What redispatch() takes from a consumer is on its way back.
LEMMA BackTakes ==
  ASSUME NEW f \in [Controllers -> Seq(Messages)], NEW c \in Controllers, f[c] = <<>>,
         NEW s \in Seq(Messages), NEW m
  PROVE  Cardinality(Back([f EXCEPT ![c] = s], m)) =
           Cardinality(Back(f, m)) + Cardinality(Positions(s, m))
<1> DEFINE g == [f EXCEPT ![c] = s]
           N == {c} \X Positions(s, m)
<1>1. g \in [Controllers -> Seq(Messages)]
  OBVIOUS
<1>2. Back(g, m) = Back(f, m) \cup N /\ Back(f, m) \cap N = {}
  <2>1. \A e \in Controllers : e # c => g[e] = f[e]
    OBVIOUS
  <2>2. g[c] = s /\ Positions(f[c], m) = {}
    BY DEF Positions
  <2> HIDE DEF g
  <2> QED BY <2>1, <2>2 DEF Back
<1>3. IsFiniteSet(Positions(s, m)) /\ Cardinality(Positions(s, m)) \in Nat
  BY PositionsFinite
<1>4. IsFiniteSet(N) /\ Cardinality(N) = Cardinality(Positions(s, m))
  <2>1. IsFiniteSet({c}) /\ Cardinality({c}) = 1
    BY FS_Singleton
  <2>2. IsFiniteSet(N) /\ Cardinality(N) = Cardinality({c}) * Cardinality(Positions(s, m))
    BY <1>3, <2>1, FS_Product
  <2> QED BY <1>3, <2>1, <2>2
<1>5. Cardinality(Back(f, m) \cup N) =
        Cardinality(Back(f, m)) + Cardinality(N) - Cardinality(Back(f, m) \cap N)
  BY <1>4, BackFinite, FS_Union
<1>6. Cardinality(Back(f, m)) \in Nat /\ Cardinality(Back(f, m) \cap N) = 0
  BY <1>2, BackFinite, FS_EmptySet
<1>7. Cardinality(Back(g, m)) = Cardinality(Back(f, m) \cup N)
  BY <1>2, Zenon
<1> HIDE DEF N
<1>8. Cardinality(Back(f, m) \cup N) = Cardinality(Back(f, m)) + Cardinality(Positions(s, m))
  BY <1>3, <1>4, <1>5, <1>6
<1> QED BY <1>7, <1>8, Zenon

\* executeFirst() puts back the last message of its list.
LEMMA BackGives ==
  ASSUME NEW f \in [Controllers -> Seq(Messages)], NEW c \in Controllers, NEW m,
         NEW g \in [Controllers -> Seq(Messages)],
         f[c] # <<>>, g[c] = Front(f[c]),
         \A e \in Controllers : e # c => g[e] = f[e]
  PROVE  /\ Cardinality(Back(g, m)) \in Nat
         /\ Last(f[c]) = m => Cardinality(Back(f, m)) = Cardinality(Back(g, m)) + 1
         /\ Last(f[c]) # m => Cardinality(Back(f, m)) = Cardinality(Back(g, m))
<1> DEFINE x == <<c, Len(f[c])>>
<1>1. /\ Front(f[c]) \in Seq(Messages)
      /\ Positions(Front(f[c]), m) = Positions(f[c], m) \ {Len(f[c])}
      /\ Len(f[c]) \in Positions(f[c], m) <=> Last(f[c]) = m
  BY FrontPositions
<1>3. Back(g, m) \ {x} = Back(f, m) \ {x} /\ x \notin Back(g, m)
  BY <1>1 DEF Back
<1>4. x \in Back(f, m) <=> Last(f[c]) = m
  BY <1>1 DEF Back
<1>5. IsFiniteSet(Back(f, m)) /\ IsFiniteSet(Back(g, m))
  BY BackFinite
<1> DEFINE F == Back(f, m)
           G == Back(g, m)
<1>6. IsFiniteSet(F) /\ IsFiniteSet(G) /\ G \ {x} = F \ {x} /\ x \notin G
  BY <1>3, <1>5
<1>7. x \in F <=> Last(f[c]) = m
  BY <1>4
<1> HIDE DEF x, F, G
<1>8. /\ Cardinality(G) \in Nat /\ Cardinality(F) \in Nat
      /\ Cardinality(G) + (IF x \in F THEN 1 ELSE 0) =
           Cardinality(F) + (IF x \in G THEN 1 ELSE 0)
  BY <1>6, OneDiffers
<1>9. /\ Cardinality(G) \in Nat
      /\ Last(f[c]) = m => Cardinality(F) = Cardinality(G) + 1
      /\ Last(f[c]) # m => Cardinality(F) = Cardinality(G)
  BY <1>6, <1>7, <1>8
<1> QED BY <1>9 DEF F, G

-----------------------------------------------------------------------------
(* How many places a message is in *)

\* The places of a message, each counted.
Queued(m)  == Cardinality(Positions(sessionQueue, m))
Aside(m)   == Cardinality(Positions(channel[Dest[m]], m))
Shown(m)   == Cardinality(Positions(delivered, m))
Gone(m)    == Cardinality({m} \cap suppressed)
Moving(m)  == Cardinality(Returning(m))
Carried(m) == Cardinality(Carriers(m))

\* What Places adds up are natural numbers.
LEMMA CountsAreNat ==
  ASSUME TypeOK, NEW m \in Messages
  PROVE  /\ Queued(m) \in Nat /\ Aside(m) \in Nat /\ Shown(m) \in Nat
         /\ Gone(m) \in Nat /\ Moving(m) \in Nat
<1>1. Queued(m) \in Nat /\ Shown(m) \in Nat
  BY PositionsFinite DEF TypeOK, Queued, Shown
<1>2. Aside(m) \in Nat
  <2>1. channel[Dest[m]] \in Seq(Messages)
    BY SessionAssumption DEF TypeOK
  <2> QED BY <2>1, PositionsFinite DEF Aside
<1>3. Gone(m) \in Nat
  <2>1. IsFiniteSet({m})
    BY FS_Singleton
  <2>2. IsFiniteSet({m} \cap suppressed)
    BY <2>1, FS_Subset
  <2> QED BY <2>2, FS_CardinalityType DEF Gone
<1>4. Moving(m) \in Nat
  <2>1. Returning(m) = Back(moved, m) /\ moved \in [Controllers -> Seq(Messages)]
    BY DEF Returning, Back, TypeOK
  <2> QED BY <2>1, BackFinite DEF Moving
<1> QED BY <1>1, <1>2, <1>3, <1>4

\* One thread takes up a message, passes it on or lays it down.
LEMMA CarriersMove ==
  ASSUME NEW d \in Dispatchers, NEW m,
         \A e \in Dispatchers : e # d => hold'[e] = hold[e] /\ dpc'[e] = dpc[e]
  PROVE  /\ Carried(m) \in Nat /\ Carried(m)' \in Nat
         /\ Carried(m)' + (IF hold[d] = m /\ dpc[d] # "onMessage" THEN 1 ELSE 0) =
              Carried(m) + (IF hold'[d] = m /\ dpc'[d] # "onMessage" THEN 1 ELSE 0)
<1> DEFINE X == Carriers(m)
           Y == Carriers(m)'
<1>1. IsFiniteSet(Dispatchers)
  <2>1. IsFiniteSet(Runners)
    BY SessionAssumption, FS_Interval DEF Runners
  <2> QED BY <2>1, FS_AddElement DEF Dispatchers
<1>2. X \in SUBSET Dispatchers /\ Y \in SUBSET Dispatchers
  BY DEF Carriers
<1>3. IsFiniteSet(X) /\ IsFiniteSet(Y)
  BY <1>1, <1>2, FS_Subset
<1>4. Y \ {d} = X \ {d}
  BY DEF Carriers
<1>5. /\ d \in X <=> hold[d] = m /\ dpc[d] # "onMessage"
      /\ d \in Y <=> hold'[d] = m /\ dpc'[d] # "onMessage"
  BY DEF Carriers
<1>6. Carried(m) = Cardinality(X) /\ Carried(m)' = Cardinality(Y)
  BY DEF Carried
<1> HIDE DEF X, Y
<1>7. /\ Cardinality(Y) \in Nat /\ Cardinality(X) \in Nat
      /\ Cardinality(Y) + (IF d \in X THEN 1 ELSE 0) =
           Cardinality(X) + (IF d \in Y THEN 1 ELSE 0)
  BY <1>3, <1>4, OneDiffers
<1> QED BY <1>5, <1>6, <1>7

\* A step that moves no message keeps every message in its place.
LEMMA QuietPlaces ==
  ASSUME InOnePlace,
         UNCHANGED <<arrived, sessionQueue, channel, moved, delivered, suppressed>>,
         \A d \in Dispatchers : \A m \in Messages :
            hold'[d] = m /\ dpc'[d] # "onMessage" <=> hold[d] = m /\ dpc[d] # "onMessage"
  PROVE  InOnePlace'
<1> SUFFICES ASSUME NEW m \in Messages
             PROVE  Places(m)' = IF m <= arrived' THEN 1 ELSE 0
  BY DEF InOnePlace
<1>1. Carriers(m)' = Carriers(m)
  BY DEF Carriers
<1>2. Returning(m)' = Returning(m)
  BY DEF Returning
<1> QED BY <1>1, <1>2 DEF Places, InOnePlace

\* Places in the words of this section.
LEMMA PlacesAdd ==
  /\ InOnePlace <=> \A m \in Messages :
        Queued(m) + Aside(m) + Shown(m) + Moving(m) + Carried(m) + Gone(m)
          = IF m <= arrived THEN 1 ELSE 0
  /\ InOnePlace' <=> \A m \in Messages :
        Queued(m)' + Aside(m)' + Shown(m)' + Moving(m)' + Carried(m)' + Gone(m)'
          = IF m <= arrived' THEN 1 ELSE 0
BY DEF InOnePlace, Places, Queued, Aside, Shown, Moving, Carried, Gone

-----------------------------------------------------------------------------
(* The actions that move a message *)

\* Execute: the message is queued, or the reader carries it.
LEMMA ExecutePlaces == ASSUME Base, Execute PROVE InOnePlace'
<1> SUFFICES ASSUME NEW m \in Messages
             PROVE  Queued(m)' + Aside(m)' + Shown(m)' + Moving(m)' + Carried(m)' + Gone(m)'
                      = IF m <= arrived' THEN 1 ELSE 0
  BY PlacesAdd
<1>1. /\ Aside(m)' = Aside(m) /\ Shown(m)' = Shown(m) /\ Moving(m)' = Moving(m)
      /\ Gone(m)' = Gone(m)
  BY DEF Execute, Aside, Shown, Moving, Gone, Returning, kvars, cvars, hvars
<1>2. /\ Queued(m) \in Nat /\ Aside(m) \in Nat /\ Shown(m) \in Nat
      /\ Gone(m) \in Nat /\ Moving(m) \in Nat
  BY CountsAreNat DEF Base, Struct
<1>3. Queued(m) + Aside(m) + Shown(m) + Moving(m) + Carried(m) + Gone(m)
        = IF m <= arrived THEN 1 ELSE 0
  BY PlacesAdd DEF Base
<1>4. arrived \in Nat /\ m \in Nat /\ arrived' = arrived + 1 /\ arrived + 1 \in Messages
  BY SessionAssumption DEF Execute, Base, Struct, TypeOK, Messages
<1>5. IO \in Dispatchers
  BY DEF Dispatchers
<1>6. CASE async
  <2>1. sessionQueue' = Append(sessionQueue, arrived + 1) /\ UNCHANGED <<hold, dpc>>
    BY <1>6 DEF Execute, dvars
  <2>2. Queued(m)' = Queued(m) + IF arrived + 1 = m THEN 1 ELSE 0
    BY <2>1, <1>4, AppendCounts DEF Queued, Base, Struct, TypeOK
  <2>3. Carried(m) \in Nat /\ Carried(m)' = Carried(m)
    BY <2>1, <1>5, CarriersMove
  <2> QED BY <1>1, <1>2, <1>3, <1>4, <2>2, <2>3
<1>7. CASE ~async
  <2>1. /\ sessionQueue' = sessionQueue /\ hold[IO] = 0 /\ dpc[IO] = "idle"
        /\ hold' = [hold EXCEPT ![IO] = arrived + 1]
        /\ dpc' = [dpc EXCEPT ![IO] = "dispatch"]
    BY <1>5, <1>7 DEF Execute, Base, Struct, Hands, Carrying
  <2>2. Queued(m)' = Queued(m)
    BY <2>1 DEF Queued
  <2>3. m # 0 /\ hold'[IO] = arrived + 1 /\ dpc'[IO] = "dispatch"
    BY <1>5, <2>1 DEF Base, Struct, TypeOK, Messages
  <2>4. \A e \in Dispatchers : e # IO => hold'[e] = hold[e] /\ dpc'[e] = dpc[e]
    BY <2>1 DEF Base, Struct, TypeOK
  <2>5. /\ Carried(m) \in Nat
        /\ Carried(m)' = Carried(m) + IF arrived + 1 = m THEN 1 ELSE 0
    BY <1>5, <2>1, <2>3, <2>4, CarriersMove
  <2> QED BY <1>1, <1>2, <1>3, <1>4, <2>2, <2>5
<1> QED BY <1>6, <1>7


\* PollConsumer: a runner takes the first message that was put aside.
LEMMA PollConsumerPlaces ==
  ASSUME Base, NEW r \in Runners, PollConsumer(r),
         channelRunning[cur[r]] /\ channel[cur[r]] # <<>>
  PROVE  InOnePlace'
<1> SUFFICES ASSUME NEW m \in Messages
             PROVE  Queued(m)' + Aside(m)' + Shown(m)' + Moving(m)' + Carried(m)' + Gone(m)'
                      = IF m <= arrived' THEN 1 ELSE 0
  BY PlacesAdd
<1>1. /\ Queued(m) \in Nat /\ Aside(m) \in Nat /\ Shown(m) \in Nat
      /\ Gone(m) \in Nat /\ Moving(m) \in Nat /\ m # 0
  BY CountsAreNat DEF Base, Struct, Messages
<1>2. Queued(m) + Aside(m) + Shown(m) + Moving(m) + Carried(m) + Gone(m)
        = IF m <= arrived THEN 1 ELSE 0
  BY PlacesAdd DEF Base
<1> DEFINE k == cur[r]
           x == Head(channel[k])
<1>3. k \in Consumers /\ hold[r] = 0 /\ r \in Dispatchers
  BY DEF PollConsumer, Base, Struct, Hands, Carrying, TypeOK, Dispatchers
<1>4. /\ hold' = [hold EXCEPT ![r] = x] /\ dpc' = [dpc EXCEPT ![r] = "dispatch"]
      /\ channel' = [channel EXCEPT ![k] = Tail(@)] /\ arrived' = arrived
      /\ UNCHANGED <<sessionQueue, delivered, moved, suppressed>>
  BY DEF PollConsumer, qvars, cvars, hvars
<1>5. channel[k] \in Seq(Messages) /\ channel[k] # <<>> /\ x \in Messages /\ Dest[x] = k
  <2>1. channel[k] \in Seq(Messages) /\ channel[k] # <<>>
    BY <1>3 DEF Base, Struct, TypeOK
  <2>2. x \in Messages /\ x = channel[k][1] /\ 1 \in 1..Len(channel[k])
    BY <2>1
  <2> QED BY <1>3, <2>1, <2>2 DEF Base, Struct, Routed
<1>6. /\ Queued(m)' = Queued(m) /\ Shown(m)' = Shown(m) /\ Moving(m)' = Moving(m)
      /\ Gone(m)' = Gone(m)
  BY <1>4 DEF Queued, Shown, Moving, Gone, Returning
<1>7. Aside(m)' \in Nat /\ Aside(m) = Aside(m)' + IF x = m THEN 1 ELSE 0
  <2>1. CASE Dest[m] = k
    <3>1. channel'[Dest[m]] = Tail(channel[k]) /\ Tail(channel[k]) \in Seq(Messages)
      BY <1>3, <1>4, <1>5, <2>1 DEF Base, Struct, TypeOK
    <3>2. Cardinality(Positions(Tail(channel[k]), m)) \in Nat
      BY <3>1, PositionsFinite
    <3>3. Cardinality(Positions(channel[k], m)) =
            Cardinality(Positions(Tail(channel[k]), m)) + IF x = m THEN 1 ELSE 0
      BY <1>5, TailCounts
    <3> HIDE DEF k, x
    <3> QED BY <2>1, <3>1, <3>2, <3>3 DEF Aside
  <2>2. CASE Dest[m] # k
    <3>1. channel'[Dest[m]] = channel[Dest[m]] /\ x # m
      BY <1>4, <1>5, <2>2, SessionAssumption DEF Base, Struct, TypeOK
    <3> HIDE DEF k, x
    <3> QED BY <1>1, <3>1 DEF Aside
  <2> QED BY <2>1, <2>2
<1>8. hold'[r] = x /\ dpc'[r] = "dispatch"
  BY <1>3, <1>4 DEF Base, Struct, TypeOK
<1>9. \A e \in Dispatchers : e # r => hold'[e] = hold[e] /\ dpc'[e] = dpc[e]
  BY <1>4 DEF Base, Struct, TypeOK
<1> HIDE DEF x, k
<1>10. Carried(m) \in Nat /\ Carried(m)' = Carried(m) + IF x = m THEN 1 ELSE 0
  BY <1>1, <1>3, <1>8, <1>9, CarriersMove
<1> QED BY <1>1, <1>2, <1>4, <1>6, <1>7, <1>10

\* Dequeue: a runner takes the first message of the session's queue.
LEMMA DequeuePlaces ==
  ASSUME Base, NEW r \in Runners, Dequeue(r), running /\ sessionQueue # <<>>
  PROVE  InOnePlace'
<1> SUFFICES ASSUME NEW m \in Messages
             PROVE  Queued(m)' + Aside(m)' + Shown(m)' + Moving(m)' + Carried(m)' + Gone(m)'
                      = IF m <= arrived' THEN 1 ELSE 0
  BY PlacesAdd
<1>1. /\ Queued(m) \in Nat /\ Aside(m) \in Nat /\ Shown(m) \in Nat
      /\ Gone(m) \in Nat /\ Moving(m) \in Nat /\ m # 0
  BY CountsAreNat DEF Base, Struct, Messages
<1>2. Queued(m) + Aside(m) + Shown(m) + Moving(m) + Carried(m) + Gone(m)
        = IF m <= arrived THEN 1 ELSE 0
  BY PlacesAdd DEF Base
<1> DEFINE x == Head(sessionQueue)
<1>3. hold[r] = 0 /\ r \in Dispatchers
  BY DEF Dequeue, Base, Struct, Hands, Carrying, TypeOK, Dispatchers
<1>4. /\ hold' = [hold EXCEPT ![r] = x] /\ dpc' = [dpc EXCEPT ![r] = "dispatch"]
      /\ sessionQueue' = Tail(sessionQueue) /\ arrived' = arrived
      /\ UNCHANGED <<channel, delivered, moved, suppressed>>
  BY DEF Dequeue, DequeueNoWait, kvars, cvars, hvars
<1>5. sessionQueue \in Seq(Messages) /\ Tail(sessionQueue) \in Seq(Messages)
  BY DEF Base, Struct, TypeOK
<1>6. /\ Aside(m)' = Aside(m) /\ Shown(m)' = Shown(m) /\ Moving(m)' = Moving(m)
      /\ Gone(m)' = Gone(m)
  BY <1>4 DEF Aside, Shown, Moving, Gone, Returning
<1>7. Queued(m)' \in Nat /\ Queued(m) = Queued(m)' + IF x = m THEN 1 ELSE 0
  <2>1. Cardinality(Positions(Tail(sessionQueue), m)) \in Nat
    BY <1>5, PositionsFinite
  <2>2. Cardinality(Positions(sessionQueue, m)) =
          Cardinality(Positions(Tail(sessionQueue), m)) + IF x = m THEN 1 ELSE 0
    BY <1>5, TailCounts
  <2> HIDE DEF x
  <2> QED BY <1>4, <2>1, <2>2 DEF Queued
<1>8. hold'[r] = x /\ dpc'[r] = "dispatch"
  BY <1>3, <1>4 DEF Base, Struct, TypeOK
<1>9. \A e \in Dispatchers : e # r => hold'[e] = hold[e] /\ dpc'[e] = dpc[e]
  BY <1>4 DEF Base, Struct, TypeOK
<1> HIDE DEF x
<1>10. Carried(m) \in Nat /\ Carried(m)' = Carried(m) + IF x = m THEN 1 ELSE 0
  BY <1>1, <1>3, <1>8, <1>9, CarriersMove
<1> QED BY <1>1, <1>2, <1>4, <1>6, <1>7, <1>10

\* Dispatch: a duplicate goes from the thread's hands to the suppressed ones.
LEMMA SuppressPlaces ==
  ASSUME Base, NEW d \in Dispatchers, Dispatch(d), CheckForDuplicates /\ hold[d] \in audit
  PROVE  InOnePlace'
<1> SUFFICES ASSUME NEW m \in Messages
             PROVE  Queued(m)' + Aside(m)' + Shown(m)' + Moving(m)' + Carried(m)' + Gone(m)'
                      = IF m <= arrived' THEN 1 ELSE 0
  BY PlacesAdd
<1>1. /\ Queued(m) \in Nat /\ Aside(m) \in Nat /\ Shown(m) \in Nat
      /\ Gone(m) \in Nat /\ Moving(m) \in Nat /\ m # 0
  BY CountsAreNat DEF Base, Struct, Messages
<1>2. Queued(m) + Aside(m) + Shown(m) + Moving(m) + Carried(m) + Gone(m)
        = IF m <= arrived THEN 1 ELSE 0
  BY PlacesAdd DEF Base
<1> DEFINE x == hold[d]
<1>3. /\ hold' = [hold EXCEPT ![d] = 0] /\ suppressed' = suppressed \cup {x}
      /\ arrived' = arrived /\ dpc[d] = "dispatch"
      /\ UNCHANGED <<sessionQueue, channel, delivered, moved>>
      /\ \A e \in Dispatchers : e # d => dpc'[e] = dpc[e]
  BY DEF Dispatch, SuppressDuplicate, FinishDispatch, qvars, kvars, cvars, Base, Struct, TypeOK
<1>4. hold'[d] = 0 /\ \A e \in Dispatchers : e # d => hold'[e] = hold[e]
  BY <1>3 DEF Base, Struct, TypeOK
<1>5. /\ Queued(m)' = Queued(m) /\ Aside(m)' = Aside(m) /\ Shown(m)' = Shown(m)
      /\ Moving(m)' = Moving(m)
  BY <1>3 DEF Queued, Aside, Shown, Moving, Returning
<1>6. /\ Carried(m) \in Nat /\ Carried(m)' \in Nat
      /\ Carried(m) = Carried(m)' + IF x = m THEN 1 ELSE 0
  BY <1>1, <1>3, <1>4, CarriersMove
<1>7. Gone(m)' = IF x = m THEN 1 ELSE Gone(m)
  <2>1. CASE x = m
    <3>1. {m} \cap suppressed' = {m}
      BY <1>3, <2>1
    <3> QED BY <2>1, <3>1, FS_Singleton DEF Gone
  <2>2. CASE x # m
    <3>1. {m} \cap suppressed' = {m} \cap suppressed
      BY <1>3, <2>2
    <3> QED BY <2>2, <3>1 DEF Gone
  <2> QED BY <2>1, <2>2
<1>8. arrived' = arrived
  BY <1>3
<1> HIDE DEF x
<1> QED BY <1>1, <1>2, <1>5, <1>6, <1>7, <1>8

\* Listen: the message is shown to the listener, or put aside at its consumer.
LEMMA ListenPlaces ==
  ASSUME Base, NEW d \in Dispatchers, Listen(d)
  PROVE  InOnePlace'
<1> SUFFICES ASSUME NEW m \in Messages
             PROVE  Queued(m)' + Aside(m)' + Shown(m)' + Moving(m)' + Carried(m)' + Gone(m)'
                      = IF m <= arrived' THEN 1 ELSE 0
  BY PlacesAdd
<1>1. /\ Queued(m) \in Nat /\ Aside(m) \in Nat /\ Shown(m) \in Nat
      /\ Gone(m) \in Nat /\ Moving(m) \in Nat /\ m # 0
  BY CountsAreNat DEF Base, Struct, Messages
<1>2. Queued(m) + Aside(m) + Shown(m) + Moving(m) + Carried(m) + Gone(m)
        = IF m <= arrived THEN 1 ELSE 0
  BY PlacesAdd DEF Base
<1> DEFINE x == hold[d]
           k == Dest[x]
<1>3. x \in Messages /\ k \in Consumers /\ dpc[d] = "listen"
  BY SessionAssumption DEF Listen, Base, Struct, Hands, Carrying, TypeOK
<1>4. /\ arrived' = arrived /\ UNCHANGED <<sessionQueue, moved, suppressed>>
      /\ Queued(m)' = Queued(m) /\ Moving(m)' = Moving(m) /\ Gone(m)' = Gone(m)
  BY DEF Listen, qvars, cvars, Queued, Moving, Gone, Returning
<1>5. CASE listener[k] /\ channelRunning[k]
  <2>1. /\ delivered' = Append(delivered, x) /\ dpc' = [dpc EXCEPT ![d] = "onMessage"]
        /\ UNCHANGED <<channel, hold>>
    BY <1>5 DEF Listen
  <2>2. Aside(m)' = Aside(m)
    BY <2>1 DEF Aside
  <2>3. Shown(m)' = Shown(m) + IF x = m THEN 1 ELSE 0
    BY <1>3, <2>1, AppendCounts DEF Shown, Base, Struct, TypeOK
  <2>4. dpc'[d] = "onMessage" /\ \A e \in Dispatchers : e # d => dpc'[e] = dpc[e]
    BY <2>1 DEF Base, Struct, TypeOK
  <2>5. /\ Carried(m) \in Nat /\ Carried(m)' \in Nat
        /\ Carried(m) = Carried(m)' + IF x = m THEN 1 ELSE 0
    BY <1>3, <2>1, <2>4, CarriersMove
  <2> HIDE DEF x, k
  <2> QED BY <1>1, <1>2, <1>4, <2>2, <2>3, <2>5
<1>6. CASE ~(listener[k] /\ channelRunning[k])
  <2>1. /\ channel' = [channel EXCEPT ![k] = Append(@, x)] /\ delivered' = delivered
        /\ hold' = [hold EXCEPT ![d] = 0]
        /\ \A e \in Dispatchers : e # d => dpc'[e] = dpc[e]
    BY <1>6 DEF Listen, PutAside, FinishDispatch, Base, Struct, TypeOK
  <2>2. hold'[d] = 0 /\ \A e \in Dispatchers : e # d => hold'[e] = hold[e]
    BY <2>1 DEF Base, Struct, TypeOK
  <2>3. Shown(m)' = Shown(m)
    BY <2>1 DEF Shown
  <2>4. Aside(m)' = Aside(m) + IF x = m THEN 1 ELSE 0
    <3>1. CASE Dest[m] = k
      <4>1. channel'[Dest[m]] = Append(channel[k], x) /\ channel[k] \in Seq(Messages)
        BY <1>3, <2>1, <3>1 DEF Base, Struct, TypeOK
      <4>2. Cardinality(Positions(Append(channel[k], x), m)) =
              Cardinality(Positions(channel[k], m)) + IF x = m THEN 1 ELSE 0
        BY <1>3, <4>1, AppendCounts
      <4> HIDE DEF k, x
      <4> QED BY <3>1, <4>1, <4>2 DEF Aside
    <3>2. CASE Dest[m] # k
      <4>1. channel'[Dest[m]] = channel[Dest[m]] /\ x # m
        BY <2>1, <3>2, SessionAssumption DEF Base, Struct, TypeOK
      <4> HIDE DEF k, x
      <4> QED BY <1>1, <4>1 DEF Aside
    <3> QED BY <3>1, <3>2
  <2>5. /\ Carried(m) \in Nat /\ Carried(m)' \in Nat
        /\ Carried(m) = Carried(m)' + IF x = m THEN 1 ELSE 0
    BY <1>1, <1>3, <2>1, <2>2, CarriersMove
  <2> HIDE DEF x, k
  <2> QED BY <1>1, <1>2, <1>4, <2>3, <2>4, <2>5
<1> QED BY <1>5, <1>6

\* Redispatch: what was put aside is taken off the consumer's channel.
LEMMA RedispatchPlaces ==
  ASSUME Base, NEW c \in Controllers, Redispatch(c)
  PROVE  InOnePlace'
<1> SUFFICES ASSUME NEW m \in Messages
             PROVE  Queued(m)' + Aside(m)' + Shown(m)' + Moving(m)' + Carried(m)' + Gone(m)'
                      = IF m <= arrived' THEN 1 ELSE 0
  BY PlacesAdd
<1>1. /\ Queued(m) \in Nat /\ Aside(m) \in Nat /\ Shown(m) \in Nat
      /\ Gone(m) \in Nat /\ Moving(m) \in Nat /\ m # 0
  BY CountsAreNat DEF Base, Struct, Messages
<1>2. Queued(m) + Aside(m) + Shown(m) + Moving(m) + Carried(m) + Gone(m)
        = IF m <= arrived THEN 1 ELSE 0
  BY PlacesAdd DEF Base
<1> DEFINE k == target[c]
<1>3. k \in Consumers /\ moved[c] = <<>> /\ channel[k] \in Seq(Messages)
  BY DEF Redispatch, Base, Struct, Errands, TypeOK
<1>4. /\ moved' = [moved EXCEPT ![c] = channel[k]] /\ channel' = [channel EXCEPT ![k] = <<>>]
      /\ arrived' = arrived /\ UNCHANGED <<sessionQueue, delivered, suppressed, hold, dpc>>
  BY DEF Redispatch, qvars, dvars, hvars
<1>5. /\ Queued(m)' = Queued(m)
      /\ Shown(m)' = Shown(m)
      /\ Gone(m)' = Gone(m)
      /\ Carried(m)' = Carried(m)
  BY <1>4 DEF Queued, Shown, Gone, Carried, Carriers
<1>6. Moving(m)' = Moving(m) + Cardinality(Positions(channel[k], m))
  <2>1. Returning(m) = Back(moved, m) /\ Returning(m)' = Back(moved', m)
    BY DEF Returning, Back
  <2>2. moved \in [Controllers -> Seq(Messages)]
    BY DEF Base, Struct, TypeOK
  <2>3. Cardinality(Back([moved EXCEPT ![c] = channel[k]], m)) =
          Cardinality(Back(moved, m)) + Cardinality(Positions(channel[k], m))
    BY <1>3, <2>2, BackTakes
  <2> HIDE DEF k
  <2> QED BY <1>4, <2>1, <2>3 DEF Moving
<1>7. Aside(m) = Aside(m)' + Cardinality(Positions(channel[k], m))
  <2>1. CASE Dest[m] = k
    <3>1. channel'[Dest[m]] = <<>> /\ Positions(channel'[Dest[m]], m) = {}
      BY <1>3, <1>4, <2>1 DEF Base, Struct, TypeOK, Positions
    <3>2. Aside(m)' = 0
      BY <3>1, FS_EmptySet DEF Aside
    <3>3. Aside(m) = Cardinality(Positions(channel[k], m))
      BY <2>1 DEF Aside
    <3> HIDE DEF k
    <3> QED BY <1>1, <3>2, <3>3
  <2>2. CASE Dest[m] # k
    <3>1. channel'[Dest[m]] = channel[Dest[m]]
      BY <1>4, <2>2, SessionAssumption DEF Base, Struct, TypeOK
    <3>2. Positions(channel[k], m) = {}
      BY <1>3, <2>2 DEF Positions, Base, Struct, Routed
    <3> HIDE DEF k
    <3> QED BY <1>1, <3>1, <3>2, FS_EmptySet DEF Aside
  <2> QED BY <2>1, <2>2
<1>8. Cardinality(Positions(channel[k], m)) \in Nat /\ Aside(m)' \in Nat
  <2>1. channel'[Dest[m]] \in Seq(Messages)
    BY <1>3, <1>4, SessionAssumption DEF Base, Struct, TypeOK
  <2> QED BY <1>3, <2>1, PositionsFinite DEF Aside
<1>9. Carried(m) \in Nat
  BY <1>4, CarriersMove DEF Dispatchers
<1> HIDE DEF k
<1> QED BY <1>1, <1>2, <1>4, <1>5, <1>6, <1>7, <1>8, <1>9

\* ExecuteFirst: the last message of the list goes to the front of the queue.
LEMMA ExecuteFirstPlaces ==
  ASSUME Base, NEW c \in Controllers, ExecuteFirst(c)
  PROVE  InOnePlace'
<1> SUFFICES ASSUME NEW m \in Messages
             PROVE  Queued(m)' + Aside(m)' + Shown(m)' + Moving(m)' + Carried(m)' + Gone(m)'
                      = IF m <= arrived' THEN 1 ELSE 0
  BY PlacesAdd
<1>1. /\ Queued(m) \in Nat /\ Aside(m) \in Nat /\ Shown(m) \in Nat
      /\ Gone(m) \in Nat /\ Moving(m) \in Nat /\ m # 0
  BY CountsAreNat DEF Base, Struct, Messages
<1>2. Queued(m) + Aside(m) + Shown(m) + Moving(m) + Carried(m) + Gone(m)
        = IF m <= arrived THEN 1 ELSE 0
  BY PlacesAdd DEF Base
<1> DEFINE x == Last(moved[c])
<1>3. moved[c] \in Seq(Messages) /\ moved[c] # <<>> /\ sessionQueue \in Seq(Messages)
  BY DEF ExecuteFirst, Base, Struct, TypeOK
<1>4. x \in Messages
  BY <1>3, FrontPositions
<1>5. /\ moved' = [moved EXCEPT ![c] = Front(@)] /\ sessionQueue' = <<x>> \o sessionQueue
      /\ arrived' = arrived /\ UNCHANGED <<channel, delivered, suppressed, hold, dpc>>
  BY DEF ExecuteFirst, MoveBack, kvars, dvars, hvars
<1>6. Aside(m)' = Aside(m) /\ Shown(m)' = Shown(m) /\ Gone(m)' = Gone(m) /\ Carried(m)' = Carried(m)
  BY <1>5 DEF Aside, Shown, Gone, Carried, Carriers
<1>7. Moving(m)' \in Nat /\ Moving(m) = Moving(m)' + IF x = m THEN 1 ELSE 0
  <2>1. Returning(m) = Back(moved, m) /\ Returning(m)' = Back(moved', m)
    BY DEF Returning, Back
  <2>2. moved \in [Controllers -> Seq(Messages)]
    BY DEF Base, Struct, TypeOK
  <2>3. /\ Cardinality(Back(moved', m)) \in Nat
        /\ Cardinality(Back(moved, m)) = Cardinality(Back(moved', m)) + IF x = m THEN 1 ELSE 0
    <3>1. /\ moved' \in [Controllers -> Seq(Messages)] /\ moved'[c] = Front(moved[c])
          /\ \A e \in Controllers : e # c => moved'[e] = moved[e]
      BY <1>3, <1>5, <2>2, FrontPositions
    <3>2. /\ Cardinality(Back(moved', m)) \in Nat
          /\ x = m => Cardinality(Back(moved, m)) = Cardinality(Back(moved', m)) + 1
          /\ x # m => Cardinality(Back(moved, m)) = Cardinality(Back(moved', m))
      BY <1>3, <2>2, <3>1, BackGives
    <3> HIDE DEF x
    <3> QED BY <3>2
  <2> HIDE DEF x
  <2> QED BY <2>1, <2>3 DEF Moving
<1>8. Queued(m)' = Queued(m) + IF x = m THEN 1 ELSE 0
  <2>1. Cardinality(Positions(<<x>> \o sessionQueue, m)) =
          Cardinality(Positions(sessionQueue, m)) + IF x = m THEN 1 ELSE 0
    BY <1>3, <1>4, ConsCounts
  <2> HIDE DEF x
  <2> QED BY <1>5, <2>1 DEF Queued
<1>9. Carried(m) \in Nat
  BY <1>5, CarriersMove DEF Dispatchers
<1> HIDE DEF x
<1> QED BY <1>1, <1>2, <1>5, <1>6, <1>7, <1>8, <1>9

-----------------------------------------------------------------------------
(* Base is inductive: one lemma per action *)

\* What the sets of threads and messages have to do with each other.
LEMMA Kinds ==
  /\ IO \in Dispatchers /\ Runners \subseteq Dispatchers /\ IO \notin Runners
  /\ IO \in Wakers /\ Controllers \subseteq Wakers /\ IO \notin Controllers
  /\ 0 \notin Messages /\ None \notin Consumers /\ None \notin Dispatchers
  /\ Messages \subseteq Nat /\ Runners \subseteq Nat
  /\ \A n \in Nat : n < MaxMessages => n + 1 \in Messages
  /\ \A n \in Nat : n < MaxRunners => n + 1 \in Runners
  /\ \A d \in Dispatchers : d = IO \/ d \in Runners
  /\ Dest \in [Messages -> Consumers] /\ LateListeners \subseteq Consumers
BY SessionAssumption DEF Dispatchers, Wakers, Runners, Messages

\* A new connection: nothing has arrived and nothing runs.
LEMMA InitBase == Init => Base
<1> SUFFICES ASSUME Init PROVE Base
  OBVIOUS
<1>1. Struct
  <2> USE SessionAssumption DEF Init
  <2>1. TypeOK
    <3>1. taskRunner \in 0..created /\ created \in 0..MaxRunners /\ arrived \in 0..MaxMessages
      OBVIOUS
    <3>2. /\ sessionQueue \in Seq(Messages) /\ delivered \in Seq(Messages)
          /\ channel \in [Consumers -> Seq(Messages)]
          /\ moved \in [Controllers -> Seq(Messages)]
      OBVIOUS
    <3>3. running \in BOOLEAN /\ started \in BOOLEAN
      OBVIOUS
    <3>4. listener \in [Consumers -> BOOLEAN]
      BY Zenon
    <3>5. local \in [Wakers -> 0..MaxRunners]
      OBVIOUS
    <3> QED BY <3>1, <3>2, <3>3, <3>4, <3>5 DEF TypeOK
  <2>2. Hands /\ Errands /\ Routed
    BY DEF Hands, Carrying, Errands, Routed, Dispatchers, Runners
  <2> QED BY <2>1, <2>2 DEF Struct
<1>2. \A m \in Messages : Places(m) = 0
  <2> TAKE m \in Messages
  <2>1. /\ Positions(sessionQueue, m) = {} /\ Positions(channel[Dest[m]], m) = {}
        /\ Positions(delivered, m) = {} /\ Returning(m) = {} /\ {m} \cap suppressed = {}
    BY SessionAssumption DEF Init, Positions, Returning
  <2>2. Carriers(m) = {}
    BY SessionAssumption DEF Init, Carriers, Messages
  <2> QED BY <2>1, <2>2, FS_EmptySet DEF Places
<1>3. InOnePlace
  BY <1>2, SessionAssumption DEF InOnePlace, Init, Messages
<1> QED BY <1>1, <1>3 DEF Base


\* A step of one thread d keeps Hands if d obeys it and the others do not move.
LEMMA HandsMove ==
  ASSUME TypeOK, Hands, NEW d \in Dispatchers, created' = created,
         \A e \in Dispatchers :
            e # d => hold'[e] = hold[e] /\ dpc'[e] = dpc[e] /\ cur'[e] = cur[e],
         hold'[d] # 0 <=> dpc'[d] \in Carrying,
         d = IO => dpc'[d] \in Carrying \cup {"idle"},
         d \in Runners => dpc'[d] # "idle" /\ d <= created,
         dpc'[d] = "poll" => cur'[d] \in Consumers
  PROVE  Hands'
<1>1. \A e \in Dispatchers : hold'[e] # 0 <=> dpc'[e] \in Carrying
  BY DEF Hands
<1>2. dpc'[IO] \in Carrying \cup {"idle"}
  BY Kinds DEF Hands
<1>3. \A r \in Runners : dpc'[r] # "idle" /\ (r > created' => dpc'[r] = "unborn")
  <2> TAKE r \in Runners
  <2>1. CASE r = d
    BY <2>1, Kinds, SessionAssumption DEF TypeOK
  <2>2. CASE r # d
    BY <2>2, Kinds DEF Hands
  <2> QED BY <2>1, <2>2
<1>4. \A e \in Dispatchers : dpc'[e] = "poll" => cur'[e] \in Consumers
  BY DEF Hands
<1> QED BY <1>1, <1>2, <1>3, <1>4 DEF Hands


\* execute() of a message that arrives.
LEMMA ExecuteBase == ASSUME Base, Execute PROVE Base'
<1> USE DEF Base, Struct
<1>1. InOnePlace'
  BY ExecutePlaces
<1>2. arrived \in Nat /\ arrived + 1 \in 0..MaxMessages /\ arrived + 1 \in Messages
  BY SessionAssumption DEF Execute, TypeOK, Messages
<1>3. CASE async
  <2>1. /\ arrived' = arrived + 1
        /\ sessionQueue' = Append(sessionQueue, arrived + 1)
        /\ wpc' = [wpc EXCEPT ![IO] = "wake"]
        /\ UNCHANGED <<async, running, channel, channelRunning, channelLock, listener,
             listenerLock, audit, taskRunner, created, state, pending, dpc, hold,
             scan, cur, local, cpc, todo, target, wasStarted, moved, started, calls,
             delivered, suppressed, displaced>>
    BY <1>3 DEF Execute, qvars, kvars, rvars, dvars, cvars, wvars, lvars, hvars, setup
  <2>2. TypeOK'
    <3>1. sessionQueue' \in Seq(Messages)
      BY <2>1, <1>2 DEF TypeOK
    <3> QED BY <2>1, <1>2, <3>1 DEF TypeOK
  <2>3. Hands'
    BY <2>1, Kinds DEF TypeOK, Hands, Carrying
  <2>4. Errands'
    BY <2>1, Kinds DEF TypeOK, Errands
  <2>5. Routed'
    BY <2>1 DEF Routed
  <2> QED BY <1>1, <2>2, <2>3, <2>4, <2>5
<1>4. CASE ~async
  <2>1. /\ arrived' = arrived + 1
        /\ hold' = [hold EXCEPT ![IO] = arrived + 1]
        /\ dpc' = [dpc EXCEPT ![IO] = "dispatch"]
        /\ UNCHANGED <<async, sessionQueue, running, channel, channelRunning,
             channelLock, listener, listenerLock, audit, taskRunner, created, state,
             pending, scan, cur, wpc, local, cpc, todo, target, wasStarted, moved,
             started, calls, delivered, suppressed, displaced>>
    BY <1>4 DEF Execute, qvars, kvars, rvars, dvars, cvars, wvars, lvars, hvars, setup
  <2>2. TypeOK'
    BY <2>1, Kinds, SessionAssumption, <1>2 DEF TypeOK
  <2>3. Hands'
    BY <2>1, <1>2, Kinds DEF TypeOK, Hands, Carrying
  <2>4. Errands'
    BY <2>1, Kinds DEF TypeOK, Errands
  <2>5. Routed'
    BY <2>1 DEF Routed
  <2> QED BY <1>1, <2>2, <2>3, <2>4, <2>5
<1> QED BY <1>3, <1>4

\* wakeup() under the queue's lock.
LEMMA WakeupLockBase == ASSUME Base, NEW w \in Wakers, WakeupLock(w) PROVE Base'
<1> USE DEF Base, Struct
<1>1. CASE ~async \/ (taskRunner = 0 /\ ~running)
  <2>1. /\ wpc' = [wpc EXCEPT ![w] = "none"]
        /\ UNCHANGED <<async, arrived, sessionQueue, running, channel, channelRunning,
             channelLock, listener, listenerLock, audit, taskRunner, created, state,
             pending, dpc, hold, scan, cur, local, cpc, todo, target, wasStarted,
             moved, started, calls, delivered, suppressed, displaced>>
    BY <1>1 DEF WakeupLock, qvars, kvars, rvars, dvars, cvars, wvars, lvars, hvars,
       setup
  <2>2. TypeOK'
    BY <2>1, Kinds, SessionAssumption DEF TypeOK
  <2>3. Hands'
    BY <2>1, Kinds DEF TypeOK, Hands, Carrying
  <2>4. Errands'
    BY <2>1, Kinds DEF TypeOK, Errands
  <2>5. Routed'
    BY <2>1 DEF Routed
  <2>6. InOnePlace'
    BY <2>1, Kinds, QuietPlaces DEF TypeOK, Hands, Carrying
  <2> QED BY <2>2, <2>3, <2>4, <2>5, <2>6
<1>2. CASE async /\ taskRunner = 0 /\ running
  <2>1. /\ created' = created + 1
        /\ taskRunner' = created + 1
        /\ pending' = [pending EXCEPT ![created + 1] = TRUE]
        /\ dpc' = [dpc EXCEPT ![created + 1] = "check"]
        /\ local' = [local EXCEPT ![w] = created + 1]
        /\ wpc' = [wpc EXCEPT ![w] = "signal"]
        /\ UNCHANGED <<async, arrived, sessionQueue, running, channel, channelRunning,
             channelLock, listener, listenerLock, audit, state, hold, scan, cur, cpc,
             todo, target, wasStarted, moved, started, calls, delivered, suppressed,
             displaced>>
    BY <1>2 DEF WakeupLock, qvars, kvars, rvars, dvars, cvars, wvars, lvars, hvars,
       setup
  <2>2. TypeOK'
    <3>1. created \in Nat /\ created + 1 \in 0..MaxRunners /\ created + 1 \in Runners
      BY <1>2, SessionAssumption DEF WakeupLock, TypeOK, Runners
    <3>2. created' \in 0..MaxRunners /\ taskRunner' \in 0..created'
      BY <2>1, <3>1
    <3>3. pending' \in [Runners -> BOOLEAN] /\ local' \in [Wakers -> 0..MaxRunners]
      BY <2>1, <3>1 DEF TypeOK
    <3> QED BY <2>1, <3>2, <3>3 DEF TypeOK
  <2>3. Hands'
    <3>1. created \in Nat /\ created + 1 \in Runners
      BY <1>2, SessionAssumption DEF WakeupLock, TypeOK, Runners
    <3>2. created + 1 \in Dispatchers /\ created + 1 # IO /\ dpc[created + 1] = "unborn"
      BY <3>1, Kinds DEF Hands
    <3>3. dpc'[created + 1] = "check" /\ hold'[created + 1] = 0
      BY <2>1, <3>2 DEF TypeOK, Hands, Carrying
    <3>4. \A e \in Dispatchers : e # created + 1 => dpc'[e] = dpc[e]
      BY <2>1 DEF TypeOK
    <3>5. \A e \in Dispatchers : hold'[e] # 0 <=> dpc'[e] \in Carrying
      BY <2>1, <3>3, <3>4 DEF Hands, Carrying
    <3>6. dpc'[IO] \in Carrying \cup {"idle"}
      BY <3>2, <3>4, Kinds DEF Hands
    <3>7. \A r \in Runners : dpc'[r] # "idle" /\ (r > created' => dpc'[r] = "unborn")
      BY <2>1, <3>1, <3>3, <3>4, Kinds DEF Hands
    <3>8. \A e \in Dispatchers : dpc'[e] = "poll" => cur'[e] \in Consumers
      BY <2>1, <3>3, <3>4 DEF Hands
    <3> QED BY <3>5, <3>6, <3>7, <3>8 DEF Hands
  <2>4. Errands'
    BY <2>1, Kinds DEF TypeOK, Errands
  <2>5. Routed'
    BY <2>1 DEF Routed
  <2>6. InOnePlace'
    <3>1. created \in Nat /\ created + 1 \in Runners
      BY <1>2, SessionAssumption DEF WakeupLock, TypeOK, Runners
    <3>2. dpc[created + 1] = "unborn"
      BY <3>1, Kinds DEF Hands
    <3>3. \A d \in Dispatchers : \A m \in Messages :
             hold'[d] = m /\ dpc'[d] # "onMessage" <=> hold[d] = m /\ dpc[d] # "onMessage"
      BY <2>1, <3>2, Kinds DEF TypeOK
    <3> QED BY <2>1, <3>3, QuietPlaces
  <2> QED BY <2>2, <2>3, <2>4, <2>5, <2>6
<1>3. CASE async /\ taskRunner # 0
  <2>1. /\ local' = [local EXCEPT ![w] = taskRunner]
        /\ wpc' = [wpc EXCEPT ![w] = "signal"]
        /\ UNCHANGED <<async, arrived, sessionQueue, running, channel, channelRunning,
             channelLock, listener, listenerLock, audit, taskRunner, created, state,
             pending, dpc, hold, scan, cur, cpc, todo, target, wasStarted, moved,
             started, calls, delivered, suppressed, displaced>>
    BY <1>3 DEF WakeupLock, qvars, kvars, rvars, dvars, cvars, wvars, lvars, hvars,
       setup
  <2>2. TypeOK'
    <3>1. taskRunner \in 0..MaxRunners
      BY SessionAssumption DEF TypeOK
    <3> QED BY <2>1, <3>1 DEF TypeOK
  <2>3. Hands'
    BY <2>1, Kinds DEF TypeOK, Hands, Carrying
  <2>4. Errands'
    BY <2>1, Kinds DEF TypeOK, Errands
  <2>5. Routed'
    BY <2>1 DEF Routed
  <2>6. InOnePlace'
    BY <2>1, Kinds, QuietPlaces DEF TypeOK, Hands, Carrying
  <2> QED BY <2>2, <2>3, <2>4, <2>5, <2>6
<1> QED BY <1>1, <1>2, <1>3 DEF WakeupLock

\* wakeup() of the task runner.
LEMMA WakeupSignalBase == ASSUME Base, NEW w \in Wakers, WakeupSignal(w) PROVE Base'
<1> USE DEF Base, Struct, WakeupSignal, qvars, kvars, rvars, dvars, cvars, wvars, lvars,
   hvars, setup
<1>1. InOnePlace'
  BY Kinds, QuietPlaces DEF Hands, Carrying, TypeOK
<1>2. TypeOK'
  BY Kinds, SessionAssumption DEF TypeOK, Hands, Carrying, Errands
<1>3. Hands'
  BY Kinds, SessionAssumption DEF TypeOK, Hands, Carrying
<1>4. Errands'
  BY Kinds DEF TypeOK, Errands
<1>5. Routed'
  BY Kinds DEF TypeOK, Routed
<1> QED BY <1>1, <1>2, <1>3, <1>4, <1>5

\* run() looks at its state.
LEMMA RunCheckBase == ASSUME Base, NEW r \in Runners, RunCheck(r) PROVE Base'
<1> USE DEF Base, Struct
<1>1. dpc[r] = "check"
  BY DEF RunCheck
<1>2. CASE state[r] # "RUNNING"
  <2>1. /\ state' = [state EXCEPT ![r] = "STOPPED"]
        /\ dpc' = [dpc EXCEPT ![r] = "done"]
        /\ UNCHANGED <<async, arrived, sessionQueue, running, channel, channelRunning,
             channelLock, listener, listenerLock, audit, taskRunner, created, pending,
             hold, scan, cur, wpc, local, cpc, todo, target, wasStarted, moved,
             started, calls, delivered, suppressed, displaced>>
    BY <1>2 DEF RunCheck, qvars, kvars, rvars, dvars, cvars, wvars, lvars, hvars, setup
  <2>2. TypeOK'
    BY <2>1, Kinds, SessionAssumption DEF TypeOK
  <2>3. Hands'
    <3>1. r \in Dispatchers /\ (r \in Runners => r <= created)
      BY Kinds, SessionAssumption, <1>1 DEF TypeOK, Hands
    <3>2. \A e \in Dispatchers :
             e # r => hold'[e] = hold[e] /\ dpc'[e] = dpc[e] /\ cur'[e] = cur[e]
      BY <2>1 DEF TypeOK
    <3>3. hold'[r] = 0 /\ dpc'[r] = "done"
      BY <2>1, <3>1, Kinds, <1>1 DEF TypeOK, Hands, Carrying
    <3> QED BY <2>1, <3>1, <3>2, <3>3, Kinds, HandsMove DEF Carrying
  <2>4. Errands'
    BY <2>1, Kinds DEF TypeOK, Errands
  <2>5. Routed'
    BY <2>1 DEF Routed
  <2>6. InOnePlace'
    BY <2>1, <1>1, Kinds, QuietPlaces DEF TypeOK, Hands, Carrying
  <2> QED BY <2>2, <2>3, <2>4, <2>5, <2>6
<1>3. CASE state[r] = "RUNNING"
  <2>1. /\ dpc' = [dpc EXCEPT ![r] = "clear"]
        /\ UNCHANGED <<async, arrived, sessionQueue, running, channel, channelRunning,
             channelLock, listener, listenerLock, audit, taskRunner, created, state,
             pending, hold, scan, cur, wpc, local, cpc, todo, target, wasStarted,
             moved, started, calls, delivered, suppressed, displaced>>
    BY <1>3 DEF RunCheck, qvars, kvars, rvars, dvars, cvars, wvars, lvars, hvars, setup
  <2>2. TypeOK'
    BY <2>1, Kinds, SessionAssumption DEF TypeOK
  <2>3. Hands'
    <3>1. r \in Dispatchers /\ (r \in Runners => r <= created)
      BY Kinds, SessionAssumption, <1>1 DEF TypeOK, Hands
    <3>2. \A e \in Dispatchers :
             e # r => hold'[e] = hold[e] /\ dpc'[e] = dpc[e] /\ cur'[e] = cur[e]
      BY <2>1 DEF TypeOK
    <3>3. hold'[r] = 0 /\ dpc'[r] = "clear"
      BY <2>1, <3>1, Kinds, <1>1 DEF TypeOK, Hands, Carrying
    <3> QED BY <2>1, <3>1, <3>2, <3>3, Kinds, HandsMove DEF Carrying
  <2>4. Errands'
    BY <2>1, Kinds DEF TypeOK, Errands
  <2>5. Routed'
    BY <2>1 DEF Routed
  <2>6. InOnePlace'
    BY <2>1, <1>1, Kinds, QuietPlaces DEF TypeOK, Hands, Carrying
  <2> QED BY <2>2, <2>3, <2>4, <2>5, <2>6
<1> QED BY <1>2, <1>3

\* run() starts an iteration.
LEMMA RunClearBase == ASSUME Base, NEW r \in Runners, RunClear(r) PROVE Base'
<1> USE DEF Base, Struct, RunClear, qvars, kvars, rvars, dvars, cvars, wvars, lvars,
   hvars, setup
<1>1. InOnePlace'
  BY Kinds, QuietPlaces DEF Hands, Carrying, TypeOK
<1>2. TypeOK'
  BY Kinds, SessionAssumption DEF TypeOK, Hands, Carrying, Errands
<1>3. Hands'
  BY Kinds, SessionAssumption DEF TypeOK, Hands, Carrying
<1>4. Errands'
  BY Kinds DEF TypeOK, Errands
<1>5. Routed'
  BY Kinds DEF TypeOK, Routed
<1> QED BY <1>1, <1>2, <1>3, <1>4, <1>5

\* run() waits for a wakeup.
LEMMA RunWaitBase == ASSUME Base, NEW r \in Runners, RunWait(r) PROVE Base'
<1> USE DEF Base, Struct, RunWait, qvars, kvars, rvars, dvars, cvars, wvars, lvars,
   hvars, setup
<1>1. InOnePlace'
  BY Kinds, QuietPlaces DEF Hands, Carrying, TypeOK
<1>2. TypeOK'
  BY Kinds, SessionAssumption DEF TypeOK, Hands, Carrying, Errands
<1>3. Hands'
  BY Kinds, SessionAssumption DEF TypeOK, Hands, Carrying
<1>4. Errands'
  BY Kinds DEF TypeOK, Errands
<1>5. Routed'
  BY Kinds DEF TypeOK, Routed
<1> QED BY <1>1, <1>2, <1>3, <1>4, <1>5

\* iterate() of a consumer.
LEMMA IterateConsumerBase ==
  ASSUME Base, NEW r \in Runners, NEW k \in Consumers, IterateConsumer(r, k)
  PROVE  Base'
<1> USE DEF Base, Struct
<1>1. dpc[r] = "scan"
  BY DEF IterateConsumer
<1>2. CASE listener[k]
  <2>1. /\ listenerLock' = [listenerLock EXCEPT ![k] = r]
        /\ cur' = [cur EXCEPT ![r] = k]
        /\ dpc' = [dpc EXCEPT ![r] = "poll"]
        /\ UNCHANGED <<async, arrived, sessionQueue, running, channel, channelRunning,
             channelLock, listener, audit, taskRunner, created, state, pending, hold,
             scan, wpc, local, cpc, todo, target, wasStarted, moved, started, calls,
             delivered, suppressed, displaced>>
    BY <1>2 DEF IterateConsumer, qvars, kvars, rvars, dvars, cvars, wvars, lvars, hvars,
       setup
  <2>2. TypeOK'
    BY <2>1, Kinds, SessionAssumption DEF TypeOK
  <2>3. Hands'
    <3>1. r \in Dispatchers /\ (r \in Runners => r <= created)
      BY Kinds, SessionAssumption, <1>1 DEF TypeOK, Hands
    <3>2. \A e \in Dispatchers :
             e # r => hold'[e] = hold[e] /\ dpc'[e] = dpc[e] /\ cur'[e] = cur[e]
      BY <2>1 DEF TypeOK
    <3>3. hold'[r] = 0 /\ dpc'[r] = "poll" /\ cur'[r] = k
      BY <2>1, <3>1, Kinds, <1>1 DEF TypeOK, Hands, Carrying
    <3> QED BY <2>1, <3>1, <3>2, <3>3, Kinds, HandsMove DEF Carrying
  <2>4. Errands'
    BY <2>1, Kinds DEF TypeOK, Errands
  <2>5. Routed'
    BY <2>1 DEF Routed
  <2>6. InOnePlace'
    BY <2>1, <1>1, Kinds, QuietPlaces DEF TypeOK, Hands, Carrying
  <2> QED BY <2>2, <2>3, <2>4, <2>5, <2>6
<1>3. CASE ~listener[k]
  <2>1. /\ scan' = [scan EXCEPT ![r] = @ \ {k}]
        /\ UNCHANGED <<async, arrived, sessionQueue, running, channel, channelRunning,
             channelLock, listener, listenerLock, audit, taskRunner, created, state,
             pending, dpc, hold, cur, wpc, local, cpc, todo, target, wasStarted,
             moved, started, calls, delivered, suppressed, displaced>>
    BY <1>3 DEF IterateConsumer, qvars, kvars, rvars, dvars, cvars, wvars, lvars, hvars,
       setup
  <2>2. TypeOK'
    BY <2>1, Kinds, SessionAssumption DEF TypeOK
  <2>3. Hands'
    BY <2>1, Kinds DEF TypeOK, Hands, Carrying
  <2>4. Errands'
    BY <2>1, Kinds DEF TypeOK, Errands
  <2>5. Routed'
    BY <2>1 DEF Routed
  <2>6. InOnePlace'
    BY <2>1, <1>1, Kinds, QuietPlaces DEF TypeOK, Hands, Carrying
  <2> QED BY <2>2, <2>3, <2>4, <2>5, <2>6
<1> QED BY <1>2, <1>3

\* iterate() takes a message that was put aside.
LEMMA PollConsumerBase == ASSUME Base, NEW r \in Runners, PollConsumer(r) PROVE Base'
<1> USE DEF Base, Struct
<1>1. dpc[r] = "poll" /\ cur[r] \in Consumers
  BY Kinds DEF PollConsumer, Hands
<1>2. CASE channelRunning[cur[r]] /\ channel[cur[r]] # <<>>
  <2>1. /\ hold' = [hold EXCEPT ![r] = Head(channel[cur[r]])]
        /\ channel' = [channel EXCEPT ![cur[r]] = Tail(@)]
        /\ dpc' = [dpc EXCEPT ![r] = "dispatch"]
        /\ UNCHANGED <<async, arrived, sessionQueue, running, channelRunning,
             channelLock, listener, listenerLock, audit, taskRunner, created, state,
             pending, scan, cur, wpc, local, cpc, todo, target, wasStarted, moved,
             started, calls, delivered, suppressed, displaced>>
    BY <1>2 DEF PollConsumer, qvars, kvars, rvars, dvars, cvars, wvars, lvars, hvars,
       setup
  <2>2. TypeOK'
    <3>1. Head(channel[cur[r]]) \in Messages /\ Tail(channel[cur[r]]) \in Seq(Messages)
      BY <1>1, <1>2 DEF TypeOK
    <3>2. channel' \in [Consumers -> Seq(Messages)]
      BY <2>1, <3>1 DEF TypeOK
    <3>3. hold' \in [Dispatchers -> Messages \cup {0}]
      BY <2>1, <3>1 DEF TypeOK
    <3> QED BY <2>1, <3>2, <3>3 DEF TypeOK
  <2>3. Hands'
    <3>1. r \in Dispatchers /\ (r \in Runners => r <= created)
      BY Kinds, SessionAssumption, <1>1, <1>2 DEF TypeOK, Hands
    <3>2. \A e \in Dispatchers :
             e # r => hold'[e] = hold[e] /\ dpc'[e] = dpc[e] /\ cur'[e] = cur[e]
      BY <2>1 DEF TypeOK
    <3>3. hold'[r] \in Messages /\ dpc'[r] = "dispatch"
      BY <2>1, <3>1, Kinds, <1>1, <1>2 DEF TypeOK, Hands, Carrying
    <3> QED BY <2>1, <3>1, <3>2, <3>3, Kinds, HandsMove DEF Carrying
  <2>4. Errands'
    BY <2>1, Kinds DEF TypeOK, Errands
  <2>5. Routed'
    <3>1. \A k \in Consumers : k # cur[r] => channel'[k] = channel[k]
      BY <2>1 DEF TypeOK
    <3>2. channel'[cur[r]] = Tail(channel[cur[r]]) /\ channel[cur[r]] \in Seq(Messages)
      BY <1>1, <2>1 DEF TypeOK
    <3>3. \A i \in 1..Len(channel'[cur[r]]) : Dest[channel'[cur[r]][i]] = cur[r]
      <4> TAKE i \in 1..Len(channel'[cur[r]])
      <4>1. i + 1 \in 1..Len(channel[cur[r]]) /\ channel'[cur[r]][i] = channel[cur[r]][i + 1]
        BY <1>2, <3>2
      <4> QED BY <1>1, <4>1 DEF Routed
    <3> QED BY <3>1, <3>3 DEF Routed
  <2>6. InOnePlace'
    BY <1>2, PollConsumerPlaces
  <2> QED BY <2>2, <2>3, <2>4, <2>5, <2>6
<1>3. CASE ~(channelRunning[cur[r]] /\ channel[cur[r]] # <<>>)
  <2>1. /\ dpc' = [dpc EXCEPT ![r] = "scan"]
        /\ scan' = [scan EXCEPT ![r] = @ \ {cur[r]}]
        /\ cur' = [cur EXCEPT ![r] = None]
        /\ listenerLock' = [listenerLock EXCEPT ![cur[r]] = None]
        /\ UNCHANGED <<async, arrived, sessionQueue, running, channel, channelRunning,
             channelLock, listener, audit, taskRunner, created, state, pending, hold,
             wpc, local, cpc, todo, target, wasStarted, moved, started, calls,
             delivered, suppressed, displaced>>
    BY <1>3 DEF PollConsumer, qvars, kvars, rvars, dvars, cvars, wvars, lvars, hvars,
       setup
  <2>2. TypeOK'
    BY <2>1, Kinds, SessionAssumption DEF TypeOK
  <2>3. Hands'
    <3>1. r \in Dispatchers /\ (r \in Runners => r <= created)
      BY Kinds, SessionAssumption, <1>1 DEF TypeOK, Hands
    <3>2. \A e \in Dispatchers :
             e # r => hold'[e] = hold[e] /\ dpc'[e] = dpc[e] /\ cur'[e] = cur[e]
      BY <2>1 DEF TypeOK
    <3>3. hold'[r] = 0 /\ dpc'[r] = "scan"
      BY <2>1, <3>1, Kinds, <1>1 DEF TypeOK, Hands, Carrying
    <3> QED BY <2>1, <3>1, <3>2, <3>3, Kinds, HandsMove DEF Carrying
  <2>4. Errands'
    BY <2>1, Kinds DEF TypeOK, Errands
  <2>5. Routed'
    BY <2>1 DEF Routed
  <2>6. InOnePlace'
    BY <2>1, <1>1, Kinds, QuietPlaces DEF TypeOK, Hands, Carrying
  <2> QED BY <2>2, <2>3, <2>4, <2>5, <2>6
<1> QED BY <1>2, <1>3

\* iterate() takes a message from the session's queue.
LEMMA DequeueBase == ASSUME Base, NEW r \in Runners, Dequeue(r) PROVE Base'
<1> USE DEF Base, Struct
<1>1. dpc[r] = "scan"
  BY DEF Dequeue
<1>2. CASE running /\ sessionQueue # <<>>
  <2>1. /\ hold' = [hold EXCEPT ![r] = Head(sessionQueue)]
        /\ sessionQueue' = Tail(sessionQueue)
        /\ dpc' = [dpc EXCEPT ![r] = "dispatch"]
        /\ UNCHANGED <<async, arrived, running, channel, channelRunning, channelLock,
             listener, listenerLock, audit, taskRunner, created, state, pending, scan,
             cur, wpc, local, cpc, todo, target, wasStarted, moved, started, calls,
             delivered, suppressed, displaced>>
    BY <1>2 DEF Dequeue, DequeueNoWait, qvars, kvars, rvars, dvars, cvars, wvars, lvars,
       hvars, setup
  <2>2. TypeOK'
    <3>1. Head(sessionQueue) \in Messages /\ Tail(sessionQueue) \in Seq(Messages)
      BY <1>2 DEF TypeOK
    <3>2. hold' \in [Dispatchers -> Messages \cup {0}]
      BY <2>1, <3>1 DEF TypeOK
    <3> QED BY <2>1, <3>1, <3>2 DEF TypeOK
  <2>3. Hands'
    <3>1. r \in Dispatchers /\ (r \in Runners => r <= created)
      BY Kinds, SessionAssumption, <1>1, <1>2 DEF TypeOK, Hands
    <3>2. \A e \in Dispatchers :
             e # r => hold'[e] = hold[e] /\ dpc'[e] = dpc[e] /\ cur'[e] = cur[e]
      BY <2>1 DEF TypeOK
    <3>3. hold'[r] \in Messages /\ dpc'[r] = "dispatch"
      BY <2>1, <3>1, Kinds, <1>1, <1>2 DEF TypeOK, Hands, Carrying
    <3> QED BY <2>1, <3>1, <3>2, <3>3, Kinds, HandsMove DEF Carrying
  <2>4. Errands'
    BY <2>1, Kinds DEF TypeOK, Errands
  <2>5. Routed'
    BY <2>1 DEF Routed
  <2>6. InOnePlace'
    BY <1>2, DequeuePlaces
  <2> QED BY <2>2, <2>3, <2>4, <2>5, <2>6
<1>3. CASE ~(running /\ sessionQueue # <<>>)
  <2>1. /\ dpc' = [dpc EXCEPT ![r] = "wait"]
        /\ UNCHANGED <<async, arrived, sessionQueue, running, channel, channelRunning,
             channelLock, listener, listenerLock, audit, taskRunner, created, state,
             pending, hold, scan, cur, wpc, local, cpc, todo, target, wasStarted,
             moved, started, calls, delivered, suppressed, displaced>>
    BY <1>3 DEF Dequeue, DequeueNoWait, qvars, kvars, rvars, dvars, cvars, wvars, lvars,
       hvars, setup
  <2>2. TypeOK'
    BY <2>1, Kinds, SessionAssumption DEF TypeOK
  <2>3. Hands'
    <3>1. r \in Dispatchers /\ (r \in Runners => r <= created)
      BY Kinds, SessionAssumption, <1>1 DEF TypeOK, Hands
    <3>2. \A e \in Dispatchers :
             e # r => hold'[e] = hold[e] /\ dpc'[e] = dpc[e] /\ cur'[e] = cur[e]
      BY <2>1 DEF TypeOK
    <3>3. hold'[r] = 0 /\ dpc'[r] = "wait"
      BY <2>1, <3>1, Kinds, <1>1 DEF TypeOK, Hands, Carrying
    <3> QED BY <2>1, <3>1, <3>2, <3>3, Kinds, HandsMove DEF Carrying
  <2>4. Errands'
    BY <2>1, Kinds DEF TypeOK, Errands
  <2>5. Routed'
    BY <2>1 DEF Routed
  <2>6. InOnePlace'
    BY <2>1, <1>1, Kinds, QuietPlaces DEF TypeOK, Hands, Carrying
  <2> QED BY <2>2, <2>3, <2>4, <2>5, <2>6
<1> QED BY <1>2, <1>3

\* dispatch() asks the audit.
LEMMA DispatchBase == ASSUME Base, NEW d \in Dispatchers, Dispatch(d) PROVE Base'
<1> USE DEF Base, Struct
<1>1. dpc[d] = "dispatch" /\ hold[d] \in Messages /\ Dest[hold[d]] \in Consumers
  <2>1. dpc[d] = "dispatch" /\ hold[d] # 0 /\ hold[d] \in Messages \cup {0}
    BY DEF Dispatch, TypeOK, Hands, Carrying
  <2> QED BY <2>1, Kinds
<1>2. CASE CheckForDuplicates /\ hold[d] \in audit
  <2>1. /\ hold' = [hold EXCEPT ![d] = 0]
        /\ cur' = [cur EXCEPT ![d] = None]
        /\ dpc' = [dpc EXCEPT ![d] =
                    IF d = IO THEN "idle"
                    ELSE IF cur[d] # None \/ sessionQueue # <<>> THEN "check" ELSE "wait"]
        /\ listenerLock' = [k \in Consumers |-> IF listenerLock[k] = d THEN None ELSE listenerLock[k]]
        /\ channelLock' = [k \in Consumers |-> IF channelLock[k] = d THEN None ELSE channelLock[k]]
        /\ suppressed' = suppressed \cup {hold[d]}
        /\ UNCHANGED <<async, arrived, sessionQueue, running, channel, channelRunning,
             listener, audit, taskRunner, created, state, pending, scan, wpc, local,
             cpc, todo, target, wasStarted, moved, started, calls, delivered,
             displaced>>
    BY <1>2 DEF Dispatch, SuppressDuplicate, FinishDispatch, qvars, kvars, rvars, dvars,
       cvars, wvars, lvars, hvars, setup
  <2>2. TypeOK'
    <3>1. suppressed' \subseteq Messages
      BY <2>1, <1>1 DEF TypeOK
    <3>2. /\ channelLock' \in [Consumers -> Dispatchers \cup {None}]
          /\ listenerLock' \in [Consumers -> Dispatchers \cup {None}]
      BY <2>1 DEF TypeOK
    <3> QED BY <2>1, <3>1, <3>2 DEF TypeOK
  <2>3. Hands'
    <3>1. d \in Dispatchers /\ (d \in Runners => d <= created)
      BY Kinds, SessionAssumption, <1>1 DEF TypeOK, Hands
    <3>2. \A e \in Dispatchers :
             e # d => hold'[e] = hold[e] /\ dpc'[e] = dpc[e] /\ cur'[e] = cur[e]
      BY <2>1 DEF TypeOK
    <3>3. /\ hold'[d] = 0 /\ (d = IO => dpc'[d] = "idle")
          /\ (d # IO => dpc'[d] \in {"check", "wait"})
      BY <2>1, <3>1, Kinds, <1>1 DEF TypeOK, Hands, Carrying
    <3> QED BY <2>1, <3>1, <3>2, <3>3, Kinds, HandsMove DEF Carrying
  <2>4. Errands'
    BY <2>1, Kinds DEF TypeOK, Errands
  <2>5. Routed'
    BY <2>1 DEF Routed
  <2>6. InOnePlace'
    BY <1>2, SuppressPlaces
  <2> QED BY <2>2, <2>3, <2>4, <2>5, <2>6
<1>3. CASE ~(CheckForDuplicates /\ hold[d] \in audit)
  <2>1. /\ channelLock' = [channelLock EXCEPT ![Dest[hold[d]]] = d]
        /\ audit' = audit \cup {hold[d]}
        /\ dpc' = [dpc EXCEPT ![d] = "listen"]
        /\ UNCHANGED <<async, arrived, sessionQueue, running, channel, channelRunning,
             listener, listenerLock, taskRunner, created, state, pending, hold, scan,
             cur, wpc, local, cpc, todo, target, wasStarted, moved, started, calls,
             delivered, suppressed, displaced>>
    BY <1>3 DEF Dispatch, SuppressDuplicate, FinishDispatch, qvars, kvars, rvars, dvars,
       cvars, wvars, lvars, hvars, setup
  <2>2. TypeOK'
    BY <2>1, Kinds, SessionAssumption, <1>1 DEF TypeOK
  <2>3. Hands'
    <3>1. d \in Dispatchers /\ (d \in Runners => d <= created)
      BY Kinds, SessionAssumption, <1>1 DEF TypeOK, Hands
    <3>2. \A e \in Dispatchers :
             e # d => hold'[e] = hold[e] /\ dpc'[e] = dpc[e] /\ cur'[e] = cur[e]
      BY <2>1 DEF TypeOK
    <3>3. hold'[d] # 0 /\ dpc'[d] = "listen"
      BY <2>1, <3>1, Kinds, <1>1 DEF TypeOK, Hands, Carrying
    <3> QED BY <2>1, <3>1, <3>2, <3>3, Kinds, HandsMove DEF Carrying
  <2>4. Errands'
    BY <2>1, Kinds DEF TypeOK, Errands
  <2>5. Routed'
    BY <2>1 DEF Routed
  <2>6. InOnePlace'
    BY <2>1, <1>1, Kinds, QuietPlaces DEF TypeOK, Hands, Carrying
  <2> QED BY <2>2, <2>3, <2>4, <2>5, <2>6
<1> QED BY <1>2, <1>3

\* dispatch() calls the listener or puts the message aside.
LEMMA ListenBase == ASSUME Base, NEW d \in Dispatchers, Listen(d) PROVE Base'
<1> USE DEF Base, Struct
<1>1. InOnePlace'
  BY ListenPlaces
<1>2. dpc[d] = "listen" /\ hold[d] \in Messages /\ Dest[hold[d]] \in Consumers
  <2>1. dpc[d] = "listen" /\ hold[d] # 0 /\ hold[d] \in Messages \cup {0}
    BY DEF Listen, TypeOK, Hands, Carrying
  <2> QED BY <2>1, Kinds
<1>3. CASE listener[Dest[hold[d]]] /\ channelRunning[Dest[hold[d]]]
  <2>1. /\ listenerLock' = [listenerLock EXCEPT ![Dest[hold[d]]] = d]
        /\ delivered' = Append(delivered, hold[d])
        /\ dpc' = [dpc EXCEPT ![d] = "onMessage"]
        /\ UNCHANGED <<async, arrived, sessionQueue, running, channel, channelRunning,
             channelLock, listener, audit, taskRunner, created, state, pending, hold,
             scan, cur, wpc, local, cpc, todo, target, wasStarted, moved, started,
             calls, suppressed, displaced>>
    BY <1>3 DEF Listen, PutAside, FinishDispatch, qvars, kvars, rvars, dvars, cvars,
       wvars, lvars, hvars, setup
  <2>2. TypeOK'
    <3>1. delivered' \in Seq(Messages)
      BY <2>1, <1>2 DEF TypeOK
    <3>2. listenerLock' \in [Consumers -> Dispatchers \cup {None}]
      BY <2>1, <1>2 DEF TypeOK
    <3> QED BY <2>1, <3>1, <3>2 DEF TypeOK
  <2>3. Hands'
    <3>1. d \in Dispatchers /\ (d \in Runners => d <= created)
      BY Kinds, SessionAssumption, <1>2 DEF TypeOK, Hands
    <3>2. \A e \in Dispatchers :
             e # d => hold'[e] = hold[e] /\ dpc'[e] = dpc[e] /\ cur'[e] = cur[e]
      BY <2>1 DEF TypeOK
    <3>3. hold'[d] # 0 /\ dpc'[d] = "onMessage"
      BY <2>1, <3>1, Kinds, <1>2 DEF TypeOK, Hands, Carrying
    <3> QED BY <2>1, <3>1, <3>2, <3>3, Kinds, HandsMove DEF Carrying
  <2>4. Errands'
    BY <2>1, Kinds DEF TypeOK, Errands
  <2>5. Routed'
    BY <2>1 DEF Routed
  <2> QED BY <1>1, <2>2, <2>3, <2>4, <2>5
<1>4. CASE ~(listener[Dest[hold[d]]] /\ channelRunning[Dest[hold[d]]])
  <2>1. /\ hold' = [hold EXCEPT ![d] = 0]
        /\ cur' = [cur EXCEPT ![d] = None]
        /\ dpc' = [dpc EXCEPT ![d] =
                    IF d = IO THEN "idle"
                    ELSE IF cur[d] # None \/ sessionQueue # <<>> THEN "check" ELSE "wait"]
        /\ listenerLock' = [k \in Consumers |-> IF listenerLock[k] = d THEN None ELSE listenerLock[k]]
        /\ channelLock' = [k \in Consumers |-> IF channelLock[k] = d THEN None ELSE channelLock[k]]
        /\ channel' = [channel EXCEPT ![Dest[hold[d]]] = Append(@, hold[d])]
        /\ audit' = IF channelRunning[Dest[hold[d]]] THEN audit ELSE audit \ {hold[d]}
        /\ displaced' = IF cur[d] = Dest[hold[d]] /\ channel[Dest[hold[d]]] # <<>>
                         THEN displaced \cup {hold[d]} ELSE displaced
        /\ UNCHANGED <<async, arrived, sessionQueue, running, channelRunning, listener,
             taskRunner, created, state, pending, scan, wpc, local, cpc, todo, target,
             wasStarted, moved, started, calls, delivered, suppressed>>
    BY <1>4 DEF Listen, PutAside, FinishDispatch, qvars, kvars, rvars, dvars, cvars,
       wvars, lvars, hvars, setup
  <2>2. TypeOK'
    <3>1. audit' \subseteq Messages /\ displaced' \subseteq Messages
      BY <2>1, <1>2 DEF TypeOK
    <3>2. /\ channelLock' \in [Consumers -> Dispatchers \cup {None}]
          /\ listenerLock' \in [Consumers -> Dispatchers \cup {None}]
      BY <2>1 DEF TypeOK
    <3>3. channel' \in [Consumers -> Seq(Messages)]
      BY <2>1, <1>2 DEF TypeOK
    <3> QED BY <2>1, <3>1, <3>2, <3>3 DEF TypeOK
  <2>3. Hands'
    <3>1. d \in Dispatchers /\ (d \in Runners => d <= created)
      BY Kinds, SessionAssumption, <1>2 DEF TypeOK, Hands
    <3>2. \A e \in Dispatchers :
             e # d => hold'[e] = hold[e] /\ dpc'[e] = dpc[e] /\ cur'[e] = cur[e]
      BY <2>1 DEF TypeOK
    <3>3. /\ hold'[d] = 0 /\ (d = IO => dpc'[d] = "idle")
          /\ (d # IO => dpc'[d] \in {"check", "wait"})
      BY <2>1, <3>1, Kinds, <1>2 DEF TypeOK, Hands, Carrying
    <3> QED BY <2>1, <3>1, <3>2, <3>3, Kinds, HandsMove DEF Carrying
  <2>4. Errands'
    BY <2>1, Kinds DEF TypeOK, Errands
  <2>5. Routed'
    <3> DEFINE k == Dest[hold[d]]
    <3>1. \A j \in Consumers : j # k => channel'[j] = channel[j]
      BY <2>1 DEF TypeOK
    <3>2. channel'[k] = Append(channel[k], hold[d]) /\ channel[k] \in Seq(Messages)
      BY <1>2, <2>1 DEF TypeOK
    <3>3. \A i \in 1..Len(channel'[k]) : Dest[channel'[k][i]] = k
      BY <1>2, <3>2 DEF Routed
    <3> QED BY <3>1, <3>3 DEF Routed
  <2> QED BY <1>1, <2>2, <2>3, <2>4, <2>5
<1> QED BY <1>3, <1>4

\* onMessage() returns.
LEMMA OnMessageReturnsBase == ASSUME Base, NEW d \in Dispatchers, OnMessageReturns(d) PROVE Base'
<1> USE DEF Base, Struct, OnMessageReturns, FinishDispatch, qvars, kvars, rvars, dvars,
   cvars, wvars, lvars, hvars, setup
<1>1. InOnePlace'
  BY Kinds, QuietPlaces DEF Hands, Carrying, TypeOK
<1>2. TypeOK'
  BY Kinds, SessionAssumption DEF TypeOK, Hands, Carrying, Errands
<1>3. Hands'
  BY Kinds, SessionAssumption DEF TypeOK, Hands, Carrying
<1>4. Errands'
  BY Kinds DEF TypeOK, Errands
<1>5. Routed'
  BY Kinds DEF TypeOK, Routed
<1> QED BY <1>1, <1>2, <1>3, <1>4, <1>5

\* start() of the connection.
LEMMA StartBase == ASSUME Base, NEW c \in Controllers, Start(c) PROVE Base'
<1> USE DEF Base, Struct, Start, Begin, Idle, qvars, kvars, rvars, dvars, cvars, wvars,
   lvars, hvars, setup
<1>1. InOnePlace'
  BY Kinds, QuietPlaces DEF Hands, Carrying, TypeOK
<1>2. TypeOK'
  BY Kinds, SessionAssumption DEF TypeOK, Hands, Carrying, Errands
<1>3. Hands'
  BY Kinds, SessionAssumption DEF TypeOK, Hands, Carrying
<1>4. Errands'
  BY Kinds DEF TypeOK, Errands
<1>5. Routed'
  BY Kinds DEF TypeOK, Routed
<1> QED BY <1>1, <1>2, <1>3, <1>4, <1>5

\* stop() of the connection.
LEMMA StopBase == ASSUME Base, NEW c \in Controllers, Stop(c) PROVE Base'
<1> USE DEF Base, Struct, Stop, Begin, Idle, qvars, kvars, rvars, dvars, cvars, wvars,
   lvars, hvars, setup
<1>1. InOnePlace'
  BY Kinds, QuietPlaces DEF Hands, Carrying, TypeOK
<1>2. TypeOK'
  BY Kinds, SessionAssumption DEF TypeOK, Hands, Carrying, Errands
<1>3. Hands'
  BY Kinds, SessionAssumption DEF TypeOK, Hands, Carrying
<1>4. Errands'
  BY Kinds DEF TypeOK, Errands
<1>5. Routed'
  BY Kinds DEF TypeOK, Routed
<1> QED BY <1>1, <1>2, <1>3, <1>4, <1>5

\* start() of the executor looks at its queue.
LEMMA StartTestBase == ASSUME Base, NEW c \in Controllers, StartTest(c) PROVE Base'
<1> USE DEF Base, Struct, StartTest, qvars, kvars, rvars, dvars, cvars, wvars, lvars,
   hvars, setup
<1>1. InOnePlace'
  BY Kinds, QuietPlaces DEF Hands, Carrying, TypeOK
<1>2. TypeOK'
  BY Kinds, SessionAssumption DEF TypeOK, Hands, Carrying, Errands
<1>3. Hands'
  BY Kinds, SessionAssumption DEF TypeOK, Hands, Carrying
<1>4. Errands'
  BY Kinds DEF TypeOK, Errands
<1>5. Routed'
  BY Kinds DEF TypeOK, Routed
<1> QED BY <1>1, <1>2, <1>3, <1>4, <1>5

\* start() of the executor starts its queue.
LEMMA StartQueueBase == ASSUME Base, NEW c \in Controllers, StartQueue(c) PROVE Base'
<1> USE DEF Base, Struct, StartQueue, qvars, kvars, rvars, dvars, cvars, wvars, lvars,
   hvars, setup
<1>1. InOnePlace'
  BY Kinds, QuietPlaces DEF Hands, Carrying, TypeOK
<1>2. TypeOK'
  BY Kinds, SessionAssumption DEF TypeOK, Hands, Carrying, Errands
<1>3. Hands'
  BY Kinds, SessionAssumption DEF TypeOK, Hands, Carrying
<1>4. Errands'
  BY Kinds DEF TypeOK, Errands
<1>5. Routed'
  BY Kinds DEF TypeOK, Routed
<1> QED BY <1>1, <1>2, <1>3, <1>4, <1>5

\* start() of the executor wakes the runner.
LEMMA StartCheckBase == ASSUME Base, NEW c \in Controllers, StartCheck(c) PROVE Base'
<1> USE DEF Base, Struct, StartCheck, HasUncomsumedMessages, qvars, kvars, rvars, dvars,
   cvars, wvars, lvars, hvars, setup
<1>1. InOnePlace'
  BY Kinds, QuietPlaces DEF Hands, Carrying, TypeOK
<1>2. TypeOK'
  BY Kinds, SessionAssumption DEF TypeOK, Hands, Carrying, Errands
<1>3. Hands'
  BY Kinds, SessionAssumption DEF TypeOK, Hands, Carrying
<1>4. Errands'
  BY Kinds DEF TypeOK, Errands
<1>5. Routed'
  BY Kinds DEF TypeOK, Routed
<1> QED BY <1>1, <1>2, <1>3, <1>4, <1>5

\* stop() of the executor takes the runner away.
LEMMA StopQueueBase == ASSUME Base, NEW c \in Controllers, StopQueue(c) PROVE Base'
<1> USE DEF Base, Struct
<1>1. cpc[c] = "stopConsumers"
  BY DEF StopQueue
<1>2. CASE running /\ taskRunner # 0
  <2>1. /\ running' = FALSE
        /\ local' = [local EXCEPT ![c] = taskRunner]
        /\ taskRunner' = 0
        /\ cpc' = [cpc EXCEPT ![c] = "shutdown"]
        /\ UNCHANGED <<async, arrived, sessionQueue, channel, channelRunning,
             channelLock, listener, listenerLock, audit, created, state, pending, dpc,
             hold, scan, cur, wpc, todo, target, wasStarted, moved, started, calls,
             delivered, suppressed, displaced>>
    BY <1>2 DEF StopQueue, AfterStop, qvars, kvars, rvars, dvars, cvars, wvars, lvars,
       hvars, setup
  <2>2. TypeOK'
    <3>1. taskRunner \in 0..MaxRunners /\ 0 \in 0..created
      BY SessionAssumption DEF TypeOK
    <3> QED BY <2>1, <3>1, SessionAssumption DEF TypeOK
  <2>3. Hands'
    BY <2>1, Kinds DEF TypeOK, Hands, Carrying
  <2>4. Errands'
    BY <2>1, <1>1, Kinds DEF TypeOK, Errands
  <2>5. Routed'
    BY <2>1 DEF Routed
  <2>6. InOnePlace'
    BY <2>1, <1>1, Kinds, QuietPlaces DEF TypeOK, Hands, Carrying
  <2> QED BY <2>2, <2>3, <2>4, <2>5, <2>6
<1>3. CASE ~(running /\ taskRunner # 0)
  <2>1. /\ running' = FALSE
        /\ cpc' = [cpc EXCEPT ![c] = IF target[c] = None THEN "idle" ELSE "assign"]
        /\ UNCHANGED <<async, arrived, sessionQueue, channel, channelRunning,
             channelLock, listener, listenerLock, audit, taskRunner, created, state,
             pending, dpc, hold, scan, cur, wpc, local, todo, target, wasStarted,
             moved, started, calls, delivered, suppressed, displaced>>
    BY <1>3 DEF StopQueue, AfterStop, qvars, kvars, rvars, dvars, cvars, wvars, lvars,
       hvars, setup
  <2>2. TypeOK'
    BY <2>1, Kinds, SessionAssumption DEF TypeOK
  <2>3. Hands'
    BY <2>1, Kinds DEF TypeOK, Hands, Carrying
  <2>4. Errands'
    BY <2>1, <1>1, Kinds DEF TypeOK, Errands
  <2>5. Routed'
    BY <2>1 DEF Routed
  <2>6. InOnePlace'
    BY <2>1, <1>1, Kinds, QuietPlaces DEF TypeOK, Hands, Carrying
  <2> QED BY <2>2, <2>3, <2>4, <2>5, <2>6
<1> QED BY <1>2, <1>3

\* stop() of the executor shuts the runner down.
LEMMA ShutdownBase == ASSUME Base, NEW c \in Controllers, Shutdown(c) PROVE Base'
<1> USE DEF Base, Struct
<1>1. cpc[c] = "shutdown"
  BY DEF Shutdown
<1>2. CASE state[local[c]] = "RUNNING"
  <2>1. /\ state' = [state EXCEPT ![local[c]] = "STOPPING"]
        /\ pending' = [pending EXCEPT ![local[c]] = TRUE]
        /\ cpc' = [cpc EXCEPT ![c] = "join"]
        /\ UNCHANGED <<async, arrived, sessionQueue, running, channel, channelRunning,
             channelLock, listener, listenerLock, audit, taskRunner, created, dpc,
             hold, scan, cur, wpc, local, todo, target, wasStarted, moved, started,
             calls, delivered, suppressed, displaced>>
    BY <1>2 DEF Shutdown, AfterStop, RequestStop, qvars, kvars, rvars, dvars, cvars,
       wvars, lvars, hvars, setup
  <2>2. TypeOK'
    BY <2>1, Kinds, SessionAssumption DEF TypeOK
  <2>3. Hands'
    BY <2>1, Kinds DEF TypeOK, Hands, Carrying
  <2>4. Errands'
    BY <2>1, <1>1, Kinds DEF TypeOK, Errands
  <2>5. Routed'
    BY <2>1 DEF Routed
  <2>6. InOnePlace'
    BY <2>1, <1>1, Kinds, QuietPlaces DEF TypeOK, Hands, Carrying
  <2> QED BY <2>2, <2>3, <2>4, <2>5, <2>6
<1>3. CASE state[local[c]] # "RUNNING"
  <2>1. /\ cpc' = [cpc EXCEPT ![c] = IF target[c] = None THEN "idle" ELSE "assign"]
        /\ UNCHANGED <<async, arrived, sessionQueue, running, channel, channelRunning,
             channelLock, listener, listenerLock, audit, taskRunner, created, state,
             pending, dpc, hold, scan, cur, wpc, local, todo, target, wasStarted,
             moved, started, calls, delivered, suppressed, displaced>>
    BY <1>3 DEF Shutdown, AfterStop, RequestStop, qvars, kvars, rvars, dvars, cvars,
       wvars, lvars, hvars, setup
  <2>2. TypeOK'
    BY <2>1, Kinds, SessionAssumption DEF TypeOK
  <2>3. Hands'
    BY <2>1, Kinds DEF TypeOK, Hands, Carrying
  <2>4. Errands'
    BY <2>1, <1>1, Kinds DEF TypeOK, Errands
  <2>5. Routed'
    BY <2>1 DEF Routed
  <2>6. InOnePlace'
    BY <2>1, <1>1, Kinds, QuietPlaces DEF TypeOK, Hands, Carrying
  <2> QED BY <2>2, <2>3, <2>4, <2>5, <2>6
<1> QED BY <1>2, <1>3

\* stop() of the executor waits for the runner.
LEMMA JoinBase == ASSUME Base, NEW c \in Controllers, Join(c) PROVE Base'
<1> USE DEF Base, Struct, Join, AfterStop, qvars, kvars, rvars, dvars, cvars, wvars,
   lvars, hvars, setup
<1>1. InOnePlace'
  BY Kinds, QuietPlaces DEF Hands, Carrying, TypeOK
<1>2. TypeOK'
  BY Kinds, SessionAssumption DEF TypeOK, Hands, Carrying, Errands
<1>3. Hands'
  BY Kinds, SessionAssumption DEF TypeOK, Hands, Carrying
<1>4. Errands'
  BY Kinds DEF TypeOK, Errands
<1>5. Routed'
  BY Kinds DEF TypeOK, Routed
<1> QED BY <1>1, <1>2, <1>3, <1>4, <1>5

\* setMessageListener() sets the listener.
LEMMA AssignListenerBase == ASSUME Base, NEW c \in Controllers, AssignListener(c) PROVE Base'
<1> USE DEF Base, Struct, AssignListener, qvars, kvars, rvars, dvars, cvars, wvars,
   lvars, hvars, setup
<1>1. InOnePlace'
  BY Kinds, QuietPlaces DEF Hands, Carrying, TypeOK
<1>2. TypeOK'
  BY Kinds, SessionAssumption DEF TypeOK, Hands, Carrying, Errands
<1>3. Hands'
  BY Kinds, SessionAssumption DEF TypeOK, Hands, Carrying
<1>4. Errands'
  BY Kinds DEF TypeOK, Errands
<1>5. Routed'
  BY Kinds DEF TypeOK, Routed
<1> QED BY <1>1, <1>2, <1>3, <1>4, <1>5

\* redispatch() takes what was put aside.
LEMMA RedispatchBase == ASSUME Base, NEW c \in Controllers, Redispatch(c) PROVE Base'
<1>1. InOnePlace'
  BY RedispatchPlaces
<1> USE DEF Base, Struct, Redispatch, qvars, kvars, rvars, dvars, cvars, wvars, lvars,
   hvars, setup
<1>2. TypeOK'
  BY Kinds, SessionAssumption DEF TypeOK, Hands, Carrying, Errands
<1>3. Hands'
  BY Kinds, SessionAssumption DEF TypeOK, Hands, Carrying
<1>4. Errands'
  BY Kinds DEF TypeOK, Errands
<1>5. Routed'
  BY Kinds DEF TypeOK, Routed
<1> QED BY <1>1, <1>2, <1>3, <1>4, <1>5

\* redispatch() puts a message back.
LEMMA ExecuteFirstBase == ASSUME Base, NEW c \in Controllers, ExecuteFirst(c) PROVE Base'
<1>1. InOnePlace'
  BY ExecuteFirstPlaces
<1> USE DEF Base, Struct, ExecuteFirst, MoveBack, qvars, kvars, rvars, dvars, cvars,
   wvars, lvars, hvars, setup
<1>2. TypeOK'
  <2>1. Front(moved[c]) \in Seq(Messages) /\ Last(moved[c]) \in Messages
    BY FrontPositions DEF TypeOK
  <2>2. sessionQueue' \in Seq(Messages) /\ moved' \in [Controllers -> Seq(Messages)]
    BY <2>1 DEF TypeOK
  <2> QED BY <2>2 DEF TypeOK
<1>3. Hands'
  BY Kinds, SessionAssumption DEF TypeOK, Hands, Carrying
<1>4. Errands'
  BY Kinds DEF TypeOK, Errands
<1>5. Routed'
  BY Kinds DEF TypeOK, Routed
<1> QED BY <1>1, <1>2, <1>3, <1>4, <1>5

\* setMessageListener() ends.
LEMMA RedispatchDoneBase == ASSUME Base, NEW c \in Controllers, RedispatchDone(c) PROVE Base'
<1> USE DEF Base, Struct, RedispatchDone, qvars, kvars, rvars, dvars, cvars, wvars,
   lvars, hvars, setup
<1>1. InOnePlace'
  BY Kinds, QuietPlaces DEF Hands, Carrying, TypeOK
<1>2. TypeOK'
  BY Kinds, SessionAssumption DEF TypeOK, Hands, Carrying, Errands
<1>3. Hands'
  BY Kinds, SessionAssumption DEF TypeOK, Hands, Carrying
<1>4. Errands'
  BY Kinds DEF TypeOK, Errands
<1>5. Routed'
  BY Kinds DEF TypeOK, Routed
<1> QED BY <1>1, <1>2, <1>3, <1>4, <1>5

\* start() of a consumer.
LEMMA StartConsumerBase ==
  ASSUME Base, NEW c \in Controllers, NEW k \in Consumers, StartConsumer(c, k)
  PROVE  Base'
<1> USE DEF Base, Struct, StartConsumer, qvars, kvars, rvars, dvars, cvars, wvars,
   lvars, hvars, setup
<1>1. InOnePlace'
  BY Kinds, QuietPlaces DEF Hands, Carrying, TypeOK
<1>2. TypeOK'
  BY Kinds, SessionAssumption DEF TypeOK, Hands, Carrying, Errands
<1>3. Hands'
  BY Kinds, SessionAssumption DEF TypeOK, Hands, Carrying
<1>4. Errands'
  BY Kinds DEF TypeOK, Errands
<1>5. Routed'
  BY Kinds DEF TypeOK, Routed
<1> QED BY <1>1, <1>2, <1>3, <1>4, <1>5

\* stop() of a consumer.
LEMMA StopConsumerBase ==
  ASSUME Base, NEW c \in Controllers, NEW k \in Consumers, StopConsumer(c, k)
  PROVE  Base'
<1> USE DEF Base, Struct, StopConsumer, qvars, kvars, rvars, dvars, cvars, wvars, lvars,
   hvars, setup
<1>1. InOnePlace'
  BY Kinds, QuietPlaces DEF Hands, Carrying, TypeOK
<1>2. TypeOK'
  BY Kinds, SessionAssumption DEF TypeOK, Hands, Carrying, Errands
<1>3. Hands'
  BY Kinds, SessionAssumption DEF TypeOK, Hands, Carrying
<1>4. Errands'
  BY Kinds DEF TypeOK, Errands
<1>5. Routed'
  BY Kinds DEF TypeOK, Routed
<1> QED BY <1>1, <1>2, <1>3, <1>4, <1>5

\* setMessageListener() begins.
LEMMA SetMessageListenerBase ==
  ASSUME Base, NEW c \in Controllers, NEW k \in Consumers, SetMessageListener(c, k)
  PROVE  Base'
<1> USE DEF Base, Struct, SetMessageListener, Begin, Idle, qvars, kvars, rvars, dvars,
   cvars, wvars, lvars, hvars, setup
<1>1. InOnePlace'
  BY Kinds, QuietPlaces DEF Hands, Carrying, TypeOK
<1>2. TypeOK'
  BY Kinds, SessionAssumption DEF TypeOK, Hands, Carrying, Errands
<1>3. Hands'
  BY Kinds, SessionAssumption DEF TypeOK, Hands, Carrying
<1>4. Errands'
  BY Kinds DEF TypeOK, Errands
<1>5. Routed'
  BY Kinds DEF TypeOK, Routed
<1> QED BY <1>1, <1>2, <1>3, <1>4, <1>5

\* Every step keeps Base.
LEMMA BaseStep == Base /\ [Next]_vars => Base'
<1> SUFFICES ASSUME Base, [Next]_vars PROVE Base'
  OBVIOUS
<1>1. ASSUME NEW w \in Wakers, WakerStep(w) PROVE Base'
  BY <1>1, WakeupLockBase, WakeupSignalBase DEF WakerStep
<1>2. ASSUME NEW d \in Dispatchers, DispatchStep(d) PROVE Base'
  BY <1>2, DispatchBase, ListenBase, OnMessageReturnsBase DEF DispatchStep
<1>3. ASSUME NEW r \in Runners, RunnerStep(r) PROVE Base'
  BY <1>3, RunCheckBase, RunClearBase, RunWaitBase, PollConsumerBase, DequeueBase,
     IterateConsumerBase DEF RunnerStep
<1>4. ASSUME NEW c \in Controllers, ControllerStep(c) PROVE Base'
  BY <1>4, StartTestBase, StartQueueBase, StartCheckBase, StopQueueBase, ShutdownBase,
     JoinBase, AssignListenerBase, RedispatchBase, ExecuteFirstBase, RedispatchDoneBase,
     StartConsumerBase, StopConsumerBase DEF ControllerStep
<1>5. ASSUME NEW c \in Controllers, NEW k \in LateListeners, SetMessageListener(c, k)
      PROVE  Base'
  BY <1>5, SetMessageListenerBase, SessionAssumption
<1>6. CASE UNCHANGED vars
  <2> USE <1>6 DEF vars, qvars, kvars, rvars, dvars, cvars, wvars, lvars, hvars, setup, Base,
        Struct
  <2>1. TypeOK'
    BY DEF TypeOK
  <2>2. Hands' /\ Errands' /\ Routed'
    BY DEF Hands, Errands, Routed
  <2>3. InOnePlace'
    BY QuietPlaces
  <2> QED BY <2>1, <2>2, <2>3
<1> QED BY <1>1, <1>2, <1>3, <1>4, <1>5, <1>6, ExecuteBase, StartBase, StopBase DEF Next

\* The session's messages, threads and calls are always in one of the states
\* that Base describes.
THEOREM DispatchInductive == Spec => []Base
BY InitBase, BaseStep, PTL DEF Spec

\* The fields and locals hold what they can hold, and no queue a null dispatch.
THEOREM DispatchTypeCorrect == Spec => []TypeOK
<1>1. Base => TypeOK
  BY DEF Base, Struct
<1> QED BY <1>1, DispatchInductive, PTL

\* No message that the session received is lost or doubled, whatever start(),
\* stop() and setMessageListener() do, and from however many threads.
THEOREM MessagesAccounted == Spec => []InOnePlace
<1>1. Base => InOnePlace
  BY DEF Base
<1> QED BY <1>1, DispatchInductive, PTL


-----------------------------------------------------------------------------
(* What the duplicate audit knows *)

\* A message in a thread's hands is nowhere else.
LEMMA NowhereElse ==
  ASSUME Base, NEW m \in Messages, NEW d \in Carriers(m)
  PROVE  Positions(delivered, m) = {} /\ \A e \in Carriers(m) : e = d
<1>1. /\ Queued(m) \in Nat /\ Aside(m) \in Nat /\ Shown(m) \in Nat
      /\ Gone(m) \in Nat /\ Moving(m) \in Nat
  BY CountsAreNat DEF Base, Struct
<1>2. Queued(m) + Aside(m) + Shown(m) + Moving(m) + Carried(m) + Gone(m)
        = IF m <= arrived THEN 1 ELSE 0
  BY PlacesAdd DEF Base
<1>3. IsFiniteSet(Carriers(m))
  <2>1. IsFiniteSet(Runners)
    BY SessionAssumption, FS_Interval DEF Runners
  <2>2. IsFiniteSet(Dispatchers)
    BY <2>1, FS_AddElement DEF Dispatchers
  <2>3. Carriers(m) \in SUBSET Dispatchers
    BY DEF Carriers
  <2> QED BY <2>2, <2>3, FS_Subset
<1>4. Carried(m) \in Nat /\ Carried(m) # 0
  BY <1>3, FS_CardinalityType, FS_EmptySet DEF Carried
<1>5. Carried(m) = 1 /\ Shown(m) = 0
  BY <1>1, <1>2, <1>4
<1>6. PICK x : Carriers(m) = {x}
  BY <1>3, <1>5, FS_Singleton DEF Carried
<1>7. Positions(delivered, m) = {}
  BY <1>5, PositionsFinite DEF Shown, Base, Struct, TypeOK
<1> QED BY <1>6, <1>7

\* Only dispatch() has to do with the audit; any other step leaves a thread that
\* has asked it where it is, and takes no listener away.
AuditStands ==
    /\ UNCHANGED <<audit, delivered, suppressed>>
    /\ \A k \in Consumers : listener[k] => listener'[k]
    /\ \A d \in Dispatchers : dpc[d] = "listen" => dpc'[d] = "listen" /\ hold'[d] = hold[d]

\* Steps of the threads that wake a runner leave the audit alone.
LEMMA WakerAudit == ASSUME Base, NEW w \in Wakers, WakerStep(w) PROVE AuditStands
<1>1. CASE WakeupLock(w)
  <2>1. \A r \in Runners : r > created => dpc[r] # "listen"
    BY DEF Base, Struct, Hands
  <2>2. \A d \in Dispatchers : dpc[d] = "listen" => dpc'[d] = "listen"
    <3>1. CASE dpc' = dpc
      BY <3>1
    <3>2. CASE dpc' # dpc
      <4>1. /\ created < MaxRunners /\ created' = created + 1
            /\ dpc' = [dpc EXCEPT ![created + 1] = "check"]
        BY <1>1, <3>2 DEF WakeupLock
      <4>2. created \in Nat /\ created + 1 \in Runners
        BY <4>1, SessionAssumption DEF Base, Struct, TypeOK, Runners
      <4> QED BY <2>1, <4>1, <4>2 DEF Base, Struct, TypeOK
    <3> QED BY <3>1, <3>2
  <2> QED BY <1>1, <2>2 DEF WakeupLock, AuditStands, hvars, setup
<1>2. CASE WakeupSignal(w)
  BY <1>2 DEF WakeupSignal, AuditStands, hvars, setup, dvars
<1> QED BY <1>1, <1>2 DEF WakerStep

\* Steps of a task runner outside dispatch() leave the audit alone.
LEMMA RunnerAudit == ASSUME Base, NEW r \in Runners, RunnerStep(r) PROVE AuditStands
<1> USE Kinds DEF AuditStands, hvars, setup, Base, Struct, TypeOK
<1>1. CASE RunCheck(r) \/ RunClear(r) \/ RunWait(r)
  BY <1>1 DEF RunCheck, RunClear, RunWait
<1>2. CASE PollConsumer(r)
  BY <1>2 DEF PollConsumer
<1>3. CASE Dequeue(r)
  BY <1>3 DEF Dequeue, DequeueNoWait
<1>4. ASSUME NEW k \in Consumers, IterateConsumer(r, k) PROVE AuditStands
  BY <1>4 DEF IterateConsumer
<1> QED BY <1>1, <1>2, <1>3, <1>4 DEF RunnerStep

\* Calls of the application leave the audit alone.
LEMMA ControllerAudit ==
  ASSUME Base, NEW c \in Controllers,
         \/ ControllerStep(c) \/ Start(c) \/ Stop(c)
         \/ \E k \in LateListeners : SetMessageListener(c, k)
  PROVE  AuditStands
<1> USE DEF AuditStands, hvars, setup, dvars
<1>1. CASE StartTest(c) \/ StartQueue(c) \/ StartCheck(c) \/ Start(c) \/ Stop(c)
  BY <1>1 DEF StartTest, StartQueue, StartCheck, Start, Stop
<1>2. CASE StopQueue(c) \/ Shutdown(c) \/ Join(c)
  BY <1>2 DEF StopQueue, Shutdown, Join
<1>3. CASE AssignListener(c)
  BY <1>3 DEF AssignListener, Base, Struct, TypeOK
<1>4. CASE Redispatch(c) \/ ExecuteFirst(c) \/ RedispatchDone(c)
  BY <1>4 DEF Redispatch, ExecuteFirst, RedispatchDone
<1>5. ASSUME NEW k \in Consumers, StartConsumer(c, k) \/ StopConsumer(c, k) PROVE AuditStands
  BY <1>5 DEF StartConsumer, StopConsumer
<1>6. ASSUME NEW k \in LateListeners, SetMessageListener(c, k) PROVE AuditStands
  BY <1>6 DEF SetMessageListener
<1> QED BY <1>1, <1>2, <1>3, <1>4, <1>5, <1>6 DEF ControllerStep

\* What leaves the audit alone leaves it right.
LEMMA StandsHeard ==
  ASSUME AuditKnows, NothingSuppressed, AuditStands
  PROVE  AuditKnows' /\ NothingSuppressed'
BY DEF AuditKnows, NothingSuppressed, AuditStands

\* dispatch() finds its message unknown to the audit.
LEMMA DispatchHeard ==
  ASSUME EarlyListeners, Heard, NEW d \in Dispatchers, Dispatch(d)
  PROVE  AuditKnows' /\ NothingSuppressed'
<1> USE DEF Heard
<1> DEFINE x == hold[d]
<1>1. dpc[d] = "dispatch" /\ x \in Messages /\ d \in Carriers(x)
  <2>1. dpc[d] = "dispatch" /\ hold[d] # 0 /\ hold[d] \in Messages \cup {0}
    BY DEF Dispatch, Base, Struct, TypeOK, Hands, Carrying
  <2> QED BY <2>1, Kinds DEF Carriers
<1>2. ~(CheckForDuplicates /\ x \in audit)
  <2> SUFFICES ASSUME CheckForDuplicates, x \in audit PROVE FALSE
    OBVIOUS
  <2>1. Positions(delivered, x) = {} /\ \A e \in Carriers(x) : e = d
    BY <1>1, NowhereElse
  <2>2. PICK e \in Dispatchers : hold[e] = x /\ dpc[e] = "listen"
    BY <2>1 DEF AuditKnows, EarlyListeners
  <2>3. e \in Carriers(x)
    BY <2>2 DEF Carriers
  <2> QED BY <1>1, <2>1, <2>2, <2>3
<1>3. /\ audit' = audit \cup {x} /\ dpc' = [dpc EXCEPT ![d] = "listen"]
      /\ UNCHANGED <<suppressed, hold, delivered, listener>>
  BY <1>2 DEF Dispatch, setup
<1>4. dpc'[d] = "listen" /\ \A e \in Dispatchers : dpc[e] = "listen" => dpc'[e] = "listen"
  BY <1>3 DEF Base, Struct, TypeOK
<1> QED BY <1>3, <1>4 DEF AuditKnows, NothingSuppressed

\* A message that leaves dispatch() was shown to the listener, or its consumer
\* was stopped and the audit forgets it.
LEMMA ListenHeard ==
  ASSUME EarlyListeners, Heard, NEW d \in Dispatchers, Listen(d)
  PROVE  AuditKnows' /\ NothingSuppressed'
<1> USE DEF Heard
<1> DEFINE x == hold[d]
           k == Dest[x]
<1>1. dpc[d] = "listen" /\ x \in Messages /\ k \in Consumers
  <2>1. dpc[d] = "listen" /\ hold[d] # 0 /\ hold[d] \in Messages \cup {0}
    BY DEF Listen, Base, Struct, TypeOK, Hands, Carrying
  <2> QED BY <2>1, Kinds
<1>2. NothingSuppressed'
  BY DEF NothingSuppressed, Listen
<1>3. AuditKnows'
  <2> SUFFICES ASSUME LateListeners = {}
               PROVE  /\ \A j \in Consumers : listener'[j]
                      /\ \A m \in audit' :
                            \/ Positions(delivered', m) # {}
                            \/ \E e \in Dispatchers : hold'[e] = m /\ dpc'[e] = "listen"
    BY DEF AuditKnows
  <2>1. \A j \in Consumers : listener'[j] /\ listener[j]
    BY DEF AuditKnows, Listen, setup
  <2>2. CASE channelRunning[k]
    <3>1. /\ delivered' = Append(delivered, x) /\ audit' = audit /\ hold' = hold
          /\ dpc' = [dpc EXCEPT ![d] = "onMessage"]
      BY <1>1, <2>1, <2>2 DEF Listen
    <3>2. Positions(delivered', x) # {}
      <4>1. /\ Len(delivered) + 1 \in 1..Len(delivered')
            /\ delivered'[Len(delivered) + 1] = x
        BY <1>1, <3>1 DEF Base, Struct, TypeOK
      <4> QED BY <4>1 DEF Positions
    <3>3. \A m : Positions(delivered, m) # {} => Positions(delivered', m) # {}
      BY <1>1, <3>1 DEF Positions, Base, Struct, TypeOK
    <3>4. \A e \in Dispatchers : e # d => dpc'[e] = dpc[e]
      BY <3>1 DEF Base, Struct, TypeOK
    <3> QED BY <2>1, <3>1, <3>2, <3>3, <3>4 DEF AuditKnows
  <2>3. CASE ~channelRunning[k]
    <3>1. /\ delivered' = delivered /\ audit' = audit \ {x}
          /\ \A e \in Dispatchers : e # d => dpc'[e] = dpc[e] /\ hold'[e] = hold[e]
      BY <2>3 DEF Listen, PutAside, FinishDispatch, Base, Struct, TypeOK
    <3> QED BY <2>1, <3>1 DEF AuditKnows
  <2> QED BY <2>2, <2>3
<1> QED BY <1>2, <1>3

\* Every step keeps Heard.
LEMMA HeardStep == ASSUME EarlyListeners, Heard, [Next]_vars PROVE Heard'
<1>1. Base'
  BY BaseStep DEF Heard
<1>2. AuditKnows' /\ NothingSuppressed'
  <2> USE DEF Heard
  <2>1. ASSUME NEW w \in Wakers, WakerStep(w) PROVE AuditKnows' /\ NothingSuppressed'
    BY <2>1, WakerAudit, StandsHeard
  <2>2. ASSUME NEW d \in Dispatchers, DispatchStep(d) PROVE AuditKnows' /\ NothingSuppressed'
    <3>1. CASE OnMessageReturns(d)
      <4>1. AuditStands
        BY <3>1 DEF OnMessageReturns, FinishDispatch, AuditStands, hvars, setup, Base, Struct,
           TypeOK
      <4> QED BY <4>1, StandsHeard
    <3> QED BY <2>2, <3>1, DispatchHeard, ListenHeard DEF DispatchStep
  <2>3. ASSUME NEW r \in Runners, RunnerStep(r) PROVE AuditKnows' /\ NothingSuppressed'
    BY <2>3, RunnerAudit, StandsHeard
  <2>4. ASSUME NEW c \in Controllers,
               \/ ControllerStep(c) \/ Start(c) \/ Stop(c)
               \/ \E k \in LateListeners : SetMessageListener(c, k)
        PROVE  AuditKnows' /\ NothingSuppressed'
    BY <2>4, ControllerAudit, StandsHeard
  <2>5. CASE Execute
    <3>1. AuditStands
      BY <2>5 DEF Execute, AuditStands, hvars, setup, dvars, Base, Struct, TypeOK
    <3> QED BY <3>1, StandsHeard
  <2>6. CASE UNCHANGED vars
    <3>1. AuditStands
      BY <2>6 DEF vars, AuditStands, hvars, setup, dvars
    <3> QED BY <3>1, StandsHeard
  <2> QED BY <2>1, <2>2, <2>3, <2>4, <2>5, <2>6 DEF Next
<1> QED BY <1>1, <1>2 DEF Heard

\* As the broker sends every message once, the duplicate check suppresses none,
\* although a message that stop() puts aside is dispatched again; for consumers
\* that have their listener when messages arrive.
THEOREM NoFalseDuplicates == EarlyListeners => (Spec => []NothingSuppressed)
<1> SUFFICES ASSUME EarlyListeners PROVE Spec => []NothingSuppressed
  OBVIOUS
<1>1. Init => Heard
  BY InitBase DEF Init, Heard, AuditKnows, NothingSuppressed
<1>2. Heard /\ [Next]_vars => Heard'
  BY HeardStep
<1>3. Heard => NothingSuppressed
  BY DEF Heard
<1> QED BY <1>1, <1>2, <1>3, PTL DEF Spec


-----------------------------------------------------------------------------
(* One application thread: start, stop and the listeners *)

\* A step of the threads that dispatch: no thread starts to run, none is told to
\* stop, and the application's calls stay where they are.
OnlyDispatches ==
    /\ UNCHANGED <<async, running, taskRunner, created, local, channelRunning, started,
                   cpc, todo, target, wasStarted>>
    /\ \A c \in Controllers : wpc'[c] = wpc[c]
    /\ \A r \in Runners :
          /\ dpc[r] \in {"unborn", "done"} => dpc'[r] = dpc[r]
          /\ state[r] = "RUNNING" => state'[r] = "RUNNING"
    /\ async /\ dpc[IO] = "idle" => dpc'[IO] = "idle"

\* A step after which a thread that has locked a channel had it locked before.
KeepsLocks ==
    \A d \in Dispatchers :
        dpc'[d] \in {"listen", "onMessage"} =>
            /\ dpc'[d] = dpc[d] /\ hold'[d] = hold[d]
            /\ channelLock[Dest[hold[d]]] = d => channelLock'[Dest[hold[d]]] = d
            /\ dpc[d] = "onMessage" /\ channelLock[Dest[hold[d]]] = d =>
                  channelRunning'[Dest[hold[d]]] = channelRunning[Dest[hold[d]]]

\* Steps that keep the locks keep what is known of their holders.
LEMMA KeepsLockHeld == ASSUME LockHeld, KeepsLocks PROVE LockHeld'
BY DEF LockHeld, KeepsLocks

\* A step that only dispatches keeps the rest of Orderly.
LEMMA OnlyDispatchesOrderly ==
  ASSUME Orderly, OnlyDispatches
  PROVE  ModesApart' /\ OneRunner' /\ Calls' /\ Stopped'
<1> USE DEF Orderly, OnlyDispatches
<1>1. ModesApart'
  BY DEF ModesApart
<1>2. OneRunner'
  <2>1. \A r \in Runners : dpc'[r] \notin {"unborn", "done"} =>
          r = taskRunner' \/ \E c \in Controllers : cpc'[c] \in Joining /\ local'[c] = r
    BY DEF OneRunner
  <2>2. \A r \in Runners : state'[r] # "RUNNING" =>
          /\ r # taskRunner' /\ r <= created'
          /\ \A c \in Controllers : cpc'[c] = "shutdown" => local'[c] # r
    BY DEF OneRunner
  <2> QED BY <2>1, <2>2 DEF OneRunner
<1>3. Calls'
  BY DEF Calls
<1>4. Stopped'
  BY DEF Stopped
<1> QED BY <1>1, <1>2, <1>3, <1>4

\* A thread that has a channel locked has a message for it.
LEMMA LocksRoute ==
  ASSUME Struct, NEW d \in Dispatchers, dpc[d] \in Carrying
  PROVE  hold[d] \in Messages /\ Dest[hold[d]] \in Consumers
<1>1. hold[d] # 0 /\ hold[d] \in Messages \cup {0}
  BY DEF Struct, TypeOK, Hands
<1> QED BY <1>1, Kinds

\* Steps of a task runner outside dispatch().
LEMMA RunnerOrderly ==
  ASSUME Orderly, NEW r \in Runners, RunnerStep(r)
  PROVE  OnlyDispatches /\ KeepsLocks
<1> USE Kinds DEF OnlyDispatches, KeepsLocks, cvars, wvars, rvars, lvars, kvars, qvars, setup,
      Orderly, Base, Struct, TypeOK
<1>1. CASE RunCheck(r)
  <2>1. CASE state[r] # "RUNNING"
    BY <1>1, <2>1 DEF RunCheck
  <2>2. CASE state[r] = "RUNNING"
    BY <1>1, <2>2 DEF RunCheck
  <2> QED BY <2>1, <2>2
<1>2. CASE RunClear(r) \/ RunWait(r)
  BY <1>2 DEF RunClear, RunWait
<1>3. CASE PollConsumer(r)
  <2>1. CASE channelRunning[cur[r]] /\ channel[cur[r]] # <<>>
    BY <1>3, <2>1 DEF PollConsumer
  <2>2. CASE ~(channelRunning[cur[r]] /\ channel[cur[r]] # <<>>)
    BY <1>3, <2>2 DEF PollConsumer
  <2> QED BY <2>1, <2>2
<1>4. CASE Dequeue(r)
  <2>1. CASE running /\ sessionQueue # <<>>
    BY <1>4, <2>1 DEF Dequeue, DequeueNoWait
  <2>2. CASE ~(running /\ sessionQueue # <<>>)
    BY <1>4, <2>2 DEF Dequeue
  <2> QED BY <2>1, <2>2
<1>5. ASSUME NEW k \in Consumers, IterateConsumer(r, k) PROVE OnlyDispatches /\ KeepsLocks
  <2>1. CASE listener[k]
    BY <1>5, <2>1 DEF IterateConsumer
  <2>2. CASE ~listener[k]
    BY <1>5, <2>2 DEF IterateConsumer
  <2> QED BY <2>1, <2>2
<1> QED BY <1>1, <1>2, <1>3, <1>4, <1>5 DEF RunnerStep

\* A thread that is through with its message gives its own locks back, and no other.
LEMMA FinishKeepsLocks ==
  ASSUME Orderly, NEW d \in Dispatchers, FinishDispatch(d), UNCHANGED channelRunning
  PROVE  KeepsLocks
<1> USE DEF Orderly, Base, Struct
<1>1. dpc'[d] \notin {"listen", "onMessage"}
  BY DEF FinishDispatch, TypeOK
<1>2. \A e \in Dispatchers : e # d => dpc'[e] = dpc[e] /\ hold'[e] = hold[e]
  BY DEF FinishDispatch, TypeOK
<1>3. \A k \in Consumers : channelLock[k] # d => channelLock'[k] = channelLock[k]
  BY DEF FinishDispatch, TypeOK
<1>4. \A e \in Dispatchers :
         dpc[e] \in {"listen", "onMessage"} => Dest[hold[e]] \in Consumers
  BY LocksRoute DEF Carrying
<1> QED BY <1>1, <1>2, <1>3, <1>4 DEF KeepsLocks

\* Only dispatch() on the reader's thread leaves it busy, in a synchronous session.
LEMMA DispatchOrderly ==
  ASSUME Orderly, NEW d \in Dispatchers, DispatchStep(d)
  PROVE  OnlyDispatches /\ LockHeld'
<1> USE DEF Orderly, Base, Struct
<1>1. OnlyDispatches
  <2>1. dpc[d] \in Carrying
    BY DEF DispatchStep, Dispatch, Listen, OnMessageReturns, Carrying
  <2>2. \A e \in Dispatchers : e # d => dpc'[e] = dpc[e]
    <3>1. CASE Dispatch(d)
      BY <3>1 DEF Dispatch, SuppressDuplicate, FinishDispatch, TypeOK
    <3>2. CASE Listen(d)
      BY <3>2 DEF Listen, FinishDispatch, TypeOK
    <3>3. CASE OnMessageReturns(d)
      BY <3>3 DEF OnMessageReturns, FinishDispatch, TypeOK
    <3> QED BY <3>1, <3>2, <3>3 DEF DispatchStep
  <2>3. UNCHANGED <<async, running, taskRunner, created, state, local, wpc, channelRunning,
                    started, cpc, todo, target, wasStarted>>
    BY DEF DispatchStep, Dispatch, Listen, OnMessageReturns, cvars, wvars, rvars, kvars, qvars,
       setup
  <2> QED BY <2>1, <2>2, <2>3, Kinds DEF OnlyDispatches, Carrying
<1>2. CASE OnMessageReturns(d)
  <2>1. KeepsLocks
    BY <1>2, FinishKeepsLocks DEF OnMessageReturns, kvars
  <2> QED BY <1>1, <2>1, KeepsLockHeld
<1>3. CASE Dispatch(d)
  <2>1. dpc[d] \in Carrying
    BY <1>3 DEF Dispatch, Carrying
  <2>2. hold[d] \in Messages /\ Dest[hold[d]] \in Consumers
    BY <2>1, LocksRoute
  <2>3. CASE CheckForDuplicates /\ hold[d] \in audit
    <3>1. KeepsLocks
      BY <1>3, <2>3, FinishKeepsLocks DEF Dispatch, SuppressDuplicate, kvars
    <3> QED BY <1>1, <3>1, KeepsLockHeld
  <2>4. CASE ~(CheckForDuplicates /\ hold[d] \in audit)
    <3>1. /\ channelLock' = [channelLock EXCEPT ![Dest[hold[d]]] = d]
          /\ channelLock[Dest[hold[d]]] = None
          /\ dpc' = [dpc EXCEPT ![d] = "listen"]
          /\ UNCHANGED <<hold, channelRunning>>
      BY <1>3, <2>4 DEF Dispatch, kvars
    <3>2. /\ dpc'[d] = "listen" /\ channelLock'[Dest[hold[d]]] = d
          /\ \A e \in Dispatchers : e # d => dpc'[e] = dpc[e]
          /\ \A k \in Consumers : k # Dest[hold[d]] => channelLock'[k] = channelLock[k]
      BY <2>2, <3>1 DEF TypeOK
    <3>3. \A e \in Dispatchers : dpc[e] \in {"listen", "onMessage"} =>
             Dest[hold[e]] \in Consumers /\ Dest[hold[e]] # Dest[hold[d]]
      BY <3>1, LocksRoute, Kinds DEF LockHeld, Carrying
    <3>4. \A e \in Dispatchers : e # d /\ dpc'[e] \in {"listen", "onMessage"} =>
             /\ dpc'[e] = dpc[e] /\ hold'[e] = hold[e]
             /\ channelLock'[Dest[hold[e]]] = channelLock[Dest[hold[e]]]
             /\ channelRunning'[Dest[hold[e]]] = channelRunning[Dest[hold[e]]]
      BY <3>1, <3>2, <3>3
    <3>5. hold'[d] = hold[d]
      BY <3>1
    <3> QED BY <1>1, <3>2, <3>4, <3>5 DEF LockHeld
  <2> QED BY <2>3, <2>4
<1>4. CASE Listen(d)
  <2>1. dpc[d] = "listen"
    BY <1>4 DEF Listen
  <2>3. CASE listener[Dest[hold[d]]] /\ channelRunning[Dest[hold[d]]]
    <3>1. dpc' = [dpc EXCEPT ![d] = "onMessage"] /\ UNCHANGED <<hold, channelRunning, channelLock>>
      BY <1>4, <2>3 DEF Listen
    <3>2. \A e \in Dispatchers : e # d => dpc'[e] = dpc[e]
      BY <3>1 DEF TypeOK
    <3>3. channelLock[Dest[hold[d]]] = d
      BY <2>1 DEF LockHeld
    <3> QED BY <1>1, <2>3, <3>1, <3>2, <3>3 DEF LockHeld
  <2>4. CASE ~(listener[Dest[hold[d]]] /\ channelRunning[Dest[hold[d]]])
    <3>1. KeepsLocks
      BY <1>4, <2>4, FinishKeepsLocks DEF Listen
    <3> QED BY <1>1, <3>1, KeepsLockHeld
  <2> QED BY <2>3, <2>4
<1> QED BY <1>1, <1>2, <1>3, <1>4 DEF DispatchStep

\* execute() leaves the runner to wakeup(), or dispatches on the reader's thread.
LEMMA ExecuteOrderly == ASSUME Orderly, Execute PROVE OnlyDispatches /\ KeepsLocks
<1> USE Kinds DEF OnlyDispatches, KeepsLocks, dvars, cvars, rvars, lvars, kvars, setup,
      Orderly, Base, Struct, TypeOK
<1>1. CASE async
  BY <1>1 DEF Execute
<1>2. CASE ~async
  BY <1>2 DEF Execute
<1> QED BY <1>1, <1>2


\* wakeup() creates a runner only when there is none that runs.
LEMMA WakeupLockOrderly ==
  ASSUME Orderly, NEW w \in Wakers, WakeupLock(w)
  PROVE  ModesApart' /\ OneRunner' /\ Calls' /\ Stopped' /\ LockHeld'
<1> USE DEF Orderly, Base, Struct
<1>1. /\ UNCHANGED <<async, running, state, channelRunning, channelLock, hold, started, cpc,
                     todo, target, wasStarted>>
      /\ \A c \in Controllers : wpc[c] = "none" => wpc'[c] = "none"
      /\ \A c \in Controllers : cpc[c] \in Joining => local'[c] = local[c]
  <2>1. UNCHANGED <<async, running, state, channelRunning, channelLock, hold, started, cpc,
                    todo, target, wasStarted>>
    BY DEF WakeupLock, rvars, cvars, kvars, qvars, lvars, setup
  <2>2. \A c \in Controllers : c # w => wpc'[c] = wpc[c] /\ local'[c] = local[c]
    BY Kinds DEF WakeupLock, TypeOK
  <2>3. wpc[w] = "wake"
    BY DEF WakeupLock
  <2>4. \A c \in Controllers : cpc[c] \in Joining => c # w
    BY <2>3 DEF Calls, Joining
  <2> QED BY <2>1, <2>2, <2>3, <2>4
<1>2. Calls' /\ Stopped'
  <2>1. Calls'
    BY <1>1 DEF Calls
  <2>2. Stopped'
    BY <1>1 DEF Stopped
  <2> QED BY <2>1, <2>2
<1>3. CASE UNCHANGED <<rvars, dpc>>
  <2>1. ModesApart' /\ LockHeld'
    BY <1>1, <1>3 DEF ModesApart, LockHeld, rvars
  <2>2. OneRunner'
    BY <1>1, <1>3 DEF OneRunner, Joining, rvars
  <2> QED BY <1>2, <2>1, <2>2
<1>4. CASE async /\ taskRunner = 0 /\ running
  <2>1. /\ created < MaxRunners /\ created' = created + 1 /\ taskRunner' = created + 1
        /\ dpc' = [dpc EXCEPT ![created + 1] = "check"]
    BY <1>4 DEF WakeupLock
  <2>2. created \in Nat /\ created + 1 \in Runners /\ created + 1 \in Dispatchers
    BY <2>1, Kinds, SessionAssumption DEF TypeOK
  <2>3. dpc'[created + 1] = "check" /\ \A e \in Dispatchers : e # created + 1 => dpc'[e] = dpc[e]
    BY <2>1, <2>2 DEF TypeOK
  <2>4. ModesApart'
    BY <1>1, <1>4, <2>2, <2>3, Kinds DEF ModesApart
  <2>5. LockHeld'
    <3>1. \A e \in Dispatchers : dpc'[e] \in {"listen", "onMessage"} => dpc'[e] = dpc[e]
      BY <2>3
    <3> QED BY <1>1, <3>1 DEF LockHeld
  <2>6. OneRunner'
    <3>1. \A c \in Controllers : cpc[c] \notin Joining
      BY <1>4 DEF OneRunner
    <3>2. \A r \in Runners : r # created + 1 => dpc'[r] \in {"unborn", "done"}
      BY <1>4, <2>3, <3>1, Kinds, SessionAssumption DEF OneRunner, Runners
    <3>3. \A r \in Runners : state[r] # "RUNNING" => r # created + 1 /\ r <= created + 1
      BY <2>2, Kinds DEF OneRunner
    <3>4. \A r \in Runners : dpc'[r] \notin {"unborn", "done"} => r = taskRunner'
      BY <2>1, <3>2
    <3>5. \A r \in Runners : state'[r] # "RUNNING" => r # taskRunner' /\ r <= created'
      BY <1>1, <2>1, <3>3
    <3>6. \A c \in Controllers : cpc'[c] \notin Joining
      BY <1>1, <3>1
    <3>7. running'
      BY <1>1, <1>4
    <3> QED BY <3>4, <3>5, <3>6, <3>7 DEF OneRunner, Joining
  <2> QED BY <1>2, <2>4, <2>5, <2>6
<1> QED BY <1>3, <1>4 DEF WakeupLock

\* A signal that comes late wakes a runner, it does not revive it.
LEMMA WakeupSignalOrderly ==
  ASSUME Orderly, NEW w \in Wakers, WakeupSignal(w)
  PROVE  ModesApart' /\ OneRunner' /\ Calls' /\ Stopped' /\ LockHeld'
<1> USE DEF Orderly, Base, Struct
<1>1. /\ UNCHANGED <<async, running, taskRunner, created, state, local, channelRunning,
                     channelLock, hold, dpc, started, cpc, todo, target, wasStarted>>
      /\ \A c \in Controllers : wpc[c] = "none" => wpc'[c] = "none"
  BY Kinds DEF WakeupSignal, qvars, kvars, dvars, cvars, lvars, setup, TypeOK
<1>2. ModesApart' /\ Stopped' /\ LockHeld'
  BY <1>1 DEF ModesApart, Stopped, LockHeld
<1>3. OneRunner'
  BY <1>1 DEF OneRunner
<1>4. Calls'
  BY <1>1 DEF Calls
<1> QED BY <1>2, <1>3, <1>4


\* start() of a connection that is stopped.
LEMMA StartOrderly ==
  ASSUME OneController, Orderly, NEW c \in Controllers, Start(c)
  PROVE  ModesApart' /\ OneRunner' /\ Calls' /\ Stopped' /\ LockHeld'
<1> USE DEF Orderly, Base, Struct
<1>1. \A e \in Controllers : e = c
  BY DEF OneController
<1>2. cpc[c] = "idle" /\ wpc[c] = "none" /\ ~started
  BY DEF Start, Idle
<1>3. QED
  <2>1. /\ started' = TRUE
        /\ cpc' = [cpc EXCEPT ![c] = "startConsumers"]
        /\ todo' = [todo EXCEPT ![c] = Consumers]
        /\ UNCHANGED <<async, running, taskRunner, created, state, local,
             channelRunning, channelLock, hold, dpc, wpc, target, wasStarted>>
    BY DEF Start, Begin, qvars, kvars, rvars, dvars, cvars, wvars, lvars, hvars, setup
  <2>2. cpc'[c] = "startConsumers"
    BY <2>1, <1>2, Kinds DEF TypeOK
  <2>3. ModesApart'
    BY <2>1 DEF ModesApart
  <2>4. OneRunner'
    BY <1>1, <1>2, <2>1, <2>2, Kinds, SessionAssumption DEF OneRunner, Joining, TypeOK
  <2>5. Calls'
    BY <1>1, <1>2, <2>1, <2>2, Kinds DEF Calls, Starting, Joining, Assigning, Stopped,
       Errands, TypeOK
  <2>6. Stopped'
    BY <1>1, <1>2, <2>1, <2>2, Kinds DEF Stopped, Calls, Starting, Joining, Assigning,
       OneRunner, TypeOK
  <2>7. LockHeld'
    BY <2>1 DEF LockHeld
  <2> QED BY <2>3, <2>4, <2>5, <2>6, <2>7

\* stop() of a connection that is started.
LEMMA StopOrderly ==
  ASSUME OneController, Orderly, NEW c \in Controllers, Stop(c)
  PROVE  ModesApart' /\ OneRunner' /\ Calls' /\ Stopped' /\ LockHeld'
<1> USE DEF Orderly, Base, Struct
<1>1. \A e \in Controllers : e = c
  BY DEF OneController
<1>2. cpc[c] = "idle" /\ wpc[c] = "none" /\ started
  BY DEF Stop, Idle
<1>3. QED
  <2>1. /\ started' = FALSE
        /\ cpc' = [cpc EXCEPT ![c] = "stopConsumers"]
        /\ todo' = [todo EXCEPT ![c] = Consumers]
        /\ UNCHANGED <<async, running, taskRunner, created, state, local,
             channelRunning, channelLock, hold, dpc, wpc, target, wasStarted>>
    BY DEF Stop, Begin, qvars, kvars, rvars, dvars, cvars, wvars, lvars, hvars, setup
  <2>2. cpc'[c] = "stopConsumers" /\ todo'[c] = Consumers
    BY <2>1, <1>2, Kinds DEF TypeOK
  <2>3. ModesApart'
    BY <2>1 DEF ModesApart
  <2>4. OneRunner'
    BY <1>1, <1>2, <2>1, <2>2, Kinds, SessionAssumption DEF OneRunner, Joining, TypeOK
  <2>5. Calls'
    BY <1>1, <1>2, <2>1, <2>2, Kinds DEF Calls, Starting, Joining, Assigning, Stopped,
       Errands, TypeOK
  <2>6. Stopped'
    BY <1>1, <1>2, <2>1, <2>2, Kinds DEF Stopped, Calls, Starting, Joining, Assigning,
       OneRunner, TypeOK
  <2>7. LockHeld'
    BY <2>1 DEF LockHeld
  <2> QED BY <2>3, <2>4, <2>5, <2>6, <2>7

\* start() of the executor looks at its queue.
LEMMA StartTestOrderly ==
  ASSUME OneController, Orderly, NEW c \in Controllers, StartTest(c)
  PROVE  ModesApart' /\ OneRunner' /\ Calls' /\ Stopped' /\ LockHeld'
<1> USE DEF Orderly, Base, Struct
<1>1. \A e \in Controllers : e = c
  BY DEF OneController
<1>2. cpc[c] = "startConsumers" /\ wpc[c] = "none"
  BY DEF StartTest
<1>3. QED
  <2>1. /\ cpc' = [cpc EXCEPT ![c] = IF running THEN "idle" ELSE "startQueue"]
        /\ UNCHANGED <<async, running, taskRunner, created, state, local,
             channelRunning, channelLock, hold, dpc, wpc, started, todo, target,
             wasStarted>>
    BY DEF StartTest, qvars, kvars, rvars, dvars, cvars, wvars, lvars, hvars, setup
  <2>2. cpc'[c] = IF running THEN "idle" ELSE "startQueue"
    BY <2>1, <1>2, Kinds DEF TypeOK
  <2>3. ModesApart'
    BY <2>1 DEF ModesApart
  <2>4. OneRunner'
    BY <1>1, <1>2, <2>1, <2>2, Kinds, SessionAssumption DEF OneRunner, Joining, TypeOK
  <2>5. Calls'
    BY <1>1, <1>2, <2>1, <2>2, Kinds DEF Calls, Starting, Joining, Assigning, Stopped,
       Errands, TypeOK
  <2>6. Stopped'
    BY <1>1, <1>2, <2>1, <2>2, Kinds DEF Stopped, Calls, Starting, Joining, Assigning,
       OneRunner, TypeOK
  <2>7. LockHeld'
    BY <2>1 DEF LockHeld
  <2> QED BY <2>3, <2>4, <2>5, <2>6, <2>7

\* start() of the executor starts its queue.
LEMMA StartQueueOrderly ==
  ASSUME OneController, Orderly, NEW c \in Controllers, StartQueue(c)
  PROVE  ModesApart' /\ OneRunner' /\ Calls' /\ Stopped' /\ LockHeld'
<1> USE DEF Orderly, Base, Struct
<1>1. \A e \in Controllers : e = c
  BY DEF OneController
<1>2. cpc[c] = "startQueue"
  BY DEF StartQueue
<1>3. QED
  <2>1. /\ running' = TRUE
        /\ cpc' = [cpc EXCEPT ![c] = "startCheck"]
        /\ UNCHANGED <<async, taskRunner, created, state, local, channelRunning,
             channelLock, hold, dpc, wpc, started, todo, target, wasStarted>>
    BY DEF StartQueue, qvars, kvars, rvars, dvars, cvars, wvars, lvars, hvars, setup
  <2>2. cpc'[c] = "startCheck"
    BY <2>1, <1>2, Kinds DEF TypeOK
  <2>3. ModesApart'
    BY <2>1 DEF ModesApart
  <2>4. OneRunner'
    BY <1>1, <1>2, <2>1, <2>2, Kinds, SessionAssumption DEF OneRunner, Joining, TypeOK
  <2>5. Calls'
    BY <1>1, <1>2, <2>1, <2>2, Kinds DEF Calls, Starting, Joining, Assigning, Stopped,
       Errands, TypeOK
  <2>6. Stopped'
    BY <1>1, <1>2, <2>1, <2>2, Kinds DEF Stopped, Calls, Starting, Joining, Assigning,
       OneRunner, TypeOK
  <2>7. LockHeld'
    BY <2>1 DEF LockHeld
  <2> QED BY <2>3, <2>4, <2>5, <2>6, <2>7

\* start() of the executor wakes the runner.
LEMMA StartCheckOrderly ==
  ASSUME OneController, Orderly, NEW c \in Controllers, StartCheck(c)
  PROVE  ModesApart' /\ OneRunner' /\ Calls' /\ Stopped' /\ LockHeld'
<1> USE DEF Orderly, Base, Struct
<1>1. \A e \in Controllers : e = c
  BY DEF OneController
<1>2. cpc[c] = "startCheck"
  BY DEF StartCheck
<1>3. QED
  <2>1. /\ wpc' = [wpc EXCEPT ![c] = IF HasUncomsumedMessages THEN "wake" ELSE @]
        /\ cpc' = [cpc EXCEPT ![c] = "idle"]
        /\ UNCHANGED <<async, running, taskRunner, created, state, local,
             channelRunning, channelLock, hold, dpc, started, todo, target,
             wasStarted>>
    BY DEF StartCheck, qvars, kvars, rvars, dvars, cvars, wvars, lvars, hvars, setup
  <2>2. cpc'[c] = "idle"
    BY <2>1, <1>2, Kinds DEF TypeOK
  <2>3. ModesApart'
    BY <2>1 DEF ModesApart
  <2>4. OneRunner'
    BY <1>1, <1>2, <2>1, <2>2, Kinds, SessionAssumption DEF OneRunner, Joining, TypeOK
  <2>5. Calls'
    BY <1>1, <1>2, <2>1, <2>2, Kinds DEF Calls, Starting, Joining, Assigning, Stopped,
       Errands, TypeOK
  <2>6. Stopped'
    BY <1>1, <1>2, <2>1, <2>2, Kinds DEF Stopped, Calls, Starting, Joining, Assigning,
       OneRunner, TypeOK
  <2>7. LockHeld'
    BY <2>1 DEF LockHeld
  <2> QED BY <2>3, <2>4, <2>5, <2>6, <2>7

\* start() of a consumer.
LEMMA StartConsumerOrderly ==
  ASSUME OneController, Orderly, NEW c \in Controllers, NEW k \in Consumers, StartConsumer(c, k)
  PROVE  ModesApart' /\ OneRunner' /\ Calls' /\ Stopped' /\ LockHeld'
<1> USE DEF Orderly, Base, Struct
<1>1. \A e \in Controllers : e = c
  BY DEF OneController
<1>2. cpc[c] = "startConsumers" /\ wpc[c] = "none" /\ channelLock[k] = None
  BY DEF StartConsumer
<1>3. QED
  <2>1. /\ channelRunning' = [channelRunning EXCEPT ![k] = TRUE]
        /\ todo' = [todo EXCEPT ![c] = @ \ {k}]
        /\ wpc' = [wpc EXCEPT ![c] = "wake"]
        /\ UNCHANGED <<async, running, taskRunner, created, state, local, channelLock,
             hold, dpc, started, cpc, target, wasStarted>>
    BY DEF StartConsumer, qvars, kvars, rvars, dvars, cvars, wvars, lvars, hvars, setup
  <2>2. wpc'[c] = "wake"
    BY <2>1, <1>2, Kinds DEF TypeOK
  <2>3. ModesApart'
    BY <2>1 DEF ModesApart
  <2>4. OneRunner'
    BY <1>1, <1>2, <2>1, <2>2, Kinds, SessionAssumption DEF OneRunner, Joining, TypeOK
  <2>5. Calls'
    BY <1>1, <1>2, <2>1, <2>2, Kinds DEF Calls, Starting, Joining, Assigning, Stopped,
       Errands, TypeOK
  <2>6. Stopped'
    BY <1>1, <1>2, <2>1, <2>2, Kinds DEF Stopped, Calls, Starting, Joining, Assigning,
       OneRunner, TypeOK
  <2>7. LockHeld'
    BY <1>2, <2>1, Kinds DEF LockHeld, TypeOK
  <2> QED BY <2>3, <2>4, <2>5, <2>6, <2>7

\* stop() of a consumer waits for its lock.
LEMMA StopConsumerOrderly ==
  ASSUME OneController, Orderly, NEW c \in Controllers, NEW k \in Consumers, StopConsumer(c, k)
  PROVE  ModesApart' /\ OneRunner' /\ Calls' /\ Stopped' /\ LockHeld'
<1> USE DEF Orderly, Base, Struct
<1>1. \A e \in Controllers : e = c
  BY DEF OneController
<1>2. cpc[c] = "stopConsumers" /\ channelLock[k] = None
  BY DEF StopConsumer
<1>3. QED
  <2>1. /\ channelRunning' = [channelRunning EXCEPT ![k] = FALSE]
        /\ todo' = [todo EXCEPT ![c] = @ \ {k}]
        /\ UNCHANGED <<async, running, taskRunner, created, state, local, channelLock,
             hold, dpc, wpc, started, cpc, target, wasStarted>>
    BY DEF StopConsumer, qvars, kvars, rvars, dvars, cvars, wvars, lvars, hvars, setup
  <2>2. todo'[c] = todo[c] \ {k}
    BY <2>1, <1>2, Kinds DEF TypeOK
  <2>3. ModesApart'
    BY <2>1 DEF ModesApart
  <2>4. OneRunner'
    BY <1>1, <1>2, <2>1, <2>2, Kinds, SessionAssumption DEF OneRunner, Joining, TypeOK
  <2>5. Calls'
    BY <1>1, <1>2, <2>1, <2>2, Kinds DEF Calls, Starting, Joining, Assigning, Stopped,
       Errands, TypeOK
  <2>6. Stopped'
    <3>1. \A j \in Consumers : j # k => channelRunning'[j] = channelRunning[j]
      BY <2>1 DEF TypeOK
    <3>2. ~channelRunning'[k]
      BY <2>1 DEF TypeOK
    <3> QED BY <1>1, <1>2, <2>1, <2>2, <3>1, <3>2 DEF Stopped
  <2>7. LockHeld'
    <3>1. \A d \in Dispatchers : dpc[d] = "onMessage" => Dest[hold[d]] # k
      BY <1>2, Kinds DEF LockHeld
    <3>2. \A j : j # k => channelRunning'[j] = channelRunning[j]
      BY <2>1
    <3> QED BY <2>1, <3>1, <3>2 DEF LockHeld
  <2> QED BY <2>3, <2>4, <2>5, <2>6, <2>7

\* stop() of the executor takes the runner away.
LEMMA StopQueueOrderly ==
  ASSUME OneController, Orderly, NEW c \in Controllers, StopQueue(c)
  PROVE  ModesApart' /\ OneRunner' /\ Calls' /\ Stopped' /\ LockHeld'
<1> USE DEF Orderly, Base, Struct
<1>1. \A e \in Controllers : e = c
  BY DEF OneController
<1>2. cpc[c] = "stopConsumers" /\ todo[c] = {} /\ wpc[c] = "none"
  BY DEF StopQueue, Calls
<1>3. CASE running /\ taskRunner # 0
  <2>1. /\ running' = FALSE
        /\ local' = [local EXCEPT ![c] = taskRunner]
        /\ taskRunner' = 0
        /\ cpc' = [cpc EXCEPT ![c] = "shutdown"]
        /\ UNCHANGED <<async, created, state, channelRunning, channelLock, hold, dpc,
             wpc, started, todo, target, wasStarted>>
    BY <1>3 DEF StopQueue, AfterStop, qvars, kvars, rvars, dvars, cvars, wvars, lvars,
       hvars, setup
  <2>2. cpc'[c] = "shutdown" /\ local'[c] = taskRunner
    BY <2>1, <1>2, Kinds DEF TypeOK
  <2>3. ModesApart'
    BY <2>1 DEF ModesApart
  <2>4. OneRunner'
    <3>1. taskRunner \in Nat /\ taskRunner <= created /\ 0 \notin Runners
      BY SessionAssumption DEF TypeOK, Runners
    <3>2. \A r \in Runners : dpc'[r] \notin {"unborn", "done"} =>
             \E e \in Controllers : cpc'[e] \in Joining /\ local'[e] = r
      BY <1>1, <1>2, <1>3, <2>1, <2>2, <3>1 DEF OneRunner, Joining
    <3>3. \A r \in Runners : state'[r] # "RUNNING" =>
             /\ r # taskRunner' /\ r <= created'
             /\ \A e \in Controllers : cpc'[e] = "shutdown" => local'[e] # r
      BY <1>1, <1>2, <1>3, <2>1, <2>2, <3>1 DEF OneRunner
    <3>4. \A e \in Controllers : cpc'[e] \in Joining => local'[e] \in 1..created'
      BY <1>1, <1>2, <1>3, <2>1, <2>2, <3>1 DEF Joining, TypeOK
    <3>5. ~running' /\ taskRunner' = 0
      BY <1>1, <1>2, <1>3, <2>1, <2>2 DEF OneRunner
    <3> QED BY <3>2, <3>3, <3>4, <3>5 DEF OneRunner
  <2>5. Calls'
    BY <1>1, <1>2, <1>3, <2>1, <2>2, Kinds DEF Calls, Starting, Joining, Assigning,
       Stopped, Errands, TypeOK
  <2>6. Stopped'
    BY <1>1, <1>2, <1>3, <2>1, <2>2, Kinds DEF Stopped, Calls, Starting, Joining,
       Assigning, OneRunner, TypeOK
  <2>7. LockHeld'
    BY <2>1 DEF LockHeld
  <2> QED BY <2>3, <2>4, <2>5, <2>6, <2>7
<1>4. CASE ~(running /\ taskRunner # 0)
  <2>1. /\ running' = FALSE
        /\ cpc' = [cpc EXCEPT ![c] = IF target[c] = None THEN "idle" ELSE "assign"]
        /\ UNCHANGED <<async, taskRunner, created, state, local, channelRunning,
             channelLock, hold, dpc, wpc, started, todo, target, wasStarted>>
    BY <1>4 DEF StopQueue, AfterStop, qvars, kvars, rvars, dvars, cvars, wvars, lvars,
       hvars, setup
  <2>2. cpc'[c] = IF target[c] = None THEN "idle" ELSE "assign"
    BY <2>1, <1>2, Kinds DEF TypeOK
  <2>3. ModesApart'
    BY <2>1 DEF ModesApart
  <2>4. OneRunner'
    <3>1. taskRunner \in Nat /\ taskRunner <= created /\ 0 \notin Runners
      BY SessionAssumption DEF TypeOK, Runners
    <3>2. \A r \in Runners : dpc'[r] \notin {"unborn", "done"} =>
             \E e \in Controllers : cpc'[e] \in Joining /\ local'[e] = r
      BY <1>1, <1>2, <1>4, <2>1, <2>2, <3>1 DEF OneRunner, Joining
    <3>3. \A r \in Runners : state'[r] # "RUNNING" =>
             /\ r # taskRunner' /\ r <= created'
             /\ \A e \in Controllers : cpc'[e] = "shutdown" => local'[e] # r
      BY <1>1, <1>2, <1>4, <2>1, <2>2, <3>1 DEF OneRunner
    <3>4. \A e \in Controllers : cpc'[e] \in Joining => local'[e] \in 1..created'
      BY <1>1, <1>2, <1>4, <2>1, <2>2, <3>1 DEF Joining, TypeOK
    <3>5. ~running' /\ taskRunner' = 0
      BY <1>1, <1>2, <1>4, <2>1, <2>2 DEF OneRunner
    <3> QED BY <3>2, <3>3, <3>4, <3>5 DEF OneRunner
  <2>5. Calls'
    BY <1>1, <1>2, <1>4, <2>1, <2>2, Kinds DEF Calls, Starting, Joining, Assigning,
       Stopped, Errands, TypeOK
  <2>6. Stopped'
    BY <1>1, <1>2, <1>4, <2>1, <2>2, Kinds DEF Stopped, Calls, Starting, Joining,
       Assigning, OneRunner, TypeOK
  <2>7. LockHeld'
    BY <2>1 DEF LockHeld
  <2> QED BY <2>3, <2>4, <2>5, <2>6, <2>7
<1> QED BY <1>3, <1>4

\* stop() of the executor tells the runner to stop.
LEMMA ShutdownOrderly ==
  ASSUME OneController, Orderly, NEW c \in Controllers, Shutdown(c)
  PROVE  ModesApart' /\ OneRunner' /\ Calls' /\ Stopped' /\ LockHeld'
<1> USE DEF Orderly, Base, Struct
<1>1. \A e \in Controllers : e = c
  BY DEF OneController
<1>2. cpc[c] = "shutdown" /\ local[c] \in Runners /\ state[local[c]] = "RUNNING"
  <2>1. cpc[c] = "shutdown" /\ local[c] \in 1..created
    BY DEF Shutdown, OneRunner, Joining
  <2>2. local[c] \in Runners
    BY <2>1, SessionAssumption DEF TypeOK, Runners
  <2> QED BY <2>1, <2>2 DEF OneRunner
<1>3. QED
  <2>1. /\ state' = [state EXCEPT ![local[c]] = "STOPPING"]
        /\ cpc' = [cpc EXCEPT ![c] = "join"]
        /\ UNCHANGED <<async, running, taskRunner, created, local, channelRunning,
             channelLock, hold, dpc, wpc, started, todo, target, wasStarted>>
    BY <1>2 DEF Shutdown, AfterStop, RequestStop, qvars, kvars, rvars, dvars, cvars,
       wvars, lvars, hvars, setup
  <2>2. cpc'[c] = "join"
    BY <2>1, <1>2, Kinds DEF TypeOK
  <2>3. ModesApart'
    BY <2>1 DEF ModesApart
  <2>4. OneRunner'
    BY <1>1, <1>2, <2>1, <2>2, Kinds, SessionAssumption DEF OneRunner, Joining, TypeOK
  <2>5. Calls'
    BY <1>1, <1>2, <2>1, <2>2, Kinds DEF Calls, Starting, Joining, Assigning, Stopped,
       Errands, TypeOK
  <2>6. Stopped'
    BY <1>1, <1>2, <2>1, <2>2, Kinds DEF Stopped, Calls, Starting, Joining, Assigning,
       OneRunner, TypeOK
  <2>7. LockHeld'
    BY <2>1 DEF LockHeld
  <2> QED BY <2>3, <2>4, <2>5, <2>6, <2>7

\* stop() of the executor waits for the runner.
LEMMA JoinOrderly ==
  ASSUME OneController, Orderly, NEW c \in Controllers, Join(c)
  PROVE  ModesApart' /\ OneRunner' /\ Calls' /\ Stopped' /\ LockHeld'
<1> USE DEF Orderly, Base, Struct
<1>1. \A e \in Controllers : e = c
  BY DEF OneController
<1>2. cpc[c] = "join" /\ dpc[local[c]] = "done"
  BY DEF Join
<1>3. QED
  <2>1. /\ cpc' = [cpc EXCEPT ![c] = IF target[c] = None THEN "idle" ELSE "assign"]
        /\ UNCHANGED <<async, running, taskRunner, created, state, local,
             channelRunning, channelLock, hold, dpc, wpc, started, todo, target,
             wasStarted>>
    BY DEF Join, AfterStop, qvars, kvars, rvars, dvars, cvars, wvars, lvars, hvars,
       setup
  <2>2. cpc'[c] = IF target[c] = None THEN "idle" ELSE "assign"
    BY <2>1, <1>2, Kinds DEF TypeOK
  <2>3. ModesApart'
    BY <2>1 DEF ModesApart
  <2>4. OneRunner'
    BY <1>1, <1>2, <2>1, <2>2, Kinds, SessionAssumption DEF OneRunner, Joining, TypeOK
  <2>5. Calls'
    BY <1>1, <1>2, <2>1, <2>2, Kinds DEF Calls, Starting, Joining, Assigning, Stopped,
       Errands, TypeOK
  <2>6. Stopped'
    BY <1>1, <1>2, <2>1, <2>2, Kinds DEF Stopped, Calls, Starting, Joining, Assigning,
       OneRunner, TypeOK
  <2>7. LockHeld'
    BY <2>1 DEF LockHeld
  <2> QED BY <2>3, <2>4, <2>5, <2>6, <2>7

\* setMessageListener() begins.
LEMMA SetMessageListenerOrderly ==
  ASSUME OneController, Orderly, NEW c \in Controllers, NEW k \in Consumers,
         SetMessageListener(c, k)
  PROVE  ModesApart' /\ OneRunner' /\ Calls' /\ Stopped' /\ LockHeld'
<1> USE DEF Orderly, Base, Struct
<1>1. \A e \in Controllers : e = c
  BY DEF OneController
<1>2. cpc[c] = "idle" /\ wpc[c] = "none"
  BY DEF SetMessageListener, Idle
<1>3. QED
  <2>1. /\ target' = [target EXCEPT ![c] = k]
        /\ wasStarted' = [wasStarted EXCEPT ![c] = running]
        /\ cpc' = [cpc EXCEPT ![c] = IF running THEN "stopConsumers" ELSE "assign"]
        /\ todo' = [todo EXCEPT ![c] = Consumers]
        /\ UNCHANGED <<async, running, taskRunner, created, state, local,
             channelRunning, channelLock, hold, dpc, wpc, started>>
    BY DEF SetMessageListener, Begin, qvars, kvars, rvars, dvars, cvars, wvars, lvars,
       hvars, setup
  <2>2. /\ target'[c] = k
        /\ wasStarted'[c] = running
        /\ cpc'[c] = IF running THEN "stopConsumers" ELSE "assign"
    BY <2>1, <1>2, Kinds DEF TypeOK
  <2>3. ModesApart'
    BY <2>1 DEF ModesApart
  <2>4. OneRunner'
    BY <1>1, <1>2, <2>1, <2>2, Kinds, SessionAssumption DEF OneRunner, Joining, TypeOK
  <2>5. Calls'
    BY <1>1, <1>2, <2>1, <2>2, Kinds DEF Calls, Starting, Joining, Assigning, Stopped,
       Errands, TypeOK
  <2>6. Stopped'
    BY <1>1, <1>2, <2>1, <2>2, Kinds DEF Stopped, Calls, Starting, Joining, Assigning,
       OneRunner, TypeOK
  <2>7. LockHeld'
    BY <2>1 DEF LockHeld
  <2> QED BY <2>3, <2>4, <2>5, <2>6, <2>7

\* setMessageListener() sets the listener.
LEMMA AssignListenerOrderly ==
  ASSUME OneController, Orderly, NEW c \in Controllers, AssignListener(c)
  PROVE  ModesApart' /\ OneRunner' /\ Calls' /\ Stopped' /\ LockHeld'
<1> USE DEF Orderly, Base, Struct
<1>1. \A e \in Controllers : e = c
  BY DEF OneController
<1>2. cpc[c] = "assign"
  BY DEF AssignListener
<1>3. QED
  <2>1. /\ cpc' = [cpc EXCEPT ![c] = "redispatch"]
        /\ UNCHANGED <<async, running, taskRunner, created, state, local,
             channelRunning, channelLock, hold, dpc, wpc, started, todo, target,
             wasStarted>>
    BY DEF AssignListener, qvars, kvars, rvars, dvars, cvars, wvars, lvars, hvars, setup
  <2>2. cpc'[c] = "redispatch"
    BY <2>1, <1>2, Kinds DEF TypeOK
  <2>3. ModesApart'
    BY <2>1 DEF ModesApart
  <2>4. OneRunner'
    BY <1>1, <1>2, <2>1, <2>2, Kinds, SessionAssumption DEF OneRunner, Joining, TypeOK
  <2>5. Calls'
    BY <1>1, <1>2, <2>1, <2>2, Kinds DEF Calls, Starting, Joining, Assigning, Stopped,
       Errands, TypeOK
  <2>6. Stopped'
    BY <1>1, <1>2, <2>1, <2>2, Kinds DEF Stopped, Calls, Starting, Joining, Assigning,
       OneRunner, TypeOK
  <2>7. LockHeld'
    BY <2>1 DEF LockHeld
  <2> QED BY <2>3, <2>4, <2>5, <2>6, <2>7

\* redispatch() takes what was put aside.
LEMMA RedispatchOrderly ==
  ASSUME OneController, Orderly, NEW c \in Controllers, Redispatch(c)
  PROVE  ModesApart' /\ OneRunner' /\ Calls' /\ Stopped' /\ LockHeld'
<1> USE DEF Orderly, Base, Struct
<1>1. \A e \in Controllers : e = c
  BY DEF OneController
<1>2. cpc[c] = "redispatch"
  BY DEF Redispatch
<1>3. QED
  <2>1. /\ cpc' = [cpc EXCEPT ![c] = "executeFirst"]
        /\ UNCHANGED <<async, running, taskRunner, created, state, local,
             channelRunning, channelLock, hold, dpc, wpc, started, todo, target,
             wasStarted>>
    BY DEF Redispatch, qvars, kvars, rvars, dvars, cvars, wvars, lvars, hvars, setup
  <2>2. cpc'[c] = "executeFirst"
    BY <2>1, <1>2, Kinds DEF TypeOK
  <2>3. ModesApart'
    BY <2>1 DEF ModesApart
  <2>4. OneRunner'
    BY <1>1, <1>2, <2>1, <2>2, Kinds, SessionAssumption DEF OneRunner, Joining, TypeOK
  <2>5. Calls'
    BY <1>1, <1>2, <2>1, <2>2, Kinds DEF Calls, Starting, Joining, Assigning, Stopped,
       Errands, TypeOK
  <2>6. Stopped'
    BY <1>1, <1>2, <2>1, <2>2, Kinds DEF Stopped, Calls, Starting, Joining, Assigning,
       OneRunner, TypeOK
  <2>7. LockHeld'
    BY <2>1 DEF LockHeld
  <2> QED BY <2>3, <2>4, <2>5, <2>6, <2>7

\* redispatch() puts a message back.
LEMMA ExecuteFirstOrderly ==
  ASSUME OneController, Orderly, NEW c \in Controllers, ExecuteFirst(c)
  PROVE  ModesApart' /\ OneRunner' /\ Calls' /\ Stopped' /\ LockHeld'
<1> USE DEF Orderly, Base, Struct
<1>1. \A e \in Controllers : e = c
  BY DEF OneController
<1>2. cpc[c] = "executeFirst"
  BY DEF ExecuteFirst
<1>3. QED
  <2>1. /\ wpc' = [wpc EXCEPT ![c] = "wake"]
        /\ UNCHANGED <<async, running, taskRunner, created, state, local,
             channelRunning, channelLock, hold, dpc, started, cpc, todo, target,
             wasStarted>>
    BY DEF ExecuteFirst, qvars, kvars, rvars, dvars, cvars, wvars, lvars, hvars, setup
  <2>2. wpc'[c] = "wake"
    BY <2>1, <1>2, Kinds DEF TypeOK
  <2>3. ModesApart'
    BY <2>1 DEF ModesApart
  <2>4. OneRunner'
    BY <1>1, <1>2, <2>1, <2>2, Kinds, SessionAssumption DEF OneRunner, Joining, TypeOK
  <2>5. Calls'
    BY <1>1, <1>2, <2>1, <2>2, Kinds DEF Calls, Starting, Joining, Assigning, Stopped,
       Errands, TypeOK
  <2>6. Stopped'
    BY <1>1, <1>2, <2>1, <2>2, Kinds DEF Stopped, Calls, Starting, Joining, Assigning,
       OneRunner, TypeOK
  <2>7. LockHeld'
    BY <2>1 DEF LockHeld
  <2> QED BY <2>3, <2>4, <2>5, <2>6, <2>7

\* setMessageListener() ends.
LEMMA RedispatchDoneOrderly ==
  ASSUME OneController, Orderly, NEW c \in Controllers, RedispatchDone(c)
  PROVE  ModesApart' /\ OneRunner' /\ Calls' /\ Stopped' /\ LockHeld'
<1> USE DEF Orderly, Base, Struct
<1>1. \A e \in Controllers : e = c
  BY DEF OneController
<1>2. cpc[c] = "executeFirst" /\ wpc[c] = "none"
  BY DEF RedispatchDone
<1>3. QED
  <2>1. /\ target' = [target EXCEPT ![c] = None]
        /\ cpc' = [cpc EXCEPT ![c] = IF wasStarted[c] THEN "startConsumers" ELSE "idle"]
        /\ todo' = [todo EXCEPT ![c] = Consumers]
        /\ UNCHANGED <<async, running, taskRunner, created, state, local,
             channelRunning, channelLock, hold, dpc, wpc, started, wasStarted>>
    BY DEF RedispatchDone, qvars, kvars, rvars, dvars, cvars, wvars, lvars, hvars, setup
  <2>2. target'[c] = None /\ cpc'[c] = IF wasStarted[c] THEN "startConsumers" ELSE "idle"
    BY <2>1, <1>2, Kinds DEF TypeOK
  <2>3. ModesApart'
    BY <2>1 DEF ModesApart
  <2>4. OneRunner'
    BY <1>1, <1>2, <2>1, <2>2, Kinds, SessionAssumption DEF OneRunner, Joining, TypeOK
  <2>5. Calls'
    BY <1>1, <1>2, <2>1, <2>2, Kinds DEF Calls, Starting, Joining, Assigning, Stopped,
       Errands, TypeOK
  <2>6. Stopped'
    BY <1>1, <1>2, <2>1, <2>2, Kinds DEF Stopped, Calls, Starting, Joining, Assigning,
       OneRunner, TypeOK
  <2>7. LockHeld'
    BY <2>1 DEF LockHeld
  <2> QED BY <2>3, <2>4, <2>5, <2>6, <2>7

\* Every step keeps Orderly.
LEMMA OrderlyStep == ASSUME OneController, Orderly, [Next]_vars PROVE Orderly'
<1> DEFINE Rest == ModesApart /\ OneRunner /\ Calls /\ Stopped /\ LockHeld
<1>1. Base'
  BY BaseStep DEF Orderly
<1>2. ASSUME OnlyDispatches, LockHeld' \/ KeepsLocks PROVE Rest'
  BY <1>2, OnlyDispatchesOrderly, KeepsLockHeld DEF Orderly
<1>3. ASSUME Execute PROVE Rest'
  <2>1. OnlyDispatches /\ KeepsLocks
    BY <1>3, ExecuteOrderly
  <2> QED BY <1>2, <2>1
<1>4. ASSUME NEW w \in Wakers, WakerStep(w) PROVE Rest'
  BY <1>4, WakeupLockOrderly, WakeupSignalOrderly DEF WakerStep
<1>5. ASSUME NEW d \in Dispatchers, DispatchStep(d) PROVE Rest'
  BY <1>2, <1>5, DispatchOrderly
<1>6. ASSUME NEW r \in Runners, RunnerStep(r) PROVE Rest'
  BY <1>2, <1>6, RunnerOrderly
<1>7. ASSUME NEW c \in Controllers, ControllerStep(c) \/ Start(c) \/ Stop(c) PROVE Rest'
  <2>1. CASE Start(c) \/ Stop(c)
    BY <2>1, StartOrderly, StopOrderly
  <2>2. CASE StartTest(c) \/ StartQueue(c) \/ StartCheck(c)
    BY <2>2, StartTestOrderly, StartQueueOrderly, StartCheckOrderly
  <2>3. CASE StopQueue(c) \/ Shutdown(c) \/ Join(c)
    BY <2>3, StopQueueOrderly, ShutdownOrderly, JoinOrderly
  <2>4. CASE AssignListener(c) \/ Redispatch(c) \/ ExecuteFirst(c) \/ RedispatchDone(c)
    BY <2>4, AssignListenerOrderly, RedispatchOrderly, ExecuteFirstOrderly,
       RedispatchDoneOrderly
  <2>5. ASSUME NEW k \in Consumers, StartConsumer(c, k) \/ StopConsumer(c, k) PROVE Rest'
    BY <2>5, StartConsumerOrderly, StopConsumerOrderly
  <2> QED BY <1>7, <2>1, <2>2, <2>3, <2>4, <2>5 DEF ControllerStep
<1>8. ASSUME NEW c \in Controllers, NEW k \in LateListeners, SetMessageListener(c, k)
      PROVE  Rest'
  BY <1>8, SetMessageListenerOrderly, SessionAssumption
<1>9. ASSUME UNCHANGED vars PROVE Rest'
  <2>1. OnlyDispatches /\ KeepsLocks
    BY <1>9 DEF vars, qvars, kvars, rvars, dvars, cvars, wvars, lvars, setup, OnlyDispatches,
       KeepsLocks
  <2> QED BY <1>2, <2>1
<1> QED BY <1>1, <1>3, <1>4, <1>5, <1>6, <1>7, <1>8, <1>9 DEF Next, Orderly

\* Initially no call is under way and no runner exists.
LEMMA InitOrderly == Init => Orderly
<1> SUFFICES ASSUME Init PROVE Orderly
  OBVIOUS
<1>1. Base
  BY InitBase
<1>2. \A d \in Dispatchers : dpc[d] = IF d = IO THEN "idle" ELSE "unborn"
  BY DEF Init
<1>3. ModesApart /\ LockHeld
  BY <1>2, Kinds DEF Init, ModesApart, LockHeld
<1>4. OneRunner
  BY <1>2, Kinds DEF Init, OneRunner, Joining
<1>5. Calls /\ Stopped
  BY Kinds DEF Init, Calls, Stopped, Starting, Joining, Assigning
<1> QED BY <1>1, <1>3, <1>4, <1>5 DEF Orderly

\* With one application thread, at most one thread is in dispatch(): the task
\* runner, the one that stop() waits for, or the transport's reader.
LEMMA OrderlyIsSerial == ASSUME OneController, Orderly PROVE SerialDispatch
<1> USE DEF Orderly, Base, Struct
<1> SUFFICES ASSUME NEW d \in Dispatchers, NEW e \in Dispatchers, hold[d] # 0, hold[e] # 0
             PROVE  d = e
  BY DEF SerialDispatch
<1>1. dpc[d] \in Carrying /\ dpc[e] \in Carrying
  BY DEF Hands
<1>2. CASE async
  <2>1. d \in Runners /\ e \in Runners
    BY <1>1, <1>2, Kinds DEF ModesApart, Carrying
  <2>2. d # 0 /\ e # 0
    BY <2>1 DEF Runners
  <2> QED BY <1>1, <2>1, <2>2 DEF OneRunner, OneController, Carrying
<1>3. CASE ~async
  <2>1. \A r \in Runners : dpc[r] = "unborn"
    BY <1>3, Kinds DEF ModesApart, Hands, Runners
  <2> QED BY <1>1, <2>1, Kinds DEF Carrying
<1> QED BY <1>2, <1>3

\* With one application thread, no message reaches a listener after stop().
LEMMA OrderlyQuiesces == ASSUME OneController, Orderly PROVE StopQuiesces
<1> USE DEF Orderly, Base, Struct
<1> SUFFICES ASSUME ~started, \A c \in Controllers : cpc[c] = "idle"
             PROVE  /\ \A d \in Dispatchers : dpc[d] # "onMessage"
                    /\ \A r \in Runners : hold[r] = 0
  BY DEF StopQuiesces, Idle
<1>1. ~running /\ \A k \in Consumers : ~channelRunning[k]
  BY DEF Stopped, OneController
<1>2. \A d \in Dispatchers : dpc[d] # "onMessage"
  BY <1>1, LocksRoute DEF LockHeld, Carrying
<1>3. \A r \in Runners : dpc[r] \in {"unborn", "done"}
  BY <1>1 DEF OneRunner, Joining, Runners
<1>4. \A r \in Runners : hold[r] = 0
  BY <1>3, Kinds DEF Hands, Carrying
<1> QED BY <1>2, <1>4

\* cms::Session's promise that listeners are run one at a time: with one thread
\* that starts, stops and sets listeners, no two threads ever dispatch at once.
THEOREM ListenersAreSerial == OneController => (Spec => []SerialDispatch)
<1> SUFFICES ASSUME OneController PROVE Spec => []SerialDispatch
  OBVIOUS
<1>1. Orderly /\ [Next]_vars => Orderly'
  BY OrderlyStep
<1>2. Orderly => SerialDispatch
  BY OrderlyIsSerial
<1> QED BY InitOrderly, <1>1, <1>2, PTL DEF Spec

\* When stop() has returned to the only thread that calls it, no listener runs and
\* no task runner carries a message to one.
THEOREM StopIsQuiet == OneController => (Spec => []StopQuiesces)
<1> SUFFICES ASSUME OneController PROVE Spec => []StopQuiesces
  OBVIOUS
<1>1. Orderly /\ [Next]_vars => Orderly'
  BY OrderlyStep
<1>2. Orderly => StopQuiesces
  BY OrderlyQuiesces
<1> QED BY InitOrderly, <1>1, <1>2, PTL DEF Spec

=============================================================================
