-------------------------- MODULE ConsumerAckProofs --------------------------
(***************************************************************************)
(* Invariance proofs for ConsumerAck, for any number of messages, lost     *)
(* connections and rollbacks, any prefetch size and redelivery limit.      *)
(*                                                                         *)
(* Client is what the consumer, its audit and the dispatching thread know  *)
(* of a message between them.  It says nothing of a message that an        *)
(* interruption caught half way, or that a commit() without the consumer's *)
(* synchronization left with it, but everything of the others.             *)
(***************************************************************************)
EXTENDS ConsumerAck, TLAPS, FiniteSetTheorems, WellFoundedInduction

\* receive() has a message in hand between dequeue() and its return, dispatch()
\* from the session's queue to the channel.
Hands ==
    /\ hand # 0 <=> apc \in {"before", "after"}
    /\ dhand # 0 <=> dpc # "idle"

\* What the broker has still to dispatch, or the client to put in its channel.
Coming == queue \cup ToSet(down) \cup {dhand}

\* Message m is in list s at most once.
Once(s, m) == \A i, j \in 1..Len(s) : s[i] = m /\ s[j] = m => i = j

\* What is delivered the application holds, or receive() is about to return it, or
\* acknowledge() to remove it, or something has caught it; the clear that an
\* interruption asks for includes the one of the list.
Lists ==
    /\ ToSet(delivered) \subseteq held \cup caught \cup (IF apc = "after" THEN {hand} ELSE {})
                                   \cup (IF apc = "remove" THEN {acked} ELSE {})
    /\ clearDelivered => clearRequired

\* The broker dispatches a message once on a connection.  A thread in dispatch()
\* has cleared the consumer, unless an interruption caught its message.
Dispatched ==
    /\ queue \cap ToSet(down) = {}
    /\ \A m \in Messages : Once(down, m)
    /\ dhand \notin caught => dhand \notin queue \cup ToSet(down)
    /\ dpc = "enqueue" /\ clearRequired => dhand \in caught

\* Message m is in the channel, in receive()'s hands, held or done, and does not
\* come again unless the channel is to be cleared, or the audit knows it.
Known(m) ==
    /\ m \in ToSet(unconsumed) =>
          /\ clearRequired \/ m \notin Coming
          /\ Once(unconsumed, m)
          /\ m # hand /\ m \notin held /\ m \notin done
    /\ m = hand => ~clearRequired /\ m \notin Coming /\ m \notin held /\ m \notin done
    /\ m \in held => m \notin done /\ (m \in audit \/ m \notin Coming)
    /\ m \in done => m \in audit \/ m \notin Coming
    /\ m \in ToSet(delivered) =>
          /\ Once(delivered, m)
          /\ previously[m] = "pending" \/ clearDelivered \/ m \notin Coming
    /\ apc = "remove" /\ m = acked => ~clearDelivered /\ m \in done
    /\ mode \in {"client", "individual"} /\ clearDelivered => m \notin held

Client == TypeOK /\ Hands /\ Lists /\ Dispatched /\ \A m \in Messages \ caught : Known(m)

-----------------------------------------------------------------------------
(* Lemmas on numbers, positions and lists *)

\* A set of natural numbers has a least one.
LEMMA LeastNatural ==
  ASSUME NEW T, T \subseteq Nat, T # {}
  PROVE  \E x \in T : \A y \in T : x <= y
<1> DEFINE R == {ss \in Nat \X Nat : ss[1] < ss[2]}
<1>1. OpToRel(<, Nat) = R
  BY Zenon DEF OpToRel
<1>2. IsWellFoundedOn(R, Nat)
  BY <1>1, NatLessThanWellFounded
<1>3. PICK x \in T : \A y \in T : ~(<<y, x>> \in R)
  BY <1>2, WFMin, Zenon
<1>4. \A y \in T : ~(y < x)
  BY <1>3
<1> QED BY <1>4

\* The least of a set of natural numbers is one of them.
LEMMA MinIn ==
  ASSUME NEW T, T \subseteq Nat, T # {}
  PROVE  Min(T) \in T /\ \A y \in T : Min(T) <= y
<1>1. \E x \in T : \A y \in T : x <= y
  BY LeastNatural
<1> QED BY <1>1 DEF Min

\* The largest of a bounded set of natural numbers is one of them.
LEMMA MaxIn ==
  ASSUME NEW n \in Nat, NEW T, T \subseteq 0..n, T # {}
  PROVE  Max(T) \in T /\ \A y \in T : y <= Max(T)
<1> DEFINE U == {x \in 0..n : n - x \in T}
<1>1. PICK t : t \in T
  OBVIOUS
<1>2. n - t \in U
  BY <1>1
<1>3. PICK x \in U : \A y \in U : x <= y
  <2>1. U \subseteq Nat /\ U # {}
    BY <1>2
  <2> QED BY <2>1, LeastNatural
<1>4. \A y \in T : n - y \in U /\ y \in 0..n
  OBVIOUS
<1>5. n - x \in T /\ \A y \in T : n - x >= y
  BY <1>3, <1>4
<1>6. Max(T) \in T /\ \A y \in T : Max(T) >= y
  BY <1>5 DEF Max
<1> QED BY <1>6

\* The larger of zero and a number, as acknowledge() adjusts the counter.
LEMMA NotNegative ==
  ASSUME NEW x \in Int
  PROVE  Max({0, x}) = IF x > 0 THEN x ELSE 0
<1>1. CASE x > 0
  <2>1. x \in {0, x} /\ \A y \in {0, x} : x >= y
    BY <1>1
  <2>2. Max({0, x}) \in {0, x} /\ \A y \in {0, x} : Max({0, x}) >= y
    BY <2>1 DEF Max
  <2> QED BY <1>1, <2>2
<1>2. CASE ~(x > 0)
  <2>1. 0 \in {0, x} /\ \A y \in {0, x} : 0 >= y
    BY <1>2
  <2>2. Max({0, x}) \in {0, x} /\ \A y \in {0, x} : Max({0, x}) >= y
    BY <2>1 DEF Max
  <2> QED BY <1>2, <2>2
<1> QED BY <1>1, <1>2

\* The rank of a position among those that are kept grows with the position.
Rank(I, i) == Cardinality({j \in I : j <= i})

\* A later position has a larger rank.
LEMMA RankGrows ==
  ASSUME NEW n \in Nat, NEW I, I \subseteq 1..n, NEW i \in I
  PROVE  /\ Cardinality(I) \in Nat /\ Rank(I, i) \in 1..Cardinality(I)
         /\ \A j \in I : i < j => Rank(I, i) < Rank(I, j)
<1> DEFINE Below(j) == {x \in I : x <= j}
<1>1. IsFiniteSet(I)
  <2>1. IsFiniteSet(1..n)
    BY FS_Interval
  <2> QED BY <2>1, FS_Subset
<1>2. \A j \in I : IsFiniteSet(Below(j)) /\ Rank(I, j) \in Nat /\ Rank(I, j) <= Cardinality(I)
  <2> TAKE j \in I
  <2>1. Below(j) \in SUBSET I
    OBVIOUS
  <2>2. IsFiniteSet(Below(j)) /\ Cardinality(Below(j)) <= Cardinality(I)
    BY <1>1, <2>1, FS_Subset
  <2> QED BY <2>2, FS_CardinalityType DEF Rank
<1>3. Cardinality(I) \in Nat
  BY <1>1, FS_CardinalityType
<1>4. Rank(I, i) # 0
  <2>1. i <= i
    OBVIOUS
  <2>2. i \in Below(i)
    BY <2>1
  <2> QED BY <1>2, <2>2, FS_EmptySet DEF Rank
<1>5. ASSUME NEW j \in I, i < j PROVE Rank(I, i) < Rank(I, j)
  <2>1. \A x \in I : x \in Int
    OBVIOUS
  <2>2. Below(i) \in SUBSET Below(j) /\ j \in Below(j) /\ j \notin Below(i)
    <3>1. \A x \in I : x <= i => x <= j
      BY <1>5, <2>1
    <3>2. j <= j /\ ~(j <= i)
      BY <1>5, <2>1
    <3> QED BY <3>1, <3>2
  <2>3. Below(i) # Below(j)
    BY <2>2
  <2>4. /\ Cardinality(Below(i)) <= Cardinality(Below(j))
        /\ Cardinality(Below(i)) # Cardinality(Below(j))
    BY <1>2, <2>2, <2>3, FS_Subset
  <2> QED BY <1>2, <2>4 DEF Rank
<1>6. Rank(I, i) \in Nat /\ Rank(I, i) <= Cardinality(I)
  BY <1>2, Zenon
<1>7. Rank(I, i) \in 1..Cardinality(I)
  BY <1>3, <1>4, <1>6
<1> QED BY <1>3, <1>5, <1>7

\* Positions have ranks of their own, from the first to the last.
LEMMA Ranks ==
  ASSUME NEW n \in Nat, NEW I, I \subseteq 1..n
  PROVE  /\ Cardinality(I) \in Nat
         /\ \A i, j \in I : Rank(I, i) = Rank(I, j) => i = j
         /\ \A k \in 1..Cardinality(I) : \E i \in I : Rank(I, i) = k
<1> DEFINE rank == [i \in I |-> Rank(I, i)]
           c == Cardinality(I)
<1>1. IsFiniteSet(I) /\ c \in Nat
  <2>1. IsFiniteSet(1..n)
    BY FS_Interval
  <2> QED BY <2>1, FS_Subset, FS_CardinalityType
<1>2. \A i \in I : Rank(I, i) \in 1..c
  BY RankGrows
<1>3. \A i, j \in I : Rank(I, i) = Rank(I, j) => i = j
  <2> TAKE i, j \in I
  <2>1. i < j \/ j < i \/ i = j
    OBVIOUS
  <2>2. i < j => Rank(I, i) < Rank(I, j)
    BY RankGrows
  <2>3. j < i => Rank(I, j) < Rank(I, i)
    BY RankGrows
  <2>4. Rank(I, i) \in 1..c /\ Rank(I, j) \in 1..c
    BY <1>2
  <2> QED BY <1>1, <2>1, <2>2, <2>3, <2>4
<1>4. rank \in Injection(I, 1..c)
  <2>1. rank \in [I -> 1..c]
    BY <1>2
  <2> QED BY <1>3, <2>1, Zenon DEF Injection, IsInjective
<1>5. IsFiniteSet(1..c) /\ Cardinality(1..c) = c
  BY <1>1, FS_Interval
<1>6. rank \in Surjection(I, 1..c)
  BY <1>4, <1>5, FS_Injection
<1>7. \A k \in 1..c : \E i \in I : rank[i] = k
  BY <1>6 DEF Surjection
<1> QED BY <1>1, <1>3, <1>7

\* What is in a list, by position.
LEMMA InList ==
  ASSUME NEW S, NEW s \in Seq(S)
  PROVE  /\ ToSet(s) \subseteq S
         /\ \A m : m \in ToSet(s) <=> \E i \in 1..Len(s) : s[i] = m
BY DEF ToSet

\* KeepAt keeps what it is told to, in place, and makes nothing up.
LEMMA Keeps ==
  ASSUME NEW S, NEW s \in Seq(S), NEW I, I \subseteq 1..Len(s)
  PROVE  /\ KeepAt(s, I) \in Seq(S)
         /\ ToSet(KeepAt(s, I)) = {s[i] : i \in I}
         /\ \A m : Once(s, m) => Once(KeepAt(s, I), m)
<1> DEFINE c == Cardinality(I)
           at(k) == CHOOSE i \in I : Rank(I, i) = k
           t == KeepAt(s, I)
<1>1. Len(s) \in Nat /\ \A i \in I : i \in 1..Len(s) /\ s[i] \in S
  OBVIOUS
<1>2. /\ c \in Nat /\ \A k \in 1..c : \E i \in I : Rank(I, i) = k
      /\ \A i, j \in I : Rank(I, i) = Rank(I, j) => i = j
      /\ \A i \in I : Rank(I, i) \in 1..c
  <2>1. \A i \in I : Rank(I, i) \in 1..c
    BY <1>1, RankGrows
  <2> QED BY <1>1, <2>1, Ranks
<1>3. \A k \in 1..c : at(k) \in I /\ Rank(I, at(k)) = k
  BY <1>2
<1>4. t = [k \in 1..c |-> s[at(k)]]
  BY DEF KeepAt, Rank
<1> HIDE DEF at, t, c
<1>5. \A k \in 1..c : s[at(k)] \in S
  BY <1>1, <1>3
<1>6. t \in Seq(S) /\ Len(t) = c /\ \A k \in 1..c : t[k] = s[at(k)]
  BY <1>2, <1>4, <1>5
<1>7. ToSet(t) \subseteq {s[i] : i \in I}
  <2> SUFFICES ASSUME NEW m \in ToSet(t) PROVE m \in {s[i] : i \in I}
    OBVIOUS
  <2>1. PICK k \in 1..c : t[k] = m
    BY <1>6, InList
  <2> QED BY <1>3, <1>6, <2>1
<1>8. {s[i] : i \in I} \subseteq ToSet(t)
  <2> SUFFICES ASSUME NEW i \in I PROVE s[i] \in ToSet(t)
    OBVIOUS
  <2>1. Rank(I, i) \in 1..c /\ i = at(Rank(I, i))
    BY <1>2, <1>3
  <2> QED BY <1>6, <2>1, InList
<1>9. ASSUME NEW m, Once(s, m) PROVE Once(t, m)
  <2> SUFFICES ASSUME NEW a \in 1..c, NEW b \in 1..c, t[a] = m, t[b] = m PROVE a = b
    BY <1>6 DEF Once
  <2>1. s[at(a)] = m /\ s[at(b)] = m /\ at(a) \in 1..Len(s) /\ at(b) \in 1..Len(s)
    BY <1>1, <1>3, <1>6
  <2>2. at(a) = at(b)
    BY <1>9, <2>1 DEF Once
  <2> QED BY <1>3, <2>2
<1> QED BY <1>6, <1>7, <1>8, <1>9 DEF t

\* Lists grow at the end, shrink at the front and are joined.
LEMMA EmptyList == ToSet(<<>>) = {} /\ \A m : Once(<<>>, m)
BY DEF ToSet, Once

\* What is in a list that has grown by one message, and which messages are in it once.
LEMMA Appended ==
  ASSUME NEW S, NEW s \in Seq(S), NEW x \in S
  PROVE  /\ ToSet(Append(s, x)) = ToSet(s) \cup {x}
         /\ \A m : Once(s, m) /\ (m = x => m \notin ToSet(s)) => Once(Append(s, x), m)
<1> DEFINE t == Append(s, x)
<1>1. /\ t \in Seq(S) /\ Len(t) = Len(s) + 1 /\ t[Len(s) + 1] = x
      /\ \A i \in 1..Len(s) : t[i] = s[i]
  OBVIOUS
<1> HIDE DEF t
<1>2. ToSet(t) = ToSet(s) \cup {x}
  BY <1>1, InList
<1>3. ASSUME NEW m, Once(s, m), m = x => m \notin ToSet(s) PROVE Once(t, m)
  <2> SUFFICES ASSUME NEW i \in 1..Len(t), NEW j \in 1..Len(t), t[i] = m, t[j] = m PROVE i = j
    BY DEF Once
  <2>1. CASE m = x
    <3>1. \A k \in 1..Len(s) : t[k] # m
      BY <1>1, <1>3, <2>1, InList
    <3> QED BY <1>1, <3>1
  <2>2. CASE m # x
    <3>1. i \in 1..Len(s) /\ j \in 1..Len(s)
      BY <1>1, <2>2
    <3> QED BY <1>1, <1>3, <3>1 DEF Once
  <2> QED BY <2>1, <2>2
<1> QED BY <1>2, <1>3 DEF t

\* What is in the front and in the rest of a list.
LEMMA HeadAndTail ==
  ASSUME NEW S, NEW s \in Seq(S), s # <<>>
  PROVE  /\ Head(s) \in S /\ Tail(s) \in Seq(S) /\ Head(s) \in ToSet(s)
         /\ ToSet(s) = {Head(s)} \cup ToSet(Tail(s))
         /\ Once(s, Head(s)) => Head(s) \notin ToSet(Tail(s))
         /\ \A m : Once(s, m) => Once(Tail(s), m)
<1> DEFINE t == Tail(s)
<1>1. /\ t \in Seq(S) /\ Len(t) + 1 = Len(s) /\ Head(s) = s[1] /\ 1 \in 1..Len(s)
      /\ \A i \in 1..Len(t) : t[i] = s[i + 1] /\ i + 1 \in 1..Len(s)
      /\ \A i \in 1..Len(s) : i = 1 \/ (i - 1 \in 1..Len(t) /\ s[i] = t[i - 1])
  OBVIOUS
<1> HIDE DEF t
<1>2. Head(s) \in S /\ Head(s) \in ToSet(s)
  BY <1>1, InList
<1>3. ToSet(s) = {Head(s)} \cup ToSet(t)
  BY <1>1, InList
<1>4. Once(s, Head(s)) => Head(s) \notin ToSet(t)
  <2> SUFFICES ASSUME Once(s, Head(s)), Head(s) \in ToSet(t) PROVE FALSE
    OBVIOUS
  <2>1. PICK i \in 1..Len(t) : t[i] = Head(s)
    BY <1>1, InList
  <2>2. s[i + 1] = Head(s) /\ i + 1 \in 1..Len(s) /\ i + 1 # 1
    BY <1>1, <2>1
  <2> QED BY <1>1, <2>2 DEF Once
<1>5. ASSUME NEW m, Once(s, m) PROVE Once(t, m)
  <2> SUFFICES ASSUME NEW i \in 1..Len(t), NEW j \in 1..Len(t), t[i] = m, t[j] = m PROVE i = j
    BY DEF Once
  <2>1. s[i + 1] = m /\ s[j + 1] = m /\ i + 1 \in 1..Len(s) /\ j + 1 \in 1..Len(s)
    BY <1>1
  <2>2. i + 1 = j + 1
    BY <1>5, <2>1 DEF Once
  <2> QED BY <1>1, <2>2
<1> QED BY <1>1, <1>2, <1>3, <1>4, <1>5 DEF t

\* What is in two lists that are joined.
LEMMA Joined ==
  ASSUME NEW S, NEW s \in Seq(S), NEW t \in Seq(S)
  PROVE  /\ s \o t \in Seq(S) /\ ToSet(s \o t) = ToSet(s) \cup ToSet(t)
         /\ \A m : Once(s, m) /\ Once(t, m) /\ (m \in ToSet(s) => m \notin ToSet(t)) =>
                      Once(s \o t, m)
<1> DEFINE u == s \o t
<1>1. /\ u \in Seq(S) /\ Len(u) = Len(s) + Len(t)
      /\ \A i \in 1..Len(s) : u[i] = s[i] /\ i \in 1..Len(u)
      /\ \A i \in 1..Len(t) : u[i + Len(s)] = t[i] /\ i + Len(s) \in 1..Len(u)
  OBVIOUS
<1>2. \A i \in 1..Len(u) : \/ i \in 1..Len(s) /\ u[i] = s[i]
                           \/ i - Len(s) \in 1..Len(t) /\ u[i] = t[i - Len(s)]
  OBVIOUS
<1> HIDE DEF u
<1>3. ToSet(u) = ToSet(s) \cup ToSet(t)
  <2>1. ToSet(u) \subseteq ToSet(s) \cup ToSet(t)
    BY <1>1, <1>2, InList
  <2>2. ToSet(s) \subseteq ToSet(u)
    BY <1>1, InList
  <2>3. ToSet(t) \subseteq ToSet(u)
    <3> SUFFICES ASSUME NEW m \in ToSet(t) PROVE m \in ToSet(u)
      OBVIOUS
    <3>1. PICK i \in 1..Len(t) : t[i] = m
      BY InList
    <3>2. i + Len(s) \in 1..Len(u) /\ u[i + Len(s)] = m
      BY <1>1, <3>1
    <3> QED BY <1>1, <3>2, InList
  <2> QED BY <2>1, <2>2, <2>3
<1>4. ASSUME NEW m, Once(s, m), Once(t, m), m \in ToSet(s) => m \notin ToSet(t)
      PROVE  Once(u, m)
  <2> SUFFICES ASSUME NEW i \in 1..Len(u), NEW j \in 1..Len(u), u[i] = m, u[j] = m PROVE i = j
    BY DEF Once
  <2>1. CASE m \in ToSet(s)
    <3>1. \A k \in 1..Len(t) : t[k] # m
      BY <1>4, <2>1, InList
    <3>2. i \in 1..Len(s) /\ s[i] = m /\ j \in 1..Len(s) /\ s[j] = m
      BY <1>2, <3>1
    <3> QED BY <1>4, <3>2 DEF Once
  <2>2. CASE m \notin ToSet(s)
    <3>1. \A k \in 1..Len(s) : s[k] # m
      BY <2>2, InList
    <3>2. /\ i - Len(s) \in 1..Len(t) /\ t[i - Len(s)] = m
          /\ j - Len(s) \in 1..Len(t) /\ t[j - Len(s)] = m
      BY <1>2, <3>1
    <3>3. i - Len(s) = j - Len(s)
      BY <1>4, <3>2 DEF Once
    <3> QED BY <1>1, <3>3
  <2> QED BY <2>1, <2>2
<1> QED BY <1>1, <1>3, <1>4 DEF u

-----------------------------------------------------------------------------
(* Types, and who has a message in hand *)

Typed == TypeOK /\ Hands

\* TypeOK, variable by variable.
SetTypes ==
    /\ queue \subseteq Messages /\ known \subseteq Messages /\ brokerTx \subseteq Messages
    /\ consumed \subseteq Messages /\ dlq \subseteq Messages /\ audit \subseteq Messages
    /\ held \subseteq Messages /\ done \subseteq Messages
    /\ doubt \subseteq Messages /\ returned \subseteq Messages /\ caught \subseteq Messages

ListTypes ==
    /\ inflight \in Seq(Messages) /\ down \in Seq(Messages)
    /\ unconsumed \in Seq(Messages) /\ delivered \in Seq(Messages)
    /\ up \in Seq(Commands)

FlagTypes ==
    /\ brokerOpen \in BOOLEAN /\ connected \in BOOLEAN /\ running \in BOOLEAN
    /\ startTask \in BOOLEAN /\ inTransaction \in BOOLEAN /\ sync \in BOOLEAN
    /\ clearRequired \in BOOLEAN /\ clearDelivered \in BOOLEAN

CounterTypes ==
    /\ attempts \in [Messages -> Nat] /\ redelivery \in [Messages -> Nat]
    /\ stamp \in [Messages -> Nat]
    /\ deliveredCounter \in Int /\ 2 * deliveredCounter < Prefetch

StateTypes ==
    /\ mode \in Modes /\ maximumRedeliveries \in RedeliveryLimits
    /\ reply \in {"none", "ok", "failed"} /\ tracked \in {"none", "BEGIN", "COMMIT", "ROLLBACK"}
    /\ pendingAck \in Commands \cup {None}
    /\ previously \in [Messages -> {"no", "pending", "back"}]

ThreadTypes ==
    /\ apc \in {"idle", "dequeue", "refused", "before", "after", "remove", "acknowledge",
                "commit", "commitFails", "sendCommit", "awaitCommit", "rollback",
                "sendRollback", "awaitRollback", "rollbackConsumer"}
    /\ dpc \in {"idle", "clear", "enqueue"}
    /\ hand \in 0..MaxMessages /\ acked \in 0..MaxMessages /\ dhand \in 0..MaxMessages
    /\ dstamp \in Nat

\* The parts are all of TypeOK.
LEMMA TypeParts ==
  TypeOK <=> SetTypes /\ ListTypes /\ FlagTypes /\ CounterTypes /\ StateTypes /\ ThreadTypes
BY Zenon DEF TypeOK, SetTypes, ListTypes, FlagTypes, CounterTypes, StateTypes, ThreadTypes

\* The same for the next state.
LEMMA TypePartsNext ==
  ASSUME SetTypes', ListTypes', FlagTypes', CounterTypes', StateTypes', ThreadTypes'
  PROVE  TypeOK'
BY TypeParts, PTL

CommandTypes == {"DELIVERED", "REDELIVERED", "CONSUMED", "INDIVIDUAL", "POISON", "BEGIN",
                 "COMMIT", "ROLLBACK"}

\* Messages are the natural numbers from 1; 0 stands for no message.
LEMMA MessageFacts ==
  /\ MaxMessages \in Nat /\ Messages \subseteq Nat /\ 0 \notin Messages
  /\ \A x : x \in 0..MaxMessages <=> x = 0 \/ x \in Messages
BY ConsumerAssumption DEF Messages

\* An acknowledgement of messages, and a command of a transaction.
LEMMA AckIsCommand ==
  ASSUME NEW t \in CommandTypes, NEW f \in Messages, NEW l \in Messages
  PROVE  Ack(t, f, l) \in Commands
BY MessageFacts DEF Ack, Commands, CommandTypes

\* A command of a transaction is one.
LEMMA TxIsCommand == ASSUME NEW t \in CommandTypes PROVE TxCommand(t) \in Commands
BY MessageFacts DEF TxCommand, Commands, CommandTypes

\* What is sent are commands.
LEMMA SendAllType ==
  ASSUME TypeOK, NEW cs \in Seq(Commands), SendAll(cs)
  PROVE  up' \in Seq(Commands)
BY DEF TypeOK, SendAll

\* An acknowledgement that is sent is a command.
LEMMA SendAckType ==
  ASSUME TypeOK, NEW t \in CommandTypes, NEW f \in Messages, NEW l \in Messages,
         SendAck(t, f, l)
  PROVE  up' \in Seq(Commands)
<1>1. <<Ack(t, f, l)>> \in Seq(Commands)
  BY AckIsCommand
<1> QED BY <1>1, SendAllType DEF SendAck

\* The broker acknowledges what it has dispatched.
LEMMA AckRangeType ==
  ASSUME TypeOK, NEW c
  PROVE  AckRange(c) \subseteq ToSet(inflight) /\ AckRange(c) \subseteq Messages
<1> DEFINE at(m) == {i \in 1..Len(inflight) : inflight[i] = m}
<1>1. inflight \in Seq(Messages) /\ Len(inflight) \in Nat
  BY DEF TypeOK
<1>2. CASE at(c.first) = {} \/ at(c.last) = {}
  BY <1>2 DEF AckRange
<1>3. CASE at(c.first) # {} /\ at(c.last) # {}
  <2>1. Min(at(c.first)) \in at(c.first)
    <3>1. at(c.first) \subseteq Nat
      OBVIOUS
    <3> QED BY <1>3, <3>1, MinIn
  <2>2. Max(at(c.last)) \in at(c.last)
    <3>1. at(c.last) \subseteq 0..Len(inflight)
      BY <1>1
    <3> QED BY <1>1, <1>3, <3>1, MaxIn
  <2>3. Min(at(c.first)) \in 1..Len(inflight) /\ Max(at(c.last)) \in 1..Len(inflight)
    BY <2>1, <2>2
  <2>4. AckRange(c) = {inflight[i] : i \in Min(at(c.first))..Max(at(c.last))}
    BY <1>3 DEF AckRange
  <2> HIDE DEF at
  <2>5. \A i \in Min(at(c.first))..Max(at(c.last)) : i \in 1..Len(inflight)
    BY <1>1, <2>3
  <2> QED BY <1>1, <2>4, <2>5, InList
<1> QED BY <1>2, <1>3

\* What the broker discards it no longer has in flight.
LEMMA DiscardType ==
  ASSUME TypeOK, NEW ms, Discard(ms)
  PROVE  inflight' \in Seq(Messages) /\ ToSet(inflight') \subseteq ToSet(inflight)
<1> DEFINE I == {i \in 1..Len(inflight) : inflight[i] \notin ms}
<1>1. inflight \in Seq(Messages) /\ I \subseteq 1..Len(inflight)
  BY DEF TypeOK
<1>2. inflight' = KeepAt(inflight, I)
  BY DEF Discard
<1> HIDE DEF I
<1>3. KeepAt(inflight, I) \in Seq(Messages) /\ ToSet(KeepAt(inflight, I)) = {inflight[i] : i \in I}
  BY <1>1, Keeps
<1>4. {inflight[i] : i \in I} \subseteq ToSet(inflight)
  BY <1>1, InList
<1> QED BY <1>2, <1>3, <1>4

\* What clearDeliveredList() leaves, in a session that is transacted and one that
\* is not.
LEMMA ClearedList ==
  ASSUME TypeOK, ClearDeliveredList
  PROVE  /\ clearDelivered' = FALSE
         /\ delivered' \in Seq(Messages) /\ pendingAck' \in Commands \cup {None}
         /\ previously' \in [Messages -> {"no", "pending", "back"}]
         /\ ToSet(delivered') \subseteq ToSet(delivered)
         /\ \A m : Once(delivered, m) => Once(delivered', m)
         /\ \A m \in ToSet(delivered') : clearDelivered => previously'[m] = "pending"
         /\ \A m \in ToSet(delivered') : ~clearDelivered => previously'[m] = previously[m]
<1> USE EmptyList, InList DEF TypeOK, ClearDeliveredList
<1>1. CASE clearDelivered /\ delivered # <<>> /\ Transacted
  BY <1>1
<1>2. CASE clearDelivered /\ delivered # <<>> /\ ~Transacted
  BY <1>2
<1>3. CASE ~(clearDelivered /\ delivered # <<>>)
  BY <1>3
<1> QED BY <1>1, <1>2, <1>3

\* ackLater() keeps the counter below half the prefetch size.
LEMMA AckLaterType ==
  ASSUME TypeOK, NEW m \in Messages, NEW cs \in Seq(Commands), AckLater(m, cs)
  PROVE  /\ up' \in Seq(Commands) /\ pendingAck' \in Commands \cup {None}
         /\ deliveredCounter' \in Int /\ 2 * deliveredCounter' < Prefetch
<1> DEFINE f == IF pendingAck = None THEN m ELSE pendingAck.first
           ack == Ack("DELIVERED", f, m)
           n == deliveredCounter + 1
<1>1. ack \in Commands
  <2>1. f \in 0..MaxMessages
    <3>1. CASE pendingAck = None
      BY <3>1, MessageFacts
    <3>2. CASE pendingAck # None
      BY <3>2 DEF TypeOK, Commands
    <3> QED BY <3>1, <3>2
  <2> QED BY <2>1, MessageFacts DEF Ack, Commands
<1>2. n \in Int /\ Prefetch \in Nat \ {0}
  BY ConsumerAssumption DEF TypeOK
<1>3. CASE Prefetch <= 2 * n
  <2>1. SendAll(Append(cs, ack)) /\ pendingAck' = None /\ deliveredCounter' = 0
    BY <1>3 DEF AckLater
  <2> HIDE DEF ack
  <2>2. Append(cs, ack) \in Seq(Commands)
    BY <1>1
  <2>3. up' \in Seq(Commands)
    BY <2>1, <2>2, SendAllType
  <2> QED BY <1>2, <2>1, <2>3
<1>4. CASE ~(Prefetch <= 2 * n)
  <2>1. SendAll(cs) /\ pendingAck' = ack /\ deliveredCounter' = n
    BY <1>4 DEF AckLater
  <2> HIDE DEF ack
  <2> QED BY <1>1, <1>2, <1>4, <2>1, SendAllType
<1> QED BY <1>3, <1>4

\* acknowledge() does not raise the counter.
LEMMA AckAllType ==
  ASSUME TypeOK, delivered # <<>>, NEW cs \in Seq(Commands), AckAllDelivered(cs)
  PROVE  /\ up' \in Seq(Commands) /\ pendingAck' = None
         /\ deliveredCounter' \in Int /\ 2 * deliveredCounter' < Prefetch
<1>1. Head(delivered) \in Messages /\ Last(delivered) \in Messages
  BY DEF TypeOK, Last
<1>2. up' \in Seq(Commands)
  <2> DEFINE a == Ack("CONSUMED", Head(delivered), Last(delivered))
  <2>1. a \in Commands
    BY <1>1, AckIsCommand DEF CommandTypes
  <2>2. SendAll(Append(cs, a))
    BY DEF AckAllDelivered
  <2> HIDE DEF a
  <2>3. Append(cs, a) \in Seq(Commands)
    BY <2>1
  <2> QED BY <2>2, <2>3, SendAllType
<1>3. pendingAck' = None /\ deliveredCounter' = Max({0, deliveredCounter - Len(delivered)})
  BY DEF AckAllDelivered
<1>4. /\ deliveredCounter \in Int /\ Len(delivered) \in Nat /\ Prefetch \in Nat \ {0}
      /\ 2 * deliveredCounter < Prefetch
  BY ConsumerAssumption DEF TypeOK
<1>5. deliveredCounter - Len(delivered) \in Int
  BY <1>4
<1>6. deliveredCounter' = IF deliveredCounter - Len(delivered) > 0
                            THEN deliveredCounter - Len(delivered) ELSE 0
  BY <1>3, <1>5, NotNegative
<1> QED BY <1>2, <1>3, <1>4, <1>6

\* What begin() sends is a command, if anything.
LEMMA BeginType == Begin \in Seq(Commands)
<1>1. TxCommand("BEGIN") \in Commands
  BY TxIsCommand DEF CommandTypes
<1> QED BY <1>1 DEF Begin


\* The connection is restored, and with it the transaction.
LEMMA RestoreTyped == ASSUME Typed, Restore PROVE Typed'
<1> USE DEF Typed
<1>1. up' \in Seq(Commands)
  <2>1. TxCommand("BEGIN") \in Commands /\ TxCommand("ROLLBACK") \in Commands
    BY TxIsCommand DEF CommandTypes
  <2> QED BY <2>1 DEF Restore, DoRestoreTransactions, TypeOK
<1>2. reply' \in {"none", "ok", "failed"} /\ tracked' \in {"none", "BEGIN", "COMMIT", "ROLLBACK"}
  BY DEF Restore, DoRestoreTransactions, TypeOK
<1>3. connected' = TRUE /\ UNCHANGED <<cvars, bvars, down, failures, audit, kvars, lvars,
                                       rvars, fvars,
                   inTransaction, tvars, dvars, hvars>>
  BY DEF Restore
<1>7. /\ connected' = TRUE
      /\ UNCHANGED <<mode, maximumRedeliveries, queue, inflight, known, brokerTx,
           brokerOpen, attempts, consumed, dlq, down, audit, unconsumed, running,
           startTask, delivered, pendingAck, deliveredCounter, previously, redelivery,
           stamp, clearRequired, clearDelivered, inTransaction, sync, apc, hand, acked,
           dpc, dhand, dstamp, held, done, doubt, returned, caught>>
  BY DEF Restore, cvars, bvars, nvars, kvars, lvars, rvars, fvars, tvars, dvars, hvars
<1>8. TypeOK'
  <2>1. SetTypes'
    BY <1>1, <1>2, <1>3, <1>7 DEF TypeOK, SetTypes
  <2>2. ListTypes'
    BY <1>1, <1>2, <1>3, <1>7 DEF TypeOK, ListTypes
  <2>3. FlagTypes'
    BY <1>1, <1>2, <1>3, <1>7 DEF TypeOK, FlagTypes
  <2>4. CounterTypes'
    BY <1>1, <1>2, <1>3, <1>7 DEF TypeOK, CounterTypes
  <2>5. StateTypes'
    BY <1>1, <1>2, <1>3, <1>7 DEF TypeOK, StateTypes
  <2>6. ThreadTypes'
    BY <1>1, <1>2, <1>3, <1>7, MessageFacts DEF TypeOK, ThreadTypes
  <2> QED BY <2>1, <2>2, <2>3, <2>4, <2>5, <2>6, TypePartsNext
<1>9. Hands'
  BY <1>7 DEF Hands, Restore
<1> QED BY <1>8, <1>9

\* The redelivery delay is over.
LEMMA StartConsumerTaskTyped == ASSUME Typed, StartConsumerTask PROVE Typed'
<1> USE DEF Typed
<1>7. /\ startTask' = FALSE
      /\ running' = TRUE
      /\ UNCHANGED <<mode, maximumRedeliveries, queue, inflight, known, brokerTx,
           brokerOpen, attempts, consumed, dlq, connected, up, down, reply, tracked,
           audit, unconsumed, delivered, pendingAck, deliveredCounter, previously,
           redelivery, stamp, clearRequired, clearDelivered, inTransaction, sync, apc,
           hand, acked, dpc, dhand, dstamp, held, done, doubt, returned, caught>>
  BY DEF StartConsumerTask, cvars, bvars, nvars, kvars, lvars, rvars, fvars, tvars, dvars,
     hvars
<1>8. TypeOK'
  <2>1. SetTypes'
    BY <1>7 DEF TypeOK, SetTypes
  <2>2. ListTypes'
    BY <1>7 DEF TypeOK, ListTypes
  <2>3. FlagTypes'
    BY <1>7 DEF TypeOK, FlagTypes
  <2>4. CounterTypes'
    BY <1>7 DEF TypeOK, CounterTypes
  <2>5. StateTypes'
    BY <1>7 DEF TypeOK, StateTypes
  <2>6. ThreadTypes'
    BY <1>7, MessageFacts DEF TypeOK, ThreadTypes
  <2> QED BY <2>1, <2>2, <2>3, <2>4, <2>5, <2>6, TypePartsNext
<1>9. Hands'
  BY <1>7 DEF Hands, StartConsumerTask
<1> QED BY <1>8, <1>9

\* dispatch() takes a message from the session's queue.
LEMMA DispatchTakeTyped == ASSUME Typed, DispatchTake PROVE Typed'
<1> USE DEF Typed
<1>1. Head(down) \in Messages /\ Tail(down) \in Seq(Messages)
  BY HeadAndTail DEF DispatchTake, TypeOK
<1>7. /\ dhand' = Head(down)
      /\ dstamp' = attempts[Head(down)]
      /\ down' = Tail(down)
      /\ dpc' = "clear"
      /\ UNCHANGED <<mode, maximumRedeliveries, queue, inflight, known, brokerTx,
           brokerOpen, attempts, consumed, dlq, connected, up, reply, tracked, audit,
           unconsumed, running, startTask, delivered, pendingAck, deliveredCounter,
           previously, redelivery, stamp, clearRequired, clearDelivered, inTransaction,
           sync, apc, hand, acked, held, done, doubt, returned, caught>>
  BY DEF DispatchTake, cvars, bvars, nvars, kvars, lvars, rvars, fvars, tvars, dvars,
     hvars
<1>8. TypeOK'
  <2>1. SetTypes'
    BY <1>1, <1>7 DEF TypeOK, SetTypes
  <2>2. ListTypes'
    BY <1>1, <1>7 DEF TypeOK, ListTypes
  <2>3. FlagTypes'
    BY <1>1, <1>7 DEF TypeOK, FlagTypes
  <2>4. CounterTypes'
    BY <1>1, <1>7 DEF TypeOK, CounterTypes
  <2>5. StateTypes'
    BY <1>1, <1>7 DEF TypeOK, StateTypes
  <2>6. ThreadTypes'
    BY <1>1, <1>7, MessageFacts DEF TypeOK, ThreadTypes
  <2> QED BY <2>1, <2>2, <2>3, <2>4, <2>5, <2>6, TypePartsNext
<1>9. Hands'
  BY <1>7, <1>1, MessageFacts DEF Hands, DispatchTake
<1> QED BY <1>8, <1>9

\* receive() records its message.
LEMMA BeforeMessageIsConsumedTyped == ASSUME Typed, BeforeMessageIsConsumed PROVE Typed'
<1> USE DEF Typed
<1>1. hand \in Messages
  BY MessageFacts DEF BeforeMessageIsConsumed, TypeOK, Hands
<1>2. delivered' \in Seq(Messages)
  BY <1>1 DEF BeforeMessageIsConsumed, TypeOK
<1>7. /\ apc' = "after"
      /\ UNCHANGED <<mode, maximumRedeliveries, queue, inflight, known, brokerTx,
           brokerOpen, attempts, consumed, dlq, connected, up, down, reply, tracked,
           audit, unconsumed, running, startTask, pendingAck, deliveredCounter,
           previously, redelivery, stamp, clearRequired, clearDelivered, inTransaction,
           sync, hand, acked, dpc, dhand, dstamp, held, done, doubt, returned, caught>>
  BY DEF BeforeMessageIsConsumed, cvars, bvars, nvars, kvars, lvars, rvars, fvars, tvars,
     dvars, hvars
<1>8. TypeOK'
  <2>1. SetTypes'
    BY <1>2, <1>7 DEF TypeOK, SetTypes
  <2>2. ListTypes'
    BY <1>2, <1>7 DEF TypeOK, ListTypes
  <2>3. FlagTypes'
    BY <1>2, <1>7 DEF TypeOK, FlagTypes
  <2>4. CounterTypes'
    BY <1>2, <1>7 DEF TypeOK, CounterTypes
  <2>5. StateTypes'
    BY <1>2, <1>7 DEF TypeOK, StateTypes
  <2>6. ThreadTypes'
    BY <1>2, <1>7, MessageFacts DEF TypeOK, ThreadTypes
  <2> QED BY <2>1, <2>2, <2>3, <2>4, <2>5, <2>6, TypePartsNext
<1>9. Hands'
  BY <1>7 DEF Hands, BeforeMessageIsConsumed
<1> QED BY <1>8, <1>9

\* receive() returns in a transacted session.
LEMMA ReceiveTransactedTyped == ASSUME Typed, ReceiveTransacted PROVE Typed'
<1> USE DEF Typed
<1>1. hand \in Messages
  BY MessageFacts DEF ReceiveTransacted, TypeOK, Hands
<1>2. Begin \in Seq(Commands)
  BY BeginType
<1>3. /\ up' \in Seq(Commands) /\ pendingAck' \in Commands \cup {None}
      /\ deliveredCounter' \in Int /\ 2 * deliveredCounter' < Prefetch
  BY <1>1, <1>2, AckLaterType DEF ReceiveTransacted
<1>7. /\ inTransaction' = TRUE /\ sync' = TRUE
      /\ tracked' = IF inTransaction THEN tracked ELSE "BEGIN"
      /\ held' = held \cup {hand} /\ returned' = returned \ {hand}
      /\ apc' = "idle"
      /\ hand' = 0
      /\ UNCHANGED <<mode, maximumRedeliveries, queue, inflight, known, brokerTx,
           brokerOpen, attempts, consumed, dlq, connected, down, reply, audit, unconsumed,
           running, startTask, delivered, previously, redelivery, stamp, clearRequired,
           clearDelivered, dpc, dhand, dstamp, done, doubt, caught, acked>>
  BY DEF ReceiveTransacted, ReceiveReturns, cvars, bvars, nvars, kvars, lvars, rvars,
     fvars, tvars, dvars, hvars
<1>8. TypeOK'
  <2>1. SetTypes'
    BY <1>1, <1>3, <1>7 DEF TypeOK, SetTypes
  <2>2. ListTypes'
    BY <1>1, <1>3, <1>7 DEF TypeOK, ListTypes
  <2>3. FlagTypes'
    BY <1>1, <1>3, <1>7 DEF TypeOK, FlagTypes
  <2>4. CounterTypes'
    BY <1>1, <1>3, <1>7 DEF TypeOK, CounterTypes
  <2>5. StateTypes'
    BY <1>1, <1>3, <1>7 DEF TypeOK, StateTypes
  <2>6. ThreadTypes'
    BY <1>1, <1>3, <1>7, MessageFacts DEF TypeOK, ThreadTypes
  <2> QED BY <2>1, <2>2, <2>3, <2>4, <2>5, <2>6, TypePartsNext
<1>9. Hands'
  BY <1>7 DEF Hands, ReceiveTransacted, ReceiveReturns
<1> QED BY <1>8, <1>9

\* receive() returns in a session that acknowledges by itself.
LEMMA ReceiveAutoTyped == ASSUME Typed, ReceiveAuto PROVE Typed'
<1> USE DEF Typed
<1>1. hand \in Messages
  BY MessageFacts DEF ReceiveAuto, TypeOK, Hands
<1>2. up' \in Seq(Commands) /\ delivered' = <<>>
  <2>1. CASE delivered # <<>>
    <3>1. Head(delivered) \in Messages /\ Last(delivered) \in Messages
      BY <2>1 DEF TypeOK, Last
    <3>2. "CONSUMED" \in CommandTypes
      BY DEF CommandTypes
    <3> QED BY <2>1, <3>1, <3>2, SendAckType DEF ReceiveAuto
  <2>2. CASE delivered = <<>>
    BY <2>2 DEF ReceiveAuto, TypeOK
  <2> QED BY <2>1, <2>2
<1>3. delivered' \in Seq(Messages)
  BY <1>2
<1>7. /\ done' = done \cup {hand}
      /\ apc' = "idle"
      /\ hand' = 0
      /\ UNCHANGED <<mode, maximumRedeliveries, queue, inflight, known, brokerTx,
           brokerOpen, attempts, consumed, dlq, connected, down, reply, tracked, audit,
           unconsumed, running, startTask, pendingAck, deliveredCounter, previously,
           redelivery, stamp, clearRequired, clearDelivered, inTransaction, sync, dpc,
           dhand, dstamp, held, doubt, returned, caught, acked>>
  BY DEF ReceiveAuto, ReceiveReturns, cvars, bvars, nvars, kvars, lvars, rvars, fvars,
     tvars, dvars, hvars
<1>8. TypeOK'
  <2>1. SetTypes'
    BY <1>1, <1>2, <1>3, <1>7 DEF TypeOK, SetTypes
  <2>2. ListTypes'
    BY <1>1, <1>2, <1>3, <1>7 DEF TypeOK, ListTypes
  <2>3. FlagTypes'
    BY <1>1, <1>2, <1>3, <1>7 DEF TypeOK, FlagTypes
  <2>4. CounterTypes'
    BY <1>1, <1>2, <1>3, <1>7 DEF TypeOK, CounterTypes
  <2>5. StateTypes'
    BY <1>1, <1>2, <1>3, <1>7 DEF TypeOK, StateTypes
  <2>6. ThreadTypes'
    BY <1>1, <1>2, <1>3, <1>7, MessageFacts DEF TypeOK, ThreadTypes
  <2> QED BY <2>1, <2>2, <2>3, <2>4, <2>5, <2>6, TypePartsNext
<1>9. Hands'
  BY <1>7 DEF Hands, ReceiveAuto, ReceiveReturns
<1> QED BY <1>8, <1>9

\* receive() returns where the application acknowledges.
LEMMA ReceiveManualTyped == ASSUME Typed, ReceiveManual PROVE Typed'
<1> USE DEF Typed
<1>1. hand \in Messages
  BY MessageFacts DEF ReceiveManual, TypeOK, Hands
<1>2. <<>> \in Seq(Commands)
  OBVIOUS
<1>3. /\ up' \in Seq(Commands) /\ pendingAck' \in Commands \cup {None}
      /\ deliveredCounter' \in Int /\ 2 * deliveredCounter' < Prefetch
  <2>1. CASE hand \in ToSet(delivered)
    BY <1>1, <1>2, <2>1, AckLaterType DEF ReceiveManual
  <2>2. CASE hand \notin ToSet(delivered)
    BY <2>2 DEF ReceiveManual, TypeOK
  <2> QED BY <2>1, <2>2
<1>7. /\ held' = held \cup {hand}
      /\ apc' = "idle"
      /\ hand' = 0
      /\ UNCHANGED <<mode, maximumRedeliveries, queue, inflight, known, brokerTx,
           brokerOpen, attempts, consumed, dlq, connected, down, reply, tracked, audit,
           unconsumed, running, startTask, delivered, previously, redelivery, stamp,
           clearRequired, clearDelivered, inTransaction, sync, dpc, dhand, dstamp, done,
           doubt, returned, caught, acked>>
  BY DEF ReceiveManual, ReceiveReturns, cvars, bvars, nvars, kvars, lvars, rvars, fvars,
     tvars, dvars, hvars
<1>8. TypeOK'
  <2>1. SetTypes'
    BY <1>1, <1>3, <1>7 DEF TypeOK, SetTypes
  <2>2. ListTypes'
    BY <1>1, <1>3, <1>7 DEF TypeOK, ListTypes
  <2>3. FlagTypes'
    BY <1>1, <1>3, <1>7 DEF TypeOK, FlagTypes
  <2>4. CounterTypes'
    BY <1>1, <1>3, <1>7 DEF TypeOK, CounterTypes
  <2>5. StateTypes'
    BY <1>1, <1>3, <1>7 DEF TypeOK, StateTypes
  <2>6. ThreadTypes'
    BY <1>1, <1>3, <1>7, MessageFacts DEF TypeOK, ThreadTypes
  <2> QED BY <2>1, <2>2, <2>3, <2>4, <2>5, <2>6, TypePartsNext
<1>9. Hands'
  BY <1>7 DEF Hands, ReceiveManual, ReceiveReturns
<1> QED BY <1>8, <1>9

\* acknowledge() of one message.
LEMMA AcknowledgeOneTyped == ASSUME Typed, NEW m \in Messages, AcknowledgeOne(m) PROVE Typed'
<1> USE DEF Typed
<1>1. up' \in Seq(Commands)
  BY SendAckType DEF AcknowledgeOne, CommandTypes
<1>7. /\ held' = held \ {m}
      /\ done' = done \cup {m}
      /\ apc' = "remove" /\ acked' = m
      /\ UNCHANGED <<mode, maximumRedeliveries, queue, inflight, known, brokerTx,
           brokerOpen, attempts, consumed, dlq, connected, down, reply, tracked, audit,
           unconsumed, running, startTask, delivered, pendingAck, deliveredCounter,
           previously, redelivery, stamp, clearRequired, clearDelivered, inTransaction,
           sync, hand, dpc, dhand, dstamp, doubt, returned, caught>>
  BY DEF AcknowledgeOne, cvars, bvars, nvars, kvars, lvars, rvars, fvars, tvars, dvars,
     hvars
<1>8. TypeOK'
  <2>1. SetTypes'
    BY <1>1, <1>7 DEF TypeOK, SetTypes
  <2>2. ListTypes'
    BY <1>1, <1>7 DEF TypeOK, ListTypes
  <2>3. FlagTypes'
    BY <1>1, <1>7 DEF TypeOK, FlagTypes
  <2>4. CounterTypes'
    BY <1>1, <1>7 DEF TypeOK, CounterTypes
  <2>5. StateTypes'
    BY <1>1, <1>7 DEF TypeOK, StateTypes
  <2>6. ThreadTypes'
    BY <1>1, <1>7, MessageFacts DEF TypeOK, ThreadTypes
  <2> QED BY <2>1, <2>2, <2>3, <2>4, <2>5, <2>6, TypePartsNext
<1>9. Hands'
  BY <1>7 DEF Hands, AcknowledgeOne
<1> QED BY <1>8, <1>9

\* The acknowledged message leaves the list.
LEMMA RemoveAcknowledgedTyped == ASSUME Typed, RemoveAcknowledged PROVE Typed'
<1> USE DEF Typed
<1>1. delivered' \in Seq(Messages)
  <2> DEFINE I == {i \in 1..Len(delivered) : delivered[i] # acked}
  <2>1. delivered \in Seq(Messages) /\ I \subseteq 1..Len(delivered)
    BY DEF TypeOK
  <2>2. delivered' = KeepAt(delivered, I)
    BY DEF RemoveAcknowledged
  <2> HIDE DEF I
  <2> QED BY <2>1, <2>2, Keeps
<1>7. /\ apc' = "idle" /\ acked' = 0
      /\ UNCHANGED <<mode, maximumRedeliveries, queue, inflight, known, brokerTx,
           brokerOpen, attempts, consumed, dlq, connected, up, down, reply, tracked,
           audit, unconsumed, running, startTask, pendingAck, deliveredCounter,
           previously, redelivery, stamp, clearRequired, clearDelivered, inTransaction,
           sync, hand, dpc, dhand, dstamp, held, done, doubt, returned, caught>>
  BY DEF RemoveAcknowledged, cvars, bvars, nvars, kvars, lvars, rvars, fvars, tvars,
     dvars, hvars
<1>8. TypeOK'
  <2>1. SetTypes'
    BY <1>1, <1>7 DEF TypeOK, SetTypes
  <2>2. ListTypes'
    BY <1>1, <1>7 DEF TypeOK, ListTypes
  <2>3. FlagTypes'
    BY <1>1, <1>7 DEF TypeOK, FlagTypes
  <2>4. CounterTypes'
    BY <1>1, <1>7 DEF TypeOK, CounterTypes
  <2>5. StateTypes'
    BY <1>1, <1>7 DEF TypeOK, StateTypes
  <2>6. ThreadTypes'
    BY <1>1, <1>7, MessageFacts DEF TypeOK, ThreadTypes
  <2> QED BY <2>1, <2>2, <2>3, <2>4, <2>5, <2>6, TypePartsNext
<1>9. Hands'
  BY <1>7 DEF Hands, RemoveAcknowledged
<1> QED BY <1>8, <1>9

\* dequeue() has found nothing.
LEMMA ReceiveNothingTyped == ASSUME Typed, ReceiveNothing PROVE Typed'
<1> USE DEF Typed
<1>7. /\ apc' = "idle"
      /\ UNCHANGED <<mode, maximumRedeliveries, queue, inflight, known, brokerTx,
           brokerOpen, attempts, consumed, dlq, connected, up, down, reply, tracked,
           audit, unconsumed, running, startTask, delivered, pendingAck,
           deliveredCounter, previously, redelivery, stamp, clearRequired,
           clearDelivered, inTransaction, sync, hand, acked, dpc, dhand, dstamp, held,
           done, doubt, returned, caught>>
  BY DEF ReceiveNothing, cvars, bvars, nvars, kvars, lvars, rvars, fvars, tvars, dvars,
     hvars
<1>8. TypeOK'
  <2>1. SetTypes'
    BY <1>7 DEF TypeOK, SetTypes
  <2>2. ListTypes'
    BY <1>7 DEF TypeOK, ListTypes
  <2>3. FlagTypes'
    BY <1>7 DEF TypeOK, FlagTypes
  <2>4. CounterTypes'
    BY <1>7 DEF TypeOK, CounterTypes
  <2>5. StateTypes'
    BY <1>7 DEF TypeOK, StateTypes
  <2>6. ThreadTypes'
    BY <1>7, MessageFacts DEF TypeOK, ThreadTypes
  <2> QED BY <2>1, <2>2, <2>3, <2>4, <2>5, <2>6, TypePartsNext
<1>9. Hands'
  BY <1>7 DEF Hands, ReceiveNothing
<1> QED BY <1>8, <1>9

\* The calls of the application that begin with clearDeliveredList().
Enters ==
    \/ SendPullRequest \/ Acknowledge \/ Commit \/ CommitAgain
    \/ Rollback \/ CommitFails \/ Recover

\* Where such a call starts, and where it leads.
LEMMA EnterFacts ==
  ASSUME Enters
  PROVE  /\ Enter(apc') /\ UNCHANGED hvars
         /\ apc \in {"idle", "refused", "commitFails"}
         /\ apc' \in {"dequeue", "acknowledge", "commit", "rollback", "rollbackConsumer"}
<1> USE DEF Enter
<1>1. CASE SendPullRequest
  BY <1>1 DEF SendPullRequest
<1>2. CASE Acknowledge
  BY <1>2 DEF Acknowledge
<1>3. CASE Commit \/ CommitAgain
  BY <1>3 DEF Commit, CommitAgain
<1>4. CASE Rollback \/ CommitFails
  BY <1>4 DEF Rollback, CommitFails
<1>5. CASE Recover
  BY <1>5 DEF Recover
<1> QED BY <1>1, <1>2, <1>3, <1>4, <1>5 DEF Enters

\* receive(), acknowledge(), commit(), rollback() and recover() begin.
LEMMA EnterTyped == ASSUME Typed, Enters PROVE Typed'
<1> USE DEF Typed
<1>1. /\ clearDelivered' = FALSE /\ delivered' \in Seq(Messages)
      /\ pendingAck' \in Commands \cup {None}
      /\ previously' \in [Messages -> {"no", "pending", "back"}]
  BY EnterFacts, ClearedList DEF Enter
<1>2. audit' \subseteq Messages
  BY EnterFacts DEF Enter, TypeOK
<1>3. /\ apc \in {"idle", "refused", "commitFails"}
      /\ apc' \in {"dequeue", "acknowledge", "commit", "rollback", "rollbackConsumer"}
  BY EnterFacts
<1>7. UNCHANGED <<mode, maximumRedeliveries, queue, inflight, known, brokerTx,
           brokerOpen, attempts, consumed, dlq, connected, up, down, reply, tracked,
           unconsumed, running, startTask, deliveredCounter, redelivery, stamp,
           clearRequired, inTransaction, sync, hand, acked, dpc, dhand, dstamp, held,
           done, doubt, returned, caught>>
  BY EnterFacts DEF Enter, cvars, bvars, nvars, kvars, rvars, dvars, hvars
<1>8. TypeOK'
  <2>1. SetTypes'
    BY <1>1, <1>2, <1>3, <1>7 DEF TypeOK, SetTypes
  <2>2. ListTypes'
    BY <1>1, <1>2, <1>3, <1>7 DEF TypeOK, ListTypes
  <2>3. FlagTypes'
    BY <1>1, <1>2, <1>3, <1>7 DEF TypeOK, FlagTypes
  <2>4. CounterTypes'
    BY <1>1, <1>2, <1>3, <1>7 DEF TypeOK, CounterTypes
  <2>5. StateTypes'
    BY <1>1, <1>2, <1>3, <1>7 DEF TypeOK, StateTypes
  <2>6. ThreadTypes'
    BY <1>1, <1>2, <1>3, <1>7, MessageFacts DEF TypeOK, ThreadTypes
  <2> QED BY <2>1, <2>2, <2>3, <2>4, <2>5, <2>6, TypePartsNext
<1>9. Hands'
  BY <1>3, <1>7 DEF Hands
<1> QED BY <1>8, <1>9

\* acknowledge() of all that is delivered.
LEMMA AcknowledgeSectionTyped == ASSUME Typed, AcknowledgeSection PROVE Typed'
<1> USE DEF Typed
<1>1. /\ up' \in Seq(Commands) /\ pendingAck' \in Commands \cup {None}
      /\ deliveredCounter' \in Int /\ 2 * deliveredCounter' < Prefetch
  <2>1. CASE delivered # <<>>
    <3>1. <<>> \in Seq(Commands) /\ AckAllDelivered(<<>>)
      BY <2>1 DEF AcknowledgeSection
    <3> QED BY <2>1, <3>1, AckAllType
  <2>2. CASE delivered = <<>>
    BY <2>2 DEF AcknowledgeSection, TypeOK
  <2> QED BY <2>1, <2>2
<1>2. delivered' \in Seq(Messages)
  <2>1. delivered' = <<>>
    BY DEF AcknowledgeSection
  <2> QED BY <2>1
<1>7. /\ apc' = "idle"
      /\ done' = done \cup held
      /\ held' = {}
      /\ UNCHANGED <<mode, maximumRedeliveries, queue, inflight, known, brokerTx,
           brokerOpen, attempts, consumed, dlq, connected, down, reply, tracked, audit,
           unconsumed, running, startTask, previously, redelivery, stamp, clearRequired,
           clearDelivered, inTransaction, sync, hand, acked, dpc, dhand, dstamp, doubt,
           returned, caught>>
  BY DEF AcknowledgeSection, cvars, bvars, nvars, kvars, lvars, rvars, fvars, tvars,
     dvars, hvars
<1>8. TypeOK'
  <2>1. SetTypes'
    BY <1>1, <1>2, <1>7 DEF TypeOK, SetTypes
  <2>2. ListTypes'
    BY <1>1, <1>2, <1>7 DEF TypeOK, ListTypes
  <2>3. FlagTypes'
    BY <1>1, <1>2, <1>7 DEF TypeOK, FlagTypes
  <2>4. CounterTypes'
    BY <1>1, <1>2, <1>7 DEF TypeOK, CounterTypes
  <2>5. StateTypes'
    BY <1>1, <1>2, <1>7 DEF TypeOK, StateTypes
  <2>6. ThreadTypes'
    BY <1>1, <1>2, <1>7, MessageFacts DEF TypeOK, ThreadTypes
  <2> QED BY <2>1, <2>2, <2>3, <2>4, <2>5, <2>6, TypePartsNext
<1>9. Hands'
  BY <1>7 DEF Hands, AcknowledgeSection
<1> QED BY <1>8, <1>9

\* The consumer's part of commit() and rollback().
LEMMA BeforeEndTyped == ASSUME Typed, BeforeEnd PROVE Typed'
<1> USE DEF Typed
<1>1. /\ up' \in Seq(Commands) /\ pendingAck' \in Commands \cup {None}
      /\ deliveredCounter' \in Int /\ 2 * deliveredCounter' < Prefetch
  <2>1. CASE Acknowledges
    <3>1. AckAllDelivered(Begin) /\ delivered # <<>>
      BY <2>1 DEF BeforeEnd, Acknowledges
    <3> QED BY <3>1, BeginType, AckAllType
  <2>2. CASE ~Acknowledges
    BY <2>2 DEF BeforeEnd, TypeOK
  <2> QED BY <2>1, <2>2
<1>2. apc' \in {"idle", "sendCommit", "sendRollback", "commitFails"}
  BY DEF BeforeEnd
<1>3. /\ inTransaction' \in BOOLEAN /\ sync' \in BOOLEAN
      /\ tracked' \in {"none", "BEGIN", "COMMIT", "ROLLBACK"}
  BY DEF BeforeEnd, TypeOK
<1>7. UNCHANGED <<mode, maximumRedeliveries, queue, inflight, known, brokerTx, brokerOpen,
           attempts, consumed, dlq, connected, down, reply, audit, unconsumed,
           running, startTask, delivered, previously, redelivery, stamp, clearRequired,
           clearDelivered, hand, acked, dpc, dhand, dstamp, held, done,
           doubt, returned, caught>>
  BY DEF BeforeEnd, cvars, bvars, nvars, kvars, lvars, rvars, fvars, tvars, dvars, hvars
<1>8. TypeOK'
  <2>1. SetTypes'
    BY <1>1, <1>2, <1>3, <1>7 DEF TypeOK, SetTypes
  <2>2. ListTypes'
    BY <1>1, <1>2, <1>3, <1>7 DEF TypeOK, ListTypes
  <2>3. FlagTypes'
    BY <1>1, <1>2, <1>3, <1>7 DEF TypeOK, FlagTypes
  <2>4. CounterTypes'
    BY <1>1, <1>2, <1>3, <1>7 DEF TypeOK, CounterTypes
  <2>5. StateTypes'
    BY <1>1, <1>2, <1>3, <1>7 DEF TypeOK, StateTypes
  <2>6. ThreadTypes'
    BY <1>1, <1>2, <1>3, <1>7, MessageFacts DEF TypeOK, ThreadTypes
  <2> QED BY <2>1, <2>2, <2>3, <2>4, <2>5, <2>6, TypePartsNext
<1>9. Hands'
  BY <1>7, <1>2 DEF Hands, BeforeEnd
<1> QED BY <1>8, <1>9

\* The COMMIT is sent.
LEMMA SendCommitTyped == ASSUME Typed, SendCommit PROVE Typed'
<1> USE DEF Typed
<1>1. up' \in Seq(Commands)
  <2>1. TxCommand("COMMIT") \in Commands
    BY TxIsCommand DEF CommandTypes
  <2> QED BY <2>1 DEF SendCommit, SendEnd, TypeOK
<1>7. /\ apc' = "awaitCommit"
      /\ tracked' = "COMMIT"
      /\ inTransaction' = FALSE
      /\ UNCHANGED <<mode, maximumRedeliveries, queue, inflight, known, brokerTx,
           brokerOpen, attempts, consumed, dlq, connected, down, reply, audit, unconsumed,
           running, startTask, delivered, pendingAck, deliveredCounter, previously,
           redelivery, stamp, clearRequired, clearDelivered, hand, acked, dpc, dhand,
           dstamp, held, done, doubt, returned, caught, sync>>
  BY DEF SendCommit, SendEnd, cvars, bvars, nvars, kvars, lvars, rvars, fvars, tvars,
     dvars, hvars
<1>8. TypeOK'
  <2>1. SetTypes'
    BY <1>1, <1>7 DEF TypeOK, SetTypes
  <2>2. ListTypes'
    BY <1>1, <1>7 DEF TypeOK, ListTypes
  <2>3. FlagTypes'
    BY <1>1, <1>7 DEF TypeOK, FlagTypes
  <2>4. CounterTypes'
    BY <1>1, <1>7 DEF TypeOK, CounterTypes
  <2>5. StateTypes'
    BY <1>1, <1>7 DEF TypeOK, StateTypes
  <2>6. ThreadTypes'
    BY <1>1, <1>7, MessageFacts DEF TypeOK, ThreadTypes
  <2> QED BY <2>1, <2>2, <2>3, <2>4, <2>5, <2>6, TypePartsNext
<1>9. Hands'
  BY <1>7 DEF Hands, SendCommit, SendEnd
<1> QED BY <1>8, <1>9

\* The ROLLBACK is sent.
LEMMA SendRollbackTyped == ASSUME Typed, SendRollback PROVE Typed'
<1> USE DEF Typed
<1>1. up' \in Seq(Commands)
  <2>1. TxCommand("ROLLBACK") \in Commands
    BY TxIsCommand DEF CommandTypes
  <2> QED BY <2>1 DEF SendRollback, SendEnd, TypeOK
<1>7. /\ apc' = "awaitRollback"
      /\ tracked' = "ROLLBACK"
      /\ inTransaction' = FALSE
      /\ UNCHANGED <<mode, maximumRedeliveries, queue, inflight, known, brokerTx,
           brokerOpen, attempts, consumed, dlq, connected, down, reply, audit, unconsumed,
           running, startTask, delivered, pendingAck, deliveredCounter, previously,
           redelivery, stamp, clearRequired, clearDelivered, hand, acked, dpc, dhand,
           dstamp, held, done, doubt, returned, caught, sync>>
  BY DEF SendRollback, SendEnd, cvars, bvars, nvars, kvars, lvars, rvars, fvars, tvars,
     dvars, hvars
<1>8. TypeOK'
  <2>1. SetTypes'
    BY <1>1, <1>7 DEF TypeOK, SetTypes
  <2>2. ListTypes'
    BY <1>1, <1>7 DEF TypeOK, ListTypes
  <2>3. FlagTypes'
    BY <1>1, <1>7 DEF TypeOK, FlagTypes
  <2>4. CounterTypes'
    BY <1>1, <1>7 DEF TypeOK, CounterTypes
  <2>5. StateTypes'
    BY <1>1, <1>7 DEF TypeOK, StateTypes
  <2>6. ThreadTypes'
    BY <1>1, <1>7, MessageFacts DEF TypeOK, ThreadTypes
  <2> QED BY <2>1, <2>2, <2>3, <2>4, <2>5, <2>6, TypePartsNext
<1>9. Hands'
  BY <1>7 DEF Hands, SendRollback, SendEnd
<1> QED BY <1>8, <1>9

\* commit() returns.
LEMMA AfterCommitTyped == ASSUME Typed, AfterCommit PROVE Typed'
<1> USE DEF Typed
<1>1. delivered' \in Seq(Messages) /\ previously' \in [Messages -> {"no", "pending", "back"}]
  <2>1. CASE sync
    BY <2>1 DEF AfterCommit
  <2>2. CASE ~sync
    BY <2>2 DEF AfterCommit, TypeOK
  <2> QED BY <2>1, <2>2
<1>2. caught' \subseteq Messages
  BY DEF AfterCommit, TypeOK
<1>7. /\ apc' = "idle"
      /\ reply' = "none"
      /\ tracked' = "none" /\ sync' = FALSE
      /\ done' = done \cup held
      /\ held' = {}
      /\ UNCHANGED <<mode, maximumRedeliveries, queue, inflight, known, brokerTx,
           brokerOpen, attempts, consumed, dlq, connected, up, down, audit, unconsumed,
           running, startTask, pendingAck, deliveredCounter, redelivery, stamp,
           clearRequired, clearDelivered, inTransaction, hand, acked, dpc, dhand, dstamp,
           doubt, returned>>
  BY DEF AfterCommit, cvars, bvars, nvars, kvars, lvars, rvars, fvars, tvars, dvars, hvars
<1>8. TypeOK'
  <2>1. SetTypes'
    BY <1>1, <1>2, <1>7 DEF TypeOK, SetTypes
  <2>2. ListTypes'
    BY <1>1, <1>2, <1>7 DEF TypeOK, ListTypes
  <2>3. FlagTypes'
    BY <1>1, <1>2, <1>7 DEF TypeOK, FlagTypes
  <2>4. CounterTypes'
    BY <1>1, <1>2, <1>7 DEF TypeOK, CounterTypes
  <2>5. StateTypes'
    BY <1>1, <1>2, <1>7 DEF TypeOK, StateTypes
  <2>6. ThreadTypes'
    BY <1>1, <1>2, <1>7, MessageFacts DEF TypeOK, ThreadTypes
  <2> QED BY <2>1, <2>2, <2>3, <2>4, <2>5, <2>6, TypePartsNext
<1>9. Hands'
  BY <1>7 DEF Hands, AfterCommit
<1> QED BY <1>8, <1>9

\* commit() throws.
LEMMA CommitInDoubtTyped == ASSUME Typed, CommitInDoubt PROVE Typed'
<1> USE DEF Typed
<1>7. /\ apc' = "idle" /\ reply' = "none" /\ tracked' = "none"
      /\ doubt' = doubt \cup (held \cap consumed) /\ returned' = returned \cup held
      /\ UNCHANGED <<mode, maximumRedeliveries, queue, inflight, known, brokerTx,
           brokerOpen, attempts, consumed, dlq, connected, up, down, audit, unconsumed,
           running, startTask, delivered, pendingAck, deliveredCounter, previously,
           redelivery, stamp, clearRequired, clearDelivered, inTransaction, sync, hand,
           acked, dpc, dhand, dstamp, held, done, caught>>
  BY DEF CommitInDoubt, cvars, bvars, nvars, kvars, lvars, rvars, fvars, tvars, dvars,
     hvars
<1>8. TypeOK'
  <2>1. SetTypes'
    BY <1>7 DEF TypeOK, SetTypes
  <2>2. ListTypes'
    BY <1>7 DEF TypeOK, ListTypes
  <2>3. FlagTypes'
    BY <1>7 DEF TypeOK, FlagTypes
  <2>4. CounterTypes'
    BY <1>7 DEF TypeOK, CounterTypes
  <2>5. StateTypes'
    BY <1>7 DEF TypeOK, StateTypes
  <2>6. ThreadTypes'
    BY <1>7, MessageFacts DEF TypeOK, ThreadTypes
  <2> QED BY <2>1, <2>2, <2>3, <2>4, <2>5, <2>6, TypePartsNext
<1>9. Hands'
  BY <1>7 DEF Hands, CommitInDoubt
<1> QED BY <1>8, <1>9

\* The transaction is rolled back.
LEMMA AfterRollbackTyped == ASSUME Typed, AfterRollback PROVE Typed'
<1> USE DEF Typed
<1>1. /\ clearDelivered' \in BOOLEAN /\ delivered' \in Seq(Messages)
      /\ pendingAck' \in Commands \cup {None}
      /\ previously' \in [Messages -> {"no", "pending", "back"}]
      /\ apc' \in {"idle", "rollbackConsumer"}
  <2>1. CASE sync
    <3>1. ClearDeliveredList /\ apc' = "rollbackConsumer"
      BY <2>1 DEF AfterRollback
    <3> QED BY <3>1, ClearedList
  <2>2. CASE ~sync
    BY <2>2 DEF AfterRollback, TypeOK
  <2> QED BY <2>1, <2>2
<1>7. /\ reply' = "none"
      /\ tracked' = "none"
      /\ UNCHANGED <<mode, maximumRedeliveries, queue, inflight, known, brokerTx,
           brokerOpen, attempts, consumed, dlq, connected, up, down, audit, unconsumed,
           running, startTask, deliveredCounter, redelivery, stamp, clearRequired,
           inTransaction, sync, hand, acked, dpc, dhand, dstamp, held, done, doubt,
           returned, caught>>
  BY DEF AfterRollback, cvars, bvars, nvars, kvars, lvars, rvars, fvars, tvars, dvars,
     hvars
<1>8. TypeOK'
  <2>1. SetTypes'
    BY <1>1, <1>7 DEF TypeOK, SetTypes
  <2>2. ListTypes'
    BY <1>1, <1>7 DEF TypeOK, ListTypes
  <2>3. FlagTypes'
    BY <1>1, <1>7 DEF TypeOK, FlagTypes
  <2>4. CounterTypes'
    BY <1>1, <1>7 DEF TypeOK, CounterTypes
  <2>5. StateTypes'
    BY <1>1, <1>7 DEF TypeOK, StateTypes
  <2>6. ThreadTypes'
    BY <1>1, <1>7, MessageFacts DEF TypeOK, ThreadTypes
  <2> QED BY <2>1, <2>2, <2>3, <2>4, <2>5, <2>6, TypePartsNext
<1>9. Hands'
  BY <1>1, <1>7 DEF Hands, AfterRollback
<1> QED BY <1>8, <1>9

\* The broker takes a command.
LEMMA BrokerProcessTyped == ASSUME Typed, BrokerProcess PROVE Typed'
<1> USE DEF Typed
<1> DEFINE c == Head(up)
           ms == AckRange(c)
<1>1. c \in Commands /\ up' \in Seq(Commands)
  BY HeadAndTail DEF BrokerProcess, TypeOK
<1>2. ms \subseteq Messages /\ UpTo(c.last) \subseteq Messages
  <2>1. ms \subseteq Messages
    BY AckRangeType
  <2>2. UpTo(c.last) \subseteq Messages
    <3>1. \A i \in 1..Len(inflight) : inflight[i] \in Messages
      BY DEF TypeOK
    <3> QED BY <3>1 DEF UpTo
  <2> QED BY <2>1, <2>2
<1>3. /\ known' \subseteq Messages /\ brokerTx' \subseteq Messages
      /\ consumed' \subseteq Messages /\ dlq' \subseteq Messages
      /\ inflight' \in Seq(Messages) /\ brokerOpen' \in BOOLEAN
      /\ attempts' \in [Messages -> Nat] /\ reply' \in {"none", "ok", "failed"}
  <2>1. CASE c.type = "DELIVERED"
    <3>1. /\ known' = known \cup UpTo(c.last)
          /\ UNCHANGED <<inflight, brokerTx, brokerOpen, attempts, consumed, dlq, reply>>
      BY <2>1, Zenon DEF BrokerProcess
    <3> HIDE DEF c, ms
    <3> QED BY <1>2, <3>1 DEF TypeOK
  <2>2. CASE c.type = "REDELIVERED"
    <3>1. /\ attempts' = [m \in Messages |-> attempts[m] + IF m \in ms THEN 1 ELSE 0]
          /\ UNCHANGED <<inflight, known, brokerTx, brokerOpen, consumed, dlq, reply>>
      BY <2>2, Zenon DEF BrokerProcess
    <3> HIDE DEF c, ms
    <3> QED BY <1>2, <3>1 DEF TypeOK
  <2>3. CASE c.type = "CONSUMED" /\ Transacted
    <3>1. /\ brokerTx' = IF brokerOpen THEN brokerTx \cup ms ELSE brokerTx
          /\ UNCHANGED <<inflight, known, brokerOpen, attempts, consumed, dlq, reply>>
      BY <2>3, Zenon DEF BrokerProcess
    <3> HIDE DEF c, ms
    <3> QED BY <1>2, <3>1 DEF TypeOK
  <2>4. CASE c.type = "INDIVIDUAL" \/ (c.type = "CONSUMED" /\ ~Transacted)
    <3>1. /\ consumed' = consumed \cup ms
          /\ Discard(ms)
          /\ UNCHANGED <<known, brokerTx, brokerOpen, attempts, dlq, reply>>
      BY <2>4, Zenon DEF BrokerProcess
    <3> HIDE DEF c, ms
    <3>2. inflight' \in Seq(Messages)
      BY <3>1, DiscardType
    <3> QED BY <1>2, <3>1, <3>2 DEF TypeOK
  <2>5. CASE c.type = "POISON"
    <3>1. /\ dlq' = dlq \cup ms
          /\ Discard(ms)
          /\ UNCHANGED <<known, brokerTx, brokerOpen, attempts, consumed, reply>>
      BY <2>5, Zenon DEF BrokerProcess
    <3> HIDE DEF c, ms
    <3>2. inflight' \in Seq(Messages)
      BY <3>1, DiscardType
    <3> QED BY <1>2, <3>1, <3>2 DEF TypeOK
  <2>6. CASE c.type = "BEGIN"
    <3>1. /\ brokerOpen' = TRUE /\ brokerTx' = {}
          /\ UNCHANGED <<inflight, known, attempts, consumed, dlq, reply>>
      BY <2>6, Zenon DEF BrokerProcess
    <3> HIDE DEF c, ms
    <3> QED BY <1>2, <3>1 DEF TypeOK
  <2>7. CASE c.type = "COMMIT"
    <3>1. /\ consumed' = consumed \cup brokerTx
          /\ Discard(brokerTx)
          /\ reply' = "ok" /\ brokerTx' = {} /\ brokerOpen' = FALSE
          /\ UNCHANGED <<known, attempts, dlq>>
      BY <2>7, Zenon DEF BrokerProcess
    <3> HIDE DEF c, ms
    <3>2. inflight' \in Seq(Messages)
      BY <3>1, DiscardType
    <3> QED BY <1>2, <3>1, <3>2 DEF TypeOK
  <2>8. CASE c.type = "ROLLBACK"
    <3>1. /\ reply' = "ok" /\ brokerTx' = {} /\ brokerOpen' = FALSE
          /\ UNCHANGED <<inflight, known, attempts, consumed, dlq>>
      BY <2>8, Zenon DEF BrokerProcess
    <3> HIDE DEF c, ms
    <3> QED BY <1>2, <3>1 DEF TypeOK
  <2>9. c.type \in CommandTypes
    BY <1>1 DEF Commands, CommandTypes
  <2> QED BY <2>1, <2>2, <2>3, <2>4, <2>5, <2>6, <2>7, <2>8, <2>9 DEF CommandTypes
<1> HIDE DEF c, ms
<1>7. UNCHANGED <<mode, maximumRedeliveries, queue, connected, down, tracked, audit,
           unconsumed, running, startTask, delivered, pendingAck, deliveredCounter,
           previously, redelivery, stamp, clearRequired, clearDelivered, inTransaction,
           sync, apc, hand, acked, dpc, dhand, dstamp, held, done, doubt, returned,
           caught>>
  BY DEF BrokerProcess, cvars, bvars, nvars, kvars, lvars, rvars, fvars, tvars, dvars,
     hvars
<1>8. TypeOK'
  <2>1. SetTypes'
    BY <1>1, <1>3, <1>7 DEF TypeOK, SetTypes
  <2>2. ListTypes'
    BY <1>1, <1>3, <1>7 DEF TypeOK, ListTypes
  <2>3. FlagTypes'
    BY <1>1, <1>3, <1>7 DEF TypeOK, FlagTypes
  <2>4. CounterTypes'
    BY <1>1, <1>3, <1>7 DEF TypeOK, CounterTypes
  <2>5. StateTypes'
    BY <1>1, <1>3, <1>7 DEF TypeOK, StateTypes
  <2>6. ThreadTypes'
    BY <1>1, <1>3, <1>7, MessageFacts DEF TypeOK, ThreadTypes
  <2> QED BY <2>1, <2>2, <2>3, <2>4, <2>5, <2>6, TypePartsNext
<1>9. Hands'
  BY <1>7 DEF Hands, BrokerProcess
<1> QED BY <1>8, <1>9

\* The broker dispatches a message.
LEMMA BrokerDispatchTyped == ASSUME Typed, BrokerDispatch PROVE Typed'
<1> USE DEF Typed
<1>1. Min(queue) \in queue
  BY MinIn, MessageFacts DEF BrokerDispatch, TypeOK
<1>2. /\ queue' \subseteq Messages
      /\ inflight' \in Seq(Messages) /\ down' \in Seq(Messages)
  BY <1>1 DEF BrokerDispatch, TypeOK
<1>7. UNCHANGED <<mode, maximumRedeliveries, known, brokerTx, brokerOpen, attempts,
           consumed, dlq, connected, up, reply, tracked, audit, unconsumed, running,
           startTask, delivered, pendingAck, deliveredCounter, previously, redelivery,
           stamp, clearRequired, clearDelivered, inTransaction, sync, apc, hand, acked,
           dpc, dhand, dstamp, held, done, doubt, returned, caught>>
  BY DEF BrokerDispatch, cvars, bvars, nvars, kvars, lvars, rvars, fvars, tvars, dvars,
     hvars
<1>8. TypeOK'
  <2>1. SetTypes'
    BY <1>2, <1>7 DEF TypeOK, SetTypes
  <2>2. ListTypes'
    BY <1>2, <1>7 DEF TypeOK, ListTypes
  <2>3. FlagTypes'
    BY <1>2, <1>7 DEF TypeOK, FlagTypes
  <2>4. CounterTypes'
    BY <1>2, <1>7 DEF TypeOK, CounterTypes
  <2>5. StateTypes'
    BY <1>2, <1>7 DEF TypeOK, StateTypes
  <2>6. ThreadTypes'
    BY <1>2, <1>7, MessageFacts DEF TypeOK, ThreadTypes
  <2> QED BY <2>1, <2>2, <2>3, <2>4, <2>5, <2>6, TypePartsNext
<1>9. Hands'
  BY <1>7 DEF Hands, BrokerDispatch
<1> QED BY <1>8, <1>9

\* The connection is lost.
LEMMA TransportInterruptedTyped == ASSUME Typed, TransportInterrupted PROVE Typed'
<1> USE DEF Typed
<1>1. ToSet(inflight) \subseteq Messages
  BY InList DEF TypeOK
<1>2. queue' \subseteq Messages /\ caught' \subseteq Messages
  BY <1>1 DEF TransportInterrupted, TypeOK, Halfway
<1>3. attempts' \in [Messages -> Nat]
  BY DEF TransportInterrupted, TypeOK
<1>4. <<>> \in Seq(Messages) /\ <<>> \in Seq(Commands)
  OBVIOUS
<1>7. /\ connected' = FALSE
      /\ up' = <<>>
      /\ down' = <<>>
      /\ reply' = "none"
      /\ inflight' = <<>>
      /\ known' = {}
      /\ brokerTx' = {}
      /\ brokerOpen' = FALSE
      /\ clearRequired' = TRUE
      /\ clearDelivered' = TRUE
      /\ UNCHANGED <<mode, maximumRedeliveries, consumed, dlq, tracked, audit, unconsumed,
           running, startTask, delivered, pendingAck, deliveredCounter, previously,
           redelivery, stamp, inTransaction, sync, apc, hand, acked, dpc, dhand, dstamp,
           held, done, doubt, returned>>
  BY DEF TransportInterrupted, cvars, bvars, nvars, kvars, lvars, rvars, fvars, tvars,
     dvars, hvars
<1>8. TypeOK'
  <2>1. SetTypes'
    BY <1>2, <1>3, <1>4, <1>7 DEF TypeOK, SetTypes
  <2>2. ListTypes'
    BY <1>2, <1>3, <1>4, <1>7 DEF TypeOK, ListTypes
  <2>3. FlagTypes'
    BY <1>2, <1>3, <1>4, <1>7 DEF TypeOK, FlagTypes
  <2>4. CounterTypes'
    BY <1>2, <1>3, <1>4, <1>7 DEF TypeOK, CounterTypes
  <2>5. StateTypes'
    BY <1>2, <1>3, <1>4, <1>7 DEF TypeOK, StateTypes
  <2>6. ThreadTypes'
    BY <1>2, <1>3, <1>4, <1>7, MessageFacts DEF TypeOK, ThreadTypes
  <2> QED BY <2>1, <2>2, <2>3, <2>4, <2>5, <2>6, TypePartsNext
<1>9. Hands'
  BY <1>7 DEF Hands, TransportInterrupted
<1> QED BY <1>8, <1>9

\* The scheduled task clears the consumer.
LEMMA ClearConsumerTaskTyped == ASSUME Typed, ClearConsumerTask PROVE Typed'
<1> USE DEF Typed
<1>1. ClearMessagesInProgress
  BY DEF ClearConsumerTask
<1>2. /\ clearDelivered' = FALSE /\ delivered' \in Seq(Messages)
      /\ pendingAck' \in Commands \cup {None}
      /\ previously' \in [Messages -> {"no", "pending", "back"}]
  BY <1>1, ClearedList DEF ClearMessagesInProgress
<1>3. audit' \subseteq Messages /\ clearRequired' = FALSE
  BY <1>1 DEF ClearMessagesInProgress, TypeOK
<1>4. unconsumed' \in Seq(Messages)
  <2>1. unconsumed' = <<>> \/ unconsumed' = unconsumed
    BY <1>1 DEF ClearMessagesInProgress
  <2>2. <<>> \in Seq(Messages) /\ unconsumed \in Seq(Messages)
    BY DEF TypeOK
  <2> QED BY <2>1, <2>2
<1>7. UNCHANGED <<mode, maximumRedeliveries, queue, inflight, known, brokerTx, brokerOpen,
           attempts, consumed, dlq, connected, up, down, reply, tracked, running,
           startTask, deliveredCounter, redelivery, stamp, inTransaction, sync, apc, hand,
           acked, dpc, dhand, dstamp, held, done, doubt, returned, caught>>
  BY DEF ClearConsumerTask, cvars, bvars, nvars, kvars, lvars, rvars, fvars, tvars, dvars,
     hvars
<1>8. TypeOK'
  <2>1. SetTypes'
    BY <1>2, <1>3, <1>4, <1>7 DEF TypeOK, SetTypes
  <2>2. ListTypes'
    BY <1>2, <1>3, <1>4, <1>7 DEF TypeOK, ListTypes
  <2>3. FlagTypes'
    BY <1>2, <1>3, <1>4, <1>7 DEF TypeOK, FlagTypes
  <2>4. CounterTypes'
    BY <1>2, <1>3, <1>4, <1>7 DEF TypeOK, CounterTypes
  <2>5. StateTypes'
    BY <1>2, <1>3, <1>4, <1>7 DEF TypeOK, StateTypes
  <2>6. ThreadTypes'
    BY <1>2, <1>3, <1>4, <1>7, MessageFacts DEF TypeOK, ThreadTypes
  <2> QED BY <2>1, <2>2, <2>3, <2>4, <2>5, <2>6, TypePartsNext
<1>9. Hands'
  BY <1>7 DEF Hands, ClearConsumerTask
<1> QED BY <1>8, <1>9

\* dispatch() clears the consumer.
LEMMA DispatchClearTyped == ASSUME Typed, DispatchClear PROVE Typed'
<1> USE DEF Typed
<1>1. ClearMessagesInProgress
  BY DEF DispatchClear
<1>2. /\ clearDelivered' = FALSE /\ delivered' \in Seq(Messages)
      /\ pendingAck' \in Commands \cup {None}
      /\ previously' \in [Messages -> {"no", "pending", "back"}]
  BY <1>1, ClearedList DEF ClearMessagesInProgress
<1>3. audit' \subseteq Messages /\ clearRequired' = FALSE
  BY <1>1 DEF ClearMessagesInProgress, TypeOK
<1>4. unconsumed' \in Seq(Messages)
  <2>1. unconsumed' = <<>> \/ unconsumed' = unconsumed
    BY <1>1 DEF ClearMessagesInProgress
  <2>2. <<>> \in Seq(Messages) /\ unconsumed \in Seq(Messages)
    BY DEF TypeOK
  <2> QED BY <2>1, <2>2
<1>7. /\ dpc' = "enqueue"
      /\ UNCHANGED <<mode, maximumRedeliveries, queue, inflight, known, brokerTx,
           brokerOpen, attempts, consumed, dlq, connected, up, down, reply, tracked,
           running, startTask, deliveredCounter, redelivery, stamp, inTransaction, sync,
           apc, hand, acked, dhand, dstamp, held, done, doubt, returned, caught>>
  BY DEF DispatchClear, cvars, bvars, nvars, kvars, lvars, rvars, fvars, tvars, dvars,
     hvars
<1>8. TypeOK'
  <2>1. SetTypes'
    BY <1>2, <1>3, <1>4, <1>7 DEF TypeOK, SetTypes
  <2>2. ListTypes'
    BY <1>2, <1>3, <1>4, <1>7 DEF TypeOK, ListTypes
  <2>3. FlagTypes'
    BY <1>2, <1>3, <1>4, <1>7 DEF TypeOK, FlagTypes
  <2>4. CounterTypes'
    BY <1>2, <1>3, <1>4, <1>7 DEF TypeOK, CounterTypes
  <2>5. StateTypes'
    BY <1>2, <1>3, <1>4, <1>7 DEF TypeOK, StateTypes
  <2>6. ThreadTypes'
    BY <1>2, <1>3, <1>4, <1>7, MessageFacts DEF TypeOK, ThreadTypes
  <2> QED BY <2>1, <2>2, <2>3, <2>4, <2>5, <2>6, TypePartsNext
<1>9. Hands'
  BY <1>7 DEF Hands, DispatchClear
<1> QED BY <1>8, <1>9

\* dispatch() puts the message in the channel, or finds it a duplicate.
LEMMA DispatchEnqueueTyped == ASSUME Typed, DispatchEnqueue PROVE Typed'
<1> USE DEF Typed
<1>1. dhand \in Messages /\ dstamp \in Nat
  BY MessageFacts DEF DispatchEnqueue, TypeOK, Hands
<1>2. /\ audit' \subseteq Messages /\ unconsumed' \in Seq(Messages) /\ up' \in Seq(Commands)
      /\ redelivery' \in [Messages -> Nat] /\ stamp' \in [Messages -> Nat]
      /\ previously' \in [Messages -> {"no", "pending", "back"}]
  <2>1. CASE dhand \notin audit
    <3>1. /\ unconsumed' = Append(unconsumed, dhand)
          /\ audit' = IF running THEN audit \cup {dhand} ELSE audit
          /\ redelivery' = [redelivery EXCEPT ![dhand] = dstamp]
          /\ stamp' = [stamp EXCEPT ![dhand] = dstamp]
          /\ UNCHANGED <<up, previously>>
      BY <2>1 DEF DispatchEnqueue
    <3> QED BY <1>1, <3>1 DEF TypeOK
  <2>2. CASE dhand \in audit /\ previously[dhand] # "no"
    <3>1. /\ previously' = [previously EXCEPT ![dhand] = "back"]
          /\ SendAck("DELIVERED", dhand, dhand)
          /\ UNCHANGED <<unconsumed, audit, redelivery, stamp>>
      BY <2>2 DEF DispatchEnqueue, rvars
    <3>2. up' \in Seq(Commands)
      BY <1>1, <3>1, SendAckType DEF CommandTypes
    <3> QED BY <1>1, <3>1, <3>2 DEF TypeOK
  <2>3. CASE dhand \in audit /\ ~(previously[dhand] # "no")
    <3>1. /\ SendAck("POISON", dhand, dhand)
          /\ UNCHANGED <<unconsumed, audit, redelivery, stamp, previously>>
      BY <2>3 DEF DispatchEnqueue, rvars
    <3>2. up' \in Seq(Commands)
      BY <1>1, <3>1, SendAckType DEF CommandTypes
    <3> QED BY <3>1, <3>2 DEF TypeOK
  <2> QED BY <2>1, <2>2, <2>3
<1>7. /\ dpc' = "idle"
      /\ dhand' = 0
      /\ dstamp' = 0
      /\ UNCHANGED <<mode, maximumRedeliveries, queue, inflight, known, brokerTx,
           brokerOpen, attempts, consumed, dlq, connected, down, reply, tracked, running,
           startTask, delivered, pendingAck, deliveredCounter, clearRequired,
           clearDelivered, inTransaction, sync, apc, hand, acked, held, done, doubt,
           returned, caught>>
  BY DEF DispatchEnqueue, cvars, bvars, nvars, kvars, lvars, rvars, fvars, tvars, dvars,
     hvars
<1>8. TypeOK'
  <2>1. SetTypes'
    BY <1>2, <1>7 DEF TypeOK, SetTypes
  <2>2. ListTypes'
    BY <1>2, <1>7 DEF TypeOK, ListTypes
  <2>3. FlagTypes'
    BY <1>2, <1>7 DEF TypeOK, FlagTypes
  <2>4. CounterTypes'
    BY <1>2, <1>7 DEF TypeOK, CounterTypes
  <2>5. StateTypes'
    BY <1>2, <1>7 DEF TypeOK, StateTypes
  <2>6. ThreadTypes'
    BY <1>2, <1>7, MessageFacts DEF TypeOK, ThreadTypes
  <2> QED BY <2>1, <2>2, <2>3, <2>4, <2>5, <2>6, TypePartsNext
<1>9. Hands'
  BY <1>7 DEF Hands, DispatchEnqueue
<1> QED BY <1>8, <1>9

\* receive() takes a message out of the channel.
LEMMA DequeueTyped == ASSUME Typed, Dequeue PROVE Typed'
<1> USE DEF Typed
<1>1. Head(unconsumed) \in Messages /\ unconsumed' \in Seq(Messages)
  BY HeadAndTail DEF Dequeue, TypeOK
<1>2. /\ up' \in Seq(Commands) /\ caught' \subseteq Messages
      /\ \/ apc' = "refused" /\ apc = "dequeue" /\ hand' = hand
         \/ apc' = "before" /\ hand' = Head(unconsumed)
  <2>1. CASE stamp[Head(unconsumed)] > maximumRedeliveries
    <3>1. /\ SendAck("POISON", Head(unconsumed), Head(unconsumed))
          /\ UNCHANGED <<hand, caught>>
          /\ apc = "dequeue" /\ apc' = "refused"
      BY <2>1 DEF Dequeue
    <3>2. up' \in Seq(Commands)
      BY <1>1, <3>1, SendAckType DEF CommandTypes
    <3> QED BY <3>1, <3>2 DEF TypeOK
  <2>2. CASE ~(stamp[Head(unconsumed)] > maximumRedeliveries)
    <3>1. /\ apc' = "before" /\ hand' = Head(unconsumed) /\ UNCHANGED up
          /\ caught' = IF clearRequired THEN caught \cup {Head(unconsumed)} ELSE caught
      BY <2>2 DEF Dequeue
    <3> QED BY <1>1, <3>1 DEF TypeOK
  <2> QED BY <2>1, <2>2
<1>7. UNCHANGED <<mode, maximumRedeliveries, queue, inflight, known, brokerTx, brokerOpen,
           attempts, consumed, dlq, connected, down, reply, tracked, audit, running,
           startTask, delivered, pendingAck, deliveredCounter, previously, redelivery,
           stamp, clearRequired, clearDelivered, inTransaction, sync, dpc, dhand, dstamp,
           held, done, doubt, returned, acked>>
  BY DEF Dequeue, cvars, bvars, nvars, kvars, lvars, rvars, fvars, tvars, dvars, hvars
<1>8. TypeOK'
  <2>1. SetTypes'
    BY <1>1, <1>2, <1>7 DEF TypeOK, SetTypes
  <2>2. ListTypes'
    BY <1>1, <1>2, <1>7 DEF TypeOK, ListTypes
  <2>3. FlagTypes'
    BY <1>1, <1>2, <1>7 DEF TypeOK, FlagTypes
  <2>4. CounterTypes'
    BY <1>1, <1>2, <1>7 DEF TypeOK, CounterTypes
  <2>5. StateTypes'
    BY <1>1, <1>2, <1>7 DEF TypeOK, StateTypes
  <2>6. ThreadTypes'
    BY <1>1, <1>2, <1>7, MessageFacts DEF TypeOK, ThreadTypes
  <2> QED BY <2>1, <2>2, <2>3, <2>4, <2>5, <2>6, TypePartsNext
<1>9. Hands'
  BY <1>7, <1>1, <1>2, MessageFacts DEF Hands, Dequeue
<1> QED BY <1>8, <1>9

\* The messages a rollback puts back, or declares poison: delivered, and not one
\* that is expected to come back.
PutBack == {i \in 1..Len(delivered) :
              \/ delivered[i] \notin NotReplayed
              \/ \E j \in (i + 1)..Len(delivered) : delivered[j] = delivered[i]}

\* What a rollback puts back was delivered.
LEMMA PutBackType ==
  ASSUME TypeOK
  PROVE  /\ KeepAt(delivered, PutBack) \in Seq(Messages)
         /\ ToSet(KeepAt(delivered, PutBack)) \subseteq ToSet(delivered)
         /\ \A m : Once(delivered, m) => Once(KeepAt(delivered, PutBack), m)
         /\ \A m : Once(delivered, m) /\ m \in ToSet(KeepAt(delivered, PutBack)) =>
                      m \notin NotReplayed
<1>1. delivered \in Seq(Messages) /\ PutBack \subseteq 1..Len(delivered)
  BY DEF TypeOK, PutBack
<1>2. /\ KeepAt(delivered, PutBack) \in Seq(Messages)
      /\ ToSet(KeepAt(delivered, PutBack)) = {delivered[i] : i \in PutBack}
      /\ \A m : Once(delivered, m) => Once(KeepAt(delivered, PutBack), m)
  BY <1>1, Keeps
<1>3. {delivered[i] : i \in PutBack} \subseteq ToSet(delivered)
  BY <1>1, InList
<1>4. ASSUME NEW m, Once(delivered, m), m \in {delivered[i] : i \in PutBack}
      PROVE  m \notin NotReplayed
  <2>1. PICK i \in PutBack : delivered[i] = m
    BY <1>4
  <2>2. \A j \in (i + 1)..Len(delivered) : delivered[j] # m
    BY <1>1, <1>4, <2>1 DEF Once
  <2> QED BY <2>1, <2>2 DEF PutBack
<1> QED BY <1>2, <1>3, <1>4

\* rollback() of the consumer.
LEMMA RollbackConsumerTyped == ASSUME Typed, RollbackConsumer PROVE Typed'
<1> USE DEF Typed
<1> DEFINE ms == KeepAt(delivered, PutBack)
<1>1. ms \in Seq(Messages)
  BY PutBackType
<1>2. IF ms # <<>> THEN Redeliver(ms) ELSE UNCHANGED <<redelivery, deliveredCounter, up, kvars>>
  BY Zenon DEF RollbackConsumer, PutBack
<1> HIDE DEF ms
<1>3. /\ unconsumed' \in Seq(Messages) /\ up' \in Seq(Commands)
      /\ redelivery' \in [Messages -> Nat]
      /\ running' \in BOOLEAN /\ startTask' \in BOOLEAN
      /\ deliveredCounter' \in Int /\ 2 * deliveredCounter' < Prefetch
  <2>1. CASE ms = <<>>
    BY <1>2, <2>1 DEF kvars, TypeOK
  <2>2. CASE ms # <<>>
    <3>1. Redeliver(ms)
      BY <1>2, <2>2
    <3>2. Head(ms) \in Messages /\ Last(ms) \in Messages /\ Len(ms) \in Nat
      BY <1>1, <2>2 DEF Last
    <3>3. deliveredCounter' \in Int /\ 2 * deliveredCounter' < Prefetch
      <4>1. deliveredCounter' = deliveredCounter - Len(ms)
        BY <3>1 DEF Redeliver
      <4>2. deliveredCounter \in Int /\ 2 * deliveredCounter < Prefetch /\ Prefetch \in Nat
        BY ConsumerAssumption DEF TypeOK
      <4> QED BY <3>2, <4>1, <4>2
    <3>4. redelivery' \in [Messages -> Nat]
      <4>1. redelivery' = [m \in Messages |-> redelivery[m] + IF m \in ToSet(ms) THEN 1 ELSE 0]
        BY <3>1 DEF Redeliver
      <4> QED BY <4>1 DEF TypeOK
    <3>5. CASE redelivery[Last(ms)] + 1 > maximumRedeliveries
      <4>1. /\ SendAck("POISON", Head(ms), Last(ms))
            /\ running' = TRUE
            /\ UNCHANGED <<unconsumed, startTask>>
        BY <3>1, <3>5 DEF Redeliver
      <4>2. up' \in Seq(Commands)
        BY <3>2, <4>1, SendAckType DEF CommandTypes
      <4> QED BY <3>3, <3>4, <4>1, <4>2 DEF TypeOK
    <3>6. CASE ~(redelivery[Last(ms)] + 1 > maximumRedeliveries)
      <4>1. /\ SendAck("REDELIVERED", Head(ms), Last(ms)) \/ UNCHANGED up
            /\ running' = FALSE /\ startTask' = TRUE /\ unconsumed' = ms \o unconsumed
        BY <3>1, <3>6 DEF Redeliver
      <4>2. up' \in Seq(Commands)
        <5>1. CASE UNCHANGED up
          BY <5>1 DEF TypeOK
        <5>2. CASE SendAck("REDELIVERED", Head(ms), Last(ms))
          BY <3>2, <5>2, SendAckType DEF CommandTypes
        <5> QED BY <4>1, <5>1, <5>2
      <4>3. unconsumed' \in Seq(Messages)
        BY <1>1, <4>1, Joined DEF TypeOK
      <4> QED BY <3>3, <3>4, <4>1, <4>2, <4>3
    <3> QED BY <3>5, <3>6
  <2> QED BY <2>1, <2>2
<1>4. audit' \subseteq Messages /\ delivered' \in Seq(Messages)
  <2>1. audit' = audit \ ToSet(delivered) /\ delivered' = <<>>
    BY DEF RollbackConsumer
  <2> QED BY <2>1 DEF TypeOK
<1>5. previously' \in [Messages -> {"no", "pending", "back"}]
  <2>1. previously' = [m \in Messages |-> "no"]
    BY DEF RollbackConsumer
  <2> QED BY <2>1
<1>7. /\ apc' = "idle" /\ sync' = FALSE
      /\ held' = {}
      /\ UNCHANGED <<mode, maximumRedeliveries, queue, inflight, known, brokerTx,
           brokerOpen, attempts, consumed, dlq, connected, down, reply, tracked,
           pendingAck, stamp, clearRequired, clearDelivered, inTransaction, hand, acked,
           dpc, dhand, dstamp, done, doubt, returned, caught>>
  BY DEF RollbackConsumer, cvars, bvars, nvars, kvars, lvars, rvars, fvars, tvars, dvars,
     hvars
<1>8. TypeOK'
  <2>1. SetTypes'
    BY <1>3, <1>4, <1>5, <1>7 DEF TypeOK, SetTypes
  <2>2. ListTypes'
    BY <1>3, <1>4, <1>5, <1>7 DEF TypeOK, ListTypes
  <2>3. FlagTypes'
    BY <1>3, <1>4, <1>5, <1>7 DEF TypeOK, FlagTypes
  <2>4. CounterTypes'
    BY <1>3, <1>4, <1>5, <1>7 DEF TypeOK, CounterTypes
  <2>5. StateTypes'
    BY <1>3, <1>4, <1>5, <1>7 DEF TypeOK, StateTypes
  <2>6. ThreadTypes'
    BY <1>3, <1>4, <1>5, <1>7, MessageFacts DEF TypeOK, ThreadTypes
  <2> QED BY <2>1, <2>2, <2>3, <2>4, <2>5, <2>6, TypePartsNext
<1>9. Hands'
  BY <1>7 DEF Hands, RollbackConsumer
<1> QED BY <1>8, <1>9

\* Initially every list is empty, and no thread has a message.
LEMMA InitTyped == ASSUME Init PROVE Typed
<1> USE ConsumerAssumption, MessageFacts DEF Init
<1>1. SetTypes
  BY DEF SetTypes
<1>2. ListTypes
  BY DEF ListTypes
<1>3. FlagTypes
  BY DEF FlagTypes
<1>4. CounterTypes
  BY DEF CounterTypes
<1>5. StateTypes
  BY DEF StateTypes
<1>6. ThreadTypes
  BY DEF ThreadTypes
<1>7. Hands
  BY DEF Hands
<1> QED BY <1>1, <1>2, <1>3, <1>4, <1>5, <1>6, <1>7, TypeParts DEF Typed


\* Every step keeps the types.
LEMMA TypedStep == ASSUME Typed, [Next]_vars PROVE Typed'
<1>1. CASE Enters
  BY <1>1, EnterTyped
<1>2. CASE ReceiveNothing
  BY <1>2, ReceiveNothingTyped
<1>3. CASE Dequeue
  BY <1>3, DequeueTyped
<1>4. CASE BeforeMessageIsConsumed
  BY <1>4, BeforeMessageIsConsumedTyped
<1>5. CASE ReceiveTransacted
  BY <1>5, ReceiveTransactedTyped
<1>6. CASE ReceiveAuto
  BY <1>6, ReceiveAutoTyped
<1>7. CASE ReceiveManual
  BY <1>7, ReceiveManualTyped
<1>8. CASE AcknowledgeSection
  BY <1>8, AcknowledgeSectionTyped
<1>9. CASE RemoveAcknowledged
  BY <1>9, RemoveAcknowledgedTyped
<1>10. CASE BeforeEnd
  BY <1>10, BeforeEndTyped
<1>11. CASE SendCommit
  BY <1>11, SendCommitTyped
<1>12. CASE SendRollback
  BY <1>12, SendRollbackTyped
<1>13. CASE AfterCommit
  BY <1>13, AfterCommitTyped
<1>14. CASE CommitInDoubt
  BY <1>14, CommitInDoubtTyped
<1>15. CASE AfterRollback
  BY <1>15, AfterRollbackTyped
<1>16. CASE RollbackConsumer
  BY <1>16, RollbackConsumerTyped
<1>17. CASE DispatchTake
  BY <1>17, DispatchTakeTyped
<1>18. CASE DispatchClear
  BY <1>18, DispatchClearTyped
<1>19. CASE DispatchEnqueue
  BY <1>19, DispatchEnqueueTyped
<1>20. CASE ClearConsumerTask
  BY <1>20, ClearConsumerTaskTyped
<1>21. CASE StartConsumerTask
  BY <1>21, StartConsumerTaskTyped
<1>22. CASE BrokerProcess
  BY <1>22, BrokerProcessTyped
<1>23. CASE BrokerDispatch
  BY <1>23, BrokerDispatchTyped
<1>24. CASE TransportInterrupted
  BY <1>24, TransportInterruptedTyped
<1>25. CASE Restore
  BY <1>25, RestoreTyped
<1>26. CASE \E m \in Messages : AcknowledgeOne(m)
  BY <1>26, AcknowledgeOneTyped
<1>27. CASE UNCHANGED vars
  <2>1. UNCHANGED <<mode, maximumRedeliveries, queue, inflight, known, brokerTx,
           brokerOpen, attempts, consumed, dlq, connected, up, down, reply, tracked,
           audit, unconsumed, running, startTask, delivered, pendingAck, deliveredCounter,
           previously, redelivery, stamp, clearRequired, clearDelivered, inTransaction,
           sync, apc, hand, acked, dpc, dhand, dstamp, failures, rollbacks, held, done,
           doubt, returned, caught>>
    BY <1>27 DEF vars, cvars, bvars, nvars, kvars, lvars, rvars, fvars, tvars, dvars, hvars
  <2> USE DEF Typed
  <2>2. SetTypes' /\ FlagTypes' /\ StateTypes'
    BY <2>1 DEF TypeOK, SetTypes, FlagTypes, StateTypes
  <2>3. ListTypes' /\ CounterTypes' /\ ThreadTypes' /\ Hands'
    BY <2>1 DEF TypeOK, ListTypes, CounterTypes, ThreadTypes, Hands
  <2> QED BY <2>2, <2>3, TypePartsNext
<1> QED BY <1>1, <1>2, <1>3, <1>4, <1>5, <1>6, <1>7, <1>8, <1>9, <1>10, <1>11, <1>12,
   <1>13, <1>14, <1>15, <1>16, <1>17, <1>18, <1>19, <1>20, <1>21, <1>22, <1>23, <1>24,
   <1>25, <1>26, <1>27 DEF Next, Receive, Settle, Undo, DispatchStep, Scheduler,
   Broker, Enters

-----------------------------------------------------------------------------
(* What the client knows of a message *)

Knows == Lists /\ Dispatched /\ \A m \in Messages \ caught : Known(m)

\* Steps of the broker's and the scheduler's, and those of the application that
\* only send: what Client speaks of stays.
Frame ==
    /\ UNCHANGED <<mode, queue, down, dhand, dpc, unconsumed, hand, acked, held, done, audit,
                   clearRequired, clearDelivered, delivered, previously, caught>>
    /\ apc' = "after" <=> apc = "after"
    /\ apc' = "remove" <=> apc = "remove"

\* Such steps keep what the client knows.
LEMMA FrameKnows == ASSUME Knows, Frame PROVE Knows'
<1>1. Lists'
  BY DEF Knows, Frame, Lists
<1>2. Dispatched'
  BY DEF Knows, Frame, Dispatched
<1>3. ASSUME NEW m \in Messages, m \notin caught' PROVE Known(m)'
  <2>1. Known(m)
    BY <1>3 DEF Knows, Frame
  <2>2. Coming' = Coming
    BY DEF Frame, Coming
  <2> QED BY <2>1, <2>2 DEF Frame, Known
<1> QED BY <1>1, <1>2, <1>3 DEF Knows


\* The broker takes a command.
LEMMA BrokerProcessKnows == ASSUME Typed, Knows, BrokerProcess PROVE Knows'
<1>1. Frame
  BY DEF Frame, BrokerProcess, cvars, bvars, nvars, kvars, lvars, rvars, fvars, tvars,
     dvars, hvars
<1> QED BY <1>1, FrameKnows

\* The connection is restored.
LEMMA RestoreKnows == ASSUME Typed, Knows, Restore PROVE Knows'
<1>1. Frame
  BY DEF Frame, Restore, cvars, bvars, nvars, kvars, lvars, rvars, fvars, tvars, dvars,
     hvars
<1> QED BY <1>1, FrameKnows

\* The channel is started again.
LEMMA StartConsumerTaskKnows == ASSUME Typed, Knows, StartConsumerTask PROVE Knows'
<1>1. Frame
  BY DEF Frame, StartConsumerTask, cvars, bvars, nvars, kvars, lvars, rvars, fvars, tvars,
     dvars, hvars
<1> QED BY <1>1, FrameKnows

\* The COMMIT is sent.
LEMMA SendCommitKnows == ASSUME Typed, Knows, SendCommit PROVE Knows'
<1>1. Frame
  BY DEF Frame, SendCommit, SendEnd, cvars, bvars, nvars, kvars, lvars, rvars, fvars,
     tvars, dvars, hvars
<1> QED BY <1>1, FrameKnows

\* The ROLLBACK is sent.
LEMMA SendRollbackKnows == ASSUME Typed, Knows, SendRollback PROVE Knows'
<1>1. Frame
  BY DEF Frame, SendRollback, SendEnd, cvars, bvars, nvars, kvars, lvars, rvars, fvars,
     tvars, dvars, hvars
<1> QED BY <1>1, FrameKnows

\* The consumer's part of commit() and rollback().
LEMMA BeforeEndKnows == ASSUME Typed, Knows, BeforeEnd PROVE Knows'
<1>1. apc' \notin {"after", "remove"} /\ apc \notin {"after", "remove"}
  BY DEF BeforeEnd
<1>2. Frame
  BY <1>1 DEF Frame, BeforeEnd, cvars, bvars, nvars, kvars, lvars, rvars, fvars, tvars,
     dvars, hvars
<1> QED BY <1>2, FrameKnows

\* dequeue() has found nothing.
LEMMA ReceiveNothingKnows == ASSUME Typed, Knows, ReceiveNothing PROVE Knows'
<1>1. Frame
  BY DEF Frame, ReceiveNothing, cvars, bvars, nvars, kvars, lvars, rvars, fvars, tvars,
     dvars, hvars
<1> QED BY <1>1, FrameKnows

\* commit() throws, and the consumer keeps what it has.
LEMMA CommitInDoubtKnows == ASSUME Typed, Knows, CommitInDoubt PROVE Knows'
<1>1. Frame
  BY DEF Frame, CommitInDoubt, cvars, bvars, nvars, kvars, lvars, rvars, fvars, tvars,
     dvars, hvars
<1> QED BY <1>1, FrameKnows

\* A message goes from the queue to the connection.
LEMMA BrokerDispatchKnows == ASSUME Typed, Typed', Knows, BrokerDispatch PROVE Knows'
<1> USE DEF Typed
<1>1. /\ apc' = apc
      /\ UNCHANGED <<mode, dhand, dpc, unconsumed, hand, acked, held, done, audit,
           clearRequired, clearDelivered, delivered, previously, caught>>
  BY Zenon DEF BrokerDispatch, cvars, bvars, nvars, kvars, lvars, rvars, fvars, tvars,
     dvars, hvars
<1>2. Min(queue) \in queue
  BY MinIn, MessageFacts DEF BrokerDispatch, TypeOK
<1>3. queue' = queue \ {Min(queue)} /\ down' = Append(down, Min(queue))
  BY DEF BrokerDispatch
<1>4. Min(queue) \notin ToSet(down) /\ Min(queue) \in Messages /\ down \in Seq(Messages)
  BY <1>2 DEF Knows, Dispatched, TypeOK
<1>5. /\ ToSet(down') = ToSet(down) \cup {Min(queue)}
      /\ \A m \in Messages : Once(down, m) => Once(down', m)
  BY <1>3, <1>4, Appended
<1>6. Coming' = Coming
  BY <1>1, <1>2, <1>3, <1>5 DEF Coming
<1>7. Lists'
  BY <1>1 DEF Knows, Lists
<1>8. Dispatched'
  BY <1>1, <1>2, <1>3, <1>4, <1>5 DEF Knows, Dispatched
<1>9. ASSUME NEW m \in Messages, m \notin caught' PROVE Known(m)'
  BY <1>1, <1>9, <1>6 DEF Knows, Known
<1> QED BY <1>7, <1>8, <1>9 DEF Knows

\* What an interruption does not catch is not sent again, or the audit knows it.
LEMMA TransportInterruptedKnows == ASSUME Typed, Typed', Knows, TransportInterrupted PROVE Knows'
<1> USE DEF Typed
<1>1. /\ queue' = queue \cup ToSet(inflight)
      /\ down' = <<>>
      /\ clearRequired' = TRUE
      /\ clearDelivered' = TRUE
      /\ caught' = caught \cup Halfway
      /\ apc' = apc
      /\ UNCHANGED <<mode, dhand, dpc, unconsumed, hand, acked, held, done, audit,
           delivered, previously>>
  BY Zenon DEF TransportInterrupted, cvars, bvars, nvars, kvars, lvars, rvars, fvars,
     tvars, dvars, hvars
<1>2. /\ inflight \in Seq(Messages) /\ ToSet(inflight) \subseteq Messages
      /\ hand \in 0..MaxMessages /\ dhand \in 0..MaxMessages
  BY InList DEF TypeOK
<1>3. dhand = 0 \/ dhand \in caught'
  BY <1>1, <1>2, MessageFacts DEF Halfway
<1>4. 0 \notin queue'
  BY <1>1, <1>2, MessageFacts DEF TypeOK
<1>7. Lists'
  BY <1>1 DEF Knows, Lists
<1>8. Dispatched'
  BY <1>1, <1>3, <1>4, EmptyList, MessageFacts DEF Hands, Knows, Dispatched
<1>9. ASSUME NEW m \in Messages, m \notin caught' PROVE Known(m)'
  <2>1. Known(m)
    BY <1>1, <1>9 DEF Knows
  <2>2. /\ m # hand /\ m # dhand /\ m # acked
        /\ mode \in {"client", "individual"} => m \notin held
    BY <1>1, <1>9 DEF Halfway
  <2>3. m \in ToSet(inflight) => m \in ToSet(down) \/ m \in audit
    BY <1>1, <1>9 DEF Halfway
  <2>4. m \in Coming' => m \in Coming \/ m \in audit
    BY <1>1, <2>2, <2>3, EmptyList DEF Coming
  <2> QED BY <1>1, <2>1, <2>2, <2>4 DEF Known
<1> QED BY <1>7, <1>8, <1>9 DEF Knows

\* The scheduled task forgets what will come again.
LEMMA ClearConsumerTaskKnows == ASSUME Typed, Typed', Knows, ClearConsumerTask PROVE Knows'
<1> USE DEF Typed
<1>1. /\ apc' = apc
      /\ UNCHANGED <<mode, queue, down, dhand, dpc, hand, acked, held, done, caught>>
  BY Zenon DEF ClearConsumerTask, cvars, bvars, nvars, kvars, lvars, rvars, fvars, tvars,
     dvars, hvars
<1>2. /\ clearDelivered' = FALSE /\ ToSet(delivered') \subseteq ToSet(delivered)
      /\ \A m : Once(delivered, m) => Once(delivered', m)
      /\ \A m \in ToSet(delivered') : clearDelivered => previously'[m] = "pending"
      /\ \A m \in ToSet(delivered') : ~clearDelivered => previously'[m] = previously[m]
  BY ClearedList DEF ClearConsumerTask, ClearMessagesInProgress
<1>3. /\ clearRequired' = FALSE
      /\ clearRequired => unconsumed' = <<>> /\ audit' = audit \ (ToSet(unconsumed) \cup Reopened)
      /\ ~clearRequired => unconsumed' = unconsumed /\ audit' = audit \ Reopened
  BY DEF ClearConsumerTask, ClearMessagesInProgress
<1>7. Lists'
  BY <1>1, <1>2, <1>3 DEF Knows, Lists
<1>8. Dispatched'
  BY <1>1, <1>2, <1>3 DEF Knows, Dispatched
<1>9. ASSUME NEW m \in Messages, m \notin caught' PROVE Known(m)'
  <2>1. Known(m) /\ Coming' = Coming
    BY <1>1, <1>9 DEF Knows, Coming
  <2>2. m \notin Reopened
    BY <1>1, <1>9, <2>1 DEF Reopened, Knows, Lists, Known
  <2>3. m \in ToSet(delivered') => /\ Once(delivered', m) /\ Once(delivered, m)
                                   /\ previously'[m] = "pending" \/ m \notin Coming
    BY <1>2, <2>1 DEF Known
  <2> QED BY <1>1, <1>2, <1>3, EmptyList, <2>1, <2>2, <2>3 DEF Known
<1> QED BY <1>7, <1>8, <1>9 DEF Knows

\* dispatch() forgets what will come again.
LEMMA DispatchClearKnows == ASSUME Typed, Typed', Knows, DispatchClear PROVE Knows'
<1> USE DEF Typed
<1>1. /\ dpc' = "enqueue"
      /\ apc' = apc
      /\ UNCHANGED <<mode, queue, down, dhand, hand, acked, held, done, caught>>
  BY Zenon DEF DispatchClear, cvars, bvars, nvars, kvars, lvars, rvars, fvars, tvars,
     dvars, hvars
<1>2. /\ clearDelivered' = FALSE /\ ToSet(delivered') \subseteq ToSet(delivered)
      /\ \A m : Once(delivered, m) => Once(delivered', m)
      /\ \A m \in ToSet(delivered') : clearDelivered => previously'[m] = "pending"
      /\ \A m \in ToSet(delivered') : ~clearDelivered => previously'[m] = previously[m]
  BY ClearedList DEF DispatchClear, ClearMessagesInProgress
<1>3. /\ clearRequired' = FALSE
      /\ clearRequired => unconsumed' = <<>> /\ audit' = audit \ (ToSet(unconsumed) \cup Reopened)
      /\ ~clearRequired => unconsumed' = unconsumed /\ audit' = audit \ Reopened
  BY DEF DispatchClear, ClearMessagesInProgress
<1>7. Lists'
  BY <1>1, <1>2, <1>3 DEF Knows, Lists
<1>8. Dispatched'
  BY <1>1, <1>2, <1>3 DEF Knows, Dispatched
<1>9. ASSUME NEW m \in Messages, m \notin caught' PROVE Known(m)'
  <2>1. Known(m) /\ Coming' = Coming
    BY <1>1, <1>9 DEF Knows, Coming
  <2>2. m \notin Reopened
    BY <1>1, <1>9, <2>1 DEF Reopened, Knows, Lists, Known
  <2>3. m \in ToSet(delivered') => /\ Once(delivered', m) /\ Once(delivered, m)
                                   /\ previously'[m] = "pending" \/ m \notin Coming
    BY <1>2, <2>1 DEF Known
  <2> QED BY <1>1, <1>2, <1>3, EmptyList, <2>1, <2>2, <2>3 DEF Known
<1> QED BY <1>7, <1>8, <1>9 DEF Knows

\* A message goes from the connection to the dispatching thread.
LEMMA DispatchTakeKnows == ASSUME Typed, Typed', Knows, DispatchTake PROVE Knows'
<1> USE DEF Typed
<1>1. /\ dhand' = Head(down)
      /\ down' = Tail(down)
      /\ dpc' = "clear"
      /\ apc' = apc
      /\ UNCHANGED <<mode, queue, unconsumed, hand, acked, held, done, audit,
           clearRequired, clearDelivered, delivered, previously, caught>>
  BY Zenon DEF DispatchTake, cvars, bvars, nvars, kvars, lvars, rvars, fvars, tvars,
     dvars, hvars
<1>2. down \in Seq(Messages) /\ down # <<>> /\ dhand = 0
  BY DEF DispatchTake, TypeOK, Hands
<1>3. /\ Head(down) \in Messages /\ Head(down) \in ToSet(down)
      /\ ToSet(down) = {Head(down)} \cup ToSet(Tail(down))
      /\ Once(down, Head(down)) => Head(down) \notin ToSet(Tail(down))
      /\ \A m : Once(down, m) => Once(Tail(down), m)
  BY <1>2, HeadAndTail
<1>4. \A m \in Messages : m \in Coming' => m \in Coming
  BY <1>1, <1>3 DEF Coming
<1>7. Lists'
  BY <1>1 DEF Knows, Lists
<1>8. Dispatched'
  BY <1>1, <1>3 DEF Knows, Dispatched
<1>9. ASSUME NEW m \in Messages, m \notin caught' PROVE Known(m)'
  BY <1>1, <1>9, <1>4 DEF Knows, Known
<1> QED BY <1>7, <1>8, <1>9 DEF Knows

\* A message the audit does not know is nowhere else in the consumer.
LEMMA DispatchEnqueueKnows == ASSUME Typed, Typed', Knows, DispatchEnqueue PROVE Knows'
<1> USE DEF Typed
<1>1. /\ dhand' = 0
      /\ dpc' = "idle"
      /\ apc' = apc
      /\ UNCHANGED <<mode, queue, down, hand, acked, held, done, clearRequired,
           clearDelivered, delivered, caught>>
  BY Zenon DEF DispatchEnqueue, cvars, bvars, nvars, kvars, lvars, rvars, fvars, tvars,
     dvars, hvars
<1>2. /\ dhand \in Messages /\ dpc = "enqueue" /\ unconsumed \in Seq(Messages)
      /\ 0 \notin queue /\ 0 \notin ToSet(down)
  <2>1. ToSet(down) \subseteq Messages
    BY InList DEF TypeOK
  <2> QED BY <2>1, MessageFacts DEF DispatchEnqueue, TypeOK, Hands
<1>3. /\ dhand \notin audit =>
            /\ unconsumed' = Append(unconsumed, dhand)
            /\ audit' = IF running THEN audit \cup {dhand} ELSE audit
            /\ previously' = previously
      /\ dhand \in audit =>
            /\ unconsumed' = unconsumed /\ audit' = audit
            /\ previously' = previously \/ previously' = [previously EXCEPT ![dhand] = "back"]
  BY DEF DispatchEnqueue
<1>4. \A m \in Messages : m # dhand => previously'[m] = previously[m]
  <2>1. \/ previously' = previously \/ previously' = [previously EXCEPT ![dhand] = "back"]
    BY <1>3
  <2> QED BY <2>1 DEF TypeOK
<1>5. \A m \in Messages : m \in Coming' => m \in Coming
  BY <1>1, MessageFacts DEF Coming
<1>6. dhand \notin caught => dhand \notin Coming' /\ dhand \in Coming /\ ~clearRequired
  BY <1>1, <1>2, MessageFacts DEF Coming, Knows, Dispatched
<1>7. Lists'
  BY <1>1 DEF Knows, Lists
<1>8. Dispatched'
  BY <1>1, <1>2 DEF Knows, Dispatched
<1>9. ASSUME NEW m \in Messages, m \notin caught' PROVE Known(m)'
  <2>1. Known(m)
    BY <1>1, <1>9 DEF Knows
  <2>2. CASE m # dhand
    <3>0. /\ ToSet(Append(unconsumed, dhand)) = ToSet(unconsumed) \cup {dhand}
          /\ Once(unconsumed, m) => Once(Append(unconsumed, dhand), m)
      BY <1>2, <2>2, Appended
    <3>1. m \in ToSet(unconsumed') => m \in ToSet(unconsumed)
      BY <1>3, <2>2, <3>0
    <3>2. Once(unconsumed, m) => Once(unconsumed', m)
      BY <1>3, <3>0
    <3>3. /\ (m \in Coming' => m \in Coming)
          /\ previously'[m] = previously[m]
          /\ (m \in audit => m \in audit')
      BY <1>3, <1>4, <1>5, <2>2
    <3> QED BY <1>1, <2>1, <3>1, <3>2, <3>3 DEF Known
  <2>3. CASE m = dhand /\ m \in audit
    <3>1. unconsumed' = unconsumed /\ audit' = audit /\ m \notin Coming'
      BY <1>1, <1>3, <1>6, <1>9, <2>3
    <3> QED BY <1>1, <2>1, <3>1 DEF Known
  <2>4. CASE m = dhand /\ m \notin audit
    <3>1. m \notin Coming' /\ m \in Coming /\ ~clearRequired
      BY <1>1, <1>6, <1>9, <2>4
    <3>2. m \notin ToSet(unconsumed) /\ m # hand /\ m \notin held /\ m \notin done
      BY <2>1, <2>4, <3>1 DEF Known
    <3>3. Once(unconsumed, m)
      BY <1>2, <3>2, InList DEF Once
    <3>4. Once(unconsumed', m)
      <4>1. Once(Append(unconsumed, dhand), m)
        BY <1>2, <3>2, <3>3, Appended
      <4> QED BY <1>3, <2>4, <4>1
    <3> QED BY <1>1, <2>1, <3>1, <3>2, <3>4 DEF Known
  <2> QED BY <2>2, <2>3, <2>4
<1> QED BY <1>7, <1>8, <1>9 DEF Knows

\* receive() takes a message that does not come again, or is caught.
LEMMA DequeueKnows == ASSUME Typed, Typed', Knows, Dequeue PROVE Knows'
<1> USE DEF Typed
<1>1. /\ unconsumed' = Tail(unconsumed)
      /\ UNCHANGED <<mode, queue, down, dhand, dpc, held, done, audit, clearRequired,
           clearDelivered, delivered, previously, acked>>
  BY Zenon DEF Dequeue, cvars, bvars, nvars, kvars, lvars, rvars, fvars, tvars, dvars,
     hvars
<1>2. unconsumed \in Seq(Messages) /\ unconsumed # <<>> /\ hand = 0 /\ apc = "dequeue"
  BY DEF Dequeue, TypeOK, Hands
<1>3. /\ Head(unconsumed) \in Messages /\ Head(unconsumed) \in ToSet(unconsumed)
      /\ ToSet(unconsumed) = {Head(unconsumed)} \cup ToSet(Tail(unconsumed))
      /\ Once(unconsumed, Head(unconsumed)) => Head(unconsumed) \notin ToSet(Tail(unconsumed))
      /\ \A m : Once(unconsumed, m) => Once(Tail(unconsumed), m)
  BY <1>2, HeadAndTail
<1>4. \/ apc' = "refused" /\ hand' = hand /\ caught' = caught
      \/ /\ apc' = "before" /\ hand' = Head(unconsumed)
         /\ caught' = IF clearRequired THEN caught \cup {Head(unconsumed)} ELSE caught
  BY DEF Dequeue
<1>5. caught \subseteq caught' /\ apc' \notin {"after", "remove"}
  BY <1>2, <1>4
<1>6. Coming' = Coming
  BY <1>1 DEF Coming
<1>7. Lists'
  BY <1>1, <1>2, <1>5 DEF Knows, Lists
<1>8. Dispatched'
  BY <1>1, <1>5 DEF Knows, Dispatched
<1>9. ASSUME NEW m \in Messages, m \notin caught' PROVE Known(m)'
  <2>1. Known(m)
    BY <1>5, <1>9 DEF Knows
  <2>2. m = hand' => m = Head(unconsumed) /\ ~clearRequired
    BY <1>2, <1>4, <1>9, MessageFacts
  <2>3. m \in ToSet(unconsumed') => m \in ToSet(unconsumed)
    BY <1>1, <1>3
  <2>4. Once(unconsumed, m) => Once(unconsumed', m)
    BY <1>1, <1>3
  <2>5. m = Head(unconsumed) => m \in ToSet(unconsumed) /\ m \notin ToSet(unconsumed')
    BY <1>1, <1>3, <2>1 DEF Known
  <2> QED BY <1>1, <1>5, <1>6, <2>1, <2>2, <2>3, <2>4, <2>5 DEF Known
<1> QED BY <1>7, <1>8, <1>9 DEF Knows

\* The message receive() records was not delivered before.
LEMMA BeforeMessageIsConsumedKnows ==
  ASSUME Typed, Typed', Knows, BeforeMessageIsConsumed
  PROVE  Knows'
<1> USE DEF Typed
<1>1. /\ delivered' = Append(delivered, hand)
      /\ apc' = "after"
      /\ UNCHANGED <<mode, queue, down, dhand, dpc, unconsumed, hand, acked, held, done,
           audit, clearRequired, clearDelivered, previously, caught>>
  BY Zenon DEF BeforeMessageIsConsumed, cvars, bvars, nvars, kvars, lvars, rvars, fvars,
     tvars, dvars, hvars
<1>2. delivered \in Seq(Messages) /\ hand \in Messages /\ apc = "before"
  BY MessageFacts DEF BeforeMessageIsConsumed, TypeOK, Hands
<1>3. /\ ToSet(delivered') = ToSet(delivered) \cup {hand}
      /\ \A m : Once(delivered, m) /\ (m = hand => m \notin ToSet(delivered)) => Once(delivered', m)
  BY <1>1, <1>2, Appended
<1>4. Coming' = Coming
  BY <1>1 DEF Coming
<1>7. Lists'
  BY <1>1, <1>2, <1>3 DEF Knows, Lists
<1>8. Dispatched'
  BY <1>1 DEF Knows, Dispatched
<1>9. ASSUME NEW m \in Messages, m \notin caught' PROVE Known(m)'
  <2>1. Known(m)
    BY <1>1, <1>9 DEF Knows
  <2>2. m = hand => m \notin ToSet(delivered) /\ m \notin Coming
    BY <1>1, <1>2, <1>9, <2>1 DEF Known, Knows, Lists
  <2>3. m \in ToSet(delivered) \/ Once(delivered, m)
    BY <1>2, InList DEF Once
  <2>4. m \in ToSet(delivered') => Once(delivered', m)
    BY <1>3, <2>1, <2>2, <2>3 DEF Known
  <2> QED BY <1>1, <1>3, <1>4, <2>1, <2>2, <2>4 DEF Known
<1> QED BY <1>7, <1>8, <1>9 DEF Knows

\* The message receive() returns does not come again.
LEMMA ReceiveTransactedKnows == ASSUME Typed, Typed', Knows, ReceiveTransacted PROVE Knows'
<1> USE DEF Typed
<1>1. /\ hand' = 0
      /\ held' = held \cup {hand}
      /\ apc' = "idle"
      /\ UNCHANGED <<mode, queue, down, dhand, dpc, unconsumed, done, audit,
           clearRequired, clearDelivered, delivered, previously, caught, acked>>
  BY Zenon DEF ReceiveTransacted, ReceiveReturns, cvars, bvars, nvars, kvars, lvars,
     rvars, fvars, tvars, dvars, hvars
<1>2. apc = "after" /\ hand \in Messages
  BY MessageFacts DEF ReceiveTransacted, TypeOK, Hands
<1>3. Coming' = Coming
  BY <1>1 DEF Coming
<1>7. Lists'
  BY <1>1, <1>2 DEF Knows, Lists
<1>8. Dispatched'
  BY <1>1 DEF Knows, Dispatched
<1>9. ASSUME NEW m \in Messages, m \notin caught' PROVE Known(m)'
  <2>1. Known(m) /\ (clearDelivered => clearRequired)
    BY <1>1, <1>9 DEF Knows, Lists
  <2> QED BY <1>1, <1>3, <2>1, MessageFacts DEF Known
<1> QED BY <1>7, <1>8, <1>9 DEF Knows

\* The message receive() returns does not come again.
LEMMA ReceiveManualKnows == ASSUME Typed, Typed', Knows, ReceiveManual PROVE Knows'
<1> USE DEF Typed
<1>1. /\ hand' = 0
      /\ held' = held \cup {hand}
      /\ apc' = "idle"
      /\ UNCHANGED <<mode, queue, down, dhand, dpc, unconsumed, done, audit,
           clearRequired, clearDelivered, delivered, previously, caught, acked>>
  BY Zenon DEF ReceiveManual, ReceiveReturns, cvars, bvars, nvars, kvars, lvars, rvars,
     fvars, tvars, dvars, hvars
<1>2. apc = "after" /\ hand \in Messages
  BY MessageFacts DEF ReceiveManual, TypeOK, Hands
<1>3. Coming' = Coming
  BY <1>1 DEF Coming
<1>7. Lists'
  BY <1>1, <1>2 DEF Knows, Lists
<1>8. Dispatched'
  BY <1>1 DEF Knows, Dispatched
<1>9. ASSUME NEW m \in Messages, m \notin caught' PROVE Known(m)'
  <2>1. Known(m) /\ (clearDelivered => clearRequired)
    BY <1>1, <1>9 DEF Knows, Lists
  <2> QED BY <1>1, <1>3, <2>1, MessageFacts DEF Known
<1> QED BY <1>7, <1>8, <1>9 DEF Knows

\* The message receive() has acknowledged does not come again.
LEMMA ReceiveAutoKnows == ASSUME Typed, Typed', Knows, ReceiveAuto PROVE Knows'
<1> USE DEF Typed
<1>1. /\ hand' = 0
      /\ done' = done \cup {hand}
      /\ apc' = "idle"
      /\ UNCHANGED <<mode, queue, down, dhand, dpc, unconsumed, held, audit,
           clearRequired, clearDelivered, previously, caught, acked>>
  BY Zenon DEF ReceiveAuto, ReceiveReturns, cvars, bvars, nvars, kvars, lvars, rvars,
     fvars, tvars, dvars, hvars
<1>2. apc = "after" /\ hand \in Messages
  BY MessageFacts DEF ReceiveAuto, TypeOK, Hands
<1>3. Coming' = Coming
  BY <1>1 DEF Coming
<1>4. delivered' = <<>>
  BY DEF ReceiveAuto
<1>7. Lists'
  BY <1>1, <1>2, <1>4, EmptyList DEF Knows, Lists
<1>8. Dispatched'
  BY <1>1 DEF Knows, Dispatched
<1>9. ASSUME NEW m \in Messages, m \notin caught' PROVE Known(m)'
  <2>1. Known(m)
    BY <1>1, <1>9 DEF Knows
  <2> QED BY <1>1, <1>3, <1>4, <2>1, EmptyList, MessageFacts DEF Known
<1> QED BY <1>7, <1>8, <1>9 DEF Knows

\* The message that is acknowledged is known, or does not come again.
LEMMA AcknowledgeOneKnows ==
  ASSUME Typed, Typed', Knows, NEW m \in Messages, AcknowledgeOne(m)
  PROVE  Knows'
<1> USE DEF Typed
<1>1. /\ held' = held \ {m}
      /\ done' = done \cup {m}
      /\ apc' = "remove" /\ acked' = m
      /\ UNCHANGED <<mode, queue, down, dhand, dpc, unconsumed, hand, audit,
           clearRequired, clearDelivered, delivered, previously, caught>>
  BY Zenon DEF AcknowledgeOne, cvars, bvars, nvars, kvars, lvars, rvars, fvars, tvars,
     dvars, hvars
<1>2. m \in held /\ apc = "idle" /\ mode = "individual"
  BY DEF AcknowledgeOne
<1>6. Coming' = Coming
  BY <1>1 DEF Coming
<1>7. Lists'
  BY <1>1, <1>2 DEF Knows, Lists
<1>8. Dispatched'
  BY <1>1 DEF Knows, Dispatched
<1>9. ASSUME NEW x \in Messages, x \notin caught' PROVE Known(x)'
  <2>1. Known(x)
    BY <1>1, <1>9 DEF Knows
  <2> QED BY <1>1, <1>2, <1>6, <2>1 DEF Known
<1> QED BY <1>7, <1>8, <1>9 DEF Knows

\* The acknowledged message leaves the list.
LEMMA RemoveAcknowledgedKnows ==
  ASSUME Typed, Typed', Knows, RemoveAcknowledged
  PROVE  Knows'
<1> USE DEF Typed
<1>1. /\ apc' = "idle"
      /\ UNCHANGED <<mode, queue, down, dhand, dpc, unconsumed, hand, held, done, audit,
           clearRequired, clearDelivered, previously, caught>>
  BY Zenon DEF RemoveAcknowledged, cvars, bvars, nvars, kvars, lvars, rvars, fvars, tvars,
     dvars, hvars
<1> DEFINE I == {i \in 1..Len(delivered) : delivered[i] # acked}
<1>2. delivered \in Seq(Messages) /\ I \subseteq 1..Len(delivered) /\ apc = "remove"
  BY DEF TypeOK, RemoveAcknowledged
<1>3. delivered' = KeepAt(delivered, I)
  BY DEF RemoveAcknowledged
<1>4. \A i \in I : delivered[i] \in ToSet(delivered) /\ delivered[i] # acked
  BY <1>2, InList
<1> HIDE DEF I
<1>5. /\ acked \notin ToSet(delivered') /\ ToSet(delivered') \subseteq ToSet(delivered)
      /\ \A x : Once(delivered, x) => Once(delivered', x)
  <2>1. /\ ToSet(delivered') = {delivered[i] : i \in I}
        /\ \A x : Once(delivered, x) => Once(delivered', x)
    BY <1>2, <1>3, Keeps
  <2> QED BY <1>4, <2>1
<1>6. Coming' = Coming
  BY <1>1 DEF Coming
<1>7. Lists'
  BY <1>1, <1>2, <1>5 DEF Knows, Lists
<1>8. Dispatched'
  BY <1>1 DEF Knows, Dispatched
<1>9. ASSUME NEW x \in Messages, x \notin caught' PROVE Known(x)'
  <2>1. Known(x)
    BY <1>1, <1>9 DEF Knows
  <2> QED BY <1>1, <1>2, <1>5, <1>6, <2>1 DEF Known
<1> QED BY <1>7, <1>8, <1>9 DEF Knows

\* receive(), acknowledge(), commit(), rollback() and recover() begin.
LEMMA EnterKnows == ASSUME Typed, Typed', Knows, Enters PROVE Knows'
<1> USE DEF Typed
<1>1. UNCHANGED <<mode, queue, down, dhand, dpc, unconsumed, hand, acked, held, done,
           clearRequired, caught>>
  BY EnterFacts, Zenon DEF Enter, cvars, bvars, nvars, kvars, dvars, hvars
<1>2. /\ clearDelivered' = FALSE /\ ToSet(delivered') \subseteq ToSet(delivered)
      /\ \A m : Once(delivered, m) => Once(delivered', m)
      /\ \A m \in ToSet(delivered') : clearDelivered => previously'[m] = "pending"
      /\ \A m \in ToSet(delivered') : ~clearDelivered => previously'[m] = previously[m]
  BY EnterFacts, ClearedList DEF Enter
<1>3. /\ audit' = audit \ Reopened
      /\ apc \notin {"after", "remove"} /\ apc' \notin {"after", "remove"}
  BY EnterFacts DEF Enter
<1>7. Lists'
  BY <1>1, <1>2, <1>3 DEF Knows, Lists
<1>8. Dispatched'
  BY <1>1 DEF Knows, Dispatched
<1>9. ASSUME NEW m \in Messages, m \notin caught' PROVE Known(m)'
  <2>1. Known(m) /\ Coming' = Coming
    BY <1>1, <1>9 DEF Knows, Coming
  <2>2. m \notin Reopened
    BY <1>1, <1>9, <2>1 DEF Reopened, Knows, Lists, Known
  <2>3. m \in ToSet(delivered') => /\ Once(delivered', m) /\ Once(delivered, m)
                                   /\ previously'[m] = "pending" \/ m \notin Coming
    BY <1>2, <2>1 DEF Known
  <2> QED BY <1>1, <1>2, <1>3, <2>1, <2>2, <2>3 DEF Known
<1> QED BY <1>7, <1>8, <1>9 DEF Knows

\* The transaction is rolled back.
LEMMA AfterRollbackKnows == ASSUME Typed, Typed', Knows, AfterRollback PROVE Knows'
<1> USE DEF Typed
<1>1. UNCHANGED <<mode, queue, down, dhand, dpc, unconsumed, hand, acked, held, done, audit,
           clearRequired, caught>>
  BY Zenon DEF AfterRollback, cvars, bvars, nvars, kvars, lvars, rvars, fvars, tvars,
     dvars, hvars
<1>2. /\ apc \notin {"after", "remove"} /\ apc' \notin {"after", "remove"}
      /\ \/ ClearDeliveredList
         \/ UNCHANGED <<clearDelivered, delivered, previously>>
  BY DEF AfterRollback
<1>3. CASE UNCHANGED <<clearDelivered, delivered, previously>>
  <2>1. Frame
    BY <1>1, <1>2, <1>3 DEF Frame
  <2> QED BY <2>1, FrameKnows
<1>4. CASE ClearDeliveredList
  <2>2. /\ clearDelivered' = FALSE /\ ToSet(delivered') \subseteq ToSet(delivered)
        /\ \A m : Once(delivered, m) => Once(delivered', m)
        /\ \A m \in ToSet(delivered') : clearDelivered => previously'[m] = "pending"
        /\ \A m \in ToSet(delivered') : ~clearDelivered => previously'[m] = previously[m]
    BY <1>4, ClearedList
  <2>7. Lists'
    BY <1>1, <1>2, <2>2 DEF Knows, Lists
  <2>8. Dispatched'
    BY <1>1 DEF Knows, Dispatched
  <2>9. ASSUME NEW m \in Messages, m \notin caught' PROVE Known(m)'
    <3>1. Known(m) /\ Coming' = Coming
      BY <1>1, <2>9 DEF Knows, Coming
    <3>2. m \in ToSet(delivered') => /\ Once(delivered', m)
                                     /\ previously'[m] = "pending" \/ m \notin Coming
      BY <2>2, <3>1 DEF Known
    <3> QED BY <1>1, <1>2, <2>2, <3>1, <3>2 DEF Known
  <2> QED BY <2>7, <2>8, <2>9 DEF Knows
<1> QED BY <1>2, <1>3, <1>4

\* acknowledge() settles what the application holds.
LEMMA AcknowledgeSectionKnows == ASSUME Typed, Typed', Knows, AcknowledgeSection PROVE Knows'
<1> USE DEF Typed
<1>1. /\ done' = done \cup held
      /\ held' = {}
      /\ apc' = "idle"
      /\ UNCHANGED <<mode, queue, down, dhand, dpc, unconsumed, hand, acked, audit,
           clearRequired, clearDelivered, previously, caught>>
  BY Zenon DEF AcknowledgeSection, cvars, bvars, nvars, kvars, lvars, rvars, fvars, tvars,
     dvars, hvars
<1>2. Coming' = Coming
  BY <1>1 DEF Coming
<1>3. delivered' = <<>> /\ apc # "after" /\ caught \subseteq caught'
  BY DEF AcknowledgeSection
<1>7. Lists'
  BY <1>1, <1>3, EmptyList DEF Knows, Lists
<1>8. Dispatched'
  BY <1>1, <1>3 DEF Knows, Dispatched
<1>9. ASSUME NEW m \in Messages, m \notin caught' PROVE Known(m)'
  <2>1. Known(m)
    BY <1>3, <1>9 DEF Knows
  <2> QED BY <1>1, <1>2, <1>3, <2>1, EmptyList DEF Known
<1> QED BY <1>7, <1>8, <1>9 DEF Knows

\* commit() settles what the application holds.
LEMMA AfterCommitKnows == ASSUME Typed, Typed', Knows, AfterCommit PROVE Knows'
<1> USE DEF Typed
<1>1. /\ done' = done \cup held
      /\ held' = {}
      /\ apc' = "idle"
      /\ UNCHANGED <<mode, queue, down, dhand, dpc, unconsumed, hand, acked, audit,
           clearRequired, clearDelivered>>
  BY Zenon DEF AfterCommit, cvars, bvars, nvars, kvars, lvars, rvars, fvars, tvars, dvars,
     hvars
<1>2. Coming' = Coming
  BY <1>1 DEF Coming
<1>3. apc = "awaitCommit" /\ caught \subseteq caught' /\ (~sync => held \subseteq caught')
  BY DEF AfterCommit
<1>4. delivered' = <<>> \/ (~sync /\ delivered' = delivered)
  BY DEF AfterCommit
<1>5. ToSet(delivered') \subseteq caught'
  BY <1>3, <1>4, EmptyList DEF Knows, Lists
<1>7. Lists'
  BY <1>1, <1>5 DEF Knows, Lists
<1>8. Dispatched'
  BY <1>1, <1>3 DEF Knows, Dispatched
<1>9. ASSUME NEW m \in Messages, m \notin caught' PROVE Known(m)'
  <2>1. Known(m)
    BY <1>3, <1>9 DEF Knows
  <2>2. m \notin ToSet(delivered')
    BY <1>5, <1>9
  <2> QED BY <1>1, <1>2, <1>3, <2>1, <2>2 DEF Known
<1> QED BY <1>7, <1>8, <1>9 DEF Knows

\* What a rollback puts back does not come again before the channel is cleared.
LEMMA RollbackConsumerKnows == ASSUME Typed, Typed', Knows, RollbackConsumer PROVE Knows'
<1> USE DEF Typed
<1>1. /\ held' = {}
      /\ apc' = "idle"
      /\ UNCHANGED <<mode, queue, down, dhand, dpc, hand, acked, done, clearRequired,
           clearDelivered, caught>>
  BY Zenon DEF RollbackConsumer, cvars, bvars, nvars, kvars, lvars, rvars, fvars, tvars,
     dvars, hvars
<1> DEFINE ms == KeepAt(delivered, PutBack)
<1>2. /\ ms \in Seq(Messages) /\ unconsumed \in Seq(Messages)
      /\ ToSet(ms) \subseteq ToSet(delivered)
      /\ \A m : Once(delivered, m) => Once(ms, m)
      /\ \A m : Once(delivered, m) /\ m \in ToSet(ms) => m \notin NotReplayed
  <2>1. unconsumed \in Seq(Messages)
    BY DEF TypeOK
  <2> QED BY <2>1, PutBackType
<1>3. /\ unconsumed' = unconsumed \/ unconsumed' = ms \o unconsumed
      /\ apc = "rollbackConsumer" /\ hand = 0
      /\ audit' = audit \ ToSet(delivered) /\ delivered' = <<>>
  <2>1. IF ms # <<>> THEN Redeliver(ms) ELSE UNCHANGED <<redelivery, deliveredCounter, up, kvars>>
    BY Zenon DEF RollbackConsumer, PutBack
  <2> HIDE DEF ms
  <2>2. unconsumed' = unconsumed \/ unconsumed' = ms \o unconsumed
    BY <2>1 DEF Redeliver, kvars
  <2>3. apc = "rollbackConsumer" /\ audit' = audit \ ToSet(delivered) /\ delivered' = <<>>
    BY Zenon DEF RollbackConsumer
  <2>4. hand = 0
    BY <2>3 DEF Hands
  <2> QED BY <2>2, <2>3, <2>4
<1> HIDE DEF ms
<1>4. /\ ToSet(unconsumed') \subseteq ToSet(ms) \cup ToSet(unconsumed)
      /\ \A m : /\ Once(ms, m) /\ Once(unconsumed, m)
                /\ m \in ToSet(ms) => m \notin ToSet(unconsumed)
                => Once(unconsumed', m)
  BY <1>2, <1>3, Joined
<1>5. Coming' = Coming
  BY <1>1 DEF Coming
<1>7. Lists'
  BY <1>1, <1>3, EmptyList DEF Knows, Lists
<1>8. Dispatched'
  BY <1>1 DEF Knows, Dispatched
<1>9. ASSUME NEW m \in Messages, m \notin caught' PROVE Known(m)'
  <2>1. Known(m) /\ (clearDelivered => clearRequired)
    BY <1>1, <1>9 DEF Knows, Lists
  <2>2. m \in ToSet(delivered) => m \in held
    BY <1>1, <1>3, <1>9 DEF Knows, Lists
  <2>3. m \in ToSet(ms) => /\ m \in held /\ Once(delivered, m) /\ m \notin NotReplayed
    BY <1>2, <2>1, <2>2 DEF Known
  <2>4. m \in ToSet(ms) => clearRequired \/ m \notin Coming
    BY <1>2, <2>1, <2>3 DEF Known, NotReplayed
  <2>5. (m \in ToSet(unconsumed) \/ Once(unconsumed, m)) /\ (m \in ToSet(ms) \/ Once(ms, m))
    BY <1>2, InList DEF Once
  <2>6. m \in ToSet(unconsumed') => Once(unconsumed', m)
    <3>1. m \in ToSet(ms) => m \notin ToSet(unconsumed)
      BY <2>1, <2>3 DEF Known
    <3>2. m \in ToSet(unconsumed) => Once(unconsumed, m)
      BY <2>1 DEF Known
    <3> QED BY <1>2, <1>4, <2>3, <2>5, <3>1, <3>2
  <2> QED BY <1>1, <1>3, <1>4, <1>5, <2>1, <2>2, <2>3, <2>4, <2>6, EmptyList, MessageFacts DEF Known
<1> QED BY <1>7, <1>8, <1>9 DEF Knows

\* Initially everything is still to come.
LEMMA InitKnows == ASSUME Init PROVE Knows
<1>1. Lists /\ Dispatched
  BY EmptyList, MessageFacts DEF Init, Lists, Dispatched
<1>2. ASSUME NEW m \in Messages PROVE Known(m)
  BY EmptyList, MessageFacts DEF Init, Known
<1> QED BY <1>1, <1>2 DEF Knows


\* Every step keeps what the client knows.
LEMMA KnowsStep == ASSUME Typed, Typed', Knows, [Next]_vars PROVE Knows'
<1>1. CASE Enters
  BY <1>1, EnterKnows
<1>2. CASE ReceiveNothing
  BY <1>2, ReceiveNothingKnows
<1>3. CASE Dequeue
  BY <1>3, DequeueKnows
<1>4. CASE BeforeMessageIsConsumed
  BY <1>4, BeforeMessageIsConsumedKnows
<1>5. CASE ReceiveTransacted
  BY <1>5, ReceiveTransactedKnows
<1>6. CASE ReceiveAuto
  BY <1>6, ReceiveAutoKnows
<1>7. CASE ReceiveManual
  BY <1>7, ReceiveManualKnows
<1>8. CASE AcknowledgeSection
  BY <1>8, AcknowledgeSectionKnows
<1>9. CASE RemoveAcknowledged
  BY <1>9, RemoveAcknowledgedKnows
<1>10. CASE BeforeEnd
  BY <1>10, BeforeEndKnows
<1>11. CASE SendCommit
  BY <1>11, SendCommitKnows
<1>12. CASE SendRollback
  BY <1>12, SendRollbackKnows
<1>13. CASE AfterCommit
  BY <1>13, AfterCommitKnows
<1>14. CASE CommitInDoubt
  BY <1>14, CommitInDoubtKnows
<1>15. CASE AfterRollback
  BY <1>15, AfterRollbackKnows
<1>16. CASE RollbackConsumer
  BY <1>16, RollbackConsumerKnows
<1>17. CASE DispatchTake
  BY <1>17, DispatchTakeKnows
<1>18. CASE DispatchClear
  BY <1>18, DispatchClearKnows
<1>19. CASE DispatchEnqueue
  BY <1>19, DispatchEnqueueKnows
<1>20. CASE ClearConsumerTask
  BY <1>20, ClearConsumerTaskKnows
<1>21. CASE StartConsumerTask
  BY <1>21, StartConsumerTaskKnows
<1>22. CASE BrokerProcess
  BY <1>22, BrokerProcessKnows
<1>23. CASE BrokerDispatch
  BY <1>23, BrokerDispatchKnows
<1>24. CASE TransportInterrupted
  BY <1>24, TransportInterruptedKnows
<1>25. CASE Restore
  BY <1>25, RestoreKnows
<1>26. CASE \E m \in Messages : AcknowledgeOne(m)
  BY <1>26, AcknowledgeOneKnows
<1>27. CASE UNCHANGED vars
  <2>1. Frame
    BY <1>27 DEF Frame, vars, cvars, bvars, nvars, kvars, lvars, rvars, fvars, tvars,
       dvars, hvars
  <2> QED BY <2>1, FrameKnows
<1> QED BY <1>1, <1>2, <1>3, <1>4, <1>5, <1>6, <1>7, <1>8, <1>9, <1>10, <1>11, <1>12,
   <1>13, <1>14, <1>15, <1>16, <1>17, <1>18, <1>19, <1>20, <1>21, <1>22, <1>23, <1>24,
   <1>25, <1>26, <1>27 DEF Next, Receive, Settle, Undo, DispatchStep, Scheduler,
   Broker, Enters

-----------------------------------------------------------------------------
(* Theorems *)

\* The invariant behind the theorems below: for any acknowledge modes, prefetch
\* size, redelivery limits, and any number of messages, lost connections and
\* rollbacks, the lists of ActiveMQConsumerKernel, the audit and the dispatching
\* thread agree on where an uncaught message is.
THEOREM ConsumerInductive == Spec => []Client
<1>1. Init => Typed /\ Knows
  BY InitTyped, InitKnows
<1>2. Typed /\ Knows /\ [Next]_vars => Typed' /\ Knows'
  BY TypedStep, KnowsStep
<1>3. Spec => [](Typed /\ Knows)
  BY <1>1, <1>2, PTL DEF Spec
<1>4. Typed /\ Knows => Client
  BY DEF Typed, Knows, Client
<1> QED BY <1>3, <1>4, PTL

\* Types, and: ackLater() keeps the counter of deliveries that the broker has not
\* heard of below half the prefetch size, through acknowledge() and rollback().
THEOREM ConsumerTypeCorrect == Spec => []TypeOK
<1>1. Client => TypeOK
  BY DEF Client
<1> QED BY <1>1, ConsumerInductive, PTL

\* A message the application has settled is not given to it again although the
\* broker dispatches it again after a lost connection, unless the interruption
\* caught it half way, or the commit() that settled it was one retried after a
\* failure, which leaves it with the consumer: however the clear tasks, dispatch(),
\* receive(), commit() that fails or not, rollback() and the lost connections
\* interleave.
THEOREM NeverGivenAgain == Spec => []NotGivenAgain
<1>1. Client => NotGivenAgain
  <2> SUFFICES ASSUME Client, hand \in done, hand \notin caught PROVE FALSE
    BY DEF NotGivenAgain
  <2>1. hand \in Messages
    BY DEF Client, TypeOK
  <2>2. Known(hand)
    BY <2>1 DEF Client
  <2> QED BY <2>2 DEF Known
<1> QED BY <1>1, ConsumerInductive, PTL

=============================================================================
