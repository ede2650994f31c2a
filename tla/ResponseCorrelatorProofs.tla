----------------------- MODULE ResponseCorrelatorProofs -----------------------
(***************************************************************************)
(* Invariance proofs for ResponseCorrelator, for any set of threads, any   *)
(* number of commands and any number of answers per command.               *)
(*                                                                         *)
(* None of the safety invariants is inductive alone.  The strengthening    *)
(* IInv says who owns a command id: a thread that is inside a request owns *)
(* its id alone; an id not handed out yet is nowhere; a registered future  *)
(* is in exactly one of the map and the copies and is not completed; and   *)
(* while no error is recorded there are no copies, so dispose() never      *)
(* overwrites one.                                                         *)
(*                                                                         *)
(* ResponseCorrelator then implements RequestService: each critical        *)
(* section of the correlator is a step of the service or a stutter of it.  *)
(* For that the argument needs to know when a command id gets its kind,    *)
(* because the abstract status tells an id nobody has used from one that   *)
(* was withdrawn.                                                          *)
(***************************************************************************)
EXTENDS ResponseCorrelator, TLAPS

Active(t) == pc[t] # "idle"

\* Inside a request a thread owns the command id it was given.
OwnsId ==
    /\ \A t \in Threads :
         Active(t) => cmd[t] \in Ids /\ cmd[t] < nextCommandId
    /\ \A t, u \in Threads : Active(t) /\ Active(u) /\ t # u => cmd[t] # cmd[u]

\* Ids that were not handed out yet are not in use.
FreshUnused ==
    \A i \in Ids : i >= nextCommandId =>
        /\ i \notin requestMap
        /\ \A d \in Disposers : i \notin requestsCopy[d]
        /\ completions[i] = 0

\* Between the id and the map section nothing knows the command.
RegisteringUnused ==
    \A t \in Threads : pc[t] = "register" =>
        /\ cmd[t] \notin requestMap
        /\ \A d \in Disposers : cmd[t] \notin requestsCopy[d]
        /\ completions[cmd[t]] = 0

\* What can still be completed is not completed, and is in one place only.
PendingOnce ==
    /\ \A i \in requestMap :
         completions[i] = 0 /\ \A d \in Disposers : i \notin requestsCopy[d]
    /\ \A d \in Disposers : \A i \in requestsCopy[d] : completions[i] = 0
    /\ \A d, e \in Disposers : d # e => requestsCopy[d] \cap requestsCopy[e] = {}
    /\ priorError = "none" => \A d \in Disposers : requestsCopy[d] = {}

\* The latch is open exactly when setResponse ran.
LatchIsCompletion == \A i \in Ids : response[i] = "none" <=> completions[i] = 0

\* WaiterIsReachable, from the moment the future is registered.
SenderIsReachable ==
    \A t \in Threads :
        pc[t] \in {"send", "await"} /\ completions[cmd[t]] = 0 =>
            \/ cmd[t] \in requestMap
            \/ \E d \in Disposers : cmd[t] \in requestsCopy[d]

IInv ==
    /\ TypeOK
    /\ OwnsId
    /\ FreshUnused
    /\ RegisteringUnused
    /\ PendingOnce
    /\ LatchIsCompletion
    /\ CompletedAtMostOnce
    /\ NoLeakedRequest
    /\ SenderIsReachable

-----------------------------------------------------------------------------
\* The constructor leaves an empty map, no error and no futures.
LEMMA InitIInv == Init => IInv
<1> SUFFICES ASSUME Init PROVE IInv
  OBVIOUS
<1> USE CorrelatorAssumption DEF Init, Ids
<1>1. TypeOK
  <2>1. nextCommandId \in 1..(MaxCommandId + 1) /\ wire \in [Ids -> 0..MaxReplies]
    OBVIOUS
  <2>2. pc \in [Threads -> {"idle", "register", "send", "await", "finalize"}]
        /\ dpc \in [Disposers -> {"idle", "stopped", "closing", "complete", "done"}]
    OBVIOUS
  <2> QED BY <2>1, <2>2 DEF TypeOK
<1>4. CompletedAtMostOnce
  BY DEF CompletedAtMostOnce
<1>2. OwnsId /\ FreshUnused /\ RegisteringUnused
  BY DEF OwnsId, FreshUnused, RegisteringUnused, Active
<1>3. PendingOnce /\ LatchIsCompletion /\ NoLeakedRequest /\ SenderIsReachable
  BY DEF PendingOnce, LatchIsCompletion, NoLeakedRequest, SenderIsReachable
<1> QED BY <1>1, <1>2, <1>3, <1>4 DEF IInv

\* Taking a command id: the id is fresh, so nothing knows it.
LEMMA RequestIInv ==
  ASSUME IInv, NEW t \in Threads, NEW k \in Kinds, Request(t, k)
  PROVE  IInv'
<1> USE CorrelatorAssumption DEF IInv, TypeOK, Request, Goto, Ids,
      Disposers, cvars, fvars, dvars, lvars
<1>1. TypeOK'
  BY DEF OwnsId, Active
<1>2. OwnsId'
  BY DEF OwnsId, Active
<1>3. FreshUnused'
  BY DEF OwnsId, FreshUnused, Active
<1>4. RegisteringUnused'
  BY DEF OwnsId, FreshUnused, RegisteringUnused, Active
<1>5. PendingOnce'
  BY DEF OwnsId, FreshUnused, RegisteringUnused, PendingOnce, Active
<1>6. LatchIsCompletion'
  BY DEF LatchIsCompletion, OwnsId, Active
<1>7. CompletedAtMostOnce'
  BY DEF CompletedAtMostOnce, PendingOnce, RegisteringUnused, OwnsId, Active
<1>8. NoLeakedRequest'
  <2> SUFFICES ASSUME NEW i \in requestMap
               PROVE  \/ kind'[i] = "asyncRequest"
                      \/ \E u \in Threads :
                           cmd'[u] = i /\ pc'[u] \in {"send", "await", "finalize"}
    BY DEF NoLeakedRequest
  <2>1. i # nextCommandId /\ i \in Ids
    BY DEF FreshUnused
  <2>2. CASE kind[i] = "asyncRequest"
    BY <2>1, <2>2
  <2>3. CASE \E u \in Threads :
               cmd[u] = i /\ pc[u] \in {"send", "await", "finalize"}
    BY <2>3
  <2> QED BY <2>2, <2>3 DEF NoLeakedRequest
<1>9. SenderIsReachable'
  BY DEF SenderIsReachable, OwnsId, PendingOnce, LatchIsCompletion, Active
<1> QED BY <1>1, <1>2, <1>3, <1>4, <1>5, <1>6, <1>7, <1>8, <1>9

\* The mapMutex section of request(): registered, or refused on a prior error.
LEMMA RegisterIInv ==
  ASSUME IInv, NEW t \in Threads, Register(t)
  PROVE  IInv'
<1> DEFINE i == cmd[t]
<1> USE CorrelatorAssumption
<1>1. /\ i \in Ids /\ i < nextCommandId /\ pc[t] = "register"
      /\ i \notin requestMap /\ completions[i] = 0
      /\ \A d \in Disposers : i \notin requestsCopy[d]
  BY DEF IInv, OwnsId, RegisteringUnused, Register, Active
<1>2. CASE priorError = "none"
  <2>1. /\ requestMap' = requestMap \cup {i} /\ pc' = [pc EXCEPT ![t] = "send"]
        /\ UNCHANGED <<nextCommandId, kind, cmd, response, completions, dpc>>
        /\ UNCHANGED <<requestsCopy, closed, broken, priorError, wire>>
    BY <1>2 DEF Register, Goto, fvars, dvars, lvars
  <2> HIDE DEF i
  <2> USE <1>1, <2>1 DEF IInv
  <2>a. i = cmd[t]
    BY DEF i
  <2> USE <2>a
  <2>2. TypeOK'
    BY DEF TypeOK
  <2>3. OwnsId' /\ FreshUnused'
    BY DEF OwnsId, FreshUnused, Active, TypeOK, Ids
  <2>4. RegisteringUnused'
    BY DEF OwnsId, RegisteringUnused, Active, TypeOK
  <2>5. PendingOnce'
    BY DEF PendingOnce, TypeOK
  <2>6. LatchIsCompletion' /\ CompletedAtMostOnce'
    BY DEF LatchIsCompletion, CompletedAtMostOnce
  <2>7. NoLeakedRequest'
    BY DEF NoLeakedRequest, TypeOK
  <2>8. SenderIsReachable'
    BY DEF SenderIsReachable, TypeOK
  <2> QED BY <2>2, <2>3, <2>4, <2>5, <2>6, <2>7, <2>8
<1>3. CASE priorError # "none"
  <2>1. /\ pc' = [pc EXCEPT ![t] = "idle"]
        /\ \/ UNCHANGED <<response, completions>>
           \/ /\ response' = [response EXCEPT ![i] = "error"]
              /\ completions' = [completions EXCEPT ![i] = @ + 1]
        /\ UNCHANGED <<nextCommandId, kind, cmd, dpc, requestMap>>
        /\ UNCHANGED <<requestsCopy, closed, broken, priorError, wire>>
    BY <1>3 DEF Register, Goto, SetResponse, fvars, dvars, lvars
  <2> HIDE DEF i
  <2> USE <1>1, <2>1 DEF IInv
  <2>a. i = cmd[t]
    BY DEF i
  <2> USE <2>a
  <2>2. TypeOK'
    BY DEF TypeOK
  <2>3. OwnsId' /\ FreshUnused'
    BY DEF OwnsId, FreshUnused, Active, TypeOK, Ids
  <2>4. RegisteringUnused'
    BY DEF OwnsId, RegisteringUnused, Active, TypeOK
  <2>5. PendingOnce'
    BY DEF PendingOnce, TypeOK
  <2>6. LatchIsCompletion' /\ CompletedAtMostOnce'
    BY DEF LatchIsCompletion, CompletedAtMostOnce, TypeOK
  <2>7. NoLeakedRequest'
    BY DEF NoLeakedRequest, TypeOK
  <2>8. SenderIsReachable'
    BY DEF SenderIsReachable, OwnsId, Active, TypeOK
  <2> QED BY <2>2, <2>3, <2>4, <2>5, <2>6, <2>7, <2>8
<1> QED BY <1>2, <1>3

\* next->oneway() returns; only the thread's position changes.
LEMMA SendIInv ==
  ASSUME IInv, NEW t \in Threads, Send(t)
  PROVE  IInv'
<1> USE CorrelatorAssumption DEF IInv, TypeOK, Send, Goto, Ids,
      Disposers, cvars, fvars, dvars, lvars
<1>1. TypeOK'
  BY DEF OwnsId, Active
<1>2. OwnsId'
  BY DEF OwnsId, Active
<1>3. FreshUnused'
  BY DEF OwnsId, FreshUnused, Active
<1>4. RegisteringUnused'
  BY DEF OwnsId, FreshUnused, RegisteringUnused, Active
<1>5. PendingOnce'
  BY DEF OwnsId, FreshUnused, RegisteringUnused, PendingOnce, Active
<1>6. LatchIsCompletion'
  BY DEF LatchIsCompletion, OwnsId, Active
<1>7. CompletedAtMostOnce'
  BY DEF CompletedAtMostOnce, PendingOnce, RegisteringUnused, OwnsId, Active
<1>8. NoLeakedRequest'
  BY DEF NoLeakedRequest, FreshUnused, OwnsId, Active
<1>9. SenderIsReachable'
  BY DEF SenderIsReachable, OwnsId, PendingOnce, LatchIsCompletion, Active
<1> QED BY <1>1, <1>2, <1>3, <1>4, <1>5, <1>6, <1>7, <1>8, <1>9

\* next->oneway() throws; the finalizer is still to run.
LEMMA SendThrowsIInv ==
  ASSUME IInv, NEW t \in Threads, SendThrows(t)
  PROVE  IInv'
<1> USE CorrelatorAssumption DEF IInv, TypeOK, SendThrows, Goto, Ids,
      Disposers, cvars, fvars, dvars, lvars
<1>1. TypeOK'
  BY DEF OwnsId, Active
<1>2. OwnsId'
  BY DEF OwnsId, Active
<1>3. FreshUnused'
  BY DEF OwnsId, FreshUnused, Active
<1>4. RegisteringUnused'
  BY DEF OwnsId, FreshUnused, RegisteringUnused, Active
<1>5. PendingOnce'
  BY DEF OwnsId, FreshUnused, RegisteringUnused, PendingOnce, Active
<1>6. LatchIsCompletion'
  BY DEF LatchIsCompletion, OwnsId, Active
<1>7. CompletedAtMostOnce'
  BY DEF CompletedAtMostOnce, PendingOnce, RegisteringUnused, OwnsId, Active
<1>8. NoLeakedRequest'
  BY DEF NoLeakedRequest, FreshUnused, OwnsId, Active
<1>9. SenderIsReachable'
  BY DEF SenderIsReachable, OwnsId, PendingOnce, LatchIsCompletion, Active
<1> QED BY <1>1, <1>2, <1>3, <1>4, <1>5, <1>6, <1>7, <1>8, <1>9

\* The latch is open.
LEMMA AwaitIInv ==
  ASSUME IInv, NEW t \in Threads, Await(t)
  PROVE  IInv'
<1> USE CorrelatorAssumption DEF IInv, TypeOK, Await, Goto, Ids,
      Disposers, cvars, fvars, dvars, lvars
<1>1. TypeOK'
  BY DEF OwnsId, Active
<1>2. OwnsId'
  BY DEF OwnsId, Active
<1>3. FreshUnused'
  BY DEF OwnsId, FreshUnused, Active
<1>4. RegisteringUnused'
  BY DEF OwnsId, FreshUnused, RegisteringUnused, Active
<1>5. PendingOnce'
  BY DEF OwnsId, FreshUnused, RegisteringUnused, PendingOnce, Active
<1>6. LatchIsCompletion'
  BY DEF LatchIsCompletion, OwnsId, Active
<1>7. CompletedAtMostOnce'
  BY DEF CompletedAtMostOnce, PendingOnce, RegisteringUnused, OwnsId, Active
<1>8. NoLeakedRequest'
  BY DEF NoLeakedRequest, FreshUnused, OwnsId, Active
<1>9. SenderIsReachable'
  BY DEF SenderIsReachable, OwnsId, PendingOnce, LatchIsCompletion, Active
<1> QED BY <1>1, <1>2, <1>3, <1>4, <1>5, <1>6, <1>7, <1>8, <1>9

\* getResponse(timeout) gives up.
LEMMA TimeoutIInv ==
  ASSUME IInv, NEW t \in Threads, Timeout(t)
  PROVE  IInv'
<1> USE CorrelatorAssumption DEF IInv, TypeOK, Timeout, Goto, Ids,
      Disposers, cvars, fvars, dvars, lvars
<1>1. TypeOK'
  BY DEF OwnsId, Active
<1>2. OwnsId'
  BY DEF OwnsId, Active
<1>3. FreshUnused'
  BY DEF OwnsId, FreshUnused, Active
<1>4. RegisteringUnused'
  BY DEF OwnsId, FreshUnused, RegisteringUnused, Active
<1>5. PendingOnce'
  BY DEF OwnsId, FreshUnused, RegisteringUnused, PendingOnce, Active
<1>6. LatchIsCompletion'
  BY DEF LatchIsCompletion, OwnsId, Active
<1>7. CompletedAtMostOnce'
  BY DEF CompletedAtMostOnce, PendingOnce, RegisteringUnused, OwnsId, Active
<1>8. NoLeakedRequest'
  BY DEF NoLeakedRequest, FreshUnused, OwnsId, Active
<1>9. SenderIsReachable'
  BY DEF SenderIsReachable, OwnsId, PendingOnce, LatchIsCompletion, Active
<1> QED BY <1>1, <1>2, <1>3, <1>4, <1>5, <1>6, <1>7, <1>8, <1>9

\* ~ResponseFinalizer removes the thread's own entry and no other.
LEMMA FinalizeIInv ==
  ASSUME IInv, NEW t \in Threads, Finalize(t)
  PROVE  IInv'
<1> USE CorrelatorAssumption DEF IInv, TypeOK, Finalize, Goto, Ids,
      Disposers, cvars, fvars, dvars, lvars
<1>1. TypeOK'
  BY DEF OwnsId, Active
<1>2. OwnsId'
  BY DEF OwnsId, Active
<1>3. FreshUnused'
  BY DEF OwnsId, FreshUnused, Active
<1>4. RegisteringUnused'
  BY DEF OwnsId, FreshUnused, RegisteringUnused, Active
<1>5. PendingOnce'
  BY DEF OwnsId, FreshUnused, RegisteringUnused, PendingOnce, Active
<1>6. LatchIsCompletion'
  BY DEF LatchIsCompletion, OwnsId, Active
<1>7. CompletedAtMostOnce'
  BY DEF CompletedAtMostOnce, PendingOnce, RegisteringUnused, OwnsId, Active
<1>8. NoLeakedRequest'
  BY DEF NoLeakedRequest, FreshUnused, OwnsId, Active
<1>9. SenderIsReachable'
  BY DEF SenderIsReachable, OwnsId, PendingOnce, LatchIsCompletion, Active
<1> QED BY <1>1, <1>2, <1>3, <1>4, <1>5, <1>6, <1>7, <1>8, <1>9

\* oneway() only takes an id.
LEMMA OnewayIInv ==
  ASSUME IInv, Oneway
  PROVE  IInv'
<1> USE CorrelatorAssumption DEF IInv, TypeOK, Oneway, Ids,
      Disposers, cvars, fvars, dvars, lvars
<1>1. TypeOK'
  BY DEF OwnsId, Active
<1>2. OwnsId'
  BY DEF OwnsId, Active
<1>3. FreshUnused'
  BY DEF OwnsId, FreshUnused, Active
<1>4. RegisteringUnused'
  BY DEF OwnsId, FreshUnused, RegisteringUnused, Active
<1>5. PendingOnce'
  BY DEF OwnsId, FreshUnused, RegisteringUnused, PendingOnce, Active
<1>6. LatchIsCompletion'
  BY DEF LatchIsCompletion, OwnsId, Active
<1>7. CompletedAtMostOnce'
  BY DEF CompletedAtMostOnce, PendingOnce, RegisteringUnused, OwnsId, Active
<1>8. NoLeakedRequest'
  BY DEF NoLeakedRequest, FreshUnused, OwnsId, Active
<1>9. SenderIsReachable'
  BY DEF SenderIsReachable, OwnsId, PendingOnce, LatchIsCompletion, Active
<1> QED BY <1>1, <1>2, <1>3, <1>4, <1>5, <1>6, <1>7, <1>8, <1>9

\* A response completes the future it takes out of the map, or is an orphan.
LEMMA OnCommandIInv ==
  ASSUME IInv, NEW i \in Ids, NEW r \in Replies, OnCommand(i, r)
  PROVE  IInv'
<1> USE CorrelatorAssumption
<1>1. wire' \in [Ids -> 0..MaxReplies]
  BY DEF IInv, TypeOK, OnCommand
<1>2. CASE i \in requestMap
  <2>1. /\ requestMap' = requestMap \ {i}
        /\ response' = [response EXCEPT ![i] = r]
        /\ completions' = [completions EXCEPT ![i] = @ + 1]
        /\ UNCHANGED <<nextCommandId, kind, pc, cmd, dpc, requestsCopy, closed, broken, priorError>>
    BY <1>2 DEF OnCommand, SetResponse, cvars, dvars, lvars
  <2>2. completions[i] = 0 /\ \A d \in Disposers : i \notin requestsCopy[d]
    BY <1>2 DEF IInv, PendingOnce
  <2>3. r \in {"ok", "error"} /\ i < nextCommandId
    BY <1>2 DEF IInv, FreshUnused, TypeOK, Ids
  <2> USE <1>1, <1>2, <2>1, <2>2, <2>3 DEF IInv
  <2>4. TypeOK'
    BY DEF TypeOK
  <2>5. OwnsId' /\ FreshUnused'
    BY DEF OwnsId, FreshUnused, Active, TypeOK, Ids
  <2>6. RegisteringUnused'
    BY DEF RegisteringUnused, TypeOK, OwnsId, Active
  <2>7. PendingOnce'
    BY DEF PendingOnce, TypeOK
  <2>8. LatchIsCompletion' /\ CompletedAtMostOnce'
    BY DEF LatchIsCompletion, CompletedAtMostOnce, TypeOK
  <2>9. NoLeakedRequest' /\ SenderIsReachable'
    BY DEF NoLeakedRequest, SenderIsReachable, TypeOK, OwnsId, Active
  <2> QED BY <2>4, <2>5, <2>6, <2>7, <2>8, <2>9
<1>3. CASE i \notin requestMap
  <2>1. /\ priorError' \in {priorError, "broker"} /\ (priorError' = "none" => priorError = "none")
        /\ UNCHANGED <<nextCommandId, kind, pc, cmd, dpc, requestsCopy, closed, broken,
                       requestMap, response, completions>>
    BY <1>3 DEF OnCommand, cvars, fvars, dvars, lvars
  <2> USE <1>1, <2>1 DEF IInv
  <2>4. TypeOK'
    BY DEF TypeOK
  <2>5. OwnsId' /\ FreshUnused' /\ RegisteringUnused'
    BY DEF OwnsId, FreshUnused, RegisteringUnused, Active
  <2>7. PendingOnce'
    BY DEF PendingOnce
  <2>8. LatchIsCompletion' /\ CompletedAtMostOnce'
    BY DEF LatchIsCompletion, CompletedAtMostOnce
  <2>9. NoLeakedRequest' /\ SenderIsReachable'
    BY DEF NoLeakedRequest, SenderIsReachable
  <2> QED BY <2>4, <2>5, <2>7, <2>8, <2>9
<1> QED BY <1>2, <1>3

\* dispose()'s map section, for whichever thread runs it.
LEMMA TakeRequestsIInv ==
  ASSUME IInv, NEW d \in Disposers, TakeRequests(d),
         UNCHANGED <<nextCommandId, kind, pc, cmd, response, completions, wire>>,
         closed' \in BOOLEAN, broken' \in BOOLEAN
  PROVE  IInv'
<1> USE CorrelatorAssumption DEF IInv
<1>1. dpc' \in [Disposers -> {"idle", "stopped", "closing", "complete", "done"}]
  BY DEF TakeRequests, TypeOK
<1>2. CASE priorError = "none"
  <2>1. /\ priorError' = "io" /\ requestMap' = {}
        /\ requestsCopy' = [requestsCopy EXCEPT ![d] = requestMap]
    BY <1>2 DEF TakeRequests
  <2>2. \A e \in Disposers : requestsCopy[e] = {}
    BY <1>2 DEF PendingOnce
  <2>3. \A e \in Disposers : requestsCopy'[e] = IF e = d THEN requestMap ELSE {}
    BY <2>1, <2>2 DEF TypeOK
  <2> USE <1>1, <2>1, <2>3
  <2>4. TypeOK'
    BY DEF TypeOK
  <2>5. OwnsId' /\ FreshUnused' /\ RegisteringUnused'
    BY DEF OwnsId, FreshUnused, RegisteringUnused, Active
  <2>6. PendingOnce'
    BY DEF PendingOnce
  <2>7. LatchIsCompletion' /\ CompletedAtMostOnce'
    BY DEF LatchIsCompletion, CompletedAtMostOnce
  <2>8. NoLeakedRequest' /\ SenderIsReachable'
    BY <2>2 DEF NoLeakedRequest, SenderIsReachable
  <2> QED BY <2>4, <2>5, <2>6, <2>7, <2>8
<1>3. CASE priorError # "none"
  <2>1. UNCHANGED <<priorError, requestMap, requestsCopy>>
    BY <1>3 DEF TakeRequests
  <2> USE <1>1, <2>1
  <2>4. TypeOK'
    BY DEF TypeOK
  <2>5. OwnsId' /\ FreshUnused' /\ RegisteringUnused'
    BY DEF OwnsId, FreshUnused, RegisteringUnused, Active
  <2>6. PendingOnce'
    BY DEF PendingOnce
  <2>7. LatchIsCompletion' /\ CompletedAtMostOnce'
    BY DEF LatchIsCompletion, CompletedAtMostOnce
  <2>8. NoLeakedRequest' /\ SenderIsReachable'
    BY DEF NoLeakedRequest, SenderIsReachable
  <2> QED BY <2>4, <2>5, <2>6, <2>7, <2>8
<1> QED BY <1>2, <1>3

\* One turn of dispose()'s loop completes a future only this copy holds.
LEMMA FailRequestIInv ==
  ASSUME IInv, NEW d \in Disposers, FailRequest(d)
  PROVE  IInv'
<1> USE CorrelatorAssumption DEF IInv
<1> PICK i \in requestsCopy[d] :
       /\ response' = [response EXCEPT ![i] = "error"]
       /\ completions' = [completions EXCEPT ![i] = @ + 1]
       /\ requestsCopy' = [requestsCopy EXCEPT ![d] = @ \ {i}]
  BY DEF FailRequest, SetResponse
<1>1. UNCHANGED <<nextCommandId, kind, pc, cmd, dpc, requestMap, priorError, wire, closed, broken>>
  BY DEF FailRequest, cvars, lvars
<1>2. i \in Ids /\ completions[i] = 0 /\ i \notin requestMap
  BY DEF TypeOK, PendingOnce
<1> USE <1>1, <1>2
<1>3. TypeOK'
  BY DEF TypeOK
<1>4. OwnsId' /\ FreshUnused' /\ RegisteringUnused'
  BY DEF OwnsId, FreshUnused, RegisteringUnused, Active, TypeOK
<1>5. PendingOnce'
  BY DEF PendingOnce, TypeOK
<1>6. LatchIsCompletion' /\ CompletedAtMostOnce'
  BY DEF LatchIsCompletion, CompletedAtMostOnce, TypeOK
<1>7. NoLeakedRequest'
  BY DEF NoLeakedRequest
<1>8. SenderIsReachable'
  BY DEF SenderIsReachable, TypeOK, OwnsId, Active
<1> QED BY <1>3, <1>4, <1>5, <1>6, <1>7, <1>8

\* dispose() has worked through its copy.
LEMMA DisposeReturnsIInv ==
  ASSUME IInv, NEW d \in Disposers, DisposeReturns(d)
  PROVE  IInv'
<1> USE CorrelatorAssumption DEF IInv, TypeOK, DisposeReturns, Ids,
      Disposers, cvars, fvars, dvars, lvars
<1>1. TypeOK'
  BY DEF OwnsId, Active
<1>2. OwnsId'
  BY DEF OwnsId, Active
<1>3. FreshUnused'
  BY DEF OwnsId, FreshUnused, Active
<1>4. RegisteringUnused'
  BY DEF OwnsId, FreshUnused, RegisteringUnused, Active
<1>5. PendingOnce'
  BY DEF OwnsId, FreshUnused, RegisteringUnused, PendingOnce, Active
<1>6. LatchIsCompletion'
  BY DEF LatchIsCompletion, OwnsId, Active
<1>7. CompletedAtMostOnce'
  BY DEF CompletedAtMostOnce, PendingOnce, RegisteringUnused, OwnsId, Active
<1>8. NoLeakedRequest'
  BY DEF NoLeakedRequest, FreshUnused, OwnsId, Active
<1>9. SenderIsReachable'
  BY DEF SenderIsReachable, OwnsId, PendingOnce, LatchIsCompletion, Active
<1> QED BY <1>1, <1>2, <1>3, <1>4, <1>5, <1>6, <1>7, <1>8, <1>9

\* close() before its compare-and-set.
LEMMA CloseStopIInv ==
  ASSUME IInv, NEW d \in Closers, CloseStop(d)
  PROVE  IInv'
<1> USE CorrelatorAssumption DEF IInv, TypeOK, CloseStop, Ids,
      Disposers, cvars, fvars, dvars, lvars
<1>1. TypeOK'
  BY DEF OwnsId, Active
<1>2. OwnsId'
  BY DEF OwnsId, Active
<1>3. FreshUnused'
  BY DEF OwnsId, FreshUnused, Active
<1>4. RegisteringUnused'
  BY DEF OwnsId, FreshUnused, RegisteringUnused, Active
<1>5. PendingOnce'
  BY DEF OwnsId, FreshUnused, RegisteringUnused, PendingOnce, Active
<1>6. LatchIsCompletion'
  BY DEF LatchIsCompletion, OwnsId, Active
<1>7. CompletedAtMostOnce'
  BY DEF CompletedAtMostOnce, PendingOnce, RegisteringUnused, OwnsId, Active
<1>8. NoLeakedRequest'
  BY DEF NoLeakedRequest, FreshUnused, OwnsId, Active
<1>9. SenderIsReachable'
  BY DEF SenderIsReachable, OwnsId, PendingOnce, LatchIsCompletion, Active
<1> QED BY <1>1, <1>2, <1>3, <1>4, <1>5, <1>6, <1>7, <1>8, <1>9

\* close()'s compare-and-set.
LEMMA CloseMarkIInv ==
  ASSUME IInv, NEW d \in Closers, CloseMark(d)
  PROVE  IInv'
<1> USE CorrelatorAssumption DEF IInv, TypeOK, CloseMark, Ids,
      Disposers, cvars, fvars, dvars, lvars
<1>1. TypeOK'
  BY DEF OwnsId, Active
<1>2. OwnsId'
  BY DEF OwnsId, Active
<1>3. FreshUnused'
  BY DEF OwnsId, FreshUnused, Active
<1>4. RegisteringUnused'
  BY DEF OwnsId, FreshUnused, RegisteringUnused, Active
<1>5. PendingOnce'
  BY DEF OwnsId, FreshUnused, RegisteringUnused, PendingOnce, Active
<1>6. LatchIsCompletion'
  BY DEF LatchIsCompletion, OwnsId, Active
<1>7. CompletedAtMostOnce'
  BY DEF CompletedAtMostOnce, PendingOnce, RegisteringUnused, OwnsId, Active
<1>8. NoLeakedRequest'
  BY DEF NoLeakedRequest, FreshUnused, OwnsId, Active
<1>9. SenderIsReachable'
  BY DEF SenderIsReachable, OwnsId, PendingOnce, LatchIsCompletion, Active
<1> QED BY <1>1, <1>2, <1>3, <1>4, <1>5, <1>6, <1>7, <1>8, <1>9

\* Every step of every thread keeps the inductive invariant.
LEMMA NextIInv == IInv /\ [Next]_vars => IInv'
<1> SUFFICES ASSUME IInv, [Next]_vars PROVE IInv'
  OBVIOUS
<1>1. ASSUME NEW t \in Threads, NEW k \in Kinds, Request(t, k) PROVE IInv'
  BY <1>1, RequestIInv
<1>2. ASSUME NEW t \in Threads, ThreadStep(t) \/ Timeout(t) PROVE IInv'
  BY <1>2, RegisterIInv, SendIInv, SendThrowsIInv, AwaitIInv, TimeoutIInv,
     FinalizeIInv DEF ThreadStep
<1>3. CASE Oneway
  BY <1>3, OnewayIInv
<1>4. ASSUME NEW i \in Ids, NEW r \in Replies, OnCommand(i, r) PROVE IInv'
  BY <1>4, OnCommandIInv
<1>5. CASE OnException
  <2>1. closed' \in BOOLEAN /\ broken' \in BOOLEAN
    BY <1>5 DEF OnException, IInv, TypeOK
  <2>2. Reader \in Disposers /\ TakeRequests(Reader)
    BY <1>5 DEF OnException, Disposers
  <2>3. UNCHANGED <<nextCommandId, kind, pc, cmd, response, completions, wire>>
    BY <1>5 DEF OnException, cvars, fvars
  <2> QED BY <2>1, <2>2, <2>3, TakeRequestsIInv
<1>6. ASSUME NEW d \in Disposers, DisposeStep(d) PROVE IInv'
  BY <1>6, FailRequestIInv, DisposeReturnsIInv DEF DisposeStep
<1>7. ASSUME NEW d \in Closers, DoClose(d) PROVE IInv'
  <2>1. closed' \in BOOLEAN /\ broken' \in BOOLEAN
    BY <1>7 DEF DoClose, lvars, IInv, TypeOK
  <2>2. d \in Disposers /\ TakeRequests(d)
    BY <1>7 DEF DoClose, Disposers
  <2>3. UNCHANGED <<nextCommandId, kind, pc, cmd, response, completions, wire>>
    BY <1>7 DEF DoClose, cvars, fvars
  <2> QED BY <2>1, <2>2, <2>3, TakeRequestsIInv
<1>8. ASSUME NEW d \in Closers, CloseStep(d) PROVE IInv'
  BY <1>7, <1>8, CloseStopIInv, CloseMarkIInv DEF CloseStep
<1>9. CASE UNCHANGED vars
  BY <1>9 DEF IInv, TypeOK, OwnsId, FreshUnused, RegisteringUnused, PendingOnce,
     LatchIsCompletion, CompletedAtMostOnce, NoLeakedRequest, SenderIsReachable,
     Active, vars, cvars, fvars, dvars, lvars
<1> QED BY <1>1, <1>2, <1>3, <1>4, <1>5, <1>6, <1>8, <1>9 DEF Next

\* IInv holds in every reachable state of the correlator.
THEOREM Inductive == Spec => []IInv
<1> QED BY InitIInv, NextIInv, PTL DEF Spec

-----------------------------------------------------------------------------
\* Every variable keeps its type, whatever the number of threads, commands and
\* answers: in particular the latch never opens on a null response.
THEOREM TypeCorrect == Spec => []TypeOK
<1>1. IInv => TypeOK
  BY DEF IInv
<1> QED BY <1>1, Inductive, PTL

\* FutureResponse::setResponse runs at most once per command.
THEOREM CompletionIsUnique == Spec => []CompletedAtMostOnce
<1>1. IInv => CompletedAtMostOnce
  BY DEF IInv
<1> QED BY <1>1, Inductive, PTL

\* requestMap keeps no entry of a request() that has returned.
THEOREM NoLeak == Spec => []NoLeakedRequest
<1>1. IInv => NoLeakedRequest
  BY DEF IInv
<1> QED BY <1>1, Inductive, PTL

\* A thread blocked on its latch is in the map or in a dispose()'s copy.
THEOREM WaitersReachable == Spec => []WaiterIsReachable
<1>1. IInv => WaiterIsReachable
  <2> SUFFICES ASSUME IInv, NEW t \in Threads,
                      pc[t] = "await", response[cmd[t]] = "none"
               PROVE  \/ cmd[t] \in requestMap
                      \/ \E d \in Disposers : cmd[t] \in requestsCopy[d]
    BY DEF WaiterIsReachable
  <2>1. completions[cmd[t]] = 0
    BY DEF IInv, OwnsId, Active, LatchIsCompletion
  <2> QED BY <2>1 DEF IInv, SenderIsReachable
<1> QED BY <1>1, Inductive, PTL

\* After the first error the map only shrinks.
THEOREM RefusesAfterError == Spec => NoRequestAfterError
<1>1. [Next]_vars => [priorError # "none" => requestMap' \subseteq requestMap]_vars
  <2> SUFFICES ASSUME Next, priorError # "none"
               PROVE  requestMap' \subseteq requestMap
    OBVIOUS
  <2> QED BY DEF Next, ThreadStep, DisposeStep, CloseStep, Request, Register, Send,
        SendThrows, Await, Timeout, Finalize, Oneway, OnCommand, OnException,
        TakeRequests, FailRequest, DisposeReturns, CloseStop, CloseMark, DoClose
<1> QED BY <1>1, PTL DEF Spec, NoRequestAfterError

-----------------------------------------------------------------------------
(* The correlator implements RequestService *)

\* An id has a kind from the moment a request takes it, and none before.
KindIsKnown ==
    /\ \A i \in Ids : i >= nextCommandId => kind[i] = "none"
    /\ \A t \in Threads : Active(t) => kind[cmd[t]] # "none"

-----------------------------------------------------------------------------
\* No step takes an id's kind away.
LEMMA KindStep == IInv /\ KindIsKnown /\ [Next]_vars => KindIsKnown'
<1> SUFFICES ASSUME IInv, KindIsKnown, [Next]_vars PROVE KindIsKnown'
  OBVIOUS
<1> USE CorrelatorAssumption DEF KindIsKnown, Active, Ids
<1>1. ASSUME NEW t \in Threads, NEW k \in Kinds, Request(t, k) PROVE KindIsKnown'
  <2> DEFINE n == nextCommandId
  <2>1. /\ n' = n + 1 /\ n \in Ids
        /\ kind' = [kind EXCEPT ![n] = k] /\ cmd' = [cmd EXCEPT ![t] = n]
        /\ pc' = [pc EXCEPT ![t] = "register"]
    BY <1>1 DEF Request, Goto
  <2>2. k # "none"
    BY DEF AllKinds
  <2>3. \A i \in Ids : i >= n' => kind'[i] = "none"
    BY <2>1 DEF IInv, TypeOK
  <2>4. ASSUME NEW u \in Threads, Active(u)' PROVE kind'[cmd'[u]] # "none"
    BY <2>1, <2>2, <2>4 DEF IInv, TypeOK, OwnsId
  <2> QED BY <2>3, <2>4
<1>2. ASSUME NEW t \in Threads, ThreadStep(t) \/ Timeout(t) PROVE KindIsKnown'
  <2>1. UNCHANGED <<nextCommandId, kind, cmd>>
    BY <1>2 DEF ThreadStep, Timeout, Register, Send, SendThrows, Await, Finalize
  <2>2. \A u \in Threads : pc'[u] # "idle" => pc[u] # "idle"
    BY <1>2 DEF ThreadStep, Timeout, Register, Send, SendThrows, Await, Finalize, Goto,
         IInv, TypeOK
  <2> QED BY <2>1, <2>2
<1>3. CASE Oneway
  BY <1>3 DEF Oneway, IInv, TypeOK
<1>4. CASE UNCHANGED <<nextCommandId, kind, pc, cmd>>
  BY <1>4
<1>5. \/ \E i \in Ids : \E r \in Replies : OnCommand(i, r)
      \/ OnException
      \/ \E d \in Disposers : DisposeStep(d)
      \/ \E d \in Closers : CloseStep(d)
      \/ UNCHANGED vars
      => UNCHANGED <<nextCommandId, kind, pc, cmd>>
  BY DEF OnCommand, OnException, DisposeStep, FailRequest, DisposeReturns, CloseStep,
       CloseStop, CloseMark, DoClose, cvars, vars
<1> QED BY <1>1, <1>2, <1>3, <1>4, <1>5 DEF Next

\* The kind of a command is known once it has an id.
LEMMA KindInvariant == Spec => []KindIsKnown
<1>1. Init => KindIsKnown
  BY CorrelatorAssumption DEF Init, KindIsKnown, Active, Ids
<1> QED BY <1>1, KindStep, Inductive, PTL DEF Spec

-----------------------------------------------------------------------------
(* Reading the abstract status off the correlator's state *)

\* A step that changes no latch, keeps what is pending and, for an id that is
\* neither, keeps whether it is unused, leaves every status as it is.
LEMMA StatusStays ==
  ASSUME UNCHANGED response,
         \A i \in Ids : Pending(i)' <=> Pending(i),
         \A i \in Ids : ~Pending(i) => (Unused(i)' <=> Unused(i))
  PROVE  UNCHANGED status
BY DEF status

\* A step that touches one id only changes one status.
LEMMA StatusMoves ==
  ASSUME NEW i \in Ids, NEW s, status'[i] = s,
         \A j \in Ids \ {i} :
             /\ response'[j] = response[j]
             /\ Pending(j)' <=> Pending(j)
             /\ Unused(j)' <=> Unused(j)
  PROVE  status' = [status EXCEPT ![i] = s]
<1>1. \A j \in Ids \ {i} : status'[j] = status[j]
  BY DEF status
<1>2. \A j \in Ids : status'[j] = IF j = i THEN s ELSE status[j]
  BY <1>1
<1>3. status' = [j \in Ids |-> status'[j]] /\ status = [j \in Ids |-> status[j]]
  BY DEF status
<1> QED BY <1>2, <1>3

\* A future that can still be completed is pending.
LEMMA PendingStatus ==
  ASSUME IInv, NEW i \in Ids, Pending(i)
  PROVE  status[i] = "pending" /\ response[i] = "none"
<1>1. completions[i] = 0
  BY DEF IInv, PendingOnce, Pending
<1>2. response[i] = "none"
  BY <1>1 DEF IInv, LatchIsCompletion
<1> QED BY <1>2 DEF status

\* The id of a thread on its way to the map section is unused.
LEMMA RegisteringStatus ==
  ASSUME IInv, NEW t \in Threads, pc[t] = "register"
  PROVE  cmd[t] \in Ids /\ status[cmd[t]] = "unused" /\ response[cmd[t]] = "none"
<1>1. cmd[t] \in Ids /\ completions[cmd[t]] = 0 /\ ~Pending(cmd[t])
  BY DEF IInv, OwnsId, Active, RegisteringUnused, Pending
<1>2. response[cmd[t]] = "none"
  BY <1>1 DEF IInv, LatchIsCompletion
<1>3. Unused(cmd[t])
  BY DEF Unused
<1> QED BY <1>1, <1>2, <1>3 DEF status

\* Nothing happens in the service when a step changes neither a future nor the
\* map, nor the ids on their way to it.
LEMMA QuietStep ==
  ASSUME UNCHANGED <<response, requestMap, requestsCopy, priorError>>,
         \A i \in Ids : Unused(i)' <=> Unused(i)
  PROVE  UNCHANGED Service!vars
<1>1. \A i \in Ids : Pending(i)' <=> Pending(i)
  BY DEF Pending
<1>2. UNCHANGED status
  BY <1>1, StatusStays
<1> QED BY <1>2 DEF Service!vars

-----------------------------------------------------------------------------
(* The steps *)

\* Taking an id: it was unused, and it is until the map section.
LEMMA RequestMaps ==
  ASSUME IInv, KindIsKnown, NEW t \in Threads, NEW k \in Kinds, Request(t, k)
  PROVE  UNCHANGED Service!vars
<1> DEFINE n == nextCommandId
<1>1. /\ n \in Ids /\ pc[t] = "idle"
      /\ kind' = [kind EXCEPT ![n] = k] /\ cmd' = [cmd EXCEPT ![t] = n]
      /\ pc' = [pc EXCEPT ![t] = "register"]
      /\ UNCHANGED <<response, requestMap, requestsCopy, priorError>>
  BY DEF Request, Goto, fvars, dvars
<1>2. ASSUME NEW i \in Ids PROVE Unused(i)' <=> Unused(i)
  <2>1. CASE i = n
    <3>1. Unused(i)
      BY <1>1, <2>1 DEF KindIsKnown, Unused, IInv, TypeOK, Ids
    <3>2. pc'[t] = "register" /\ cmd'[t] = i
      BY <1>1, <2>1 DEF IInv, TypeOK
    <3> QED BY <3>1, <3>2 DEF Unused
  <2>2. CASE i # n
    <3>1. kind'[i] = kind[i]
      BY <1>1, <2>2 DEF IInv, TypeOK
    <3>2. \A u \in Threads : pc'[u] = "register" /\ cmd'[u] = i
                              <=> pc[u] = "register" /\ cmd[u] = i
      BY <1>1, <2>2 DEF IInv, TypeOK
    <3> QED BY <3>1, <3>2 DEF Unused
  <2> QED BY <2>1, <2>2
<1> QED BY <1>1, <1>2, QuietStep

\* The map section: the request is accepted, or refused on a prior error.
LEMMA RegisterMaps ==
  ASSUME IInv, IInv', KindIsKnown, NEW t \in Threads, Register(t)
  PROVE  Service!Accept(cmd[t]) \/ Service!Refuse(cmd[t])
<1> DEFINE i == cmd[t]
<1>1. /\ pc[t] = "register" /\ i \in Ids /\ status[i] = "unused" /\ response[i] = "none"
      /\ kind[i] # "none" /\ UNCHANGED <<kind, cmd, requestsCopy, priorError>>
  BY RegisteringStatus DEF Register, KindIsKnown, Active, dvars
<1>2. ASSUME NEW l \in {"send", "idle"}, pc' = [pc EXCEPT ![t] = l]
      PROVE  /\ \A j \in Ids \ {i} : Unused(j)' <=> Unused(j)
             /\ ~Unused(i)'
  <2>1. \A u \in Threads \ {t} : pc[u] = "register" => cmd[u] # i
    BY <1>1 DEF IInv, OwnsId, Active
  <2>2. \A u \in Threads : pc'[u] = IF u = t THEN l ELSE pc[u]
    BY <1>2 DEF IInv, TypeOK
  <2>3. ~Unused(i)'
    BY <1>1, <2>1, <2>2 DEF Unused
  <2>4. ASSUME NEW j \in Ids \ {i} PROVE Unused(j)' <=> Unused(j)
    BY <1>1, <2>2 DEF Unused
  <2> QED BY <2>3, <2>4
<1>3. CASE priorError = "none"
  <2>1. /\ requestMap' = requestMap \cup {i} /\ pc' = [pc EXCEPT ![t] = "send"]
        /\ UNCHANGED response
    BY <1>3 DEF Register, Goto, fvars
  <2>2. Pending(i)' /\ \A j \in Ids \ {i} : Pending(j)' <=> Pending(j)
    BY <2>1, <1>1 DEF Pending
  <2>3. status'[i] = "pending"
    BY <1>1, <2>1, <2>2 DEF status
  <2>4. status' = [status EXCEPT ![i] = "pending"]
    BY <1>1, <1>2, <2>1, <2>2, <2>3, StatusMoves
  <2> QED BY <1>1, <1>3, <2>4 DEF Service!Accept
<1>4. CASE priorError # "none"
  <2>1. /\ UNCHANGED requestMap /\ pc' = [pc EXCEPT ![t] = "idle"]
        /\ \/ response' = [response EXCEPT ![i] = "error"]
           \/ UNCHANGED response
    BY <1>4 DEF Register, Goto, SetResponse, fvars
  <2>2. ~Pending(i)' /\ \A j \in Ids \ {i} : Pending(j)' <=> Pending(j)
    BY <2>1, <1>1 DEF Pending, IInv, RegisteringUnused
  <2>3. /\ response'[i] \in {"none", "error"}
        /\ \A j \in Ids \ {i} : response'[j] = response[j]
    BY <1>1, <2>1 DEF IInv, TypeOK
  <2>4. status'[i] \in {"error", "withdrawn"}
    BY <1>1, <1>2, <2>1, <2>2, <2>3 DEF status
  <2>5. status' = [status EXCEPT ![i] = status'[i]]
    BY <1>1, <1>2, <2>1, <2>2, <2>3, StatusMoves
  <2> QED BY <1>1, <1>4, <2>4, <2>5 DEF Service!Refuse
<1> QED BY <1>3, <1>4

\* Sending, waiting and giving up move a thread only: what the broker was sent
\* and what the caller waits for are not the service's concern.
LEMMA ThreadMaps ==
  ASSUME IInv, NEW t \in Threads, Send(t) \/ SendThrows(t) \/ Await(t) \/ Timeout(t)
  PROVE  UNCHANGED Service!vars
<1>1. /\ pc[t] # "register"
      /\ \E l \in {"idle", "await", "finalize"} : pc' = [pc EXCEPT ![t] = l]
      /\ UNCHANGED <<kind, cmd, response, requestMap, requestsCopy, priorError>>
  BY DEF Send, SendThrows, Await, Timeout, Goto, fvars, dvars
<1>2. \A u \in Threads : pc'[u] = "register" <=> pc[u] = "register"
  BY <1>1 DEF IInv, TypeOK
<1>3. \A i \in Ids : Unused(i)' <=> Unused(i)
  BY <1>1, <1>2 DEF Unused
<1> QED BY <1>1, <1>3, QuietStep

\* The finalizer withdraws a request nobody has answered or taken away.
LEMMA FinalizeMaps ==
  ASSUME IInv, KindIsKnown, NEW t \in Threads, Finalize(t)
  PROVE  Service!Withdraw(cmd[t]) \/ UNCHANGED Service!vars
<1> DEFINE i == cmd[t]
<1>1. /\ pc[t] = "finalize" /\ requestMap' = requestMap \ {i}
      /\ pc' = [pc EXCEPT ![t] = "idle"] /\ i \in Ids /\ kind[i] # "none"
      /\ UNCHANGED <<kind, cmd, response, requestsCopy, priorError>>
  BY DEF Finalize, Goto, fvars, dvars, IInv, OwnsId, Active, KindIsKnown
<1>2. \A u \in Threads : pc'[u] = "register" <=> pc[u] = "register"
  BY <1>1 DEF IInv, TypeOK
<1>3. \A j \in Ids : Unused(j)' <=> Unused(j)
  BY <1>1, <1>2 DEF Unused
<1>4. CASE i \notin requestMap
  <2>1. UNCHANGED requestMap
    BY <1>1, <1>4
  <2> QED BY <1>1, <1>3, <2>1, QuietStep
<1>5. CASE i \in requestMap
  <2>1. status[i] = "pending" /\ response[i] = "none"
    BY <1>1, <1>5, PendingStatus DEF Pending
  <2>2. ~Pending(i)' /\ \A j \in Ids \ {i} : Pending(j)' <=> Pending(j)
    BY <1>1, <1>5 DEF Pending, IInv, PendingOnce
  <2>3. ~Unused(i)
    BY <1>1 DEF Unused, IInv, OwnsId, Active
  <2>4. status'[i] = "withdrawn"
    BY <1>1, <1>3, <2>1, <2>2, <2>3 DEF status
  <2>5. status' = [status EXCEPT ![i] = "withdrawn"]
    BY <1>1, <1>3, <2>2, <2>4, StatusMoves
  <2> QED BY <1>1, <2>1, <2>5 DEF Service!Withdraw
<1> QED BY <1>4, <1>5

\* setResponse on a pending future is its completion in the service.
LEMMA CompletionMaps ==
  ASSUME IInv, NEW i \in Ids, NEW r \in {"ok", "error"}, Pending(i),
         response' = [response EXCEPT ![i] = r],
         \A j \in Ids \ {i} : Pending(j)' <=> Pending(j),
         UNCHANGED <<kind, pc, cmd, priorError>>
  PROVE  Service!Complete(i, r)
<1>1. response'[i] = r /\ \A j \in Ids \ {i} : response'[j] = response[j]
  BY DEF IInv, TypeOK
<1>2. status'[i] = r
  BY <1>1 DEF status
<1>3. \A j \in Ids : Unused(j)' <=> Unused(j)
  BY DEF Unused
<1>4. status' = [status EXCEPT ![i] = r]
  BY <1>1, <1>2, <1>3, StatusMoves
<1> QED BY <1>4, PendingStatus DEF Service!Complete

\* A response completes its request; one nobody waits for may stop the service.
LEMMA OnCommandMaps ==
  ASSUME IInv, NEW i \in Ids, NEW r \in Replies, OnCommand(i, r)
  PROVE  Service!Complete(i, r) \/ Service!StopAccepting \/ UNCHANGED Service!vars
<1>1. r \in {"ok", "error"} /\ UNCHANGED <<kind, pc, cmd, requestsCopy>>
  BY CorrelatorAssumption DEF OnCommand, cvars, dvars
<1>2. CASE i \in requestMap
  <2>1. /\ requestMap' = requestMap \ {i} /\ response' = [response EXCEPT ![i] = r]
        /\ UNCHANGED priorError
    BY <1>2 DEF OnCommand, SetResponse
  <2>2. Pending(i) /\ \A j \in Ids \ {i} : Pending(j)' <=> Pending(j)
    BY <1>1, <1>2, <2>1 DEF Pending
  <2> QED BY <1>1, <2>1, <2>2, CompletionMaps
<1>3. CASE i \notin requestMap
  <2>1. /\ UNCHANGED <<requestMap, response>>
        /\ priorError' = priorError \/ (priorError = "none" /\ priorError' = "broker")
    BY <1>3 DEF OnCommand, fvars
  <2>2. UNCHANGED status
    BY <1>1, <2>1 DEF status, Pending, Unused
  <2> QED BY <2>1, <2>2 DEF Service!StopAccepting, Service!vars
<1> QED BY <1>2, <1>3

\* dispose()'s map section: the futures move to the copy and stay pending; the
\* first error stops the service.
LEMMA TakeRequestsMaps ==
  ASSUME IInv, NEW d \in Disposers, TakeRequests(d),
         UNCHANGED <<kind, pc, cmd, response>>
  PROVE  Service!StopAccepting \/ UNCHANGED Service!vars
<1>1. \A i \in Ids : Unused(i)' <=> Unused(i)
  BY DEF Unused
<1>2. CASE priorError = "none"
  <2>1. /\ priorError' = "io" /\ requestMap' = {}
        /\ requestsCopy' = [requestsCopy EXCEPT ![d] = requestMap]
    BY <1>2 DEF TakeRequests
  <2>2. \A e \in Disposers : requestsCopy[e] = {}
    BY <1>2 DEF IInv, PendingOnce
  <2>3. \A e \in Disposers : requestsCopy'[e] = IF e = d THEN requestMap ELSE {}
    BY <2>1, <2>2 DEF IInv, TypeOK
  <2>4. \A i \in Ids : Pending(i)' <=> Pending(i)
    BY <2>1, <2>2, <2>3 DEF Pending
  <2>5. UNCHANGED status
    BY <1>1, <2>4, StatusStays
  <2> QED BY <1>2, <2>1, <2>5 DEF Service!StopAccepting
<1>3. CASE priorError # "none"
  <2>1. UNCHANGED <<priorError, requestMap, requestsCopy>>
    BY <1>3 DEF TakeRequests
  <2> QED BY <1>1, <2>1, QuietStep
<1> QED BY <1>2, <1>3

\* One turn of dispose()'s loop completes a request with the error.
LEMMA FailRequestMaps ==
  ASSUME IInv, NEW d \in Disposers, FailRequest(d)
  PROVE  \E i \in Ids : Service!Complete(i, "error")
<1>1. PICK i \in requestsCopy[d] :
         /\ response' = [response EXCEPT ![i] = "error"]
         /\ requestsCopy' = [requestsCopy EXCEPT ![d] = @ \ {i}]
  BY DEF FailRequest, SetResponse
<1>2. i \in Ids /\ Pending(i) /\ UNCHANGED <<kind, pc, cmd, requestMap, priorError>>
  BY DEF IInv, TypeOK, Pending, FailRequest, cvars
<1>3. \A e \in Disposers : requestsCopy'[e] = IF e = d THEN requestsCopy[d] \ {i}
                                               ELSE requestsCopy[e]
  BY <1>1 DEF IInv, TypeOK
<1>4. \A j \in Ids \ {i} : Pending(j)' <=> Pending(j)
  BY <1>2, <1>3 DEF Pending
<1> QED BY <1>1, <1>2, <1>4, CompletionMaps

\* Every step of the correlator is a step of the service or none.
LEMMA StepMaps ==
  IInv /\ IInv' /\ KindIsKnown /\ [Next]_vars => [Service!Next]_(Service!vars)
<1> SUFFICES ASSUME IInv, IInv', KindIsKnown, [Next]_vars
             PROVE  [Service!Next]_(Service!vars)
  OBVIOUS
<1>1. ASSUME NEW t \in Threads, NEW k \in Kinds, Request(t, k)
      PROVE  UNCHANGED Service!vars
  BY <1>1, RequestMaps
<1>2. ASSUME NEW t \in Threads, ThreadStep(t) \/ Timeout(t)
      PROVE  Service!Next \/ UNCHANGED Service!vars
  <2>1. CASE Register(t)
    <3>1. cmd[t] \in Ids
      BY <2>1, RegisteringStatus DEF Register
    <3> QED BY <2>1, <3>1, RegisterMaps DEF Service!Next
  <2>2. CASE Finalize(t)
    <3>1. cmd[t] \in Ids
      BY <2>2 DEF Finalize, IInv, OwnsId, Active
    <3> QED BY <2>2, <3>1, FinalizeMaps DEF Service!Next
  <2>3. CASE Send(t) \/ SendThrows(t) \/ Await(t) \/ Timeout(t)
    BY <2>3, ThreadMaps
  <2> QED BY <1>2, <2>1, <2>2, <2>3 DEF ThreadStep
<1>3. ASSUME NEW i \in Ids, NEW r \in Replies, OnCommand(i, r)
      PROVE  Service!Next \/ UNCHANGED Service!vars
  <2>1. r \in {"ok", "error"}
    BY CorrelatorAssumption
  <2> QED BY <1>3, <2>1, OnCommandMaps DEF Service!Next
<1>4. CASE OnException
  <2>1. Reader \in Disposers /\ TakeRequests(Reader) /\ UNCHANGED <<kind, pc, cmd, response>>
    BY <1>4 DEF OnException, Disposers, cvars, fvars
  <2> QED BY <2>1, TakeRequestsMaps DEF Service!Next
<1>5. ASSUME NEW d \in Closers, DoClose(d)
      PROVE  Service!Next \/ UNCHANGED Service!vars
  <2>1. d \in Disposers /\ TakeRequests(d) /\ UNCHANGED <<kind, pc, cmd, response>>
    BY <1>5 DEF DoClose, Disposers, cvars, fvars
  <2> QED BY <2>1, TakeRequestsMaps DEF Service!Next
<1>6. ASSUME NEW d \in Disposers, FailRequest(d) PROVE Service!Next
  BY <1>6, FailRequestMaps DEF Service!Next
<1>7. ASSUME \/ Oneway
             \/ \E d \in Disposers : DisposeReturns(d)
             \/ \E d \in Closers : CloseStop(d) \/ CloseMark(d)
             \/ UNCHANGED vars
      PROVE  UNCHANGED Service!vars
  <2>1. UNCHANGED <<kind, pc, cmd, response, requestMap, requestsCopy, priorError>>
    BY <1>7 DEF Oneway, DisposeReturns, CloseStop, CloseMark, vars, cvars, fvars, dvars
  <2>2. \A i \in Ids : Unused(i)' <=> Unused(i)
    BY <2>1 DEF Unused
  <2> QED BY <2>1, <2>2, QuietStep
<1> QED BY <1>1, <1>2, <1>3, <1>4, <1>5, <1>6, <1>7 DEF Next, DisposeStep, CloseStep

\* The correlator implements the service its callers rely on, whatever the
\* number of threads, commands, closers and answers: each request is accepted at
\* most once and only before an error is recorded, and the first of answer,
\* error and withdrawal is final.
THEOREM Refinement == Spec => ImplementsService
<1>1. Init => Service!Init
  BY DEF Init, Service!Init, status, Pending, Unused
<1> QED BY <1>1, StepMaps, Inductive, KindInvariant, PTL
        DEF Spec, ImplementsService, Service!Spec
=============================================================================
