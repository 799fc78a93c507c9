------------------------- MODULE LongPollingLock_proofs -------------------------
(***************************************************************************)
(* Proofs about LongPollingLock for all handlers and every bound.             *)
(*                                                                         *)
(* One reader rests on the freshness of the tokens the station grants; the  *)
(* handlers' lock on the last unlock being the only one that reaches the     *)
(* station; the reader's survival, until a lock request fails, on the fact    *)
(* that a token the station still holds was never refused to its chain; and  *)
(* the stack of handlers on a lock being requested for the first one only.    *)
(***************************************************************************)
EXTENDS LongPollingLock, SequenceTheorems, WellFoundedInduction, TLAPS

PollTable == polls \in [Token -> [PollStage -> Nat]]

-----------------------------------------------------------------------------
(* The poll table. *)

\* A chain that moves on is the same chain, and the others stay.
LEMMA MoveKeeps ==
    ASSUME PollTable, NEW k \in Token, NEW from \in PollStage, NEW to \in PollStage,
           from # to, polls[k][from] > 0, MovePoll(k, from, to)
    PROVE  /\ PollTable'
           /\ \A j \in Token : Carriers(j)' = Carriers(j)
           /\ \A j \in Token : j # k => polls'[j] = polls[j]
  <1>1. polls' = [polls EXCEPT ![k] = [polls[k] EXCEPT ![from] = polls[k][from] - 1,
                                                       ![to] = polls[k][to] + 1]]
    BY DEF MovePoll, PollTable
  <1>2. polls[k] \in [PollStage -> Nat]
    BY DEF PollTable
  <1>3. /\ polls'[k] \in [PollStage -> Nat]
        /\ polls'[k].sent + polls'[k].refused + polls'[k].waiting
             = polls[k].sent + polls[k].refused + polls[k].waiting
    BY <1>1, <1>2 DEF PollTable, PollStage
  <1>4. \A j \in Token : j # k => polls'[j] = polls[j]
    BY <1>1 DEF PollTable
  <1>5. PollTable'
    BY <1>1, <1>3 DEF PollTable
  <1> QED
    BY <1>3, <1>4, <1>5 DEF Carriers

\* A chain that ends leaves one carrier less.
LEMMA EndLess ==
    ASSUME PollTable, NEW k \in Token, NEW from \in PollStage,
           polls[k][from] > 0, EndPoll(k, from)
    PROVE  /\ PollTable'
           /\ Carriers(k)' = Carriers(k) - 1
           /\ \A j \in Token : j # k => polls'[j] = polls[j] /\ Carriers(j)' = Carriers(j)
  <1>1. polls' = [polls EXCEPT ![k] = [polls[k] EXCEPT ![from] = polls[k][from] - 1]]
    BY DEF EndPoll, PollTable
  <1>2. polls[k] \in [PollStage -> Nat]
    BY DEF PollTable
  <1>3. /\ polls'[k] \in [PollStage -> Nat]
        /\ polls'[k].sent + polls'[k].refused + polls'[k].waiting
             = (polls[k].sent + polls[k].refused + polls[k].waiting) - 1
    BY <1>1, <1>2 DEF PollTable, PollStage
  <1>4. \A j \in Token : j # k => polls'[j] = polls[j]
    BY <1>1 DEF PollTable
  <1>5. PollTable'
    BY <1>1, <1>3 DEF PollTable
  <1>6. Carriers(k)' = Carriers(k) - 1
    BY <1>3 DEF Carriers
  <1>7. \A j \in Token : j # k => Carriers(j)' = Carriers(j)
    BY <1>4 DEF Carriers
  <1> QED
    BY <1>4, <1>5, <1>6, <1>7

\* A chain that begins adds a request in flight.
LEMMA BeginMore ==
    ASSUME PollTable, NEW k \in Token, BeginPoll(k)
    PROVE  /\ PollTable'
           /\ Carriers(k)' = Carriers(k) + 1
           /\ polls'[k].sent = polls[k].sent + 1
           /\ \A j \in Token : j # k => polls'[j] = polls[j] /\ Carriers(j)' = Carriers(j)
  <1>1. polls' = [polls EXCEPT ![k] = [polls[k] EXCEPT !.sent = polls[k].sent + 1]]
    BY DEF BeginPoll, PollTable
  <1>2. polls[k] \in [PollStage -> Nat]
    BY DEF PollTable
  <1>3. /\ polls'[k] \in [PollStage -> Nat]
        /\ polls'[k].sent = polls[k].sent + 1
        /\ polls'[k].sent + polls'[k].refused + polls'[k].waiting
             = polls[k].sent + polls[k].refused + polls[k].waiting + 1
    BY <1>1, <1>2 DEF PollTable, PollStage
  <1>4. \A j \in Token : j # k => polls'[j] = polls[j]
    BY <1>1 DEF PollTable
  <1>5. PollTable'
    BY <1>1, <1>3 DEF PollTable
  <1> QED
    BY <1>3, <1>4, <1>5 DEF Carriers

\* A carrier is counted.
LEMMA Counted ==
    ASSUME PollTable, NEW k \in Token
    PROVE  /\ Carriers(k) \in Nat
           /\ \A s \in PollStage : polls[k][s] \in Nat /\ polls[k][s] <= Carriers(k)
  <1>1. polls[k] \in [PollStage -> Nat]
    BY DEF PollTable
  <1> QED
    BY <1>1 DEF PollStage, Carriers

-----------------------------------------------------------------------------
(* Types. *)

LEMMA ShorterStack ==
    ASSUME eventHandlers \in Seq(Handlers), eventHandlers # <<>>
    PROVE  /\ SubSeq(eventHandlers, 1, Len(eventHandlers) - 1) \in Seq(Handlers)
           /\ Len(SubSeq(eventHandlers, 1, Len(eventHandlers) - 1)) = Len(eventHandlers) - 1
  <1>1. Len(eventHandlers) \in Nat \ {0}
    OBVIOUS
  <1>2. \A i \in 1 .. Len(eventHandlers) - 1 : eventHandlers[i] \in Handlers
    BY <1>1
  <1>3. PICK n \in Nat : n = Len(eventHandlers) - 1
    BY <1>1
  <1>4. /\ SubSeq(eventHandlers, 1, n) \in Seq(Handlers)
        /\ Len(SubSeq(eventHandlers, 1, n)) = IF 1 <= n THEN n - 1 + 1 ELSE 0
    BY <1>2, <1>3, SubSeqProperties
  <1> QED
    BY <1>3, <1>4

\* What handing over an item of the queue leaves.
LEMMA Handed ==
    ASSUME TypeOK, NEW kind, Starts(kind)
    PROVE  /\ workerQueue' \in Seq(Item)
           /\ Head(workerQueue) \in Item
           /\ request = NoRequest
           /\ processing' = processing /\ polls' = polls /\ holder' = holder
           /\ issued' = issued /\ calls' = calls /\ restarts' = restarts
           /\ failures' = failures
  BY DEF TypeOK, Starts, bounds

LEMMA TypeInit == ASSUME Init PROVE TypeOK
  <1> USE ConstantsAssumption DEF Init
  <1>1. polls \in [Token -> [PollStage -> Nat]]
    OBVIOUS
  <1>2. request \in Request \cup {NoRequest} /\ NoToken \in AnyToken
    BY DEF AnyToken
  <1>3. eventHandlers \in Seq(Handlers) /\ workerQueue \in Seq(Item)
    OBVIOUS
  <1>4. /\ 0 \in 0 .. MaxCalls /\ 0 \in 0 .. MaxTokens /\ 0 \in 0 .. MaxRestarts
          /\ 0 \in 0 .. MaxFailures
    BY DEF ConstantsAssumption
  <1> QED
    BY <1>1, <1>2, <1>3, <1>4 DEF TypeOK

LEMMA TypeStep == ASSUME TypeOK, [Next]_vars PROVE TypeOK'
  <1> USE ConstantsAssumption
  <1>t. PollTable
    BY DEF TypeOK, PollTable
  <1>1. ASSUME NEW item \in Item, Call(item) PROVE TypeOK'
    BY <1>1 DEF TypeOK, Call, enqueue, peripheral
  <1>2. CASE QueueEmpty
    BY <1>2 DEF TypeOK, QueueEmpty, peripheral, bounds
  <1>3. CASE lockInternalAsync
    <2>1. Starts("lock")
      BY <1>3 DEF lockInternalAsync
    <2>2. Head(workerQueue).handler \in Handlers
      BY <2>1 DEF TypeOK, Starts, Item
    <2>5. Append(eventHandlers, Head(workerQueue).handler) \in Seq(Handlers)
      BY <2>2, AppendProperties DEF TypeOK
    <2>3. lockToken' \in AnyToken /\ eventHandlers' \in Seq(Handlers)
      BY <1>3, <2>5 DEF TypeOK, lockInternalAsync, peripheral, Sends
    <2>4. request' \in Request \cup {NoRequest}
      BY <1>3, <2>1, Handed DEF TypeOK, lockInternalAsync, Sends, Request
    <2> QED
      BY <2>1, <2>3, <2>4, Handed DEF TypeOK
  <1>4. CASE unlockInternalAsync
    <2>1. Starts("unlock")
      BY <1>4 DEF unlockInternalAsync
    <2>2. Len(eventHandlers) > 1 => eventHandlers # <<>>
      BY DEF TypeOK
    <2>3. lockToken' \in AnyToken /\ eventHandlers' \in Seq(Handlers)
      BY <1>4, <2>2, ShorterStack DEF TypeOK, unlockInternalAsync, peripheral
    <2>4. request' \in Request \cup {NoRequest}
      BY <1>4, <2>1, Handed DEF TypeOK, unlockInternalAsync, Sends, Request
    <2> QED
      BY <2>1, <2>3, <2>4, Handed DEF TypeOK
  <1>5. CASE Relock
    <2>1. Starts("relock")
      BY <1>5 DEF Relock
    <2>2. request' \in Request
      BY <1>5, <2>1, Handed DEF TypeOK, Relock, Sends, Request
    <2> QED
      BY <1>5, <2>1, <2>2, Handed DEF TypeOK, Relock, peripheral
  <1>6. CASE LockGranted
    <2>1. request \in Request
      BY <1>6 DEF TypeOK, LockGranted, NoRequest
    <2>2. request.token \in AnyToken /\ request.item \in Item
      BY <2>1 DEF Request
    <2>3. CASE request.token \in Token
      <3>1. PollTable'
        BY <1>6, <1>t, <2>3, BeginMore DEF LockGranted
      <3>2. eventHandlers' \in Seq(Handlers)
        BY <1>6, <2>2 DEF TypeOK, LockGranted, Item
      <3> QED
        BY <1>6, <2>2, <3>1, <3>2
        DEF TypeOK, PollTable, LockGranted, queue, bounds
    <2>4. CASE request.token = NoToken
      <3>1. polls' = polls
        BY <1>6, <2>4 DEF TypeOK, LockGranted, BeginPoll, Token, NoToken
      <3>2. eventHandlers' \in Seq(Handlers)
        BY <1>6, <2>2 DEF TypeOK, LockGranted, Item
      <3> QED
        BY <1>6, <2>2, <3>1, <3>2 DEF TypeOK, LockGranted, queue, bounds
    <2> QED
      BY <2>2, <2>3, <2>4 DEF AnyToken
  <1>7. CASE LockRefused
    BY <1>7 DEF TypeOK, LockRefused, peripheral, queue, bounds
  <1>8. CASE UnlockAnswered
    <2>1. eventHandlers' \in Seq(Handlers)
      BY <1>8, ShorterStack DEF TypeOK, UnlockAnswered
    <2> QED
      BY <1>8, <2>1 DEF TypeOK, UnlockAnswered, queue, bounds, AnyToken
  <1>9. CASE StationGrants
    <2>1. request \in Request
      BY <1>9 DEF TypeOK, StationGrants, LockRequested, NoRequest
    <2>2. issued + 1 \in Token
      BY <1>9 DEF TypeOK, StationGrants, Grants, Token
    <2>3. request' \in Request
      BY <1>9, <2>1, <2>2 DEF StationGrants, Request, AnyToken
    <2> QED
      BY <1>9, <2>2, <2>3 DEF TypeOK, StationGrants, Grants, Token, peripheral, queue, AnyToken
  <1>10. CASE StationRefusesLock \/ StationUnlocks
    <2>1. request \in Request
      BY <1>10 DEF TypeOK, StationRefusesLock, StationUnlocks, LockRequested, NoRequest
    <2>2. request' \in Request
      BY <1>10, <2>1 DEF StationRefusesLock, StationUnlocks, Request
    <2>3. holder' \in AnyToken
      BY <1>10 DEF TypeOK, StationRefusesLock, StationUnlocks, AnyToken
    <2> QED
      BY <1>10, <2>2, <2>3
      DEF TypeOK, StationRefusesLock, StationUnlocks, peripheral, queue, bounds
  <1>11. ASSUME NEW k \in Token, Polling(k) PROVE TypeOK'
    <2>1. PollTable'
      BY <1>t, <1>11, MoveKeeps, EndLess
      DEF Polling, onDoGetDataSuccess, LockNotAcquired, onDoGetDataError, doGetData,
          StationRefusesPoll, PollStage, PollTable
    <2>i. [kind |-> "relock", handler |-> NoHandler] \in Item
      BY DEF Item
    <2>a. Append(workerQueue, [kind |-> "relock", handler |-> NoHandler]) \in Seq(Item)
      BY <2>i, AppendProperties DEF TypeOK
    <2>2. workerQueue' \in Seq(Item) /\ processing' \in BOOLEAN
      BY <1>11, <2>a
      DEF TypeOK, Polling, onDoGetDataSuccess, LockNotAcquired, onDoGetDataError, doGetData,
          StationRefusesPoll, queue, enqueue
    <2> QED
      BY <1>11, <2>1, <2>2
      DEF TypeOK, PollTable, Polling, onDoGetDataSuccess, LockNotAcquired, onDoGetDataError,
          doGetData, StationRefusesPoll, peripheral, bounds
  <1>12. CASE StationRestarts
    BY <1>12 DEF TypeOK, StationRestarts, peripheral, queue, AnyToken
  <1>15. CASE StationFailsLock
    <2>1. request \in Request
      BY <1>15 DEF TypeOK, StationFailsLock, LockRequested, NoRequest
    <2>2. request' \in Request
      BY <1>15, <2>1 DEF StationFailsLock, Request
    <2>3. holder' \in AnyToken /\ issued' \in 0 .. MaxTokens
      BY <1>15 DEF TypeOK, StationFailsLock, Grants, AnyToken, Token
    <2>4. failures' \in 0 .. MaxFailures
      BY <1>15 DEF TypeOK, StationFailsLock, ConstantsAssumption
    <2> QED
      BY <1>15, <2>2, <2>3, <2>4 DEF TypeOK, StationFailsLock, peripheral, queue
  <1>13. CASE UNCHANGED vars
    BY <1>13 DEF TypeOK, vars, peripheral, queue, bounds
  <1>14. CASE Views
    <2>1. [kind |-> "unlock", handler |-> NoHandler] \in Item
      BY DEF Item
    <2>2. \A h \in Handlers : [kind |-> "lock", handler |-> h] \in Item
      BY DEF Item
    <2> QED
      BY <1>1, <1>14, <2>1, <2>2 DEF Views, lockAsync, unlockAsync
  <1> QED
    BY <1>2, <1>3, <1>4, <1>5, <1>6, <1>7, <1>8, <1>9, <1>10, <1>11, <1>12, <1>13, <1>14,
       <1>15
    DEF Next, Queue, Station

\* Every reachable state is well typed.
THEOREM TypeCorrect == Spec => []TypeOK
  <1>1. Init => TypeOK
    BY TypeInit
  <1>2. TypeOK /\ [Next]_vars => TypeOK'
    BY TypeStep
  <1> QED
    BY <1>1, <1>2, PTL DEF Spec

-----------------------------------------------------------------------------
(* One reader. *)

\* Only tokens the station has granted are carried, and a granted token that has
\* not reached the peripheral yet by nobody.
Fresh ==
    /\ \A k \in Token : k > issued => Carriers(k) = 0
    /\ request.stage = "granted" => request.token \in 1 .. issued /\ Carriers(request.token) = 0

\* A step without a poll and without a token of the station's.
Quiet == polls' = polls /\ issued' = issued
             /\ (request' = request \/ request'.stage # "granted")

LEMMA Steps ==
    ASSUME TypeOK, [Next]_vars
    PROVE  Quiet \/ StationGrants \/ StationFailsLock \/ LockGranted \/ \E k \in Token : Polling(k)
  <1>1. CASE Views
    BY <1>1 DEF Views, lockAsync, unlockAsync, Call, Quiet
  <1>2. CASE QueueEmpty
    BY <1>2 DEF QueueEmpty, Quiet, bounds
  <1>3. CASE lockInternalAsync \/ unlockInternalAsync \/ Relock
    BY <1>3 DEF lockInternalAsync, unlockInternalAsync, Relock, Starts, Sends, Quiet, bounds
  <1>4. CASE LockRefused \/ UnlockAnswered
    BY <1>4 DEF LockRefused, UnlockAnswered, NoRequest, Quiet, bounds
  <1>5. CASE StationRefusesLock \/ StationUnlocks
    <2>1. request \in Request /\ request' = [request EXCEPT !.stage = "settled"]
      BY <1>5 DEF TypeOK, StationRefusesLock, StationUnlocks, LockRequested, NoRequest
    <2>2. request'.stage = "settled"
      BY <2>1 DEF Request
    <2> QED
      BY <1>5, <2>2 DEF StationRefusesLock, StationUnlocks, Quiet, bounds
  <1>6. CASE StationRestarts
    BY <1>6 DEF StationRestarts, Quiet
  <1>7. CASE UNCHANGED vars
    BY <1>7 DEF vars, Quiet, bounds
  <1> QED
    BY <1>1, <1>2, <1>3, <1>4, <1>5, <1>6, <1>7 DEF Next, Queue, Station

\* What a step of a chain does to the carriers.
LEMMA PollingStep ==
    ASSUME TypeOK, NEW k \in Token, Polling(k)
    PROVE  /\ Carriers(k) > 0
           /\ Carriers(k)' <= Carriers(k)
           /\ \A j \in Token : j # k => polls'[j] = polls[j] /\ Carriers(j)' = Carriers(j)
           /\ request' = request /\ issued' = issued
           /\ lockToken' = lockToken /\ eventHandlers' = eventHandlers /\ holder' = holder
  <1>t. PollTable
    BY DEF TypeOK, PollTable
  <1>1. PICK from \in PollStage : polls[k][from] > 0 /\
            (EndPoll(k, from) \/ UNCHANGED polls
               \/ \E to \in PollStage : from # to /\ MovePoll(k, from, to))
    BY DEF Polling, onDoGetDataSuccess, LockNotAcquired, onDoGetDataError, doGetData,
           StationRefusesPoll, PollStage
  <1>2. Carriers(k) \in Nat /\ polls[k][from] \in Nat /\ polls[k][from] <= Carriers(k)
    BY <1>t, Counted
  <1>3. Carriers(k) > 0
    BY <1>1, <1>2
  <1>4. /\ Carriers(k)' <= Carriers(k)
        /\ \A j \in Token : j # k => polls'[j] = polls[j] /\ Carriers(j)' = Carriers(j)
    <2>1. CASE EndPoll(k, from)
      BY <1>1, <1>2, <1>t, <2>1, EndLess
    <2>2. CASE UNCHANGED polls
      BY <1>2, <2>2 DEF Carriers
    <2>3. ASSUME NEW to \in PollStage, from # to, MovePoll(k, from, to)
          PROVE  /\ Carriers(k)' = Carriers(k)
                 /\ \A j \in Token :
                        j # k => polls'[j] = polls[j] /\ Carriers(j)' = Carriers(j)
      BY <1>1, <1>t, <2>3, MoveKeeps
    <2> QED
      BY <1>1, <1>2, <2>1, <2>2, <2>3
  <1>5. /\ request' = request /\ issued' = issued
        /\ lockToken' = lockToken /\ eventHandlers' = eventHandlers /\ holder' = holder
    BY DEF Polling, onDoGetDataSuccess, LockNotAcquired, onDoGetDataError, doGetData,
           StationRefusesPoll, peripheral, bounds
  <1> QED
    BY <1>3, <1>4, <1>5

LEMMA ReaderStep ==
    ASSUME TypeOK, Fresh, OneReader, [Next]_vars
    PROVE  Fresh' /\ OneReader'
  <1>t. PollTable /\ \A k \in Token : Carriers(k) \in Nat
    <2>1. PollTable
      BY DEF TypeOK, PollTable
    <2> QED
      BY <2>1, Counted
  <1>0. issued \in Nat /\ 1 .. issued \subseteq Token
    BY ConstantsAssumption DEF TypeOK, Token, ConstantsAssumption
  <1>1. CASE Quiet
    BY <1>1 DEF Quiet, Fresh, OneReader, Carriers
  <1>2. CASE StationGrants
    <2>1. PICK k \in Token : k = issued + 1 /\ issued' = k /\ polls' = polls
      BY <1>2, ConstantsAssumption DEF TypeOK, StationGrants, Grants, Token, ConstantsAssumption
    <2>2. request' = [request EXCEPT !.stage = "granted", !.token = issued + 1]
      BY <1>2 DEF StationGrants
    <2>3. request \in Request
      BY <1>2 DEF TypeOK, StationGrants, LockRequested, NoRequest
    <2>4. request'.stage = "granted" => request'.token = issued + 1
      BY <2>2, <2>3 DEF Request
    <2>5. Carriers(k) = 0
      BY <2>1, <1>0 DEF Fresh
    <2>6. \A j \in Token : Carriers(j)' = Carriers(j)
      BY <2>1 DEF Carriers
    <2>7. (\A j \in Token : j > issued => Carriers(j) = 0)'
      <3>1. \A j \in Token : j > k => j > issued
        BY <1>0, <2>1 DEF Token
      <3> QED
        BY <2>1, <2>6, <3>1 DEF Fresh
    <2>8. request'.stage = "granted" =>
              request'.token \in 1 .. issued' /\ request'.token = k /\ Carriers(k)' = 0
      BY <1>0, <2>1, <2>4, <2>5, <2>6
    <2>9. (request.stage = "granted" =>
              request.token \in 1 .. issued /\ Carriers(request.token) = 0)'
      BY <2>8 DEF Carriers
    <2> QED
      BY <2>6, <2>7, <2>9 DEF Fresh, OneReader
  <1>3. CASE LockGranted
    <2>1. PICK k \in Token : k = request.token /\ Carriers(k) = 0 /\ k <= issued
      BY <1>0, <1>3 DEF Fresh, LockGranted
    <2>2. /\ Carriers(k)' = Carriers(k) + 1
          /\ \A j \in Token : j # k => Carriers(j)' = Carriers(j)
      BY <1>t, <1>3, <2>1, BeginMore DEF LockGranted
    <2>3. issued' = issued /\ request'.stage # "granted"
      BY <1>3 DEF LockGranted, bounds, NoRequest
    <2>4. (\A j \in Token : j > issued => Carriers(j) = 0)'
      <3>1. ~(k > issued)
        BY <1>0, <2>1 DEF Token
      <3> QED
        BY <2>2, <2>3, <3>1 DEF Fresh
    <2>5. \A j \in Token : Carriers(j)' <= 1
      <3>1. Carriers(k)' = 1
        BY <2>1, <2>2
      <3> QED
        BY <2>2, <3>1 DEF OneReader
    <2> QED
      BY <2>3, <2>4, <2>5 DEF Fresh, OneReader
  <1>4. ASSUME NEW k \in Token, Polling(k) PROVE Fresh' /\ OneReader'
    <2>1. /\ Carriers(k) > 0 /\ Carriers(k)' <= Carriers(k)
          /\ \A j \in Token : j # k => Carriers(j)' = Carriers(j)
          /\ request' = request /\ issued' = issued
      BY <1>4, PollingStep
    <2>2. ~(k > issued)
      BY <1>t, <2>1 DEF Fresh
    <2>3. request.stage = "granted" => request.token \in Token /\ request.token # k
      BY <1>0, <1>t, <2>1 DEF Fresh
    <2>4. (request.stage = "granted" =>
              request.token \in 1 .. issued /\ Carriers(request.token) = 0)'
      BY <2>1, <2>3 DEF Fresh, Carriers
    <2>5. (\A j \in Token : j > issued => Carriers(j) = 0)'
      BY <2>1, <2>2 DEF Fresh
    <2>6. Carriers(k)' <= 1
      <3>1. PollTable' => Carriers(k)' \in Int
        BY DEF PollTable, PollStage, Carriers
      <3>2. TypeOK'
        BY TypeStep
      <3> QED
        BY <1>t, <2>1, <3>1, <3>2 DEF OneReader, TypeOK, PollTable
    <2> QED
      BY <2>1, <2>4, <2>5, <2>6 DEF Fresh, OneReader
  <1>5. CASE StationFailsLock
    <2>1. request \in Request /\ request' = [request EXCEPT !.stage = "settled"]
      BY <1>5 DEF TypeOK, StationFailsLock, LockRequested, NoRequest
    <2>2. request'.stage = "settled"
      BY <2>1 DEF Request
    <2>3. polls' = polls /\ (issued' = issued \/ issued' = issued + 1)
      BY <1>5 DEF StationFailsLock, Grants
    <2>4. \A j \in Token : Carriers(j)' = Carriers(j)
      BY <2>3 DEF Carriers
    <2>5. (\A j \in Token : j > issued => Carriers(j) = 0)'
      <3>1. \A j \in Token : j > issued' => j > issued
        BY <1>0, <2>3 DEF Token
      <3> QED
        BY <2>4, <3>1 DEF Fresh
    <2> QED
      BY <2>2, <2>4, <2>5 DEF Fresh, OneReader
  <1> QED
    BY <1>1, <1>2, <1>3, <1>4, <1>5, Steps

\* However requests, timers and relocks interleave, a lock has one chain of requests.
THEOREM ReadOnce == Spec => []OneReader
  <1>1. Init => TypeOK /\ Fresh /\ OneReader
    <2>1. Init => \A k \in Token : Carriers(k) = 0
      BY DEF Init, Carriers, PollStage
    <2>2. Init => request.stage # "granted"
      BY DEF Init, NoRequest
    <2> QED
      BY <2>1, <2>2, TypeInit DEF Fresh, OneReader
  <1>2. TypeOK /\ Fresh /\ OneReader /\ [Next]_vars => (TypeOK /\ Fresh /\ OneReader)'
    BY TypeStep, ReaderStep
  <1> QED
    BY <1>1, <1>2, PTL DEF Spec

-----------------------------------------------------------------------------
(* The handlers' lock. *)

\* An unlock that reached the station is the last handler's.
LastUnlock ==
    request.stage # "none" /\ request.item.kind = "unlock" => Len(eventHandlers) <= 1

\* A request in flight is answered as the one that was sent.
LEMMA AnswerKeepsItem ==
    ASSUME TypeOK, Station \/ StationFailsLock
    PROVE  /\ request.stage # "none" /\ request'.item = request.item
           /\ lockToken' = lockToken /\ eventHandlers' = eventHandlers
  <1>1. request \in Request
    BY DEF TypeOK, Station, StationGrants, StationRefusesLock, StationUnlocks, StationFailsLock,
           LockRequested, NoRequest
  <1> QED
    BY <1>1 DEF Station, StationGrants, StationRefusesLock, StationUnlocks, StationFailsLock,
                Request, peripheral

LEMMA LockStep ==
    ASSUME TypeOK, Fresh, LastUnlock, HandlersLocked, [Next]_vars
    PROVE  LastUnlock' /\ HandlersLocked'
  <1>1. CASE UNCHANGED <<peripheral, request>>
    BY <1>1 DEF peripheral, LastUnlock, HandlersLocked, isEnabled
  <1>2. CASE lockInternalAsync
    <2>1. Starts("lock") /\ Head(workerQueue).kind = "lock" /\ request = NoRequest
      BY <1>2 DEF lockInternalAsync, Starts
    <2>2. CASE isEnabled
      BY <1>2, <2>1, <2>2
      DEF lockInternalAsync, LastUnlock, HandlersLocked, isEnabled, NoRequest
    <2>3. CASE ~isEnabled
      BY <1>2, <2>1, <2>3
      DEF lockInternalAsync, Sends, peripheral, LastUnlock, HandlersLocked, isEnabled
    <2> QED
      BY <2>2, <2>3
  <1>3. CASE unlockInternalAsync
    <2>1. Starts("unlock") /\ request = NoRequest
      BY <1>3 DEF unlockInternalAsync, Starts
    <2>2. CASE isEnabled /\ Len(eventHandlers) > 1
      BY <1>3, <2>1, <2>2
      DEF unlockInternalAsync, LastUnlock, HandlersLocked, isEnabled, NoRequest
    <2>3. CASE ~isEnabled \/ ~(Len(eventHandlers) > 1)
      <3>1. UNCHANGED peripheral /\ (isEnabled => Len(eventHandlers) <= 1)
        BY <1>3, <2>3 DEF TypeOK, unlockInternalAsync
      <3>2. ~isEnabled => UNCHANGED request
        BY <1>3 DEF unlockInternalAsync
      <3> QED
        BY <3>1, <3>2, <2>1 DEF peripheral, LastUnlock, HandlersLocked, isEnabled, NoRequest
    <2> QED
      BY <2>2, <2>3
  <1>4. CASE Relock
    BY <1>4 DEF Relock, Starts, Sends, peripheral, LastUnlock, HandlersLocked, isEnabled
  <1>5. CASE LockGranted
    BY <1>5 DEF LockGranted, NoRequest, Fresh, LastUnlock, HandlersLocked, isEnabled, NoToken
  <1>6. CASE LockRefused
    BY <1>6 DEF LockRefused, NoRequest, peripheral, LastUnlock, HandlersLocked, isEnabled
  <1>7. CASE UnlockAnswered
    <2>1. Len(eventHandlers) <= 1
      BY <1>7 DEF UnlockAnswered, LastUnlock
    <2>2. eventHandlers' = <<>>
      BY <1>7, <2>1 DEF TypeOK, UnlockAnswered
    <2> QED
      BY <1>7, <2>2 DEF UnlockAnswered, NoRequest, LastUnlock, HandlersLocked
  <1>8. CASE Station \/ StationFailsLock
    BY <1>8, AnswerKeepsItem DEF LastUnlock, HandlersLocked, isEnabled
  <1>9. ASSUME NEW k \in Token, Polling(k) PROVE UNCHANGED <<peripheral, request>>
    BY <1>9, PollingStep DEF peripheral
  <1>10. Views \/ QueueEmpty \/ StationRestarts \/ UNCHANGED vars
            => UNCHANGED <<peripheral, request>>
    BY DEF Views, lockAsync, unlockAsync, Call, QueueEmpty, StationRestarts, vars, peripheral
  <1> QED
    BY <1>1, <1>2, <1>3, <1>4, <1>5, <1>6, <1>7, <1>8, <1>9, <1>10 DEF Next, Queue

\* No step leaves a handler registered with a peripheral that is not locked.
THEOREM HandlersStayLocked == Spec => []HandlersLocked
  <1>1. Init => TypeOK /\ Fresh /\ OneReader /\ LastUnlock /\ HandlersLocked
    <2>1. Init => \A k \in Token : Carriers(k) = 0
      BY DEF Init, Carriers, PollStage
    <2>2. Init => request.stage = "none" /\ eventHandlers = <<>>
      BY DEF Init, NoRequest
    <2> QED
      BY <2>1, <2>2, TypeInit DEF Fresh, OneReader, LastUnlock, HandlersLocked
  <1>2. TypeOK /\ Fresh /\ OneReader /\ LastUnlock /\ HandlersLocked /\ [Next]_vars
            => (TypeOK /\ Fresh /\ OneReader /\ LastUnlock /\ HandlersLocked)'
    BY TypeStep, ReaderStep, LockStep
  <1> QED
    BY <1>1, <1>2, PTL DEF Spec

-----------------------------------------------------------------------------
(* The reader's survival, until a lock request fails. *)

\* The station holds the device for nobody, for the peripheral, or for the grant on
\* its way; an unlock carries the peripheral's token.
HeldForUs ==
    /\ lockToken <= issued
    /\ holder \in {NoToken, IF request.stage = "granted" THEN request.token ELSE lockToken}
    /\ request.stage # "none" /\ request.item.kind = "unlock" =>
        request.token = lockToken /\ (request.stage = "settled" => holder = NoToken)

Going(k) == polls[k].sent + polls[k].waiting

\* The chain of a token the station still holds was never refused.
HeldIsRead == isEnabled /\ holder = lockToken => Going(lockToken) > 0

\* A relock is refused only to a peripheral that is read, or relocks again.
RefusedIsRead ==
    request.stage = "settled" /\ request.item.kind = "relock" /\ isEnabled
        => Carriers(lockToken) > 0 \/ RelockQueued

LockedIsRead == isEnabled => Carriers(lockToken) > 0 \/ RelockPending

RInv == HeldForUs /\ HeldIsRead /\ RefusedIsRead /\ LockedIsRead

\* Only a failure is counted as one.
LEMMA FailureStep ==
    ASSUME TypeOK, [Next]_vars, failures' = 0
    PROVE  failures = 0 /\ ~StationFailsLock
  <1>1. ~StationFailsLock
    BY DEF TypeOK, StationFailsLock
  <1>2. Views \/ Queue \/ Station \/ StationRestarts => failures' = failures
    BY DEF Views, lockAsync, unlockAsync, Call, Queue, QueueEmpty, lockInternalAsync,
           unlockInternalAsync, Relock, Starts, LockGranted, LockRefused, UnlockAnswered, Station,
           StationGrants, StationRefusesLock, StationUnlocks, StationRestarts, bounds
  <1>3. ASSUME NEW k \in Token, Polling(k) PROVE failures' = failures
    BY <1>3 DEF Polling, onDoGetDataSuccess, LockNotAcquired, onDoGetDataError, doGetData,
                StationRefusesPoll, bounds
  <1>4. UNCHANGED vars => failures' = failures
    BY DEF vars, bounds
  <1> QED
    BY <1>1, <1>2, <1>3, <1>4 DEF Next

\* Handing over a call leaves the relocks in the queue.
LEMMA QueueKept ==
    ASSUME TypeOK, NEW kind, Starts(kind), kind # "relock", RelockQueued
    PROVE  RelockQueued'
  <1>1. PICK i \in 1 .. Len(workerQueue) : workerQueue[i].kind = "relock"
    BY DEF RelockQueued
  <1>2. workerQueue # <<>> /\ Head(workerQueue).kind = kind /\ workerQueue' = Tail(workerQueue)
    BY DEF Starts
  <1>3. workerQueue \in Seq(Item) /\ Head(workerQueue) = workerQueue[1]
    BY <1>2 DEF TypeOK
  <1>4. i - 1 \in 1 .. Len(Tail(workerQueue)) /\ Tail(workerQueue)[i - 1] = workerQueue[i]
    BY <1>1, <1>2, <1>3, HeadTailProperties
  <1> QED
    BY <1>1, <1>2, <1>4 DEF RelockQueued

\* A relock stays in a queue that grows, and is there once it was queued.
LEMMA QueueGrows ==
    ASSUME TypeOK, NEW item \in Item, enqueue(item), RelockQueued \/ item.kind = "relock"
    PROVE  RelockQueued'
  <1>1. workerQueue' = Append(workerQueue, item) /\ workerQueue \in Seq(Item)
    BY DEF enqueue, TypeOK
  <1>2. /\ Len(workerQueue') = Len(workerQueue) + 1 /\ Len(workerQueue) \in Nat
        /\ \A i \in 1 .. Len(workerQueue) : workerQueue'[i] = workerQueue[i]
        /\ workerQueue'[Len(workerQueue) + 1] = item
    BY <1>1, AppendProperties
  <1>3. CASE RelockQueued
    BY <1>2, <1>3 DEF RelockQueued
  <1>4. CASE item.kind = "relock"
    BY <1>2, <1>4 DEF RelockQueued
  <1> QED
    BY <1>3, <1>4

\* The facts of a request in flight that the invariant distinguishes.
LEMMA HeldStep ==
    ASSUME TypeOK, Fresh, HeldForUs, [Next]_vars, ~StationFailsLock
    PROVE  HeldForUs'
  <1>0. issued \in Nat /\ lockToken \in Nat
    BY ConstantsAssumption DEF TypeOK, AnyToken, Token, NoToken, ConstantsAssumption
  <1>1. CASE UNCHANGED <<lockToken, issued, holder, request>>
    BY <1>1 DEF HeldForUs
  <1>2. ASSUME request = NoRequest, UNCHANGED <<lockToken, issued, holder>>,
               request' = NoRequest \/ (request'.stage = "sent" /\ request'.token = lockToken)
        PROVE  HeldForUs'
    BY <1>2 DEF HeldForUs, NoRequest
  <1>3. CASE lockInternalAsync \/ unlockInternalAsync \/ Relock
    BY <1>2, <1>3
    DEF lockInternalAsync, unlockInternalAsync, Relock, Starts, Sends, peripheral, bounds
  <1>4. CASE LockGranted
    BY <1>0, <1>4 DEF LockGranted, NoRequest, bounds, Fresh, HeldForUs
  <1>5. CASE LockRefused
    BY <1>5 DEF LockRefused, NoRequest, bounds, peripheral, HeldForUs
  <1>6. CASE UnlockAnswered
    BY <1>0, <1>6 DEF UnlockAnswered, NoRequest, bounds, HeldForUs, NoToken
  <1>7. CASE StationGrants
    <2>1. request \in Request /\ request.item.kind # "unlock"
      BY <1>7 DEF TypeOK, StationGrants, LockRequested, NoRequest
    <2>2. request' = [request EXCEPT !.stage = "granted", !.token = issued + 1]
      BY <1>7 DEF StationGrants
    <2>3. request'.stage = "granted" /\ request'.token = issued + 1
            /\ request'.item = request.item
      BY <2>1, <2>2 DEF Request
    <2> QED
      BY <1>0, <1>7, <2>1, <2>3 DEF StationGrants, Grants, peripheral, HeldForUs
  <1>8. CASE StationRefusesLock \/ StationUnlocks
    <2>1. request \in Request /\ request' = [request EXCEPT !.stage = "settled"]
            /\ request.stage = "sent"
      BY <1>8 DEF TypeOK, StationRefusesLock, StationUnlocks, LockRequested, NoRequest
    <2>2. request'.stage = "settled" /\ request'.item = request.item
            /\ request'.token = request.token
      BY <2>1 DEF Request
    <2>3. CASE StationRefusesLock
      BY <2>1, <2>2, <2>3 DEF StationRefusesLock, LockRequested, peripheral, bounds, HeldForUs
    <2>4. CASE StationUnlocks
      BY <2>1, <2>2, <2>4 DEF StationUnlocks, peripheral, bounds, HeldForUs
    <2> QED
      BY <1>8, <2>3, <2>4
  <1>9. CASE StationRestarts
    BY <1>9 DEF StationRestarts, peripheral, HeldForUs
  <1>10. ASSUME NEW k \in Token, Polling(k)
         PROVE  UNCHANGED <<lockToken, issued, holder, request>>
    BY <1>10, PollingStep
  <1>11. Views \/ QueueEmpty \/ UNCHANGED vars
            => UNCHANGED <<lockToken, issued, holder, request>>
    BY DEF Views, lockAsync, unlockAsync, Call, QueueEmpty, vars, peripheral, bounds
  <1> QED
    BY <1>1, <1>3, <1>4, <1>5, <1>6, <1>7, <1>8, <1>9, <1>10, <1>11 DEF Next, Queue, Station

\* A chain whose lock the peripheral still has goes on or asks for a relock; while the
\* station holds that lock it goes on.
LEMMA ChainStep ==
    ASSUME TypeOK, NEW k \in Token, Polling(k), NEW l \in Token, l = lockToken
    PROVE  /\ holder = l /\ Going(l) > 0 => Going(l)' > 0
           /\ Carriers(l) > 0 \/ RelockQueued => Carriers(l)' > 0 \/ RelockQueued'
           /\ RelockQueued => RelockQueued'
  <1>t. PollTable /\ PollTable'
    BY TypeStep DEF TypeOK, PollTable, Next
  <1>n. /\ polls[l] \in [PollStage -> Nat] /\ polls'[l] \in [PollStage -> Nat]
    BY <1>t DEF PollTable
  <1>s. ~shouldStopGetData(l)
    BY DEF shouldStopGetData, isEnabled, Token, NoToken
  <1>i. [kind |-> "relock", handler |-> NoHandler] \in Item
    BY DEF Item
  <1>q. workerQueue' = workerQueue \/ enqueue([kind |-> "relock", handler |-> NoHandler])
    BY DEF Polling, onDoGetDataSuccess, LockNotAcquired, onDoGetDataError, doGetData,
           StationRefusesPoll, queue
  <1>r. RelockQueued => RelockQueued'
    BY <1>i, <1>q, QueueGrows DEF RelockQueued
  <1>1. CASE k # l
    <2>1. polls'[l] = polls[l]
      BY <1>1, PollingStep
    <2> QED
      BY <1>r, <2>1 DEF Going, Carriers
  <1>2. CASE k = l /\ onDoGetDataSuccess(l)
    BY <1>2, <1>r, <1>s DEF onDoGetDataSuccess, Going, Carriers
  <1>3. CASE k = l /\ LockNotAcquired(l)
    <2>1. RelockQueued'
      BY <1>3, <1>s, <1>i, QueueGrows DEF LockNotAcquired
    <2>2. polls'[l].sent = polls[l].sent /\ polls'[l].waiting = polls[l].waiting
      BY <1>3, <1>t DEF LockNotAcquired, EndPoll, PollTable, PollStage
    <2> QED
      BY <2>1, <2>2 DEF Going
  <1>4. CASE k = l /\ onDoGetDataError(l)
    <2>1. polls[l].sent > 0 /\ MovePoll(l, "sent", "waiting")
      BY <1>4, <1>s DEF onDoGetDataError
    <2>2. polls'[l].sent = polls[l].sent - 1 /\ polls'[l].waiting = polls[l].waiting + 1
      BY <2>1, <1>t DEF MovePoll, PollTable, PollStage
    <2> QED
      BY <2>2, <1>n, <1>r DEF Going, Carriers, PollStage
  <1>5. CASE k = l /\ doGetData(l)
    <2>1. polls[l].waiting > 0 /\ MovePoll(l, "waiting", "sent")
      BY <1>5, <1>s DEF doGetData
    <2>2. polls'[l].sent = polls[l].sent + 1 /\ polls'[l].waiting = polls[l].waiting - 1
      BY <2>1, <1>t DEF MovePoll, PollTable, PollStage
    <2> QED
      BY <2>2, <1>n, <1>r DEF Going, Carriers, PollStage
  <1>6. CASE k = l /\ StationRefusesPoll(l)
    <2>1. polls[l].sent > 0 /\ MovePoll(l, "sent", "refused") /\ l # holder
      BY <1>6 DEF StationRefusesPoll
    <2>2. polls'[l].refused = polls[l].refused + 1
      BY <2>1, <1>t DEF MovePoll, PollTable, PollStage
    <2> QED
      BY <2>1, <2>2, <1>n, <1>r DEF Going, Carriers, PollStage
  <1> QED
    BY <1>1, <1>2, <1>3, <1>4, <1>5, <1>6 DEF Polling

LEMMA SurvivalStep ==
    ASSUME TypeOK, Fresh, RInv, [Next]_vars, ~StationFailsLock
    PROVE  HeldIsRead' /\ RefusedIsRead' /\ LockedIsRead'
  <1> USE DEF RInv
  <1>t. PollTable /\ (isEnabled => lockToken \in Token)
    BY DEF TypeOK, PollTable, isEnabled, AnyToken
  <1>i. /\ [kind |-> "unlock", handler |-> NoHandler] \in Item
        /\ \A h \in Handlers : [kind |-> "lock", handler |-> h] \in Item
    BY DEF Item
  <1>k. ASSUME UNCHANGED <<lockToken, polls, holder>>
        PROVE  HeldIsRead'
    BY <1>k DEF HeldIsRead, Going, isEnabled
  <1>1. CASE Views
    <2>1. UNCHANGED <<lockToken, polls, holder, request>>
      BY <1>1 DEF Views, lockAsync, unlockAsync, Call, peripheral
    <2>2. RelockQueued => RelockQueued'
      BY <1>1, <1>i, QueueGrows DEF Views, lockAsync, unlockAsync, Call
    <2> QED
      BY <1>k, <2>1, <2>2 DEF RefusedIsRead, LockedIsRead, RelockPending, Carriers, isEnabled
  <1>2. CASE QueueEmpty \/ UNCHANGED vars
    BY <1>k, <1>2
    DEF QueueEmpty, vars, peripheral, queue, RefusedIsRead, LockedIsRead, RelockPending,
        RelockQueued, Carriers, isEnabled
  <1>3. CASE lockInternalAsync \/ unlockInternalAsync
    <2>1. PICK kind \in {"lock", "unlock"} : Starts(kind)
      BY <1>3 DEF lockInternalAsync, unlockInternalAsync
    <2>2. UNCHANGED <<lockToken, polls, holder>> /\ request = NoRequest
            /\ (request' = NoRequest \/ request'.stage = "sent")
      BY <1>3, <2>1
      DEF lockInternalAsync, unlockInternalAsync, Starts, Sends, peripheral
    <2>3. RelockQueued => RelockQueued'
      BY <2>1, QueueKept
    <2> QED
      BY <1>k, <2>2, <2>3
      DEF RefusedIsRead, LockedIsRead, RelockPending, NoRequest, Carriers, isEnabled
  <1>4. CASE Relock
    <2>1. UNCHANGED <<lockToken, polls, holder>> /\ request'.stage = "sent"
            /\ request'.item.kind = "relock"
      BY <1>4 DEF Relock, Starts, Sends, peripheral
    <2> QED
      BY <1>k, <2>1 DEF RefusedIsRead, LockedIsRead, RelockPending
  <1>5. CASE LockGranted
    <2>1. PICK k \in Token : k = request.token /\ lockToken' = k /\ BeginPoll(k)
      BY <1>5, ConstantsAssumption DEF TypeOK, LockGranted, Fresh, Token, ConstantsAssumption
    <2>2. PollTable' /\ polls'[k].sent = polls[k].sent + 1
      BY <1>t, <2>1, BeginMore
    <2>3. /\ polls[k].sent \in Nat
          /\ polls'[k] \in [PollStage -> Nat]
      BY <1>t, <2>2 DEF PollTable, PollStage
    <2>4. Going(k)' > 0 /\ Carriers(k)' > 0
      BY <2>2, <2>3 DEF Going, Carriers, PollStage
    <2>5. (Going(lockToken) > 0)' /\ (Carriers(lockToken) > 0)' /\ request'.stage = "none"
      BY <1>5, <2>1, <2>4 DEF Going, Carriers, LockGranted, NoRequest
    <2> QED
      BY <2>5 DEF HeldIsRead, RefusedIsRead, LockedIsRead
  <1>6. CASE LockRefused
    <2>1. UNCHANGED <<lockToken, polls, holder, workerQueue>> /\ request' = NoRequest
            /\ request.stage = "settled"
      BY <1>6 DEF LockRefused, peripheral, queue
    <2> QED
      BY <1>k, <2>1
      DEF RefusedIsRead, LockedIsRead, RelockPending, RelockQueued, NoRequest, Carriers,
          isEnabled
  <1>7. CASE UnlockAnswered
    BY <1>7
    DEF UnlockAnswered, NoRequest, HeldIsRead, RefusedIsRead, LockedIsRead, isEnabled
  <1>8. CASE StationGrants
    <2>1. request \in Request /\ request' = [request EXCEPT !.stage = "granted",
                                                            !.token = issued + 1]
      BY <1>8 DEF TypeOK, StationGrants, LockRequested, NoRequest
    <2>2. request'.stage = "granted" /\ request'.item = request.item
      BY <2>1 DEF Request
    <2>3. UNCHANGED <<lockToken, polls, workerQueue>> /\ holder' # lockToken'
      BY <1>8, ConstantsAssumption
      DEF TypeOK, AnyToken, Token, NoToken, StationGrants, Grants, peripheral, queue, HeldForUs,
          ConstantsAssumption
    <2>4. request.stage # "none"
      BY <1>8 DEF StationGrants, LockRequested
    <2> QED
      BY <2>2, <2>3, <2>4
      DEF HeldIsRead, RefusedIsRead, LockedIsRead, RelockPending, RelockQueued, Carriers,
          isEnabled
  <1>9. CASE StationRefusesLock \/ StationUnlocks
    <2>1. request \in Request /\ request' = [request EXCEPT !.stage = "settled"]
            /\ request.stage = "sent"
      BY <1>9 DEF TypeOK, StationRefusesLock, StationUnlocks, LockRequested, NoRequest
    <2>2. request'.stage = "settled" /\ request'.item = request.item
      BY <2>1 DEF Request
    <2>3. UNCHANGED <<lockToken, polls, workerQueue>> /\ (holder' = holder \/ holder' = NoToken)
      BY <1>9 DEF StationRefusesLock, StationUnlocks, peripheral, queue, bounds
    <2>4. HeldIsRead' /\ LockedIsRead'
      BY <2>1, <2>2, <2>3
      DEF HeldIsRead, LockedIsRead, RelockPending, RelockQueued, Carriers, Going, isEnabled,
          NoToken
    <2>5. CASE StationUnlocks
      BY <2>2, <2>4, <2>5 DEF StationUnlocks, RefusedIsRead
    <2>6. CASE StationRefusesLock
      <3>1. holder = lockToken /\ isEnabled
        BY <2>1, <2>6 DEF StationRefusesLock, HeldForUs, isEnabled
      <3>2. PICK l \in Token : l = lockToken
        BY <1>t, <3>1
      <3>3. Going(l) > 0 /\ polls[l] \in [PollStage -> Nat]
        BY <1>t, <3>1, <3>2 DEF HeldIsRead, PollTable
      <3>4. Carriers(l) > 0
        BY <3>3 DEF Going, Carriers, PollStage
      <3> QED
        BY <2>3, <2>4, <3>2, <3>4 DEF RefusedIsRead, Carriers
    <2> QED
      BY <1>9, <2>4, <2>5, <2>6
  <1>10. CASE StationRestarts
    BY <1>10
    DEF StationRestarts, peripheral, queue, HeldIsRead, RefusedIsRead, LockedIsRead,
        RelockPending, RelockQueued, Carriers, isEnabled, NoToken
  <1>11. ASSUME NEW k \in Token, Polling(k) PROVE HeldIsRead' /\ RefusedIsRead' /\ LockedIsRead'
    <2>1. UNCHANGED <<lockToken, holder, request>>
      BY <1>11, PollingStep
    <2>2. CASE ~isEnabled
      BY <2>1, <2>2 DEF HeldIsRead, RefusedIsRead, LockedIsRead, isEnabled
    <2>3. CASE isEnabled
      <3>1. PICK l \in Token : l = lockToken
        BY <1>t, <2>3
      <3>2. /\ holder = l /\ Going(l) > 0 => Going(l)' > 0
            /\ Carriers(l) > 0 \/ RelockQueued => Carriers(l)' > 0 \/ RelockQueued'
            /\ RelockQueued => RelockQueued'
        BY <1>11, <3>1, ChainStep
      <3>3. HeldIsRead'
        BY <2>1, <2>3, <3>1, <3>2 DEF HeldIsRead, Going, isEnabled
      <3>4. RefusedIsRead' /\ LockedIsRead'
        BY <2>1, <2>3, <3>1, <3>2
        DEF RefusedIsRead, LockedIsRead, RelockPending, Carriers, isEnabled
      <3> QED
        BY <3>3, <3>4
    <2> QED
      BY <2>2, <2>3
  <1> QED
    BY <1>1, <1>2, <1>3, <1>4, <1>5, <1>6, <1>7, <1>8, <1>9, <1>10, <1>11
    DEF Next, Queue, Station

\* Until a lock request fails, a locked peripheral never stops being read: its chain
\* goes on, or a relock that starts a new one is under way.
THEOREM ReaderSurvives == Spec => []ReaderAlive
  <1> DEFINE Survival == failures = 0 => RInv
  <1>1. Init => TypeOK /\ Fresh /\ OneReader /\ Survival
    <2>1. Init => \A k \in Token : Carriers(k) = 0
      BY DEF Init, Carriers, PollStage
    <2>2. Init => request.stage = "none" /\ lockToken = NoToken /\ holder = NoToken /\ issued = 0
      BY DEF Init, NoRequest
    <2> QED
      BY <2>1, <2>2, TypeInit
      DEF Fresh, OneReader, RInv, HeldForUs, HeldIsRead, RefusedIsRead, LockedIsRead, isEnabled,
          NoToken
  <1>2. TypeOK /\ Fresh /\ OneReader /\ Survival /\ [Next]_vars
            => (TypeOK /\ Fresh /\ OneReader /\ Survival)'
    BY TypeStep, ReaderStep, FailureStep, HeldStep, SurvivalStep DEF RInv
  <1>3. Survival => ReaderAlive
    BY DEF RInv, LockedIsRead, ReaderAlive
  <1> QED
    BY <1>1, <1>2, <1>3, PTL DEF Spec
-----------------------------------------------------------------------------
(* What AskedOf computes, by induction on the length of the queue. *)

\* A set of numbers closed under successor is all of them: otherwise its complement
\* had a least element.
LEMMA ClosedIsAll ==
    ASSUME NEW S \in SUBSET Nat, 0 \in S, \A n \in S : n + 1 \in S
    PROVE  S = Nat
  <1> DEFINE Less == {p \in Nat \X Nat : p[1] < p[2]}
             Left == Nat \ S
  <1>1. IsWellFoundedOn(Less, Nat)
    BY NatLessThanWellFounded, Zenon DEF OpToRel
  <1>2. SUFFICES ASSUME Left # {} PROVE FALSE
    OBVIOUS
  <1>3. PICK n \in Left : \A m \in Left : ~(<<m, n>> \in Less)
    <2>1. Left \subseteq Nat
      OBVIOUS
    <2> HIDE DEF Less, Left
    <2> QED
      BY <1>1, <1>2, <2>1, WFMin, Zenon
  <1>4. n \in Nat /\ n # 0
    OBVIOUS
  <1>5. n - 1 \in Nat /\ n - 1 < n /\ n = (n - 1) + 1
    BY <1>4
  <1>6. n - 1 \in S
    BY <1>3, <1>5
  <1> QED
    BY <1>5, <1>6

\* The recursion of AskedPrefix has a solution.
LEMMA PrefixExists ==
    ASSUME NEW items \in Seq(Item)
    PROVE  \E f : f = [n \in 0 .. Len(items) |->
                        IF n = 0 THEN <<>>
                        ELSE IF items[n].kind = "relock" THEN f[n - 1]
                        ELSE Append(f[n - 1], items[n])]
  <1> DEFINE Step(f, n) == IF n = 0 THEN <<>>
                           ELSE IF items[n].kind = "relock" THEN f[n - 1]
                           ELSE Append(f[n - 1], items[n])
             Upto == {m \in Nat : \E f : f = [n \in 0 .. m |-> Step(f, n)]}
  <1>1. 0 \in Upto
    <2> DEFINE f == [n \in 0 .. 0 |-> <<>>]
    <2>1. f = [n \in 0 .. 0 |-> Step(f, n)]
      OBVIOUS
    <2> QED
      BY <2>1
  <1>2. ASSUME NEW m \in Upto PROVE m + 1 \in Upto
    <2>1. PICK f : f = [n \in 0 .. m |-> Step(f, n)]
      OBVIOUS
    <2> DEFINE g == [n \in 0 .. m + 1 |-> IF n \in 0 .. m THEN f[n] ELSE Step(f, n)]
    <2>2. \A n \in 0 .. m : g[n] = f[n]
      OBVIOUS
    <2>3. ASSUME NEW n \in 0 .. m + 1 PROVE g[n] = Step(g, n)
      <3>1. n = 0 \/ n - 1 \in 0 .. m
        OBVIOUS
      <3>2. Step(g, n) = Step(f, n)
        BY <2>2, <3>1
      <3>3. n \in 0 .. m => f[n] = Step(f, n)
        <4> HIDE DEF Step
        <4> QED
          BY <2>1
      <3> QED
        BY <3>2, <3>3
    <2>4. g = [n \in 0 .. m + 1 |-> g[n]]
      OBVIOUS
    <2>5. g = [n \in 0 .. m + 1 |-> Step(g, n)]
      <3> HIDE DEF g, Step
      <3> QED
        BY <2>3, <2>4
    <2>6. m + 1 \in Nat /\ \E h : h = [n \in 0 .. m + 1 |-> Step(h, n)]
      <3> HIDE DEF g, Step
      <3> QED
        BY <2>5
    <2> HIDE DEF g, Step
    <2> QED
      BY <2>6
  <1>3. Upto = Nat
    <2>1. Upto \in SUBSET Nat
      OBVIOUS
    <2> HIDE DEF Upto
    <2> QED
      BY <1>1, <1>2, <2>1, ClosedIsAll
  <1>4. Len(items) \in Upto
    <2> HIDE DEF Upto
    <2> QED
      BY <1>3
  <1> QED
    BY <1>4

LEMMA PrefixIs ==
    ASSUME NEW items \in Seq(Item)
    PROVE  AskedPrefix(items) =
             [n \in 0 .. Len(items) |->
                IF n = 0 THEN <<>>
                ELSE IF items[n].kind = "relock" THEN AskedPrefix(items)[n - 1]
                ELSE Append(AskedPrefix(items)[n - 1], items[n])]
  BY PrefixExists, Zenon DEF AskedPrefix
\* The recursion, one step at a time.
LEMMA PrefixUnrolls ==
    ASSUME NEW items \in Seq(Item)
    PROVE  /\ AskedPrefix(items)[0] = <<>>
           /\ \A n \in Nat : n < Len(items) =>
                AskedPrefix(items)[n + 1] =
                  IF items[n + 1].kind = "relock" THEN AskedPrefix(items)[n]
                  ELSE Append(AskedPrefix(items)[n], items[n + 1])
  <1> DEFINE f == AskedPrefix(items)
             Step(n) == IF n = 0 THEN <<>>
                        ELSE IF items[n].kind = "relock" THEN f[n - 1]
                        ELSE Append(f[n - 1], items[n])
  <1>1. f = [n \in 0 .. Len(items) |-> Step(n)]
    BY PrefixIs, Zenon
  <1> HIDE DEF f
  <1>2. \A n \in 0 .. Len(items) : f[n] = Step(n)
    <2> HIDE DEF Step
    <2> QED
      BY <1>1
  <1>3. Len(items) \in Nat
    OBVIOUS
  <1>4. f[0] = <<>>
    BY <1>2, <1>3
  <1>5. ASSUME NEW n \in Nat, n < Len(items)
        PROVE  f[n + 1] = IF items[n + 1].kind = "relock" THEN f[n]
                          ELSE Append(f[n], items[n + 1])
    <2>1. n + 1 \in 0 .. Len(items) /\ n + 1 # 0 /\ (n + 1) - 1 = n
      BY <1>3, <1>5
    <2>2. f[n + 1] = Step(n + 1)
      BY <1>2, <2>1
    <2> QED
      BY <2>1, <2>2
  <1> QED
    BY <1>4, <1>5 DEF f

\* Every prefix of the calls is a sequence of items.
LEMMA PrefixTyped ==
    ASSUME NEW items \in Seq(Item)
    PROVE  \A n \in 0 .. Len(items) : AskedPrefix(items)[n] \in Seq(Item)
  <1> DEFINE f == AskedPrefix(items)
             Good == {n \in Nat : n <= Len(items) => f[n] \in Seq(Item)}
  <1>0. Len(items) \in Nat
    OBVIOUS
  <1>f. /\ f[0] = <<>>
        /\ \A n \in Nat : n < Len(items) =>
             f[n + 1] = IF items[n + 1].kind = "relock" THEN f[n] ELSE Append(f[n], items[n + 1])
    BY PrefixUnrolls
  <1> HIDE DEF f
  <1>1. 0 \in Good
    <2>1. f[0] \in Seq(Item)
      BY <1>f, EmptySeq
    <2> QED
      BY <2>1
  <1>2. ASSUME NEW n \in Good PROVE n + 1 \in Good
    <2>1. n \in Nat /\ (n <= Len(items) => f[n] \in Seq(Item))
      OBVIOUS
    <2>2. ASSUME n + 1 <= Len(items) PROVE f[n + 1] \in Seq(Item)
      <3>1. n < Len(items) /\ n <= Len(items) /\ n + 1 \in 1 .. Len(items)
        BY <1>0, <2>1, <2>2
      <3>2. f[n] \in Seq(Item) /\ items[n + 1] \in Item
        BY <2>1, <3>1, ElementOfSeq
      <3>3. Append(f[n], items[n + 1]) \in Seq(Item)
        BY <3>2
      <3> QED
        BY <1>f, <2>1, <3>1, <3>2, <3>3
    <2> QED
      BY <2>1, <2>2
  <1>3. Good = Nat
    <2>1. Good \in SUBSET Nat
      OBVIOUS
    <2> HIDE DEF Good
    <2> QED
      BY <1>1, <1>2, <2>1, ClosedIsAll
  <1>4. \A n \in Nat : n \in Good
    <2> HIDE DEF Good
    <2> QED
      BY <1>3
  <1> QED
    BY <1>0, <1>4 DEF f

\* A call that joins the queue is asked last; a relock changes nothing.
LEMMA AskedGrows ==
    ASSUME NEW items \in Seq(Item), NEW item \in Item
    PROVE  AskedOf(Append(items, item)) =
             IF item.kind = "relock" THEN AskedOf(items) ELSE Append(AskedOf(items), item)
  <1> DEFINE longer == Append(items, item)
             f == AskedPrefix(items)
             g == AskedPrefix(longer)
             Same == {n \in Nat : n <= Len(items) => g[n] = f[n]}
  <1>0. /\ longer \in Seq(Item) /\ Len(items) \in Nat /\ Len(longer) = Len(items) + 1
        /\ \A n \in 1 .. Len(items) : longer[n] = items[n]
        /\ longer[Len(items) + 1] = item
    BY AppendProperties
  <1> HIDE DEF longer
  <1>f. /\ f[0] = <<>>
        /\ \A n \in Nat : n < Len(items) =>
             f[n + 1] = IF items[n + 1].kind = "relock" THEN f[n] ELSE Append(f[n], items[n + 1])
    BY PrefixUnrolls
  <1>g. /\ g[0] = <<>>
        /\ \A n \in Nat : n < Len(longer) =>
             g[n + 1] = IF longer[n + 1].kind = "relock" THEN g[n]
                        ELSE Append(g[n], longer[n + 1])
    BY <1>0, PrefixUnrolls
  <1>a. AskedOf(items) = f[Len(items)] /\ AskedOf(longer) = g[Len(longer)]
    BY DEF AskedOf
  <1> HIDE DEF f, g
  <1>1. 0 \in Same
    BY <1>f, <1>g
  <1>2. ASSUME NEW n \in Same PROVE n + 1 \in Same
    <2>1. n \in Nat /\ (n <= Len(items) => g[n] = f[n])
      OBVIOUS
    <2>2. ASSUME n + 1 <= Len(items) PROVE g[n + 1] = f[n + 1]
      <3>1. /\ n < Len(items) /\ n <= Len(items) /\ n < Len(longer)
            /\ n + 1 \in 1 .. Len(items)
        BY <1>0, <2>1, <2>2
      <3>2. g[n] = f[n] /\ longer[n + 1] = items[n + 1]
        BY <1>0, <2>1, <3>1
      <3> QED
        BY <1>f, <1>g, <2>1, <3>1, <3>2
    <2> QED
      BY <2>1, <2>2
  <1>3. Same = Nat
    <2>1. Same \in SUBSET Nat
      OBVIOUS
    <2> HIDE DEF Same
    <2> QED
      BY <1>1, <1>2, <2>1, ClosedIsAll
  <1>4. Len(items) \in Same
    <2> HIDE DEF Same
    <2> QED
      BY <1>0, <1>3
  <1>5. g[Len(items)] = f[Len(items)]
    BY <1>4
  <1>6. g[Len(items) + 1] = IF item.kind = "relock" THEN g[Len(items)]
                            ELSE Append(g[Len(items)], item)
    BY <1>0, <1>g
  <1> QED
    BY <1>0, <1>5, <1>6, <1>a DEF longer

OwnCall(item) == IF item.kind = "relock" THEN <<>> ELSE <<item>>

\* An item put before others is asked before them.
LEMMA AskedFirst ==
    ASSUME NEW item \in Item, NEW items \in Seq(Item)
    PROVE  AskedOf(<<item>> \o items) = OwnCall(item) \o AskedOf(items)
  <1> DEFINE longer == <<item>> \o items
             own == OwnCall(item)
             f == AskedPrefix(items)
             g == AskedPrefix(longer)
             Behind == {n \in Nat : n <= Len(items) => g[n + 1] = own \o f[n]}
  <1>o. <<item>> \in Seq(Item) /\ Len(<<item>>) = 1 /\ <<item>>[1] = item /\ own \in Seq(Item)
    BY DEF OwnCall
  <1>0. /\ longer \in Seq(Item) /\ Len(items) \in Nat /\ Len(longer) = Len(items) + 1
        /\ longer[1] = item
        /\ \A n \in 1 .. Len(items) : longer[n + 1] = items[n]
    BY <1>o, ConcatProperties
  <1> HIDE DEF longer
  <1>f. /\ f[0] = <<>>
        /\ \A n \in Nat : n < Len(items) =>
             f[n + 1] = IF items[n + 1].kind = "relock" THEN f[n] ELSE Append(f[n], items[n + 1])
    BY PrefixUnrolls
  <1>g. /\ g[0] = <<>>
        /\ \A n \in Nat : n < Len(longer) =>
             g[n + 1] = IF longer[n + 1].kind = "relock" THEN g[n]
                        ELSE Append(g[n], longer[n + 1])
    BY <1>0, PrefixUnrolls
  <1>t. \A n \in 0 .. Len(items) : f[n] \in Seq(Item)
    BY PrefixTyped
  <1>a. AskedOf(items) = f[Len(items)] /\ AskedOf(longer) = g[Len(longer)]
    BY DEF AskedOf
  <1> HIDE DEF f, g
  <1>1. 0 \in Behind
    <2>1. PICK k \in Nat : k = 0
      OBVIOUS
    <2>2. k + 1 = 1 /\ k < Len(longer)
      BY <1>0, <2>1
    <2>3. g[1] = IF item.kind = "relock" THEN <<>> ELSE Append(<<>>, item)
      <3>1. g[k + 1] = IF longer[k + 1].kind = "relock" THEN g[k] ELSE Append(g[k], longer[k + 1])
        BY <1>g, <2>2
      <3> QED
        BY <1>0, <1>g, <2>1, <2>2, <3>1
    <2>4. g[1] = own
      BY <2>3 DEF OwnCall
    <2>5. own \o f[0] = own
      BY <1>f, <1>o, ConcatEmptySeq
    <2>6. k \in Behind
      <3> HIDE DEF own
      <3> QED
        BY <2>1, <2>2, <2>4, <2>5
    <2> HIDE DEF Behind
    <2> QED
      BY <2>1, <2>6
  <1>2. ASSUME NEW n \in Behind PROVE n + 1 \in Behind
    <2>1. n \in Nat /\ (n <= Len(items) => g[n + 1] = own \o f[n])
      OBVIOUS
    <2> HIDE DEF own
    <2>2. ASSUME n + 1 <= Len(items) PROVE g[(n + 1) + 1] = own \o f[n + 1]
      <3>1. /\ n < Len(items) /\ n <= Len(items) /\ n + 1 < Len(longer)
            /\ n + 1 \in 1 .. Len(items) /\ n + 1 \in Nat /\ n \in 0 .. Len(items)
        BY <1>0, <2>1, <2>2
      <3>2. g[n + 1] = own \o f[n] /\ longer[(n + 1) + 1] = items[n + 1]
        BY <1>0, <2>1, <3>1
      <3>3. g[(n + 1) + 1] = IF items[n + 1].kind = "relock" THEN g[n + 1]
                             ELSE Append(g[n + 1], items[n + 1])
        BY <1>g, <3>1, <3>2
      <3>4. f[n + 1] = IF items[n + 1].kind = "relock" THEN f[n]
                       ELSE Append(f[n], items[n + 1])
        BY <1>f, <2>1, <3>1
      <3>5. f[n] \in Seq(Item) /\ items[n + 1] \in Item
        BY <1>t, <3>1, ElementOfSeq
      <3>6. Append(own \o f[n], items[n + 1]) = own \o Append(f[n], items[n + 1])
        <4> HIDE DEF Behind
        <4>1. PICK a \in Seq(Item), b \in Seq(Item), x \in Item :
                 a = own /\ b = f[n] /\ x = items[n + 1]
          BY <1>o, <3>5
        <4>2. a \in Seq(Item) /\ b \in Seq(Item) /\ x \in Item
          BY <4>1
        <4>3. Append(a \o b, x) = a \o Append(b, x)
          BY <4>2, Z3
        <4> QED
          BY <4>1, <4>3, Zenon
      <3> QED
        BY <3>2, <3>3, <3>4, <3>6
    <2> QED
      BY <2>1, <2>2 DEF own
  <1>3. Behind = Nat
    <2>1. Behind \in SUBSET Nat
      OBVIOUS
    <2> HIDE DEF Behind
    <2> QED
      BY <1>1, <1>2, <2>1, ClosedIsAll
  <1>4. Len(items) \in Behind
    <2> HIDE DEF Behind
    <2> QED
      BY <1>0, <1>3
  <1>5. g[Len(items) + 1] = own \o f[Len(items)]
    BY <1>0, <1>4
  <1> QED
    BY <1>0, <1>5, <1>a DEF longer
LEMMA AskedTyped ==
    ASSUME NEW items \in Seq(Item)
    PROVE  AskedOf(items) \in Seq(Item)
  <1>1. Len(items) \in 0 .. Len(items)
    OBVIOUS
  <1> QED
    BY <1>1, PrefixTyped DEF AskedOf

\* The calls of a queue are its head's and those of the others.
LEMMA AskedHead ==
    ASSUME NEW items \in Seq(Item), items # <<>>
    PROVE  AskedOf(items) = OwnCall(Head(items)) \o AskedOf(Tail(items))
  <1>1. Head(items) \in Item /\ Tail(items) \in Seq(Item)
    OBVIOUS
  <1>2. PICK item \in Item, rest \in Seq(Item) : item = Head(items) /\ rest = Tail(items)
    BY <1>1
  <1>3. items = <<item>> \o rest
    BY <1>2
  <1> QED
    BY <1>2, <1>3, AskedFirst

-----------------------------------------------------------------------------
(* The stack of handlers. *)

Pending == AskedOf(<<request.item>> \o workerQueue)

\* A lock is requested for the first handler, and only a lock is granted.
FirstLock ==
    /\ request.item.kind = "lock" => eventHandlers = <<>>
    /\ request.stage = "granted" => request.item.kind # "unlock"

StackInv == TypeOK /\ Fresh /\ OneReader /\ LastUnlock /\ HandlersLocked /\ FirstLock

LEMMA ItemTyped == ASSUME TypeOK PROVE request.item \in Item
  BY DEF TypeOK, Request, NoRequest, Item

\* The pending calls are the one at the station and those in the queue.
LEMMA PendingIs ==
    ASSUME TypeOK
    PROVE  /\ Pending = OwnCall(request.item) \o AskedOf(workerQueue)
           /\ AskedOf(workerQueue) \in Seq(Item)
  <1>1. request.item \in Item /\ workerQueue \in Seq(Item)
    BY ItemTyped DEF TypeOK
  <1> QED
    BY <1>1, AskedFirst, AskedTyped DEF Pending

LEMMA PendingNext ==
    ASSUME TypeOK'
    PROVE  /\ Pending' = OwnCall(request'.item) \o AskedOf(workerQueue')
           /\ AskedOf(workerQueue') \in Seq(Item)
  <1>1. (request.item \in Item)' /\ workerQueue' \in Seq(Item)
    BY DEF TypeOK, Request, NoRequest, Item
  <1> QED
    BY <1>1, AskedFirst, AskedTyped DEF Pending

\* A step that settles the oldest call.
LEMMA Settles ==
    ASSUME NEW item \in Item, NEW rest \in Seq(Item), Pending = <<item>> \o rest, Pending' = rest,
           \/ item.kind = "lock" /\ eventHandlers' = Append(eventHandlers, item.handler)
           \/ /\ item.kind = "unlock" /\ eventHandlers # <<>>
              /\ eventHandlers' = SubSeq(eventHandlers, 1, Len(eventHandlers) - 1)
           \/ eventHandlers = <<>> /\ UNCHANGED eventHandlers
    PROVE  Handling!Settle
  <1>1. Pending # <<>> /\ Head(Pending) = item /\ Pending' = Tail(Pending)
    OBVIOUS
  <1> QED
    BY <1>1 DEF Handling!Settle, Pending

LEMMA FirstLockStep ==
    ASSUME TypeOK, HandlersLocked, FirstLock, [Next]_vars
    PROVE  FirstLock'
  <1>1. CASE UNCHANGED <<eventHandlers, request>>
    BY <1>1 DEF FirstLock
  <1>2. ASSUME request' = NoRequest
        PROVE  FirstLock'
    BY <1>2 DEF FirstLock, NoRequest
  <1>3. CASE lockInternalAsync
    <2>1. CASE isEnabled
      BY <1>2, <1>3, <2>1 DEF lockInternalAsync, Starts
    <2>2. CASE ~isEnabled
      BY <1>3, <2>2 DEF lockInternalAsync, Sends, peripheral, HandlersLocked, FirstLock
    <2> QED
      BY <2>1, <2>2
  <1>4. CASE unlockInternalAsync \/ Relock
    <2>1. request' = NoRequest \/ (Sends /\ Head(workerQueue).kind # "lock")
      BY <1>4 DEF unlockInternalAsync, Relock, Starts
    <2>2. request'.item.kind # "lock" /\ request'.stage # "granted"
      BY <2>1 DEF Sends, NoRequest
    <2> QED
      BY <2>2 DEF FirstLock
  <1>5. CASE LockGranted \/ LockRefused \/ UnlockAnswered
    BY <1>2, <1>5 DEF LockGranted, LockRefused, UnlockAnswered
  <1>6. CASE Station \/ StationFailsLock
    <2>1. request \in Request
      BY <1>6, AnswerKeepsItem DEF TypeOK, NoRequest
    <2>2. request'.stage = "granted" => request.item.kind # "unlock"
      BY <1>6, <2>1
      DEF Station, StationGrants, StationRefusesLock, StationUnlocks, StationFailsLock,
          LockRequested, Request
    <2> QED
      BY <1>6, <2>2, AnswerKeepsItem DEF FirstLock
  <1>7. ASSUME NEW k \in Token, Polling(k) PROVE UNCHANGED <<eventHandlers, request>>
    BY <1>7, PollingStep
  <1>8. Views \/ QueueEmpty \/ StationRestarts \/ UNCHANGED vars
            => UNCHANGED <<eventHandlers, request>>
    BY DEF Views, lockAsync, unlockAsync, Call, QueueEmpty, StationRestarts, vars, peripheral
  <1> QED
    BY <1>1, <1>3, <1>4, <1>5, <1>6, <1>7, <1>8 DEF Next, Queue

\* A call of a view is asked last.
LEMMA CallMaps ==
    ASSUME TypeOK, TypeOK', NEW item \in Handling!PeripheralCall, Call(item)
    PROVE  Handling!Ask(item)
  <1>1. item \in Item /\ item.kind # "relock"
    BY DEF Handling!PeripheralCall, Item
  <1>2. workerQueue' = Append(workerQueue, item) /\ UNCHANGED <<eventHandlers, request>>
    BY DEF Call, enqueue, peripheral
  <1>3. PICK first \in Item, queued \in Seq(Item) : first = request.item /\ queued = workerQueue
    BY ItemTyped DEF TypeOK
  <1>4. <<first>> \o queued \in Seq(Item)
            /\ <<first>> \o Append(queued, item) = Append(<<first>> \o queued, item)
    BY <1>1
  <1>5. AskedOf(Append(<<first>> \o queued, item)) = Append(AskedOf(<<first>> \o queued), item)
    BY <1>1, <1>4, AskedGrows
  <1>6. Pending' = Append(Pending, item)
    BY <1>2, <1>3, <1>4, <1>5 DEF Pending
  <1> QED
    BY <1>2, <1>6 DEF Handling!Ask, Pending

\* What a step of the queue's start changes of the pending calls.
LEMMA StartKeeps ==
    ASSUME TypeOK, TypeOK', NEW kind, Starts(kind)
    PROVE  /\ Pending = OwnCall(Head(workerQueue)) \o AskedOf(workerQueue')
           /\ AskedOf(workerQueue') \in Seq(Item) /\ Head(workerQueue) \in Item
           /\ Head(workerQueue).kind = kind
           /\ Sends => Pending' = Pending
           /\ request' = request => Pending' = AskedOf(workerQueue')
  <1>1. /\ request = NoRequest /\ workerQueue \in Seq(Item) /\ workerQueue # <<>>
        /\ workerQueue' = Tail(workerQueue) /\ Head(workerQueue).kind = kind
    BY DEF Starts, TypeOK
  <1>2. OwnCall(NoRequest.item) = <<>> /\ Head(workerQueue) \in Item
    BY <1>1 DEF OwnCall, NoRequest
  <1>3. \A s \in Seq(Item) : <<>> \o s = s
    BY ConcatEmptySeq
  <1>4. Pending = AskedOf(workerQueue)
    BY <1>1, <1>2, <1>3, PendingIs
  <1>5. AskedOf(workerQueue) = OwnCall(Head(workerQueue)) \o AskedOf(workerQueue')
    BY <1>1, AskedHead
  <1>6. Pending' = OwnCall(request'.item) \o AskedOf(workerQueue')
            /\ AskedOf(workerQueue') \in Seq(Item)
    BY PendingNext
  <1>7. Sends => request'.item = Head(workerQueue)
    BY DEF Sends
  <1> QED
    BY <1>1, <1>2, <1>3, <1>4, <1>5, <1>6, <1>7

\* Every step of the peripheral is one of the stack's, or changes neither.
LEMMA StackStep ==
    ASSUME StackInv, TypeOK', [Next]_vars
    PROVE  \/ \E item \in Handling!PeripheralCall : Handling!Ask(item)
           \/ Handling!Settle
           \/ UNCHANGED <<Pending, eventHandlers>>
  <1> USE DEF StackInv
  <1>1. CASE UNCHANGED <<eventHandlers, request, workerQueue>>
    BY <1>1 DEF Pending
  <1>2. CASE Views
    <2>1. PICK item \in Handling!PeripheralCall : Call(item)
      BY <1>2 DEF Views, lockAsync, unlockAsync, Handling!PeripheralCall
    <2> QED
      BY <2>1, CallMaps
  <1>3. CASE lockInternalAsync
    <2>1. Starts("lock")
      BY <1>3 DEF lockInternalAsync
    <2>2. CASE isEnabled
      <3>1. OwnCall(Head(workerQueue)) = <<Head(workerQueue)>>
        BY <2>1 DEF Starts, OwnCall
      <3>2. request' = request /\ eventHandlers' = Append(eventHandlers, Head(workerQueue).handler)
        BY <1>3, <2>2 DEF lockInternalAsync
      <3> QED
        BY <2>1, <3>1, <3>2, StartKeeps, Settles
    <2>3. CASE ~isEnabled
      BY <1>3, <2>1, <2>3, StartKeeps DEF lockInternalAsync, peripheral
    <2> QED
      BY <2>2, <2>3
  <1>4. CASE unlockInternalAsync
    <2>1. Starts("unlock")
      BY <1>4 DEF unlockInternalAsync
    <2>2. OwnCall(Head(workerQueue)) = <<Head(workerQueue)>>
      BY <2>1 DEF Starts, OwnCall
    <2>3. CASE ~isEnabled
      <3>1. eventHandlers = <<>> /\ UNCHANGED <<eventHandlers, request>>
        BY <1>4, <2>3 DEF unlockInternalAsync, peripheral, HandlersLocked
      <3> QED
        BY <2>1, <2>2, <3>1, StartKeeps, Settles
    <2>4. CASE isEnabled /\ Len(eventHandlers) > 1
      <3>1. /\ eventHandlers' = SubSeq(eventHandlers, 1, Len(eventHandlers) - 1)
            /\ eventHandlers # <<>> /\ request' = request
        BY <1>4, <2>4 DEF unlockInternalAsync, TypeOK
      <3> QED
        BY <2>1, <2>2, <3>1, StartKeeps, Settles
    <2>5. CASE isEnabled /\ ~(Len(eventHandlers) > 1)
      BY <1>4, <2>1, <2>5, StartKeeps DEF unlockInternalAsync, peripheral
    <2> QED
      BY <2>3, <2>4, <2>5
  <1>5. CASE Relock
    BY <1>5, StartKeeps DEF Relock, peripheral
  <1>6. CASE LockGranted \/ LockRefused \/ UnlockAnswered
    <2>1. /\ workerQueue' = workerQueue /\ request' = NoRequest
          /\ request.stage # "none" /\ request.item \in Item
      BY <1>6, ItemTyped DEF LockGranted, LockRefused, UnlockAnswered, queue
    <2>2. PICK item \in Item, rest \in Seq(Item) : item = request.item /\ rest = AskedOf(workerQueue)
      BY <2>1, PendingIs
    <2>3. Pending = OwnCall(item) \o rest
      BY <2>2, PendingIs
    <2>4. Pending' = rest
      <3>1. OwnCall(NoRequest.item) = <<>> /\ <<>> \o rest = rest
        BY ConcatEmptySeq DEF OwnCall, NoRequest
      <3> QED
        BY <2>1, <2>2, <3>1, PendingNext
    <2>5. CASE item.kind = "relock"
      <3>1. OwnCall(item) \o rest = rest
        BY <2>5, ConcatEmptySeq DEF OwnCall
      <3>2. UNCHANGED eventHandlers
        BY <1>6, <2>2, <2>5 DEF LockGranted, LockRefused, UnlockAnswered, peripheral
      <3> QED
        BY <2>3, <2>4, <3>1, <3>2
    <2>6. CASE item.kind = "lock"
      <3>1. Pending = <<item>> \o rest
        BY <2>3, <2>6 DEF OwnCall
      <3>2. \/ eventHandlers' = Append(eventHandlers, item.handler)
            \/ eventHandlers = <<>> /\ UNCHANGED eventHandlers
        BY <1>6, <2>2, <2>6
        DEF LockGranted, LockRefused, UnlockAnswered, peripheral, FirstLock
      <3> QED
        BY <2>4, <2>6, <3>1, <3>2, Settles
    <2>7. CASE item.kind = "unlock"
      <3>1. Pending = <<item>> \o rest
        BY <2>3, <2>7 DEF OwnCall
      <3>2. CASE UnlockAnswered
        <4>1. \/ /\ eventHandlers # <<>>
                 /\ eventHandlers' = SubSeq(eventHandlers, 1, Len(eventHandlers) - 1)
              \/ eventHandlers = <<>> /\ UNCHANGED eventHandlers
          BY <3>2 DEF UnlockAnswered
        <4> QED
          BY <2>4, <2>7, <3>1, <4>1, Settles
      <3>3. CASE LockGranted
        BY <2>2, <2>7, <3>3 DEF LockGranted, FirstLock
      <3>4. CASE LockRefused
        BY <2>2, <2>7, <3>4 DEF LockRefused
      <3> QED
        BY <1>6, <3>2, <3>3, <3>4
    <2> QED
      BY <2>2, <2>5, <2>6, <2>7 DEF Item
  <1>7. CASE Station \/ StationFailsLock
    <2>1. request'.item = request.item /\ UNCHANGED <<eventHandlers, workerQueue>>
      BY <1>7, AnswerKeepsItem
      DEF Station, StationGrants, StationRefusesLock, StationUnlocks, StationFailsLock, queue
    <2> QED
      BY <2>1 DEF Pending
  <1>8. ASSUME NEW k \in Token, Polling(k)
        PROVE  UNCHANGED <<Pending, eventHandlers>>
    <2>1. UNCHANGED <<eventHandlers, request>>
      BY <1>8, PollingStep
    <2>2. PICK relock \in Item : relock = [kind |-> "relock", handler |-> NoHandler]
      BY DEF Item
    <2>3. workerQueue' = workerQueue \/ workerQueue' = Append(workerQueue, relock)
      BY <1>8, <2>2
      DEF Polling, onDoGetDataSuccess, LockNotAcquired, onDoGetDataError, doGetData,
          StationRefusesPoll, queue, enqueue
    <2>4. AskedOf(Append(workerQueue, relock)) = AskedOf(workerQueue)
      <3>1. workerQueue \in Seq(Item) /\ relock.kind = "relock"
        BY <2>2 DEF TypeOK
      <3> QED
        BY <3>1, AskedGrows
    <2>5. AskedOf(workerQueue') = AskedOf(workerQueue)
      BY <2>3, <2>4
    <2> QED
      BY <2>1, <2>5, PendingIs, PendingNext
  <1>9. QueueEmpty \/ StationRestarts \/ UNCHANGED vars
            => UNCHANGED <<eventHandlers, request, workerQueue>>
    BY DEF QueueEmpty, StationRestarts, vars, peripheral, queue
  <1> QED
    BY <1>1, <1>2, <1>3, <1>4, <1>5, <1>6, <1>7, <1>8, <1>9 DEF Next, Queue

\* The peripheral implements the stack of handlers: seen through its queue, with the
\* relocks left out, each of its steps makes a call, settles the oldest one as
\* lockAsync and unlockAsync promise, or changes nothing.
THEOREM ImplementsHandlerStack == Spec => StackOfHandlers
  <1>1. Init => StackInv
    <2>1. Init => \A k \in Token : Carriers(k) = 0
      BY DEF Init, Carriers, PollStage
    <2>2. Init => request = NoRequest /\ request.stage = "none" /\ eventHandlers = <<>>
      BY DEF Init, NoRequest
    <2> QED
      BY <2>1, <2>2, TypeInit
      DEF StackInv, Fresh, OneReader, LastUnlock, HandlersLocked, FirstLock, NoRequest
  <1>2. StackInv /\ [Next]_vars => StackInv'
    BY TypeStep, ReaderStep, LockStep, FirstLockStep DEF StackInv
  <1>3. Init => Handling!Init
    <2> SUFFICES ASSUME Init PROVE Handling!Init
      OBVIOUS
    <2>1. TypeOK /\ request = NoRequest /\ workerQueue = <<>> /\ eventHandlers = <<>>
      BY TypeInit DEF Init
    <2>2. OwnCall(NoRequest.item) = <<>> /\ AskedOf(<<>>) = <<>>
      <3>1. AskedPrefix(<<>>)[0] = <<>>
        BY PrefixUnrolls, EmptySeq
      <3> QED
        BY <3>1 DEF OwnCall, NoRequest, AskedOf
    <2>3. Pending = <<>> \o <<>>
      BY <2>1, <2>2, PendingIs
    <2> QED
      BY <2>1, <2>3 DEF Handling!Init, Pending
  <1>4. StackInv /\ StackInv' /\ [Next]_vars => [Handling!Next]_<<Pending, eventHandlers>>
    BY StackStep DEF StackInv, Handling!Next
  <1>5. StackOfHandlers <=> Handling!Init /\ [][Handling!Next]_<<Pending, eventHandlers>>
    BY DEF StackOfHandlers, Handling!Spec, Pending
  <1> QED
    BY <1>1, <1>2, <1>3, <1>4, <1>5, PTL DEF Spec
=============================================================================
