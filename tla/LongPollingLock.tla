----------------------------- MODULE LongPollingLock -----------------------------
(***************************************************************************)
(* A scanner or card reader that the point of sale locks at the hardware    *)
(* station and then polls for data.  Calls of the views and relocks go      *)
(* through an AsyncWorkerQueue, one at a time; the polls run beside it and  *)
(* are recognised by the token of the lock they belong to.                  *)
(*                                                                         *)
(* The callbacks of one answer run in one task of the event loop and are one *)
(* step here.  A call that needs no request settles in the step that starts  *)
(* it: until then nothing but the queue itself changes what it looks at.    *)
(***************************************************************************)
EXTENDS Naturals, Sequences

CONSTANTS
    Handlers, NoHandler,
    MaxCalls,     \* bound: calls of the views
    MaxTokens,    \* bound: locks the station grants
    MaxRestarts,  \* bound: restarts of the station, which forget its lock
    MaxFailures   \* bound: lock requests that fail though the device is free

ASSUME ConstantsAssumption ==
    /\ NoHandler \notin Handlers
    /\ MaxCalls \in Nat /\ MaxTokens \in Nat
    /\ MaxRestarts \in Nat /\ MaxFailures \in Nat

NoToken == 0
Token   == 1 .. MaxTokens
AnyToken == Token \cup {NoToken}

VARIABLES
    lockToken, eventHandlers,   \* of the peripheral
    workerQueue, processing,    \* of its AsyncWorkerQueue
    request,  \* the lock or unlock request of the queue's current item
    polls,    \* for each token, the data requests and timers that carry it
    holder,   \* the token the station holds the device locked for
    issued, calls, restarts, failures

peripheral == <<lockToken, eventHandlers>>
queue      == <<workerQueue, processing>>
bounds     == <<issued, calls, restarts, failures>>
vars       == <<peripheral, queue, request, polls, holder, bounds>>

Item == [kind : {"lock"}, handler : Handlers]
            \cup [kind : {"unlock", "relock"}, handler : {NoHandler}]

\* sent: on its way to the station; refused, waiting: of a data request, the error
\* "lock not acquired" on its way back, and the timer before the next attempt.
Request   == [item : Item, stage : {"sent", "granted", "settled"}, token : AnyToken]
NoRequest == [item |-> [kind |-> "relock", handler |-> NoHandler], stage |-> "none",
              token |-> NoToken]
PollStage == {"sent", "refused", "waiting"}

TypeOK ==
    /\ lockToken \in AnyToken
    /\ eventHandlers \in Seq(Handlers)
    /\ workerQueue \in Seq(Item)
    /\ processing \in BOOLEAN
    /\ request \in Request \cup {NoRequest}
    /\ polls \in [Token -> [PollStage -> Nat]]
    /\ holder \in AnyToken
    /\ issued \in 0 .. MaxTokens
    /\ calls \in 0 .. MaxCalls
    /\ restarts \in 0 .. MaxRestarts
    /\ failures \in 0 .. MaxFailures

Init ==
    /\ lockToken = NoToken
    /\ eventHandlers = <<>>
    /\ workerQueue = <<>>
    /\ processing = FALSE
    /\ request = NoRequest
    /\ polls = [k \in Token |-> [s \in PollStage |-> 0]]
    /\ holder = NoToken
    /\ issued = 0
    /\ calls = 0
    /\ restarts = 0
    /\ failures = 0

isEnabled         == lockToken # NoToken
shouldStopGetData(k) == k # lockToken \/ ~isEnabled

-----------------------------------------------------------------------------
(* The worker queue. *)

enqueue(item) ==
    /\ workerQueue' = Append(workerQueue, item)
    /\ processing' = TRUE

Call(item) ==
    /\ calls < MaxCalls
    /\ calls' = calls + 1
    /\ enqueue(item)
    /\ UNCHANGED <<peripheral, request, polls, holder, issued, restarts, failures>>

lockAsync(h) == Call([kind |-> "lock", handler |-> h])
unlockAsync  == Call([kind |-> "unlock", handler |-> NoHandler])

\* The queue hands its next item over.
Starts(kind) ==
    /\ processing /\ request = NoRequest
    /\ workerQueue # <<>> /\ Head(workerQueue).kind = kind
    /\ workerQueue' = Tail(workerQueue)
    /\ UNCHANGED <<processing, polls, holder, bounds>>

Sends == request' = [item |-> Head(workerQueue), stage |-> "sent", token |-> lockToken]

QueueEmpty ==
    /\ processing /\ request = NoRequest
    /\ workerQueue = <<>>
    /\ processing' = FALSE
    /\ UNCHANGED <<peripheral, workerQueue, request, polls, holder, bounds>>

-----------------------------------------------------------------------------
(* Items of the queue, up to their request. *)

MovePoll(k, from, to) ==
    polls' = [polls EXCEPT ![k][from] = @ - 1, ![k][to] = @ + 1]

EndPoll(k, from) == polls' = [polls EXCEPT ![k][from] = @ - 1]

BeginPoll(k) == polls' = [polls EXCEPT ![k].sent = @ + 1]

\* A locked peripheral only gains a handler.
lockInternalAsync ==
    /\ Starts("lock")
    /\ IF isEnabled
       THEN /\ eventHandlers' = Append(eventHandlers, Head(workerQueue).handler)
            /\ UNCHANGED <<lockToken, request>>
       ELSE Sends /\ UNCHANGED peripheral

\* Mutant: the oldest handler is removed.
UnlockShifts ==
    /\ Starts("unlock")
    /\ IF ~isEnabled
       THEN UNCHANGED <<peripheral, request>>
       ELSE IF Len(eventHandlers) > 1
       THEN /\ eventHandlers' = Tail(eventHandlers)
            /\ UNCHANGED <<lockToken, request>>
       ELSE Sends /\ UNCHANGED peripheral

\* Only the last handler's unlock reaches the station.
unlockInternalAsync ==
    /\ Starts("unlock")
    /\ IF ~isEnabled
       THEN UNCHANGED <<peripheral, request>>
       ELSE IF Len(eventHandlers) > 1
       THEN /\ eventHandlers' = SubSeq(eventHandlers, 1, Len(eventHandlers) - 1)
            /\ UNCHANGED <<lockToken, request>>
       ELSE Sends /\ UNCHANGED peripheral

Relock == Starts("relock") /\ Sends /\ UNCHANGED peripheral

-----------------------------------------------------------------------------
(* The station's answers to the queue's requests. *)

LockGranted ==
    /\ request.stage = "granted"
    /\ lockToken' = request.token
    /\ BeginPoll(request.token)
    /\ eventHandlers' = IF request.item.kind = "lock"
                        THEN Append(eventHandlers, request.item.handler) ELSE eventHandlers
    /\ request' = NoRequest
    /\ UNCHANGED <<queue, holder, bounds>>

LockRefused ==
    /\ request.stage = "settled" /\ request.item.kind # "unlock"
    /\ request' = NoRequest
    /\ UNCHANGED <<peripheral, queue, polls, holder, bounds>>

\* Whether or not the station unlocked the device.
UnlockAnswered ==
    /\ request.stage = "settled" /\ request.item.kind = "unlock"
    /\ lockToken' = NoToken
    /\ eventHandlers' = IF eventHandlers = <<>> THEN <<>>
                        ELSE SubSeq(eventHandlers, 1, Len(eventHandlers) - 1)
    /\ request' = NoRequest
    /\ UNCHANGED <<queue, polls, holder, bounds>>

-----------------------------------------------------------------------------
(* The chain of data requests. *)

\* Data, or nothing within the polling timeout: the next request follows.
onDoGetDataSuccess(k) ==
    /\ polls[k].sent > 0
    /\ IF shouldStopGetData(k) THEN EndPoll(k, "sent") ELSE UNCHANGED polls
    /\ UNCHANGED <<peripheral, queue, request, holder, bounds>>

\* Mutant: a lost lock is an error like any other.
LockLossIgnored(k) ==
    /\ polls[k].refused > 0
    /\ IF shouldStopGetData(k) THEN EndPoll(k, "refused") ELSE MovePoll(k, "refused", "waiting")
    /\ UNCHANGED <<peripheral, queue, request, holder, bounds>>

\* Mutant: polling ends with the lock.
LockLossEnds(k) ==
    /\ polls[k].refused > 0
    /\ EndPoll(k, "refused")
    /\ UNCHANGED <<peripheral, queue, request, holder, bounds>>

\* Mutant: the relock is a locking call without a handler.
LockLossCallsLock(k) ==
    /\ polls[k].refused > 0
    /\ EndPoll(k, "refused")
    /\ IF shouldStopGetData(k)
       THEN UNCHANGED queue
       ELSE enqueue([kind |-> "lock", handler |-> NoHandler])
    /\ UNCHANGED <<peripheral, request, holder, bounds>>

\* The lock was lost: lock again, and let the new lock start a chain.
LockNotAcquired(k) ==
    /\ polls[k].refused > 0
    /\ EndPoll(k, "refused")
    /\ IF shouldStopGetData(k)
       THEN UNCHANGED queue
       ELSE enqueue([kind |-> "relock", handler |-> NoHandler])
    /\ UNCHANGED <<peripheral, request, holder, bounds>>

\* Any other error: try again after a while.
onDoGetDataError(k) ==
    /\ polls[k].sent > 0
    /\ IF shouldStopGetData(k) THEN EndPoll(k, "sent") ELSE MovePoll(k, "sent", "waiting")
    /\ UNCHANGED <<peripheral, queue, request, holder, bounds>>

\* Mutant: the timer of the next attempt is an interval.
doGetDataRepeatedly(k) ==
    /\ polls[k].waiting > 0
    /\ IF shouldStopGetData(k) THEN EndPoll(k, "waiting") ELSE BeginPoll(k)
    /\ UNCHANGED <<peripheral, queue, request, holder, bounds>>

doGetData(k) ==
    /\ polls[k].waiting > 0
    /\ IF shouldStopGetData(k) THEN EndPoll(k, "waiting") ELSE MovePoll(k, "waiting", "sent")
    /\ UNCHANGED <<peripheral, queue, request, holder, bounds>>

-----------------------------------------------------------------------------
(* The hardware station. *)

LockRequested == request.stage = "sent" /\ request.item.kind # "unlock"

Grants == holder = NoToken /\ issued < MaxTokens /\ issued' = issued + 1 /\ holder' = issued + 1

StationGrants ==
    /\ LockRequested
    /\ Grants
    /\ request' = [request EXCEPT !.stage = "granted", !.token = issued + 1]
    /\ UNCHANGED <<peripheral, queue, polls, calls, restarts, failures>>

StationRefusesLock ==
    /\ LockRequested
    /\ holder # NoToken
    /\ request' = [request EXCEPT !.stage = "settled"]
    /\ UNCHANGED <<peripheral, queue, polls, holder, bounds>>

\* The device is out of order, or the answer that grants the lock is lost.
StationFailsLock ==
    /\ LockRequested
    /\ failures < MaxFailures
    /\ failures' = failures + 1
    /\ UNCHANGED <<holder, issued>> \/ Grants
    /\ request' = [request EXCEPT !.stage = "settled"]
    /\ UNCHANGED <<peripheral, queue, polls, calls, restarts>>

StationUnlocks ==
    /\ request.stage = "sent" /\ request.item.kind = "unlock"
    /\ holder' = IF holder = request.token THEN NoToken ELSE holder
    /\ request' = [request EXCEPT !.stage = "settled"]
    /\ UNCHANGED <<peripheral, queue, polls, bounds>>

StationRefusesPoll(k) ==
    /\ polls[k].sent > 0 /\ k # holder
    /\ MovePoll(k, "sent", "refused")
    /\ UNCHANGED <<peripheral, queue, request, holder, bounds>>

StationRestarts ==
    /\ restarts < MaxRestarts /\ holder # NoToken
    /\ restarts' = restarts + 1
    /\ holder' = NoToken
    /\ UNCHANGED <<peripheral, queue, request, polls, issued, calls, failures>>

-----------------------------------------------------------------------------

Views == unlockAsync \/ \E h \in Handlers : lockAsync(h)

Queue ==
    \/ QueueEmpty
    \/ lockInternalAsync \/ unlockInternalAsync \/ Relock
    \/ LockGranted \/ LockRefused \/ UnlockAnswered

Station == StationGrants \/ StationRefusesLock \/ StationUnlocks

Polling(k) ==
    \/ onDoGetDataSuccess(k) \/ LockNotAcquired(k) \/ onDoGetDataError(k) \/ doGetData(k)
    \/ StationRefusesPoll(k)

Next ==
    \/ Views
    \/ Queue
    \/ Station
    \/ \E k \in Token : Polling(k)
    \/ StationFailsLock \/ StationRestarts

\* The event loop runs its tasks and timers, and the station answers; a station that
\* lost the lock does not fail every poll for another reason.
Fairness ==
    /\ WF_vars(Queue)
    /\ WF_vars(Station)
    /\ \A k \in Token : /\ WF_vars(LockNotAcquired(k))
                        /\ WF_vars(doGetData(k))
                        /\ SF_vars(StationRefusesPoll(k))

Spec     == Init /\ [][Next]_vars
FairSpec == Spec /\ Fairness

-----------------------------------------------------------------------------
(* Properties. *)

\* A handler waits for data only while the peripheral believes it holds the lock.
HandlersLocked == eventHandlers # <<>> => isEnabled

Carriers(k) == polls[k].sent + polls[k].refused + polls[k].waiting

\* At most one chain of data requests carries a token, whatever errors, timers and
\* relocks there were: data is not taken twice.
OneReader == \A k \in Token : Carriers(k) <= 1

RelockQueued  == \E i \in 1 .. Len(workerQueue) : workerQueue[i].kind = "relock"
RelockPending == RelockQueued \/ (request.stage # "none" /\ request.item.kind = "relock")

\* Until a lock request fails, a peripheral that believes it is locked is read, or
\* about to be locked again.
ReaderAlive ==
    failures = 0 /\ isEnabled => Carriers(lockToken) > 0 \/ RelockPending

\* After the station lost the lock the peripheral acquires it again, if no lock
\* request fails: a failed relock is not repeated.
RegainsLock ==
    eventHandlers # <<>> /\ holder # lockToken
        ~> holder = lockToken \/ eventHandlers = <<>> \/ failures > 0

\* The calls of the views among the items of a queue, of its first n and of all: a
\* relock is nobody's call.  (SelectSeq, as a function the provers can unfold.)
AskedPrefix(items) ==
    LET prefix[n \in 0 .. Len(items)] ==
            IF n = 0 THEN <<>>
            ELSE IF items[n].kind = "relock" THEN prefix[n - 1]
            ELSE Append(prefix[n - 1], items[n])
    IN prefix

AskedOf(items) == AskedPrefix(items)[Len(items)]

\* The calls take effect in order, on a stack, and only the first lock may fail.
\* (NoRequest carries a relock.)
Handling ==
    INSTANCE HandlerStack WITH
        calls <- AskedOf(<<request.item>> \o workerQueue),
        stack <- eventHandlers

StackOfHandlers == Handling!Spec
=============================================================================
