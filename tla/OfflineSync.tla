------------------------------ MODULE OfflineSync ------------------------------
(***************************************************************************)
(* Synchronisation of the POS's offline database (AsyncServiceViewModel).   *)
(*                                                                         *)
(* Two timer loops, one downloads sessions of master data and applies them, *)
(* the other uploads the transactions made offline.  A run of either is a   *)
(* queue of awaited calls that arms the loop's timer again when it ends,    *)
(* so the chain of timers and runs is the loop.  The runs share static      *)
(* flags and the timers' handles in Session, which log on, a manual sync,   *)
(* the reset of the device and device errors read and write too.            *)
(*                                                                         *)
(* Retail Server and the client broker that owns the offline database are   *)
(* the environment.  Intervals, dates, messages and the count of pending    *)
(* sessions the view shows are left out.                                    *)
(***************************************************************************)
EXTENDS Naturals, FiniteSets

CONSTANTS
    Slots,        \* bound: runs of one loop that may be in flight at once
    Sessions,     \* download sessions the server prepares
    Txns,         \* transactions made offline
    MaxTroubles   \* bound: resets of the device, changes of its offline configuration,
                  \* restarts, lost answers and failures of the broker

ASSUME ConstantsAssumption ==
    MaxTroubles \in Nat

Kind == {"download", "upload"}
MaxCount == MaxTroubles + 2   \* bound: how far the deliveries of a transaction are counted
Other(k) == IF k = "download" THEN "upload" ELSE "download"
Id == Kind \X Slots

VARIABLES
    register,       \* ApplicationStorage's REGISTER_ID_KEY
    handle,         \* the session's handle of each loop's timer
    orphans,        \* timers pending whose handle the session has dropped
    syncing,        \* AsyncServiceViewModel.syncing{Download,Upload}Data
    offlineSyncing, \* Session.offlineSyncing
    disabled,       \* Session.offlineParameters.offlineModeDisabled
    run,            \* the runs in flight
    offlineStore,   \* whether the server names a data store for the terminal
    reachable,      \* whether Retail Server answers
    prepared,       \* the sessions the server does not know to be applied
    applied,        \* sessions applied to the offline database
    txn,            \* each transaction in the offline database
    received,       \* how often the server was given each transaction
    resets, changes, faults, overlapped

timers == <<handle, orphans>>
flags  == <<syncing, offlineSyncing, disabled>>
data   == <<prepared, applied, txn, received>>
env    == <<register, offlineStore, reachable>>
bounds == <<resets, changes, faults, overlapped>>
vars   == <<env, timers, flags, run, data, bounds>>

\* The call a run awaits; "sessions" and "load" stand for the calls before them too,
\* which read the interval and an upload's job definitions.
StagesOf(k) == {"none", "name"} \cup
    IF k = "download" THEN {"sessions", "link", "file", "apply", "report"}
                      ELSE {"load", "send", "purge", "unmark"}

\* terminal: whether the run was started with a register id; todo, session,
\* status: the sessions left, the current one and its StatusValue; loaded: the transactions.
Run == [stage : UNION {StagesOf(k) : k \in Kind}, terminal : BOOLEAN, todo : SUBSET Sessions,
        session : SUBSET Sessions,
        status : {"Requested", "Failed", "Applied"},
        loaded : SUBSET Txns]

NoRun == [stage |-> "none", terminal |-> FALSE, todo |-> {}, session |-> {},
          status |-> "Requested", loaded |-> {}]

TypeOK ==
    /\ register \in {"null", "blank", "known"}
    /\ handle \in [Kind -> {"zero", "spent", "armed"}]
    /\ orphans \in [Kind -> Nat]
    /\ syncing \in [Kind -> BOOLEAN]
    /\ {offlineSyncing, disabled, offlineStore, reachable, overlapped} \subseteq BOOLEAN
    /\ run \in [Id -> Run] /\ \A x \in Id : run[x].stage \in StagesOf(x[1])
    /\ prepared \subseteq Sessions
    /\ applied \subseteq Sessions
    /\ txn \in [Txns -> {"unmade", "new", "marked", "purged"}]
    /\ received \in [Txns -> Nat]
    /\ {resets, changes, faults} \subseteq 0 .. MaxTroubles

Init ==
    /\ register = "known"
    /\ handle = [k \in Kind |-> "zero"]
    /\ orphans = [k \in Kind |-> 0]
    /\ syncing = [k \in Kind |-> FALSE]
    /\ offlineSyncing = FALSE
    /\ disabled = FALSE
    /\ run = [x \in Id |-> NoRun]
    /\ offlineStore \in BOOLEAN
    /\ reachable = TRUE
    /\ prepared = Sessions
    /\ applied = {}
    /\ txn = [t \in Txns |-> "unmade"]
    /\ received = [t \in Txns |-> 0]
    /\ resets = 0 /\ changes = 0 /\ faults = 0 /\ overlapped = FALSE

FreeSlot(k) == CHOOSE i \in Slots : run[<<k, i>>].stage = "none"

InFlight(k) == {x \in Id : x[1] = k /\ run[x].stage # "none"}

MoreTrouble == resets + changes + faults < MaxTroubles
Fault   == MoreTrouble /\ faults' = faults + 1
NoFault == UNCHANGED faults

-----------------------------------------------------------------------------
(* Starting a loop and a run. *)

\* clearTimeout of the session's handle h, which keeps its number.
Cleared(h) == IF h = "armed" THEN "spent" ELSE h

\* "No existing offline sync" as initializeOfflineDataSync sees it.
NoExistingSync == ~offlineSyncing /\ \A k \in Kind : handle[k] = "zero"

\* The log on view is shown: initializeOfflineDataSync and execute.
InitializeSync ==
    /\ register = "known" /\ NoExistingSync
    /\ handle' = [k \in Kind |-> "armed"]
    /\ UNCHANGED <<env, orphans, flags, run, data, bounds>>

\* executeDownload and executeUpload of the loops K, up to their first call; without
\* a register id they return with the flags set.
Execute(K) ==
    /\ syncing' = [k \in Kind |-> syncing[k] \/ k \in K]
    /\ offlineSyncing' = TRUE
    /\ IF register = "null" THEN UNCHANGED <<run, overlapped>>
       ELSE /\ overlapped' = (overlapped \/ \E k \in K : InFlight(k) # {})
            /\ \A k \in K : \E i \in Slots : run[<<k, i>>].stage = "none"
            /\ run' = [x \in Id |->
                  IF x[1] \in K /\ x[2] = FreeSlot(x[1])
                  THEN [NoRun EXCEPT !.stage = "name", !.terminal = (register = "known")]
                  ELSE run[x]]
    /\ UNCHANGED <<env, disabled, data, resets, changes, faults>>

TimerFires(k) ==
    /\ \/ /\ handle[k] = "armed"
          /\ handle' = [handle EXCEPT ![k] = "spent"]
          /\ UNCHANGED orphans
       \/ /\ orphans[k] > 0
          /\ orphans' = [orphans EXCEPT ![k] = @ - 1]
          /\ UNCHANGED handle
    /\ Execute({k})

\* Mutant: the manual sync runs beside the timers that are pending.
StopTimersKeeps == UNCHANGED timers

\* clearTimeout of both handles, and both set to 0.
StopTimers == handle' = [k \in Kind |-> "zero"] /\ UNCHANGED orphans

\* syncOfflineData.
ManualSync ==
    /\ register = "known" /\ ~offlineSyncing
    /\ StopTimers
    /\ Execute(Kind)

-----------------------------------------------------------------------------
(* The end of a run. *)

\* Mutant: the flag goes although the other loop still runs.
StillSyncingNot(k) == FALSE

\* offlineSyncing after the end of a run of loop k.
StillSyncing(k) == offlineSyncing /\ syncing[Other(k)]

\* Mutant: the end of a run clears the timer and arms none.
NextHandleCleared(h, off) == Cleared(h)

\* Its handle: the pending timer is replaced, or cleared when offline mode is off.
NextHandle(h, off) == IF off THEN Cleared(h) ELSE "armed"

\* What always follows the queue of run x; off is offlineModeDisabled by then.
End(x, off) ==
    /\ run' = [run EXCEPT ![x] = NoRun]
    /\ syncing' = [syncing EXCEPT ![x[1]] = FALSE]
    /\ offlineSyncing' = StillSyncing(x[1])
    /\ disabled' = off
    /\ handle' = [handle EXCEPT ![x[1]] = NextHandle(@, off)]
    /\ UNCHANGED orphans

Continue(x, r) == run' = [run EXCEPT ![x] = r] /\ UNCHANGED <<flags, timers>>
Move(x, stage) == Continue(x, [run[x] EXCEPT !.stage = stage])

At(x, stage) == run[x].stage = stage

-----------------------------------------------------------------------------
(* The calls both loops make. *)

\* offlineModeDisabled once a data store is named: only the download resets it.
Reenabled(k) == IF k = "download" THEN FALSE ELSE disabled

\* Mutant: an upload asks for the sessions too.
NextCallSessions(k) == "sessions"

NextCall(k) == IF k = "download" THEN "sessions" ELSE "load"

NameAnswered(x) ==
    /\ At(x, "name")
    /\ IF run[x].terminal /\ offlineStore
       THEN /\ run' = [run EXCEPT ![x].stage = NextCall(x[1])]
            /\ disabled' = Reenabled(x[1])
            /\ UNCHANGED <<syncing, offlineSyncing, timers>>
       ELSE End(x, TRUE)
    /\ UNCHANGED <<env, data, bounds>>

\* The call is rejected, or there are no job definitions: the queue is rejected.
Rejected(x) ==
    /\ run[x].stage \in {"name", "sessions", "load"}
    /\ ~reachable
    /\ End(x, disabled)
    /\ UNCHANGED <<env, data, bounds>>

-----------------------------------------------------------------------------
(* A download. *)

\* The queue of one session ends, whatever came of it; r is its run.
NextSession(x, r) ==
    IF r.todo = {} THEN End(x, disabled)
    ELSE \E s \in r.todo :
           Continue(x, [r EXCEPT !.stage = "link", !.session = {s}, !.todo = @ \ {s},
                                 !.status = "Requested"])

SessionsAnswered(x) ==
    /\ At(x, "sessions") /\ reachable
    /\ NextSession(x, [run[x] EXCEPT !.todo = prepared])
    /\ UNCHANGED <<env, data, bounds>>

\* An empty link ends the session, as the server knows of it; so does no answer.
LinkAnswered(x) ==
    /\ At(x, "link")
    /\ \/ reachable /\ Move(x, "file") /\ NoFault
       \/ reachable /\ NextSession(x, run[x]) /\ Fault
       \/ ~reachable /\ NextSession(x, run[x]) /\ NoFault
    /\ UNCHANGED <<env, data, resets, changes, overlapped>>

FileDownloaded(x) ==
    /\ At(x, "file")
    /\ \/ /\ Continue(x, [run[x] EXCEPT !.stage = "apply"])
          /\ NoFault
       \/ /\ Continue(x, [run[x] EXCEPT !.stage = "report", !.status = "Failed"])
          /\ Fault
    /\ UNCHANGED <<env, data, resets, changes, overlapped>>

\* StatusValue after the client broker has applied the file, or has not.
ApplyStatus(ok) == IF ok THEN "Applied" ELSE "Failed"

FileApplied(x) ==
    /\ At(x, "apply")
    /\ \E ok \in BOOLEAN :
        /\ Continue(x, [run[x] EXCEPT !.stage = "report", !.status = ApplyStatus(ok)])
        /\ IF ok THEN applied' = applied \cup run[x].session /\ NoFault
                 ELSE Fault /\ UNCHANGED applied
    /\ UNCHANGED <<env, prepared, txn, received, resets, changes, overlapped>>

StatusReported(x) ==
    /\ At(x, "report")
    /\ prepared' = IF ~reachable THEN prepared
                   ELSE IF run[x].status = "Applied" THEN prepared \ run[x].session
                   ELSE prepared \cup run[x].session
    /\ NextSession(x, run[x])
    /\ UNCHANGED <<env, applied, txn, received, bounds>>

-----------------------------------------------------------------------------
(* An upload. *)

\* The broker: what it loads it marks, a purge deletes what is marked, and
\* updateUploadFailedStatus takes the marks away.
Waiting == {t \in Txns : txn[t] \in {"new", "marked"}}
Remark(from, to) == txn' = [t \in Txns |-> IF txn[t] \in from THEN to ELSE txn[t]]

TransactionsLoaded(x) ==
    /\ At(x, "load")
    /\ \/ /\ Waiting # {}
          /\ Remark({"new"}, "marked")
          /\ Continue(x, [run[x] EXCEPT !.stage = "send", !.loaded = Waiting])
          /\ NoFault
       \/ Waiting = {} /\ End(x, disabled) /\ UNCHANGED txn /\ NoFault
       \/ Fault /\ End(x, disabled) /\ UNCHANGED txn
    /\ UNCHANGED <<env, prepared, applied, received, resets, changes, overlapped>>

\* Mutant: a failed upload is taken for one that has succeeded.
AfterSendAlways(ok) == "purge"

\* Mutant: the purge is left to the next upload.
AfterSendNever(ok) == "unmark"

\* The queue goes on whether syncOfflineTransaction succeeded or not.
AfterSend(ok) == IF ok THEN "purge" ELSE "unmark"

TransactionsSent(x) ==
    /\ At(x, "send")
    /\ \E delivered, ok \in BOOLEAN :
        /\ ok => delivered
        /\ delivered => reachable
        /\ ~delivered => ~reachable
        /\ IF delivered /\ ~ok THEN Fault ELSE NoFault
        /\ received' = IF delivered
                       THEN [t \in Txns |-> IF t \in run[x].loaded /\ received[t] < MaxCount
                                           THEN received[t] + 1 ELSE received[t]]
                       ELSE received
        /\ Move(x, AfterSend(ok))
    /\ UNCHANGED <<env, prepared, applied, txn, resets, changes, overlapped>>

TransactionsPurged(x) ==
    /\ \/ At(x, "purge") /\ Remark({"marked"}, "purged") /\ NoFault
       \/ At(x, "unmark") /\ Remark({"marked"}, "new") /\ NoFault
       \/ run[x].stage \in {"purge", "unmark"} /\ Fault /\ UNCHANGED txn
    /\ End(x, disabled)
    /\ UNCHANGED <<env, prepared, applied, received, resets, changes, overlapped>>

Step(x) ==
    \/ NameAnswered(x) \/ Rejected(x)
    \/ SessionsAnswered(x) \/ LinkAnswered(x)
    \/ FileDownloaded(x) \/ FileApplied(x) \/ StatusReported(x)
    \/ TransactionsLoaded(x) \/ TransactionsSent(x) \/ TransactionsPurged(x)

-----------------------------------------------------------------------------
(* What happens around the loops. *)

\* A device error: the storage is cleared, and stopOffline clears the timers.
StopOffline ==
    /\ MoreTrouble /\ resets' = resets + 1
    /\ register' = "null"
    /\ StopTimers
    /\ UNCHANGED <<offlineStore, reachable, flags, run, data, changes, faults, overlapped>>

\* Deactivation and reset: resetSession replaces the handles before stopOffline
\* can clear them.
ResetDevice ==
    /\ MoreTrouble /\ resets' = resets + 1
    /\ register' = "null"
    /\ handle' = [k \in Kind |-> "zero"]
    /\ orphans' = [k \in Kind |-> IF handle[k] = "armed" THEN orphans[k] + 1 ELSE orphans[k]]
    /\ offlineSyncing' = FALSE /\ disabled' = FALSE
    /\ UNCHANGED <<offlineStore, reachable, syncing, run, data, changes, faults, overlapped>>

\* The activation view stores an empty register id, the activation the user's.
EnterRegister ==
    /\ \/ register = "null" /\ register' = "blank"
       \/ register = "blank" /\ register' = "known"
    /\ UNCHANGED <<offlineStore, reachable, timers, flags, run, data, bounds>>

Restart ==
    /\ Fault
    /\ handle' = [k \in Kind |-> "zero"]
    /\ orphans' = [k \in Kind |-> 0]
    /\ syncing' = [k \in Kind |-> FALSE]
    /\ offlineSyncing' = FALSE /\ disabled' = FALSE
    /\ run' = [x \in Id |-> NoRun]
    /\ UNCHANGED <<env, data, resets, changes, overlapped>>

SellOffline(t) ==
    /\ txn[t] = "unmade"
    /\ txn' = [txn EXCEPT ![t] = "new"]
    /\ UNCHANGED <<env, timers, flags, run, prepared, applied, received, bounds>>

Connection ==
    /\ reachable' = ~reachable
    /\ UNCHANGED <<register, offlineStore, timers, flags, run, data, bounds>>

Reconfigure ==
    /\ MoreTrouble /\ changes' = changes + 1
    /\ offlineStore' = ~offlineStore
    /\ UNCHANGED <<register, reachable, timers, flags, run, data, resets, faults, overlapped>>

Environment ==
    \/ StopOffline \/ ResetDevice \/ EnterRegister \/ Restart
    \/ Connection \/ Reconfigure
    \/ \E t \in Txns : SellOffline(t)

Next ==
    \/ InitializeSync \/ ManualSync
    \/ \E k \in Kind : TimerFires(k)
    \/ \E x \in Id : Step(x)
    \/ Environment

Spec == Init /\ [][Next]_vars

\* Timers fire, calls are answered or rejected, and a POS that is restarted or
\* activated gets to its log on view.
Fairness ==
    /\ WF_vars(InitializeSync)
    /\ \A k \in Kind : WF_vars(TimerFires(k))
    /\ \A x \in Id : WF_vars(Step(x))

FairSpec == Spec /\ Fairness

-----------------------------------------------------------------------------
(* Properties. *)

\* How many times loop k is alive: runs in flight and timers pending.
Chains(k) == Cardinality(InFlight(k)) + orphans[k] + IF handle[k] = "armed" THEN 1 ELSE 0

\* Log on, manual syncs and runs that end never give a loop a second chain of
\* timers; only a reset of the device can, one each.
OneChain == \A k \in Kind : Chains(k) <= 1 + resets

\* Session.offlineSyncing, which keeps a second sync from starting, is true exactly
\* while a run is in flight, unless the device has been reset.
SyncingShown == resets = 0 => (offlineSyncing <=> \E k \in Kind : InFlight(k) # {})

\* A transaction leaves the offline database only when the server has it, whatever
\* fails or crashes between load, send and purge.
NeverLost == ~overlapped => \A t \in Txns : txn[t] = "purged" => received[t] > 0

\* The server is given a transaction once, and once more for each fault.
SentOnce == ~overlapped => \A t \in Txns : received[t] <= 1 + faults

\* What the server believes applied is in the offline database.
ReportedApplied == prepared \cup applied = Sessions

Untroubled == resets = 0 /\ changes = 0 /\ offlineStore

\* Once the server stays reachable the loops do their work, through restarts and
\* failures: transactions reach the server, sessions the offline database.
Synchronised ==
    <>[](reachable /\ Untroubled) =>
        /\ \A t \in Txns : txn[t] = "new" ~> received[t] > 0
        /\ \A s \in Sessions : <>(s \in applied)

\* "Enable offline data sync if offline connection string exists in mPOS config file
\* and no existing offline sync": an activated device with a data store synchronises
\* again and again.
SyncResumes ==
    <>[](register = "known" /\ offlineStore) => []<>(\E k \in Kind : InFlight(k) # {})
=============================================================================
