# Retail SDK: models and proofs

A TLA+ project beside the Retail Modern POS SDK (`src/`). It models the parts of
the system where several actors share state: the POS client and its offline
store, the loops that synchronise that store, the .NET proxy of the same idea, the
shifts, carts and payments of a store, the numbers a device gives, the operations of
the POS and a manager's override, and the devices of a hardware station. TLC checks small
instances of each module; TLAPS proves every safety property and action property of the passing runs,
and the refinement, for every value of the constants.

Paths below are relative to the repository. `CR:171` style references use these
abbreviations:

| short | file |
|---|---|
| CR | `src/POS/Core/Managers/Requests/ChainedRequest.ts` |
| CF | `src/POS/Core/Managers/Requests/ChainedRequestFactory.ts` |
| CS | `src/Proxies/RetailProxy/Contexts/ChainedContextStateMachine.cs` |
| CC | `src/Proxies/RetailProxy/Contexts/ChainedContext.cs` |
| LP | `src/POS/Core/Peripherals/HardwareStation/LongPollingLockPeripheralBase.ts` |
| IA | `src/POS/Core/IAsyncResult.ts` |
| AV | `src/POS/ViewModels/AsyncServiceViewModel.ts` |
| OM | `src/POS/Core/OperationsManager.ts` |
| NS | `src/POS/Core/NumberSequence.ts` |
| CW | `src/CommerceRuntime/Workflow/Orders/CartWorkflowHelper.cs` |
| OW | `src/CommerceRuntime/Workflow/Orders/OrderWorkflowHelper.cs` |
| SQL | `src/Database/CommerceRuntimeScripts_Create.sql` |

## 1. Inventory

### 1.1 Components that are modelled

**POS chained requests** (CR, CF, `src/POS/Core/Session.ts`). Every data request of the
POS client is a `ChainedRequest`. `execute` is an `AsyncQueue` of functions: return
to online if the next scan is due, send the request to Retail Server or to the local
Commerce Runtime, and on SERVICE_UNAVAILABLE move the session to the local store and
repeat the request there. State: `Session.connectionStatus`, `isOfflineAvailable`,
`Shift`, `cart` (persisted in the application storage), and the time of the next scan.
Interacts with both stores by calls, with the views by callbacks that write the
session, and with the sync timers, which issue requests of their own. Hard: every
await is a point where another request may switch the connection; answers are lost
after the server has acted; the application restarts in the middle of a switch.
Correct if the shift and the cart of the session are always known to the store
the POS is connected to, nothing is sold twice, and a POS that fell back returns.

**RetailProxy chained context** (CS, CC, `ChainedContextState.cs`). The same idea in the
.NET client library, as an explicit state machine (OfflineOnly, OnlineOnly, Dual) whose
transitions are chosen from a table by state, request and cached entities. State: the
current state, the flag that the user forced offline mode, the reconnection time, and
the caller's entity cache. Tasks share one context without a lock. Hard: a
transition is chosen before its await and its target state set after it. Correct if the
shift stays known, forced offline is left only by the user, no unfinished cart is left
in the offline store, and the context comes back.

**Shift lifecycle** (`src/CommerceRuntime/Workflow/Channels`, `.../StoreOperation`, the
shift procedures of SQL). Handlers create, use, resume, suspend, blind close and
close shifts. State: the shift staging table, the users of shifts, the closed shifts, and
row versions. Handlers of several terminals read, check in memory and then call
procedures that run statement by statement; a retry policy repeats a procedure. Hard:
check-then-act over several tables, stale versions, retries after partial execution.
Correct if shifts, drawers and terminals are used as the handlers' checks promise.

**Long-polling peripherals and AsyncWorkerQueue** (LP, IA). Scanner and card reader of
a hardware station: locked with a token, polled for data, shared by views through a
stack of handlers. State: the token, the handlers, the queue of calls, the polls in
flight. Hard: polls, timers and answers that outlive their lock; a station that restarts
and forgets it. Correct if data is read once and by the top view, a lost lock is regained,
and the device is released when nobody needs it.

**Offline data synchronisation** (AV, `src/POS/Core/Utilities/OfflineHelper.ts`,
`src/POS/ViewModels/DatabaseConnectionStatusViewModel.ts`). Two timer loops: one
downloads sessions of master data and applies them, the other uploads the transactions
made offline. State: static flags, timer handles in the session, the runs in flight; the
client broker owns the database. Log on, manual syncs, device errors and the reset of the
device start and stop the loops. Hard: handles that no longer name their timer, flags that
two loops share, failures and restarts between load, send and purge. Correct if a loop is
one chain of runs, loses nothing, sends nothing needlessly twice and gets its work done.

**OperationsManager and manager override** (OM,
`src/POS/ViewModels/ManagerOverrideViewModel.ts`,
`src/POS/Core/Authentication/Providers/CommerceUserAuthenticationProvider.ts`). Runs the
operations of the POS, which nest, checks the user's permissions and lets a manager sign
in for one operation. State: a count of operations, the count at which the override
began, the employee's token and the manager, the token in use. Hard: an override is ended
by whatever operation comes next, recognised by the count. Correct if an override covers
its operation and no other, and the user's token comes back.

**Client number sequences** (NS, `GetLatestNumberSequenceOperation.ts`,
`crt.GETLATESTNUMBERSEQUENCE` in SQL). The client numbers transactions and receipts from
seeds it keeps; a new activation takes seeds the server derives from what it has. Hard:
numbers given offline, refused or repeated there after a lost answer, carts suspended and
resumed, deactivation. Correct if no two transactions get the same number.

**Cart workflow, tender lines and payments** (`src/CommerceRuntime/Workflow/Orders`,
`src/CommerceRuntime/Services/Payment`, `src/CommerceRuntime/Services/Cart/CartService.cs`,
`crt.SAVESALESTRANSACTIONS` in SQL). Each request loads the cart, which may drop and save
lines whose products have left the channel, works on its copy, calls the card processor, and saves the copy under a row
version; a checkout captures, saves, loads again, makes the order and deletes the cart.
State: the row, the copies, what the processor has done, the order. Hard: requests that
overlap, failures between the processor and the save, a checkout repeated. Correct if no
save undoes another's, no card is charged twice, an order is paid, and nothing the
processor did is forgotten.

### 1.2 Components that are not modelled yet

| component | state and operations | what is hard | properties that make it correct |
|---|---|---|---|
| AsyncQueue, AsyncResult (IA) | callbacks, cancelled and failed queues | cancellation and failure of nested queues | each callback once; nothing runs after a failure |
| Batch requests of the proxy (`BatchHelper.cs`, `ParametersCache.cs`) | requests and tasks per batch | a batch used from several threads | each task is completed once, with its own answer |
| Device activation (`src/POS/Core/Operations/DeviceActivationOperations`) | steps of an AsyncQueue | a step fails in the middle | a failed activation leaves no half-active device |

### 1.3 Components left aside

The pricing engine is calculation on decimals without shared state; its
competition between discounts may become a module of pure operators. The other
services, workflows and data services of the Commerce Runtime read, calculate and write
once. Database schema and upgrade scripts, generated proxies, the transaction service
client, hardware drivers, views, the online store, the payment sample, packaging and
sample extensions are generated code, I/O or samples. `PROJECT.json` lists each with its
reason, and lists the hazards, modelled or not, at their lines.

## 2. Modules

| module | role |
|---|---|
| `ChainedRequest` | failover of the POS client |
| `MCChainedRequest` | its callers and what each may ask for |
| `ChainedRequest_proofs` | types, where a shift can be lost, and for one caller that the shift is known, the connected store is the right one, and carts keep their lines and are sold once |
| `ChainedContext`, `MCChainedContext`, `ChainedContext_proofs` | the .NET state machine |
| `ShiftLifecycle`, `MCShiftLifecycle`, `ShiftLifecycle_proofs` | shifts of several terminals |
| `LongPollingLock`, `MCLongPollingLock`, `LongPollingLock_proofs` | one locked device with its queue, polls and station |
| `HandlerStack` | abstract: what a peripheral promises the views; `LongPollingLock` implements it |
| `OfflineSync`, `MCOfflineSync`, `OfflineSync_proofs` | the download and upload loops |
| `OperationsManager`, `MCOperationsManager`, `OperationsManager_proofs` | operations and the manager's override |
| `NumberSequence`, `MCNumberSequence`, `NumberSequence_proofs` | numbers of a device from activation to activation |
| `CartStore`, `MCCartStore`, `CartStore_proofs` | one cart, its payments and its order |

The MC modules only define constants. Where two components meet, each module holds what
it needs of the other: the sync timers are a second caller of `ChainedRequest`, the change
of connection is an action of `NumberSequence` and an environment of `OfflineSync`, and the
cart that a failover transfers is a value in `ChainedRequest` and a protocol in
`CartStore`.

### 2.1 ChainedRequest

JavaScript runs callbacks to completion, so the unit of interleaving is the code
between two awaited calls. A caller's request is a record whose `stage` names the call in
flight:

| stage | call awaited | settled by |
|---|---|---|
| `dispatch` | the queue's first function has finished | `Dispatch` |
| `online` | Retail Server | `OnlineDone`, `OnlineRefused`, `OnlineUnavailable` |
| `offline`, `fallback` | local store; `fallback` after a failover | `OfflineDone`, `OfflineFailed` |
| `offlineLogon` | the repeat of a logon token offline | `OfflineLogonSettled` |
| `onlineShift` | create the shift online | `OnlineShiftStored`, `OnlineShiftUnavailable`, `OnlineTransferRefused` |
| `deleteShift`, `shiftDeleted` | delete the offline copy; its callback | `OfflineShiftDeleted`, `WentOnline`, `OnlineTransferRefused` |
| `offlineShift`, `offlineCart` | copy shift, then cart, to the local store | `OfflineShiftStored`, `WentOffline`, `OfflineTransferFailed` |

`moved` and `clone` are the closure variables of a transfer; what the code re-reads
from `Session` (the shift it deletes, CF:168) the model reads from `shift`. `repeats` are
the offline repeats of StartSession and EndSession that nobody waits for. `Restart` is
`Session.resetSession` after the application was killed: the persisted fields stay, the
rest is forgotten. Lost answers are `OnlineUnavailable` and `OnlineShiftUnavailable`
with the effect at the store.

Data: a cart is its identifier and the set of its lines, a shift a number. The stores
are external and modelled by what the client asks of them; a transferred cart overwrites
the local copy, as `CartWorkflowHelper.TransferSalesTransaction` does.

Assumed: `Config.onlineDatabase` blank and `Config.offlineDatabase` set (the shipped
configuration). Not modelled: `executeBatch`, which is all online or all offline and never
fails over, and `OfflineHelper.stopOffline`. Left out: a SERVICE_UNAVAILABLE answer to the
deletion of the offline shift would postpone the next scan (CF:82-83); the model leaves the
scan where it is.

### 2.2 ChainedContext

`state`, `forced`, `reconnect` are the fields of the state machine, `device`, `shift`,
`cart` the caller's cached entities. `Execute` is `MoveNextAsync` up to its first await;
`CartRead` and `DeviceRead` are the awaited reads of the cached entities that choose the
transition; each awaited call of a transition is a stage, and `target` is the state the
transition captured, which `Return` sets after the await exactly as `SetState` does.
Action patterns are sets of request kinds (`OnlinePattern`, `BothPattern`, `Seamless`).
Retail Server's RequestTimeout may or may not have been applied (`LostResponses`).

Assumed: both contexts are configured; the reads of cached entities inside a transfer
happen with its call. Not modelled: tokens, locale, batches, and the `StatusChanged`
event, which changes no state.

### 2.3 ShiftLifecycle

`staging`, `users`, `closed` are the three tables, `dbts` the database's row version
counter. A handler's action does its reads and checks and leaves the row it is going to
write, with the version it was read at, in `call`; every statement of the procedure it
calls is an action (`UpsertStaging`, `UpdateStaging`, `UpsertUsers`). `CloseStaging` is
one action because its procedure is the only one with a transaction. `Retry` is the
retry policy of `SqlServerDatabaseContext.ExecuteStoredProcedure`. A refused request
changes nothing, so its action is disabled. `concurrent` is chosen at the start: where it is
false, a request begins only when no other is in progress.

Assumed: one request in flight per terminal; shift numbers are fresh; a view is read
atomically; no enclosing transaction. A shared shift has no drawer name, as the POS
creates it. The checks on amounts and tender declarations are the choice
`AmountsMissing`. Not modelled: the calculation of totals, the user of a manager
override, `DeleteShift`, `GetAvailableShifts`, the SQLite procedures.

### 2.4 LongPollingLock and HandlerStack

`workerQueue` and `processing` are the `AsyncWorkerQueue`; `request` is its current item
while it awaits the station; `polls[k]` counts the data requests in flight (`sent`), the
lock errors on their way back (`refused`) and the timers (`waiting`) that carry token
`k`. Counting them, rather than having one poll, is what lets the model have two chains
of polls. `holder` is the station's lock. `StationRestarts` forgets it;
`StationFailsLock` fails a lock request of a free device, or loses the answer that
granted it.

`HandlerStack` says what the views rely on: calls settle in order on a stack, and only a
call that finds the stack empty may fail. Its `calls` are the queue's lock and unlock
items with the one in progress; relocks do not show. The mapping filters them with a
recursive function (`AskedPrefix`) instead of `SelectSeq`, which the provers cannot unfold.

Assumed: the device is configured; the station never grants a token twice
(`MaxTokens >= MaxCalls + MaxRestarts` keeps the grants from running out); a call that
needs no request settles in the step that starts it.

### 2.5 OfflineSync

A run of a loop is an `AsyncQueue` of awaited calls; `run[<<loop, slot>>]` records the call
in flight and what the closures hold (the session downloaded, the transactions loaded).
`syncing`, `offlineSyncing` and `disabled` are the static and session flags, `handle` is the
session's timer handle: 0, one whose timer has fired (`spent`), or one still pending
(`armed`). `clearTimeout` of a spent handle stops nothing; a timer whose handle was
replaced is counted in `orphans`. `Execute` is `executeDownload` or `executeUpload` with
its early return, `End` its last callback, which arms the timer. `InitializeSync` (log
on), `ManualSync`, `StopOffline` (a device error), `ResetDevice` and `Restart` are the
others that touch flags and handles.

External: the client broker marks the transactions it loads, purges the marked ones and
unmarks them after a failed upload; the server takes a transaction whenever it is sent.
Calls that only read configuration are merged with the call after them.
`overlapped` records that two runs of one loop were in flight together, which takes a reset;
`NeverLost` and `SentOnce` are about the loops without it. Left out: intervals, the count
of pending sessions, dates, messages.

### 2.6 OperationsManager

`running[lane]` is the stack of nested operations a user's action has started; a second
lane is a second action started beside it (the lanes share the singleton's fields).
`count` is `_operationStackCount`, `elevation` the count, operation, manager and employee
token of an override, `token` what the authentication provider holds. An operation's stage
is the awaited step it is in: drawer check, before (revert to self, permissions), override
view, the manager's `logon`, `getEmployeeAsync`, handler, after. `Finish` subtracts from
the count even after the drawer check refused, which added nothing (OM:193), as the code
does.

External: the drawer, the sign-in and the handlers' outcome are choices. `troubles` names
what breaks the bookkeeping (see 3.3), and each property says which of them it excludes.
Left out: registration of handlers and validators, triggers, refresh of a token.

### 2.7 NumberSequence

`seed` holds the next number per sequence, as in the application storage, `cached` the
receipt number remembered for one cart (NS:155). `saved` is what the server and the offline
database have, in the order of CREATEDDATETIME, and `carts` the carts at the server in that
order, so `LatestTransaction` and `LatestReceipt` are the queries of
`GETLATESTNUMBERSEQUENCE`: the last transaction by date, the last cart, and the last
transaction with a receipt.

A request that gets no answer is executed offline with the query it has, hence under the
same number (CR:174-211): `SaveFailsOver` leaves the number in `repeat` and goes offline,
with or without the server having saved it, and `RepeatOffline` is the offline database's
turn. The transaction may then be in both stores, which `repeated` records until the upload
merges the rows. Only a log on or off that succeeded online is repeated under a new number
(CR:333), and nobody waits for it (`SavesTwice`). A cart keeps the number it was created
with: `Conclude` saves a row under it, with a receipt when it is checked out and without
one when it is voided (`SaveVoidTransactionRequestHandler.cs:79`), and deletes the cart.
Suspended carts stay in the store they were suspended in. `Upload` merges a row, which
overwrites one with the same key. `StartSessionFails` fails an activation, with or without
the server having saved the log on.

Assumed: rows are dated when they are inserted; the seeds of headquarters are not ahead of
the channel's; a cart that was concluded is deleted (`TryDeleteCart` does not fail). Bound:
one request at a time waits for the offline database. `NumbersUnique` holds until a
transaction is saved after one with a later number (a cart checked out or voided late, or
an offline repeat overtaken), or a device with transactions pending is activated (3.3).
Left out: the other receipt types, shift and batch numbers, masks, and a lost answer to
the deactivation.

### 2.8 CartStore

`row` is the cart's row of crt.SALESTRANSACTION with its row version, `call[c].cart` the
copy a request works on, `stage` what it does next: call the processor (`payment`), save,
load again, order, delete. `Load` reads and validates; a refused request changes nothing,
so its action is disabled.

A load drops the lines whose products are no longer in the channel
(`CartService.cs:161`), saves the cart without them under the version it read, and then
`HaltNotificationHandler` ends the request with an exception; only a void goes on and loads
the cart again (`GetCartRequestHandler.cs:78-97`). Nothing of the first read is kept, so
the model has one request for it, `getCart`, which drops one line or more, saves and ends:
a handler whose load drops lines is that request, followed, for a void, by its own load.
`ReloadRemoves` is the same for the load after the captures. A resume drops lines and saves
them with its own change (`ResumeCartRequestHandler.cs:45-67`). Which products are
unavailable is a choice at every load. `removed` is the number of lines a request dropped
from its copy, and `SavesKeepLines` says that no other line is ever lost.

`Capture` is one turn of the loop of `CapturePayments`,
`CaptureFails` the exception that leaves through its `finally`, which saves what was
captured (OW:588). `MayWrite` is the guard of `SAVESALESTRANSACTIONS`: a row that is gone
is inserted again, one that is there must have the version read. `Fails` ends a request
between any two of its steps: the process, the database or the retry policy. A procedure
that is repeated after it has committed is refused by its own effect, which is the same
as a failure after it.

`lost` names the cards on which a request acted without getting it saved; `captures`
counts the successful captures at the processor.

Assumed: a sales line costs what a tender line pays, so there is no change, refund or
partial payment, and what a dropped line leaves overpaid is not paid back; `SaveCart` makes
a cart of any number of lines or adds one; a client takes a new id for a new cart. A card
here is a tokenised one: `CardPaymentService.AuthorizePayment` throws for a plain card, so
no other reaches the processor. The processor is external: it captures what was authorised,
again if asked, and does not void what was captured. Left out: pre-processed payments, gift
cards, loyalty, customer orders, the transfer of a cart to the offline store, and a runtime
configured without `HaltNotificationHandler`.

## 3. Runs

Twelve runs, each within five minutes. "one caller" runs are the sequential use of a
component under faults; the others interleave.

| run | instance | what it shows |
|---|---|---|
| `failover_one_caller` | one caller, all kinds, 2 carts, 2 shifts, 1 line, lost answers, restarts | `TypeOK`; `ConnectedStoreHoldsSession`; `SoldOnce`; `ShiftKnown`; `CartNeverRollsBack` |
| `failover_overlap` | a view and the sync timer, lost answers, restarts, 2 shifts | `ShiftLostOnlyByStaleDelete`; `BackOnline` |
| `failover_cart_race` | two callers, no faults | violated: `NoOnlineSwitchWithCart` |
| `context_one_caller` | one task, all kinds, timeouts, 2 carts, 2 shifts | `TypeOK`; `ShiftKnown`; `ForcedStaysOffline`; `OnlineWithoutCart`; `ReturnsOnline` |
| `shift_store` | 2 terminals, 2 employees, 2 drawers, 2 numbers each, 4 requests that may overlap, 1 retry where they do not | `TypeOK`; `UsersWhileOpen`; `DrawerExclusive`; `ClosedForGood`; `StatusMoves` |
| `shift_two_terminals` | as `shift_store`, 1 number each | violated: `OneTerminalAlways` |
| `lock_peripheral` | 2 views, 4 calls, 6 tokens, 2 restarts, 1 failed lock request | `TypeOK`; `OneReader`; `ReaderAlive`; `StackOfHandlers`; `RegainsLock` |
| `sync_loops` | both loops, 2 runs of each at once, 1 session, 1 transaction, 1 trouble | `TypeOK`; `OneChain`; `SyncingShown`; `NeverLost`; `SentOnce`; `Synchronised` |
| `sync_resume` | no data, 1 trouble: a reset of the device | violated: `SyncResumes` |
| `operations_lanes` | 2 employees, 2 lanes, an operation that nests two others | `TypeOK`; `ElevationKept`; `NotInherited`; `RevertedToSelf` |
| `numbers_device` | 4 rows, 5 transaction numbers, 3 receipt numbers | `TypeOK`; `NumbersUnique`; `ReceiptsUnique` |
| `cart_requests` | 2 requests at a time, 2 terminals, 2 cards and cash, 2 lines, 7 row versions (4 where requests overlap), 1 failure | `TypeOK`; `CapturedOnce`; `PaymentsShown`; `OrderPaid`; `SavesKeepLines` |

Why the bounds are enough. Two carts and two shifts are needed so that an identifier
captured by a transfer can differ from the session's; a third adds nothing a second
does not, since at most one is current and one captured per caller. `failover_overlap`
has no cart lines: its properties only ask whether there is a cart. Four shift requests
open, suspend and resume a shift and let another terminal act on it in between; two
numbers per terminal put two shifts on one drawer. Four calls let two views lock and
unlock in each order; a second restart lets a relock's lock be lost again. Two runs of a
loop are what a manual sync beside a timer can make; one trouble is a restart, a lost
answer, a failure of the broker, a reset or a change of configuration at any point of any
run. Two lanes are needed for a second operation beside the first, three levels of
nesting for an override within an override. Five numbers cover an activation, a
suspended cart and a second activation with sales on both sides, and four rows a
transaction in both stores beside two others. Two requests are what it
takes to save a stale copy, and four row versions to make a cart, pay, and save from two
copies of the paid cart. Requests one after the other have seven: enough to pay two lines
with two cards, one of which is captured and the other declined, to drop a line, and to
have the checkout fail half way, be repeated and succeed. The constraint `FewOverlapped`
of `MCCartStore` makes that difference: it stops at four versions the behaviours in which
requests have overlapped, and leaves the others alone. Symmetry over cards, requests and
terminals is sound because no definition names one, and that run has no liveness property,
which is also why the constraint hides nothing from it below its bound. Deadlock checking
is off where the numbers, calls or versions are bounded and the system then rightly stops.

### 3.1 Fairness

- `ChainedRequest`: every awaited call is answered (one WF over all stages of a
  caller: an HTTP request succeeds, fails or times out), the scan interval elapses, and
  the upload timer asks again and again. The timer runs beside the other requests of its
  caller, hence SF: it is not stopped by the caller being busy now and then.
  `BackOnline` assumes in addition that transfers eventually stop failing and that the
  POS is no longer restarted: each failed attempt postpones the next scan.
- `ChainedContext`: every call is answered, the reconnection interval elapses, and the
  client keeps reading. `ReturnsOnline` assumes that online calls eventually stop
  failing.
- `LongPollingLock`: the event loop runs the queue, the poll timers and the callbacks;
  the station answers lock and unlock requests. SF on `StationRefusesPoll`: a station
  that lost the lock does not fail every poll for another reason, for ever.
- `OfflineSync`: WF only. Timers fire, every call is answered or rejected, and a POS that
  was restarted or activated is logged on to. `Synchronised` assumes that the server
  stays reachable and the device's configuration is left alone.
- The others have safety properties only.

### 3.2 What the violations show

- **A cart left offline** (CF:65, `failover_cart_race`). `switchConnection` looks at the
  cart before it awaits the transfer of the shift. A cart created offline meanwhile stays
  there when the status becomes Online.
- **A refused resume enters its user** (SQL:76201, `shift_two_terminals`).
  `UPDATESHIFTSTAGING` writes the users table before it looks at the number of rows the
  guarded update has changed.
- **No synchronisation after a reset** (`DeactivateDeviceOperationHandler.ts:37`,
  `sync_resume`). `resetSession` drops the timer handles that `stopOffline` would clear. The
  timers fire without a register id, and `executeDownload` returns with its flags set; log
  on then takes them for a sync that is running.

### 3.3 Known disagreements that have no run

Found while modelling, and the reason some properties are stated for one actor only or
exclude what is listed here.

Failover:

- With two callers, a failover started by a background request writes the clone of the
  cart taken before its await back to the session (CF:213), which drops a line the view
  added meanwhile; `CartNeverRollsBack` is stated with one request at a time.
- With two tasks, an online execution that began before a failover sets the state it
  captured before its await (CS:635) and takes the context back online.
- The context state is set to offline before the shift and the cart are transferred
  (CS:763); when a transfer fails nothing repeats it.
- `StatusChanged` is raised only in the catch block of `ExecuteAsync` (CC:515), so
  successful switches are not reported.

Shifts:

- Two overlapping requests may both find a drawer free (`CreateShiftRequestHandler.cs:98`);
  `DrawerExclusive` is stated with one request at a time.
- `DELETESHIFTSTAGING` takes a row version and does not compare it (SQL:76417): a close
  decided on an open shift also closes it after it was suspended. `StatusMoves` lets that
  pass only where the shift changed after the close read it.
- When the retries are exhausted after the first statement, the shift and its users stay
  as the procedure left them.

Peripherals:

- A poll refused while the unlock is executing queues a relock behind it (LP:243): the
  device ends up locked for nobody.
- After a failed relock the peripheral believes it is locked, and nothing reads it until
  its last handler unlocks; `ReaderAlive` and `RegainsLock` hold until a lock request
  fails.

Synchronisation:

- A device error stops the timers; the run in flight arms its timer again when it ends.
- `offlineModeDisabled` set by one loop also stops the other.
- After a reset, the timers whose handles were dropped may run beside the new ones: two
  uploads load the same transactions and send them twice.
- A broker whose promise is never settled leaves its loop waiting: no call has a timeout.

Operations:

- An operation that the drawer check refuses is subtracted from the count and was never
  added (OM:193); afterwards a nested operation may end its parent's override.
- Two operations started beside one another share one count, so either may end the
  other's override or inherit it.
- An override within an override saves the first manager's token as the employee's: after it
  the user's operations run under the first manager's token.
- When the manager's log on succeeds and `getEmployeeAsync` fails, the provider keeps the
  manager's token and no override is recorded.
- Log off under an override leaves the override to the next user's first operation.

Numbers:

- The query called "get max transaction id" (SQL:59667) takes the latest by
  CREATEDDATETIME. A cart checked out or voided late, or the offline repeat of a request
  that was overtaken by others, is the latest and need not have the greatest number, and
  the seed becomes a number that is in use.
- A request whose answer was lost is executed again offline under the number the server has
  saved: two rows have that number until the upload merges them. `NumbersUnique` names that
  case (`repeated`).
- A device with transactions pending may be deactivated; the server does not know their
  numbers and the new activation gives them again. A merge overwrites the row of the
  same key.
- When the first transaction of an activation is refused, the user repeats the operation
  with the seed it was refused with.

Carts and payments:

- A payment is authorised, voided or captured before the cart is saved. When the save is
  refused or fails, nothing voids it and no cart shows it: `PaymentsShown` names these
  payments (`lost`) and is about all others.
- A version conflict after the captures is reported as "a validation issue that can be
  retried" (CW:210); the retried checkout finds the payment uncaptured and captures again.
  Two overlapping checkouts do the same. `CapturedOnce` is stated without either.
- The order is made from the cart loaded after the captures (OW:596). A line another
  request saves between them is ordered unpaid, unless `ValidateSalesOrder`
  (`SalesOrderService.cs:765`), whose code is not in the repository, refuses it;
  `OrderPaid` is stated without overlap.
- A load drops lines of unavailable products and saves the cart without them before any
  check of the handler, whatever state the cart is in and whoever reads it; when that load is
  the one after the captures, the checkout ends with the payments captured and the cart
  overpaid.
- A save that arrives after the checkout has deleted the cart inserts it again, and the
  deletion does not look at the version: tender lines added meanwhile go with it.
- `SaveTenderLineRequestHandler` looks at neither the suspension nor the terminal of the
  cart, and `SaveVoidTransactionRequestHandler` not at the terminal. The key of
  transactions contains the terminal (SQL:9086), so one cart may be sold on one and voided
  on the other.

## 4. Proofs

All theorems hold for every value of the constants that satisfies the module's
`ConstantsAssumption`, that is for any number of callers, terminals, handlers and any
bounds.

| theorem | states | argument |
|---|---|---|
| `ChainedRequest_proofs!TypeCorrect` | `[]TypeOK` | `TInv` adds that a request to open a shift or create a cart names one, which `TypeOK` leaves open |
| `ChainedRequest_proofs!ShiftLoss` | `ShiftLostOnlyByStaleDelete` | `SInv`: while an offline copy is being deleted, the shift that was moved is known online or closed (`CopyMade`). A deletion that removes the moved shift therefore loses nothing |
| `ChainedRequest_proofs!ShiftAlwaysKnown` | one caller: `[]ShiftKnown` | with one caller the moved shift is the session's (`MovedIsShift`), so the stale deletion of `ShiftLoss` cannot happen |
| `ChainedRequest_proofs!ConnectedStoreIsRight`, `CartsSoldOnce`, `LinesNeverLost` | one caller: `[]ConnectedStoreHoldsSession`, `[]SoldOnce`, `CartNeverRollsBack` | `HInv`: each stage of a request is with the store the status allows, and a transfer carries the session's own shift and cart (`Placed`); no copy of the session's cart in the connected store lacks a line (`LinesKept`); until a fault, that store holds shift and cart (`SessionHeld`), and the session's cart and one being created are unsold (`Unsold`) |
| `ChainedContext_proofs!TypeCorrect` | `[]TypeOK` | `TInv` adds what the captured fields hold at each stage and for each kind |
| `ChainedContext_proofs!ForcedSticks` | one task: `ForcedStaysOffline` | `Guarded`: a forced offline context has no execution towards online in flight but the user's |
| `ChainedContext_proofs!CartStaysWithContext` | one task: `OnlineWithoutCart` | `OneInv`: a transition towards online was begun without a cached cart, and nothing else caches one meanwhile |
| `ChainedContext_proofs!ShiftNeverLost` | one task: `[]ShiftKnown` | `CarriedInv`: a task that stores the shift online has captured the cached one, and by the time the offline copy is deleted the online store has seen it (`Carried`) |
| `ShiftLifecycle_proofs!TypeCorrect` | `[]TypeOK` | inductive as it stands |
| `ShiftLifecycle_proofs!ClosedStaysClosed` | `[]ClosedForGood` | `VInv`, until a procedure is retried: row versions are unique and never exceed `dbts`, so a row read at a version is the row that still has it |
| `ShiftLifecycle_proofs!StatusFollowsLifeCycle` | `StatusMoves` | a guarded write was computed from the row at that version, so it follows the life cycle; a close, which no version guards, was decided on a closable status and finds that shift unless it changed since it was read |
| `ShiftLifecycle_proofs!SuspendedReleasesDrawer` | `[]DrawerReleased` | as above |
| `ShiftLifecycle_proofs!UsersFollowStatus` | `[]UsersWhileOpen` | `SerialInv`, while requests do not overlap: only the shift of the request in progress may have its two tables disagree, and that request writes what makes them agree, the first time or when retried (`Ready`) |
| `ShiftLifecycle_proofs!OneShiftPerDrawer` | `[]DrawerExclusive` | the same invariant: every two shifts that have a drawer in common are kept apart, suspended or half written ones included (`AllApart`) |
| `LongPollingLock_proofs!TypeCorrect` | `[]TypeOK` | inductive with the poll table's lemmas |
| `LongPollingLock_proofs!ReadOnce` | `[]OneReader` | `Fresh`: a token not granted yet, or not yet arrived, is carried by no poll |
| `LongPollingLock_proofs!HandlersStayLocked` | `[]HandlersLocked` | `LastUnlock`: an unlock at the station is the last handler's |
| `LongPollingLock_proofs!ReaderSurvives` | `[]ReaderAlive` | `RInv`, while no lock request has failed: the chain of the token the station holds was never refused, so a refused relock finds a chain or another relock |
| `LongPollingLock_proofs!ImplementsHandlerStack` | `StackOfHandlers` | `StackInv` with `FirstLock`: a lock is requested only for the first handler, and only a lock is granted. Each step makes a call, settles the oldest or changes neither (`StackStep`); what joining or leaving the queue does to the calls is proved by induction (`AskedGrows`, `AskedFirst`) |
| `OfflineSync_proofs!TypeCorrect` | `[]TypeOK` | `TInv`: a run has only the calls of its own loop |
| `OfflineSync_proofs!NothingReportedUnapplied` | `[]ReportedApplied` | `ReportTrue`: a run about to report Applied has applied its session |
| `OfflineSync_proofs!FlagShowsRuns` | `[]SyncingShown` | `FlagsInv`, until a reset: each loop has one run or one timer, no timer lost its handle, and `syncing` says which |
| `OfflineSync_proofs!NothingLost` | `[]NeverLost` | `UploadInv`, until two runs of a loop overlap: what is marked was loaded by the run that sends, and was received once that run purges |
| `OfflineSync_proofs!NoSecondChain` | `[]OneChain` | `ChainInv`: a loop has more runs than resets only while both its own flag and `offlineSyncing` are set |
| `OfflineSync_proofs!GivenOnce` | `[]SentOnce` | `SentInv`: what a run is about to send is marked, and a marked transaction no run is about to purge was received no more often than there were faults |
| `OperationsManager_proofs!TypeCorrect` | `[]TypeOK` | `TInv`: the stack invariants of every lane |
| `OperationsManager_proofs!OverrideNotInherited`, `TokenRestored`, `OverrideLasts` | `[]NotInherited`, `[]RevertedToSelf`, `[]ElevationKept` | `LanesInv`: without overlap one lane is in use, and its stack, the count and the level of the override fit together (`Lane`) |
| `OperationsManager_proofs!CountFollows` | `[]CountIsDepth` | `CountInv`: the operations past the drawer check are finitely many and counted |
| `CartStore_proofs!TypeCorrect` | `[]TypeOK` | inductive as it stands |
| `CartStore_proofs!StaleSavesRefused` | `SavesKeepLines` | `CopiesInv`: no copy has a version not yet given; a copy with the row's version goes on from what the row shows, the lines it dropped apart (`CopyExtends`), and one that has not yet paid or cancelled shows the row's very payments |
| `CartStore_proofs!NothingForgotten` | `[]PaymentsShown` | `CardsInv` beside `CopiesInv`: a card a request acted on is in its copy as the processor has it, one it did not is in its copy as in the row it may replace, one authorised and not saved is in no other cart, and one the processor does not know is in none |
| `CartStore_proofs!OrdersArePaid` | `[]OrderPaid` | `SaleInv`: without overlap one request is active (`Lone`), a checkout that got past its validation is covered, has captured everything before it reloads, and reloads the cart it saved (`Paid`); a card the row or a copy shows as committed has been captured (`Commits`) |
| `CartStore_proofs!ChargedOnce` | `[]CapturedOnce` | `OnceInv`, without overlap and faults: the copy that may be saved has the row's version (`Current`), a cart that has become an order is deleted before anything else happens (`Closing`, `Closed`), and a card that was captured is committed at the processor (`Charged`) |
| `NumberSequence_proofs!TypeCorrect` | `[]TypeOK` | inductive, with the lemmas on the greatest of a set of positions and on the sequence without a row |
| `NumberSequence_proofs!NumbersStayUnique` | `[]NumbersUnique` | `NInv`, as long as `Regular`: saved rows and carts are in the order of their numbers (`RowsInOrder`, `CartsInOrder`), what may still be saved is in one place and unsaved where it would be refused (`OpenApart`), and the next number is beyond all of these (`Behind`), also when the server has derived it from the last row and the last cart |
| `NumberSequence_proofs!ReceiptsStayUnique` | `[]ReceiptsUnique` | `RInv`: receipts never decrease along the saved rows, even where transaction numbers do (`RowsOrdered`), and the cached one was given last (`LastGiven`), so the last row at the server has the greatest |

One caller (or task) is an assumption of the theorem where it appears; what the others
exclude is part of the property (a retry, a reset, an overlap), so no theorem restricts the
constants further. What is stated for one caller, or without overlap, is not shown where
callers overlap: of the hazards in `PROJECT.json`, those whose note says so are covered only
as far as one actor goes. With several callers the violated runs and the list in 3.3 show what is
lost; a retried UPSERTSHIFTSTAGING overwrites what happened between its two executions.
`HandlersLocked`, `DrawerReleased`, `ReportedApplied` and `CountIsDepth` are proved and no
longer part of a run.

Two proofs need induction over data: the greatest of a set of positions
(`NumberSequence_proofs`) and the calls among the items of a queue
(`LongPollingLock_proofs`). The library's induction theorems take an operator and cannot be
instantiated by the provers; the proofs use that the order of the naturals is well founded
(`WFMin`) instead: `ClosedIsAll` says that a set of naturals with 0 and closed under
successor is all of them, and `PrefixExists` that the recursion of `AskedPrefix` has a
solution.

Model-checked only: liveness (`BackOnline`, `ReturnsOnline`, `RegainsLock`,
`Synchronised`), because the prover has no ENABLED. Every other property of a passing run is
a theorem.

## 5. Plan

Order by importance. A component that is added takes its runs from those that can share an
instance, so that the number of runs stays small.

1. `CartStore`: gift cards with their lock, pre-processed payments, and the transfer of a cart,
   which ignores the row version.
2. `AsyncQueue` (one callback, failure, cancellation) as the specification of the queues
   that the models of the client take as sequences of steps, and device activation over it.
3. `BatchRequests`: `BatchHelper` and `ParametersCache`.
4. Pricing: the choice among competing discounts as operators against a reference
   definition.

Abstract specifications: `SessionFailover` (one store holds the session at a time), which
`ChainedRequest` with one caller implements; a shift as an atomic record with its
transitions, which `ShiftLifecycle` with serial requests implements.
