---------------------------- MODULE ChainedRequest ----------------------------
(***************************************************************************)
(* Seamless online/offline failover of the POS client.                     *)
(*                                                                         *)
(* Every data request of the POS goes through ChainedRequest.execute, which *)
(* sends it to Retail Server (online) or to the local Commerce Runtime      *)
(* (offline) and, through ChainedRequestFactory.switchConnection, moves the *)
(* session between the two stores: it copies the shift and the cart, then   *)
(* sets Session.connectionStatus.  JavaScript callbacks are atomic; what    *)
(* interleaves are the stages between two awaited calls, so a request is a  *)
(* record whose stage names the call in flight.                             *)
(***************************************************************************)
EXTENDS Naturals, FiniteSets

CONSTANTS
    Callers,             \* independent sources of requests: the UI flow, the sync timers
    KindsOf,             \* [Callers -> SUBSET Kind]: what each of them may ask for
    MaxLines,            \* bound: cart lines ever added
    MaxCarts,            \* bound: carts ever created
    MaxShifts,           \* bound: shifts ever opened
    OfflineModeDisabled, \* Session.offlineParameters.offlineModeDisabled
    Faults               \* whether answers may be lost and the application restarted

SessionKind == {"Token", "StartSession"}                          \* isLogOnRequest
OnlineOnly  == {"closeShift", "download", "upload"}               \* isOnlineRequest
CartKind    == {"createCart", "addLine", "checkout"}
Kind == SessionKind \cup OnlineOnly \cup CartKind
            \cup {"EndSession", "openShift", "syncStatus", "toggle"}

\* Requests that never try to bring the POS back online first.
SkipsDueSwitch == SessionKind \cup {"download"}

Line   == 1 .. MaxLines
CartId == 1 .. MaxCarts
Shift  == 1 .. MaxShifts
Cart   == [id : CartId, lines : SUBSET Line]
NoCart == [id |-> 0, lines |-> {}]      \* Session.isCartInProgress is false

Store  == {"online", "offline"}
Status == {"Online", "SeamlessOffline", "ManualOffline"}
Stage  == {"idle", "dispatch", "online", "offline", "fallback", "offlineLogon",
           "onlineShift", "deleteShift", "shiftDeleted", "offlineShift", "offlineCart"}

ASSUME ConstantsAssumption ==
    /\ KindsOf \in [Callers -> SUBSET Kind]
    /\ MaxLines \in Nat /\ MaxCarts \in Nat /\ MaxShifts \in Nat
    /\ {OfflineModeDisabled, Faults} \subseteq BOOLEAN

VARIABLES
    status,           \* Session.connectionStatus (persisted)
    offlineAvailable, \* Session.isOfflineAvailable
    shift,            \* Session.Shift.ShiftId, 0 when there is none (persisted)
    cart,             \* Session.cart (persisted)
    scan,             \* whether ChainedRequestFactory._nextOnlineScan has passed
    call,             \* the request each caller has in flight
    repeats,          \* offline repeats of session requests nobody waits for
    openShifts,       \* the open shifts of each store
    closedShifts,     \* the shifts Retail Server has closed
    cartsAt,          \* the carts of each store
    sales,            \* how often each cart was concluded, over both stores
    nextLine, nextCart, nextShift,  \* fresh identifiers
    faulted           \* history: an answer was lost or the application restarted

session == <<status, offlineAvailable, shift, cart>>
stores  == <<openShifts, closedShifts, cartsAt, sales>>
fresh   == <<nextLine, nextCart, nextShift>>
vars    == <<session, scan, call, repeats, stores, fresh, faulted>>

\* id: the cart or the shift the request names; moved, clone: the shift and the
\* cart captured by the transfer in flight.
Idle == [stage |-> "idle", kind |-> "toggle", id |-> 0, line |-> 0,
         moved |-> 0, clone |-> NoCart]

Call == [stage : Stage, kind : Kind, id : CartId \cup Shift \cup {0}, line : Line \cup {0},
         moved : Shift \cup {0}, clone : Cart \cup {NoCart}]

TypeOK ==
    /\ status \in Status
    /\ offlineAvailable \in BOOLEAN
    /\ shift \in Shift \cup {0}
    /\ cart \in Cart \cup {NoCart}
    /\ scan \in {"waiting", "due"}
    /\ call \in [Callers -> Call]
    /\ repeats \subseteq {"StartSession", "EndSession"}
    /\ openShifts \in [Store -> SUBSET Shift]
    /\ closedShifts \subseteq Shift
    /\ cartsAt \in [Store -> SUBSET Cart]
    /\ sales \in [CartId -> Nat]
    /\ nextLine \in 1 .. MaxLines + 1
    /\ nextCart \in 1 .. MaxCarts + 1
    /\ nextShift \in 1 .. MaxShifts + 1
    /\ faulted \in BOOLEAN

Init ==
    /\ status = "Online"
    /\ offlineAvailable \in BOOLEAN
    /\ shift = 0
    /\ cart = NoCart
    /\ scan = "due"
    /\ call = [c \in Callers |-> Idle]
    /\ repeats = {}
    /\ openShifts = [s \in Store |-> {}]
    /\ closedShifts = {}
    /\ cartsAt = [s \in Store |-> {}]
    /\ sales = [i \in CartId |-> 0]
    /\ nextLine = 1
    /\ nextCart = 1
    /\ nextShift = 1
    /\ faulted = FALSE

\* Retail Server acts and its answer is lost, or the application is killed.
Fault == Faults /\ faulted' = TRUE

-----------------------------------------------------------------------------
(* What a store does with a request (Retail Server and the local Commerce   *)
(* Runtime, seen from the client).                                          *)

\* s replaces its copy of k, without a version check.
Put(s, k) == [cartsAt EXCEPT ![s] = {x \in @ : x.id # k.id} \cup {k}]

\* The cart s answers with once the request q has been applied to its cart x.
Served(q, x) == IF q.kind = "addLine" THEN [x EXCEPT !.lines = @ \cup {q.line}] ELSE x

\* Store s accepts the request q; k is the cart it answers with.
Serve(s, q, k) ==
    \/ /\ q.kind = "createCart"
       /\ k = [id |-> q.id, lines |-> {}]
       /\ cartsAt' = Put(s, k)
       /\ UNCHANGED <<openShifts, closedShifts, sales>>
    \/ /\ q.kind = "addLine"
       /\ \E x \in cartsAt[s] : x.id = q.id /\ k = Served(q, x)
       /\ cartsAt' = Put(s, k)
       /\ UNCHANGED <<openShifts, closedShifts, sales>>
    \/ /\ q.kind = "checkout"
       /\ k = NoCart
       /\ \E x \in cartsAt[s] : x.id = q.id
       /\ cartsAt' = [cartsAt EXCEPT ![s] = {x \in @ : x.id # q.id}]
       /\ sales' = [sales EXCEPT ![q.id] = @ + 1]
       /\ UNCHANGED <<openShifts, closedShifts>>
    \/ /\ q.kind = "openShift"
       /\ k = NoCart
       /\ openShifts' = [openShifts EXCEPT ![s] = @ \cup {q.id}]
       /\ UNCHANGED <<closedShifts, cartsAt, sales>>
    \/ /\ q.kind = "closeShift"
       /\ k = NoCart
       /\ q.id \in openShifts[s]
       /\ openShifts' = [openShifts EXCEPT ![s] = @ \ {q.id}]
       /\ closedShifts' = closedShifts \cup {q.id}
       /\ UNCHANGED <<cartsAt, sales>>
    \/ /\ q.kind \notin CartKind \cup {"openShift", "closeShift"}
       /\ k = NoCart
       /\ UNCHANGED stores

\* Mutant of Accept: the cart is not cleared when it has been concluded.
AcceptKeepsCart(q, k) ==
    /\ cart' = IF q.kind \in CartKind \ {"checkout"} THEN k ELSE cart
    /\ shift' = CASE q.kind = "openShift"  -> q.id
                  [] q.kind = "closeShift" -> 0
                  [] OTHER                 -> shift

\* The caller's done callback: what it writes to the session.
Accept(q, k) ==
    /\ cart' = IF q.kind \in CartKind THEN k ELSE cart
    /\ shift' = CASE q.kind = "openShift"  -> q.id
                  [] q.kind = "closeShift" -> 0
                  [] OTHER                 -> shift

-----------------------------------------------------------------------------
(* ChainedRequestFactory.switchConnection: one operator starts each switch, *)
(* one action settles each call the switch awaits.                          *)

Settle(c, q)   == call' = [call EXCEPT ![c] = q]
Finish(c)      == Settle(c, Idle)
Move(c, stage) == Settle(c, [call[c] EXCEPT !.stage = stage])

\* A request whose switch to online is settled goes on; a manual switch ends.
AfterOnlineSwitch(c) == IF call[c].kind = "toggle" THEN Finish(c) ELSE Move(c, "dispatch")

\* Mutant of StartOnlineSwitch: the cart in progress is not looked at.
StartOnlineSwitchAnyCart(c, q) ==
    /\ Settle(c, [q EXCEPT !.stage = "onlineShift", !.moved = shift])
    /\ UNCHANGED scan

StartOnlineSwitch(c, q) ==
    \/ /\ cart # NoCart
       /\ scan' = "waiting"
       /\ Settle(c, IF q.kind = "toggle" THEN Idle ELSE [q EXCEPT !.stage = "dispatch"])
    \/ /\ cart = NoCart
       /\ Settle(c, [q EXCEPT !.stage = "onlineShift", !.moved = shift])
       /\ UNCHANGED scan

StartOfflineSwitch(c, q) ==
    IF offlineAvailable /\ ~OfflineModeDisabled
    THEN Settle(c, [q EXCEPT !.stage = "offlineShift", !.moved = shift])
    ELSE Finish(c)

\* Retail Server stores the shift; without one there is nothing to transfer.
OnlineShiftStored(c) ==
    /\ call[c].stage = "onlineShift"
    /\ \/ /\ call[c].moved # 0
          /\ openShifts' = [openShifts EXCEPT !["online"] = @ \cup {call[c].moved}]
          /\ Move(c, "deleteShift")
          /\ UNCHANGED status
       \/ /\ call[c].moved = 0
          /\ status' = "Online"
          /\ AfterOnlineSwitch(c)
          /\ UNCHANGED openShifts
    /\ UNCHANGED <<offlineAvailable, shift, cart, scan, repeats, closedShifts, cartsAt, sales, fresh, faulted>>

\* Mutant of OnlineShiftUnavailable: the failed creation is taken for a success and
\* the offline copy is deleted.
OnlineShiftUnavailableSwallowed(c) ==
    /\ call[c].stage = "onlineShift" /\ call[c].moved # 0
    /\ Move(c, "deleteShift")
    /\ UNCHANGED <<session, scan, repeats, stores, fresh, faulted>>

\* Retail Server cannot be reached: stay offline, scan again later.
OnlineShiftUnavailable(c) ==
    /\ call[c].stage = "onlineShift" /\ call[c].moved # 0
    /\ \/ UNCHANGED <<openShifts, faulted>>
       \/ /\ openShifts' = [openShifts EXCEPT !["online"] = @ \cup {call[c].moved}]
          /\ Fault
    /\ scan' = "waiting"
    /\ AfterOnlineSwitch(c)
    /\ UNCHANGED <<session, repeats, closedShifts, cartsAt, sales, fresh>>

\* An expired user token is swallowed; any other error rejects the request, also
\* when only the deletion of the offline copy has failed.
OnlineTransferRefused(c) ==
    /\ \/ call[c].stage = "onlineShift" /\ call[c].moved # 0
       \/ call[c].stage = "deleteShift"
    /\ AfterOnlineSwitch(c) \/ Finish(c)
    /\ UNCHANGED <<session, scan, repeats, stores, fresh, faulted>>

\* The offline copy goes; the callback that sets the status runs later.
OfflineShiftDeleted(c) ==
    /\ call[c].stage = "deleteShift"
    /\ openShifts' = [openShifts EXCEPT !["offline"] = @ \ {shift}]
    /\ Move(c, "shiftDeleted")
    /\ UNCHANGED <<session, scan, repeats, closedShifts, cartsAt, sales, fresh, faulted>>

WentOnline(c) ==
    /\ call[c].stage = "shiftDeleted"
    /\ status' = "Online"
    /\ AfterOnlineSwitch(c)
    /\ UNCHANGED <<offlineAvailable, shift, cart, scan, repeats, stores, fresh, faulted>>

\* Mutant of OfflineShiftStored: the clone has the cart's header but not its lines.
OfflineShiftStoredHeader(c) ==
    /\ call[c].stage = "offlineShift"
    /\ openShifts' = IF call[c].moved = 0 THEN openShifts
                     ELSE [openShifts EXCEPT !["offline"] = @ \cup {call[c].moved}]
    /\ Settle(c, [call[c] EXCEPT !.stage = "offlineCart", !.clone = [cart EXCEPT !.lines = {}]])
    /\ UNCHANGED <<session, scan, repeats, closedShifts, cartsAt, sales, fresh, faulted>>

\* The local store has the shift: clone the session's cart and send it.
OfflineShiftStored(c) ==
    /\ call[c].stage = "offlineShift"
    /\ openShifts' = IF call[c].moved = 0 THEN openShifts
                     ELSE [openShifts EXCEPT !["offline"] = @ \cup {call[c].moved}]
    /\ Settle(c, [call[c] EXCEPT !.stage = "offlineCart", !.clone = cart])
    /\ UNCHANGED <<session, scan, repeats, closedShifts, cartsAt, sales, fresh, faulted>>

\* The local store has the cart: the clone becomes the session's cart, the
\* status changes, and the request that could not be served online is repeated.
WentOffline(c) ==
    LET q == call[c] IN
    /\ q.stage = "offlineCart"
    /\ IF q.clone = NoCart THEN UNCHANGED <<cart, cartsAt>>
       ELSE cartsAt' = Put("offline", q.clone) /\ cart' = q.clone
    /\ status' = IF q.kind = "toggle" THEN "ManualOffline" ELSE "SeamlessOffline"
    /\ scan' = "waiting"
    /\ IF q.kind \in {"toggle"} \cup SessionKind \cup OnlineOnly
       THEN Finish(c) ELSE Settle(c, [q EXCEPT !.stage = "fallback", !.clone = NoCart])
    /\ UNCHANGED <<offlineAvailable, shift, repeats, openShifts, closedShifts, sales, fresh, faulted>>

OfflineTransferFailed(c) ==
    /\ \/ call[c].stage = "offlineShift" /\ call[c].moved # 0
       \/ call[c].stage = "offlineCart" /\ call[c].clone # NoCart
    /\ Finish(c)
    /\ UNCHANGED <<session, scan, repeats, stores, fresh, faulted>>

-----------------------------------------------------------------------------
(* ChainedRequest.execute *)

\* A request of kind k as the caller states it.
Asks(k, i, l) == [Idle EXCEPT !.stage = "dispatch", !.kind = k, !.id = i, !.line = l]

\* Mutant of Start: only a manual switch to offline is undone by the scan.
StartManualOnly(c, q) ==
    \/ /\ q.kind = "toggle"
       /\ IF status = "Online" THEN StartOfflineSwitch(c, q) /\ UNCHANGED scan
                               ELSE StartOnlineSwitch(c, q)
    \/ /\ q.kind = "syncStatus"
       /\ Settle(c, [q EXCEPT !.stage = "offline"]) /\ UNCHANGED scan
    \/ /\ q.kind \notin {"toggle", "syncStatus"}
       /\ IF q.kind \notin SkipsDueSwitch /\ status = "ManualOffline" /\ scan = "due"
          THEN StartOnlineSwitch(c, q)
          ELSE Settle(c, q) /\ UNCHANGED scan

\* First function of the queue: back to online if the next scan is due.
Start(c, q) ==
    \/ /\ q.kind = "toggle"
       /\ IF status = "Online" THEN StartOfflineSwitch(c, q) /\ UNCHANGED scan
                               ELSE StartOnlineSwitch(c, q)
    \/ /\ q.kind = "syncStatus"
       /\ Settle(c, [q EXCEPT !.stage = "offline"]) /\ UNCHANGED scan
    \/ /\ q.kind \notin {"toggle", "syncStatus"}
       /\ IF q.kind \notin SkipsDueSwitch /\ status = "SeamlessOffline" /\ scan = "due"
          THEN StartOnlineSwitch(c, q)
          ELSE Settle(c, q) /\ UNCHANGED scan

Issue(c, k) ==
    /\ call[c].stage = "idle" /\ k \in KindsOf[c]
    /\ \/ /\ k = "createCart" /\ cart = NoCart /\ nextCart <= MaxCarts
          /\ Start(c, Asks(k, nextCart, 0))
          /\ nextCart' = nextCart + 1
          /\ UNCHANGED <<nextLine, nextShift>>
       \/ /\ k = "addLine" /\ cart # NoCart /\ nextLine <= MaxLines
          /\ Start(c, Asks(k, cart.id, nextLine))
          /\ nextLine' = nextLine + 1
          /\ UNCHANGED <<nextCart, nextShift>>
       \/ /\ k = "checkout" /\ cart # NoCart
          /\ Start(c, Asks(k, cart.id, 0))
          /\ UNCHANGED fresh
       \/ /\ k = "openShift" /\ shift = 0 /\ nextShift <= MaxShifts
          /\ Start(c, Asks(k, nextShift, 0))
          /\ nextShift' = nextShift + 1
          /\ UNCHANGED <<nextLine, nextCart>>
       \/ /\ k = "closeShift" /\ shift # 0 /\ cart = NoCart
          /\ Start(c, Asks(k, shift, 0))
          /\ UNCHANGED fresh
       \/ /\ k \notin CartKind \cup {"openShift", "closeShift"}
          /\ Start(c, Asks(k, 0, 0))
          /\ UNCHANGED fresh
    /\ UNCHANGED <<session, repeats, stores, faulted>>

\* Second function of the queue: choose the data source.
Dispatch(c) ==
    /\ call[c].stage = "dispatch"
    /\ Move(c, IF status # "Online" /\ call[c].kind \notin OnlineOnly \cup SessionKind
               THEN "offline" ELSE "online")
    /\ UNCHANGED <<session, scan, repeats, stores, fresh, faulted>>

\* Mutant of OnlineDone: the logon token does not wait for its offline repeat either.
OnlineDoneNotAwaited(c) ==
    LET q == call[c] IN
    /\ q.stage = "online"
    /\ \E k \in Cart \cup {NoCart} : Serve("online", q, k) /\ Accept(q, k)
    /\ Finish(c)
    /\ repeats' = IF q.kind \in SessionKind \/ (q.kind = "EndSession" /\ offlineAvailable)
                  THEN repeats \cup {q.kind} ELSE repeats
    /\ UNCHANGED <<status, offlineAvailable, scan, fresh, faulted>>

\* Retail Server answers.  A session request is repeated offline: the logon
\* token waits for the repeat, the start and the end of a session do not.
OnlineDone(c) ==
    LET q == call[c] IN
    /\ q.stage = "online"
    /\ \E k \in Cart \cup {NoCart} : Serve("online", q, k) /\ Accept(q, k)
    /\ IF q.kind = "Token" THEN Move(c, "offlineLogon") ELSE Finish(c)
    /\ repeats' = IF q.kind = "StartSession" \/ (q.kind = "EndSession" /\ offlineAvailable)
                  THEN repeats \cup {q.kind} ELSE repeats
    /\ UNCHANGED <<status, offlineAvailable, scan, fresh, faulted>>

OnlineRefused(c) ==
    /\ call[c].stage = "online"
    /\ Finish(c)
    /\ UNCHANGED <<session, scan, repeats, stores, fresh, faulted>>

\* SERVICE_UNAVAILABLE: fail over to the offline store if the POS is still online.
OnlineUnavailable(c) ==
    LET q == call[c] IN
    /\ q.stage = "online"
    /\ \/ UNCHANGED <<stores, faulted>>
       \/ Fault /\ \E k \in Cart \cup {NoCart} : Serve("online", q, k)
    /\ \/ /\ status # "Online"
          /\ IF q.kind \in SessionKind THEN Move(c, "offline") ELSE Finish(c)
       \/ /\ status = "Online"
          /\ IF q.kind \in SessionKind THEN Move(c, "fallback") ELSE StartOfflineSwitch(c, q)
    /\ UNCHANGED <<session, scan, repeats, fresh>>

\* The local store answers.  After a failover that proves it is available; a
\* logon switches the connection only now.
OfflineDone(c) ==
    LET q == call[c] IN
    /\ q.stage \in {"offline", "fallback"}
    /\ \E k \in Cart \cup {NoCart} : Serve("offline", q, k) /\ Accept(q, k)
    /\ offlineAvailable' = (q.stage = "fallback" \/ offlineAvailable)
    /\ IF q.stage # "fallback" \/ q.kind \notin SessionKind \/ status = "SeamlessOffline"
       THEN Finish(c)
       ELSE IF OfflineModeDisabled THEN Finish(c)
       ELSE Settle(c, [q EXCEPT !.stage = "offlineShift", !.moved = shift])
    /\ UNCHANGED <<status, scan, repeats, fresh, faulted>>

OfflineFailed(c) ==
    /\ call[c].stage \in {"offline", "fallback"}
    /\ Finish(c)
    /\ UNCHANGED <<session, scan, repeats, stores, fresh, faulted>>

OfflineLogonSettled(c) ==
    /\ call[c].stage = "offlineLogon"
    /\ offlineAvailable' \in BOOLEAN
    /\ Finish(c)
    /\ UNCHANGED <<status, shift, cart, scan, repeats, stores, fresh, faulted>>

RepeatSettled(k) ==
    /\ k \in repeats
    /\ repeats' = repeats \ {k}
    /\ offlineAvailable' \in BOOLEAN
    /\ UNCHANGED <<status, shift, cart, scan, call, stores, fresh, faulted>>

-----------------------------------------------------------------------------
\* The scan interval elapses.
ScanDue ==
    /\ scan = "waiting"
    /\ scan' = "due"
    /\ UNCHANGED <<session, call, repeats, stores, fresh, faulted>>

\* The application is killed and started again: Session.resetSession reloads the
\* status, the shift and the cart; everything in flight is forgotten.
Restart ==
    /\ Fault
    /\ call' = [c \in Callers |-> Idle]
    /\ repeats' = {}
    /\ offlineAvailable' = FALSE
    /\ scan' \in {"waiting", "due"}
    /\ UNCHANGED <<status, shift, cart, stores, fresh>>

SwitchStep(c) ==
    \/ OnlineShiftStored(c) \/ OnlineShiftUnavailable(c) \/ OnlineTransferRefused(c)
    \/ OfflineShiftDeleted(c) \/ WentOnline(c)
    \/ OfflineShiftStored(c) \/ WentOffline(c) \/ OfflineTransferFailed(c)

RequestStep(c) ==
    \/ Dispatch(c) \/ OnlineDone(c) \/ OnlineRefused(c) \/ OnlineUnavailable(c)
    \/ OfflineDone(c) \/ OfflineFailed(c) \/ OfflineLogonSettled(c)

Next ==
    \/ \E c \in Callers : SwitchStep(c) \/ RequestStep(c) \/ \E k \in Kind : Issue(c, k)
    \/ \E k \in {"StartSession", "EndSession"} : RepeatSettled(k)
    \/ ScanDue
    \/ Restart

Spec == Init /\ [][Next]_vars

\* Every call is answered, the scan interval elapses, and the upload timer, which runs
\* beside the other requests of its caller, keeps asking.
Fairness ==
    /\ WF_vars(ScanDue)
    /\ \A c \in Callers : WF_vars(SwitchStep(c) \/ RequestStep(c)) /\ SF_vars(Issue(c, "upload"))

FairSpec == Spec /\ Fairness

-----------------------------------------------------------------------------
(* Properties *)

\* The session's shift is always known to a store: transferShiftToOnline creates the
\* online copy before it deletes the offline one, whatever fails or restarts between.
ShiftKnown == shift # 0 => shift \in openShifts["online"] \cup openShifts["offline"] \cup closedShifts

\* Once a shift is open, only one step can make it unknown to both stores: a deletion
\* of the offline copy whose transfer had copied another shift, because the query
\* reads Session.Shift again instead of the shift it created online.
ShiftLostOnlyByStaleDelete ==
    [][ ShiftKnown /\ ~ShiftKnown'
        => \E c \in Callers : OfflineShiftDeleted(c) /\ call[c].moved # shift ]_vars

ConnectedStore == IF status = "Online" THEN "online" ELSE "offline"

\* With one request at a time and until an answer is lost or the POS restarted, the store
\* the POS is connected to holds the open shift and every line of the cart the session
\* shows, whatever switch was tried, failed or was abandoned before.
ConnectedStoreHoldsSession == ~faulted =>
    /\ shift # 0 /\ (\A c \in Callers : call[c].stage # "shiftDeleted")
            => shift \in openShifts[ConnectedStore]
    /\ cart # NoCart
            => \E x \in cartsAt[ConnectedStore] : x.id = cart.id /\ cart.lines \subseteq x.lines

\* With one request at a time and until an answer is lost or the POS restarted, a cart is
\* concluded at most once, over both stores.
SoldOnce == ~faulted => \A i \in CartId : sales[i] <= 1

\* The transfer of a cart is seamless: a line the cashier has seen in the cart stays
\* in the cart.
CartNeverRollsBack ==
    [][ cart'.id = cart.id => cart.lines \subseteq cart'.lines ]_vars

\* Switching from offline mode to online is not allowed when a transaction is in
\* progress.
NoOnlineSwitchWithCart ==
    [][ status # "Online" /\ status' = "Online" => cart = NoCart ]_vars

Disturbance == Restart \/ \E c \in Callers : OnlineShiftUnavailable(c) \/ OnlineTransferRefused(c)

\* Once no transfer of the shift fails any more and the POS stays up, a POS that went
\* offline by itself returns online, or is selling.
BackOnline ==
    <>[][~Disturbance]_vars
        => (status = "SeamlessOffline" /\ cart = NoCart
                ~> status # "SeamlessOffline" \/ cart # NoCart)
=============================================================================
