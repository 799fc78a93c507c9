---------------------------- MODULE ChainedContext ----------------------------
(***************************************************************************)
(* The state machine of the RetailProxy library's chained context, the      *)
(* .NET counterpart of the POS client's chained requests.                   *)
(*                                                                         *)
(* A request names an action; its execution pattern, the context state and  *)
(* whether a device is activated choose a transition, which executes the    *)
(* request in one context, in both, or moves the cached shift and cart to   *)
(* the other context first.  No lock protects contextState: what runs       *)
(* between two awaits is one step here, and a request is a record whose     *)
(* stage names what it awaits.  Both contexts are configured.               *)
(***************************************************************************)
EXTENDS Naturals, FiniteSets

CONSTANTS
    Callers,       \* tasks that use the context at the same time
    KindsOf,       \* [Callers -> SUBSET Kind]: what each of them may ask for
    InitialState,  \* the state the context is constructed with
    MaxCarts,      \* bound: carts ever created
    MaxShifts,     \* bound: shifts ever opened
    LostResponses  \* whether Retail Server may apply a request that then times out

State == {"OnlineOnly", "OfflineOnly", "Dual"}

OnlinePattern  == {"ActivateDevice", "DeactivateDevice"}
BothPattern    == {"AcquireToken"}
Seamless       == {"createCart", "checkout", "openShift", "closeShift", "read"}
ManualSwitch   == {"switchOnline", "switchOffline"}
Kind           == OnlinePattern \cup BothPattern \cup Seamless \cup ManualSwitch

CartId == 1 .. MaxCarts
Shift  == 1 .. MaxShifts
Store  == {"online", "offline"}

OnlineStage  == {"online", "onlineFirst", "methodOnline", "shiftOnline"}
OfflineStage == {"offline", "methodOffline", "shiftOffline", "cartOffline"}
Stage == OnlineStage \cup OfflineStage
            \cup {"idle", "cartRead", "deviceRead", "both", "deleteShift"}

ASSUME ConstantsAssumption ==
    /\ KindsOf \in [Callers -> SUBSET Kind]
    /\ InitialState \in State
    /\ MaxCarts \in Nat /\ MaxShifts \in Nat
    /\ LostResponses \in BOOLEAN

VARIABLES
    state,        \* contextState
    forced,       \* forcedToOffline
    reconnect,    \* whether reconnectionInterval has passed since the last online connection
    device,       \* whether getCachedEntityFuncAsync returns a device
    shift, cart,  \* the shift and the cart it returns, 0 for none
    call,         \* the request each caller has in flight
    openShifts, closedShifts, carts,  \* what the two stores hold
    nextCart, nextShift               \* fresh identifiers

control == <<forced, reconnect>>
client  == <<device, shift, cart>>
stores  == <<openShifts, closedShifts, carts>>
fresh   == <<nextCart, nextShift>>
vars    == <<state, control, client, call, stores, fresh>>

\* id: the cart or shift the request names; stage: the call in flight;
\* target: the transition's Stop; manual: the switch is SwitchToOfflineAsync's or
\* SwitchToOnlineAsync's own; moved: the shift or cart of the transfer in flight.
Idle == [stage |-> "idle", kind |-> "read", id |-> 0,
         target |-> InitialState, manual |-> FALSE, moved |-> 0]

Call == [stage : Stage, kind : Kind, id : CartId \cup Shift \cup {0},
         target : State, manual : BOOLEAN, moved : CartId \cup Shift \cup {0}]

\* Only an offline execution ends in OfflineOnly, and it always does.
TypeOK ==
    /\ state \in State
    /\ forced \in BOOLEAN
    /\ reconnect \in {"waiting", "due"}
    /\ device \in BOOLEAN
    /\ shift \in Shift \cup {0}
    /\ cart \in CartId \cup {0}
    /\ call \in [Callers -> Call]
    /\ openShifts \in [Store -> SUBSET Shift]
    /\ closedShifts \subseteq Shift
    /\ carts \in [Store -> SUBSET CartId]
    /\ nextCart \in 1 .. MaxCarts + 1
    /\ nextShift \in 1 .. MaxShifts + 1
    /\ \A c \in Callers : call[c].stage \in OnlineStage \cup OfflineStage \cup {"both"}
        => (call[c].target = "OfflineOnly" <=> call[c].stage \in OfflineStage)

Init ==
    /\ state = InitialState
    /\ forced = FALSE
    /\ reconnect = "due"
    /\ device \in BOOLEAN
    /\ shift = 0
    /\ cart = 0
    /\ call = [c \in Callers |-> Idle]
    /\ openShifts = [s \in Store |-> {}]
    /\ closedShifts = {}
    /\ carts = [s \in Store |-> {}]
    /\ nextCart = 1
    /\ nextShift = 1

IsOffline == state = "OfflineOnly"

-----------------------------------------------------------------------------
(* The stores, and the client that caches what they answer with. *)

Serve(s, q) ==
    \/ /\ q.kind = "createCart"
       /\ carts' = [carts EXCEPT ![s] = @ \cup {q.id}]
       /\ UNCHANGED <<openShifts, closedShifts>>
    \/ /\ q.kind = "checkout" /\ q.id \in carts[s]
       /\ carts' = [carts EXCEPT ![s] = @ \ {q.id}]
       /\ UNCHANGED <<openShifts, closedShifts>>
    \/ /\ q.kind = "openShift"
       /\ openShifts' = [openShifts EXCEPT ![s] = @ \cup {q.id}]
       /\ UNCHANGED <<closedShifts, carts>>
    \/ /\ q.kind = "closeShift" /\ q.id \in openShifts[s]
       /\ openShifts' = [openShifts EXCEPT ![s] = @ \ {q.id}]
       /\ closedShifts' = closedShifts \cup {q.id}
       /\ UNCHANGED carts
    \/ /\ q.kind \notin {"createCart", "checkout", "openShift", "closeShift"}
       /\ UNCHANGED stores

Cache(q) ==
    /\ device' = CASE q.kind = "ActivateDevice"   -> TRUE
                   [] q.kind = "DeactivateDevice" -> FALSE
                   [] OTHER                       -> device
    /\ cart'   = CASE q.kind = "createCart" -> q.id
                   [] q.kind = "checkout"   -> 0
                   [] OTHER                 -> cart
    /\ shift'  = CASE q.kind = "openShift"  -> q.id
                   [] q.kind = "closeShift" -> 0
                   [] OTHER                 -> shift

-----------------------------------------------------------------------------
(* How a request goes on: state' is the context state it leaves behind. *)

Settle(c, q) == call' = [call EXCEPT ![c] = q] /\ UNCHANGED client

\* The request's answer reaches the client.
Return(c, s) ==
    /\ state' = s
    /\ call' = [call EXCEPT ![c] = Idle]
    /\ Cache(call[c])

\* The request fails. (StatusChanged, which ExecuteAsync raises here, changes nothing.)
Throw(c, q, s) ==
    /\ state' = s
    /\ call' = [call EXCEPT ![c] = Idle]
    /\ UNCHANGED client

Enter(c, q, s, stage, target) ==
    /\ state' = s
    /\ Settle(c, [q EXCEPT !.stage = stage, !.target = target])

ToOfflineShift(q, manual) ==
    [q EXCEPT !.stage = "shiftOffline", !.target = "OfflineOnly", !.manual = manual, !.moved = shift]
ToOnlineShift(q, manual) ==
    [q EXCEPT !.stage = "shiftOnline", !.target = "Dual", !.manual = manual, !.moved = shift]

\* MoveNextAsync with isRequestOffline: switch to offline first unless already there.
RequestOffline(c, q) ==
    \/ /\ q.kind \in OnlinePattern
       /\ Throw(c, q, state)
    \/ /\ q.kind \notin OnlinePattern /\ IsOffline
       /\ Enter(c, q, state, "offline", "OfflineOnly")
    \/ /\ q.kind \notin OnlinePattern /\ ~IsOffline
       /\ IF q.kind \in BothPattern
          THEN Enter(c, q, "OfflineOnly", "methodOffline", "OfflineOnly")
          ELSE state' = "OfflineOnly" /\ Settle(c, ToOfflineShift(q, FALSE))

-----------------------------------------------------------------------------
\* Mutant of Execute: a context forced offline reconnects like any other.
ExecuteUnforced(c, q) ==
    \/ /\ ~IsOffline
       /\ reconnect' = "waiting"
       /\ Enter(c, q, state, "deviceRead", q.target)
    \/ /\ IsOffline /\ reconnect = "due"
       /\ Enter(c, q, state, "cartRead", q.target)
       /\ UNCHANGED reconnect
    \/ /\ IsOffline /\ reconnect # "due"
       /\ RequestOffline(c, q)
       /\ UNCHANGED reconnect

\* Mutant of Execute: an offline context never tries to reconnect.
ExecuteNeverReconnects(c, q) ==
    \/ /\ ~IsOffline
       /\ reconnect' = "waiting"
       /\ Enter(c, q, state, "deviceRead", q.target)
    \/ /\ IsOffline
       /\ RequestOffline(c, q)
       /\ UNCHANGED reconnect

\* MoveNextAsync of the public API, up to its first await.
Execute(c, q) ==
    \/ /\ ~IsOffline
       /\ reconnect' = "waiting"
       /\ Enter(c, q, state, "deviceRead", q.target)
    \/ /\ IsOffline /\ ~forced /\ reconnect = "due"
       /\ Enter(c, q, state, "cartRead", q.target)
       /\ UNCHANGED reconnect
    \/ /\ IsOffline /\ (forced \/ reconnect # "due")
       /\ RequestOffline(c, q)
       /\ UNCHANGED reconnect

\* SwitchToOnlineAsync and SwitchToOfflineAsync of the public API.
Switch(c, q) ==
    \/ /\ q.kind = "switchOnline" /\ IsOffline
       /\ Enter(c, q, state, "cartRead", q.target)
       /\ UNCHANGED forced
    \/ /\ q.kind = "switchOffline" /\ ~IsOffline
       /\ state' = state
       /\ Settle(c, ToOfflineShift(q, TRUE))
       /\ UNCHANGED forced
    \/ /\ (q.kind = "switchOnline") <=> ~IsOffline
       /\ forced' = (q.kind = "switchOffline")
       /\ UNCHANGED <<state, call, client>>

\* The client asks for what its screen offers.
Issue(c, k) ==
    LET Ask(i) == [Idle EXCEPT !.kind = k, !.id = i] IN
    /\ call[c].stage = "idle" /\ k \in KindsOf[c]
    /\ \/ /\ k = "createCart" /\ cart = 0 /\ nextCart <= MaxCarts
          /\ Execute(c, Ask(nextCart))
          /\ nextCart' = nextCart + 1
          /\ UNCHANGED <<nextShift, forced>>
       \/ /\ k = "openShift" /\ shift = 0 /\ nextShift <= MaxShifts
          /\ Execute(c, Ask(nextShift))
          /\ nextShift' = nextShift + 1
          /\ UNCHANGED <<nextCart, forced>>
       \/ /\ \/ k = "checkout" /\ cart # 0
             \/ k = "closeShift" /\ shift # 0 /\ cart = 0
             \/ k = "DeactivateDevice" /\ device /\ cart = 0
             \/ k = "ActivateDevice" /\ ~device
             \/ k \in {"read", "AcquireToken"}
          /\ Execute(c, Ask(CASE k = "checkout" -> cart [] k = "closeShift" -> shift [] OTHER -> 0))
          /\ UNCHANGED <<fresh, forced>>
       \/ /\ k \in ManualSwitch
          /\ Switch(c, Ask(0))
          /\ UNCHANGED <<fresh, reconnect>>
    /\ UNCHANGED stores

\* Mutant of CartRead: the cached cart is not looked at.
CartReadIgnored(c) ==
    LET q == call[c] IN
    /\ q.stage = "cartRead"
    /\ IF q.kind = "switchOnline"
       THEN IF ~IsOffline THEN Throw(c, q, state) /\ UNCHANGED reconnect
            ELSE state' = state /\ Settle(c, ToOnlineShift(q, TRUE)) /\ UNCHANGED reconnect
       ELSE /\ reconnect' = "waiting"
            /\ Enter(c, q, state, "deviceRead", q.target)
    /\ UNCHANGED <<forced, stores, fresh>>

\* The cached cart is read: no switch to online while one is unfinished.
CartRead(c) ==
    LET q == call[c] IN
    /\ q.stage = "cartRead"
    /\ IF q.kind = "switchOnline"
       THEN IF cart # 0 \/ ~IsOffline THEN Throw(c, q, state) /\ UNCHANGED reconnect
            ELSE state' = state /\ Settle(c, ToOnlineShift(q, TRUE)) /\ UNCHANGED reconnect
       ELSE IF cart # 0 THEN RequestOffline(c, q) /\ UNCHANGED reconnect
            ELSE /\ reconnect' = "waiting"
                 /\ Enter(c, q, state, "deviceRead", q.target)
    /\ UNCHANGED <<forced, stores, fresh>>

\* Mutant of DeviceRead: an online execution stops in the state the request found.
DeviceReadKeepsState(c) ==
    LET q == call[c] IN
    /\ q.stage = "deviceRead"
    /\ \/ /\ device /\ q.kind \in BothPattern
          /\ Enter(c, q, state, "both", state)
       \/ /\ device /\ state = "Dual" /\ q.kind \in Seamless
          /\ Enter(c, q, state, "onlineFirst", "Dual")
       \/ /\ ~device \/ q.kind \in OnlinePattern \/ (state # "Dual" /\ q.kind \in Seamless)
          /\ Enter(c, q, state, "online", state)
    /\ UNCHANGED <<control, stores, fresh>>

\* GetEventForRequestAsync has read the device: the transition is chosen and begun.
DeviceRead(c) ==
    LET q == call[c] IN
    /\ q.stage = "deviceRead"
    /\ \/ /\ ~IsOffline /\ device /\ q.kind \in BothPattern
          /\ Enter(c, q, state, "both", "Dual")
       \/ /\ state = "Dual" /\ device /\ q.kind \in Seamless
          /\ Enter(c, q, state, "onlineFirst", "Dual")
       \/ /\ ~IsOffline
          /\ ~device \/ q.kind \in OnlinePattern \/ (state = "OnlineOnly" /\ q.kind \in Seamless)
          /\ Enter(c, q, state, "online", state)
       \/ /\ IsOffline
          /\ IF q.kind \in BothPattern THEN Enter(c, q, state, "methodOnline", "Dual")
             ELSE state' = state /\ Settle(c, ToOnlineShift(q, FALSE))
    /\ UNCHANGED <<control, stores, fresh>>

-----------------------------------------------------------------------------
(* Answers of Retail Server *)

\* The transition to online is done: the state changes before the offline shift goes.
ToDual(c, q) == Enter(c, q, "Dual", "deleteShift", "Dual")

OnlineAnswered(c) ==
    LET q == call[c] IN
    /\ q.stage \in {"online", "onlineFirst", "methodOnline"}
    /\ Serve("online", q)
    /\ IF q.stage # "methodOnline" THEN Return(c, q.target)
       ELSE IF q.kind \in BothPattern THEN state' = state /\ Settle(c, ToOnlineShift(q, FALSE))
       ELSE ToDual(c, q)
    /\ UNCHANGED <<control, fresh>>

OnlineShiftStored(c) ==
    LET q == call[c] IN
    /\ q.stage = "shiftOnline"
    /\ openShifts' = IF q.moved = 0 THEN openShifts
                     ELSE [openShifts EXCEPT !["online"] = @ \cup {q.moved}]
    /\ IF q.manual \/ q.kind \in BothPattern THEN ToDual(c, q)
       ELSE Enter(c, q, state, "methodOnline", "Dual")
    /\ UNCHANGED <<control, closedShifts, carts, fresh>>

AwaitsOnline(q) == q.stage \in OnlineStage /\ (q.stage = "shiftOnline" => q.moved # 0)

OnlineRefused(c) ==
    /\ AwaitsOnline(call[c])
    /\ Throw(c, call[c], state)
    /\ UNCHANGED <<control, stores, fresh>>

\* Mutant of OnlineUnreachable: the shift is taken for transferred.
OnlineUnreachableSwallowed(c) ==
    LET q == call[c] IN
    /\ AwaitsOnline(q)
    /\ UNCHANGED stores
    /\ IF q.stage = "online" THEN Throw(c, q, state)
       ELSE IF q.stage = "shiftOnline" THEN ToDual(c, q)
       ELSE RequestOffline(c, q)
    /\ UNCHANGED <<control, fresh>>

\* NotFound, or RequestTimeout: Retail Server may have done what was asked.
OnlineUnreachable(c) ==
    LET q == call[c] IN
    /\ AwaitsOnline(q)
    /\ \/ UNCHANGED stores
       \/ /\ LostResponses
          /\ IF q.stage # "shiftOnline" THEN Serve("online", q)
             ELSE /\ openShifts' = [openShifts EXCEPT !["online"] = @ \cup {q.moved}]
                  /\ UNCHANGED <<closedShifts, carts>>
    /\ IF q.stage = "online" \/ q.manual THEN Throw(c, q, state) ELSE RequestOffline(c, q)
    /\ UNCHANGED <<control, fresh>>

\* The logon token was asked of both contexts at once, and both have answered.
BothSettled(c) ==
    LET q == call[c] IN
    /\ q.stage = "both"
    /\ \E online, offline \in BOOLEAN :
        \/ /\ online /\ offline
           /\ Return(c, q.target)
           /\ UNCHANGED forced
        \/ /\ online /\ ~offline         \* OfflineAuthenticationFailed
           /\ IF IsOffline THEN Throw(c, q, state) ELSE Return(c, "OnlineOnly")
           /\ UNCHANGED forced
        \/ /\ ~online /\ offline         \* the public SwitchToOfflineAsync
           /\ IF IsOffline
              THEN Return(c, state) /\ forced' = TRUE
              ELSE state' = state /\ Settle(c, ToOfflineShift(q, TRUE)) /\ UNCHANGED forced
        \/ /\ ~online /\ ~offline
           /\ Throw(c, q, state)
           /\ UNCHANGED forced
    /\ UNCHANGED <<reconnect, stores, fresh>>

-----------------------------------------------------------------------------
(* Answers of the local Commerce Runtime *)

OfflineShiftDeleted(c) ==
    LET q == call[c] IN
    /\ q.stage = "deleteShift"
    /\ \/ openShifts' = [openShifts EXCEPT !["offline"] = @ \ {shift}]
       \/ UNCHANGED openShifts            \* a failure is swallowed
    /\ Return(c, state)
    /\ forced' = (forced /\ ~q.manual)
    /\ UNCHANGED <<reconnect, closedShifts, carts, fresh>>

OfflineAnswered(c) ==
    LET q == call[c] IN
    /\ q.stage \in {"offline", "methodOffline"}
    /\ Serve("offline", q)
    /\ IF q.stage = "offline" THEN Return(c, q.target)
       ELSE IF q.kind \in BothPattern THEN state' = state /\ Settle(c, ToOfflineShift(q, FALSE))
       ELSE Return(c, state)
    /\ UNCHANGED <<control, fresh>>

OfflineShiftStored(c) ==
    LET q == call[c] IN
    /\ q.stage = "shiftOffline"
    /\ openShifts' = IF q.moved = 0 THEN openShifts
                     ELSE [openShifts EXCEPT !["offline"] = @ \cup {q.moved}]
    /\ Enter(c, [q EXCEPT !.moved = cart], state, "cartOffline", q.target)
    /\ UNCHANGED <<control, closedShifts, carts, fresh>>

OfflineCartStored(c) ==
    LET q == call[c] IN
    /\ q.stage = "cartOffline"
    /\ carts' = IF q.moved = 0 THEN carts
                ELSE [carts EXCEPT !["offline"] = @ \cup {q.moved}]
    /\ forced' = (forced \/ q.manual)
    /\ IF q.manual THEN Return(c, "OfflineOnly")
       ELSE IF q.kind \in BothPattern THEN Return(c, state)
       ELSE Enter(c, q, state, "methodOffline", q.target)
    /\ UNCHANGED <<reconnect, openShifts, closedShifts, fresh>>

OfflineFailed(c) ==
    LET q == call[c] IN
    /\ \/ q.stage \in {"offline", "methodOffline"}
       \/ q.stage \in {"shiftOffline", "cartOffline"} /\ q.moved # 0
    /\ Throw(c, q, state)
    /\ UNCHANGED <<control, stores, fresh>>

-----------------------------------------------------------------------------
IntervalElapses ==
    /\ reconnect = "waiting"
    /\ reconnect' = "due"
    /\ UNCHANGED <<state, forced, client, call, stores, fresh>>

Step(c) ==
    \/ CartRead(c) \/ DeviceRead(c) \/ BothSettled(c)
    \/ OnlineAnswered(c) \/ OnlineShiftStored(c) \/ OnlineRefused(c) \/ OnlineUnreachable(c)
    \/ OfflineShiftDeleted(c) \/ OfflineAnswered(c) \/ OfflineShiftStored(c)
    \/ OfflineCartStored(c) \/ OfflineFailed(c)

Next ==
    \/ \E c \in Callers : Step(c) \/ \E k \in Kind : Issue(c, k)
    \/ IntervalElapses

Spec == Init /\ [][Next]_vars

\* The client keeps reading, every call is answered, and the interval elapses.
Fairness ==
    /\ WF_vars(IntervalElapses)
    /\ \A c \in Callers : WF_vars(Step(c)) /\ WF_vars(Issue(c, "read"))

FairSpec == Spec /\ Fairness

-----------------------------------------------------------------------------
(* Properties *)

\* The cached shift is known to a store: SwitchToOnlineAsync stores it online before
\* it deletes the offline copy, whichever call fails or times out.
ShiftKnown == shift # 0 => shift \in openShifts["online"] \cup openShifts["offline"] \cup closedShifts

\* A context switched offline by the user is only brought back online by the user:
\* no request reconnects, however long the interval has passed.
ForcedStaysOffline ==
    [][ forced /\ IsOffline /\ state' # "OfflineOnly"
        => \E c \in Callers : call[c].kind = "switchOnline" /\ call[c].stage # "idle" ]_vars

\* Can't switch to online mode when offline cart is unfinished.
OnlineWithoutCart ==
    [][ IsOffline /\ state' # "OfflineOnly" => cart \notin carts["offline"] ]_vars

OnlineFails == \E c \in Callers : OnlineRefused(c) \/ OnlineUnreachable(c)

\* Once Retail Server answers every call again, a context that went offline by itself
\* returns online, unless a cart is in progress or the switch is forced meanwhile.
ReturnsOnline ==
    <>[][~OnlineFails]_vars
        => (IsOffline /\ ~forced /\ cart = 0 ~> ~IsOffline \/ forced \/ cart # 0)
=============================================================================
