------------------------- MODULE ChainedContext_proofs -------------------------
(* Theorems about ChainedContext: types for every set of callers, and what one    *)
(* caller at a time may rely on.                                                  *)
EXTENDS ChainedContext, TLAPS

USE ConstantsAssumption

\* A call whose captured data fit its kind and its stage.
Good(q) ==
    /\ q \in Call
    /\ q.kind = "openShift" => q.id \in Shift
    /\ q.kind = "createCart" => q.id \in CartId
    /\ q.stage \in {"shiftOnline", "shiftOffline"} => q.moved \in Shift \cup {0}
    /\ q.stage = "cartOffline" => q.moved \in CartId \cup {0}
    /\ q.stage \in OnlineStage \cup OfflineStage \cup {"both"}
        => (q.target = "OfflineOnly" <=> q.stage \in OfflineStage)

AllGood == call \in [Callers -> Call] /\ \A c \in Callers : Good(call[c])

TInv == TypeOK /\ AllGood

\* What a step does to the table of calls, to the context state and to the client.
Progress == AllGood' /\ state' \in State
            /\ device' \in BOOLEAN /\ shift' \in Shift \cup {0} /\ cart' \in CartId \cup {0}

LEMMA StageNames ==
    /\ OnlineStage \subseteq Stage /\ OfflineStage \subseteq Stage
    /\ {"idle", "cartRead", "deviceRead", "both", "deleteShift"} \subseteq Stage
    /\ InitialState \in State
BY DEF Stage

LEMMA IdleIsGood == Good(Idle)
BY DEF Good, Idle, Call, Stage, Kind, Seamless, State, OnlineStage, OfflineStage

\* Moving a call to a stage that captures nothing.
LEMMA EnterGood ==
    ASSUME NEW q, Good(q), NEW s \in Stage, NEW t \in State,
           s \notin {"shiftOnline", "shiftOffline", "cartOffline"},
           s \in OnlineStage \cup OfflineStage \cup {"both"}
                => (t = "OfflineOnly" <=> s \in OfflineStage)
    PROVE  Good([q EXCEPT !.stage = s, !.target = t])
<1> DEFINE r == [q EXCEPT !.stage = s, !.target = t]
<1>1. r \in Call /\ r.stage = s /\ r.target = t /\ r.kind = q.kind /\ r.id = q.id
  BY DEF Good, Call
<1> QED
  BY <1>1 DEF Good

\* Capturing the shift, for either direction.
LEMMA TransferGood ==
    ASSUME TInv, NEW q, Good(q), NEW m \in BOOLEAN
    PROVE  Good(ToOfflineShift(q, m)) /\ Good(ToOnlineShift(q, m))
<1>1. shift \in Shift \cup {0}
  BY DEF TInv, TypeOK
<1>2. /\ "shiftOffline" \in OfflineStage /\ "shiftOnline" \in OnlineStage \ OfflineStage
      /\ {"Dual", "OfflineOnly"} \subseteq State
  BY DEF OnlineStage, OfflineStage, State
<1>3. ASSUME NEW r, r = ToOfflineShift(q, m)
      PROVE  Good(r)
  <2>1. r \in Call /\ r.stage = "shiftOffline" /\ r.target = "OfflineOnly" /\ r.moved = shift
        /\ r.kind = q.kind /\ r.id = q.id
    BY <1>1, <1>2, <1>3, StageNames DEF ToOfflineShift, Good, Call
  <2> QED
    BY <1>1, <1>2, <2>1 DEF Good
<1>4. ASSUME NEW r, r = ToOnlineShift(q, m)
      PROVE  Good(r)
  <2>1. r \in Call /\ r.stage = "shiftOnline" /\ r.target = "Dual" /\ r.moved = shift
        /\ r.kind = q.kind /\ r.id = q.id
    BY <1>1, <1>2, <1>4, StageNames DEF ToOnlineShift, Good, Call
  <2> QED
    BY <1>1, <1>2, <2>1 DEF Good
<1> QED
  BY <1>3, <1>4

LEMMA CartGood ==
    ASSUME TInv, NEW q, Good(q), q.stage = "shiftOffline"
    PROVE  Good([[q EXCEPT !.moved = cart] EXCEPT !.stage = "cartOffline", !.target = q.target])
<1> DEFINE r == [[q EXCEPT !.moved = cart] EXCEPT !.stage = "cartOffline", !.target = q.target]
<1>1. cart \in CartId \cup {0} /\ "cartOffline" \in OfflineStage /\ "shiftOffline" \in OfflineStage
  BY DEF TInv, TypeOK, OfflineStage
<1>2. r \in Call /\ r.stage = "cartOffline" /\ r.target = q.target /\ r.moved = cart
      /\ r.kind = q.kind /\ r.id = q.id
  BY <1>1, StageNames DEF Good, Call
<1> QED
  BY <1>1, <1>2 DEF Good, OnlineStage

LEMMA SettleProgress ==
    ASSUME TInv, NEW c \in Callers, NEW q, Good(q), Settle(c, q), state' \in State
    PROVE  Progress
BY DEF TInv, TypeOK, AllGood, Settle, Progress, client, Good

LEMMA EnterProgress ==
    ASSUME TInv, NEW c \in Callers, NEW q, Good(q), NEW s \in Stage, NEW t \in State,
           NEW x \in State, Enter(c, q, x, s, t),
           s \notin {"shiftOnline", "shiftOffline", "cartOffline"},
           s \in OnlineStage \cup OfflineStage \cup {"both"}
                => (t = "OfflineOnly" <=> s \in OfflineStage)
    PROVE  Progress
BY EnterGood, SettleProgress DEF Enter

LEMMA ReturnProgress ==
    ASSUME TInv, NEW c \in Callers, NEW s \in State, Return(c, s)
    PROVE  Progress
<1>1. Good(call[c])
  BY DEF TInv, AllGood
<1>2. device' \in BOOLEAN /\ shift' \in Shift \cup {0} /\ cart' \in CartId \cup {0}
  BY <1>1 DEF Return, Cache, Good, TInv, TypeOK
<1>3. AllGood'
  BY IdleIsGood DEF Return, TInv, AllGood, Good
<1> QED
  BY <1>2, <1>3 DEF Return, Progress, TInv, TypeOK

LEMMA ThrowProgress ==
    ASSUME TInv, NEW c \in Callers, NEW q, Throw(c, q, state)
    PROVE  Progress
<1>1. AllGood'
  BY IdleIsGood DEF Throw, TInv, AllGood, Good
<1> QED
  BY <1>1 DEF Throw, Progress, TInv, TypeOK, client

LEMMA RequestOfflineProgress ==
    ASSUME TInv, NEW c \in Callers, NEW q, Good(q), RequestOffline(c, q)
    PROVE  Progress
<1>1. {"offline", "methodOffline"} \subseteq OfflineStage /\ "OfflineOnly" \in State
  BY DEF OfflineStage, State
<1>2. state \in State
  BY DEF TInv, TypeOK
<1> QED
  BY <1>1, <1>2, StageNames, TransferGood, SettleProgress, EnterProgress, ThrowProgress
     DEF RequestOffline

LEMMA ServeTyped ==
    ASSUME TInv, NEW s \in Store, NEW q, Good(q), Serve(s, q)
    PROVE  /\ openShifts' \in [Store -> SUBSET Shift]
           /\ closedShifts' \subseteq Shift
           /\ carts' \in [Store -> SUBSET CartId]
BY DEF Serve, TInv, TypeOK, Good, stores

\* The types follow from a progress, once the other variables are typed.
LEMMA TypedFromProgress ==
    ASSUME Progress, forced' \in BOOLEAN, reconnect' \in {"waiting", "due"},
           openShifts' \in [Store -> SUBSET Shift], closedShifts' \subseteq Shift,
           carts' \in [Store -> SUBSET CartId], nextCart' \in 1 .. MaxCarts + 1,
           nextShift' \in 1 .. MaxShifts + 1
    PROVE  TInv'
BY DEF Progress, TInv, TypeOK, AllGood, Good

-----------------------------------------------------------------------------
LEMMA InitTyped == Init => TInv
<1> SUFFICES ASSUME Init PROVE TInv
  OBVIOUS
<1>1. AllGood
  BY IdleIsGood DEF Init, AllGood, Good
<1>2. \A c \in Callers : call[c].stage = "idle"
  BY DEF Init, Idle
<1>3. nextCart \in 1 .. MaxCarts + 1 /\ nextShift \in 1 .. MaxShifts + 1
  BY DEF Init
<1>4. /\ openShifts \in [Store -> SUBSET Shift] /\ closedShifts \subseteq Shift
      /\ carts \in [Store -> SUBSET CartId]
  BY DEF Init
<1>5. TypeOK
  BY <1>1, <1>2, <1>3, <1>4, StageNames DEF Init, TypeOK, AllGood, OnlineStage, OfflineStage
<1> QED
  BY <1>1, <1>5 DEF TInv

LEMMA StepTyped ==
    ASSUME TInv, NEW c \in Callers, Step(c)
    PROVE  TInv'
<1>0. /\ Good(call[c]) /\ state \in State
      /\ {"Dual", "OnlineOnly", "OfflineOnly"} \subseteq State
      /\ "online" \in Store /\ "offline" \in Store
  BY DEF TInv, TypeOK, AllGood, State, Store
<1>t. /\ call[c].target \in State
      /\ call[c].stage \in {"online", "onlineFirst", "both"} => call[c].target # "OfflineOnly"
  BY <1>0 DEF Good, Call, OnlineStage, OfflineStage
<1>1. CASE CartRead(c)
  <2>1. Progress
    <3>1. CASE Throw(c, call[c], state)
      BY <3>1, ThrowProgress
    <3>2. CASE state' = state /\ Settle(c, ToOnlineShift(call[c], TRUE))
      BY <1>0, <3>2, TransferGood, SettleProgress
    <3>3. CASE RequestOffline(c, call[c])
      BY <1>0, <3>3, RequestOfflineProgress
    <3>4. CASE Enter(c, call[c], state, "deviceRead", call[c].target)
      BY <1>0, <1>t, <3>4, StageNames, EnterProgress DEF OnlineStage, OfflineStage
    <3> QED
      BY <1>1, <3>1, <3>2, <3>3, <3>4 DEF CartRead
  <2> QED
    BY <1>1, <2>1, TypedFromProgress DEF CartRead, TInv, TypeOK, stores, fresh
<1>2. CASE DeviceRead(c)
  <2>1. Progress
    <3>1. /\ {"both", "online", "onlineFirst", "methodOnline"} \subseteq Stage
          /\ {"online", "onlineFirst", "methodOnline", "both"} \cap OfflineStage = {}
      BY StageNames DEF OnlineStage, OfflineStage
    <3>2. ASSUME NEW s \in {"both", "online", "onlineFirst", "methodOnline"},
                 NEW t \in State \ {"OfflineOnly"}, Enter(c, call[c], state, s, t)
          PROVE  Progress
      BY <1>0, <3>1, <3>2, EnterProgress
    <3>3. CASE state' = state /\ Settle(c, ToOnlineShift(call[c], FALSE))
      BY <1>0, <3>3, TransferGood, SettleProgress
    <3>4. CASE Enter(c, call[c], state, "both", "Dual")
      BY <1>0, <3>2, <3>4
    <3>5. CASE Enter(c, call[c], state, "onlineFirst", "Dual")
      BY <1>0, <3>2, <3>5
    <3>6. CASE ~IsOffline /\ Enter(c, call[c], state, "online", state)
      BY <1>0, <3>2, <3>6 DEF IsOffline
    <3>7. CASE Enter(c, call[c], state, "methodOnline", "Dual")
      BY <1>0, <3>2, <3>7
    <3> QED
      BY <1>2, <3>3, <3>4, <3>5, <3>6, <3>7 DEF DeviceRead
  <2> QED
    BY <1>2, <2>1, TypedFromProgress DEF DeviceRead, TInv, TypeOK, stores, fresh, control
<1>3. CASE BothSettled(c)
  <2>1. Progress
    BY <1>0, <1>3, <1>t, TransferGood, SettleProgress, ReturnProgress, ThrowProgress
       DEF BothSettled
  <2>2. forced' \in BOOLEAN
    BY <1>3 DEF BothSettled, TInv, TypeOK
  <2> QED
    BY <1>3, <2>1, <2>2, TypedFromProgress DEF BothSettled, TInv, TypeOK, stores, fresh
<1>4. CASE OnlineAnswered(c)
  <2>1. Progress
    BY <1>0, <1>4, <1>t, StageNames, TransferGood, SettleProgress, ReturnProgress, EnterProgress
       DEF OnlineAnswered, ToDual, OnlineStage, OfflineStage
  <2> QED
    BY <1>0, <1>4, <2>1, ServeTyped, TypedFromProgress
       DEF OnlineAnswered, TInv, TypeOK, fresh, control
<1>5. CASE OnlineShiftStored(c)
  <2>1. Progress
    BY <1>0, <1>5, StageNames, EnterProgress
       DEF OnlineShiftStored, ToDual, OnlineStage, OfflineStage
  <2>2. call[c].moved \in Shift \cup {0}
    BY <1>0, <1>5 DEF OnlineShiftStored, Good
  <2> QED
    BY <1>5, <2>1, <2>2, TypedFromProgress DEF OnlineShiftStored, TInv, TypeOK, fresh, control
<1>6. CASE OnlineRefused(c)
  BY <1>6, ThrowProgress, TypedFromProgress
     DEF OnlineRefused, TInv, TypeOK, stores, fresh, control
<1>7. CASE OnlineUnreachable(c)
  <2>1. Progress
    BY <1>0, <1>7, ThrowProgress, RequestOfflineProgress DEF OnlineUnreachable
  <2>2. call[c].stage = "shiftOnline" => call[c].moved \in Shift \cup {0}
    BY <1>0 DEF Good
  <2>3. /\ openShifts' \in [Store -> SUBSET Shift] /\ closedShifts' \subseteq Shift
        /\ carts' \in [Store -> SUBSET CartId]
    <3>1. CASE UNCHANGED stores
      BY <3>1 DEF stores, TInv, TypeOK
    <3>2. CASE call[c].stage # "shiftOnline" /\ Serve("online", call[c])
      BY <1>0, <3>2, ServeTyped
    <3>3. CASE /\ call[c].stage = "shiftOnline"
               /\ openShifts' = [openShifts EXCEPT !["online"] = @ \cup {call[c].moved}]
               /\ UNCHANGED <<closedShifts, carts>>
      <4>1. call[c].moved \in Shift
        BY <1>7, <2>2, <3>3 DEF OnlineUnreachable, AwaitsOnline
      <4> QED
        BY <3>3, <4>1 DEF TInv, TypeOK
    <3> QED
      BY <1>7, <3>1, <3>2, <3>3 DEF OnlineUnreachable
  <2> QED
    BY <1>7, <2>1, <2>3, TypedFromProgress DEF OnlineUnreachable, TInv, TypeOK, fresh, control
<1>8. CASE OfflineShiftDeleted(c)
  <2>1. Progress
    BY <1>0, <1>8, ReturnProgress DEF OfflineShiftDeleted
  <2>2. forced' \in BOOLEAN
    BY <1>0, <1>8 DEF OfflineShiftDeleted, TInv, TypeOK, Good, Call
  <2> QED
    BY <1>8, <2>1, <2>2, TypedFromProgress DEF OfflineShiftDeleted, TInv, TypeOK, fresh
<1>9. CASE OfflineAnswered(c)
  <2>1. Progress
    BY <1>0, <1>9, <1>t, TransferGood, SettleProgress, ReturnProgress DEF OfflineAnswered
  <2> QED
    BY <1>0, <1>9, <2>1, ServeTyped, TypedFromProgress
       DEF OfflineAnswered, TInv, TypeOK, fresh, control
<1>10. CASE OfflineShiftStored(c)
  <2>1. Progress
    BY <1>0, <1>10, CartGood, SettleProgress DEF OfflineShiftStored, Enter
  <2>2. call[c].moved \in Shift \cup {0}
    BY <1>0, <1>10 DEF OfflineShiftStored, Good
  <2> QED
    BY <1>10, <2>1, <2>2, TypedFromProgress
       DEF OfflineShiftStored, TInv, TypeOK, fresh, control
<1>11. CASE OfflineCartStored(c)
  <2>1. call[c].target = "OfflineOnly" /\ call[c].moved \in CartId \cup {0}
    BY <1>0, <1>11 DEF OfflineCartStored, Good, OfflineStage
  <2>2. Progress
    BY <1>0, <1>11, <2>1, StageNames, ReturnProgress, EnterProgress
       DEF OfflineCartStored, OfflineStage
  <2>3. forced' \in BOOLEAN
    BY <1>0, <1>11 DEF OfflineCartStored, TInv, TypeOK, Good, Call
  <2> QED
    BY <1>11, <2>1, <2>2, <2>3, TypedFromProgress DEF OfflineCartStored, TInv, TypeOK, fresh
<1>12. CASE OfflineFailed(c)
  BY <1>12, ThrowProgress, TypedFromProgress
     DEF OfflineFailed, TInv, TypeOK, stores, fresh, control
<1> QED
  BY <1>1, <1>2, <1>3, <1>4, <1>5, <1>6, <1>7, <1>8, <1>9, <1>10, <1>11, <1>12 DEF Step

\* A request as it is stated, up to its first await.
LEMMA ExecuteTyped ==
    ASSUME TInv, NEW c \in Callers, NEW q, Good(q), Execute(c, q)
    PROVE  Progress /\ reconnect' \in {"waiting", "due"}
<1>1. /\ {"deviceRead", "cartRead"} \cap (OnlineStage \cup OfflineStage \cup {"both"}) = {}
      /\ q.target \in State /\ state \in State
  BY DEF OnlineStage, OfflineStage, Good, Call, TInv, TypeOK
<1>2. ASSUME NEW s \in {"deviceRead", "cartRead"}, Enter(c, q, state, s, q.target)
      PROVE  Progress
  BY <1>1, <1>2, StageNames, EnterProgress
<1>3. Progress
  <2>1. CASE Enter(c, q, state, "deviceRead", q.target)
    BY <1>2, <2>1
  <2>2. CASE Enter(c, q, state, "cartRead", q.target)
    BY <1>2, <2>2
  <2>3. CASE RequestOffline(c, q)
    BY <2>3, RequestOfflineProgress
  <2> QED
    BY <2>1, <2>2, <2>3 DEF Execute
<1> QED
  BY <1>3 DEF Execute, TInv, TypeOK

LEMMA SwitchTyped ==
    ASSUME TInv, NEW c \in Callers, NEW q, Good(q), Switch(c, q)
    PROVE  Progress /\ forced' \in BOOLEAN
<1>1. /\ "cartRead" \notin OnlineStage \cup OfflineStage \cup {"both"}
      /\ q.target \in State /\ state \in State
  BY DEF OnlineStage, OfflineStage, Good, Call, TInv, TypeOK
<1>2. Progress
  <2>1. CASE Enter(c, q, state, "cartRead", q.target)
    BY <1>1, <2>1, StageNames, EnterProgress
  <2>2. CASE state' = state /\ Settle(c, ToOfflineShift(q, TRUE))
    BY <1>1, <2>2, TransferGood, SettleProgress
  <2>3. CASE UNCHANGED <<state, call, client>>
    BY <2>3 DEF client, Progress, TInv, TypeOK, AllGood
  <2> QED
    BY <2>1, <2>2, <2>3 DEF Switch
<1> QED
  BY <1>2 DEF Switch, TInv, TypeOK

LEMMA IssueTyped ==
    ASSUME TInv, NEW c \in Callers, NEW k \in Kind, Issue(c, k)
    PROVE  TInv'
<1> DEFINE Asked(i) == [Idle EXCEPT !.kind = k, !.id = i]
<1>1. ASSUME NEW i \in CartId \cup Shift \cup {0},
             k = "openShift" => i \in Shift, k = "createCart" => i \in CartId
      PROVE  Good(Asked(i))
  <2>1. /\ Asked(i) \in Call /\ Asked(i).kind = k /\ Asked(i).id = i
        /\ Asked(i).stage = "idle"
    BY <1>1, IdleIsGood DEF Good, Call, Idle, TInv, TypeOK
  <2> HIDE DEF Asked
  <2> QED
    BY <1>1, <2>1 DEF Good, OnlineStage, OfflineStage
<1>2. /\ nextCart <= MaxCarts => nextCart \in CartId
      /\ nextShift <= MaxShifts => nextShift \in Shift
      /\ cart \in CartId \cup {0} /\ shift \in Shift \cup {0}
  BY DEF TInv, TypeOK, CartId, Shift
<1>3. /\ nextCart' \in 1 .. MaxCarts + 1 /\ nextShift' \in 1 .. MaxShifts + 1
  BY DEF Issue, TInv, TypeOK, fresh
<1>4. Progress /\ forced' \in BOOLEAN /\ reconnect' \in {"waiting", "due"}
  <2> HIDE DEF Asked
  <2>0. forced \in BOOLEAN /\ reconnect \in {"waiting", "due"}
    BY DEF TInv, TypeOK
  <2>1. CASE k = "createCart" /\ nextCart <= MaxCarts /\ Execute(c, Asked(nextCart))
                /\ UNCHANGED forced
    BY <1>1, <1>2, <2>0, <2>1, ExecuteTyped
  <2>2. CASE k = "openShift" /\ nextShift <= MaxShifts /\ Execute(c, Asked(nextShift))
                /\ UNCHANGED forced
    BY <1>1, <1>2, <2>0, <2>2, ExecuteTyped
  <2>3. CASE /\ k \notin {"createCart", "openShift"} /\ UNCHANGED forced
             /\ Execute(c, Asked(CASE k = "checkout" -> cart [] k = "closeShift" -> shift
                                   [] OTHER -> 0))
    <3>1. (CASE k = "checkout" -> cart [] k = "closeShift" -> shift [] OTHER -> 0)
            \in CartId \cup Shift \cup {0}
      BY <1>2
    <3> QED
      BY <1>1, <2>0, <2>3, <3>1, ExecuteTyped
  <2>4. CASE k \in ManualSwitch /\ Switch(c, Asked(0)) /\ UNCHANGED reconnect
    BY <1>1, <2>0, <2>4, SwitchTyped DEF ManualSwitch
  <2> QED
    BY <2>1, <2>2, <2>3, <2>4 DEF Issue, Asked
<1> QED
  BY <1>3, <1>4, TypedFromProgress DEF Issue, TInv, TypeOK, stores

LEMMA NextTyped == TInv /\ [Next]_vars => TInv'
<1> SUFFICES ASSUME TInv, [Next]_vars PROVE TInv'
  OBVIOUS
<1>1. CASE IntervalElapses
  BY <1>1 DEF IntervalElapses, TInv, TypeOK, AllGood, client, stores, fresh
<1>2. CASE UNCHANGED vars
  BY <1>2 DEF vars, TInv, TypeOK, AllGood, control, client, stores, fresh
<1> QED
  BY <1>1, <1>2, StepTyped, IssueTyped DEF Next

LEMMA TypedInvariant == Spec => []TInv
BY InitTyped, NextTyped, PTL DEF Spec

\* Type correctness, for every set of callers: every variable keeps its type, and
\* only an execution in the offline context ever ends in OfflineOnly.
THEOREM TypeCorrect == Spec => []TypeOK
<1>1. TInv => TypeOK
  BY DEF TInv
<1> QED
  BY <1>1, TypedInvariant, PTL

-----------------------------------------------------------------------------
(* One caller at a time: what a request in flight knows of the context, from its *)
(* guard to the step that moves the context online.                              *)

Guarded(q) ==
    /\ q.manual => q.stage \in {"shiftOnline", "deleteShift", "shiftOffline", "cartOffline"}
    /\ q.stage = "idle" => (forced => IsOffline)
    /\ q.stage = "cartRead" => IsOffline /\ (q.kind # "switchOnline" => ~forced)
    /\ q.stage = "deviceRead" => ~forced /\ (IsOffline => cart = 0)
    /\ q.stage \in {"online", "onlineFirst", "both"} => ~IsOffline /\ ~forced
    /\ q.stage \in {"methodOnline", "shiftOnline"} => IsOffline /\ cart = 0
    /\ q.stage = "methodOnline" => ~forced
    /\ q.stage = "shiftOnline" => IF q.manual THEN q.kind = "switchOnline" ELSE ~forced
    /\ q.stage = "deleteShift" => ~IsOffline /\ (forced => q.manual)
    /\ q.stage \in {"offline", "methodOffline"} => IsOffline
    /\ q.stage \in {"shiftOffline", "cartOffline"} =>
            IF q.manual THEN ~IsOffline /\ ~forced ELSE IsOffline

OneInv == TInv /\ \A c \in Callers : Guarded(call[c])

LEMMA Settled ==
    ASSUME TInv, NEW c \in Callers, NEW q, Settle(c, q), Guarded(q)'
    PROVE  Guarded(call[c])'
BY DEF Settle, TInv, TypeOK

\* A call that has returned or thrown.
LEMMA Ended ==
    ASSUME TInv, NEW c \in Callers, call' = [call EXCEPT ![c] = Idle],
           forced' => IsOffline'
    PROVE  Guarded(call[c])'
BY DEF TInv, TypeOK, Guarded, Idle

LEMMA EnteredFields ==
    ASSUME TInv, NEW c \in Callers, NEW q \in Call, NEW x, NEW s \in Stage, NEW t \in State,
           Enter(c, q, x, s, t)
    PROVE  /\ state' = x /\ UNCHANGED client
           /\ call'[c].stage = s /\ call'[c].kind = q.kind /\ call'[c].manual = q.manual
BY DEF Enter, Settle, TInv, TypeOK, Call

LEMMA TransferFields ==
    ASSUME TInv, NEW c \in Callers, NEW q \in Call, NEW m \in BOOLEAN
    PROVE  /\ Settle(c, ToOfflineShift(q, m)) =>
                /\ UNCHANGED client /\ call'[c].stage = "shiftOffline"
                /\ call'[c].kind = q.kind /\ call'[c].manual = m
           /\ Settle(c, ToOnlineShift(q, m)) =>
                /\ UNCHANGED client /\ call'[c].stage = "shiftOnline"
                /\ call'[c].kind = q.kind /\ call'[c].manual = m
<1>1. ASSUME NEW r, Settle(c, r)
      PROVE  call'[c] = r /\ UNCHANGED client
  BY <1>1 DEF Settle, TInv, TypeOK
<1>2. /\ ToOfflineShift(q, m).stage = "shiftOffline" /\ ToOfflineShift(q, m).kind = q.kind
      /\ ToOfflineShift(q, m).manual = m
  BY DEF ToOfflineShift, Call
<1>3. /\ ToOnlineShift(q, m).stage = "shiftOnline" /\ ToOnlineShift(q, m).kind = q.kind
      /\ ToOnlineShift(q, m).manual = m
  BY DEF ToOnlineShift, Call
<1> QED
  BY <1>1, <1>2, <1>3

\* Going on offline: the transfers have begun, or the request is executed there.
LEMMA RequestOfflineGuarded ==
    ASSUME TInv, NEW c \in Callers, NEW q \in Call, ~q.manual, RequestOffline(c, q),
           UNCHANGED forced, forced => IsOffline
    PROVE  Guarded(call[c])'
<1>1. CASE Throw(c, q, state)
  BY <1>1, Ended DEF Throw, IsOffline
<1>2. CASE IsOffline /\ Enter(c, q, state, "offline", "OfflineOnly")
  BY <1>2, EnteredFields, StageNames DEF Guarded, OfflineStage, State, IsOffline
<1>3. CASE Enter(c, q, "OfflineOnly", "methodOffline", "OfflineOnly")
  BY <1>3, EnteredFields, StageNames DEF Guarded, OfflineStage, State, IsOffline
<1>4. CASE state' = "OfflineOnly" /\ Settle(c, ToOfflineShift(q, FALSE))
  BY <1>4, TransferFields DEF Guarded, IsOffline
<1> QED
  BY <1>1, <1>2, <1>3, <1>4 DEF RequestOffline

\* The step of the only caller.
LEMMA StepGuarded ==
    ASSUME OneInv, NEW c \in Callers, Step(c)
    PROVE  Guarded(call[c])'
<1> USE DEF OneInv
<1>0. /\ Guarded(call[c]) /\ call[c] \in Call /\ TInv
      /\ call[c].stage \in {"online", "onlineFirst", "both"} => call[c].target # "OfflineOnly"
  BY DEF TInv, TypeOK, OnlineStage, OfflineStage
<1>s. /\ {"deviceRead", "both", "online", "onlineFirst", "methodOnline", "deleteShift",
          "methodOffline", "cartOffline"} \subseteq Stage
      /\ {"Dual", "OfflineOnly"} \subseteq State /\ call[c].target \in State /\ state \in State
  BY <1>0, StageNames DEF OnlineStage, OfflineStage, State, Call, TInv, TypeOK
<1>1. CASE CartRead(c)
  <2>1. CASE Throw(c, call[c], state)
    BY <1>0, <1>1, <2>1, Ended DEF CartRead, Guarded, Throw, IsOffline
  <2>2. CASE /\ cart = 0 /\ call[c].kind = "switchOnline"
             /\ state' = state /\ Settle(c, ToOnlineShift(call[c], TRUE))
    BY <1>0, <1>1, <2>2, TransferFields DEF CartRead, Guarded, IsOffline, client
  <2>3. CASE call[c].kind # "switchOnline" /\ RequestOffline(c, call[c])
    BY <1>0, <1>1, <2>3, RequestOfflineGuarded DEF CartRead, Guarded
  <2>4. CASE /\ cart = 0 /\ call[c].kind # "switchOnline"
             /\ Enter(c, call[c], state, "deviceRead", call[c].target)
    <3>1. /\ UNCHANGED <<state, cart, forced>> /\ ~forced /\ ~call[c].manual
          /\ call'[c].stage = "deviceRead" /\ call'[c].manual = call[c].manual
      BY <1>0, <1>s, <1>1, <2>4, EnteredFields DEF CartRead, Guarded, client
    <3> QED
      BY <2>4, <3>1 DEF Guarded, IsOffline
  <2> QED
    BY <1>1, <2>1, <2>2, <2>3, <2>4 DEF CartRead
<1>2. CASE DeviceRead(c)
  <2>0. ~forced /\ ~forced' /\ ~call[c].manual /\ (IsOffline => cart = 0)
    BY <1>0, <1>2 DEF DeviceRead, Guarded, control
  <2>1. CASE \E s \in {"both", "online", "onlineFirst"}, t \in State :
                ~IsOffline /\ Enter(c, call[c], state, s, t)
    <3>1. PICK s \in {"both", "online", "onlineFirst"}, t \in State :
                ~IsOffline /\ Enter(c, call[c], state, s, t)
      BY <2>1
    <3>2. /\ UNCHANGED state /\ call'[c].stage = s /\ call'[c].manual = call[c].manual
      BY <1>0, <1>s, <3>1, EnteredFields
    <3> QED
      BY <2>0, <3>1, <3>2 DEF Guarded, IsOffline
  <2>2. CASE IsOffline /\ Enter(c, call[c], state, "methodOnline", "Dual")
    <3>1. /\ UNCHANGED <<state, cart>> /\ call'[c].stage = "methodOnline"
          /\ call'[c].manual = call[c].manual
      BY <1>0, <1>s, <2>2, EnteredFields DEF client
    <3> QED
      BY <2>0, <2>2, <3>1 DEF Guarded, IsOffline
  <2>3. CASE IsOffline /\ state' = state /\ Settle(c, ToOnlineShift(call[c], FALSE))
    BY <1>0, <2>0, <2>3, TransferFields DEF Guarded, IsOffline, client
  <2>4. state = "Dual" => ~IsOffline
    BY DEF IsOffline
  <2> QED
    BY <1>2, <1>s, <2>1, <2>2, <2>3, <2>4 DEF DeviceRead
<1>3. CASE BothSettled(c)
  <2>0. ~forced /\ ~IsOffline /\ ~call[c].manual
    BY <1>0, <1>3 DEF BothSettled, Guarded
  <2>1. CASE Return(c, call[c].target) /\ UNCHANGED forced
    BY <1>0, <2>0, <2>1, Ended DEF Return
  <2>2. CASE Return(c, "OnlineOnly") /\ UNCHANGED forced
    BY <1>0, <2>0, <2>2, Ended DEF Return
  <2>3. CASE state' = state /\ Settle(c, ToOfflineShift(call[c], TRUE)) /\ UNCHANGED forced
    BY <1>0, <2>0, <2>3, TransferFields DEF Guarded, IsOffline
  <2>4. CASE Throw(c, call[c], state) /\ UNCHANGED forced
    BY <1>0, <2>0, <2>4, Ended DEF Throw
  <2> QED
    BY <1>3, <2>0, <2>1, <2>2, <2>3, <2>4 DEF BothSettled
<1>4. CASE OnlineAnswered(c)
  <2>0. ~forced /\ UNCHANGED forced /\ ~call[c].manual
    BY <1>0, <1>4 DEF OnlineAnswered, Guarded, control
  <2>1. CASE Return(c, call[c].target)
    BY <1>0, <2>0, <2>1, Ended DEF Return
  <2>2. CASE /\ call[c].stage = "methodOnline"
             /\ state' = state /\ Settle(c, ToOnlineShift(call[c], FALSE))
    BY <1>0, <2>0, <2>2, TransferFields DEF Guarded, IsOffline, client
  <2>3. CASE ToDual(c, call[c])
    BY <1>0, <1>s, <2>0, <2>3, EnteredFields DEF Guarded, IsOffline, ToDual
  <2> QED
    BY <1>4, <2>1, <2>2, <2>3 DEF OnlineAnswered
<1>5. CASE OnlineShiftStored(c)
  <2>0. IsOffline /\ cart = 0 /\ UNCHANGED forced /\ (~call[c].manual => ~forced)
    BY <1>0, <1>5 DEF OnlineShiftStored, Guarded, control
  <2>1. CASE ToDual(c, call[c])
    BY <1>0, <1>s, <2>0, <2>1, EnteredFields DEF Guarded, IsOffline, ToDual
  <2>2. CASE ~call[c].manual /\ Enter(c, call[c], state, "methodOnline", "Dual")
    <3>1. /\ UNCHANGED <<state, cart>> /\ call'[c].stage = "methodOnline"
          /\ call'[c].manual = call[c].manual
      BY <1>0, <1>s, <2>2, EnteredFields DEF client
    <3> QED
      BY <2>0, <2>2, <3>1 DEF Guarded, IsOffline
  <2> QED
    BY <1>5, <2>1, <2>2 DEF OnlineShiftStored
<1>6. CASE OnlineRefused(c)
  <2>1. (forced => IsOffline) /\ UNCHANGED <<forced, state>>
    BY <1>0, <1>6 DEF OnlineRefused, AwaitsOnline, OnlineStage, Guarded, control, Throw
  <2> QED
    BY <1>0, <1>6, <2>1, Ended DEF OnlineRefused, Throw, IsOffline
<1>7. CASE OnlineUnreachable(c)
  <2>1. (forced => IsOffline) /\ UNCHANGED forced
    BY <1>0, <1>7 DEF OnlineUnreachable, AwaitsOnline, OnlineStage, Guarded, control
  <2>2. CASE Throw(c, call[c], state)
    BY <1>0, <2>1, <2>2, Ended DEF Throw, IsOffline
  <2>3. CASE ~call[c].manual /\ RequestOffline(c, call[c])
    BY <1>0, <2>1, <2>3, RequestOfflineGuarded
  <2> QED
    BY <1>7, <2>2, <2>3 DEF OnlineUnreachable
<1>8. CASE OfflineShiftDeleted(c)
  <2>1. forced' = FALSE
    BY <1>0, <1>8 DEF OfflineShiftDeleted, Guarded
  <2> QED
    BY <1>0, <1>8, <2>1, Ended DEF OfflineShiftDeleted, Return
<1>9. CASE OfflineAnswered(c)
  <2>0. IsOffline /\ UNCHANGED forced /\ call[c].target = "OfflineOnly" /\ ~call[c].manual
    BY <1>0, <1>9 DEF OfflineAnswered, Guarded, control, TInv, TypeOK, OfflineStage
  <2>1. CASE Return(c, call[c].target) \/ Return(c, state)
    BY <1>0, <2>0, <2>1, Ended DEF Return, IsOffline
  <2>2. CASE state' = state /\ Settle(c, ToOfflineShift(call[c], FALSE))
    BY <1>0, <2>0, <2>2, TransferFields DEF Guarded, IsOffline
  <2> QED
    BY <1>9, <2>1, <2>2 DEF OfflineAnswered
<1>10. CASE OfflineShiftStored(c)
  <2>1. /\ UNCHANGED <<state, forced>> /\ call'[c].stage = "cartOffline"
        /\ call'[c].manual = call[c].manual /\ call[c].stage = "shiftOffline"
    BY <1>0, <1>10 DEF OfflineShiftStored, Enter, Settle, control, TInv, TypeOK, Call
  <2> QED
    BY <1>0, <2>1 DEF Guarded, IsOffline
<1>11. CASE OfflineCartStored(c)
  <2>0. forced' = (forced \/ call[c].manual) /\ (~call[c].manual => IsOffline)
    BY <1>0, <1>11 DEF OfflineCartStored, Guarded
  <2>1. CASE Return(c, "OfflineOnly") \/ (~call[c].manual /\ Return(c, state))
    BY <1>0, <2>0, <2>1, Ended DEF Return, IsOffline
  <2>2. CASE ~call[c].manual /\ Enter(c, call[c], state, "methodOffline", call[c].target)
    <3>1. /\ UNCHANGED state /\ call'[c].stage = "methodOffline"
          /\ call'[c].manual = call[c].manual
      BY <1>0, <1>s, <2>2, EnteredFields
    <3> QED
      BY <2>0, <2>2, <3>1 DEF Guarded, IsOffline
  <2> QED
    BY <1>11, <2>1, <2>2 DEF OfflineCartStored
<1>12. CASE OfflineFailed(c)
  <2>1. (forced => IsOffline) /\ UNCHANGED <<forced, state>>
    BY <1>0, <1>12 DEF OfflineFailed, Guarded, control, Throw
  <2> QED
    BY <1>0, <1>12, <2>1, Ended DEF OfflineFailed, Throw, IsOffline
<1> QED
  BY <1>1, <1>2, <1>3, <1>4, <1>5, <1>6, <1>7, <1>8, <1>9, <1>10, <1>11, <1>12 DEF Step

\* The only caller states a request, or switches the context itself.
LEMMA IssueGuarded ==
    ASSUME OneInv, NEW c \in Callers, NEW k \in Kind, Issue(c, k)
    PROVE  Guarded(call[c])'
<1> USE DEF OneInv
<1>0. (forced => IsOffline) /\ call[c].stage = "idle" /\ ~call[c].manual
  BY DEF Issue, Guarded
<1>s. {"deviceRead", "cartRead"} \subseteq Stage /\ state \in State
  BY StageNames DEF TInv, TypeOK
<1>1. ASSUME NEW i \in CartId \cup Shift \cup {0}, NEW q, UNCHANGED forced,
             q = [Idle EXCEPT !.kind = k, !.id = i],
             Execute(c, q), k \notin ManualSwitch
      PROVE  Guarded(call[c])'
  <2>1. q \in Call /\ ~q.manual /\ q.kind = k /\ q.target \in State
    BY <1>1, <1>s, IdleIsGood DEF Good, Idle, Call
  <2>2. CASE ~IsOffline /\ Enter(c, q, state, "deviceRead", q.target)
    <3>1. /\ UNCHANGED state /\ call'[c].stage = "deviceRead" /\ ~call'[c].manual
      BY <1>s, <2>1, <2>2, EnteredFields
    <3> QED
      BY <1>0, <1>1, <2>2, <3>1 DEF Guarded, IsOffline
  <2>3. CASE IsOffline /\ ~forced /\ Enter(c, q, state, "cartRead", q.target)
    <3>1. /\ UNCHANGED state /\ call'[c].stage = "cartRead" /\ ~call'[c].manual
      BY <1>s, <2>1, <2>3, EnteredFields
    <3> QED
      BY <1>0, <1>1, <2>3, <3>1 DEF Guarded, IsOffline
  <2>4. CASE RequestOffline(c, q)
    BY <1>0, <1>1, <2>1, <2>4, RequestOfflineGuarded
  <2> QED
    BY <1>1, <2>2, <2>3, <2>4 DEF Execute
<1>2. ASSUME NEW q, q = [Idle EXCEPT !.kind = k, !.id = 0], Switch(c, q)
      PROVE  Guarded(call[c])'
  <2>1. q \in Call /\ ~q.manual /\ q.kind = k /\ q.target \in State
    BY <1>2, <1>s, IdleIsGood DEF Good, Idle, Call
  <2>2. CASE /\ k = "switchOnline" /\ IsOffline /\ UNCHANGED forced
             /\ Enter(c, q, state, "cartRead", q.target)
    <3>1. /\ UNCHANGED state /\ call'[c].stage = "cartRead" /\ ~call'[c].manual
          /\ call'[c].kind = "switchOnline"
      BY <1>s, <2>1, <2>2, EnteredFields
    <3> QED
      BY <2>2, <3>1 DEF Guarded, IsOffline
  <2>3. CASE /\ ~IsOffline /\ UNCHANGED forced
             /\ state' = state /\ Settle(c, ToOfflineShift(q, TRUE))
    BY <1>0, <2>1, <2>3, TransferFields DEF Guarded, IsOffline
  <2>4. CASE /\ (k = "switchOnline") <=> ~IsOffline
             /\ forced' = (k = "switchOffline") /\ UNCHANGED <<state, call>>
    BY <1>0, <2>4 DEF Guarded, IsOffline
  <2> QED
    BY <1>2, <2>1, <2>2, <2>3, <2>4 DEF Switch
<1>3. CASE k \in ManualSwitch
  BY <1>2, <1>3 DEF Issue, ManualSwitch
<1>4. CASE k \notin ManualSwitch
  <2>1. /\ nextCart <= MaxCarts => nextCart \in CartId
        /\ nextShift <= MaxShifts => nextShift \in Shift
        /\ cart \in CartId \cup {0} /\ shift \in Shift \cup {0}
    BY DEF TInv, TypeOK, CartId, Shift
  <2>2. PICK i \in CartId \cup Shift \cup {0} :
            Execute(c, [Idle EXCEPT !.kind = k, !.id = i]) /\ UNCHANGED forced
    <3>1. (CASE k = "checkout" -> cart [] k = "closeShift" -> shift [] OTHER -> 0)
            \in CartId \cup Shift \cup {0}
      BY <2>1
    <3> QED
      BY <1>4, <2>1, <3>1 DEF Issue
  <2> QED
    BY <1>1, <1>4, <2>2
<1> QED
  BY <1>3, <1>4

LEMMA OneStep ==
    ASSUME NEW c, Callers = {c}
    PROVE  OneInv /\ [Next]_vars => OneInv'
<1> SUFFICES ASSUME OneInv, [Next]_vars PROVE OneInv'
  OBVIOUS
<1>1. TInv'
  BY NextTyped DEF OneInv
<1>2. CASE IntervalElapses \/ UNCHANGED vars
  BY <1>1, <1>2 DEF IntervalElapses, vars, control, client, OneInv, Guarded, IsOffline
<1>3. CASE \E d \in Callers : Step(d) \/ \E k \in Kind : Issue(d, k)
  BY <1>1, <1>3, StepGuarded, IssueGuarded DEF OneInv
<1> QED
  BY <1>2, <1>3 DEF Next

LEMMA OneInvariant ==
    ASSUME NEW c, Callers = {c}
    PROVE  Spec => []OneInv
<1>1. Init => OneInv
  BY InitTyped DEF Init, OneInv, Guarded, Idle
<1> QED
  BY <1>1, OneStep, PTL DEF Spec

\* Only the deletion stage's entry and an answer of Retail Server leave OfflineOnly.
LEMMA LeavesOffline ==
    ASSUME OneInv, [Next]_vars, IsOffline, state' # "OfflineOnly"
    PROVE  \E c \in Callers : call[c].stage \in {"methodOnline", "shiftOnline"}
<1> USE DEF OneInv, TInv, TypeOK, IsOffline
<1>1. ASSUME NEW c \in Callers, Step(c)
      PROVE  call[c].stage \in {"methodOnline", "shiftOnline"}
  <2>0. Guarded(call[c])
    OBVIOUS
  <2>1. CASE CartRead(c)
    BY <2>1 DEF CartRead, Throw, Enter, RequestOffline
  <2>2. CASE DeviceRead(c)
    BY <2>2 DEF DeviceRead, Enter
  <2>3. CASE BothSettled(c)
    BY <2>0, <2>3 DEF BothSettled, Guarded
  <2>4. CASE OnlineAnswered(c)
    BY <2>0, <2>4 DEF OnlineAnswered, Guarded
  <2>5. CASE OnlineShiftStored(c)
    BY <2>5 DEF OnlineShiftStored
  <2>6. CASE OnlineRefused(c) \/ OfflineFailed(c)
    BY <2>6 DEF OnlineRefused, OfflineFailed, Throw
  <2>7. CASE OnlineUnreachable(c)
    BY <2>7 DEF OnlineUnreachable, Throw, RequestOffline, Enter
  <2>8. CASE OfflineShiftDeleted(c)
    BY <2>8 DEF OfflineShiftDeleted, Return
  <2>9. CASE OfflineAnswered(c)
    <3>1. call[c].stage = "offline" => call[c].target = "OfflineOnly"
      BY DEF OfflineStage
    <3> QED
      BY <2>9, <3>1 DEF OfflineAnswered, Return
  <2>10. CASE OfflineShiftStored(c)
    BY <2>10 DEF OfflineShiftStored, Enter
  <2>11. CASE OfflineCartStored(c)
    BY <2>11 DEF OfflineCartStored, Return, Enter
  <2> QED
    BY <1>1, <2>1, <2>2, <2>3, <2>4, <2>5, <2>6, <2>7, <2>8, <2>9, <2>10, <2>11 DEF Step
<1>2. ASSUME NEW c \in Callers, NEW k \in Kind, Issue(c, k)
      PROVE  FALSE
  BY <1>2 DEF Issue, Execute, Switch, Enter, RequestOffline, Throw
<1>3. ~IntervalElapses /\ ~UNCHANGED vars
  BY DEF IntervalElapses, vars
<1> QED
  BY <1>1, <1>2, <1>3 DEF Next

\* One caller at a time: a context forced offline is only brought online by a manual
\* switch, through every reconnection, failure and fallback.
THEOREM ForcedSticks ==
    ASSUME NEW u, Callers = {u}
    PROVE  Spec => ForcedStaysOffline
<1>1. ASSUME OneInv, [Next]_vars, forced, IsOffline, state' # "OfflineOnly"
      PROVE  \E c \in Callers : call[c].kind = "switchOnline" /\ call[c].stage # "idle"
  BY <1>1, LeavesOffline DEF OneInv, Guarded
<1>2. OneInv /\ [Next]_vars
        => [ forced /\ IsOffline /\ state' # "OfflineOnly"
             => \E c \in Callers : call[c].kind = "switchOnline" /\ call[c].stage # "idle" ]_vars
  BY <1>1
<1>3. Spec => []OneInv
  BY OneInvariant
<1> QED
  BY <1>2, <1>3, PTL DEF Spec, ForcedStaysOffline

\* One caller at a time: no switch to online leaves an unfinished cart in the offline
\* store, although the cart is only looked at before the transfer is awaited.
THEOREM CartStaysWithContext ==
    ASSUME NEW u, Callers = {u}
    PROVE  Spec => OnlineWithoutCart
<1>1. ASSUME OneInv, [Next]_vars, IsOffline, state' # "OfflineOnly"
      PROVE  cart \notin carts["offline"]
  <2>1. cart = 0
    BY <1>1, LeavesOffline DEF OneInv, Guarded
  <2>2. 0 \notin carts["offline"]
    BY <1>1 DEF OneInv, TInv, TypeOK, Store, CartId
  <2> QED
    BY <2>1, <2>2
<1>2. OneInv /\ [Next]_vars
        => [ IsOffline /\ state' # "OfflineOnly" => cart \notin carts["offline"] ]_vars
  BY <1>1
<1>3. Spec => []OneInv
  BY OneInvariant
<1> QED
  BY <1>2, <1>3, PTL DEF Spec, OnlineWithoutCart

-----------------------------------------------------------------------------
(* The session's shift, with one caller at a time. *)

\* The shifts Retail Server has seen: they only grow.
SeenOnline == openShifts["online"] \cup closedShifts

\* Where the session's shift is at each stage of a request: the online copy exists before
\* the offline one is deleted, also if the request itself was executed in between.
Carried(q) ==
    /\ q.stage = "shiftOnline" => q.moved = shift
    /\ q.stage = "methodOnline" /\ q.kind \notin BothPattern => shift \in SeenOnline \cup {0}
    /\ q.stage = "deleteShift" => shift \in SeenOnline \cup {0}
    /\ q.stage = "deleteShift" /\ q.kind = "openShift" => q.id \in SeenOnline
    /\ q.stage = "both" => q.kind \in BothPattern
    /\ q.manual => q.kind \in BothPattern \cup ManualSwitch

CarriedInv == ShiftKnown /\ \A c \in Callers : Carried(call[c])

Known == SeenOnline \cup openShifts["offline"]

\* A store forgets no shift and knows the one it opens.
LEMMA ServeSeen ==
    ASSUME TInv, NEW s \in Store, NEW q, Serve(s, q)
    PROVE  /\ SeenOnline \subseteq SeenOnline' /\ Known \subseteq Known'
           /\ q.kind = "openShift" => q.id \in Known' /\ (s = "online" => q.id \in SeenOnline')
<1>0. openShifts \in [Store -> SUBSET Shift] /\ s \in {"online", "offline"}
  BY DEF TInv, TypeOK, Store
<1>1. CASE q.kind = "openShift"
  BY <1>0, <1>1 DEF Serve, SeenOnline, Known, Store
<1>2. CASE q.kind = "closeShift"
  BY <1>0, <1>2 DEF Serve, SeenOnline, Known, Store
<1>3. CASE q.kind \notin {"openShift", "closeShift"}
  BY <1>3 DEF Serve, SeenOnline, Known, stores
<1> QED
  BY <1>1, <1>2, <1>3

\* The end of a request.
LEMMA EndCarried ==
    ASSUME TInv, NEW c \in Callers, call' = [call EXCEPT ![c] = Idle]
    PROVE  Carried(call[c])'
<1>1. call'[c] = Idle
  BY DEF TInv, TypeOK
<1> QED
  BY <1>1 DEF Carried, Idle

LEMMA ReturnCarried ==
    ASSUME TInv, NEW c \in Callers, NEW s, Return(c, s), ShiftKnown, Known \subseteq Known',
           call[c].kind = "openShift" => call[c].id \in Known'
    PROVE  Carried(call[c])' /\ ShiftKnown'
<1>1. shift' \in {0, shift} \/ (call[c].kind = "openShift" /\ shift' = call[c].id)
  BY DEF Return, Cache
<1>2. ShiftKnown'
  BY <1>1 DEF ShiftKnown, Known, SeenOnline
<1> QED
  BY <1>2, EndCarried DEF Return

\* The session's shift stays as it is.
LEMMA KnownKept ==
    ASSUME ShiftKnown, Known \subseteq Known', shift' = shift
    PROVE  ShiftKnown'
BY DEF ShiftKnown, Known, SeenOnline

LEMMA EnterCarried ==
    ASSUME TInv, NEW c \in Callers, NEW q \in Call, NEW x, NEW s \in Stage, NEW t \in State,
           Enter(c, q, x, s, t), q.manual => q.kind \in BothPattern \cup ManualSwitch,
           SeenOnline \subseteq SeenOnline', s # "shiftOnline",
           s = "both" => q.kind \in BothPattern,
           s = "methodOnline" /\ q.kind \notin BothPattern => shift \in SeenOnline' \cup {0},
           s = "deleteShift" => /\ shift \in SeenOnline' \cup {0}
                                /\ q.kind = "openShift" => q.id \in SeenOnline'
    PROVE  Carried(call[c])' /\ shift' = shift
<1>1. /\ call'[c].stage = s /\ call'[c].kind = q.kind /\ call'[c].manual = q.manual
      /\ call'[c].id = q.id /\ shift' = shift
  BY DEF Enter, Settle, TInv, TypeOK, Call, client
<1> QED
  BY <1>1 DEF Carried

LEMMA TransferCarried ==
    ASSUME TInv, NEW c \in Callers, NEW q \in Call, NEW m \in BOOLEAN,
           m => q.kind \in BothPattern \cup ManualSwitch,
           Settle(c, ToOfflineShift(q, m)) \/ Settle(c, ToOnlineShift(q, m))
    PROVE  Carried(call[c])' /\ shift' = shift
<1>1. ASSUME NEW r, Settle(c, r)
      PROVE  call'[c] = r /\ shift' = shift
  BY <1>1 DEF Settle, TInv, TypeOK, client
<1>2. /\ ToOfflineShift(q, m).stage = "shiftOffline" /\ ToOfflineShift(q, m).kind = q.kind
      /\ ToOfflineShift(q, m).manual = m /\ ToOfflineShift(q, m).moved = shift
  BY DEF ToOfflineShift, Call
<1>3. /\ ToOnlineShift(q, m).stage = "shiftOnline" /\ ToOnlineShift(q, m).kind = q.kind
      /\ ToOnlineShift(q, m).manual = m /\ ToOnlineShift(q, m).moved = shift
  BY DEF ToOnlineShift, Call
<1>4. /\ call'[c].stage \in {"shiftOffline", "shiftOnline"} /\ call'[c].moved = shift
      /\ call'[c].kind = q.kind /\ call'[c].manual = m /\ shift' = shift
  BY <1>1, <1>2, <1>3
<1> QED
  BY <1>4 DEF Carried

LEMMA RequestOfflineCarried ==
    ASSUME TInv, NEW c \in Callers, NEW q \in Call, RequestOffline(c, q),
           q.manual => q.kind \in BothPattern \cup ManualSwitch, SeenOnline \subseteq SeenOnline'
    PROVE  Carried(call[c])' /\ shift' = shift
<1>1. /\ {"offline", "methodOffline"} \subseteq Stage /\ "OfflineOnly" \in State
      /\ FALSE \in BOOLEAN
  BY StageNames DEF OfflineStage, State
<1>2. CASE Throw(c, q, state)
  BY <1>2, EndCarried DEF Throw, client
<1>3. CASE Enter(c, q, state, "offline", "OfflineOnly")
  BY <1>1, <1>3, EnterCarried
<1>4. CASE Enter(c, q, "OfflineOnly", "methodOffline", "OfflineOnly")
  BY <1>1, <1>4, EnterCarried
<1>5. CASE Settle(c, ToOfflineShift(q, FALSE))
  BY <1>1, <1>5, TransferCarried
<1> QED
  BY <1>2, <1>3, <1>4, <1>5 DEF RequestOffline

LEMMA StepCarried ==
    ASSUME TInv, ShiftKnown, NEW c \in Callers, Callers = {c}, Carried(call[c]), Step(c)
    PROVE  Carried(call[c])' /\ ShiftKnown'
<1>0. /\ call[c] \in Call /\ Good(call[c])
      /\ call[c].manual => call[c].kind \in BothPattern \cup ManualSwitch
      /\ openShifts \in [Store -> SUBSET Shift] /\ "online" \in Store /\ "offline" \in Store
  BY DEF TInv, TypeOK, AllGood, Carried, Store
<1>s. /\ {"deviceRead", "both", "online", "onlineFirst", "methodOnline", "deleteShift",
          "methodOffline", "cartOffline"} \subseteq Stage
      /\ {"Dual", "OfflineOnly"} \subseteq State /\ call[c].target \in State /\ state \in State
      /\ TRUE \in BOOLEAN /\ FALSE \in BOOLEAN
      /\ "switchOnline" \in ManualSwitch /\ "switchOffline" \in ManualSwitch
      /\ BothPattern \cap Seamless = {}
  BY <1>0, StageNames DEF OnlineStage, OfflineStage, State, Call, TInv, TypeOK, ManualSwitch,
     BothPattern, Seamless
<1>k. "openShift" \notin BothPattern \cup ManualSwitch
  BY DEF BothPattern, ManualSwitch
<1>u. UNCHANGED stores => SeenOnline' = SeenOnline /\ Known' = Known
  BY DEF stores, SeenOnline, Known
<1>1. CASE CartRead(c)
  <2>1. Carried(call[c])' /\ shift' = shift
    <3>1. CASE Throw(c, call[c], state)
      BY <1>0, <3>1, EndCarried DEF Throw, client
    <3>2. CASE call[c].kind = "switchOnline" /\ Settle(c, ToOnlineShift(call[c], TRUE))
      BY <1>0, <1>s, <3>2, TransferCarried
    <3>3. CASE RequestOffline(c, call[c])
      BY <1>0, <1>1, <1>u, <3>3, RequestOfflineCarried DEF CartRead
    <3>4. CASE Enter(c, call[c], state, "deviceRead", call[c].target)
      BY <1>0, <1>1, <1>s, <1>u, <3>4, EnterCarried DEF CartRead
    <3> QED
      BY <1>1, <3>1, <3>2, <3>3, <3>4 DEF CartRead
  <2> QED
    BY <1>1, <1>u, <2>1, KnownKept DEF CartRead
<1>2. CASE DeviceRead(c)
  <2>1. UNCHANGED stores
    BY <1>2 DEF DeviceRead
  <2>2. Carried(call[c])' /\ shift' = shift
    <3>1. CASE call[c].kind \in BothPattern /\ Enter(c, call[c], state, "both", "Dual")
      BY <1>0, <1>s, <1>u, <2>1, <3>1, EnterCarried
    <3>2. CASE Enter(c, call[c], state, "onlineFirst", "Dual")
      BY <1>0, <1>s, <1>u, <2>1, <3>2, EnterCarried
    <3>3. CASE Enter(c, call[c], state, "online", state)
      BY <1>0, <1>s, <1>u, <2>1, <3>3, EnterCarried
    <3>4. CASE call[c].kind \in BothPattern /\ Enter(c, call[c], state, "methodOnline", "Dual")
      BY <1>0, <1>s, <1>u, <2>1, <3>4, EnterCarried
    <3>5. CASE Settle(c, ToOnlineShift(call[c], FALSE))
      BY <1>0, <1>s, <3>5, TransferCarried
    <3> QED
      BY <1>2, <3>1, <3>2, <3>3, <3>4, <3>5 DEF DeviceRead
  <2> QED
    BY <1>u, <2>1, <2>2, KnownKept
<1>3. CASE BothSettled(c)
  <2>1. UNCHANGED stores /\ call[c].kind \in BothPattern
    BY <1>3 DEF BothSettled, Carried
  <2>2. ASSUME NEW s, Return(c, s) PROVE Carried(call[c])' /\ ShiftKnown'
    BY <1>k, <1>u, <2>1, <2>2, ReturnCarried
  <2>3. CASE Throw(c, call[c], state)
    BY <1>u, <2>1, <2>3, EndCarried, KnownKept DEF Throw, client
  <2>4. CASE Settle(c, ToOfflineShift(call[c], TRUE))
    BY <1>0, <1>s, <1>u, <2>1, <2>4, TransferCarried, KnownKept
  <2> QED
    BY <1>3, <2>2, <2>3, <2>4 DEF BothSettled
<1>4. CASE OnlineAnswered(c)
  <2>1. /\ SeenOnline \subseteq SeenOnline' /\ Known \subseteq Known'
        /\ call[c].kind = "openShift" => call[c].id \in Known' /\ call[c].id \in SeenOnline'
    BY <1>0, <1>4, ServeSeen DEF OnlineAnswered
  <2>2. CASE Return(c, call[c].target)
    BY <2>1, <2>2, ReturnCarried
  <2>3. CASE Settle(c, ToOnlineShift(call[c], FALSE))
    BY <1>0, <1>s, <2>1, <2>3, TransferCarried, KnownKept
  <2>4. CASE /\ call[c].stage = "methodOnline" /\ call[c].kind \notin BothPattern
             /\ ToDual(c, call[c])
    <3>1. shift \in SeenOnline' \cup {0}
      BY <2>1, <2>4 DEF Carried
    <3> QED
      BY <1>0, <1>s, <2>1, <2>4, <3>1, EnterCarried, KnownKept DEF ToDual
  <2> QED
    BY <1>4, <2>2, <2>3, <2>4 DEF OnlineAnswered
<1>5. CASE OnlineShiftStored(c)
  <2>1. call[c].stage = "shiftOnline" /\ call[c].moved = shift
    BY <1>5 DEF OnlineShiftStored, Carried
  <2>2. /\ SeenOnline \subseteq SeenOnline' /\ Known \subseteq Known'
        /\ shift \in SeenOnline' \cup {0}
    BY <1>0, <1>5, <2>1 DEF OnlineShiftStored, SeenOnline, Known, Store
  <2>3. CASE call[c].kind # "openShift" /\ ToDual(c, call[c])
    BY <1>0, <1>s, <2>2, <2>3, EnterCarried, KnownKept DEF ToDual
  <2>4. CASE Enter(c, call[c], state, "methodOnline", "Dual")
    BY <1>0, <1>s, <2>2, <2>4, EnterCarried, KnownKept
  <2> QED
    BY <1>0, <1>5, <1>k, <2>3, <2>4 DEF OnlineShiftStored
<1>6. CASE OnlineRefused(c) \/ OfflineFailed(c)
  BY <1>6, <1>u, EndCarried, KnownKept DEF OnlineRefused, OfflineFailed, Throw, client
<1>7. CASE OnlineUnreachable(c)
  <2>1. SeenOnline \subseteq SeenOnline' /\ Known \subseteq Known'
    <3>1. CASE UNCHANGED stores
      BY <1>u, <3>1
    <3>2. CASE Serve("online", call[c])
      BY <1>0, <3>2, ServeSeen
    <3>3. CASE openShifts' = [openShifts EXCEPT !["online"] = @ \cup {call[c].moved}]
               /\ UNCHANGED <<closedShifts, carts>>
      BY <1>0, <3>3 DEF SeenOnline, Known, Store
    <3> QED
      BY <1>7, <3>1, <3>2, <3>3 DEF OnlineUnreachable
  <2>2. CASE Throw(c, call[c], state)
    BY <2>1, <2>2, EndCarried, KnownKept DEF Throw, client
  <2>3. CASE RequestOffline(c, call[c])
    BY <1>0, <2>1, <2>3, RequestOfflineCarried, KnownKept
  <2> QED
    BY <1>7, <2>2, <2>3 DEF OnlineUnreachable
<1>8. CASE OfflineShiftDeleted(c)
  <2>1. /\ call[c].stage = "deleteShift" /\ Return(c, state)
        /\ openShifts' = [openShifts EXCEPT !["offline"] = @ \ {shift}] \/ UNCHANGED openShifts
        /\ UNCHANGED closedShifts
    BY <1>8 DEF OfflineShiftDeleted
  <2>2. /\ SeenOnline' = SeenOnline /\ shift \in SeenOnline \cup {0}
        /\ call[c].kind = "openShift" => call[c].id \in SeenOnline
    BY <1>0, <2>1 DEF SeenOnline, Store, Carried
  <2>3. shift' \in {0, shift} \/ (call[c].kind = "openShift" /\ shift' = call[c].id)
    BY <2>1 DEF Return, Cache
  <2>4. ShiftKnown'
    BY <2>2, <2>3 DEF ShiftKnown, SeenOnline
  <2> QED
    BY <2>1, <2>4, EndCarried DEF Return
<1>9. CASE OfflineAnswered(c)
  <2>1. /\ SeenOnline \subseteq SeenOnline' /\ Known \subseteq Known'
        /\ call[c].kind = "openShift" => call[c].id \in Known'
    BY <1>0, <1>9, ServeSeen DEF OfflineAnswered
  <2>2. CASE Return(c, call[c].target) \/ Return(c, state)
    BY <2>1, <2>2, ReturnCarried
  <2>3. CASE Settle(c, ToOfflineShift(call[c], FALSE))
    BY <1>0, <1>s, <2>1, <2>3, TransferCarried, KnownKept
  <2> QED
    BY <1>9, <2>2, <2>3 DEF OfflineAnswered
<1>10. CASE OfflineShiftStored(c)
  <2>1. SeenOnline \subseteq SeenOnline' /\ Known \subseteq Known'
    BY <1>0, <1>10 DEF OfflineShiftStored, SeenOnline, Known, Store
  <2>2. /\ call'[c].stage = "cartOffline" /\ call'[c].kind = call[c].kind
        /\ call'[c].manual = call[c].manual /\ shift' = shift
    BY <1>0, <1>10 DEF OfflineShiftStored, Enter, Settle, TInv, TypeOK, Call, client
  <2>3. Carried(call[c])'
    BY <1>0, <2>2 DEF Carried
  <2> QED
    BY <2>1, <2>2, <2>3, KnownKept
<1>11. CASE OfflineCartStored(c)
  <2>1. SeenOnline' = SeenOnline /\ Known' = Known
    BY <1>11 DEF OfflineCartStored, SeenOnline, Known
  <2>2. CASE call[c].manual \/ call[c].kind \in BothPattern
    <3>1. call[c].kind # "openShift"
      BY <1>0, <1>k, <2>2
    <3>2. \E s \in {"OfflineOnly", state} : Return(c, s)
      BY <1>11, <2>2 DEF OfflineCartStored
    <3> QED
      BY <2>1, <3>1, <3>2, ReturnCarried
  <2>3. CASE Enter(c, call[c], state, "methodOffline", call[c].target)
    BY <1>0, <1>s, <2>1, <2>3, EnterCarried, KnownKept
  <2> QED
    BY <1>11, <2>2, <2>3 DEF OfflineCartStored
<1> QED
  BY <1>1, <1>2, <1>3, <1>4, <1>5, <1>6, <1>7, <1>8, <1>9, <1>10, <1>11 DEF Step

LEMMA IssueCarried ==
    ASSUME TInv, ShiftKnown, NEW c \in Callers, NEW k \in Kind, Issue(c, k), Carried(call[c])
    PROVE  Carried(call[c])' /\ ShiftKnown'
<1>1. SeenOnline' = SeenOnline /\ Known' = Known
  BY DEF Issue, stores, SeenOnline, Known
<1>s. /\ {"deviceRead", "cartRead"} \subseteq Stage /\ state \in State
      /\ TRUE \in BOOLEAN /\ "switchOnline" \in ManualSwitch /\ "switchOffline" \in ManualSwitch
  BY StageNames DEF TInv, TypeOK, ManualSwitch
<1>2. PICK i \in CartId \cup Shift \cup {0} :
          \/ Execute(c, [Idle EXCEPT !.kind = k, !.id = i])
          \/ k \in ManualSwitch /\ Switch(c, [Idle EXCEPT !.kind = k, !.id = i])
  <2>1. /\ nextCart <= MaxCarts => nextCart \in CartId
        /\ nextShift <= MaxShifts => nextShift \in Shift
        /\ cart \in CartId \cup {0} /\ shift \in Shift \cup {0}
    BY DEF TInv, TypeOK, CartId, Shift
  <2>2. (CASE k = "checkout" -> cart [] k = "closeShift" -> shift [] OTHER -> 0)
            \in CartId \cup Shift \cup {0}
    BY <2>1
  <2> QED
    BY <2>1, <2>2 DEF Issue
<1>3. PICK q \in Call : /\ q = [Idle EXCEPT !.kind = k, !.id = i]
                        /\ q.kind = k /\ ~q.manual /\ q.target \in State
  <2>1. [Idle EXCEPT !.kind = k, !.id = i] \in Call
    BY IdleIsGood DEF Good, Call
  <2>2. /\ [Idle EXCEPT !.kind = k, !.id = i].kind = k
        /\ ~[Idle EXCEPT !.kind = k, !.id = i].manual
    BY DEF Idle
  <2>3. [Idle EXCEPT !.kind = k, !.id = i].target \in State
    BY <2>1 DEF Call
  <2> QED
    BY <2>1, <2>2, <2>3
<1>4. Carried(call[c])' /\ shift' = shift
  <2>1. CASE \E s \in {"deviceRead", "cartRead"} : Enter(c, q, state, s, q.target)
    <3>1. PICK s \in {"deviceRead", "cartRead"} : Enter(c, q, state, s, q.target)
      BY <2>1
    <3> QED
      BY <1>1, <1>3, <1>s, <3>1, EnterCarried
  <2>2. CASE RequestOffline(c, q)
    BY <1>1, <1>3, <2>2, RequestOfflineCarried
  <2>3. CASE k \in ManualSwitch /\ Settle(c, ToOfflineShift(q, TRUE))
    BY <1>3, <1>s, <2>3, TransferCarried
  <2>4. CASE UNCHANGED <<call, client>>
    BY <1>1, <2>4 DEF Carried, client
  <2>5. CASE Execute(c, q)
    BY <2>1, <2>2, <2>5 DEF Execute
  <2>6. CASE k \in ManualSwitch /\ Switch(c, q)
    BY <2>1, <2>3, <2>4, <2>6 DEF Switch
  <2> QED
    BY <1>2, <1>3, <2>5, <2>6
<1> QED
  BY <1>1, <1>4, KnownKept

\* One caller at a time: the session's shift is always known to a store, through every
\* reconnection, manual switch, lost answer and failed transfer.
THEOREM ShiftNeverLost ==
    ASSUME NEW c, Callers = {c}
    PROVE  Spec => []ShiftKnown
<1> DEFINE Inv == TInv /\ CarriedInv
<1>1. Init => Inv
  BY InitTyped DEF Init, Idle, CarriedInv, Carried, ShiftKnown
<1>2. Inv /\ [Next]_vars => Inv'
  <2> SUFFICES ASSUME TInv, CarriedInv, [Next]_vars PROVE TInv' /\ CarriedInv'
    OBVIOUS
  <2>1. TInv'
    BY NextTyped
  <2>2. CASE IntervalElapses \/ UNCHANGED vars
    BY <2>1, <2>2 DEF IntervalElapses, vars, client, stores, CarriedInv, Carried, ShiftKnown,
       SeenOnline
  <2>3. CASE \E d \in Callers : Step(d) \/ \E k \in Kind : Issue(d, k)
    BY <2>1, <2>3, StepCarried, IssueCarried DEF CarriedInv
  <2> QED
    BY <2>2, <2>3 DEF Next
<1>3. Inv => ShiftKnown
  BY DEF CarriedInv
<1> QED
  BY <1>1, <1>2, <1>3, PTL DEF Spec
=============================================================================
