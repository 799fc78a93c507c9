------------------------- MODULE ChainedRequest_proofs -------------------------
(* Theorems about ChainedRequest for every set of callers and every bound.       *)
EXTENDS ChainedRequest, TLAPS

USE ConstantsAssumption

\* A request that creates names what it creates: without it the types of Session.Shift
\* and of the carts of a store are not inductive.
Names(q) == /\ q.kind = "openShift" => q.id \in Shift
            /\ q.kind = "createCart" => q.id \in CartId

TInv == TypeOK /\ \A c \in Callers : Names(call[c])

\* What every action leaves of the table of calls.
CallTyped == call \in [Callers -> Call] /\ \A c \in Callers : Names(call[c])

LEMMA IdleIsCall == Idle \in Call
BY DEF Idle, Call, Stage, Kind, NoCart

LEMMA IdleNames == Names(Idle)
BY DEF Names, Idle

\* Replacing the record of one caller by a call keeps the table of calls typed.
LEMMA SettleTyped ==
    ASSUME NEW c \in Callers, NEW q \in Call, Names(q), Settle(c, q), TInv
    PROVE  CallTyped'
BY DEF Settle, TInv, TypeOK, CallTyped

LEMMA FinishTyped ==
    ASSUME NEW c \in Callers, Finish(c), TInv
    PROVE  CallTyped'
BY IdleIsCall, IdleNames, SettleTyped DEF Finish

\* A call is still a call, for the same object, in another stage and with other
\* captured data.
LEMMA UpdatedCall ==
    ASSUME NEW q \in Call, Names(q), NEW s \in Stage, NEW m \in Shift \cup {0},
           NEW k \in Cart \cup {NoCart}
    PROVE  /\ [q EXCEPT !.stage = s] \in Call /\ Names([q EXCEPT !.stage = s])
           /\ [q EXCEPT !.stage = s, !.moved = m] \in Call
           /\ Names([q EXCEPT !.stage = s, !.moved = m])
           /\ [q EXCEPT !.stage = s, !.clone = k] \in Call
           /\ Names([q EXCEPT !.stage = s, !.clone = k])
<1>1. [q EXCEPT !.stage = s] \in Call /\ Names([q EXCEPT !.stage = s])
  BY DEF Call, Names
<1>2. [q EXCEPT !.stage = s, !.moved = m] \in Call
      /\ Names([q EXCEPT !.stage = s, !.moved = m])
  BY DEF Call, Names
<1>3. [q EXCEPT !.stage = s, !.clone = k] \in Call
      /\ Names([q EXCEPT !.stage = s, !.clone = k])
  BY DEF Call, Names
<1> QED
  BY <1>1, <1>2, <1>3

LEMMA MoveTyped ==
    ASSUME NEW c \in Callers, NEW s \in Stage, Move(c, s), TInv
    PROVE  CallTyped'
<1>1. call[c] \in Call /\ Names(call[c])
  BY DEF TInv, TypeOK
<1> QED
  BY <1>1, UpdatedCall, SettleTyped DEF Move

LEMMA AfterOnlineSwitchTyped ==
    ASSUME NEW c \in Callers, AfterOnlineSwitch(c), TInv
    PROVE  CallTyped'
BY FinishTyped, MoveTyped DEF AfterOnlineSwitch, Stage

LEMMA StartOnlineSwitchTyped ==
    ASSUME NEW c \in Callers, NEW q \in Call, Names(q), StartOnlineSwitch(c, q), TInv
    PROVE  CallTyped' /\ scan' \in {"waiting", "due"}
<1>1. shift \in Shift \cup {0} /\ scan \in {"waiting", "due"}
  BY DEF TInv, TypeOK
<1>2. "dispatch" \in Stage /\ "onlineShift" \in Stage
  BY DEF Stage
<1> QED
  BY <1>1, <1>2, UpdatedCall, IdleIsCall, IdleNames, SettleTyped DEF StartOnlineSwitch

LEMMA StartOfflineSwitchTyped ==
    ASSUME NEW c \in Callers, NEW q \in Call, Names(q), StartOfflineSwitch(c, q), TInv
    PROVE  CallTyped'
<1>1. shift \in Shift \cup {0}
  BY DEF TInv, TypeOK
<1>2. "offlineShift" \in Stage
  BY DEF Stage
<1> QED
  BY <1>1, <1>2, UpdatedCall, FinishTyped, SettleTyped DEF StartOfflineSwitch

LEMMA PutTyped ==
    ASSUME NEW s \in Store, NEW k \in Cart, TInv
    PROVE  Put(s, k) \in [Store -> SUBSET Cart]
BY DEF Put, TInv, TypeOK

\* What a store does with a request keeps the stores and the session typed.
LEMMA ServeTyped ==
    ASSUME NEW s \in Store, NEW q \in Call, Names(q), NEW k \in Cart \cup {NoCart},
           Serve(s, q, k), TInv
    PROVE  /\ openShifts' \in [Store -> SUBSET Shift]
           /\ closedShifts' \subseteq Shift
           /\ cartsAt' \in [Store -> SUBSET Cart]
           /\ sales' \in [CartId -> Nat]
           /\ q.kind \in CartKind \ {"checkout"} => k \in Cart
<1> USE DEF TInv, TypeOK
<1>1. CASE q.kind = "createCart"
  <2>1. k \in Cart
    BY <1>1 DEF Serve, CartKind, Names, Cart
  <2> QED
    BY <1>1, <2>1, PutTyped DEF Serve, CartKind
<1>2. CASE q.kind = "addLine"
  <2>1. PICK x \in cartsAt[s] : x.id = q.id /\ k = Served(q, x)
    BY <1>2 DEF Serve, CartKind
  <2>2. x \in Cart
    BY <2>1
  <2>3. k.id = x.id
    BY <1>2, <2>1, <2>2 DEF Served, Cart
  <2>4. k # NoCart
    BY <2>2, <2>3 DEF NoCart, Cart, CartId
  <2> QED
    BY <1>2, <2>4, PutTyped DEF Serve, CartKind
<1>3. CASE q.kind = "checkout"
  BY <1>3 DEF Serve, CartKind
<1>4. CASE q.kind = "openShift"
  BY <1>4 DEF Serve, CartKind, Names
<1>5. CASE q.kind = "closeShift"
  BY <1>5 DEF Serve, CartKind
<1>6. CASE q.kind \notin CartKind \cup {"openShift", "closeShift"}
  BY <1>6 DEF Serve, CartKind, stores
<1> QED
  BY <1>1, <1>2, <1>3, <1>4, <1>5, <1>6 DEF CartKind

LEMMA AcceptTyped ==
    ASSUME NEW q \in Call, Names(q), NEW k \in Cart \cup {NoCart}, Accept(q, k), TInv
    PROVE  cart' \in Cart \cup {NoCart} /\ shift' \in Shift \cup {0}
BY DEF Accept, Names, TInv, TypeOK

LEMMA InitTyped == Init => TInv
<1> SUFFICES ASSUME Init PROVE TInv
  OBVIOUS
<1>1. faulted \in BOOLEAN
  BY Zenon DEF Init
<1>2. 1 \in 1 .. MaxLines + 1 /\ 1 \in 1 .. MaxCarts + 1 /\ 1 \in 1 .. MaxShifts + 1
  BY ConstantsAssumption DEF ConstantsAssumption
<1> QED
  BY <1>1, <1>2, IdleIsCall, IdleNames DEF Init, TInv, TypeOK, Status, Store, Cart, NoCart

\* The steps of a switch.
LEMMA SwitchStepTyped ==
    ASSUME NEW c \in Callers, SwitchStep(c), TInv
    PROVE  TInv'
<1> USE DEF TInv, TypeOK, session, stores, fresh
<1>0. call[c] \in Call /\ Names(call[c])
  OBVIOUS
<1>1. CASE OnlineShiftStored(c)
  <2>1. call[c].moved # 0 => call[c].moved \in Shift
    BY <1>0 DEF Call
  <2>2. CallTyped'
    BY <1>1, MoveTyped, AfterOnlineSwitchTyped DEF OnlineShiftStored, Stage
  <2> QED
    BY <1>1, <2>1, <2>2 DEF OnlineShiftStored, CallTyped, Status
<1>2. CASE OnlineShiftUnavailable(c)
  <2>1. call[c].moved \in Shift
    BY <1>0, <1>2 DEF Call, OnlineShiftUnavailable
  <2>2. CallTyped'
    BY <1>2, AfterOnlineSwitchTyped DEF OnlineShiftUnavailable
  <2> QED
    BY <1>2, <2>1, <2>2 DEF OnlineShiftUnavailable, CallTyped, Fault
<1>3. CASE OnlineTransferRefused(c)
  <2>1. CallTyped'
    BY <1>3, AfterOnlineSwitchTyped, FinishTyped DEF OnlineTransferRefused
  <2> QED
    BY <1>3, <2>1 DEF OnlineTransferRefused, CallTyped
<1>4. CASE OfflineShiftDeleted(c)
  <2>1. CallTyped'
    BY <1>4, MoveTyped DEF OfflineShiftDeleted, Stage
  <2> QED
    BY <1>4, <2>1 DEF OfflineShiftDeleted, CallTyped
<1>5. CASE WentOnline(c)
  <2>1. CallTyped'
    BY <1>5, AfterOnlineSwitchTyped DEF WentOnline
  <2> QED
    BY <1>5, <2>1 DEF WentOnline, CallTyped, Status
<1>6. CASE OfflineShiftStored(c)
  <2>1. CallTyped'
    BY <1>0, <1>6, UpdatedCall, SettleTyped DEF OfflineShiftStored, Stage
  <2>2. openShifts' \in [Store -> SUBSET Shift]
    BY <1>0, <1>6 DEF OfflineShiftStored, Call
  <2> QED
    BY <1>6, <2>1, <2>2 DEF OfflineShiftStored, CallTyped
<1>7. CASE WentOffline(c)
  <2>1. CallTyped'
    <3>1. [call[c] EXCEPT !.stage = "fallback", !.clone = NoCart] \in Call
          /\ Names([call[c] EXCEPT !.stage = "fallback", !.clone = NoCart])
      BY <1>0, UpdatedCall DEF Stage
    <3> QED
      BY <1>7, <3>1, FinishTyped, SettleTyped DEF WentOffline
  <2>2. cart' \in Cart \cup {NoCart} /\ cartsAt' \in [Store -> SUBSET Cart]
    BY <1>0, <1>7, PutTyped DEF WentOffline, Call, Store
  <2> QED
    BY <1>7, <2>1, <2>2 DEF WentOffline, CallTyped, Status
<1>8. CASE OfflineTransferFailed(c)
  <2>1. CallTyped'
    BY <1>8, FinishTyped DEF OfflineTransferFailed
  <2> QED
    BY <1>8, <2>1 DEF OfflineTransferFailed, CallTyped
<1> QED
  BY <1>1, <1>2, <1>3, <1>4, <1>5, <1>6, <1>7, <1>8 DEF SwitchStep

\* The steps of a request.
LEMMA RequestStepTyped ==
    ASSUME NEW c \in Callers, RequestStep(c), TInv
    PROVE  TInv'
<1> USE DEF TInv, TypeOK, session, stores, fresh
<1>0. call[c] \in Call /\ Names(call[c])
  OBVIOUS
<1>1. CASE Dispatch(c)
  <2>1. CallTyped'
    BY <1>1, MoveTyped DEF Dispatch, Stage
  <2> QED
    BY <1>1, <2>1 DEF Dispatch, CallTyped
<1>2. CASE OnlineDone(c)
  <2>1. CallTyped'
    BY <1>2, MoveTyped, FinishTyped DEF OnlineDone, Stage
  <2>2. PICK k \in Cart \cup {NoCart} : Serve("online", call[c], k) /\ Accept(call[c], k)
    BY <1>2 DEF OnlineDone
  <2>3. repeats' \subseteq {"StartSession", "EndSession"}
    BY <1>2 DEF OnlineDone
  <2>4. "online" \in Store
    BY DEF Store
  <2> QED
    BY <1>0, <1>2, <2>1, <2>2, <2>3, <2>4, ServeTyped, AcceptTyped DEF OnlineDone, CallTyped
<1>3. CASE OnlineRefused(c)
  <2>1. CallTyped'
    BY <1>3, FinishTyped DEF OnlineRefused
  <2> QED
    BY <1>3, <2>1 DEF OnlineRefused, CallTyped
<1>4. CASE OnlineUnavailable(c)
  <2>1. CallTyped'
    BY <1>0, <1>4, MoveTyped, FinishTyped, StartOfflineSwitchTyped DEF OnlineUnavailable, Stage
  <2>2. "online" \in Store
    BY DEF Store
  <2>3. /\ openShifts' \in [Store -> SUBSET Shift] /\ closedShifts' \subseteq Shift
        /\ cartsAt' \in [Store -> SUBSET Cart] /\ sales' \in [CartId -> Nat]
    BY <1>0, <1>4, <2>2, ServeTyped DEF OnlineUnavailable
  <2> QED
    BY <1>4, <2>1, <2>3 DEF OnlineUnavailable, CallTyped, Fault
<1>5. CASE OfflineDone(c)
  <2>1. CallTyped'
    BY <1>0, <1>5, FinishTyped, UpdatedCall, SettleTyped DEF OfflineDone, Stage
  <2>2. PICK k \in Cart \cup {NoCart} : Serve("offline", call[c], k) /\ Accept(call[c], k)
    BY <1>5 DEF OfflineDone
  <2>3. "offline" \in Store
    BY DEF Store
  <2> QED
    BY <1>0, <1>5, <2>1, <2>2, <2>3, ServeTyped, AcceptTyped DEF OfflineDone, CallTyped
<1>6. CASE OfflineFailed(c)
  <2>1. CallTyped'
    BY <1>6, FinishTyped DEF OfflineFailed
  <2> QED
    BY <1>6, <2>1 DEF OfflineFailed, CallTyped
<1>7. CASE OfflineLogonSettled(c)
  <2>1. CallTyped'
    BY <1>7, FinishTyped DEF OfflineLogonSettled
  <2> QED
    BY <1>7, <2>1 DEF OfflineLogonSettled, CallTyped
<1> QED
  BY <1>1, <1>2, <1>3, <1>4, <1>5, <1>6, <1>7 DEF RequestStep

\* A caller states a request.
LEMMA IssueTyped ==
    ASSUME NEW c \in Callers, NEW k \in Kind, Issue(c, k), TInv
    PROVE  TInv'
<1>1. \A i \in CartId \cup Shift \cup {0}, l \in Line \cup {0} : Asks(k, i, l) \in Call
  BY DEF Asks, Idle, Call, Stage, NoCart
<1>2. \A q \in Call : Names(q) /\ Start(c, q) => CallTyped' /\ scan' \in {"waiting", "due"}
  <2> SUFFICES ASSUME NEW q \in Call, Names(q), Start(c, q)
               PROVE  CallTyped' /\ scan' \in {"waiting", "due"}
    OBVIOUS
  <2>1. scan \in {"waiting", "due"}
    BY DEF TInv, TypeOK
  <2>2. [q EXCEPT !.stage = "offline"] \in Call /\ Names([q EXCEPT !.stage = "offline"])
    BY DEF Call, Names, Stage
  <2> QED
    BY <2>1, <2>2, StartOnlineSwitchTyped, StartOfflineSwitchTyped, SettleTyped DEF Start
<1>3. /\ nextCart <= MaxCarts => nextCart \in CartId
      /\ nextShift <= MaxShifts => nextShift \in Shift
      /\ nextLine <= MaxLines => nextLine \in Line
  BY DEF TInv, TypeOK, CartId, Shift, Line
<1>4. cart # NoCart => cart.id \in CartId
  BY DEF TInv, TypeOK, Cart
<1>5. shift \in Shift \cup {0}
  BY DEF TInv, TypeOK
<1>6. CallTyped' /\ scan' \in {"waiting", "due"}
  <2>1. \A i, l : /\ Asks(k, i, l).kind = k /\ Asks(k, i, l).id = i
    BY DEF Asks, Idle
  <2>2. CASE k = "createCart" /\ nextCart <= MaxCarts /\ Start(c, Asks(k, nextCart, 0))
    BY <1>1, <1>2, <1>3, <2>1, <2>2 DEF Names
  <2>3. CASE k = "addLine" /\ cart # NoCart /\ nextLine <= MaxLines
                /\ Start(c, Asks(k, cart.id, nextLine))
    BY <1>1, <1>2, <1>3, <1>4, <2>1, <2>3 DEF Names
  <2>4. CASE k = "checkout" /\ cart # NoCart /\ Start(c, Asks(k, cart.id, 0))
    BY <1>1, <1>2, <1>4, <2>1, <2>4 DEF Names
  <2>5. CASE k = "openShift" /\ nextShift <= MaxShifts /\ Start(c, Asks(k, nextShift, 0))
    BY <1>1, <1>2, <1>3, <2>1, <2>5 DEF Names
  <2>6. CASE k = "closeShift" /\ Start(c, Asks(k, shift, 0))
    BY <1>1, <1>2, <1>5, <2>1, <2>6 DEF Names
  <2>7. CASE k \notin CartKind \cup {"openShift", "closeShift"} /\ Start(c, Asks(k, 0, 0))
    BY <1>1, <1>2, <2>1, <2>7 DEF Names, CartKind
  <2> QED
    BY <2>2, <2>3, <2>4, <2>5, <2>6, <2>7 DEF Issue
<1>7. /\ nextLine' \in 1 .. MaxLines + 1 /\ nextCart' \in 1 .. MaxCarts + 1
      /\ nextShift' \in 1 .. MaxShifts + 1
  BY DEF Issue, TInv, TypeOK, fresh
<1> QED
  BY <1>6, <1>7 DEF Issue, TInv, TypeOK, CallTyped, session, stores

LEMMA NextTyped == TInv /\ [Next]_vars => TInv'
<1> SUFFICES ASSUME TInv, [Next]_vars PROVE TInv'
  OBVIOUS
<1>1. CASE \E k \in {"StartSession", "EndSession"} : RepeatSettled(k)
  BY <1>1 DEF RepeatSettled, TInv, TypeOK, stores, fresh
<1>2. CASE ScanDue
  BY <1>2 DEF ScanDue, TInv, TypeOK, session, stores, fresh
<1>3. CASE Restart
  BY <1>3, IdleIsCall, IdleNames DEF Restart, Fault, TInv, TypeOK, stores, fresh
<1>4. CASE UNCHANGED vars
  BY <1>4 DEF vars, TInv, TypeOK, session, stores, fresh
<1> QED
  BY <1>1, <1>2, <1>3, <1>4, SwitchStepTyped, RequestStepTyped, IssueTyped DEF Next

\* Type correctness: for every set of callers, whatever they may ask for.
THEOREM TypeCorrect == Spec => []TypeOK
<1>1. Spec => []TInv
  BY InitTyped, NextTyped, PTL DEF Spec
<1>2. TInv => TypeOK
  BY DEF TInv
<1> QED
  BY <1>1, <1>2, PTL

-----------------------------------------------------------------------------
(* The shift is lost by no other step than the deletion that reads the      *)
(* session's shift again.                                                   *)

\* The shifts Retail Server has seen: they only grow.
SeenOnline == openShifts["online"] \cup closedShifts

\* Before the offline copy is deleted, the online copy has been created.
CopyMade == \A c \in Callers :
    call[c].stage = "deleteShift" => call[c].moved # 0 /\ call[c].moved \in SeenOnline

SInv == TInv /\ CopyMade

\* No other request is about to delete an offline copy after a step of c.
NoNewDeletion(c) == \A d \in Callers :
    call'[d].stage = "deleteShift" => d # c /\ call'[d] = call[d]

LEMMA SettleDeletion ==
    ASSUME TInv, NEW c \in Callers, NEW q \in Call, q.stage # "deleteShift", Settle(c, q)
    PROVE  NoNewDeletion(c)
BY DEF TInv, TypeOK, Settle, NoNewDeletion

LEMMA MoveDeletion ==
    ASSUME TInv, NEW c \in Callers, NEW s \in Stage \ {"deleteShift"}, Move(c, s)
    PROVE  NoNewDeletion(c)
<1>1. call[c] \in Call
  BY DEF TInv, TypeOK
<1>2. [call[c] EXCEPT !.stage = s] \in Call /\ [call[c] EXCEPT !.stage = s].stage = s
  BY <1>1 DEF Call
<1> QED
  BY <1>2, SettleDeletion DEF Move

LEMMA FinishDeletion ==
    ASSUME TInv, NEW c \in Callers, Finish(c)
    PROVE  NoNewDeletion(c)
BY IdleIsCall, SettleDeletion DEF Finish, Idle

LEMMA AfterOnlineSwitchDeletion ==
    ASSUME TInv, NEW c \in Callers, AfterOnlineSwitch(c)
    PROVE  NoNewDeletion(c)
BY FinishDeletion, MoveDeletion DEF AfterOnlineSwitch, Stage

LEMMA StartOnlineSwitchDeletion ==
    ASSUME TInv, NEW c \in Callers, NEW q \in Call, Names(q), StartOnlineSwitch(c, q)
    PROVE  NoNewDeletion(c)
<1>1. /\ [q EXCEPT !.stage = "dispatch"].stage # "deleteShift"
      /\ [q EXCEPT !.stage = "onlineShift", !.moved = shift].stage # "deleteShift"
  BY DEF Call
<1>2. Idle.stage # "deleteShift"
  BY DEF Idle
<1>3. shift \in Shift \cup {0} /\ "dispatch" \in Stage /\ "onlineShift" \in Stage
  BY DEF TInv, TypeOK, Stage
<1> QED
  BY <1>1, <1>2, <1>3, UpdatedCall, IdleIsCall, SettleDeletion DEF StartOnlineSwitch

LEMMA StartOfflineSwitchDeletion ==
    ASSUME TInv, NEW c \in Callers, NEW q \in Call, Names(q), StartOfflineSwitch(c, q)
    PROVE  NoNewDeletion(c)
<1>1. [q EXCEPT !.stage = "offlineShift", !.moved = shift].stage # "deleteShift"
  BY DEF Call
<1>2. shift \in Shift \cup {0} /\ "offlineShift" \in Stage
  BY DEF TInv, TypeOK, Stage
<1> QED
  BY <1>1, <1>2, UpdatedCall, FinishDeletion, SettleDeletion DEF StartOfflineSwitch

\* Serving a request forgets no shift, and an opened shift is known.
LEMMA ServeShifts ==
    ASSUME TInv, NEW s \in Store, NEW q \in Call, NEW k, Serve(s, q, k)
    PROVE  /\ openShifts["online"] \cup closedShifts
                \subseteq openShifts'["online"] \cup closedShifts'
           /\ openShifts["offline"] \subseteq openShifts'["offline"] \cup closedShifts'
           /\ q.kind = "openShift" => q.id \in openShifts'[s]
<1> USE DEF TInv, TypeOK, Store
<1>1. CASE q.kind = "openShift"
  BY <1>1 DEF Serve, CartKind
<1>2. CASE q.kind = "closeShift"
  BY <1>2 DEF Serve, CartKind
<1>3. CASE q.kind \notin {"openShift", "closeShift"}
  BY <1>3 DEF Serve, CartKind, stores
<1> QED
  BY <1>1, <1>2, <1>3

\* The shifts some store has seen.
Seen == openShifts["online"] \cup openShifts["offline"] \cup closedShifts

\* A step that keeps what the stores know and opens no shift they do not know.
Remembers == /\ SeenOnline \subseteq SeenOnline' /\ Seen \subseteq Seen'
             /\ shift' \in {0, shift} \cup Seen'

LEMMA KeptDeletion ==
    ASSUME SInv, NEW c \in Callers, NoNewDeletion(c), SeenOnline \subseteq SeenOnline'
    PROVE  CopyMade'
BY DEF SInv, CopyMade, NoNewDeletion

LEMMA SwitchStepShifts ==
    ASSUME SInv, NEW c \in Callers, SwitchStep(c)
    PROVE  CopyMade' /\ (Remembers \/ OfflineShiftDeleted(c))
<1> USE DEF SInv, TInv, TypeOK, session, stores, fresh, Remembers, SeenOnline, Seen, Store
<1>0. call[c] \in Call
  OBVIOUS
<1>1. CASE OnlineShiftStored(c)
  <2>1. Remembers
    BY <1>1 DEF OnlineShiftStored
  <2>2. CASE call[c].moved # 0
    <3>1. call[c].moved \in SeenOnline'
      BY <1>1, <2>2 DEF OnlineShiftStored
    <3>2. call'[c].moved = call[c].moved
      BY <1>0, <1>1, <2>2 DEF OnlineShiftStored, Move, Settle, Call
    <3>3. \A d \in Callers \ {c} : call'[d] = call[d]
      BY <1>1, <2>2 DEF OnlineShiftStored, Move, Settle
    <3> QED
      BY <2>1, <2>2, <3>1, <3>2, <3>3 DEF CopyMade
  <2>3. CASE call[c].moved = 0
    <3>1. NoNewDeletion(c)
      BY <1>1, <2>3, AfterOnlineSwitchDeletion DEF OnlineShiftStored
    <3> QED
      BY <2>1, <3>1, KeptDeletion
  <2> QED
    BY <2>2, <2>3
<1>2. CASE OnlineShiftUnavailable(c)
  <2>1. NoNewDeletion(c)
    BY <1>2, AfterOnlineSwitchDeletion DEF OnlineShiftUnavailable
  <2>2. Remembers
    BY <1>2 DEF OnlineShiftUnavailable
  <2> QED
    BY <2>1, <2>2, KeptDeletion
<1>3. CASE OnlineTransferRefused(c)
  <2>1. NoNewDeletion(c)
    BY <1>3, AfterOnlineSwitchDeletion, FinishDeletion DEF OnlineTransferRefused
  <2>2. Remembers
    BY <1>3 DEF OnlineTransferRefused
  <2> QED
    BY <2>1, <2>2, KeptDeletion
<1>4. CASE OfflineShiftDeleted(c)
  <2>1. NoNewDeletion(c)
    BY <1>4, MoveDeletion DEF OfflineShiftDeleted, Stage
  <2>2. SeenOnline \subseteq SeenOnline'
    BY <1>4 DEF OfflineShiftDeleted
  <2> QED
    BY <1>4, <2>1, <2>2, KeptDeletion
<1>5. CASE WentOnline(c)
  <2>1. NoNewDeletion(c)
    BY <1>5, AfterOnlineSwitchDeletion DEF WentOnline
  <2>2. Remembers
    BY <1>5 DEF WentOnline
  <2> QED
    BY <2>1, <2>2, KeptDeletion
<1>6. CASE OfflineShiftStored(c)
  <2>1. NoNewDeletion(c)
    <3>1. [call[c] EXCEPT !.stage = "offlineCart", !.clone = cart] \in Call
      BY <1>0, UpdatedCall DEF Stage
    <3>2. [call[c] EXCEPT !.stage = "offlineCart", !.clone = cart].stage # "deleteShift"
      BY <1>0 DEF Call
    <3> QED
      BY <1>6, <3>1, <3>2, SettleDeletion DEF OfflineShiftStored
  <2>2. Remembers
    BY <1>6 DEF OfflineShiftStored
  <2> QED
    BY <2>1, <2>2, KeptDeletion
<1>7. CASE WentOffline(c)
  <2>1. NoNewDeletion(c)
    <3>1. [call[c] EXCEPT !.stage = "fallback", !.clone = NoCart] \in Call
      BY <1>0, UpdatedCall DEF Stage
    <3>2. [call[c] EXCEPT !.stage = "fallback", !.clone = NoCart].stage # "deleteShift"
      BY <1>0 DEF Call
    <3> QED
      BY <1>7, <3>1, <3>2, SettleDeletion, FinishDeletion DEF WentOffline
  <2>2. Remembers
    BY <1>7 DEF WentOffline
  <2> QED
    BY <2>1, <2>2, KeptDeletion
<1>8. CASE OfflineTransferFailed(c)
  <2>1. NoNewDeletion(c)
    BY <1>8, FinishDeletion DEF OfflineTransferFailed
  <2>2. Remembers
    BY <1>8 DEF OfflineTransferFailed
  <2> QED
    BY <2>1, <2>2, KeptDeletion
<1> QED
  BY <1>1, <1>2, <1>3, <1>4, <1>5, <1>6, <1>7, <1>8 DEF SwitchStep

LEMMA RequestStepShifts ==
    ASSUME SInv, NEW c \in Callers, RequestStep(c)
    PROVE  CopyMade' /\ Remembers
<1> USE DEF SInv
<1>0. call[c] \in Call /\ Names(call[c])
  BY DEF TInv, TypeOK
<1>1. NoNewDeletion(c)
  <2>1. CASE Dispatch(c)
    BY <2>1, MoveDeletion DEF Dispatch, Stage
  <2>2. CASE OnlineDone(c)
    BY <2>2, MoveDeletion, FinishDeletion DEF OnlineDone, Stage
  <2>3. CASE OnlineRefused(c)
    BY <2>3, FinishDeletion DEF OnlineRefused
  <2>4. CASE OnlineUnavailable(c)
    BY <1>0, <2>4, MoveDeletion, FinishDeletion, StartOfflineSwitchDeletion
       DEF OnlineUnavailable, Stage
  <2>5. CASE OfflineDone(c)
    <3>1. [call[c] EXCEPT !.stage = "offlineShift", !.moved = shift] \in Call
      BY <1>0, UpdatedCall DEF Stage, TInv, TypeOK
    <3>2. [call[c] EXCEPT !.stage = "offlineShift", !.moved = shift].stage # "deleteShift"
      BY <1>0 DEF Call
    <3> QED
      BY <2>5, <3>1, <3>2, SettleDeletion, FinishDeletion DEF OfflineDone
  <2>6. CASE OfflineFailed(c)
    BY <2>6, FinishDeletion DEF OfflineFailed
  <2>7. CASE OfflineLogonSettled(c)
    BY <2>7, FinishDeletion DEF OfflineLogonSettled
  <2> QED
    BY <2>1, <2>2, <2>3, <2>4, <2>5, <2>6, <2>7 DEF RequestStep
<1>2. Remembers
  <2>1. ASSUME NEW s \in Store, NEW k, Serve(s, call[c], k)
        PROVE  SeenOnline \subseteq SeenOnline' /\ Seen \subseteq Seen'
               /\ (call[c].kind = "openShift" => call[c].id \in Seen')
    BY <1>0, <2>1, ServeShifts DEF SeenOnline, Seen, Store
  <2>2. ASSUME NEW k, Accept(call[c], k)
        PROVE  shift' \in {0, shift} \/ (call[c].kind = "openShift" /\ shift' = call[c].id)
    BY <2>2 DEF Accept
  <2>3. "online" \in Store /\ "offline" \in Store
    BY DEF Store
  <2>4. CASE OnlineDone(c)
    BY <2>1, <2>2, <2>3, <2>4 DEF OnlineDone, Remembers
  <2>5. CASE OfflineDone(c)
    BY <2>1, <2>2, <2>3, <2>5 DEF OfflineDone, Remembers
  <2>6. CASE OnlineUnavailable(c)
    <3>1. SeenOnline \subseteq SeenOnline' /\ Seen \subseteq Seen'
      BY <2>1, <2>3, <2>6 DEF OnlineUnavailable, stores, SeenOnline, Seen
    <3> QED
      BY <2>6, <3>1 DEF OnlineUnavailable, session, Remembers
  <2>7. CASE Dispatch(c) \/ OnlineRefused(c) \/ OfflineFailed(c) \/ OfflineLogonSettled(c)
    BY <2>7 DEF Dispatch, OnlineRefused, OfflineFailed, OfflineLogonSettled,
                session, stores, Remembers, SeenOnline, Seen
  <2> QED
    BY <2>4, <2>5, <2>6, <2>7 DEF RequestStep
<1> QED
  BY <1>1, <1>2, KeptDeletion DEF Remembers

LEMMA IssueShifts ==
    ASSUME SInv, NEW c \in Callers, NEW k \in Kind, Issue(c, k)
    PROVE  CopyMade' /\ Remembers
<1>1. Remembers
  BY DEF Issue, session, stores, Remembers, SeenOnline, Seen
<1>2. PICK i \in CartId \cup Shift \cup {0}, l \in Line \cup {0} :
            Names(Asks(k, i, l)) /\ Start(c, Asks(k, i, l))
  <2>1. /\ nextCart <= MaxCarts => nextCart \in CartId
        /\ nextShift <= MaxShifts => nextShift \in Shift
        /\ nextLine <= MaxLines => nextLine \in Line
    BY DEF SInv, TInv, TypeOK, CartId, Shift, Line
  <2>2. (cart # NoCart => cart.id \in CartId) /\ shift \in Shift \cup {0}
    BY DEF SInv, TInv, TypeOK, Cart
  <2>3. \A i, l : Asks(k, i, l).kind = k /\ Asks(k, i, l).id = i
    BY DEF Asks, Idle
  <2> QED
    BY <2>1, <2>2, <2>3 DEF Issue, Names, CartKind
<1> DEFINE q == Asks(k, i, l)
<1>3. q \in Call /\ q.stage # "deleteShift" /\ Names(q)
  BY <1>2 DEF Asks, Idle, Call, Stage, NoCart
<1>4. NoNewDeletion(c)
  <2>1. [q EXCEPT !.stage = "offline"] \in Call
        /\ [q EXCEPT !.stage = "offline"].stage # "deleteShift"
    BY <1>3 DEF Call, Stage
  <2> HIDE DEF q
  <2>2. Start(c, q)
    BY <1>2 DEF q
  <2> QED
    BY <1>3, <2>1, <2>2, SettleDeletion, StartOnlineSwitchDeletion, StartOfflineSwitchDeletion
       DEF Start, SInv
<1> QED
  BY <1>1, <1>4, KeptDeletion DEF Remembers

LEMMA NextShifts ==
    ASSUME SInv, [Next]_vars
    PROVE  CopyMade' /\ (Remembers \/ \E c \in Callers : OfflineShiftDeleted(c))
<1>1. CASE \E k \in {"StartSession", "EndSession"} : RepeatSettled(k)
  BY <1>1 DEF RepeatSettled, stores, SInv, CopyMade, Remembers, SeenOnline, Seen
<1>2. CASE ScanDue
  BY <1>2 DEF ScanDue, session, stores, SInv, CopyMade, Remembers, SeenOnline, Seen
<1>3. CASE Restart
  BY <1>3 DEF Restart, Idle, stores, CopyMade, Remembers, SeenOnline, Seen
<1>4. CASE UNCHANGED vars
  BY <1>4 DEF vars, session, stores, SInv, CopyMade, Remembers, SeenOnline, Seen
<1> QED
  BY <1>1, <1>2, <1>3, <1>4, SwitchStepShifts, RequestStepShifts, IssueShifts DEF Next

LEMMA SafeInvariant == Spec => []SInv
<1>1. Init => SInv
  BY InitTyped DEF Init, Idle, SInv, CopyMade
<1>2. SInv /\ [Next]_vars => SInv'
  BY NextTyped, NextShifts DEF SInv
<1> QED
  BY <1>1, <1>2, PTL DEF Spec

\* In every system of callers, the shift is lost by no other step than the deletion
\* of the offline copy by a transfer that had copied another shift.
THEOREM ShiftLoss == Spec => ShiftLostOnlyByStaleDelete
<1>1. ASSUME SInv, SInv', [Next]_vars
      PROVE  [ ShiftKnown /\ ~ShiftKnown'
               => \E c \in Callers : OfflineShiftDeleted(c) /\ call[c].moved # shift ]_vars
  <2> SUFFICES ASSUME ShiftKnown, ~ShiftKnown'
               PROVE  \E c \in Callers : OfflineShiftDeleted(c) /\ call[c].moved # shift
    OBVIOUS
  <2>1. (shift # 0 => shift \in Seen) /\ shift' # 0 /\ shift' \notin Seen'
    BY DEF ShiftKnown, Seen
  <2>2. ~Remembers
    BY <2>1 DEF Remembers
  <2>3. PICK c \in Callers : OfflineShiftDeleted(c)
    BY <1>1, <2>2, NextShifts
  <2>4. shift' = shift /\ SeenOnline' = SeenOnline
    BY <1>1, <2>3 DEF OfflineShiftDeleted, session, SeenOnline, SInv, TInv, TypeOK, Store
  <2>5. call[c].moved \in SeenOnline
    BY <1>1, <2>3 DEF OfflineShiftDeleted, SInv, CopyMade
  <2>6. call[c].moved # shift
    BY <2>1, <2>4, <2>5 DEF SeenOnline, Seen
  <2> QED
    BY <2>3, <2>6
<1> QED
  BY <1>1, SafeInvariant, PTL DEF Spec, ShiftLostOnlyByStaleDelete

-----------------------------------------------------------------------------
(* One source of requests. *)

\* What a transfer to online has captured is the session's shift.
MovedIsShift == \A c \in Callers :
    call[c].stage \in {"onlineShift", "deleteShift"} => call[c].moved = shift

\* When there is one source of requests, every step that changes the session's shift is
\* the end of the only request there is.
LEMMA OneCallerStep ==
    ASSUME NEW c \in Callers, Callers = {c}, SInv, MovedIsShift, [Next]_vars
    PROVE  MovedIsShift'
<1> DEFINE Transferring == {"onlineShift", "deleteShift"}
<1>0. call[c] \in Call /\ call \in [Callers -> Call] /\ shift \in Shift \cup {0}
  BY DEF SInv, TInv, TypeOK
<1>1. \A q : Settle(c, q) => call'[c] = q
  BY <1>0 DEF Settle
<1>2. \A s : Move(c, s) => call'[c].stage = s /\ call'[c].moved = call[c].moved
  BY <1>0, <1>1 DEF Move, Call
<1>3. Finish(c) => call'[c].stage \notin Transferring
  BY <1>1 DEF Finish, Idle
<1>4. AfterOnlineSwitch(c) => call'[c].stage \notin Transferring
  BY <1>2, <1>3 DEF AfterOnlineSwitch
<1>5. ASSUME NEW q \in Call, q.stage \notin Transferring, StartOnlineSwitch(c, q)
      PROVE  call'[c].stage \in Transferring => call'[c].moved = shift
  <2>1. /\ [q EXCEPT !.stage = "dispatch"].stage \notin Transferring
        /\ [q EXCEPT !.stage = "onlineShift", !.moved = shift].moved = shift
    BY <1>5 DEF Call
  <2>2. Idle.stage \notin Transferring
    BY DEF Idle
  <2> QED
    BY <1>1, <1>5, <2>1, <2>2 DEF StartOnlineSwitch
<1>6. ASSUME NEW q \in Call, StartOfflineSwitch(c, q)
      PROVE  call'[c].stage \notin Transferring
  <2>1. [q EXCEPT !.stage = "offlineShift", !.moved = shift].stage \notin Transferring
    BY <1>6 DEF Call
  <2> QED
    BY <1>1, <1>3, <1>6, <2>1 DEF StartOfflineSwitch
<1>7. CASE SwitchStep(c)
  <2>1. CASE OnlineShiftStored(c)
    BY <1>2, <1>4, <2>1 DEF OnlineShiftStored, MovedIsShift
  <2>2. CASE OnlineShiftUnavailable(c) \/ OnlineTransferRefused(c) \/ WentOnline(c)
                \/ OfflineTransferFailed(c)
    BY <1>3, <1>4, <2>2 DEF OnlineShiftUnavailable, OnlineTransferRefused, WentOnline,
                            OfflineTransferFailed, MovedIsShift
  <2>3. CASE OfflineShiftDeleted(c)
    BY <1>2, <2>3 DEF OfflineShiftDeleted, MovedIsShift
  <2>4. CASE OfflineShiftStored(c)
    <3>1. [call[c] EXCEPT !.stage = "offlineCart", !.clone = cart].stage \notin Transferring
      BY <1>0 DEF Call
    <3> QED
      BY <1>1, <2>4, <3>1 DEF OfflineShiftStored, MovedIsShift
  <2>5. CASE WentOffline(c)
    <3>1. [call[c] EXCEPT !.stage = "fallback", !.clone = NoCart].stage \notin Transferring
      BY <1>0 DEF Call
    <3> QED
      BY <1>1, <1>3, <2>5, <3>1 DEF WentOffline, MovedIsShift
  <2> QED
    BY <1>7, <2>1, <2>2, <2>3, <2>4, <2>5 DEF SwitchStep
<1>8. CASE RequestStep(c)
  <2>1. CASE Dispatch(c)
    BY <1>2, <2>1 DEF Dispatch, MovedIsShift
  <2>2. CASE OnlineDone(c)
    BY <1>2, <1>3, <2>2 DEF OnlineDone, MovedIsShift
  <2>3. CASE OnlineRefused(c) \/ OfflineFailed(c) \/ OfflineLogonSettled(c)
    BY <1>3, <2>3 DEF OnlineRefused, OfflineFailed, OfflineLogonSettled, MovedIsShift
  <2>4. CASE OnlineUnavailable(c)
    BY <1>0, <1>2, <1>3, <1>6, <2>4 DEF OnlineUnavailable, MovedIsShift
  <2>5. CASE OfflineDone(c)
    <3>1. [call[c] EXCEPT !.stage = "offlineShift", !.moved = shift].stage \notin Transferring
      BY <1>0 DEF Call
    <3> QED
      BY <1>1, <1>3, <2>5, <3>1 DEF OfflineDone, MovedIsShift
  <2> QED
    BY <1>8, <2>1, <2>2, <2>3, <2>4, <2>5 DEF RequestStep
<1>9. CASE \E k \in Kind : Issue(c, k)
  <2>1. PICK k \in Kind : Issue(c, k)
    BY <1>9
  <2>2. shift' = shift
    BY <2>1 DEF Issue, session
  <2>3. PICK i \in CartId \cup Shift \cup {0}, l \in Line \cup {0} : Start(c, Asks(k, i, l))
    <3>1. /\ nextCart <= MaxCarts => nextCart \in CartId
          /\ nextShift <= MaxShifts => nextShift \in Shift
          /\ nextLine <= MaxLines => nextLine \in Line
      BY DEF SInv, TInv, TypeOK, CartId, Shift, Line
    <3>2. cart # NoCart => cart.id \in CartId
      BY DEF SInv, TInv, TypeOK, Cart
    <3> QED
      BY <1>0, <2>1, <3>1, <3>2 DEF Issue
  <2> DEFINE q == Asks(k, i, l)
  <2>4. q \in Call /\ q.stage \notin Transferring
    BY DEF Asks, Idle, Call, Stage, NoCart
  <2>5. [q EXCEPT !.stage = "offline"].stage \notin Transferring
    BY <2>4 DEF Call
  <2>6. Start(c, q)
    BY <2>3
  <2> HIDE DEF q
  <2>7. call'[c].stage \in Transferring => call'[c].moved = shift
    <3>1. CASE StartOnlineSwitch(c, q)
      BY <1>5, <2>4, <3>1
    <3>2. CASE StartOfflineSwitch(c, q)
      BY <1>6, <2>4, <3>2
    <3>3. CASE Settle(c, q) \/ Settle(c, [q EXCEPT !.stage = "offline"])
      BY <1>1, <2>4, <2>5, <3>3
    <3> QED
      BY <2>6, <3>1, <3>2, <3>3 DEF Start
  <2> QED
    BY <2>2, <2>7 DEF MovedIsShift
<1>10. CASE Restart
  BY <1>10 DEF Restart, MovedIsShift, Idle
<1>11. CASE \E k \in {"StartSession", "EndSession"} : RepeatSettled(k)
  BY <1>11 DEF RepeatSettled, MovedIsShift
<1>12. CASE ScanDue \/ UNCHANGED vars
  BY <1>12 DEF ScanDue, vars, session, MovedIsShift
<1> QED
  BY <1>7, <1>8, <1>9, <1>10, <1>11, <1>12 DEF Next

\* With one source of requests, whatever fails, is lost or restarts, the session's
\* shift is always known to a store.
THEOREM ShiftAlwaysKnown ==
    ASSUME NEW c \in Callers, Callers = {c}
    PROVE  Spec => []ShiftKnown
<1> DEFINE Inv == SInv /\ MovedIsShift /\ ShiftKnown
<1>1. Init => Inv
  BY InitTyped DEF Init, Idle, SInv, CopyMade, MovedIsShift, ShiftKnown
<1>2. Inv /\ [Next]_vars => Inv'
  <2> SUFFICES ASSUME Inv, [Next]_vars
               PROVE  SInv' /\ MovedIsShift' /\ ShiftKnown'
    OBVIOUS
  <2>1. SInv'
    BY NextTyped, NextShifts DEF SInv
  <2>2. MovedIsShift'
    BY OneCallerStep
  <2>3. ShiftKnown'
    <3>1. CASE Remembers
      BY <3>1 DEF Remembers, ShiftKnown, Seen
    <3>2. CASE \E d \in Callers : OfflineShiftDeleted(d)
      <4>1. OfflineShiftDeleted(c)
        BY <3>2
      <4>2. shift' = shift /\ SeenOnline' = SeenOnline
        BY <4>1 DEF OfflineShiftDeleted, session, SeenOnline, SInv, TInv, TypeOK, Store
      <4>3. shift \in SeenOnline
        BY <4>1 DEF OfflineShiftDeleted, SInv, CopyMade, MovedIsShift
      <4> QED
        BY <4>2, <4>3 DEF SeenOnline, ShiftKnown
    <3> QED
      BY <3>1, <3>2, NextShifts
  <2> QED
    BY <2>1, <2>2, <2>3
<1> QED
  BY <1>1, <1>2, PTL DEF Spec

-----------------------------------------------------------------------------
(* The connected store holds the session.  With one source of requests a        *)
(* request, a transfer and the session's cart determine each other's place: the  *)
(* invariant HInv says where each stage finds them.                              *)

\* Where the request q may be: a request that changes a store is with the connected one,
\* except the closing of a shift, which always goes to Retail Server.
RequestPlaced(q) ==
    /\ q.stage = "online" => status = "Online" \/ q.kind \in OnlineOnly \cup SessionKind
    /\ q.stage = "offline" => /\ status # "Online" \/ q.kind \in SessionKind \cup {"syncStatus"}
                              /\ q.kind \notin OnlineOnly
    /\ q.stage = "fallback" => IF q.kind \in SessionKind THEN status = "Online"
                               ELSE status = "SeamlessOffline" /\ q.kind \notin OnlineOnly

\* What a transfer of the session has captured and copied at each of its stages.
TransferPlaced(q) ==
    /\ q.stage \in {"onlineShift", "deleteShift", "shiftDeleted"} =>
         status # "Online" /\ cart = NoCart /\ q.moved = shift
    /\ q.stage \in {"deleteShift", "shiftDeleted"} => shift \in openShifts["online"]
    /\ q.stage \in {"offlineShift", "offlineCart"} => status = "Online" /\ q.moved = shift
    /\ q.stage = "offlineCart" =>
         q.clone = cart /\ (shift # 0 => shift \in openShifts["offline"])

\* A request about a cart is about the session's, and a new cart has a number of its own.
CartNamed(q) ==
    q.stage # "idle" =>
        /\ q.kind \in {"addLine", "checkout"} => cart # NoCart /\ cart.id = q.id
        /\ q.kind = "createCart" => cart = NoCart /\ q.id < nextCart

Placed == \A c \in Callers :
    RequestPlaced(call[c]) /\ TransferPlaced(call[c]) /\ CartNamed(call[c])

\* No copy of the session's cart in the connected store lacks a line the cashier has seen.
LinesKept == \A x \in cartsAt[ConnectedStore] :
    cart # NoCart /\ x.id = cart.id => cart.lines \subseteq x.lines

\* What the connected store holds.
SessionHeld ==
    /\ shift # 0 /\ (\A c \in Callers : call[c].stage # "shiftDeleted")
            => shift \in openShifts[ConnectedStore]
    /\ cart # NoCart => \E x \in cartsAt[ConnectedStore] : x.id = cart.id

\* A cart that may still be concluded has not been.
Unsold ==
    /\ \A i \in CartId : sales[i] <= 1 /\ (i >= nextCart => sales[i] = 0)
    /\ cart # NoCart => sales[cart.id] = 0 /\ cart.id < nextCart
    /\ \A c \in Callers : call[c].stage # "idle" /\ call[c].kind = "createCart"
            => sales[call[c].id] = 0

HInv == Placed /\ LinesKept /\ (~faulted => SessionHeld /\ Unsold)

\* The request of a caller after a step.
LEMMA CallAfter ==
    ASSUME TInv, NEW c \in Callers
    PROVE  /\ \A q : Settle(c, q) => call'[c] = q
           /\ \A s : Move(c, s) =>
                 /\ call'[c].stage = s /\ call'[c].kind = call[c].kind
                 /\ call'[c].id = call[c].id /\ call'[c].moved = call[c].moved
           /\ Finish(c) => call'[c].stage = "idle"
           /\ AfterOnlineSwitch(c) =>
                 \/ call'[c].stage = "idle"
                 \/ /\ call'[c].stage = "dispatch" /\ call'[c].kind = call[c].kind
                    /\ call'[c].id = call[c].id
<1>1. call[c] \in Call /\ call \in [Callers -> Call]
  BY DEF TInv, TypeOK
<1>2. \A q : Settle(c, q) => call'[c] = q
  BY <1>1 DEF Settle
<1>3. \A s : Move(c, s) =>
          /\ call'[c].stage = s /\ call'[c].kind = call[c].kind
          /\ call'[c].id = call[c].id /\ call'[c].moved = call[c].moved
  BY <1>1, <1>2 DEF Move, Call
<1>4. Finish(c) => call'[c].stage = "idle"
  BY <1>2 DEF Finish, Idle
<1> QED
  BY <1>2, <1>3, <1>4 DEF AfterOnlineSwitch

\* A request between two stores, or none, only has to be about the right cart.
LEMMA PlacedQuiet ==
    ASSUME Placed, NEW c \in Callers, Callers = {c},
           \/ call'[c].stage = "idle"
           \/ /\ call'[c].stage \in {"dispatch", "offlineLogon"} /\ call[c].stage # "idle"
              /\ call'[c].kind = call[c].kind /\ call'[c].id = call[c].id
              /\ cart' = cart /\ nextCart' = nextCart
    PROVE  Placed'
<1>1. RequestPlaced(call[c])' /\ TransferPlaced(call[c])'
  BY DEF RequestPlaced, TransferPlaced
<1>2. CartNamed(call[c])'
  BY DEF Placed, CartNamed
<1> QED
  BY <1>1, <1>2 DEF Placed

\* The request goes on, or ends, and nothing is sold.
LEMMA UnsoldQuiet ==
    ASSUME Unsold, NEW c \in Callers, Callers = {c}, UNCHANGED <<cart, sales, nextCart>>,
           \/ call'[c].stage = "idle"
           \/ call[c].stage # "idle" /\ call'[c].kind = call[c].kind /\ call'[c].id = call[c].id
    PROVE  Unsold'
<1>1. call'[c].stage # "idle" /\ call'[c].kind = "createCart" => sales'[call'[c].id] = 0
  BY DEF Unsold
<1> QED
  BY <1>1 DEF Unsold

LEMMA LinesQuiet ==
    ASSUME LinesKept, UNCHANGED <<cart, cartsAt>>, cart # NoCart => status' = status
    PROVE  LinesKept'
BY DEF LinesKept, ConnectedStore

\* The steps of the switch to online.
LEMMA OnlineSwitchHeld ==
    ASSUME SInv, HInv, NEW c \in Callers, Callers = {c},
           OnlineShiftStored(c) \/ OnlineShiftUnavailable(c) \/ OnlineTransferRefused(c)
                \/ OfflineShiftDeleted(c) \/ WentOnline(c)
    PROVE  HInv'
<1>0. /\ TInv /\ call[c] \in Call /\ shift \in Shift \cup {0} /\ 0 \notin Shift
      /\ openShifts \in [Store -> SUBSET Shift]
      /\ Placed /\ LinesKept /\ RequestPlaced(call[c]) /\ TransferPlaced(call[c])
      /\ CartNamed(call[c])
      /\ ~faulted => SessionHeld /\ Unsold
  BY DEF SInv, TInv, TypeOK, HInv, Placed, Shift
<1>1. /\ call[c].stage \in {"onlineShift", "deleteShift", "shiftDeleted"}
      /\ status # "Online" /\ cart = NoCart /\ call[c].moved = shift
      /\ UNCHANGED <<cart, shift, cartsAt, sales, nextCart>>
  BY <1>0 DEF OnlineShiftStored, OnlineShiftUnavailable, OnlineTransferRefused,
     OfflineShiftDeleted, WentOnline, TransferPlaced, session, stores, fresh
<1>2. LinesKept'
  BY <1>0, <1>1, LinesQuiet
<1>3. /\ \/ call'[c].stage = "idle"
         \/ call[c].stage # "idle" /\ call'[c].kind = call[c].kind /\ call'[c].id = call[c].id
      /\ ~faulted' => ~faulted
  BY <1>0, <1>1, CallAfter DEF OnlineShiftStored, OnlineShiftUnavailable, OnlineTransferRefused,
     OfflineShiftDeleted, WentOnline, Fault
<1>4. ~faulted' => Unsold'
  BY <1>0, <1>1, <1>3, UnsoldQuiet
<1>5. CASE OnlineShiftStored(c) /\ call[c].moved # 0
  <2>1. /\ call'[c].stage = "deleteShift" /\ call'[c].kind = call[c].kind
        /\ call'[c].id = call[c].id /\ call'[c].moved = call[c].moved
        /\ openShifts' = [openShifts EXCEPT !["online"] = @ \cup {call[c].moved}]
        /\ UNCHANGED <<status, faulted>> /\ call[c].stage = "onlineShift"
    BY <1>0, <1>5, CallAfter DEF OnlineShiftStored
  <2>2. /\ shift \in openShifts'["online"] /\ openShifts'["offline"] = openShifts["offline"]
    BY <1>0, <1>1, <2>1 DEF Store
  <2>3. RequestPlaced(call[c])' /\ TransferPlaced(call[c])' /\ CartNamed(call[c])'
    BY <1>0, <1>1, <2>1, <2>2 DEF RequestPlaced, TransferPlaced, CartNamed
  <2>4. ~faulted' => SessionHeld'
    BY <1>0, <1>1, <2>1, <2>2 DEF SessionHeld, ConnectedStore
  <2> QED
    BY <1>2, <1>4, <2>3, <2>4 DEF HInv, Placed
<1>6. CASE OnlineShiftUnavailable(c) \/ OnlineTransferRefused(c)
           \/ (OnlineShiftStored(c) /\ call[c].moved = 0) \/ WentOnline(c)
  <2>1. \/ call'[c].stage = "idle"
        \/ call'[c].stage = "dispatch" /\ call'[c].kind = call[c].kind /\ call'[c].id = call[c].id
    BY <1>0, <1>6, CallAfter DEF OnlineShiftStored, OnlineShiftUnavailable,
       OnlineTransferRefused, WentOnline
  <2>2. Placed'
    BY <1>0, <1>1, <2>1, PlacedQuiet
  <2>3. ~faulted' => SessionHeld'
    <3>1. CASE OnlineShiftUnavailable(c) \/ OnlineTransferRefused(c)
      <4>1. status' = status /\ (~faulted' => openShifts' = openShifts)
            /\ call[c].stage # "shiftDeleted"
        BY <3>1 DEF OnlineShiftUnavailable, OnlineTransferRefused, session, stores, Fault
      <4> QED
        BY <1>0, <1>1, <1>3, <4>1 DEF SessionHeld, ConnectedStore
    <3>2. CASE OnlineShiftStored(c) /\ call[c].moved = 0
      BY <1>1, <3>2 DEF SessionHeld
    <3>3. CASE WentOnline(c)
      <4>1. status' = "Online" /\ openShifts' = openShifts /\ shift \in openShifts["online"]
        BY <1>0, <3>3 DEF WentOnline, stores, TransferPlaced
      <4> QED
        BY <1>1, <4>1 DEF SessionHeld, ConnectedStore
    <3> QED
      BY <1>6, <3>1, <3>2, <3>3
  <2> QED
    BY <1>2, <1>4, <2>2, <2>3 DEF HInv
<1>7. CASE OfflineShiftDeleted(c)
  <2>1. /\ call'[c].stage = "shiftDeleted" /\ call'[c].kind = call[c].kind
        /\ call'[c].id = call[c].id /\ call'[c].moved = call[c].moved
        /\ call[c].stage = "deleteShift"
        /\ openShifts' = [openShifts EXCEPT !["offline"] = @ \ {shift}]
        /\ UNCHANGED <<status, faulted>>
    BY <1>0, <1>7, CallAfter DEF OfflineShiftDeleted, session
  <2>2. openShifts'["online"] = openShifts["online"]
    BY <1>0, <2>1 DEF Store
  <2>3. RequestPlaced(call[c])' /\ TransferPlaced(call[c])' /\ CartNamed(call[c])'
    BY <1>0, <1>1, <2>1, <2>2 DEF RequestPlaced, TransferPlaced, CartNamed
  <2>4. SessionHeld'
    BY <1>1, <2>1 DEF SessionHeld
  <2> QED
    BY <1>2, <1>4, <2>3, <2>4 DEF HInv, Placed
<1> QED
  BY <1>5, <1>6, <1>7

\* The steps of the switch to offline.
LEMMA OfflineSwitchHeld ==
    ASSUME SInv, HInv, NEW c \in Callers, Callers = {c},
           OfflineShiftStored(c) \/ WentOffline(c) \/ OfflineTransferFailed(c)
    PROVE  HInv'
<1>0. /\ TInv /\ call[c] \in Call /\ shift \in Shift \cup {0} /\ 0 \notin Shift
      /\ openShifts \in [Store -> SUBSET Shift] /\ cartsAt \in [Store -> SUBSET Cart]
      /\ cart \in Cart \cup {NoCart}
      /\ Placed /\ LinesKept /\ RequestPlaced(call[c]) /\ TransferPlaced(call[c])
      /\ CartNamed(call[c])
      /\ ~faulted => SessionHeld /\ Unsold
  BY DEF SInv, TInv, TypeOK, HInv, Placed, Shift
<1>1. /\ call[c].stage \in {"offlineShift", "offlineCart"} /\ status = "Online"
      /\ call[c].moved = shift /\ UNCHANGED <<shift, sales, nextCart, faulted>>
  BY <1>0 DEF OfflineShiftStored, WentOffline, OfflineTransferFailed, TransferPlaced,
     session, stores, fresh
<1>2. CASE OfflineShiftStored(c)
  <2>1. /\ call'[c] = [call[c] EXCEPT !.stage = "offlineCart", !.clone = cart]
        /\ openShifts' = IF call[c].moved = 0 THEN openShifts
                         ELSE [openShifts EXCEPT !["offline"] = @ \cup {call[c].moved}]
        /\ UNCHANGED <<status, cart, cartsAt>> /\ call[c].stage = "offlineShift"
    BY <1>0, <1>2, CallAfter DEF OfflineShiftStored, session
  <2>2. /\ call'[c].stage = "offlineCart" /\ call'[c].clone = cart /\ call'[c].moved = shift
        /\ call'[c].kind = call[c].kind /\ call'[c].id = call[c].id
    BY <1>0, <1>1, <2>1 DEF Call
  <2>3. /\ shift # 0 => shift \in openShifts'["offline"]
        /\ openShifts'["online"] = openShifts["online"]
    BY <1>0, <1>1, <2>1 DEF Store
  <2>4. RequestPlaced(call[c])' /\ TransferPlaced(call[c])' /\ CartNamed(call[c])'
    BY <1>0, <1>1, <2>1, <2>2, <2>3 DEF RequestPlaced, TransferPlaced, CartNamed
  <2>5. ~faulted' => SessionHeld'
    BY <1>0, <1>1, <2>1, <2>2, <2>3 DEF SessionHeld, ConnectedStore
  <2>6. ~faulted' => Unsold'
    BY <1>0, <1>1, <2>1, <2>2, UnsoldQuiet
  <2>7. LinesKept'
    BY <1>0, <2>1, LinesQuiet
  <2> QED
    BY <2>4, <2>5, <2>6, <2>7 DEF HInv, Placed
<1>3. CASE WentOffline(c)
  <2>1. /\ call[c].stage = "offlineCart" /\ openShifts' = openShifts
        /\ IF call[c].clone = NoCart THEN UNCHANGED <<cart, cartsAt>>
           ELSE cartsAt' = Put("offline", call[c].clone) /\ cart' = call[c].clone
        /\ status' # "Online"
        /\ status' = IF call[c].kind = "toggle" THEN "ManualOffline" ELSE "SeamlessOffline"
        /\ IF call[c].kind \in {"toggle"} \cup SessionKind \cup OnlineOnly
           THEN Finish(c) ELSE Settle(c, [call[c] EXCEPT !.stage = "fallback", !.clone = NoCart])
    BY <1>3 DEF WentOffline
  <2>2. /\ call[c].clone = cart /\ (shift # 0 => shift \in openShifts["offline"])
    BY <1>0, <2>1 DEF TransferPlaced
  <2>3. /\ cart' = cart
        /\ cart # NoCart =>
             /\ cart \in cartsAt'["offline"]
             /\ \A x \in cartsAt'["offline"] : x.id = cart.id => x = cart
    <3>1. cart # NoCart => cartsAt'["offline"] =
              {x \in cartsAt["offline"] : x.id # cart.id} \cup {cart}
      BY <1>0, <2>1, <2>2 DEF Put, Store
    <3> QED
      BY <2>1, <2>2, <3>1
  <2>4. \/ call'[c].stage = "idle"
        \/ /\ call'[c].stage = "fallback" /\ call'[c].kind = call[c].kind
           /\ call'[c].id = call[c].id
           /\ call[c].kind \notin {"toggle"} \cup SessionKind \cup OnlineOnly
    <3>1. Finish(c) => call'[c].stage = "idle"
      BY <1>0, CallAfter
    <3>2. Settle(c, [call[c] EXCEPT !.stage = "fallback", !.clone = NoCart]) =>
            /\ call'[c].stage = "fallback" /\ call'[c].kind = call[c].kind
            /\ call'[c].id = call[c].id
      BY <1>0, CallAfter DEF Call
    <3> QED
      BY <2>1, <3>1, <3>2
  <2>5. RequestPlaced(call[c])' /\ TransferPlaced(call[c])' /\ CartNamed(call[c])'
    BY <1>0, <1>1, <2>1, <2>3, <2>4 DEF RequestPlaced, TransferPlaced, CartNamed
  <2>6. SessionHeld' /\ LinesKept'
    BY <1>1, <2>1, <2>2, <2>3 DEF SessionHeld, LinesKept, ConnectedStore
  <2>7. ~faulted' => Unsold'
    BY <1>0, <1>1, <2>1, <2>3, <2>4, UnsoldQuiet
  <2> QED
    BY <2>5, <2>6, <2>7 DEF HInv, Placed
<1>4. CASE OfflineTransferFailed(c)
  <2>1. /\ call'[c].stage = "idle" /\ UNCHANGED <<session, stores, fresh, faulted>>
    BY <1>0, <1>4, CallAfter DEF OfflineTransferFailed
  <2>2. UNCHANGED <<status, shift, cart, openShifts, cartsAt, sales, nextCart>>
    BY <2>1 DEF session, stores, fresh
  <2>3. ~faulted' => SessionHeld'
    BY <1>0, <1>1, <2>1, <2>2 DEF SessionHeld, ConnectedStore
  <2>4. ~faulted' => Unsold'
    BY <1>0, <2>1, <2>2, UnsoldQuiet
  <2> QED
    BY <1>0, <2>1, <2>2, <2>3, <2>4, PlacedQuiet, LinesQuiet DEF HInv
<1> QED
  BY <1>2, <1>3, <1>4

\* The store a request is with: the connected one, if it is about a cart or opens a shift.
LEMMA ServedWhere ==
    ASSUME NEW q, RequestPlaced(q), NEW s \in Store,
           s = "online" => q.stage = "online",
           s = "offline" => q.stage \in {"offline", "fallback"}
    PROVE  /\ q.kind \in CartKind \cup {"openShift"} => s = ConnectedStore
           /\ q.kind = "closeShift" => s = "online"
BY DEF Store, RequestPlaced, CartKind, SessionKind, OnlineOnly, ConnectedStore

\* What a store does with a request about a cart, or to open a shift.
LEMMA ServeCarts ==
    ASSUME TInv, NEW s \in Store, NEW q \in Call, Names(q), NEW k \in Cart \cup {NoCart},
           Serve(s, q, k)
    PROVE  /\ q.kind = "createCart" =>
                /\ k.id = q.id /\ k.lines = {} /\ sales' = sales
                /\ cartsAt'[s] = {x \in cartsAt[s] : x.id # k.id} \cup {k}
           /\ q.kind = "addLine" =>
                /\ \E x \in cartsAt[s] : x.id = q.id /\ k.id = q.id /\ x.lines \subseteq k.lines
                /\ cartsAt'[s] = {x \in cartsAt[s] : x.id # k.id} \cup {k} /\ sales' = sales
           /\ q.kind = "checkout" =>
                /\ k = NoCart /\ cartsAt'[s] \subseteq cartsAt[s]
                /\ sales' = [sales EXCEPT ![q.id] = @ + 1] /\ q.id \in CartId
           /\ q.kind \notin CartKind => sales' = sales /\ cartsAt' = cartsAt
           /\ q.kind \in CartKind => openShifts' = openShifts
           /\ q.kind = "openShift" => /\ openShifts' = [openShifts EXCEPT ![s] = @ \cup {q.id}]
           /\ q.kind \notin CartKind \cup {"openShift", "closeShift"} => openShifts' = openShifts
<1> USE DEF TInv, TypeOK
<1>1. CASE q.kind = "createCart"
  BY <1>1 DEF Serve, CartKind, Put
<1>2. CASE q.kind = "addLine"
  <2>1. PICK x \in cartsAt[s] : x.id = q.id /\ k = Served(q, x)
    BY <1>2 DEF Serve, CartKind
  <2>2. x \in Cart
    BY <2>1
  <2>3. k.id = x.id /\ x.lines \subseteq k.lines
    BY <1>2, <2>1, <2>2 DEF Served, Cart
  <2> QED
    BY <1>2, <2>1, <2>3 DEF Serve, CartKind, Put
<1>3. CASE q.kind = "checkout"
  <2>1. PICK x \in cartsAt[s] : x.id = q.id
    BY <1>3 DEF Serve, CartKind
  <2>2. q.id \in CartId
    BY <2>1 DEF Cart
  <2> QED
    BY <1>3, <2>2 DEF Serve, CartKind
<1>4. CASE q.kind = "openShift"
  BY <1>4 DEF Serve, CartKind
<1>5. CASE q.kind = "closeShift"
  BY <1>5 DEF Serve, CartKind
<1>6. CASE q.kind \notin CartKind \cup {"openShift", "closeShift"}
  BY <1>6 DEF Serve, CartKind, stores
<1> QED
  BY <1>1, <1>2, <1>3, <1>4, <1>5, <1>6 DEF CartKind

\* Whatever a store does with a request, its copy of the session's cart keeps the lines,
\* whether the session learns of it or not.
LEMMA ServeLines ==
    ASSUME TInv, LinesKept, NEW s \in Store, NEW q \in Call, Names(q),
           NEW k \in Cart \cup {NoCart}, RequestPlaced(q), CartNamed(q), Serve(s, q, k),
           s = "online" => q.stage = "online",
           s = "offline" => q.stage \in {"offline", "fallback"},
           status' = status, cart' = cart \/ Accept(q, k)
    PROVE  /\ LinesKept'
           /\ cart'.id = cart.id => cart.lines \subseteq cart'.lines
<1>0. /\ cartsAt \in [Store -> SUBSET Cart] /\ NoCart.lines = {} /\ NoCart.id = 0
      /\ \A x \in Cart : x.id # 0 /\ x # NoCart
      /\ cart \in Cart \cup {NoCart} /\ ConnectedStore \in Store
      /\ ConnectedStore' = ConnectedStore
  BY DEF TInv, TypeOK, NoCart, Cart, CartId, ConnectedStore, Store
<1>1. q.kind \in CartKind => s = ConnectedStore
  BY ServedWhere
<1>2. q.stage # "idle"
  BY DEF Store
<1>3. CASE q.kind = "createCart"
  <2>1. /\ cart = NoCart /\ cart' \in {NoCart, k} /\ k.id = q.id /\ k.lines = {}
        /\ cartsAt'[ConnectedStore] = {x \in cartsAt[s] : x.id # k.id} \cup {k}
    BY <1>1, <1>2, <1>3, ServeCarts DEF CartNamed, Accept, CartKind
  <2>2. LinesKept'
    BY <1>0, <2>1 DEF LinesKept
  <2> QED
    BY <1>0, <2>1, <2>2
<1>4. CASE q.kind = "addLine"
  <2>1. s = ConnectedStore /\ cart # NoCart /\ cart.id = q.id /\ cart' \in {cart, k}
    BY <1>1, <1>2, <1>4 DEF CartNamed, Accept, CartKind
  <2>2. PICK x \in cartsAt[s] : x.id = q.id /\ k.id = q.id /\ x.lines \subseteq k.lines
    BY <1>4, ServeCarts
  <2>3. cartsAt'[s] = {y \in cartsAt[s] : y.id # k.id} \cup {k}
    BY <1>4, ServeCarts
  <2>4. cart.lines \subseteq k.lines
    BY <2>1, <2>2 DEF LinesKept
  <2>5. LinesKept'
    BY <1>0, <2>1, <2>2, <2>3, <2>4 DEF LinesKept
  <2> QED
    BY <2>1, <2>4, <2>5
<1>5. CASE q.kind = "checkout"
  <2>1. cart' \in {cart, NoCart} /\ cartsAt'[s] \subseteq cartsAt[s] /\ s = ConnectedStore
    BY <1>1, <1>5, ServeCarts DEF Accept, CartKind
  <2>2. LinesKept'
    BY <1>0, <2>1 DEF LinesKept
  <2>3. cart'.id = cart.id => cart' = cart
    BY <1>0, <2>1
  <2> QED
    BY <2>2, <2>3
<1>6. CASE q.kind \notin CartKind
  <2>1. cart' = cart /\ cartsAt' = cartsAt
    BY <1>6, ServeCarts DEF Accept
  <2> QED
    BY <1>0, <2>1 DEF LinesKept
<1> QED
  BY <1>3, <1>4, <1>5, <1>6 DEF CartKind

\* The session learns what the store did: the store still holds it.
LEMMA ServeHeld ==
    ASSUME SInv, HInv, ~faulted, NEW c \in Callers, Callers = {c}, NEW s \in Store,
           NEW k \in Cart \cup {NoCart}, Serve(s, call[c], k), Accept(call[c], k),
           s = "online" => call[c].stage = "online",
           s = "offline" => call[c].stage \in {"offline", "fallback"},
           status' = status, nextCart' = nextCart,
           call[c].kind \in CartKind => call'[c].stage = "idle",
           call'[c].stage # "idle" => call'[c].kind = call[c].kind
    PROVE  SessionHeld' /\ Unsold'
<1>0. /\ TInv /\ call[c] \in Call /\ Names(call[c]) /\ shift \in Shift \cup {0} /\ 0 \notin Shift
      /\ openShifts \in [Store -> SUBSET Shift] /\ cartsAt \in [Store -> SUBSET Cart]
      /\ sales \in [CartId -> Nat] /\ cart \in Cart \cup {NoCart}
      /\ \A x \in Cart : x.id \in CartId /\ x # NoCart
      /\ RequestPlaced(call[c]) /\ CartNamed(call[c]) /\ SessionHeld /\ Unsold
      /\ ConnectedStore \in Store /\ ConnectedStore' = ConnectedStore
      /\ call[c].stage \notin {"idle", "shiftDeleted"}
      /\ nextCart \in Nat /\ CartId \subseteq Nat
  <2>1. /\ \A x \in Cart : x.id \in CartId /\ x # NoCart
        /\ 0 \notin Shift /\ CartId \subseteq Nat
    BY DEF Shift, Cart, CartId, NoCart
  <2>2. nextCart \in Nat
    BY DEF SInv, TInv, TypeOK
  <2>3. /\ ConnectedStore \in Store /\ ConnectedStore' = ConnectedStore
        /\ call[c].stage \notin {"idle", "shiftDeleted"}
    BY DEF ConnectedStore, Store
  <2> QED
    BY <2>1, <2>2, <2>3 DEF SInv, TInv, TypeOK, HInv, Placed
<1>1. /\ call[c].kind \in CartKind \cup {"openShift"} => s = ConnectedStore
      /\ call[c].kind = "closeShift" => s = "online"
  BY <1>0, ServedWhere
<1>q. PICK q \in Call : q = call[c]
  BY <1>0
<1>2. shift' # 0 => shift' \in openShifts'[ConnectedStore]
  <2>1. CASE q.kind = "openShift"
    BY <1>0, <1>1, <1>q, <2>1, ServeCarts DEF Accept
  <2>2. CASE q.kind = "closeShift"
    BY <1>q, <2>2 DEF Accept
  <2>3. CASE q.kind \notin {"openShift", "closeShift"}
    <3>1. shift' = shift /\ openShifts' = openShifts
      BY <1>0, <1>q, <2>3, ServeCarts DEF Accept
    <3> QED
      BY <1>0, <3>1 DEF SessionHeld
  <2> QED
    BY <2>1, <2>2, <2>3
<1>3. cart' # NoCart => \E x \in cartsAt'[ConnectedStore] : x.id = cart'.id
  <2>1. CASE q.kind \in {"createCart", "addLine"}
    <3>1. cart' = k /\ k \in cartsAt'[ConnectedStore]
      BY <1>0, <1>1, <1>q, <2>1, ServeCarts DEF Accept, CartKind
    <3> QED
      BY <3>1
  <2>2. CASE q.kind = "checkout"
    BY <1>0, <1>q, <2>2, ServeCarts DEF Accept, CartKind
  <2>3. CASE q.kind \notin CartKind
    <3>1. cart' = cart /\ cartsAt' = cartsAt
      BY <1>0, <1>q, <2>3, ServeCarts DEF Accept
    <3> QED
      BY <1>0, <3>1 DEF SessionHeld
  <2> QED
    BY <2>1, <2>2, <2>3 DEF CartKind
<1>4. SessionHeld'
  BY <1>0, <1>2, <1>3 DEF SessionHeld
<1>5. call'[c].stage # "idle" => call'[c].kind # "createCart"
  BY DEF CartKind
<1>6. Unsold'
  <2>1. CASE q.kind = "createCart"
    <3>1. sales' = sales /\ cart' = k /\ k.id = q.id
      BY <1>0, <1>q, <2>1, ServeCarts DEF Accept, CartKind
    <3>2. sales[q.id] = 0 /\ q.id < nextCart
      BY <1>0, <1>q, <2>1 DEF Unsold, CartNamed
    <3> QED
      BY <1>0, <1>5, <3>1, <3>2 DEF Unsold
  <2>2. CASE q.kind = "addLine"
    <3>1. sales' = sales /\ cart' = k /\ k.id = q.id
      BY <1>0, <1>q, <2>2, ServeCarts DEF Accept, CartKind
    <3>2. cart # NoCart /\ cart.id = q.id
      BY <1>0, <1>q, <2>2 DEF CartNamed
    <3> QED
      BY <1>0, <1>5, <3>1, <3>2 DEF Unsold
  <2>3. CASE q.kind = "checkout"
    <3>1. /\ sales' = [sales EXCEPT ![q.id] = @ + 1] /\ q.id \in CartId /\ cart' = NoCart
      BY <1>0, <1>q, <2>3, ServeCarts DEF Accept, CartKind
    <3>2. cart # NoCart /\ cart.id = q.id
      BY <1>0, <1>q, <2>3 DEF CartNamed
    <3>3. sales[q.id] = 0 /\ q.id < nextCart
      BY <1>0, <3>2 DEF Unsold
    <3>4. \A i \in CartId : sales'[i] <= 1 /\ (i >= nextCart => sales'[i] = 0)
      BY <1>0, <3>1, <3>3 DEF Unsold
    <3> QED
      BY <1>0, <1>5, <3>1, <3>4 DEF Unsold
  <2>4. CASE q.kind \notin CartKind
    <3>1. cart' = cart /\ sales' = sales
      BY <1>0, <1>q, <2>4, ServeCarts DEF Accept
    <3> QED
      BY <1>0, <1>5, <3>1 DEF Unsold
  <2> QED
    BY <2>1, <2>2, <2>3, <2>4 DEF CartKind
<1> QED
  BY <1>4, <1>6

\* A request that the POS answers: with Retail Server's answer or the local store's.
LEMMA AnsweredHeld ==
    ASSUME SInv, HInv, NEW c \in Callers, Callers = {c}, OnlineDone(c) \/ OfflineDone(c)
    PROVE  HInv' /\ (cart'.id = cart.id => cart.lines \subseteq cart'.lines)
<1>0. /\ TInv /\ call[c] \in Call /\ Names(call[c]) /\ shift \in Shift \cup {0}
      /\ Placed /\ LinesKept /\ RequestPlaced(call[c]) /\ CartNamed(call[c])
      /\ (~faulted => SessionHeld /\ Unsold)
  BY DEF SInv, TInv, TypeOK, HInv, Placed
<1>1. PICK s \in Store, k \in Cart \cup {NoCart} :
          /\ Serve(s, call[c], k) /\ Accept(call[c], k)
          /\ s = "online" => OnlineDone(c) /\ call[c].stage = "online"
          /\ s = "offline" => OfflineDone(c) /\ call[c].stage \in {"offline", "fallback"}
  <2>1. CASE OnlineDone(c)
    <3>1. PICK k \in Cart \cup {NoCart} : Serve("online", call[c], k) /\ Accept(call[c], k)
      BY <2>1 DEF OnlineDone
    <3>2. call[c].stage = "online" /\ "online" \in Store
      BY <2>1 DEF OnlineDone, Store
    <3> QED
      BY <2>1, <3>1, <3>2
  <2>2. CASE OfflineDone(c)
    <3>1. PICK k \in Cart \cup {NoCart} : Serve("offline", call[c], k) /\ Accept(call[c], k)
      BY <2>2 DEF OfflineDone
    <3>2. call[c].stage \in {"offline", "fallback"} /\ "offline" \in Store
      BY <2>2 DEF OfflineDone, Store
    <3> QED
      BY <2>2, <3>1, <3>2
  <2> QED
    BY <2>1, <2>2
<1>2. /\ UNCHANGED <<status, nextCart, faulted>> /\ call[c].stage # "idle"
  BY DEF OnlineDone, OfflineDone, fresh
<1>3. LinesKept' /\ (cart'.id = cart.id => cart.lines \subseteq cart'.lines)
  BY <1>0, <1>1, <1>2, ServeLines
<1>4. call[c].kind \notin CartKind => cart' = cart
  BY <1>1 DEF Accept
<1>5. \/ call'[c].stage = "idle"
      \/ /\ call'[c].stage = "offlineLogon" /\ call[c].kind = "Token"
         /\ call'[c].kind = call[c].kind /\ call'[c].id = call[c].id
      \/ /\ call'[c].stage = "offlineShift" /\ call[c].kind \in SessionKind
         /\ call'[c].kind = call[c].kind /\ call'[c].id = call[c].id
         /\ call'[c].moved = shift /\ call[c].stage = "fallback"
  <2>1. CASE OnlineDone(c)
    BY <1>0, <2>1, CallAfter DEF OnlineDone
  <2>2. CASE OfflineDone(c)
    <3>1. Settle(c, [call[c] EXCEPT !.stage = "offlineShift", !.moved = shift]) =>
            /\ call'[c].stage = "offlineShift" /\ call'[c].moved = shift
            /\ call'[c].kind = call[c].kind /\ call'[c].id = call[c].id
      BY <1>0, CallAfter DEF Call
    <3>2. Finish(c) => call'[c].stage = "idle"
      BY <1>0, CallAfter
    <3> QED
      BY <2>2, <3>1, <3>2 DEF OfflineDone
  <2> QED
    BY <2>1, <2>2
<1>6. /\ call[c].kind \in CartKind => call'[c].stage = "idle"
      /\ call'[c].stage # "idle" => call'[c].kind = call[c].kind
  BY <1>5 DEF CartKind, SessionKind
<1>7. ~faulted' => SessionHeld' /\ Unsold'
  BY <1>0, <1>1, <1>2, <1>6, ServeHeld
<1>8. Placed'
  <2>1. CASE call'[c].stage \in {"idle", "offlineLogon"}
    BY <1>0, <1>2, <1>4, <1>5, <2>1, PlacedQuiet DEF CartKind
  <2>2. CASE call'[c].stage = "offlineShift"
    <3>1. shift' = shift /\ cart' = cart /\ status = "Online"
      BY <1>0, <1>1, <1>4, <1>5, <2>2 DEF Accept, SessionKind, CartKind, RequestPlaced
    <3>2. RequestPlaced(call[c])' /\ TransferPlaced(call[c])' /\ CartNamed(call[c])'
      BY <1>0, <1>2, <1>5, <2>2, <3>1 DEF RequestPlaced, TransferPlaced, CartNamed, SessionKind
    <3> QED
      BY <3>2 DEF Placed
  <2> QED
    BY <1>5, <2>1, <2>2
<1> QED
  BY <1>3, <1>7, <1>8 DEF HInv

\* The switch to offline that a request starts.
LEMMA StartOfflinePlaced ==
    ASSUME TInv, NEW c \in Callers, NEW q \in Call, StartOfflineSwitch(c, q)
    PROVE  \/ call'[c].stage = "idle"
           \/ /\ call'[c].stage = "offlineShift" /\ call'[c].kind = q.kind /\ call'[c].id = q.id
              /\ call'[c].moved = shift
<1>1. Settle(c, [q EXCEPT !.stage = "offlineShift", !.moved = shift]) =>
        /\ call'[c].stage = "offlineShift" /\ call'[c].moved = shift
        /\ call'[c].kind = q.kind /\ call'[c].id = q.id
  BY CallAfter DEF Call
<1>2. Finish(c) => call'[c].stage = "idle"
  BY CallAfter
<1> QED
  BY <1>1, <1>2 DEF StartOfflineSwitch

\* A request that is not answered: it fails, or is sent elsewhere.
LEMMA UnansweredHeld ==
    ASSUME SInv, HInv, NEW c \in Callers, Callers = {c},
           Dispatch(c) \/ OnlineRefused(c) \/ OnlineUnavailable(c) \/ OfflineFailed(c)
                \/ OfflineLogonSettled(c)
    PROVE  HInv'
<1>0. /\ TInv /\ call[c] \in Call /\ Names(call[c]) /\ shift \in Shift \cup {0}
      /\ Placed /\ LinesKept /\ RequestPlaced(call[c]) /\ CartNamed(call[c])
      /\ (~faulted => SessionHeld /\ Unsold)
  BY DEF SInv, TInv, TypeOK, HInv, Placed
<1>1. /\ call[c].stage \notin {"idle", "shiftDeleted"}
      /\ UNCHANGED <<status, shift, cart, nextCart>>
  BY DEF Dispatch, OnlineRefused, OnlineUnavailable, OfflineFailed, OfflineLogonSettled,
     session, fresh
<1>2. \/ call'[c].stage = "idle"
      \/ /\ call'[c].kind = call[c].kind /\ call'[c].id = call[c].id
         /\ \/ call'[c].stage = "offline" /\ status # "Online"
                  /\ call[c].kind \notin OnlineOnly
            \/ /\ call'[c].stage = "online"
               /\ status = "Online" \/ call[c].kind \in OnlineOnly \cup SessionKind
            \/ call'[c].stage = "fallback" /\ status = "Online" /\ call[c].kind \in SessionKind
            \/ call'[c].stage = "offlineShift" /\ status = "Online" /\ call'[c].moved = shift
  <2>1. CASE Dispatch(c)
    BY <1>0, <2>1, CallAfter DEF Dispatch
  <2>2. CASE OnlineUnavailable(c)
    BY <1>0, <2>2, CallAfter, StartOfflinePlaced DEF OnlineUnavailable, OnlineOnly, SessionKind
  <2>3. CASE OnlineRefused(c) \/ OfflineFailed(c) \/ OfflineLogonSettled(c)
    BY <1>0, <2>3, CallAfter DEF OnlineRefused, OfflineFailed, OfflineLogonSettled
  <2> QED
    BY <2>1, <2>2, <2>3
<1>3. Placed'
  <2>1. CASE call'[c].stage = "idle"
    BY <1>0, <2>1, PlacedQuiet
  <2>2. CASE call'[c].stage # "idle"
    <3>1. RequestPlaced(call[c])' /\ TransferPlaced(call[c])' /\ CartNamed(call[c])'
      BY <1>0, <1>1, <1>2, <2>2 DEF RequestPlaced, TransferPlaced, CartNamed
    <3> QED
      BY <3>1 DEF Placed
  <2> QED
    BY <2>1, <2>2
<1>4. CASE UNCHANGED <<openShifts, cartsAt, sales>> /\ faulted' = faulted
  <2>1. LinesKept'
    BY <1>0, <1>1, <1>4, LinesQuiet
  <2>2. ~faulted' => SessionHeld'
    BY <1>0, <1>1, <1>4 DEF SessionHeld, ConnectedStore
  <2>3. ~faulted' => Unsold'
    BY <1>0, <1>1, <1>2, <1>4, UnsoldQuiet
  <2> QED
    BY <1>3, <2>1, <2>2, <2>3 DEF HInv
<1>5. CASE /\ faulted' = TRUE /\ call[c].stage = "online"
           /\ \E k \in Cart \cup {NoCart} : Serve("online", call[c], k)
  <2>1. LinesKept'
    BY <1>0, <1>1, <1>5, ServeLines DEF Store
  <2> QED
    BY <1>3, <1>5, <2>1 DEF HInv
<1> QED
  BY <1>4, <1>5 DEF Dispatch, OnlineRefused, OnlineUnavailable, OfflineFailed,
     OfflineLogonSettled, stores, Fault

\* What starting a request leaves of it.
LEMMA StartPlaced ==
    ASSUME TInv, NEW c \in Callers, NEW q \in Call, Start(c, q), q.stage = "dispatch"
    PROVE  \/ call'[c].stage = "idle"
           \/ /\ call'[c].kind = q.kind /\ call'[c].id = q.id
              /\ \/ call'[c].stage = "dispatch"
                 \/ call'[c].stage = "offline" /\ q.kind = "syncStatus"
                 \/ /\ call'[c].stage = "onlineShift" /\ status # "Online" /\ cart = NoCart
                    /\ call'[c].moved = shift
                 \/ call'[c].stage = "offlineShift" /\ status = "Online" /\ call'[c].moved = shift
<1>1. StartOnlineSwitch(c, q) =>
        \/ call'[c].stage = "idle"
        \/ call'[c].stage = "dispatch" /\ call'[c].kind = q.kind /\ call'[c].id = q.id
        \/ /\ call'[c].stage = "onlineShift" /\ cart = NoCart /\ call'[c].moved = shift
           /\ call'[c].kind = q.kind /\ call'[c].id = q.id
  <2>1. Idle.stage = "idle"
    BY DEF Idle
  <2>2. Settle(c, [q EXCEPT !.stage = "onlineShift", !.moved = shift]) =>
          /\ call'[c].stage = "onlineShift" /\ call'[c].moved = shift
          /\ call'[c].kind = q.kind /\ call'[c].id = q.id
    BY CallAfter DEF Call
  <2>3. Settle(c, [q EXCEPT !.stage = "dispatch"]) =>
          call'[c].stage = "dispatch" /\ call'[c].kind = q.kind /\ call'[c].id = q.id
    BY CallAfter DEF Call
  <2>4. Settle(c, Idle) => call'[c].stage = "idle"
    BY CallAfter, <2>1
  <2> QED
    BY <2>2, <2>3, <2>4 DEF StartOnlineSwitch
<1>2. Settle(c, [q EXCEPT !.stage = "offline"]) =>
        call'[c].stage = "offline" /\ call'[c].kind = q.kind /\ call'[c].id = q.id
  BY CallAfter DEF Call
<1>3. Settle(c, q) => call'[c] = q
  BY CallAfter
<1> QED
  BY <1>1, <1>2, <1>3, StartOfflinePlaced DEF Start

LEMMA IssueHeld ==
    ASSUME SInv, HInv, NEW c \in Callers, Callers = {c}, NEW k \in Kind, Issue(c, k)
    PROVE  HInv'
<1>0. /\ TInv /\ shift \in Shift \cup {0} /\ Placed /\ LinesKept
      /\ nextCart \in Nat /\ sales \in [CartId -> Nat]
      /\ (~faulted => SessionHeld /\ Unsold) /\ call[c].stage = "idle"
  <2>1. nextCart \in Nat
    BY DEF SInv, TInv, TypeOK
  <2> QED
    BY <2>1 DEF SInv, TInv, TypeOK, HInv, Issue
<1>1. UNCHANGED <<status, shift, cart, openShifts, cartsAt, sales, faulted>>
  BY DEF Issue, session, stores
<1>2. PICK i \in CartId \cup Shift \cup {0}, l \in Line \cup {0} :
          /\ Start(c, Asks(k, i, l)) /\ nextCart' \in Nat /\ nextCart <= nextCart'
          /\ k \in {"addLine", "checkout"} => cart # NoCart /\ cart.id = i
          /\ k = "createCart" => cart = NoCart /\ i = nextCart /\ i < nextCart' /\ i \in CartId
  <2>1. /\ nextCart <= MaxCarts => nextCart \in CartId
        /\ nextShift <= MaxShifts => nextShift \in Shift
        /\ nextLine <= MaxLines => nextLine \in Line
    BY DEF SInv, TInv, TypeOK, CartId, Shift, Line
  <2>2. cart # NoCart => cart.id \in CartId
    BY DEF SInv, TInv, TypeOK, Cart
  <2> QED
    BY <1>0, <2>1, <2>2 DEF Issue, fresh, CartKind
<1>3. PICK q \in Call : q = Asks(k, i, l) /\ q.stage = "dispatch" /\ q.kind = k /\ q.id = i
  <2>1. Asks(k, i, l) \in Call
    BY DEF Asks, Idle, Call, Stage, NoCart
  <2>2. Asks(k, i, l).stage = "dispatch" /\ Asks(k, i, l).kind = k /\ Asks(k, i, l).id = i
    BY DEF Asks, Idle
  <2> QED
    BY <2>1, <2>2
<1>4. \/ call'[c].stage = "idle"
      \/ /\ call'[c].kind = k /\ call'[c].id = i
         /\ \/ call'[c].stage = "dispatch"
            \/ call'[c].stage = "offline" /\ k = "syncStatus"
            \/ /\ call'[c].stage = "onlineShift" /\ status # "Online" /\ cart = NoCart
               /\ call'[c].moved = shift
            \/ call'[c].stage = "offlineShift" /\ status = "Online" /\ call'[c].moved = shift
  <2>1. Start(c, q)
    BY <1>2, <1>3
  <2> QED
    BY <1>0, <1>3, <2>1, StartPlaced
<1>5. Placed'
  <2>1. CASE call'[c].stage = "idle"
    BY <1>0, <2>1, PlacedQuiet
  <2>2. CASE call'[c].stage # "idle"
    <3>1. RequestPlaced(call[c])' /\ TransferPlaced(call[c])'
      BY <1>1, <1>4, <2>2 DEF RequestPlaced, TransferPlaced, OnlineOnly
    <3>2. CartNamed(call[c])'
      BY <1>1, <1>2, <1>4, <2>2 DEF CartNamed
    <3> QED
      BY <3>1, <3>2 DEF Placed
  <2> QED
    BY <2>1, <2>2
<1>6. LinesKept'
  BY <1>0, <1>1, LinesQuiet
<1>7. ~faulted' => SessionHeld'
  BY <1>0, <1>1, <1>4 DEF SessionHeld, ConnectedStore
<1>8. ~faulted' => Unsold'
  <2> SUFFICES ASSUME ~faulted' PROVE Unsold'
    OBVIOUS
  <2>1. Unsold /\ CartId \subseteq Nat
    BY <1>0, <1>1 DEF CartId
  <2>2. cart # NoCart => cart.id \in Nat
    BY DEF SInv, TInv, TypeOK, Cart, CartId
  <2>3. call'[c].stage # "idle" /\ call'[c].kind = "createCart" => sales[call'[c].id] = 0
    BY <1>0, <1>2, <1>4, <2>1 DEF Unsold
  <2> QED
    BY <1>0, <1>1, <1>2, <2>1, <2>2, <2>3 DEF Unsold
<1> QED
  BY <1>5, <1>6, <1>7, <1>8 DEF HInv

LEMMA NextHeld ==
    ASSUME SInv, HInv, NEW c \in Callers, Callers = {c}, [Next]_vars
    PROVE  HInv'
<1>0. Placed /\ LinesKept /\ (~faulted => SessionHeld /\ Unsold)
  BY DEF HInv
<1>1. CASE SwitchStep(c)
  BY <1>1, OnlineSwitchHeld, OfflineSwitchHeld DEF SwitchStep
<1>2. CASE RequestStep(c)
  BY <1>2, AnsweredHeld, UnansweredHeld DEF RequestStep
<1>3. CASE \E k \in Kind : Issue(c, k)
  BY <1>3, IssueHeld
<1>4. CASE \/ \E k \in {"StartSession", "EndSession"} : RepeatSettled(k)
           \/ ScanDue
           \/ UNCHANGED vars
  <2>1. UNCHANGED <<status, shift, cart, call, openShifts, cartsAt, sales, nextCart, faulted>>
    BY <1>4 DEF RepeatSettled, ScanDue, vars, session, stores, fresh
  <2> QED
    BY <1>0, <2>1 DEF HInv, Placed, RequestPlaced, TransferPlaced, CartNamed, LinesKept,
       SessionHeld, Unsold, ConnectedStore
<1>5. CASE Restart
  <2>1. call'[c].stage = "idle" /\ faulted' = TRUE
    BY <1>5 DEF Restart, Fault, Idle
  <2>2. Placed'
    BY <1>0, <2>1, PlacedQuiet
  <2>3. LinesKept'
    BY <1>0, <1>5, LinesQuiet DEF Restart, stores
  <2> QED
    BY <2>1, <2>2, <2>3 DEF HInv
<1> QED
  BY <1>1, <1>2, <1>3, <1>4, <1>5 DEF Next

LEMMA HeldInvariant ==
    ASSUME NEW c \in Callers, Callers = {c}
    PROVE  Spec => [](SInv /\ HInv)
<1>1. Init => SInv /\ HInv
  <2> SUFFICES ASSUME Init PROVE SInv /\ HInv
    OBVIOUS
  <2>1. SInv
    BY InitTyped DEF Init, Idle, SInv, CopyMade
  <2>2. Placed
    BY DEF Init, Idle, Placed, RequestPlaced, TransferPlaced, CartNamed
  <2>3. LinesKept /\ SessionHeld /\ Unsold
    BY DEF Init, Idle, LinesKept, SessionHeld, Unsold
  <2> QED
    BY <2>1, <2>2, <2>3 DEF HInv
<1>2. SInv /\ HInv /\ [Next]_vars => (SInv /\ HInv)'
  BY NextTyped, NextShifts, NextHeld DEF SInv
<1> QED
  BY <1>1, <1>2, PTL DEF Spec

\* With one source of requests and until an answer is lost or the POS restarted, the store
\* the POS is connected to holds the open shift and the cart with every line the session
\* shows, for any number of lines, carts, shifts and switches.
THEOREM ConnectedStoreIsRight ==
    ASSUME NEW c \in Callers, Callers = {c}
    PROVE  Spec => []ConnectedStoreHoldsSession
<1>1. HInv => ConnectedStoreHoldsSession
  BY DEF HInv, LinesKept, SessionHeld, ConnectedStoreHoldsSession
<1> QED
  BY <1>1, HeldInvariant, PTL

\* Under the same conditions no cart is concluded twice: the copy that stays behind in the
\* store the POS left is never asked for again.
THEOREM CartsSoldOnce ==
    ASSUME NEW c \in Callers, Callers = {c}
    PROVE  Spec => []SoldOnce
<1>1. HInv => SoldOnce
  BY DEF HInv, Unsold, SoldOnce
<1> QED
  BY <1>1, HeldInvariant, PTL

\* With one source of requests, whatever fails, is lost or restarts, no step takes a line the
\* cashier has seen out of the cart.
THEOREM LinesNeverLost ==
    ASSUME NEW c \in Callers, Callers = {c}
    PROVE  Spec => CartNeverRollsBack
<1>1. ASSUME SInv, HInv, [Next]_vars
      PROVE  [cart'.id = cart.id => cart.lines \subseteq cart'.lines]_vars
  <2> SUFFICES ASSUME Next PROVE cart'.id = cart.id => cart.lines \subseteq cart'.lines
    BY <1>1 DEF vars
  <2>1. CASE OnlineDone(c) \/ OfflineDone(c)
    BY <1>1, <2>1, AnsweredHeld
  <2>2. CASE WentOffline(c)
    <3>1. call[c].stage = "offlineCart" => call[c].clone = cart
      BY <1>1 DEF HInv, Placed, TransferPlaced
    <3>2. cart' = cart
      BY <2>2, <3>1 DEF WentOffline
    <3> QED
      BY <3>2
  <2>3. ASSUME ~(OnlineDone(c) \/ OfflineDone(c) \/ WentOffline(c))
        PROVE  cart' = cart
    BY <2>3 DEF Next, SwitchStep, RequestStep, Issue, RepeatSettled, ScanDue, Restart,
       OnlineShiftStored, OnlineShiftUnavailable, OnlineTransferRefused, OfflineShiftDeleted,
       WentOnline, OfflineShiftStored, OfflineTransferFailed, Dispatch, OnlineRefused,
       OnlineUnavailable, OfflineFailed, OfflineLogonSettled, session
  <2> QED
    BY <2>1, <2>2, <2>3
<1> QED
  BY <1>1, HeldInvariant, PTL DEF Spec, CartNeverRollsBack
=============================================================================
