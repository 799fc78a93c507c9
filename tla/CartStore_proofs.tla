---------------------------- MODULE CartStore_proofs ----------------------------
(***************************************************************************)
(* What the cart keeps for every number of requests, payments and terminals  *)
(* and every bound.                                                          *)
(***************************************************************************)
EXTENDS CartStore, TLAPS

(* Types. *)

CallType == [stage : {"idle", "payment", "save", "saveFailed", "reload", "order", "delete"},
             kind : Kind \cup {"none"}, payment : Payments \cup {NoPayment},
             acted : SUBSET Cards, cart : Cart, removed : Nat]

LEMMA StatusKnown == TenderStatus = {"none", "PendingCommit", "Committed", "Voided"}
  BY DEF TenderStatus

LEMMA NoCartTyped == NoCart \in Cart /\ NoTenders \in Tenders
  BY DEF NoCart, Cart, NoTenders, Tenders, TenderStatus

LEMMA NoCallTyped == NoCall \in CallType
  BY NoCartTyped DEF NoCall, CallType

\* A call replaced by another of its type.
LEMMA CallReplaced ==
    ASSUME call \in [Requests -> CallType], NEW c \in Requests, NEW new \in CallType,
           call' = [call EXCEPT ![c] = new]
    PROVE call' \in [Requests -> CallType]
  OBVIOUS

LEMMA EndsTyped ==
    ASSUME call \in [Requests -> CallType], NEW c \in Requests, Ends(c)
    PROVE call' \in [Requests -> CallType]
  BY NoCallTyped, CallReplaced DEF Ends

LEMMA TypeUnfolded ==
    TypeOK <=>
      /\ row \in Cart
      /\ versions \in 0 .. MaxVersions
      /\ order \in [Terminals -> [kind : {"none", "sale", "void"}, lines : Nat, tenders : Tenders]]
      /\ processor \in [Cards -> TenderStatus]
      /\ captures \in [Cards -> Nat]
      /\ call \in [Requests -> CallType]
      /\ overlapped \in BOOLEAN
      /\ faults \in 0 .. MaxFaults
      /\ lost \subseteq Cards
  BY Zenon DEF TypeOK, CallType

LEMMA InitTyped == Init => TypeOK
<1> SUFFICES ASSUME Init PROVE TypeOK
  OBVIOUS
<1>1. call \in [Requests -> CallType]
  BY NoCallTyped DEF Init
<1>2. order \in [Terminals -> [kind : {"none", "sale", "void"}, lines : Nat, tenders : Tenders]]
  BY NoCartTyped DEF Init, NoOrder
<1>3. row \in Cart
  BY NoCartTyped DEF Init
<1>4. overlapped \in BOOLEAN
  BY Zenon DEF Init
<1>5. versions \in 0 .. MaxVersions /\ faults \in 0 .. MaxFaults /\ lost \subseteq Cards
  BY ConstantsAssumption DEF Init, ConstantsAssumption
<1>6. processor \in [Cards -> TenderStatus] /\ captures \in [Cards -> Nat]
  BY StatusKnown DEF Init
<1> QED
  BY <1>1, <1>2, <1>3, <1>4, <1>5, <1>6, TypeUnfolded

LEMMA StartsTyped ==
    ASSUME TypeOK, NEW c \in Requests, NEW kind \in Kind, NEW p \in Payments \cup {NoPayment},
           NEW n \in Nat, NEW cart \in Cart, Starts(c, kind, p, n, cart)
    PROVE TypeOK'
<1> DEFINE new == [stage |-> FirstStage(kind), kind |-> kind, payment |-> p,
                   acted |-> {}, cart |-> cart, removed |-> n]
<1>1. FirstStage(kind) \in {"payment", "order", "save"}
  BY SMT DEF FirstStage
<1>2. new \in CallType
  BY <1>1 DEF CallType
<1>3. call' \in [Requests -> CallType]
  BY <1>2, TypeUnfolded, CallReplaced DEF Starts
<1>4. overlapped' \in BOOLEAN
  BY Zenon DEF Starts
<1> QED
  BY <1>3, <1>4, TypeUnfolded DEF TypeOK, CallType, Starts

LEMMA LoadTyped ==
    ASSUME TypeOK, NEW c \in Requests, NEW kind \in Kind, NEW p \in Payments \cup {NoPayment},
           NEW t \in Terminals, NEW n \in 0 .. row.lines,
           Load(c, kind, p, t, n)
    PROVE TypeOK'
<1>1. row \in Cart
  BY DEF TypeOK
<1>2. row.lines \in Nat /\ row.lines + 1 \in Nat /\ n \in Nat /\ row.lines - n \in Nat
  BY <1>1 DEF Cart
<1>3. Changed(kind, t, n) \in Cart
  <2>1. kind = "saveCart" => Changed(kind, t, n) \in Cart
    BY <1>1, <1>2 DEF Changed, Cart
  <2>2. kind = "suspend" => Changed(kind, t, n) \in Cart
    BY <1>1 DEF Changed, Cart
  <2>3. kind \in {"getCart", "resume"} => Changed(kind, t, n) \in Cart
    BY <1>1, <1>2 DEF Changed, Cart
  <2>4. kind = "voidTransaction" => Changed(kind, t, n) \in Cart
    BY <1>1 DEF Changed, Cart
  <2>5. kind \in {"addTender", "voidTender", "checkout"} => Changed(kind, t, n) \in Cart
    BY <1>1 DEF Changed
  <2> QED
    BY <2>1, <2>2, <2>3, <2>4, <2>5 DEF Kind
<1> QED
  BY <1>2, <1>3, StartsTyped DEF Load

LEMMA CreateTyped ==
    ASSUME TypeOK, NEW c \in Requests, NEW t \in Terminals, NEW n \in 1 .. MaxLines,
           Create(c, t, n)
    PROVE TypeOK'
<1>0. n \in Nat
  BY ConstantsAssumption DEF ConstantsAssumption
<1>1. [NoCart EXCEPT !.lines = n, !.terminal = t] \in Cart
  BY <1>0, NoCartTyped DEF Cart
<1>2. "saveCart" \in Kind
  BY DEF Kind
<1> QED
  BY <1>1, <1>2, StartsTyped DEF Create

\* A step of a call that puts another record in its place and leaves the rest.
LEMMA ProcessedTyped ==
    ASSUME TypeOK, NEW c \in Requests, NEW p \in Payments \cup {NoPayment},
           NEW s \in TenderStatus, NEW stage \in {"payment", "save"}, Processed(c, p, s, stage)
    PROVE call' \in [Requests -> CallType]
<1> DEFINE old == call[c]
           tenders == [old.cart.tenders EXCEPT ![p] = s]
           new == [old EXCEPT !.cart = [@ EXCEPT !.tenders = tenders],
                              !.acted = @ \cup ({p} \cap Cards), !.stage = stage]
<1>1. old \in CallType
  BY TypeUnfolded
<1>2. old.cart \in Cart
  BY <1>1 DEF CallType
<1>3. tenders \in Tenders
  BY <1>2 DEF Cart, Tenders
<1>4. [old.cart EXCEPT !.tenders = tenders] \in Cart
  BY <1>2, <1>3 DEF Cart
<1>5. new \in CallType
  BY <1>1, <1>4 DEF CallType
<1>6. call' = [call EXCEPT ![c] = new]
  BY TypeUnfolded DEF Processed, CallType
<1> QED
  BY <1>5, <1>6, TypeUnfolded, CallReplaced

LEMMA ProcessorTyped ==
    ASSUME TypeOK, NEW p, NEW s \in TenderStatus, ProcessorHas(p, s)
    PROVE processor' \in [Cards -> TenderStatus]
  BY DEF TypeOK, ProcessorHas

LEMMA PaymentTyped ==
    ASSUME TypeOK, NEW c \in Requests,
           \/ Authorize(c) \/ CancelPayment(c) \/ Declined(c) \/ CaptureFails(c)
           \/ \E p \in Cards : Capture(c, p)
    PROVE TypeOK'
<1>0. call[c] \in CallType /\ call[c].payment \in Payments \cup {NoPayment}
  BY TypeUnfolded DEF CallType
<1>1. ASSUME Authorize(c) PROVE TypeOK'
  <2> DEFINE p == call[c].payment
             s == IF p \in Cards THEN "PendingCommit" ELSE "Committed"
  <2>1. s \in TenderStatus
    BY StatusKnown
  <2>2. Processed(c, p, s, "save") /\ ProcessorHas(p, s)
    BY <1>1 DEF Authorize
  <2> HIDE DEF p, s
  <2>3. p \in Payments \cup {NoPayment}
    BY <1>0 DEF p
  <2>4. call' \in [Requests -> CallType] /\ processor' \in [Cards -> TenderStatus]
    BY <2>1, <2>2, <2>3, ProcessedTyped, ProcessorTyped
  <2> QED
    BY <1>1, <2>4, TypeUnfolded DEF TypeOK, CallType, Authorize
<1>2. ASSUME CancelPayment(c) PROVE TypeOK'
  <2>1. "Voided" \in TenderStatus
    BY StatusKnown
  <2>2. call' \in [Requests -> CallType] /\ processor' \in [Cards -> TenderStatus]
    BY <1>0, <1>2, <2>1, ProcessedTyped, ProcessorTyped DEF CancelPayment
  <2> QED
    BY <1>2, <2>2, TypeUnfolded DEF TypeOK, CallType, CancelPayment
<1>3. ASSUME Declined(c) PROVE TypeOK'
  <2>1. call' \in [Requests -> CallType]
    BY <1>3, TypeUnfolded, EndsTyped DEF Declined
  <2> QED
    BY <1>3, <2>1, TypeUnfolded DEF TypeOK, CallType, Declined
<1>4. ASSUME CaptureFails(c) PROVE TypeOK'
  <2>1. [call[c] EXCEPT !.stage = "saveFailed"] \in CallType
    BY <1>0 DEF CallType
  <2>2. call' = [call EXCEPT ![c] = [call[c] EXCEPT !.stage = "saveFailed"]]
    BY <1>4 DEF CaptureFails
  <2>3. call' \in [Requests -> CallType]
    BY <2>1, <2>2, TypeUnfolded, CallReplaced
  <2> QED
    BY <1>4, <2>3, TypeUnfolded DEF TypeOK, CallType, CaptureFails
<1>5. ASSUME NEW p \in Cards, Capture(c, p) PROVE TypeOK'
  <2>1. "Committed" \in TenderStatus /\ p \in Payments
    BY StatusKnown, ConstantsAssumption DEF ConstantsAssumption
  <2>2. call' \in [Requests -> CallType] /\ processor' \in [Cards -> TenderStatus]
    BY <1>5, <2>1, ProcessedTyped, ProcessorTyped DEF Capture
  <2>3. captures' \in [Cards -> Nat]
    BY <1>5 DEF Capture, TypeOK
  <2> QED
    BY <1>5, <2>2, <2>3, TypeUnfolded DEF TypeOK, CallType, Capture
<1> QED
  BY <1>1, <1>2, <1>3, <1>4, <1>5

LEMMA SaveTyped == ASSUME TypeOK, NEW c \in Requests, Save(c) PROVE TypeOK'
<1>1. call[c] \in CallType /\ call[c].cart \in Cart
  BY TypeUnfolded DEF CallType
<1>2. versions \in Nat /\ MaxVersions \in Nat /\ versions < MaxVersions
  BY ConstantsAssumption DEF Save, TypeOK, ConstantsAssumption
<1>3. versions' \in 0 .. MaxVersions /\ versions + 1 \in Nat
  BY <1>2 DEF Save
<1>4. row' \in Cart
  BY <1>1, <1>3 DEF Save, Cart
<1>5. call' \in [Requests -> CallType]
  <2>1. CASE call[c].stage = "payment"
    <3> DEFINE new == [call[c] EXCEPT !.stage = "reload", !.acted = {}]
    <3>1. new \in CallType
      BY <1>1 DEF CallType
    <3>2. call' = [call EXCEPT ![c] = new]
      BY <2>1, TypeUnfolded DEF Save, CallType
    <3> QED
      BY <3>1, <3>2, TypeUnfolded, CallReplaced
  <2>2. CASE call[c].stage # "payment"
    BY <2>2, TypeUnfolded, EndsTyped DEF Save
  <2> QED
    BY <2>1, <2>2
<1> QED
  BY <1>3, <1>4, <1>5, TypeUnfolded DEF TypeOK, CallType, Save

LEMMA RefusedTyped == ASSUME TypeOK, NEW c \in Requests, SaveRefused(c) \/ Fails(c) PROVE TypeOK'
<1>1. call[c].acted \subseteq Cards
  BY TypeUnfolded DEF CallType
<1>2. call' \in [Requests -> CallType]
  BY TypeUnfolded, EndsTyped DEF SaveRefused, Fails
<1>3. lost' \subseteq Cards
  BY <1>1 DEF TypeOK, SaveRefused, Fails
<1>4. faults' \in 0 .. MaxFaults
  BY ConstantsAssumption DEF TypeOK, SaveRefused, Fails, ConstantsAssumption
<1> QED
  BY <1>2, <1>3, <1>4, TypeUnfolded DEF TypeOK, CallType, SaveRefused, Fails

LEMMA ReloadTyped == ASSUME TypeOK, NEW c \in Requests, Reload(c) PROVE TypeOK'
<1> DEFINE new == [call[c] EXCEPT !.stage = "order", !.cart = row]
<1>1. new \in CallType
  BY TypeUnfolded DEF CallType
<1>2. CASE Exists
  <2>1. call' = [call EXCEPT ![c] = new]
    BY <1>2, TypeUnfolded DEF Reload, CallType
  <2>2. call' \in [Requests -> CallType]
    BY <1>1, <2>1, TypeUnfolded, CallReplaced
  <2> QED
    BY <2>2, TypeUnfolded DEF TypeOK, CallType, Reload
<1>3. CASE ~Exists
  <2>1. call' \in [Requests -> CallType]
    BY <1>3, TypeUnfolded, EndsTyped DEF Reload
  <2> QED
    BY <2>1, TypeUnfolded DEF TypeOK, CallType, Reload
<1> QED
  BY <1>2, <1>3

\* The cart as the load leaves it, n lines shorter.
LEMMA ShorterCart ==
    ASSUME TypeOK, NEW n \in 1 .. row.lines
    PROVE /\ row \in Cart /\ n \in Nat /\ [row EXCEPT !.lines = @ - n] \in Cart
          /\ [row EXCEPT !.lines = @ - n].lines + n = row.lines
          /\ [row EXCEPT !.lines = @ - n].tenders = row.tenders
          /\ [row EXCEPT !.lines = @ - n].version = row.version
          /\ [row EXCEPT !.lines = @ - n].terminal = row.terminal
<1>1. row \in Cart /\ row.lines \in Nat /\ n \in Nat /\ row.lines - n \in Nat
  BY DEF TypeOK, Cart
<1> QED
  BY <1>1 DEF Cart

LEMMA RemovesAt ==
    ASSUME TypeOK, NEW c \in Requests, NEW n \in 1 .. row.lines, ReloadRemoves(c, n)
    PROVE /\ call'[c] \in CallType
          /\ call'[c].stage = "saveFailed" /\ call'[c].kind = call[c].kind
          /\ call'[c].acted = call[c].acted /\ call'[c].removed = n
          /\ call'[c].cart = [row EXCEPT !.lines = @ - n]
          /\ call' \in [Requests -> CallType]
          /\ \A d \in Requests : d # c => call'[d] = call[d]
<1> DEFINE cart == [row EXCEPT !.lines = @ - n]
           new == [call[c] EXCEPT !.stage = "saveFailed", !.cart = cart, !.removed = n]
<1>1. call[c] \in CallType /\ cart \in Cart /\ n \in Nat
  BY TypeUnfolded, ShorterCart
<1>2. call' = [call EXCEPT ![c] = new]
  BY TypeUnfolded DEF ReloadRemoves, CallType
<1> HIDE DEF cart
<1>3. new \in CallType
  BY <1>1 DEF CallType
<1>4. /\ new.stage = "saveFailed" /\ new.kind = call[c].kind /\ new.acted = call[c].acted
      /\ new.removed = n /\ new.cart = cart
  BY <1>1 DEF CallType
<1> HIDE DEF new
<1>5. call' \in [Requests -> CallType]
  BY <1>2, <1>3, TypeUnfolded, CallReplaced
<1>6. call'[c] = new /\ \A d \in Requests : d # c => call'[d] = call[d]
  BY <1>2, TypeUnfolded
<1> QED
  BY <1>3, <1>4, <1>5, <1>6 DEF cart

LEMMA RemovesTyped ==
    ASSUME TypeOK, NEW c \in Requests, NEW n \in 1 .. row.lines, ReloadRemoves(c, n)
    PROVE TypeOK'
<1>1. call' \in [Requests -> CallType]
  BY RemovesAt
<1> QED
  BY <1>1, TypeUnfolded DEF TypeOK, CallType, ReloadRemoves

LEMMA OrderTyped == ASSUME TypeOK, NEW c \in Requests, CreateSalesOrder(c) PROVE TypeOK'
<1> DEFINE t == call[c].cart.terminal
           new == [call[c] EXCEPT !.stage = "delete"]
<1>1. call[c] \in CallType /\ call[c].cart \in Cart
  BY TypeUnfolded DEF CallType
<1>2. CASE order[t] = NoOrder
  <2>1. OrderOf(c) \in [kind : {"none", "sale", "void"}, lines : Nat, tenders : Tenders]
    BY <1>1 DEF OrderOf, Cart
  <2>2. order' \in [Terminals -> [kind : {"none", "sale", "void"}, lines : Nat, tenders : Tenders]]
    BY <1>2, <2>1 DEF CreateSalesOrder, TypeOK
  <2>3. new \in CallType
    BY <1>1 DEF CallType
  <2>4. call' = [call EXCEPT ![c] = new]
    BY <1>2, TypeUnfolded DEF CreateSalesOrder, CallType
  <2>5. call' \in [Requests -> CallType]
    BY <2>3, <2>4, TypeUnfolded, CallReplaced
  <2> QED
    BY <2>2, <2>5, TypeUnfolded DEF TypeOK, CallType, CreateSalesOrder
<1>3. CASE order[t] # NoOrder
  <2>1. call' \in [Requests -> CallType]
    BY <1>3, TypeUnfolded, EndsTyped DEF CreateSalesOrder
  <2> QED
    BY <1>3, <2>1, TypeUnfolded DEF TypeOK, CallType, CreateSalesOrder
<1> QED
  BY <1>2, <1>3

LEMMA DeleteTyped == ASSUME TypeOK, NEW c \in Requests, DeleteCart(c) PROVE TypeOK'
<1>1. call' \in [Requests -> CallType]
  BY TypeUnfolded, EndsTyped DEF DeleteCart
<1>2. row' \in Cart
  BY NoCartTyped DEF DeleteCart
<1>3. lost' \subseteq Cards
  BY DEF TypeOK, DeleteCart
<1> QED
  BY <1>1, <1>2, <1>3, TypeUnfolded DEF TypeOK, CallType, DeleteCart

LEMMA NextTyped == TypeOK /\ [Next]_vars => TypeOK'
<1> SUFFICES ASSUME TypeOK, [Next]_vars PROVE TypeOK'
  OBVIOUS
<1>1. CASE UNCHANGED vars
  BY <1>1 DEF vars, TypeOK
<1>2. CASE Next
  <2> PICK c \in Requests :
        \/ \E kind \in Kind, p \in Payments \cup {NoPayment}, t \in Terminals, n \in 0 .. row.lines :
                Load(c, kind, p, t, n)
        \/ \E t \in Terminals, n \in 1 .. MaxLines : Create(c, t, n)
        \/ (Authorize(c) \/ CancelPayment(c) \/ Declined(c) \/ CaptureFails(c)
            \/ \E p \in Cards : Capture(c, p))
        \/ Save(c) \/ (SaveRefused(c) \/ Fails(c)) \/ Reload(c)
        \/ \E n \in 1 .. row.lines : ReloadRemoves(c, n)
        \/ CreateSalesOrder(c) \/ DeleteCart(c)
    BY <1>2, Zenon DEF Next
  <2> QED
    BY LoadTyped, CreateTyped, PaymentTyped, SaveTyped, RefusedTyped, ReloadTyped, RemovesTyped,
       OrderTyped, DeleteTyped, Zenon
<1> QED
  BY <1>1, <1>2

\* The row, the copies, the orders, the processor and the histories keep their types.
THEOREM TypeCorrect == Spec => []TypeOK
  BY InitTyped, NextTyped, PTL DEF Spec

-----------------------------------------------------------------------------
(* No save undoes another's.  A copy that may still be written has a version already     *)
(* given; if it is the row's, the copy goes on from what the row shows, the lines dropped  *)
(* for want of their products apart, and a request that has not yet paid or cancelled    *)
(* shows the very payments of the row.                                                  *)

Writable(c) == call[c].stage \in {"payment", "save", "saveFailed"}

\* A cart that may replace another of which n lines were dropped.
Extends(old, new, n) ==
    /\ old.lines <= new.lines + n
    /\ \A p \in Payments : old.tenders[p] # new.tenders[p] =>
            <<old.tenders[p], new.tenders[p]>> \in Progress

VersionsGiven == row.version <= versions /\ \A c \in Requests : call[c].cart.version <= versions

\* The tender line a request is about to pay or cancel, as it loaded it.
Untouched(c) ==
    /\ At(c, {"addTender"}, "payment") => call[c].cart.tenders[call[c].payment] = "none"
    /\ At(c, {"voidTender"}, "payment") =>
            IsVoidable(call[c].payment, call[c].cart.tenders[call[c].payment])
    /\ At(c, {"addTender", "voidTender"}, "payment") =>
            /\ call[c].payment \in Payments
            /\ Exists /\ call[c].cart.version = row.version => call[c].cart.tenders = row.tenders

CopyExtends(c) ==
    Writable(c) /\ Exists /\ call[c].cart.version = row.version =>
        Extends(row, call[c].cart, call[c].removed)

CopiesInv == VersionsGiven /\ \A c \in Requests : Untouched(c) /\ CopyExtends(c)

LEMMA ProgressSteps ==
    /\ <<"none", "PendingCommit">> \in Progress /\ <<"none", "Committed">> \in Progress
    /\ <<"PendingCommit", "Committed">> \in Progress
    /\ <<"PendingCommit", "Voided">> \in Progress /\ <<"Committed", "Voided">> \in Progress
    /\ \A a : <<a, "PendingCommit">> \in Progress => a = "none"
  BY DEF Progress

LEMMA InitCopies == Init => CopiesInv
  BY ConstantsAssumption
  DEF Init, CopiesInv, VersionsGiven, Untouched, CopyExtends, Writable, At, NoCall, NoCart,
      ConstantsAssumption

\* What a step leaves alone: a call that does not change keeps its part of the invariant as
\* long as the row stays, goes, or takes a version not given before.
LEMMA OthersKeep ==
    ASSUME TypeOK, CopiesInv, NEW c \in Requests, call'[c] = call[c],
           \/ row' = row
           \/ row'.version = 0
           \/ row'.version = versions + 1
    PROVE Untouched(c)' /\ CopyExtends(c)'
<1>1. row.version \in Nat /\ call[c].cart.version \in Nat /\ versions \in Nat
  BY TypeUnfolded DEF Cart, CallType
<1>2. Untouched(c) /\ CopyExtends(c) /\ call[c].cart.version <= versions
  BY DEF CopiesInv, VersionsGiven
<1>3. CASE row' = row
  BY <1>2, <1>3 DEF Untouched, CopyExtends, Writable, At, Exists, Extends, IsVoidable
<1>4. CASE row'.version = 0
  BY <1>2, <1>4 DEF Untouched, CopyExtends, Writable, At, Exists, IsVoidable
<1>5. CASE row'.version = versions + 1
  <2>1. call'[c].cart.version # row'.version
    BY <1>1, <1>2, <1>5
  <2> QED
    BY <1>2, <2>1 DEF Untouched, CopyExtends, Writable, At, Exists, IsVoidable
<1> QED
  BY <1>3, <1>4, <1>5

\* A call that has ended, or that no longer writes.
LEMMA OwnEnds ==
    ASSUME NEW c \in Requests, call'[c].stage \notin {"payment", "save", "saveFailed"}
    PROVE Untouched(c)' /\ CopyExtends(c)'
  BY DEF Untouched, CopyExtends, Writable, At

LEMMA CallAt ==
    ASSUME TypeOK, NEW c \in Requests
    PROVE /\ call[c] \in CallType /\ call[c].cart \in Cart
          /\ \A new : call' = [call EXCEPT ![c] = new] =>
                /\ call'[c] = new
                /\ \A d \in Requests : d # c => call'[d] = call[d]
  BY TypeUnfolded DEF CallType

LEMMA NoCallFields ==
    NoCall.stage = "idle" /\ NoCall.cart = NoCart /\ NoCart.version = 0 /\ NoCall.cart.version = 0
  BY DEF NoCall, NoCart

\* The invariant after a step of c: the others keep their part, the versions are given, and
\* c's own part is left to show.
LEMMA StepKeeps ==
    ASSUME TypeOK, CopiesInv, NEW c \in Requests,
           \A d \in Requests : d # c => call'[d] = call[d],
           row' = row \/ row'.version = 0 \/ row'.version = versions + 1,
           row'.version <= versions', versions <= versions', versions' \in Nat,
           call'[c].cart.version <= versions',
           Untouched(c)' /\ CopyExtends(c)'
    PROVE CopiesInv'
<1>1. \A d \in Requests : Untouched(d)' /\ CopyExtends(d)'
  BY OthersKeep
<1>2. \A d \in Requests : call'[d].cart.version <= versions'
  <2> TAKE d \in Requests
  <2>1. call[d].cart.version \in Nat /\ versions \in Nat /\ call[d].cart.version <= versions
    BY TypeUnfolded DEF CopiesInv, VersionsGiven, Cart, CallType
  <2> QED
    BY <2>1
<1> QED
  BY <1>1, <1>2 DEF CopiesInv, VersionsGiven

LEMMA EndsCopies ==
    ASSUME TypeOK, CopiesInv, NEW c \in Requests, Ends(c),
           row' = row \/ row'.version = 0 \/ row'.version = versions + 1,
           row'.version <= versions', versions <= versions', versions' \in Nat
    PROVE CopiesInv'
<1>1. call' = [call EXCEPT ![c] = NoCall]
  BY DEF Ends
<1>2. call'[c].stage = "idle"
  BY <1>1, CallAt, NoCallFields
<1>3. Untouched(c)' /\ CopyExtends(c)'
  BY <1>2, OwnEnds
<1>4. \A d \in Requests : d # c => call'[d] = call[d]
  BY <1>1, CallAt
<1>5. call'[c] = NoCall
  BY <1>1, CallAt
<1>6. call'[c].cart.version <= versions'
  BY <1>5, NoCallFields
<1> QED
  BY <1>3, <1>4, <1>6, StepKeeps

LEMMA RowVersion ==
    ASSUME TypeOK, CopiesInv
    PROVE versions \in Nat /\ row.version \in Nat /\ row.version <= versions
  BY DEF TypeOK, CopiesInv, VersionsGiven, Cart

LEMMA LoadCopies ==
    ASSUME TypeOK, CopiesInv, NEW c \in Requests, NEW kind \in Kind,
           NEW p \in Payments \cup {NoPayment}, NEW t \in Terminals, NEW n \in 0 .. row.lines,
           Load(c, kind, p, t, n)
    PROVE CopiesInv'
<1> DEFINE cart == Changed(kind, t, n)
           new == [stage |-> FirstStage(kind), kind |-> kind, payment |-> p,
                   acted |-> {}, cart |-> cart, removed |-> n]
<1>1. call' = [call EXCEPT ![c] = new] /\ row' = row /\ versions' = versions
  BY DEF Load, Starts
<1>2. row \in Cart
  BY DEF TypeOK
<1>3. /\ cart.version = row.version /\ cart.tenders = row.tenders
      /\ row.lines <= cart.lines + n
  <2>0. row.lines \in Nat /\ n \in Nat /\ row.lines - n \in Nat
    BY <1>2 DEF Cart
  <2>1. kind = "saveCart" => cart = [row EXCEPT !.lines = row.lines + 1]
    BY DEF Changed
  <2>2. kind \in {"suspend", "voidTransaction", "addTender", "voidTender", "checkout"} =>
            cart.version = row.version /\ cart.tenders = row.tenders /\ cart.lines = row.lines
    BY <1>2 DEF Changed, Cart
  <2>3. kind \in {"getCart", "resume"} =>
            cart.version = row.version /\ cart.tenders = row.tenders /\ cart.lines = row.lines - n
    BY <1>2 DEF Changed, Cart
  <2>4. \/ kind = "saveCart" \/ kind \in {"getCart", "resume"}
        \/ kind \in {"suspend", "voidTransaction", "addTender", "voidTender", "checkout"}
    BY DEF Kind
  <2> HIDE DEF cart
  <2>5. kind = "saveCart" =>
            cart.version = row.version /\ cart.tenders = row.tenders /\ cart.lines = row.lines + 1
    BY <1>2, <2>1 DEF Cart
  <2> QED
    BY <2>0, <2>2, <2>3, <2>4, <2>5
<1>4. Extends(row, cart, n)
  BY <1>3 DEF Extends
<1>5. call'[c] = new
  BY <1>1, CallAt
<1>6. CopyExtends(c)'
  BY <1>1, <1>4, <1>5 DEF CopyExtends, Writable, Exists, Extends
<1>7. Untouched(c)'
  <2> HIDE DEF cart
  <2>1. kind \in {"addTender", "voidTender"} => p \in Payments
    BY DEF Load
  <2>2. kind = "addTender" => row.tenders[p] = "none"
    BY DEF Load, Allowed
  <2>3. kind = "voidTender" => IsVoidable(p, row.tenders[p])
    BY DEF Load, Allowed
  <2>4. /\ call'[c].kind = kind /\ call'[c].payment = p /\ call'[c].cart = cart
    BY <1>5
  <2> HIDE DEF new
  <2> QED
    BY <1>1, <1>3, <2>1, <2>2, <2>3, <2>4 DEF Untouched, At, IsVoidable
<1>8. call'[c].cart.version = row.version
  BY <1>3, <1>5
<1>9. \A d \in Requests : d # c => call'[d] = call[d]
  BY <1>1, CallAt
<1> QED
  BY <1>1, <1>6, <1>7, <1>8, <1>9, RowVersion, StepKeeps

LEMMA CreateCopies ==
    ASSUME TypeOK, CopiesInv, NEW c \in Requests, NEW t \in Terminals, NEW n \in 1 .. MaxLines,
           Create(c, t, n)
    PROVE CopiesInv'
<1> DEFINE cart == [NoCart EXCEPT !.lines = n, !.terminal = t]
           new == [stage |-> FirstStage("saveCart"), kind |-> "saveCart", payment |-> NoPayment,
                   acted |-> {}, cart |-> cart, removed |-> 0]
<1>1. call' = [call EXCEPT ![c] = new] /\ row' = row /\ versions' = versions
  BY DEF Create, Starts
<1>2. cart.version = 0
  BY DEF NoCart
<1>3. ~Exists /\ row.version = 0
  BY DEF Create, Exists
<1>4. call'[c] = new
  BY <1>1, CallAt
<1>5. CopyExtends(c)'
  BY <1>1, <1>3 DEF CopyExtends, Exists
<1>6. Untouched(c)'
  BY <1>4 DEF Untouched, At
<1> HIDE DEF cart
<1>7. call'[c].cart.version = 0
  BY <1>2, <1>4
<1> HIDE DEF new
<1>8. call'[c].cart.version <= versions'
  BY <1>1, <1>7, RowVersion
<1>9. \A d \in Requests : d # c => call'[d] = call[d]
  BY <1>1, CallAt
<1> QED
  BY <1>1, <1>5, <1>6, <1>8, <1>9, RowVersion, StepKeeps

\* What an action on a payment does to a copy.
LEMMA ProcessedCopies ==
    ASSUME TypeOK, CopiesInv, NEW c \in Requests, NEW p \in Payments, NEW s \in TenderStatus,
           NEW stage \in {"payment", "save"}, Processed(c, p, s, stage),
           call[c].stage = "payment", stage = "payment" => call[c].kind = "checkout",
           Exists /\ call[c].cart.version = row.version =>
                row.tenders[p] = s \/ <<row.tenders[p], s>> \in Progress,
           UNCHANGED <<row, versions>>
    PROVE CopiesInv'
<1> DEFINE old == call[c]
           tenders == [old.cart.tenders EXCEPT ![p] = s]
           cart == [old.cart EXCEPT !.tenders = tenders]
           new == [old EXCEPT !.cart = cart, !.acted = @ \cup ({p} \cap Cards), !.stage = stage]
<1>1. old \in CallType /\ old.cart \in Cart /\ old.cart.tenders \in Tenders
  BY CallAt DEF Cart
<1>2. call' = [call EXCEPT ![c] = new]
  BY TypeUnfolded DEF Processed, CallType
<1>3. call'[c] = new
  BY <1>2, CallAt
<1>4. new.cart = cart /\ new.stage = stage /\ new.kind = old.kind
  BY <1>1 DEF CallType
<1>5. /\ cart.version = old.cart.version /\ cart.lines = old.cart.lines
      /\ cart.tenders = tenders /\ cart.version \in Nat
  BY <1>1 DEF Cart
<1>6. tenders[p] = s /\ \A q \in Payments : q # p => tenders[q] = old.cart.tenders[q]
  BY <1>1 DEF Tenders
<1>7. CopyExtends(c)
  BY DEF CopiesInv
<1>8. CopyExtends(c)'
  <2>1. ASSUME Exists, old.cart.version = row.version PROVE Extends(row, cart, old.removed)
    <3>1. Extends(row, old.cart, old.removed)
      BY <1>7, <2>1 DEF CopyExtends, Writable
    <3> HIDE DEF cart, tenders, old
    <3>2. \A q \in Payments : row.tenders[q] # cart.tenders[q] =>
            <<row.tenders[q], cart.tenders[q]>> \in Progress
      BY <1>5, <1>6, <2>1, <3>1 DEF Extends, old
    <3> QED
      BY <1>5, <3>1, <3>2 DEF Extends
  <2>2. /\ call'[c].cart = cart /\ cart.version = old.cart.version
        /\ call'[c].removed = call[c].removed
    BY <1>1, <1>3, <1>4, <1>5 DEF CallType
  <2> HIDE DEF cart, tenders, new, old
  <2>3. Exists' <=> Exists
    BY DEF Exists
  <2>4. Extends(row, cart, call[c].removed) => Extends(row, call[c].cart, call[c].removed)'
    BY <2>2 DEF Extends
  <2> QED
    BY <2>1, <2>2, <2>3, <2>4 DEF CopyExtends, old
<1>9. Untouched(c)'
  BY <1>3, <1>4 DEF Untouched, At
<1>10. old.cart.version <= versions
  BY DEF CopiesInv, VersionsGiven
<1>11. call'[c].cart.version <= versions
  BY <1>3, <1>4, <1>5, <1>10
<1>12. \A d \in Requests : d # c => call'[d] = call[d]
  BY <1>2, CallAt
<1> QED
  BY <1>8, <1>9, <1>11, <1>12, RowVersion, StepKeeps

LEMMA PaymentCopies ==
    ASSUME TypeOK, CopiesInv, NEW c \in Requests,
           \/ Authorize(c) \/ CancelPayment(c) \/ Declined(c) \/ CaptureFails(c)
           \/ \E p \in Cards : Capture(c, p)
    PROVE CopiesInv'
<1>1. Untouched(c) /\ CopyExtends(c)
  BY DEF CopiesInv
<1>2. ASSUME Authorize(c) PROVE CopiesInv'
  <2> DEFINE p == call[c].payment
             s == IF p \in Cards THEN "PendingCommit" ELSE "Committed"
  <2>1. p \in Payments /\ call[c].stage = "payment"
    BY <1>1, <1>2 DEF Untouched, At, Authorize
  <2>2. s \in TenderStatus /\ s \in {"PendingCommit", "Committed"}
    BY StatusKnown
  <2>3. Exists /\ call[c].cart.version = row.version => row.tenders[p] = "none"
    BY <1>1, <1>2 DEF Untouched, At, Authorize
  <2>4. Processed(c, p, s, "save") /\ UNCHANGED <<row, versions>>
    BY <1>2 DEF Authorize
  <2> HIDE DEF p, s
  <2>5. Exists /\ call[c].cart.version = row.version => <<row.tenders[p], s>> \in Progress
    BY <2>2, <2>3, ProgressSteps
  <2> QED
    BY <2>1, <2>2, <2>4, <2>5, ProcessedCopies
<1>3. ASSUME CancelPayment(c) PROVE CopiesInv'
  <2> DEFINE p == call[c].payment
  <2>1. p \in Payments /\ call[c].stage = "payment"
    BY <1>1, <1>3 DEF Untouched, At, CancelPayment
  <2>2. "Voided" \in TenderStatus
    BY StatusKnown
  <2>3. Exists /\ call[c].cart.version = row.version =>
            row.tenders[p] \in {"PendingCommit", "Committed"}
    BY <1>1, <1>3 DEF Untouched, At, CancelPayment, IsVoidable
  <2>4. Processed(c, p, "Voided", "save") /\ UNCHANGED <<row, versions>>
    BY <1>3 DEF CancelPayment
  <2> HIDE DEF p
  <2>5. Exists /\ call[c].cart.version = row.version => <<row.tenders[p], "Voided">> \in Progress
    BY <2>3, ProgressSteps
  <2> QED
    BY <2>1, <2>2, <2>4, <2>5, ProcessedCopies
<1>4. ASSUME Declined(c) PROVE CopiesInv'
  BY <1>4, RowVersion, EndsCopies DEF Declined
<1>5. ASSUME CaptureFails(c) PROVE CopiesInv'
  <2> DEFINE new == [call[c] EXCEPT !.stage = "saveFailed"]
  <2>1. call' = [call EXCEPT ![c] = new] /\ row' = row /\ versions' = versions
    BY <1>5 DEF CaptureFails
  <2>2. call'[c] = new
    BY <2>1, CallAt
  <2>3. /\ new.cart = call[c].cart /\ new.stage = "saveFailed"
        /\ new.removed = call[c].removed
    BY CallAt DEF CallType
  <2> HIDE DEF new
  <2>4. Writable(c)
    BY <1>5 DEF CaptureFails, Writable, At
  <2>5. Untouched(c)' /\ CopyExtends(c)'
    BY <1>1, <2>1, <2>2, <2>3, <2>4 DEF Untouched, CopyExtends, At, Exists, Extends
  <2>6. call'[c].cart.version <= versions'
    BY <2>1, <2>2, <2>3 DEF CopiesInv, VersionsGiven
  <2>7. \A d \in Requests : d # c => call'[d] = call[d]
    BY <2>1, CallAt
  <2> QED
    BY <2>1, <2>5, <2>6, <2>7, RowVersion, StepKeeps
<1>6. ASSUME NEW p \in Cards, Capture(c, p) PROVE CopiesInv'
  <2>1. p \in Payments /\ "Committed" \in TenderStatus
    BY StatusKnown, ConstantsAssumption DEF ConstantsAssumption
  <2>2. call[c].stage = "payment" /\ call[c].kind = "checkout"
    BY <1>6 DEF Capture, At
  <2>3. call[c].cart.tenders[p] = "PendingCommit"
    BY <1>6 DEF Capture, Pending
  <2>4. Exists /\ call[c].cart.version = row.version =>
            row.tenders[p] \in {"none", "PendingCommit"}
    BY <1>1, <2>1, <2>2, <2>3, ProgressSteps DEF CopyExtends, Writable, Extends
  <2>5. Exists /\ call[c].cart.version = row.version =>
            <<row.tenders[p], "Committed">> \in Progress
    BY <2>4, ProgressSteps
  <2>6. Processed(c, p, "Committed", "payment") /\ UNCHANGED <<row, versions>>
    BY <1>6 DEF Capture
  <2> QED
    BY <2>1, <2>2, <2>5, <2>6, ProcessedCopies
<1> QED
  BY <1>2, <1>3, <1>4, <1>5, <1>6

\* A save gives the row a version no copy has.
LEMMA SaveCopies == ASSUME TypeOK, CopiesInv, NEW c \in Requests, Save(c) PROVE CopiesInv'
<1>1. call[c] \in CallType /\ call[c].cart \in Cart
  BY CallAt
<1>2. row'.version = versions + 1 /\ versions' = versions + 1
  BY <1>1 DEF Save, Cart
<1>3. versions \in Nat
  BY RowVersion
<1>4. CASE call[c].stage = "payment"
  <2> DEFINE new == [call[c] EXCEPT !.stage = "reload", !.acted = {}]
  <2>1. call' = [call EXCEPT ![c] = new]
    BY <1>4, TypeUnfolded DEF Save, CallType
  <2>2. call'[c] = new
    BY <2>1, CallAt
  <2>3. new.cart = call[c].cart /\ new.stage = "reload"
    BY <1>1 DEF CallType
  <2> HIDE DEF new
  <2>4. Untouched(c)' /\ CopyExtends(c)'
    BY <2>2, <2>3, OwnEnds
  <2>5. call[c].cart.version \in Nat /\ call[c].cart.version <= versions
    BY <1>1 DEF CopiesInv, VersionsGiven, Cart
  <2>6. call'[c].cart.version <= versions'
    BY <1>2, <1>3, <2>2, <2>3, <2>5
  <2>7. \A d \in Requests : d # c => call'[d] = call[d]
    BY <2>1, CallAt
  <2> QED
    BY <1>2, <1>3, <2>4, <2>6, <2>7, StepKeeps
<1>5. CASE call[c].stage # "payment"
  BY <1>2, <1>3, <1>5, EndsCopies DEF Save
<1> QED
  BY <1>4, <1>5

LEMMA RefusedCopies ==
    ASSUME TypeOK, CopiesInv, NEW c \in Requests, SaveRefused(c) \/ Fails(c)
    PROVE CopiesInv'
  BY RowVersion, EndsCopies DEF SaveRefused, Fails

LEMMA ReloadCopies == ASSUME TypeOK, CopiesInv, NEW c \in Requests, Reload(c) PROVE CopiesInv'
<1>1. CASE Exists
  <2> DEFINE new == [call[c] EXCEPT !.stage = "order", !.cart = row]
  <2>1. call' = [call EXCEPT ![c] = new] /\ row' = row /\ versions' = versions
    BY <1>1, TypeUnfolded DEF Reload, CallType
  <2>2. call'[c] = new
    BY <2>1, CallAt
  <2>3. new.cart = row /\ new.stage = "order"
    BY CallAt DEF CallType
  <2> HIDE DEF new
  <2>4. Untouched(c)' /\ CopyExtends(c)'
    BY <2>2, <2>3, OwnEnds
  <2>5. call'[c].cart.version <= versions'
    BY <2>1, <2>2, <2>3, RowVersion
  <2>6. \A d \in Requests : d # c => call'[d] = call[d]
    BY <2>1, CallAt
  <2> QED
    BY <2>1, <2>4, <2>5, <2>6, RowVersion, StepKeeps
<1>2. CASE ~Exists
  BY <1>2, RowVersion, EndsCopies DEF Reload
<1> QED
  BY <1>1, <1>2

LEMMA RemovesCopies ==
    ASSUME TypeOK, CopiesInv, NEW c \in Requests, NEW n \in 1 .. row.lines, ReloadRemoves(c, n)
    PROVE CopiesInv'
<1>1. row' = row /\ versions' = versions
  BY DEF ReloadRemoves
<1> DEFINE cart == [row EXCEPT !.lines = @ - n]
<1>2. /\ cart.lines + n = row.lines /\ cart.tenders = row.tenders /\ cart.version = row.version
      /\ row.lines \in Nat
  BY ShorterCart DEF Cart
<1>3. /\ call'[c].stage = "saveFailed" /\ call'[c].cart = cart /\ call'[c].removed = n
      /\ \A d \in Requests : d # c => call'[d] = call[d]
  BY RemovesAt
<1> HIDE DEF cart
<1>4. Extends(row, cart, n)
  BY <1>2 DEF Extends
<1>5. CopyExtends(c)'
  BY <1>1, <1>3, <1>4 DEF CopyExtends, Extends
<1>6. Untouched(c)'
  BY <1>3 DEF Untouched, At
<1>7. call'[c].cart.version <= versions'
  BY <1>1, <1>2, <1>3, RowVersion
<1> QED
  BY <1>1, <1>3, <1>5, <1>6, <1>7, RowVersion, StepKeeps

LEMMA OrderCopies ==
    ASSUME TypeOK, CopiesInv, NEW c \in Requests, CreateSalesOrder(c)
    PROVE CopiesInv'
<1> DEFINE t == call[c].cart.terminal
<1>1. CASE order[t] = NoOrder
  <2> DEFINE new == [call[c] EXCEPT !.stage = "delete"]
  <2>1. call' = [call EXCEPT ![c] = new] /\ row' = row /\ versions' = versions
    BY <1>1, TypeUnfolded DEF CreateSalesOrder, CallType
  <2>2. call'[c] = new
    BY <2>1, CallAt
  <2>3. new.cart = call[c].cart /\ new.stage = "delete"
    BY CallAt DEF CallType
  <2> HIDE DEF new
  <2>4. Untouched(c)' /\ CopyExtends(c)'
    BY <2>2, <2>3, OwnEnds
  <2>5. call'[c].cart.version <= versions'
    BY <2>1, <2>2, <2>3 DEF CopiesInv, VersionsGiven
  <2>6. \A d \in Requests : d # c => call'[d] = call[d]
    BY <2>1, CallAt
  <2> QED
    BY <2>1, <2>4, <2>5, <2>6, RowVersion, StepKeeps
<1>2. CASE order[t] # NoOrder
  BY <1>2, RowVersion, EndsCopies DEF CreateSalesOrder
<1> QED
  BY <1>1, <1>2

LEMMA DeleteCopies == ASSUME TypeOK, CopiesInv, NEW c \in Requests, DeleteCart(c) PROVE CopiesInv'
  BY RowVersion, NoCallFields, EndsCopies DEF DeleteCart

LEMMA NextCopies == TypeOK /\ CopiesInv /\ [Next]_vars => CopiesInv'
<1> SUFFICES ASSUME TypeOK, CopiesInv, [Next]_vars PROVE CopiesInv'
  OBVIOUS
<1>1. CASE UNCHANGED vars
  BY <1>1 DEF vars, CopiesInv, VersionsGiven, Untouched, CopyExtends, Writable, At, Exists,
              Extends, IsVoidable
<1>2. CASE Next
  <2> PICK c \in Requests :
        \/ \E kind \in Kind, p \in Payments \cup {NoPayment}, t \in Terminals, n \in 0 .. row.lines :
                Load(c, kind, p, t, n)
        \/ \E t \in Terminals, n \in 1 .. MaxLines : Create(c, t, n)
        \/ (Authorize(c) \/ CancelPayment(c) \/ Declined(c) \/ CaptureFails(c)
            \/ \E p \in Cards : Capture(c, p))
        \/ Save(c) \/ (SaveRefused(c) \/ Fails(c)) \/ Reload(c)
        \/ \E n \in 1 .. row.lines : ReloadRemoves(c, n)
        \/ CreateSalesOrder(c) \/ DeleteCart(c)
    BY <1>2, Zenon DEF Next
  <2> QED
    BY LoadCopies, CreateCopies, PaymentCopies, SaveCopies, RefusedCopies, ReloadCopies,
       RemovesCopies, OrderCopies, DeleteCopies, Zenon
<1> QED
  BY <1>1, <1>2

\* What each kind of step leaves of a call.
LEMMA EndsAt ==
    ASSUME TypeOK, NEW c \in Requests, Ends(c)
    PROVE /\ call'[c].stage = "idle" /\ call'[c].kind = "none" /\ call'[c].acted = {}
          /\ call'[c].cart = NoCart
          /\ \A d \in Requests : d # c => call'[d] = call[d]
<1>1. call' = [call EXCEPT ![c] = NoCall]
  BY DEF Ends
<1>2. call'[c] = NoCall /\ \A d \in Requests : d # c => call'[d] = call[d]
  BY <1>1, CallAt
<1>3. NoCall.stage = "idle" /\ NoCall.kind = "none" /\ NoCall.acted = {} /\ NoCall.cart = NoCart
  BY DEF NoCall
<1> QED
  BY <1>2, <1>3

LEMMA SaveAt ==
    ASSUME TypeOK, NEW c \in Requests, Save(c)
    PROVE /\ row'.version = versions + 1 /\ row'.tenders = call[c].cart.tenders
          /\ row'.lines = call[c].cart.lines /\ row'.terminal = call[c].cart.terminal
          /\ \/ /\ call[c].stage = "payment" /\ call'[c].stage = "reload"
                /\ call'[c].kind = call[c].kind /\ call'[c].cart = call[c].cart
             \/ /\ call[c].stage # "payment" /\ call'[c].stage = "idle"
                /\ call'[c].kind = "none" /\ call'[c].cart = NoCart
          /\ \A d \in Requests : d # c => call'[d] = call[d]
<1>1. call[c] \in CallType /\ call[c].cart \in Cart
  BY CallAt
<1>2. row'.version = versions + 1 /\ row'.tenders = call[c].cart.tenders
      /\ row'.lines = call[c].cart.lines /\ row'.terminal = call[c].cart.terminal
  BY <1>1 DEF Save, Cart
<1>3. CASE call[c].stage = "payment"
  <2> DEFINE new == [call[c] EXCEPT !.stage = "reload", !.acted = {}]
  <2>1. call' = [call EXCEPT ![c] = new]
    BY <1>3, TypeUnfolded DEF Save, CallType
  <2>2. new.stage = "reload" /\ new.cart = call[c].cart /\ new.kind = call[c].kind
    BY <1>1 DEF CallType
  <2> HIDE DEF new
  <2> QED
    BY <1>2, <1>3, <2>1, <2>2, CallAt
<1>4. CASE call[c].stage # "payment"
  BY <1>2, <1>4, EndsAt DEF Save
<1> QED
  BY <1>3, <1>4

\* What SavesKeepLines says of a step.
LinesKept ==
    Exists /\ Exists' =>
        /\ row'.lines < row.lines => \E c \in Requests :
                /\ call'[c] # call[c] /\ call[c].cart.version = row.version
                /\ row.lines <= row'.lines + call[c].removed
        /\ \A p \in Payments : row.tenders[p] # row'.tenders[p] =>
                <<row.tenders[p], row'.tenders[p]>> \in Progress

\* The row is written by Save and DeleteCart only.
LEMMA RowWritten ==
    ASSUME TypeOK, CopiesInv, [Next]_vars, Exists, Exists'
    PROVE LinesKept
<1>1. row.lines \in Nat
  BY DEF TypeOK, Cart
<1>2. CASE row' = row
  BY <1>1, <1>2 DEF LinesKept
<1>3. ASSUME NEW c \in Requests, Save(c) PROVE LinesKept
  <2>1. call[c].cart \in Cart /\ row.version = call[c].cart.version
    BY <1>3, CallAt DEF Save, MayWrite
  <2>2. Writable(c) /\ CopyExtends(c)
    BY <1>3 DEF Save, ToSave, Writable, At, CopiesInv
  <2>3. Extends(row, call[c].cart, call[c].removed)
    BY <2>1, <2>2 DEF CopyExtends
  <2>4. row'.lines = call[c].cart.lines /\ row'.tenders = call[c].cart.tenders
    BY <1>3, <2>1 DEF Save, Cart
  <2>5. call'[c] # call[c]
    BY <1>3, <2>2, SaveAt DEF Writable
  <2> QED
    BY <2>1, <2>3, <2>4, <2>5 DEF Extends, LinesKept
<1>4. ASSUME NEW c \in Requests, DeleteCart(c) PROVE FALSE
  BY <1>4, NoCallFields DEF DeleteCart, Exists
<1>5. row' = row \/ (\E c \in Requests : Save(c)) \/ (\E c \in Requests : DeleteCart(c))
  BY DEF Next, vars, Load, Create, Starts, Authorize, CancelPayment, Declined, Capture,
         CaptureFails, SaveRefused, Reload, ReloadRemoves, CreateSalesOrder, Fails
<1> QED
  BY <1>2, <1>3, <1>4, <1>5

\* For any number of requests, failing anywhere: while the cart is there a save takes from it
\* only the lines its own request dropped, for want of their products, from that very row, and
\* no tender line back, so the row version refuses every stale copy.
THEOREM StaleSavesRefused == Spec => SavesKeepLines
<1>1. Init => TypeOK /\ CopiesInv
  BY InitTyped, InitCopies
<1>2. TypeOK /\ CopiesInv /\ [Next]_vars => (TypeOK /\ CopiesInv)'
  BY NextTyped, NextCopies
<1>3. TypeOK /\ CopiesInv /\ [Next]_vars => [LinesKept]_vars
  BY RowWritten DEF LinesKept
<1> QED
  BY <1>1, <1>2, <1>3, PTL DEF Spec, SavesKeepLines, LinesKept

-----------------------------------------------------------------------------
(* What the processor has done is shown.  A payment a request acted on is in its copy as  *)
(* the processor has it; one it did not act on is in its copy as in the row it may        *)
(* replace; one that was authorised and not saved is in no other cart; one the processor  *)
(* does not know is in none.                                                            *)

Quiet(c) ==
    (call[c].stage \in {"idle", "reload", "order", "delete"}
        \/ At(c, {"addTender", "voidTender"}, "payment"))
    => call[c].acted = {}

Told(c, q) == q \in call[c].acted => call[c].cart.tenders[q] = processor[q]

Kept(c, q) ==
    Writable(c) /\ Exists /\ call[c].cart.version = row.version /\ q \notin call[c].acted
        => call[c].cart.tenders[q] = row.tenders[q]

Sole(c, q) ==
    q \in call[c].acted /\ processor[q] = "PendingCommit"
        => /\ row.tenders[q] = "none"
           /\ \A d \in Requests : d # c => call[d].cart.tenders[q] = "none"

Unknown(q) ==
    processor[q] = "none"
        => /\ row.tenders[q] = "none"
           /\ \A c \in Requests : call[c].cart.tenders[q] = "none" /\ q \notin call[c].acted

Gone == ~Exists => row.tenders = NoTenders

Shown(q) ==
    \/ q \in lost
    \/ \E c \in Requests : q \in call[c].acted
    \/ processor[q] \in Ordered(q) \cup {row.tenders[q]}

CardsInv ==
    /\ Gone
    /\ \A c \in Requests : Quiet(c)
    /\ \A q \in Cards : Unknown(q) /\ Shown(q)
    /\ \A q \in Cards, c \in Requests : Told(c, q) /\ Kept(c, q) /\ Sole(c, q)

LEMMA ShownIsInv == CardsInv => PaymentsShown
  BY DEF CardsInv, Shown, PaymentsShown

LEMMA NoTendersNone == \A q \in Cards : NoTenders[q] = "none" /\ NoCart.tenders[q] = "none"
  BY ConstantsAssumption DEF ConstantsAssumption, NoTenders, NoCart

LEMMA InitCards == Init => CardsInv
<1> SUFFICES ASSUME Init PROVE CardsInv
  OBVIOUS
<1>1. \A c \in Requests : call[c].stage = "idle" /\ call[c].acted = {} /\ call[c].cart = NoCart
  BY DEF Init, NoCall
<1>2. row = NoCart /\ \A q \in Cards : processor[q] = "none"
  BY DEF Init
<1>3. Gone
  BY <1>2 DEF Gone, NoCart
<1>4. \A q \in Cards : Unknown(q) /\ Shown(q)
  BY <1>1, <1>2, NoTendersNone DEF Unknown, Shown
<1>5. \A c \in Requests : Quiet(c)
  BY <1>1 DEF Quiet
<1>6. \A q \in Cards, c \in Requests : Told(c, q) /\ Kept(c, q) /\ Sole(c, q)
  BY <1>1 DEF Told, Kept, Sole, Writable
<1> QED
  BY <1>3, <1>4, <1>5, <1>6 DEF CardsInv

\* A step that neither writes the row nor asks the processor.
LEMMA PlainStep ==
    ASSUME CardsInv, NEW c \in Requests,
           \A d \in Requests : d # c => call'[d] = call[d],
           row' = row, processor' = processor,
           \A q \in Cards : Ordered(q) \subseteq Ordered(q)' \cup {"none"},
           call'[c].acted \subseteq call[c].acted,
           call[c].acted \ call'[c].acted \subseteq lost', lost \subseteq lost',
           \A q \in Cards : call'[c].cart.tenders[q] \in
                                {call[c].cart.tenders[q], row.tenders[q], "none"},
           \A q \in call'[c].acted : call'[c].cart.tenders[q] = call[c].cart.tenders[q],
           Quiet(c)', \A q \in Cards : Kept(c, q)'
    PROVE CardsInv'
<1>1. Gone'
  BY DEF CardsInv, Gone, Exists
<1>2. \A d \in Requests : Quiet(d)'
  BY DEF CardsInv, Quiet, At
<1>3. ASSUME NEW q \in Cards PROVE Unknown(q)' /\ Shown(q)'
  <2>1. Unknown(q) /\ Shown(q)
    BY DEF CardsInv
  <2>2. Unknown(q)'
    BY <2>1 DEF Unknown
  <2>3. ASSUME NEW d \in Requests, q \in call[d].acted PROVE Shown(q)'
    BY <2>3 DEF Shown
  <2>4. ASSUME processor[q] \in Ordered(q) PROVE Shown(q)'
    <3>1. processor[q] \in Ordered(q)' \/ processor[q] = "none"
      BY <2>4
    <3> QED
      BY <2>1, <3>1 DEF Shown, Unknown
  <2>5. ASSUME q \in lost \/ processor[q] = row.tenders[q] PROVE Shown(q)'
    BY <2>5 DEF Shown
  <2> QED
    BY <2>1, <2>2, <2>3, <2>4, <2>5 DEF Shown
<1>4. ASSUME NEW q \in Cards, NEW d \in Requests PROVE Told(d, q)' /\ Kept(d, q)' /\ Sole(d, q)'
  <2>1. \A e \in Requests : Told(e, q) /\ Kept(e, q) /\ Sole(e, q)
    BY DEF CardsInv
  <2>2. Told(d, q)'
    BY <2>1 DEF Told
  <2>3. Kept(d, q)'
    BY <2>1 DEF Kept, Writable, Exists
  <2>4. Sole(d, q)'
    BY <2>1 DEF Sole
  <2> QED
    BY <2>2, <2>3, <2>4
<1> QED
  BY <1>1, <1>2, <1>3, <1>4 DEF CardsInv

\* A payment the processor is asked about: it knows it as the copy does, so no other request
\* has acted on it, except to the very same end.
LEMMA ActStep ==
    ASSUME TypeOK, CardsInv, NEW c \in Requests, NEW p \in Payments, NEW s \in TenderStatus,
           NEW stage \in {"payment", "save"}, Processed(c, p, s, stage), ProcessorHas(p, s),
           stage = "payment" => call[c].kind = "checkout",
           p \in Cards =>
                \/ s = "PendingCommit" /\ processor[p] = "none"
                \/ /\ s = "Voided" /\ processor[p] = "PendingCommit"
                   /\ call[c].cart.tenders[p] = "PendingCommit"
                \/ /\ s = "Committed" /\ processor[p] \in {"PendingCommit", "Committed"}
                   /\ call[c].cart.tenders[p] = "PendingCommit",
           call[c].stage = "payment", UNCHANGED <<row, order, lost>>
    PROVE CardsInv'
<1> DEFINE old == call[c]
           tenders == [old.cart.tenders EXCEPT ![p] = s]
           new == [old EXCEPT !.cart = [@ EXCEPT !.tenders = tenders],
                              !.acted = @ \cup ({p} \cap Cards), !.stage = stage]
<1>1. old \in CallType /\ old.cart \in Cart /\ old.cart.tenders \in Tenders
  BY CallAt DEF Cart
<1>2. call' = [call EXCEPT ![c] = new]
  BY TypeUnfolded DEF Processed, CallType
<1>3. call'[c] = new /\ \A d \in Requests : d # c => call'[d] = call[d]
  BY <1>2, CallAt
<1>4. /\ new.stage = stage /\ new.kind = old.kind
      /\ new.cart.version = old.cart.version /\ new.cart.tenders = tenders
      /\ new.acted = old.acted \cup ({p} \cap Cards)
  BY <1>1 DEF CallType, Cart
<1>5. \A q \in Payments : tenders[q] = IF q = p THEN s ELSE old.cart.tenders[q]
  BY <1>1 DEF Tenders
<1>6. \A q \in Cards : processor'[q] = IF q = p THEN s ELSE processor[q]
  BY DEF ProcessorHas, TypeOK
<1>7. Cards \subseteq Payments
  BY ConstantsAssumption DEF ConstantsAssumption
<1> HIDE DEF tenders, new
<1>8. \A q \in Cards : Unknown(q) /\ Shown(q)
  BY DEF CardsInv
<1>9. \A q \in Cards, d \in Requests : Told(d, q) /\ Kept(d, q) /\ Sole(d, q)
  BY DEF CardsInv
<1>10. \A q \in Cards : q # p =>
          /\ call'[c].cart.tenders[q] = call[c].cart.tenders[q]
          /\ q \in call'[c].acted <=> q \in call[c].acted
          /\ processor'[q] = processor[q]
  BY <1>3, <1>4, <1>5, <1>6, <1>7
<1>11. p \in Cards =>
          /\ call'[c].cart.tenders[p] = s /\ processor'[p] = s
          /\ p \in call'[c].acted
  BY <1>3, <1>4, <1>5, <1>6, <1>7
<1>12. Gone'
  BY DEF CardsInv, Gone, Exists
<1>13. \A d \in Requests : Quiet(d)'
  BY <1>3, <1>4 DEF CardsInv, Quiet, At
<1>14. ASSUME NEW q \in Cards PROVE Unknown(q)' /\ Shown(q)'
  <2>1. CASE q = p
    <3>1. processor'[q] # "none"
      BY <1>11, <2>1
    <3>2. q \in call'[c].acted
      BY <1>11, <2>1
    <3> QED
      BY <3>1, <3>2 DEF Unknown, Shown
  <2>2. CASE q # p
    <3>1. Unknown(q)'
      BY <1>3, <1>8, <1>10, <2>2 DEF Unknown
    <3>2. Ordered(q)' = Ordered(q)
      BY DEF Ordered
    <3>3. Shown(q)'
      BY <1>3, <1>8, <1>10, <2>2, <3>2 DEF Shown
    <3> QED
      BY <3>1, <3>3
  <2> QED
    BY <2>1, <2>2
<1>15. ASSUME NEW q \in Cards, NEW d \in Requests PROVE Kept(d, q)'
  BY <1>3, <1>4, <1>9, <1>10, <1>11 DEF Kept, Writable, Exists
<1>16. ASSUME NEW q \in Cards, NEW d \in Requests PROVE Told(d, q)' /\ Sole(d, q)'
  <2>1. CASE q # p
    BY <1>3, <1>9, <1>10, <2>1 DEF Told, Sole
  <2>2. CASE q = p /\ s = "PendingCommit" /\ processor[p] = "none"
    <3>1. /\ row.tenders[q] = "none"
          /\ \A e \in Requests : call[e].cart.tenders[q] = "none" /\ q \notin call[e].acted
      BY <1>8, <2>2 DEF Unknown
    <3> QED
      BY <1>3, <1>11, <2>2, <3>1 DEF Told, Sole
  <2>3. CASE q = p /\ processor[p] = "PendingCommit" /\ s # "PendingCommit"
             /\ call[c].cart.tenders[p] = "PendingCommit"
    <3>1. d # c => q \notin call[d].acted
      BY <1>9, <2>3 DEF Sole
    <3> QED
      BY <1>3, <1>11, <2>3, <3>1 DEF Told, Sole
  <2>4. CASE q = p /\ s = "Committed" /\ processor[p] = "Committed"
    BY <1>3, <1>9, <1>11, <2>4 DEF Told, Sole
  <2> QED
    BY <2>1, <2>2, <2>3, <2>4
<1> QED
  BY <1>12, <1>13, <1>14, <1>15, <1>16 DEF CardsInv

\* A request that ends, its unsaved acts lost, leaves nothing else behind.
LEMMA EndsCards ==
    ASSUME TypeOK, CardsInv, NEW c \in Requests, Ends(c), row' = row, processor' = processor,
           order' = order, call[c].acted \subseteq lost', lost \subseteq lost'
    PROVE CardsInv'
<1>1. call' = [call EXCEPT ![c] = NoCall]
  BY DEF Ends
<1>2. call'[c] = NoCall /\ \A d \in Requests : d # c => call'[d] = call[d]
  BY <1>1, CallAt
<1>3. NoCall.stage = "idle" /\ NoCall.acted = {} /\ NoCall.cart = NoCart
  BY DEF NoCall
<1>4. Quiet(c)' /\ \A q \in Cards : Kept(c, q)'
  BY <1>2, <1>3 DEF Quiet, Kept, Writable
<1>5. \A q \in Cards : Ordered(q) \subseteq Ordered(q)' \cup {"none"}
  BY DEF Ordered
<1> QED
  BY <1>2, <1>3, <1>4, <1>5, NoTendersNone, PlainStep

LEMMA QuietEnds ==
    ASSUME TypeOK, CardsInv, NEW c \in Requests, Ends(c), row' = row, processor' = processor,
           order' = order, lost' = lost, call[c].acted = {}
    PROVE CardsInv'
  BY EndsCards

LEMMA LoadCards ==
    ASSUME TypeOK, CardsInv, NEW c \in Requests, NEW kind \in Kind,
           NEW p \in Payments \cup {NoPayment}, NEW n, NEW cart,
           Starts(c, kind, p, n, cart),
           \A q \in Cards : cart.tenders[q] \in {row.tenders[q], "none"},
           Exists => \A q \in Cards : cart.tenders[q] = row.tenders[q]
    PROVE CardsInv'
<1> DEFINE new == [stage |-> FirstStage(kind), kind |-> kind, payment |-> p,
                   acted |-> {}, cart |-> cart, removed |-> n]
<1>1. call' = [call EXCEPT ![c] = new] /\ call[c].stage = "idle"
  BY DEF Starts
<1>2. call'[c] = new /\ \A d \in Requests : d # c => call'[d] = call[d]
  BY <1>1, CallAt
<1>3. new.acted = {} /\ new.cart = cart
  OBVIOUS
<1> HIDE DEF new
<1>4. call[c].acted = {}
  BY <1>1 DEF CardsInv, Quiet
<1>5. row' = row /\ processor' = processor /\ order' = order /\ lost' = lost
  BY DEF Starts
<1>6. Quiet(c)' /\ \A q \in Cards : Kept(c, q)'
  BY <1>2, <1>3, <1>5 DEF Quiet, Kept, Exists
<1>7. \A q \in Cards : Ordered(q) \subseteq Ordered(q)' \cup {"none"}
  BY <1>5 DEF Ordered
<1> QED
  BY <1>2, <1>3, <1>4, <1>5, <1>6, <1>7, PlainStep

LEMMA ChangedTenders ==
    ASSUME TypeOK, NEW kind \in Kind, NEW t, NEW n
    PROVE Changed(kind, t, n).tenders = row.tenders
<1>1. row \in Cart
  BY DEF TypeOK
<1> QED
  BY <1>1 DEF Changed, Cart, Kind

LEMMA PaymentCards ==
    ASSUME TypeOK, CopiesInv, CardsInv, NEW c \in Requests,
           \/ Authorize(c) \/ CancelPayment(c) \/ Declined(c) \/ CaptureFails(c)
           \/ \E p \in Cards : Capture(c, p)
    PROVE CardsInv'
<1>1. Untouched(c) /\ Quiet(c)
  BY DEF CopiesInv, CardsInv
<1>2. ASSUME Authorize(c) PROVE CardsInv'
  <2> DEFINE p == call[c].payment
             s == IF p \in Cards THEN "PendingCommit" ELSE "Committed"
  <2>1. p \in Payments /\ call[c].stage = "payment"
    BY <1>1, <1>2 DEF Untouched, At, Authorize
  <2>2. s \in TenderStatus /\ (p \in Cards => s = "PendingCommit")
    BY StatusKnown
  <2>3. /\ Processed(c, p, s, "save") /\ ProcessorHas(p, s)
        /\ p \in Cards => processor[p] = "none"
        /\ UNCHANGED <<row, order, lost>>
    BY <1>2 DEF Authorize
  <2> HIDE DEF p, s
  <2> QED
    BY <2>1, <2>2, <2>3, ActStep
<1>3. ASSUME CancelPayment(c) PROVE CardsInv'
  <2> DEFINE p == call[c].payment
  <2>1. p \in Payments /\ call[c].stage = "payment"
    BY <1>1, <1>3 DEF Untouched, At, CancelPayment
  <2>2. "Voided" \in TenderStatus
    BY StatusKnown
  <2>3. p \in Cards => call[c].cart.tenders[p] = "PendingCommit"
    BY <1>1, <1>3 DEF Untouched, At, CancelPayment, IsVoidable
  <2>4. /\ Processed(c, p, "Voided", "save") /\ ProcessorHas(p, "Voided")
        /\ p \in Cards => processor[p] = "PendingCommit"
        /\ UNCHANGED <<row, order, lost>>
    BY <1>3 DEF CancelPayment
  <2> HIDE DEF p
  <2> QED
    BY <2>1, <2>2, <2>3, <2>4, ActStep
<1>4. ASSUME Declined(c) PROVE CardsInv'
  <2>1. call[c].acted = {}
    BY <1>1, <1>4 DEF Declined, Quiet
  <2> QED
    BY <1>4, <2>1, QuietEnds DEF Declined
<1>5. ASSUME CaptureFails(c) PROVE CardsInv'
  <2> DEFINE new == [call[c] EXCEPT !.stage = "saveFailed"]
  <2>1. call' = [call EXCEPT ![c] = new]
    BY <1>5 DEF CaptureFails
  <2>2. call'[c] = new /\ \A d \in Requests : d # c => call'[d] = call[d]
    BY <2>1, CallAt
  <2>3. new.stage = "saveFailed" /\ new.cart = call[c].cart /\ new.acted = call[c].acted
    BY CallAt DEF CallType
  <2> HIDE DEF new
  <2>4. row' = row /\ processor' = processor /\ order' = order /\ lost' = lost
    BY <1>5 DEF CaptureFails
  <2>5. Writable(c)
    BY <1>5 DEF CaptureFails, Writable, At
  <2>6. \A q \in Cards : Kept(c, q)
    BY DEF CardsInv
  <2>7. Quiet(c)' /\ \A q \in Cards : Kept(c, q)'
    BY <2>2, <2>3, <2>4, <2>5, <2>6 DEF Quiet, At, Kept, Exists
  <2>8. \A q \in Cards : Ordered(q) \subseteq Ordered(q)' \cup {"none"}
    BY <2>4 DEF Ordered
  <2> QED
    BY <2>2, <2>3, <2>4, <2>7, <2>8, PlainStep
<1>6. ASSUME NEW p \in Cards, Capture(c, p) PROVE CardsInv'
  <2>1. p \in Payments /\ "Committed" \in TenderStatus
    BY StatusKnown, ConstantsAssumption DEF ConstantsAssumption
  <2>2. call[c].stage = "payment" /\ call[c].kind = "checkout"
    BY <1>6 DEF Capture, At
  <2>3. call[c].cart.tenders[p] = "PendingCommit"
    BY <1>6 DEF Capture, Pending
  <2>4. /\ Processed(c, p, "Committed", "payment") /\ ProcessorHas(p, "Committed")
        /\ processor[p] \in {"PendingCommit", "Committed"}
        /\ UNCHANGED <<row, order, lost>>
    BY <1>6 DEF Capture
  <2> QED
    BY <2>1, <2>2, <2>3, <2>4, ActStep
<1> QED
  BY <1>2, <1>3, <1>4, <1>5, <1>6

\* A save shows what its request acted on; what it did not act on stays as the row showed it,
\* because the version read was the row's.
LEMMA SaveCards == ASSUME TypeOK, CopiesInv, CardsInv, NEW c \in Requests, Save(c) PROVE CardsInv'
<1>1. call[c] \in CallType /\ call[c].cart \in Cart
  BY CallAt
<1>2. row'.version = versions + 1 /\ row'.tenders = call[c].cart.tenders
  BY <1>1 DEF Save, Cart
<1>3. versions \in Nat /\ \A d \in Requests : call[d].cart.version \in 0 .. versions
  BY RowVersion, CallAt DEF CopiesInv, VersionsGiven, Cart
<1>4. /\ call'[c].acted = {} /\ call'[c].stage \in {"idle", "reload"}
      /\ call'[c].cart \in {call[c].cart, NoCart}
      /\ \A d \in Requests : d # c => call'[d] = call[d]
  <2>1. CASE call[c].stage = "payment"
    <3> DEFINE new == [call[c] EXCEPT !.stage = "reload", !.acted = {}]
    <3>1. call' = [call EXCEPT ![c] = new]
      BY <2>1, TypeUnfolded DEF Save, CallType
    <3>2. new.stage = "reload" /\ new.cart = call[c].cart /\ new.acted = {}
      BY <1>1 DEF CallType
    <3> HIDE DEF new
    <3> QED
      BY <3>1, <3>2, CallAt
  <2>2. CASE call[c].stage # "payment"
    <3>1. call' = [call EXCEPT ![c] = NoCall]
      BY <2>2 DEF Save, Ends
    <3>2. NoCall.stage = "idle" /\ NoCall.cart = NoCart /\ NoCall.acted = {}
      BY DEF NoCall
    <3> QED
      BY <3>1, <3>2, CallAt
  <2> QED
    BY <2>1, <2>2
<1>5. processor' = processor /\ order' = order /\ lost' = lost
  BY DEF Save
<1>6. Exists'
  BY <1>2, <1>3 DEF Exists
<1>7. Gone' /\ \A d \in Requests : Quiet(d)'
  BY <1>4, <1>6 DEF Gone, CardsInv, Quiet, At
<1>8. \A q \in Cards, d \in Requests : Kept(d, q)'
  <2>1. NoCart.version = 0
    BY DEF NoCart
  <2>2. \A d \in Requests : call'[d].cart.version \in 0 .. versions
    BY <1>3, <1>4, <2>1
  <2> QED
    BY <1>2, <1>3, <2>2 DEF Kept
<1>9. \A q \in Cards : Unknown(q) /\ Shown(q) /\ Told(c, q) /\ Kept(c, q)
  BY DEF CardsInv
<1>10. \A q \in Cards : call'[c].cart.tenders[q] \in {call[c].cart.tenders[q], "none"}
  BY <1>4, NoTendersNone
<1>11. ASSUME NEW q \in Cards PROVE Unknown(q)' /\ Shown(q)'
  <2>1. Unknown(q)'
    BY <1>2, <1>4, <1>5, <1>9, <1>10 DEF Unknown
  <2> SUFFICES Shown(q)'
    BY <2>1
  <2>2. Ordered(q)' = Ordered(q)
    BY <1>5 DEF Ordered
  <2>3. CASE q \in call[c].acted
    BY <1>2, <1>5, <1>9, <2>3 DEF Told, Shown
  <2>4. CASE q \notin call[c].acted /\ processor[q] = row.tenders[q]
    <3>1. CASE ~Exists
      <4>1. row.tenders[q] = "none"
        BY <3>1, NoTendersNone DEF CardsInv, Gone
      <4>2. call[c].cart.tenders[q] = "none"
        BY <1>9, <2>4, <4>1 DEF Unknown
      <4> QED
        BY <1>2, <1>5, <2>4, <4>1, <4>2 DEF Shown
    <3>2. CASE Exists
      <4>1. Writable(c) /\ call[c].cart.version = row.version
        BY <3>2 DEF Save, ToSave, Writable, At, MayWrite
      <4>2. call[c].cart.tenders[q] = row.tenders[q]
        BY <1>9, <2>4, <3>2, <4>1 DEF Kept
      <4> QED
        BY <1>2, <1>5, <2>4, <4>2 DEF Shown
    <3> QED
      BY <3>1, <3>2
  <2>5. CASE q \notin call[c].acted /\ processor[q] # row.tenders[q]
    BY <1>4, <1>5, <1>9, <2>2, <2>5 DEF Shown
  <2> QED
    BY <2>3, <2>4, <2>5
<1>12. ASSUME NEW q \in Cards, NEW d \in Requests PROVE Told(d, q)' /\ Sole(d, q)'
  <2>1. Told(d, q) /\ Sole(d, q)
    BY DEF CardsInv
  <2>2. CASE d = c
    BY <1>4, <2>2 DEF Told, Sole
  <2>3. CASE d # c
    BY <1>2, <1>4, <1>5, <1>10, <2>1, <2>3 DEF Told, Sole
  <2> QED
    BY <2>2, <2>3
<1> QED
  BY <1>7, <1>8, <1>11, <1>12 DEF CardsInv

LEMMA ReloadCards == ASSUME TypeOK, CardsInv, NEW c \in Requests, Reload(c) PROVE CardsInv'
<1>1. call[c].acted = {}
  BY DEF Reload, CardsInv, Quiet
<1>2. CASE Exists
  <2> DEFINE new == [call[c] EXCEPT !.stage = "order", !.cart = row]
  <2>1. call' = [call EXCEPT ![c] = new]
    BY <1>2, TypeUnfolded DEF Reload, CallType
  <2>2. call'[c] = new /\ \A d \in Requests : d # c => call'[d] = call[d]
    BY <2>1, CallAt
  <2>3. new.stage = "order" /\ new.cart = row /\ new.acted = call[c].acted
    BY CallAt DEF CallType
  <2> HIDE DEF new
  <2>4. row' = row /\ processor' = processor /\ order' = order /\ lost' = lost
    BY DEF Reload
  <2>5. Quiet(c)' /\ \A q \in Cards : Kept(c, q)'
    BY <1>1, <2>2, <2>3 DEF Quiet, Kept, Writable
  <2>6. \A q \in Cards : Ordered(q) \subseteq Ordered(q)' \cup {"none"}
    BY <2>4 DEF Ordered
  <2> QED
    BY <1>1, <2>2, <2>3, <2>4, <2>5, <2>6, PlainStep
<1>3. CASE ~Exists
  BY <1>1, <1>3, QuietEnds DEF Reload
<1> QED
  BY <1>2, <1>3

LEMMA RemovesCards ==
    ASSUME TypeOK, CardsInv, NEW c \in Requests, NEW n \in 1 .. row.lines, ReloadRemoves(c, n)
    PROVE CardsInv'
<1>1. call[c].acted = {}
  BY DEF ReloadRemoves, CardsInv, Quiet
<1> DEFINE cart == [row EXCEPT !.lines = @ - n]
<1>2. cart.tenders = row.tenders /\ cart.version = row.version
  BY ShorterCart
<1>3. /\ call'[c].stage = "saveFailed" /\ call'[c].cart = cart /\ call'[c].acted = {}
      /\ \A d \in Requests : d # c => call'[d] = call[d]
  BY <1>1, RemovesAt
<1> HIDE DEF cart
<1>4. row' = row /\ processor' = processor /\ order' = order /\ lost' = lost
  BY DEF ReloadRemoves
<1>5. Quiet(c)' /\ \A q \in Cards : Kept(c, q)'
  BY <1>2, <1>3, <1>4 DEF Quiet, Kept, At
<1>6. \A q \in Cards : Ordered(q) \subseteq Ordered(q)' \cup {"none"}
  BY <1>4 DEF Ordered
<1> QED
  BY <1>1, <1>2, <1>3, <1>4, <1>5, <1>6, PlainStep

LEMMA OrderCards == ASSUME TypeOK, CardsInv, NEW c \in Requests, CreateSalesOrder(c) PROVE CardsInv'
<1> DEFINE t == call[c].cart.terminal
<1>1. call[c].acted = {}
  BY DEF CreateSalesOrder, CardsInv, Quiet
<1>2. CASE order[t] = NoOrder
  <2> DEFINE new == [call[c] EXCEPT !.stage = "delete"]
  <2>1. call' = [call EXCEPT ![c] = new]
    BY <1>2 DEF CreateSalesOrder
  <2>2. call'[c] = new /\ \A d \in Requests : d # c => call'[d] = call[d]
    BY <2>1, CallAt
  <2>3. new.stage = "delete" /\ new.cart = call[c].cart /\ new.acted = call[c].acted
    BY CallAt DEF CallType
  <2> HIDE DEF new
  <2>4. row' = row /\ processor' = processor /\ lost' = lost
    BY DEF CreateSalesOrder
  <2>5. Quiet(c)' /\ \A q \in Cards : Kept(c, q)'
    BY <1>1, <2>2, <2>3 DEF Quiet, Kept, Writable
  <2>6. \A q \in Cards : Ordered(q) \subseteq Ordered(q)' \cup {"none"}
    <3> TAKE q \in Cards
    <3>1. NoOrder.tenders[q] = "none"
      BY NoTendersNone DEF NoOrder
    <3>2. \A u \in Terminals : u # t => order'[u] = order[u]
      BY <1>2 DEF CreateSalesOrder, TypeOK
    <3> HIDE DEF t
    <3> QED
      BY <1>2, <3>1, <3>2 DEF Ordered
  <2> QED
    BY <1>1, <2>2, <2>3, <2>4, <2>5, <2>6, PlainStep
<1>3. CASE order[t] # NoOrder
  BY <1>1, <1>3, QuietEnds DEF CreateSalesOrder
<1> QED
  BY <1>2, <1>3

LEMMA DeleteCards == ASSUME TypeOK, CardsInv, NEW c \in Requests, DeleteCart(c) PROVE CardsInv'
<1>1. call[c].acted = {}
  BY DEF DeleteCart, CardsInv, Quiet
<1>2. call' = [call EXCEPT ![c] = NoCall]
  BY DEF DeleteCart, Ends
<1>3. call'[c] = NoCall /\ \A d \in Requests : d # c => call'[d] = call[d]
  BY <1>2, CallAt
<1>4. NoCall.stage = "idle" /\ NoCall.acted = {} /\ NoCall.cart = NoCart
  BY DEF NoCall
<1>5. row' = NoCart /\ processor' = processor /\ order' = order
  BY DEF DeleteCart
<1>6. ~Exists' /\ Gone'
  BY <1>5 DEF Exists, Gone, NoCart
<1>7. \A d \in Requests : Quiet(d)'
  BY <1>3, <1>4 DEF CardsInv, Quiet, At
<1>8. ASSUME NEW q \in Cards PROVE Unknown(q)' /\ Shown(q)'
  <2>1. Unknown(q) /\ Shown(q)
    BY DEF CardsInv
  <2>2. Unknown(q)'
    BY <1>3, <1>4, <1>5, <2>1, NoTendersNone DEF Unknown
  <2>3. Ordered(q)' = Ordered(q) /\ row'.tenders[q] = "none"
    BY <1>5, NoTendersNone DEF Ordered
  <2>4. q \in lost => q \in lost'
    BY DEF DeleteCart
  <2>5. row.tenders[q] \in Ordered(q) \cup {"none"} \/ q \in lost'
    BY DEF DeleteCart
  <2>6. \A d \in Requests : q \in call[d].acted => q \in call'[d].acted
    BY <1>1, <1>3
  <2>7. Shown(q)'
    BY <1>5, <2>1, <2>3, <2>4, <2>5, <2>6 DEF Shown
  <2> QED
    BY <2>2, <2>7
<1>9. ASSUME NEW q \in Cards, NEW d \in Requests PROVE Told(d, q)' /\ Kept(d, q)' /\ Sole(d, q)'
  <2>1. Told(d, q) /\ Sole(d, q)
    BY DEF CardsInv
  <2>2. row'.tenders[q] = "none" /\ call'[c].cart.tenders[q] = "none"
    BY <1>3, <1>4, <1>5, NoTendersNone
  <2> QED
    BY <1>3, <1>4, <1>5, <1>6, <2>1, <2>2 DEF Told, Kept, Sole
<1> QED
  BY <1>6, <1>7, <1>8, <1>9 DEF CardsInv

LEMMA NextCards == TypeOK /\ CopiesInv /\ CardsInv /\ [Next]_vars => CardsInv'
<1> SUFFICES ASSUME TypeOK, CopiesInv, CardsInv, [Next]_vars PROVE CardsInv'
  OBVIOUS
<1>1. CASE UNCHANGED vars
  BY <1>1 DEF vars, CardsInv, Gone, Quiet, Told, Kept, Sole, Unknown, Shown, Ordered, Exists, At,
              Writable
<1>2. ASSUME NEW c \in Requests, NEW kind \in Kind, NEW p \in Payments \cup {NoPayment},
             NEW t \in Terminals, NEW n \in 0 .. row.lines,
           Load(c, kind, p, t, n)
      PROVE CardsInv'
  BY <1>2, ChangedTenders, LoadCards DEF Load
<1>3. ASSUME NEW c \in Requests, NEW t \in Terminals, NEW n \in 1 .. MaxLines,
           Create(c, t, n) PROVE CardsInv'
  <2> DEFINE cart == [NoCart EXCEPT !.lines = n, !.terminal = t]
  <2>1. \A q \in Cards : cart.tenders[q] = "none"
    BY NoTendersNone, NoCartTyped DEF Cart
  <2>2. ~Exists /\ Starts(c, "saveCart", NoPayment, 0, cart) /\ "saveCart" \in Kind
    BY <1>3 DEF Create, Kind
  <2> HIDE DEF cart
  <2> QED
    BY <2>1, <2>2, LoadCards
<1>4. ASSUME NEW c \in Requests, SaveRefused(c) \/ Fails(c) PROVE CardsInv'
  BY <1>4, EndsCards DEF SaveRefused, Fails
<1>5. CASE Next
  <2> PICK c \in Requests :
        \/ \E kind \in Kind, p \in Payments \cup {NoPayment}, t \in Terminals, n \in 0 .. row.lines :
                Load(c, kind, p, t, n)
        \/ \E t \in Terminals, n \in 1 .. MaxLines : Create(c, t, n)
        \/ (Authorize(c) \/ CancelPayment(c) \/ Declined(c) \/ CaptureFails(c)
            \/ \E p \in Cards : Capture(c, p))
        \/ Save(c) \/ (SaveRefused(c) \/ Fails(c)) \/ Reload(c)
        \/ \E n \in 1 .. row.lines : ReloadRemoves(c, n)
        \/ CreateSalesOrder(c) \/ DeleteCart(c)
    BY <1>5, Zenon DEF Next
  <2> QED
    BY <1>2, <1>3, <1>4, PaymentCards, SaveCards, ReloadCards, RemovesCards, OrderCards,
       DeleteCards, Zenon
<1> QED
  BY <1>1, <1>5

\* For any number of requests, cards and faults: the cart or the order shows what the processor
\* has done with a card, unless a request that acted on it still runs or did not get it saved.
THEOREM NothingForgotten == Spec => []PaymentsShown
<1>1. Init => TypeOK /\ CopiesInv /\ CardsInv
  BY InitTyped, InitCopies, InitCards
<1>2. TypeOK /\ CopiesInv /\ CardsInv /\ [Next]_vars => (TypeOK /\ CopiesInv /\ CardsInv)'
  BY NextTyped, NextCopies, NextCards
<1>3. TypeOK /\ CopiesInv /\ CardsInv => PaymentsShown
  BY ShownIsInv
<1> QED
  BY <1>1, <1>2, <1>3, PTL DEF Spec

-----------------------------------------------------------------------------
(* Requests that do not overlap.  At most one runs, so what a checkout validated still     *)
(* holds when it saves, reloads and orders; a payment is committed only by a capture.     *)

Lone ==
    ~overlapped => \A c, d \in Requests :
        call[c].stage # "idle" /\ call[d].stage # "idle" => c = d

Commits(cart) == \A q \in Cards : cart.tenders[q] = "Committed" => captures[q] > 0

Covered(cart) == Cardinality(Active(cart.tenders)) >= cart.lines

Paid(c) ==
    ~overlapped /\ call[c].kind = "checkout" =>
        /\ call[c].stage \in {"payment", "reload", "order"} => Covered(call[c].cart)
        /\ call[c].stage \in {"reload", "order"} => Pending(call[c].cart.tenders) = {}
        /\ call[c].stage = "reload" =>
                row.lines = call[c].cart.lines /\ row.tenders = call[c].cart.tenders

SaleInv ==
    /\ Lone
    /\ Commits(row)
    /\ \A c \in Requests : Commits(call[c].cart) /\ Paid(c)
    /\ OrderPaid

LEMMA OthersIdle ==
    ASSUME Lone, ~overlapped, NEW c \in Requests, call[c].stage # "idle"
    PROVE \A d \in Requests : d # c => call[d].stage = "idle"
  BY DEF Lone

\* What other steps leave of a call.
LEMMA StartsAt ==
    ASSUME TypeOK, NEW c \in Requests, NEW kind, NEW p, NEW n, NEW cart,
           Starts(c, kind, p, n, cart)
    PROVE /\ call'[c].stage = FirstStage(kind) /\ call'[c].kind = kind /\ call'[c].acted = {}
          /\ call'[c].cart = cart
          /\ \A d \in Requests : d # c => call'[d] = call[d]
          /\ ~overlapped' => ~overlapped /\ \A d \in Requests : call[d].stage = "idle"
<1> DEFINE new == [stage |-> FirstStage(kind), kind |-> kind, payment |-> p,
                   acted |-> {}, cart |-> cart, removed |-> n]
<1>1. call' = [call EXCEPT ![c] = new]
  BY DEF Starts
<1>2. call'[c] = new /\ \A d \in Requests : d # c => call'[d] = call[d]
  BY <1>1, CallAt
<1>3. ~overlapped' => ~overlapped /\ \A d \in Requests : call[d].stage = "idle"
  BY DEF Starts, Busy
<1> QED
  BY <1>2, <1>3

LEMMA StageAt ==
    ASSUME TypeOK, NEW c \in Requests, NEW stage, call' = [call EXCEPT ![c].stage = stage]
    PROVE /\ call'[c].stage = stage /\ call'[c].kind = call[c].kind
          /\ call'[c].cart = call[c].cart
          /\ \A d \in Requests : d # c => call'[d] = call[d]
<1> DEFINE new == [call[c] EXCEPT !.stage = stage]
<1>1. call' = [call EXCEPT ![c] = new]
  OBVIOUS
<1>2. new.stage = stage /\ new.kind = call[c].kind /\ new.cart = call[c].cart
  BY CallAt DEF CallType
<1> HIDE DEF new
<1> QED
  BY <1>1, <1>2, CallAt

LEMMA ProcessedAt ==
    ASSUME TypeOK, NEW c \in Requests, NEW p \in Payments, NEW s, NEW stage,
           Processed(c, p, s, stage)
    PROVE /\ call'[c].stage = stage /\ call'[c].kind = call[c].kind
          /\ call'[c].cart.version = call[c].cart.version
          /\ call'[c].cart.lines = call[c].cart.lines
          /\ call'[c].cart.terminal = call[c].cart.terminal
          /\ \A q \in Payments : call'[c].cart.tenders[q] =
                IF q = p THEN s ELSE call[c].cart.tenders[q]
          /\ \A d \in Requests : d # c => call'[d] = call[d]
<1> DEFINE old == call[c]
           tenders == [old.cart.tenders EXCEPT ![p] = s]
           new == [old EXCEPT !.cart = [@ EXCEPT !.tenders = tenders],
                              !.acted = @ \cup ({p} \cap Cards), !.stage = stage]
<1>1. old \in CallType /\ old.cart \in Cart /\ old.cart.tenders \in Tenders
  BY CallAt DEF Cart
<1>2. call' = [call EXCEPT ![c] = new]
  BY TypeUnfolded DEF Processed, CallType
<1>3. /\ new.stage = stage /\ new.kind = old.kind /\ new.cart.lines = old.cart.lines
      /\ new.cart.version = old.cart.version /\ new.cart.tenders = tenders
      /\ new.cart.terminal = old.cart.terminal
  BY <1>1 DEF CallType, Cart
<1>4. \A q \in Payments : tenders[q] = IF q = p THEN s ELSE old.cart.tenders[q]
  BY <1>1 DEF Tenders
<1> HIDE DEF tenders, new
<1> QED
  BY <1>2, <1>3, <1>4, CallAt

LEMMA ReloadAt ==
    ASSUME TypeOK, NEW c \in Requests, Reload(c), Exists
    PROVE /\ call'[c].stage = "order" /\ call'[c].kind = call[c].kind /\ call'[c].cart = row
          /\ \A d \in Requests : d # c => call'[d] = call[d]
<1> DEFINE new == [call[c] EXCEPT !.stage = "order", !.cart = row]
<1>1. call' = [call EXCEPT ![c] = new]
  BY TypeUnfolded DEF Reload, CallType
<1>2. new.stage = "order" /\ new.cart = row /\ new.kind = call[c].kind
  BY CallAt DEF CallType
<1> HIDE DEF new
<1> QED
  BY <1>1, <1>2, CallAt

LEMMA InitSale == Init => SaleInv
<1> SUFFICES ASSUME Init PROVE SaleInv
  OBVIOUS
<1>1. \A c \in Requests : call[c].stage = "idle" /\ call[c].kind = "none" /\ call[c].cart = NoCart
  BY DEF Init, NoCall
<1>2. Commits(NoCart)
  BY NoTendersNone DEF Commits
<1>3. OrderPaid
  BY DEF Init, OrderPaid, NoOrder
<1> QED
  BY <1>1, <1>2, <1>3 DEF SaleInv, Lone, Paid, Init

\* Captures only grow.
LEMMA CommitsKept ==
    ASSUME \A q \in Cards : captures[q] \in Nat /\ captures'[q] \in Nat /\ captures'[q] >= captures[q],
           NEW cart, Commits(cart)
    PROVE \A q \in Cards : cart.tenders[q] = "Committed" => captures'[q] > 0
  BY DEF Commits

LEMMA OrderPaidKept ==
    ASSUME \A q \in Cards : captures[q] \in Nat /\ captures'[q] \in Nat /\ captures'[q] >= captures[q],
           OrderPaid, order' = order, ~overlapped' => ~overlapped
    PROVE OrderPaid'
<1>1. \A t \in Terminals : Active(order[t].tenders)' = Active(order[t].tenders)
                        /\ Pending(order[t].tenders)' = Pending(order[t].tenders)
  BY DEF Active, Pending
<1> QED
  BY <1>1 DEF OrderPaid

LEMMA CapturesTyped ==
    ASSUME TypeOK, captures' = captures
    PROVE \A q \in Cards : captures[q] \in Nat /\ captures'[q] \in Nat /\ captures'[q] >= captures[q]
  BY DEF TypeOK

\* A step of c that leaves the row, the orders and the captures.
LEMMA SaleKept ==
    ASSUME TypeOK, SaleInv, NEW c \in Requests,
           \A d \in Requests : d # c => call'[d] = call[d],
           row' = row, order' = order, captures' = captures,
           ~overlapped' => ~overlapped, Lone', Commits(call'[c].cart), Paid(c)'
    PROVE SaleInv'
<1>1. Commits(row)' /\ \A d \in Requests : Commits(call[d].cart)'
  <2>1. \A d \in Requests : Commits(call'[d].cart)
    BY DEF SaleInv
  <2> QED
    BY <2>1 DEF SaleInv, Commits
<1>2. ASSUME NEW d \in Requests, d # c PROVE Paid(d)'
  BY <1>2 DEF SaleInv, Paid, Covered, Active, Pending
<1>3. OrderPaid'
  BY CapturesTyped, OrderPaidKept DEF SaleInv
<1> QED
  BY <1>1, <1>2, <1>3 DEF SaleInv

LEMMA StartsSale ==
    ASSUME TypeOK, SaleInv, NEW c \in Requests, NEW kind \in Kind, NEW p, NEW n, NEW cart,
           Starts(c, kind, p, n, cart), Commits(cart), kind = "checkout" => Covered(cart)
    PROVE SaleInv'
<1>1. /\ row' = row /\ order' = order /\ captures' = captures
      /\ ~overlapped' => ~overlapped
  BY DEF Starts
<1>2. Lone'
  BY StartsAt DEF Lone
<1>3. Paid(c)'
  <2>1. /\ call'[c].stage = FirstStage(kind) /\ call'[c].kind = kind /\ call'[c].cart = cart
    BY StartsAt
  <2>2. kind = "checkout" => FirstStage(kind) = "payment"
    BY DEF FirstStage
  <2>3. kind = "checkout" => Covered(call[c].cart)'
    BY <2>1 DEF Covered, Active
  <2> QED
    BY <2>1, <2>2, <2>3 DEF Paid
<1> QED
  BY <1>1, <1>2, <1>3, StartsAt, SaleKept

LEMMA EndsSale ==
    ASSUME TypeOK, SaleInv, NEW c \in Requests, Ends(c), row' = row, order' = order,
           captures' = captures, overlapped' = overlapped
    PROVE SaleInv'
<1>1. Lone'
  BY EndsAt DEF SaleInv, Lone
<1>2. Paid(c)' /\ Commits(call'[c].cart)
  BY EndsAt, NoTendersNone DEF Paid, Commits
<1> QED
  BY <1>1, <1>2, EndsAt, SaleKept

LEMMA LoadSale ==
    ASSUME TypeOK, SaleInv, NEW c \in Requests, NEW kind \in Kind,
           NEW p \in Payments \cup {NoPayment}, NEW t \in Terminals, NEW n \in 0 .. row.lines,
           Load(c, kind, p, t, n)
    PROVE SaleInv'
<1> DEFINE cart == Changed(kind, t, n)
<1>1. Commits(cart)
  BY ChangedTenders DEF SaleInv, Commits
<1>2. kind = "checkout" => Covered(cart)
  BY DEF Load, Allowed, IsRequiredAmountPaid, Covered, Changed
<1>3. Starts(c, kind, p, n, cart)
  BY DEF Load
<1> HIDE DEF cart
<1> QED
  BY <1>1, <1>2, <1>3, StartsSale

LEMMA CreateSale ==
    ASSUME TypeOK, SaleInv, NEW c \in Requests, NEW t \in Terminals, NEW n \in 1 .. MaxLines,
           Create(c, t, n)
    PROVE SaleInv'
<1> DEFINE cart == [NoCart EXCEPT !.lines = n, !.terminal = t]
<1>1. Commits(cart)
  <2>1. cart.tenders = NoCart.tenders
    BY DEF NoCart
  <2> HIDE DEF cart
  <2> QED
    BY <2>1, NoTendersNone DEF Commits
<1>2. Starts(c, "saveCart", NoPayment, 0, cart) /\ "saveCart" \in Kind
  BY DEF Create, Kind
<1> HIDE DEF cart
<1> QED
  BY <1>1, <1>2, StartsSale

LEMMA TenderSale ==
    ASSUME TypeOK, CopiesInv, SaleInv, NEW c \in Requests, Authorize(c) \/ CancelPayment(c)
    PROVE SaleInv'
<1> DEFINE p == call[c].payment
<1>1. p \in Payments /\ call[c].stage = "payment" /\ call[c].kind # "checkout"
  BY DEF CopiesInv, Untouched, At, Authorize, CancelPayment
<1>2. PICK s : Processed(c, p, s, "save") /\ (p \in Cards => s # "Committed")
  BY DEF Authorize, CancelPayment
<1>3. /\ row' = row /\ order' = order /\ captures' = captures /\ overlapped' = overlapped
  BY DEF Authorize, CancelPayment
<1> HIDE DEF p
<1>4. /\ call'[c].stage = "save" /\ call'[c].kind = call[c].kind
      /\ \A q \in Payments : call'[c].cart.tenders[q] =
            IF q = p THEN s ELSE call[c].cart.tenders[q]
      /\ \A d \in Requests : d # c => call'[d] = call[d]
  BY <1>1, <1>2, ProcessedAt
<1>5. Lone'
  BY <1>1, <1>3, <1>4 DEF SaleInv, Lone
<1>6. Paid(c)'
  BY <1>1, <1>4 DEF Paid
<1>7. Commits(call'[c].cart)
  BY <1>2, <1>4, ConstantsAssumption DEF SaleInv, Commits, ConstantsAssumption
<1> QED
  BY <1>3, <1>4, <1>5, <1>6, <1>7, SaleKept

LEMMA CaptureSale ==
    ASSUME TypeOK, SaleInv, NEW c \in Requests, NEW p \in Cards, Capture(c, p)
    PROVE SaleInv'
<1>1. p \in Payments /\ Cards \subseteq Payments
  BY ConstantsAssumption DEF ConstantsAssumption
<1>2. /\ call[c].stage = "payment" /\ call[c].kind = "checkout"
      /\ call[c].cart.tenders[p] = "PendingCommit"
      /\ Processed(c, p, "Committed", "payment")
      /\ row' = row /\ order' = order /\ overlapped' = overlapped
  BY DEF Capture, At, Pending
<1>3. /\ call'[c].stage = "payment" /\ call'[c].kind = "checkout"
      /\ call'[c].cart.lines = call[c].cart.lines
      /\ \A q \in Payments : call'[c].cart.tenders[q] =
            IF q = p THEN "Committed" ELSE call[c].cart.tenders[q]
      /\ \A d \in Requests : d # c => call'[d] = call[d]
  BY <1>1, <1>2, ProcessedAt
<1>4. \A q \in Cards : /\ captures[q] \in Nat /\ captures'[q] \in Nat
                       /\ captures'[q] >= captures[q]
                       /\ q = p => captures'[q] > 0
  BY DEF Capture, TypeOK
<1>5. Lone'
  BY <1>2, <1>3 DEF SaleInv, Lone
<1>6. Active(call'[c].cart.tenders) = Active(call[c].cart.tenders)
  BY <1>1, <1>2, <1>3 DEF Active
<1>7. Paid(c)'
  <2>1. Paid(c)
    BY DEF SaleInv
  <2>2. ~overlapped' => Covered(call[c].cart)
    BY <1>2, <2>1 DEF Paid
  <2>3. ~overlapped' => Covered(call'[c].cart)
    BY <1>3, <1>6, <2>2 DEF Covered
  <2> QED
    BY <1>3, <2>3 DEF Paid, Covered, Active
<1>8. \A d \in Requests : d # c => Paid(d)'
  BY <1>2, <1>3 DEF SaleInv, Paid, Covered, Active, Pending
<1>9. Commits(row)'
  BY <1>2, <1>4, CommitsKept DEF SaleInv, Commits
<1>10. ASSUME NEW d \in Requests PROVE Commits(call[d].cart)'
  <2>1. \A q \in Cards : call[d].cart.tenders[q] = "Committed" => captures'[q] > 0
    BY <1>4, CommitsKept DEF SaleInv
  <2>2. CASE d # c
    BY <1>3, <2>1, <2>2 DEF Commits
  <2>3. CASE d = c
    BY <1>1, <1>3, <1>4, <2>1, <2>3 DEF Commits
  <2> QED
    BY <2>2, <2>3
<1>11. OrderPaid'
  BY <1>2, <1>4, OrderPaidKept DEF SaleInv
<1> QED
  BY <1>5, <1>7, <1>8, <1>9, <1>10, <1>11 DEF SaleInv

LEMMA StageSale ==
    ASSUME TypeOK, SaleInv, NEW c \in Requests, CaptureFails(c)
    PROVE SaleInv'
<1>1. /\ call'[c].stage = "saveFailed" /\ call'[c].kind = call[c].kind
      /\ call'[c].cart = call[c].cart
      /\ \A d \in Requests : d # c => call'[d] = call[d]
  BY StageAt DEF CaptureFails
<1>2. /\ row' = row /\ order' = order /\ captures' = captures /\ overlapped' = overlapped
      /\ call[c].stage = "payment"
  BY DEF CaptureFails, At
<1>3. Lone' /\ Paid(c)' /\ Commits(call'[c].cart)
  BY <1>1, <1>2 DEF SaleInv, Lone, Paid
<1> QED
  BY <1>1, <1>2, <1>3, SaleKept

LEMMA SaveSale == ASSUME TypeOK, SaleInv, NEW c \in Requests, Save(c) PROVE SaleInv'
<1>1. /\ order' = order /\ captures' = captures /\ overlapped' = overlapped
      /\ call[c].stage \in {"payment", "save", "saveFailed"}
      /\ call[c].stage = "payment" => Pending(call[c].cart.tenders) = {}
  BY DEF Save, ToSave, At
<1>2. Lone'
  BY <1>1, SaveAt DEF SaleInv, Lone
<1>3. Commits(row)'
  BY <1>1, SaveAt DEF SaleInv, Commits
<1>4. ASSUME NEW d \in Requests PROVE Commits(call[d].cart)'
  <2>1. Commits(call[c].cart) /\ Commits(call[d].cart) /\ Commits(NoCart)
    BY NoTendersNone DEF SaleInv, Commits
  <2>2. call'[d].cart \in {call[d].cart, NoCart}
    BY SaveAt
  <2> QED
    BY <1>1, <2>1, <2>2 DEF Commits
<1>5. Paid(c)'
  <2>1. CASE call[c].stage = "payment"
    <3>1. /\ call'[c].stage = "reload" /\ call'[c].kind = call[c].kind
          /\ call'[c].cart = call[c].cart
          /\ row'.tenders = call[c].cart.tenders /\ row'.lines = call[c].cart.lines
      BY <2>1, SaveAt
    <3>2. Paid(c)
      BY DEF SaleInv
    <3> QED
      BY <1>1, <2>1, <3>1, <3>2 DEF Paid, Covered, Active, Pending
  <2>2. CASE call[c].stage # "payment"
    BY <2>2, SaveAt DEF Paid
  <2> QED
    BY <2>1, <2>2
<1>6. ASSUME NEW d \in Requests, d # c PROVE Paid(d)'
  <2>1. ~overlapped => call[d].stage = "idle"
    BY <1>1, <1>6, OthersIdle DEF SaleInv
  <2> QED
    BY <1>1, <1>6, <2>1, SaveAt DEF Paid
<1>7. OrderPaid'
  BY <1>1, CapturesTyped, OrderPaidKept DEF SaleInv
<1> QED
  BY <1>2, <1>3, <1>4, <1>5, <1>6, <1>7 DEF SaleInv

LEMMA ReloadSale == ASSUME TypeOK, SaleInv, NEW c \in Requests, Reload(c) PROVE SaleInv'
<1>1. /\ row' = row /\ order' = order /\ captures' = captures /\ overlapped' = overlapped
      /\ call[c].stage = "reload"
  BY DEF Reload
<1>2. CASE Exists
  <2>1. /\ call'[c].stage = "order" /\ call'[c].kind = call[c].kind /\ call'[c].cart = row
        /\ \A d \in Requests : d # c => call'[d] = call[d]
    BY <1>2, ReloadAt
  <2>2. Lone' /\ Commits(call'[c].cart)
    BY <1>1, <2>1 DEF SaleInv, Lone
  <2>3. Paid(c)'
    <3>1. Paid(c)
      BY DEF SaleInv
    <3> QED
      BY <1>1, <2>1, <3>1 DEF Paid, Covered, Active, Pending
  <2> QED
    BY <1>1, <2>1, <2>2, <2>3, SaleKept
<1>3. CASE ~Exists
  BY <1>1, <1>3, EndsSale DEF Reload
<1> QED
  BY <1>2, <1>3

LEMMA RemovesSale ==
    ASSUME TypeOK, SaleInv, NEW c \in Requests, NEW n \in 1 .. row.lines, ReloadRemoves(c, n)
    PROVE SaleInv'
<1>1. /\ row' = row /\ order' = order /\ captures' = captures /\ overlapped' = overlapped
      /\ call[c].stage = "reload"
  BY DEF ReloadRemoves
<1> DEFINE cart == [row EXCEPT !.lines = @ - n]
<1>2. cart.tenders = row.tenders
  BY ShorterCart
<1>3. /\ call'[c].stage = "saveFailed" /\ call'[c].cart = cart
      /\ \A d \in Requests : d # c => call'[d] = call[d]
  BY RemovesAt
<1> HIDE DEF cart
<1>4. Lone' /\ Paid(c)' /\ Commits(call'[c].cart)
  BY <1>1, <1>2, <1>3 DEF SaleInv, Lone, Paid, Commits
<1> QED
  BY <1>1, <1>3, <1>4, SaleKept

LEMMA OrderSale == ASSUME TypeOK, SaleInv, NEW c \in Requests, CreateSalesOrder(c) PROVE SaleInv'
<1> DEFINE t == call[c].cart.terminal
<1>1. /\ row' = row /\ captures' = captures /\ overlapped' = overlapped
      /\ call[c].stage = "order"
  BY DEF CreateSalesOrder
<1>2. CASE order[t] = NoOrder
  <2>1. /\ call' = [call EXCEPT ![c].stage = "delete"]
        /\ order' = [order EXCEPT ![t] = OrderOf(c)]
    BY <1>2 DEF CreateSalesOrder
  <2>2. /\ call'[c].stage = "delete" /\ call'[c].kind = call[c].kind
        /\ call'[c].cart = call[c].cart
        /\ \A d \in Requests : d # c => call'[d] = call[d]
    BY <2>1, StageAt
  <2>3. Lone' /\ Paid(c)' /\ Commits(call'[c].cart)
    BY <1>1, <2>2 DEF SaleInv, Lone, Paid
  <2>4. \A d \in Requests : d # c => Paid(d)'
    BY <1>1, <2>2 DEF SaleInv, Paid, Covered, Active, Pending
  <2>5. Commits(row)' /\ \A d \in Requests : Commits(call[d].cart)'
    BY <1>1, <2>2, <2>3 DEF SaleInv, Commits
  <2>6. ASSUME ~overlapped, NEW u \in Terminals, order'[u].kind = "sale"
        PROVE /\ Cardinality(Active(order'[u].tenders)) >= order'[u].lines
              /\ Pending(order'[u].tenders) = {}
              /\ \A p \in Active(order'[u].tenders) \cap Cards : captures[p] > 0
    <3>1. CASE order'[u] = order[u]
      BY <2>6, <3>1 DEF SaleInv, OrderPaid
    <3>2. CASE order'[u] # order[u]
      <4>1. order'[u] = OrderOf(c)
        BY <2>1, <3>2 DEF TypeOK
      <4>2. call[c].kind = "checkout"
        BY <2>6, <4>1 DEF OrderOf
      <4>3. order'[u].lines = call[c].cart.lines /\ order'[u].tenders = call[c].cart.tenders
        BY <4>1 DEF OrderOf
      <4>4. Paid(c) /\ Commits(call[c].cart)
        BY DEF SaleInv
      <4>5. Covered(call[c].cart) /\ Pending(call[c].cart.tenders) = {}
        BY <1>1, <2>6, <4>2, <4>4 DEF Paid
      <4>6. \A p \in Active(call[c].cart.tenders) \cap Cards : captures[p] > 0
        BY <4>4, <4>5 DEF Active, Pending, Commits
      <4> QED
        BY <4>3, <4>5, <4>6 DEF Covered
    <3> QED
      BY <3>1, <3>2
  <2>7. OrderPaid'
    BY <1>1, <2>6 DEF OrderPaid, Active, Pending
  <2> QED
    BY <2>3, <2>4, <2>5, <2>7 DEF SaleInv
<1>3. CASE order[t] # NoOrder
  BY <1>1, <1>3, EndsSale DEF CreateSalesOrder
<1> QED
  BY <1>2, <1>3

LEMMA DeleteSale == ASSUME TypeOK, SaleInv, NEW c \in Requests, DeleteCart(c) PROVE SaleInv'
<1>1. /\ row' = NoCart /\ order' = order /\ captures' = captures /\ overlapped' = overlapped
      /\ call[c].stage = "delete" /\ Ends(c)
  BY DEF DeleteCart
<1>2. Lone'
  BY <1>1, EndsAt DEF SaleInv, Lone
<1>3. Commits(row)' /\ \A d \in Requests : Commits(call[d].cart)'
  <2>1. Commits(NoCart)
    BY NoTendersNone DEF Commits
  <2>2. \A d \in Requests : Commits(call'[d].cart)
    BY <1>1, <2>1, EndsAt DEF SaleInv
  <2> QED
    BY <1>1, <2>1, <2>2 DEF Commits
<1>4. ASSUME NEW d \in Requests PROVE Paid(d)'
  <2>1. CASE d = c
    BY <1>1, <2>1, EndsAt DEF Paid
  <2>2. CASE d # c
    <3>1. ~overlapped => call[d].stage = "idle"
      BY <1>1, <2>2, OthersIdle DEF SaleInv
    <3> QED
      BY <1>1, <2>2, <3>1, EndsAt DEF Paid
  <2> QED
    BY <2>1, <2>2
<1>5. OrderPaid'
  BY <1>1, CapturesTyped, OrderPaidKept DEF SaleInv
<1> QED
  BY <1>2, <1>3, <1>4, <1>5 DEF SaleInv

LEMMA NextSale == TypeOK /\ CopiesInv /\ SaleInv /\ [Next]_vars => SaleInv'
<1> SUFFICES ASSUME TypeOK, CopiesInv, SaleInv, [Next]_vars PROVE SaleInv'
  OBVIOUS
<1>1. CASE UNCHANGED vars
  BY <1>1 DEF vars, SaleInv, Lone, Commits, Paid, Covered, Active, Pending, OrderPaid
<1>2. ASSUME NEW c \in Requests, Declined(c) \/ SaveRefused(c) \/ Fails(c) PROVE SaleInv'
  BY <1>2, EndsSale DEF Declined, SaveRefused, Fails
<1>3. CASE Next
  <2> PICK c \in Requests :
        \/ \E kind \in Kind, p \in Payments \cup {NoPayment}, t \in Terminals, n \in 0 .. row.lines :
                Load(c, kind, p, t, n)
        \/ \E t \in Terminals, n \in 1 .. MaxLines : Create(c, t, n)
        \/ (Authorize(c) \/ CancelPayment(c))
        \/ (Declined(c) \/ SaveRefused(c) \/ Fails(c))
        \/ (\E p \in Cards : Capture(c, p)) \/ CaptureFails(c)
        \/ (\E n \in 1 .. row.lines : ReloadRemoves(c, n))
        \/ Save(c) \/ Reload(c) \/ CreateSalesOrder(c) \/ DeleteCart(c)
    BY <1>3, Zenon DEF Next
  <2> QED
    BY <1>2, LoadSale, CreateSale, TenderSale, CaptureSale, StageSale, SaveSale, ReloadSale,
       RemovesSale, OrderSale, DeleteSale, Zenon
<1> QED
  BY <1>1, <1>3

\* For any number of payments, terminals and faults: as long as requests do not overlap, every
\* sale that is ordered is covered by its tender lines and its cards have been captured.
THEOREM OrdersArePaid == Spec => []OrderPaid
<1>1. Init => TypeOK /\ CopiesInv /\ SaleInv
  BY InitTyped, InitCopies, InitSale
<1>2. TypeOK /\ CopiesInv /\ SaleInv /\ [Next]_vars => (TypeOK /\ CopiesInv /\ SaleInv)'
  BY NextTyped, NextCopies, NextSale
<1>3. SaleInv => OrderPaid
  BY DEF SaleInv
<1> QED
  BY <1>1, <1>2, <1>3, PTL DEF Spec

-----------------------------------------------------------------------------
(* Requests that neither overlap nor fail.  The copy that may be written is the row's      *)
(* own, so no save is refused and nothing is lost; once there is an order its cart is      *)
(* deleted before anything else happens.                                                *)

Serial == ~overlapped /\ faults = 0

Current(c) ==
    Writable(c) =>
        /\ call[c].cart.version = row.version
        /\ call[c].cart.terminal \in Terminals

Closing(c) ==
    call[c].stage \in {"order", "delete"} =>
        /\ versions > 0
        /\ call[c].cart.tenders = row.tenders
        /\ call[c].stage = "order" => call[c].cart.terminal \in Terminals
        /\ call[c].stage = "delete" => \A q \in Cards : row.tenders[q] \in Ordered(q)

NoOrders == \A t \in Terminals : order[t] = NoOrder

Closed ==
    ~NoOrders =>
        /\ versions > 0
        /\ \A c \in Requests : call[c].stage \in {"idle", "delete"}
        /\ Exists => \E c \in Requests : call[c].stage = "delete"

Charged(q) == captures[q] = 0 \/ (captures[q] = 1 /\ processor[q] = "Committed")

Once ==
    /\ lost = {}
    /\ Exists => row.terminal \in Terminals
    /\ \A c \in Requests : Current(c) /\ Closing(c)
    /\ Closed
    /\ \A q \in Cards : Charged(q)

OnceInv == Serial => Once

LEMMA InitOnce == Init => OnceInv
<1> SUFFICES ASSUME Init PROVE Once
  BY DEF OnceInv
<1>1. \A c \in Requests : call[c].stage = "idle"
  BY DEF Init, NoCall
<1>2. ~Exists /\ NoOrders
  BY DEF Init, Exists, NoCart, NoOrders
<1>3. \A q \in Cards : Charged(q)
  <2>1. captures = [p \in Cards |-> 0]
    BY DEF Init
  <2> QED
    BY <2>1 DEF Charged
<1> QED
  BY <1>1, <1>2, <1>3 DEF Once, Current, Closing, Closed, Writable, Init

\* Only the request that runs has anything to show.
LEMMA OnceKept ==
    ASSUME NEW c \in Requests, \A d \in Requests : d # c => call'[d].stage = "idle",
           lost' = {}, Exists' => row'.terminal \in Terminals, Current(c)', Closing(c)', Closed',
           \A q \in Cards : Charged(q)'
    PROVE Once'
  BY DEF Once, Current, Closing, Writable

\* What a step of a request that runs alone starts from.
LEMMA SerialStep ==
    ASSUME TypeOK, Lone, OnceInv, Serial, NEW c \in Requests, call[c].stage # "idle",
           \A d \in Requests : d # c => call'[d] = call[d]
    PROVE /\ Once
          /\ \A d \in Requests : d # c => call[d].stage = "idle" /\ call'[d].stage = "idle"
          /\ call[c].stage # "delete" => NoOrders
  BY OthersIdle DEF OnceInv, Once, Closed, Serial

LEMMA NoOrdersKept == ASSUME NoOrders, order' = order PROVE Closed'
  BY DEF NoOrders, Closed

LEMMA StartsOnce ==
    ASSUME TypeOK, OnceInv, Serial', NEW c \in Requests, NEW kind \in Kind, NEW p, NEW n, NEW cart,
           Starts(c, kind, p, n, cart), Exists \/ versions = 0,
           cart.version = row.version, cart.terminal \in Terminals,
           FirstStage(kind) = "order" => versions > 0 /\ cart.tenders = row.tenders
    PROVE Once'
<1>1. /\ row' = row /\ order' = order /\ lost' = lost /\ captures' = captures
      /\ processor' = processor /\ faults' = faults /\ versions' = versions
  BY DEF Starts
<1>2. Serial /\ \A d \in Requests : call[d].stage = "idle"
  BY <1>1, StartsAt DEF Serial
<1>3. Once
  BY <1>2 DEF OnceInv
<1>4. NoOrders
  BY <1>2, <1>3, RowVersion DEF Once, Closed
<1>5. /\ call'[c].stage = FirstStage(kind) /\ call'[c].cart = cart
      /\ \A d \in Requests : d # c => call'[d].stage = "idle"
  BY <1>2, StartsAt
<1>6. FirstStage(kind) # "delete"
  BY DEF FirstStage
<1>7. Current(c)' /\ Closing(c)'
  BY <1>1, <1>5, <1>6 DEF Current, Closing
<1>8. lost' = {} /\ (Exists' => row'.terminal \in Terminals) /\ \A q \in Cards : Charged(q)'
  BY <1>1, <1>3 DEF Once, Exists, Charged
<1> QED
  BY <1>1, <1>4, <1>5, <1>7, <1>8, NoOrdersKept, OnceKept

LEMMA ChangedPlace ==
    ASSUME TypeOK, NEW kind \in Kind, NEW t \in Terminals, NEW n
    PROVE /\ Changed(kind, t, n).version = row.version
          /\ Changed(kind, t, n).terminal \in {row.terminal, t}
<1>1. row \in Cart
  BY DEF TypeOK
<1>2. CASE kind \in {"getCart", "saveCart", "suspend"}
  BY <1>1, <1>2 DEF Changed, Cart
<1>3. CASE kind \in {"resume", "voidTransaction"}
  BY <1>1, <1>3 DEF Changed, Cart
<1>4. CASE kind \in {"addTender", "voidTender", "checkout"}
  BY <1>1, <1>4 DEF Changed, Cart
<1> QED
  BY <1>2, <1>3, <1>4 DEF Kind

LEMMA LoadOnce ==
    ASSUME TypeOK, CopiesInv, OnceInv, Serial', NEW c \in Requests, NEW kind \in Kind,
           NEW p \in Payments \cup {NoPayment}, NEW t \in Terminals, NEW n \in 0 .. row.lines,
           Load(c, kind, p, t, n)
    PROVE Once'
<1> DEFINE cart == Changed(kind, t, n)
<1>1. Exists /\ Starts(c, kind, p, n, cart)
  BY DEF Load
<1>2. Serial
  BY <1>1 DEF Serial, Starts
<1>3. cart.version = row.version /\ cart.terminal \in Terminals
  BY <1>1, <1>2, ChangedPlace DEF OnceInv, Once
<1>4. cart.tenders = row.tenders
  BY ChangedTenders
<1>5. versions > 0
  BY <1>1, RowVersion DEF Exists
<1> HIDE DEF cart
<1> QED
  BY <1>1, <1>3, <1>4, <1>5, StartsOnce

LEMMA CreateOnce ==
    ASSUME TypeOK, OnceInv, Serial', NEW c \in Requests, NEW t \in Terminals, NEW n \in 1 .. MaxLines,
           Create(c, t, n)
    PROVE Once'
<1> DEFINE cart == [NoCart EXCEPT !.lines = n, !.terminal = t]
<1>1. /\ Starts(c, "saveCart", NoPayment, 0, cart) /\ versions = 0 /\ "saveCart" \in Kind
      /\ row.version = 0
  BY DEF Create, Kind, Exists
<1>2. cart.version = 0 /\ cart.terminal = t
  BY DEF NoCart
<1>3. FirstStage("saveCart") # "order"
  BY DEF FirstStage
<1> HIDE DEF cart
<1> QED
  BY <1>1, <1>2, <1>3, StartsOnce

LEMMA TenderOnce ==
    ASSUME TypeOK, CopiesInv, Lone, OnceInv, Serial', NEW c \in Requests,
           Authorize(c) \/ CancelPayment(c)
    PROVE Once'
<1> DEFINE p == call[c].payment
<1>1. p \in Payments /\ call[c].stage = "payment"
  BY DEF CopiesInv, Untouched, At, Authorize, CancelPayment
<1>2. PICK s : /\ Processed(c, p, s, "save") /\ ProcessorHas(p, s)
               /\ p \in Cards => processor[p] # "Committed"
  BY DEF Authorize, CancelPayment
<1>3. /\ row' = row /\ order' = order /\ captures' = captures /\ overlapped' = overlapped
      /\ faults' = faults /\ lost' = lost /\ versions' = versions
  BY DEF Authorize, CancelPayment
<1> HIDE DEF p
<1>4. /\ call'[c].stage = "save" /\ call'[c].cart.version = call[c].cart.version
      /\ call'[c].cart.terminal = call[c].cart.terminal
      /\ \A d \in Requests : d # c => call'[d] = call[d]
  BY <1>1, <1>2, ProcessedAt
<1>5. /\ Once /\ NoOrders
      /\ \A d \in Requests : d # c => call'[d].stage = "idle"
  BY <1>1, <1>3, <1>4, SerialStep DEF Serial
<1>6. Current(c)' /\ Closing(c)'
  BY <1>1, <1>3, <1>4, <1>5 DEF Once, Current, Closing, Writable
<1>7. ASSUME NEW q \in Cards PROVE Charged(q)'
  BY <1>2, <1>3, <1>5 DEF Once, Charged, ProcessorHas, TypeOK
<1>8. lost' = {} /\ (Exists' => row'.terminal \in Terminals)
  BY <1>3, <1>5 DEF Once, Exists
<1> QED
  BY <1>3, <1>5, <1>6, <1>7, <1>8, NoOrdersKept, OnceKept

\* A payment that is pending in the copy is pending at the processor.
LEMMA CaptureOnce ==
    ASSUME TypeOK, CardsInv, Lone, OnceInv, Serial', NEW c \in Requests, NEW p \in Cards,
           Capture(c, p)
    PROVE Once'
<1>1. p \in Payments
  BY ConstantsAssumption DEF ConstantsAssumption
<1>2. /\ call[c].stage = "payment" /\ call[c].cart.tenders[p] = "PendingCommit"
      /\ Processed(c, p, "Committed", "payment") /\ ProcessorHas(p, "Committed")
      /\ processor[p] \in {"PendingCommit", "Committed"}
      /\ row' = row /\ order' = order /\ overlapped' = overlapped
      /\ faults' = faults /\ lost' = lost /\ versions' = versions
  BY DEF Capture, At, Pending
<1>3. /\ call'[c].stage = "payment" /\ call'[c].cart.version = call[c].cart.version
      /\ call'[c].cart.terminal = call[c].cart.terminal
      /\ \A d \in Requests : d # c => call'[d] = call[d]
  BY <1>1, <1>2, ProcessedAt
<1>4. /\ Once /\ NoOrders
      /\ \A d \in Requests : d # c => call[d].stage = "idle" /\ call'[d].stage = "idle"
  BY <1>2, <1>3, SerialStep DEF Serial
<1>5. processor[p] = "PendingCommit"
  <2>1. Told(c, p) /\ Kept(c, p) /\ Shown(p)
    BY DEF CardsInv
  <2>2. CASE p \in call[c].acted
    BY <1>2, <2>1, <2>2 DEF Told
  <2>3. CASE p \notin call[c].acted
    <3>1. \A d \in Requests : p \notin call[d].acted
      BY <1>4, <2>3 DEF CardsInv, Quiet
    <3>2. processor[p] \in Ordered(p) \cup {row.tenders[p]}
      BY <1>4, <2>1, <3>1 DEF Shown, Once
    <3>3. NoOrder.tenders[p] = "none"
      BY NoTendersNone DEF NoOrder
    <3>4. Ordered(p) \subseteq {"none"}
      BY <1>4, <3>3 DEF Ordered, NoOrders
    <3>5. row.tenders[p] = processor[p]
      BY <1>2, <3>2, <3>4
    <3>6. Writable(c) /\ call[c].cart.version = row.version
      BY <1>2, <1>4 DEF Writable, Once, Current
    <3>7. Exists
      BY <1>2, <3>5, NoTendersNone DEF CardsInv, Gone
    <3> QED
      BY <1>2, <2>1, <2>3, <3>5, <3>6, <3>7 DEF Kept
  <2> QED
    BY <2>2, <2>3
<1>6. ASSUME NEW q \in Cards PROVE Charged(q)'
  <2>1. Charged(q)
    BY <1>4 DEF Once
  <2>2. CASE q = p
    BY <1>2, <1>5, <2>1, <2>2 DEF Charged, Capture, ProcessorHas, TypeOK
  <2>3. CASE q # p
    BY <1>2, <2>1, <2>3 DEF Charged, Capture, ProcessorHas, TypeOK
  <2> QED
    BY <2>2, <2>3
<1>7. Current(c)' /\ Closing(c)'
  BY <1>2, <1>3, <1>4 DEF Once, Current, Closing, Writable
<1>8. lost' = {} /\ (Exists' => row'.terminal \in Terminals)
  BY <1>2, <1>4 DEF Once, Exists
<1> QED
  BY <1>2, <1>4, <1>6, <1>7, <1>8, NoOrdersKept, OnceKept

LEMMA EndsOnce ==
    ASSUME TypeOK, Lone, OnceInv, Serial', NEW c \in Requests, Ends(c),
           call[c].stage \notin {"idle", "delete"}, lost' = lost,
           UNCHANGED <<row, order, processor, captures, overlapped, faults, versions>>
    PROVE Once'
<1>1. /\ Once /\ NoOrders
      /\ \A d \in Requests : d # c => call'[d].stage = "idle"
  BY EndsAt, SerialStep DEF Serial
<1>2. Current(c)' /\ Closing(c)'
  BY EndsAt DEF Current, Closing, Writable
<1>3. lost' = {} /\ (Exists' => row'.terminal \in Terminals) /\ \A q \in Cards : Charged(q)'
  BY <1>1 DEF Once, Exists, Charged
<1> QED
  BY <1>1, <1>2, <1>3, NoOrdersKept, OnceKept

LEMMA StageOnce ==
    ASSUME TypeOK, Lone, OnceInv, Serial', NEW c \in Requests, CaptureFails(c)
    PROVE Once'
<1>1. /\ call'[c].stage = "saveFailed" /\ call'[c].cart = call[c].cart
      /\ \A d \in Requests : d # c => call'[d] = call[d]
  BY StageAt DEF CaptureFails
<1>2. /\ row' = row /\ order' = order /\ captures' = captures /\ processor' = processor
      /\ overlapped' = overlapped /\ faults' = faults /\ lost' = lost
      /\ call[c].stage = "payment"
  BY DEF CaptureFails, At
<1>3. /\ Once /\ NoOrders
      /\ \A d \in Requests : d # c => call'[d].stage = "idle"
  BY <1>1, <1>2, SerialStep DEF Serial
<1>4. Current(c)' /\ Closing(c)'
  BY <1>1, <1>2, <1>3 DEF Once, Current, Closing, Writable
<1>5. lost' = {} /\ (Exists' => row'.terminal \in Terminals) /\ \A q \in Cards : Charged(q)'
  BY <1>2, <1>3 DEF Once, Exists, Charged
<1> QED
  BY <1>2, <1>3, <1>4, <1>5, NoOrdersKept, OnceKept

LEMMA SaveOnce ==
    ASSUME TypeOK, Lone, OnceInv, Serial', NEW c \in Requests, Save(c)
    PROVE Once'
<1>1. /\ order' = order /\ captures' = captures /\ processor' = processor
      /\ overlapped' = overlapped /\ faults' = faults /\ lost' = lost
      /\ call[c].stage \in {"payment", "save", "saveFailed"}
  BY DEF Save, ToSave, At
<1>2. /\ Once /\ NoOrders
      /\ \A d \in Requests : d # c => call'[d].stage = "idle"
  BY <1>1, SaveAt, SerialStep DEF Serial
<1>3. row'.terminal \in Terminals
  BY <1>1, <1>2, SaveAt DEF Once, Current, Writable
<1>4. Current(c)' /\ Closing(c)'
  BY SaveAt DEF Current, Closing, Writable
<1>5. lost' = {} /\ \A q \in Cards : Charged(q)'
  BY <1>1, <1>2 DEF Once, Charged
<1> QED
  BY <1>1, <1>2, <1>3, <1>4, <1>5, NoOrdersKept, OnceKept

\* The copy has the version of the row.
LEMMA NeverRefused ==
    ASSUME TypeOK, Lone, OnceInv, Serial, NEW c \in Requests, SaveRefused(c)
    PROVE FALSE
<1>1. Writable(c) /\ ~MayWrite(call[c].cart)
  BY DEF SaveRefused, ToSave, Writable, At
<1> QED
  BY <1>1 DEF OnceInv, Once, Current, MayWrite

LEMMA ReloadOnce ==
    ASSUME TypeOK, CopiesInv, Lone, OnceInv, Serial', NEW c \in Requests, Reload(c)
    PROVE Once'
<1>1. /\ row' = row /\ order' = order /\ captures' = captures /\ processor' = processor
      /\ overlapped' = overlapped /\ faults' = faults /\ lost' = lost /\ versions' = versions
      /\ call[c].stage = "reload"
  BY DEF Reload
<1>2. CASE Exists
  <2>1. /\ call'[c].stage = "order" /\ call'[c].cart = row
        /\ \A d \in Requests : d # c => call'[d] = call[d]
    BY <1>2, ReloadAt
  <2>2. /\ Once /\ NoOrders
        /\ \A d \in Requests : d # c => call'[d].stage = "idle"
    BY <1>1, <2>1, SerialStep DEF Serial
  <2>3. versions > 0
    BY <1>2, RowVersion DEF Exists
  <2>4. Current(c)' /\ Closing(c)'
    BY <1>1, <1>2, <2>1, <2>2, <2>3 DEF Once, Current, Closing, Writable
  <2>5. lost' = {} /\ (Exists' => row'.terminal \in Terminals) /\ \A q \in Cards : Charged(q)'
    BY <1>1, <2>2 DEF Once, Exists, Charged
  <2> QED
    BY <1>1, <2>2, <2>4, <2>5, NoOrdersKept, OnceKept
<1>3. CASE ~Exists
  BY <1>1, <1>3, EndsOnce DEF Reload
<1> QED
  BY <1>2, <1>3

LEMMA RemovesOnce ==
    ASSUME TypeOK, Lone, OnceInv, Serial', NEW c \in Requests, NEW n \in 1 .. row.lines,
           ReloadRemoves(c, n)
    PROVE Once'
<1>1. /\ row' = row /\ order' = order /\ captures' = captures /\ processor' = processor
      /\ overlapped' = overlapped /\ faults' = faults /\ lost' = lost
      /\ call[c].stage = "reload" /\ Exists
  BY DEF ReloadRemoves
<1> DEFINE cart == [row EXCEPT !.lines = @ - n]
<1>2. cart.version = row.version /\ cart.terminal = row.terminal
  BY ShorterCart
<1>3. /\ call'[c].stage = "saveFailed" /\ call'[c].cart = cart
      /\ \A d \in Requests : d # c => call'[d] = call[d]
  BY RemovesAt
<1> HIDE DEF cart
<1>4. /\ Once /\ NoOrders
      /\ \A d \in Requests : d # c => call'[d].stage = "idle"
  BY <1>1, <1>3, SerialStep DEF Serial
<1>5. Current(c)' /\ Closing(c)'
  BY <1>1, <1>2, <1>3, <1>4 DEF Once, Current, Closing, Writable
<1>6. lost' = {} /\ (Exists' => row'.terminal \in Terminals) /\ \A q \in Cards : Charged(q)'
  BY <1>1, <1>4 DEF Once, Exists, Charged
<1> QED
  BY <1>1, <1>4, <1>5, <1>6, NoOrdersKept, OnceKept

LEMMA OrderOnce ==
    ASSUME TypeOK, Lone, OnceInv, Serial', NEW c \in Requests, CreateSalesOrder(c)
    PROVE Once'
<1> DEFINE t == call[c].cart.terminal
<1>1. /\ row' = row /\ captures' = captures /\ processor' = processor /\ versions' = versions
      /\ overlapped' = overlapped /\ faults' = faults /\ lost' = lost
      /\ call[c].stage = "order"
  BY DEF CreateSalesOrder
<1>2. CASE order[t] = NoOrder
  <2>1. /\ call' = [call EXCEPT ![c].stage = "delete"]
        /\ order' = [order EXCEPT ![t] = OrderOf(c)]
    BY <1>2 DEF CreateSalesOrder
  <2>2. /\ call'[c].stage = "delete" /\ call'[c].cart = call[c].cart
        /\ \A d \in Requests : d # c => call'[d] = call[d]
    BY <2>1, StageAt
  <2>3. /\ Once
        /\ \A d \in Requests : d # c => call[d].stage = "idle" /\ call'[d].stage = "idle"
    BY <1>1, <2>2, SerialStep DEF Serial
  <2>4. Closing(c)
    BY <2>3 DEF Once
  <2>5. order'[t].tenders = row.tenders /\ t \in Terminals
    BY <1>1, <2>1, <2>4 DEF Closing, OrderOf, TypeOK
  <2>6. \A q \in Cards : row.tenders[q] \in Ordered(q)'
    BY <2>5 DEF Ordered
  <2>7. Current(c)' /\ Closing(c)'
    BY <1>1, <2>2, <2>4, <2>6 DEF Current, Closing, Writable
  <2>8. Closed'
    BY <1>1, <2>2, <2>3, <2>4 DEF Closed, Closing
  <2>9. lost' = {} /\ (Exists' => row'.terminal \in Terminals) /\ \A q \in Cards : Charged(q)'
    BY <1>1, <2>3 DEF Once, Exists, Charged
  <2> QED
    BY <2>3, <2>7, <2>8, <2>9, OnceKept
<1>3. CASE order[t] # NoOrder
  BY <1>1, <1>3, EndsOnce DEF CreateSalesOrder
<1> QED
  BY <1>2, <1>3

LEMMA DeleteOnce ==
    ASSUME TypeOK, Lone, OnceInv, Serial', NEW c \in Requests, DeleteCart(c)
    PROVE Once'
<1>1. /\ row' = NoCart /\ order' = order /\ captures' = captures /\ processor' = processor
      /\ overlapped' = overlapped /\ faults' = faults /\ versions' = versions
      /\ call[c].stage = "delete" /\ Ends(c)
  BY DEF DeleteCart
<1>2. /\ Once
      /\ \A d \in Requests : d # c => call'[d].stage = "idle"
  BY <1>1, EndsAt, SerialStep DEF Serial
<1>3. Closing(c)
  BY <1>2 DEF Once
<1>4. lost' = {}
  BY <1>1, <1>2, <1>3 DEF DeleteCart, Closing, Once
<1>5. ~Exists'
  BY <1>1 DEF Exists, NoCart
<1>6. Current(c)' /\ Closing(c)'
  BY <1>1, EndsAt DEF Current, Closing, Writable
<1>7. Closed'
  BY <1>1, <1>2, <1>3, <1>5, EndsAt DEF Closed, Closing
<1>8. \A q \in Cards : Charged(q)'
  BY <1>1, <1>2 DEF Once, Charged
<1> QED
  BY <1>2, <1>4, <1>5, <1>6, <1>7, <1>8, OnceKept

LEMMA NextOnce ==
    TypeOK /\ CopiesInv /\ CardsInv /\ SaleInv /\ OnceInv /\ [Next]_vars => OnceInv'
<1> SUFFICES ASSUME TypeOK, CopiesInv, CardsInv, SaleInv, OnceInv, [Next]_vars, Serial'
             PROVE Once'
  BY DEF OnceInv
<1>1. Lone
  BY DEF SaleInv
<1>2. CASE UNCHANGED vars
  BY <1>2 DEF vars, OnceInv, Serial, Once, Exists, Current, Closing, Writable, Closed, NoOrders,
              Ordered, Charged
<1>3. ASSUME NEW c \in Requests, SaveRefused(c) PROVE FALSE
  <2>1. Serial
    BY <1>3 DEF Serial, SaveRefused
  <2> QED
    BY <1>1, <1>3, <2>1, NeverRefused
<1>4. ASSUME NEW c \in Requests, Fails(c) PROVE FALSE
  BY <1>4 DEF Fails, Serial, TypeOK
<1>5. ASSUME NEW c \in Requests, Declined(c) PROVE Once'
  BY <1>1, <1>5, EndsOnce DEF Declined, At
<1>6. CASE Next
  <2> PICK c \in Requests :
        \/ \E kind \in Kind, p \in Payments \cup {NoPayment}, t \in Terminals, n \in 0 .. row.lines :
                Load(c, kind, p, t, n)
        \/ \E t \in Terminals, n \in 1 .. MaxLines : Create(c, t, n)
        \/ (Authorize(c) \/ CancelPayment(c)) \/ Declined(c)
        \/ (\E p \in Cards : Capture(c, p)) \/ CaptureFails(c)
        \/ Save(c) \/ SaveRefused(c) \/ Reload(c)
        \/ \E n \in 1 .. row.lines : ReloadRemoves(c, n)
        \/ CreateSalesOrder(c) \/ DeleteCart(c) \/ Fails(c)
    BY <1>6, Zenon DEF Next
  <2> QED
    BY <1>1, <1>3, <1>4, <1>5, LoadOnce, CreateOnce, TenderOnce, CaptureOnce, StageOnce, SaveOnce,
       ReloadOnce, RemovesOnce, OrderOnce, DeleteOnce, Zenon
<1> QED
  BY <1>2, <1>6

\* For any number of cards, and however often checkouts stop half way through the captures and
\* are repeated: without overlapping requests and failures no card is charged twice.
THEOREM ChargedOnce == Spec => []CapturedOnce
<1> DEFINE Inv == TypeOK /\ CopiesInv /\ CardsInv /\ SaleInv /\ OnceInv
<1>1. Init => Inv
  BY InitTyped, InitCopies, InitCards, InitSale, InitOnce
<1>2. Inv /\ [Next]_vars => Inv'
  BY NextTyped, NextCopies, NextCards, NextSale, NextOnce
<1>3. Inv => CapturedOnce
  BY DEF OnceInv, Once, Serial, Charged, CapturedOnce
<1> HIDE DEF Inv
<1> QED
  BY <1>1, <1>2, <1>3, PTL DEF Spec
=============================================================================
