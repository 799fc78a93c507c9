------------------------------- MODULE CartStore -------------------------------
(***************************************************************************)
(* The cart of one transaction in the Commerce Runtime: the row the handlers   *)
(* load, work on and save (SAVESALESTRANSACTIONS, guarded by a row version),   *)
(* its tender lines and the card processor behind them, and the checkout that  *)
(* captures the payments, saves and reloads the cart, creates the order and    *)
(* deletes the cart.                                                         *)
(*                                                                         *)
(* Each request runs on a copy of the cart; steps of several requests          *)
(* interleave.  A read of the cart drops the lines whose products have left    *)
(* the channel and saves what remains.  A sales line costs what a tender line  *)
(* pays, so change, prices and refunds are left out, and so are the offline    *)
(* transfer of a cart (ChainedRequest) and pre-processed cards.               *)
(***************************************************************************)
EXTENDS Naturals, FiniteSets

CONSTANTS
    Requests,    \* slots for requests being processed
    Payments,    \* tender lines a client may add
    Cards,       \* those of them paid by card; the others are cash
    Terminals,
    NoTerminal,
    NoPayment,
    MaxLines,    \* bound: sales lines
    MaxVersions, \* bound: row versions
    MaxFaults    \* bound: requests that end between two steps

ASSUME ConstantsAssumption ==
    /\ Cards \subseteq Payments
    /\ NoTerminal \notin Terminals /\ NoPayment \notin Payments
    /\ IsFiniteSet(Payments)
    /\ {MaxLines, MaxVersions, MaxFaults} \subseteq Nat

VARIABLES
    row,         \* the cart in crt.SALESTRANSACTION, or NoCart
    versions,    \* row versions given
    order,       \* the transaction saved for the cart, by terminal, or NoOrder
    processor,   \* what the card processor has done with each payment
    captures,    \* history: successful captures of each payment
    call,        \* per slot: the request and its copy of the cart
    overlapped,  \* history: a request started before another had ended
    faults,      \* history: requests that ended between two steps
    lost         \* history: payments a request acted on and did not get saved

vars == <<row, versions, order, processor, captures, call, overlapped, faults, lost>>

TenderStatus == {"none", "PendingCommit", "Committed", "Voided"}

Tenders == [Payments -> TenderStatus]

Cart == [lines : Nat, tenders : Tenders, terminal : Terminals \cup {NoTerminal},
         suspended : BOOLEAN, version : Nat]

NoTenders == [p \in Payments |-> "none"]

\* A row that does not exist has version 0.
NoCart == [lines |-> 0, tenders |-> NoTenders, terminal |-> NoTerminal,
           suspended |-> FALSE, version |-> 0]

NoOrder == [kind |-> "none", lines |-> 0, tenders |-> NoTenders]

Kind == {"getCart", "saveCart", "addTender", "voidTender", "suspend", "resume", "checkout",
         "voidTransaction"}

NoCall == [stage |-> "idle", kind |-> "none", payment |-> NoPayment,
           acted |-> {}, cart |-> NoCart, removed |-> 0]

TypeOK ==
    /\ row \in Cart
    /\ versions \in 0 .. MaxVersions
    /\ order \in [Terminals -> [kind : {"none", "sale", "void"}, lines : Nat, tenders : Tenders]]
    /\ processor \in [Cards -> TenderStatus]
    /\ captures \in [Cards -> Nat]
    /\ call \in [Requests -> [stage : {"idle", "payment", "save", "saveFailed",
                                       "reload", "order", "delete"},
                              kind : Kind \cup {"none"},
                              payment : Payments \cup {NoPayment},
                              acted : SUBSET Cards, cart : Cart, removed : Nat]]
    /\ overlapped \in BOOLEAN
    /\ faults \in 0 .. MaxFaults
    /\ lost \subseteq Cards

Init ==
    /\ row = NoCart /\ versions = 0
    /\ order = [t \in Terminals |-> NoOrder]
    /\ processor = [p \in Cards |-> "none"]
    /\ captures = [p \in Cards |-> 0]
    /\ call = [c \in Requests |-> NoCall]
    /\ overlapped = FALSE /\ faults = 0 /\ lost = {}

Exists == row.version # 0

Active(tenders)  == {p \in Payments : tenders[p] \in {"PendingCommit", "Committed"}}
Pending(tenders) == {p \in Payments : tenders[p] = "PendingCommit"}

At(c, kinds, stage) == call[c].stage = stage /\ call[c].kind \in kinds

Ends(c) == call' = [call EXCEPT ![c] = NoCall]

-----------------------------------------------------------------------------
(* A request loads the cart and validates: what it refuses changes nothing.  A load   *)
(* that drops lines saves the cart first and then halts the request                   *)
(* (HaltNotificationHandler), or, for a void, loads it again: that much is a getCart   *)
(* request here, of which nothing is kept.  Resume saves what it dropped with the rest. *)

\* Mutant: any payment will do.
IsPaidSomewhat(cart) == cart.lines > 0 /\ Active(cart.tenders) # {}

\* CalculateAndValidateAmountPaidForCheckout.
IsRequiredAmountPaid(cart) == cart.lines > 0 /\ Cardinality(Active(cart.tenders)) >= cart.lines

IsVoidable(p, status) == status = IF p \in Cards THEN "PendingCommit" ELSE "Committed"

\* What each handler requires of the cart it has loaded for a client at terminal t.
Allowed(kind, p, t) ==
    CASE kind = "getCart" -> TRUE
      [] kind = "saveCart" -> (~row.suspended /\ row.terminal = t /\ row.lines < MaxLines)
      [] kind = "addTender" ->
            (/\ p \in Payments /\ row.tenders[p] = "none" /\ (p \in Cards => processor[p] = "none")
             /\ Cardinality(Active(row.tenders)) < row.lines)
      [] kind = "voidTender" -> (p \in Payments /\ IsVoidable(p, row.tenders[p]))
      [] kind = "suspend" -> (~row.suspended /\ Active(row.tenders) = {} /\ row.terminal = t)
      [] kind = "resume" -> row.suspended
      [] kind = "checkout" -> (~row.suspended /\ row.terminal = t /\ IsRequiredAmountPaid(row))
      [] kind = "voidTransaction" -> (~row.suspended /\ Active(row.tenders) = {})

\* How many lines of unavailable products a load may find and drop from its copy.
Unavailable(kind) ==
    CASE kind = "getCart" -> 1 .. row.lines
      [] kind = "resume" -> 0 .. row.lines
      [] OTHER -> {0}

\* What it does to its copy, n lines dropped, before anything else happens.
Changed(kind, t, n) ==
    CASE kind = "getCart" -> [row EXCEPT !.lines = @ - n]
      [] kind = "saveCart" -> [row EXCEPT !.lines = @ + 1]
      [] kind = "suspend" -> [row EXCEPT !.suspended = TRUE]
      [] kind = "resume" -> [row EXCEPT !.lines = @ - n, !.suspended = FALSE, !.terminal = t]
      [] kind = "voidTransaction" -> [row EXCEPT !.terminal = t]
      [] OTHER -> row

FirstStage(kind) ==
    IF kind \in {"addTender", "voidTender", "checkout"} THEN "payment"
    ELSE IF kind = "voidTransaction" THEN "order" ELSE "save"

Busy == \E c \in Requests : call[c].stage # "idle"

Starts(c, kind, p, n, cart) ==
    /\ call[c].stage = "idle"
    /\ call' = [call EXCEPT ![c] = [stage |-> FirstStage(kind), kind |-> kind, payment |-> p,
                                    acted |-> {}, cart |-> cart, removed |-> n]]
    /\ overlapped' = (overlapped \/ Busy)
    /\ UNCHANGED <<row, versions, order, processor, captures, faults, lost>>

Load(c, kind, p, t, n) ==
    /\ Exists
    /\ p # NoPayment <=> kind \in {"addTender", "voidTender"}
    /\ Allowed(kind, p, t)
    /\ n \in Unavailable(kind)
    /\ Starts(c, kind, p, n, Changed(kind, t, n))

\* SaveCart of a cart that is not there makes it; a client takes a new id for each cart.
Create(c, t, n) ==
    /\ ~Exists /\ versions = 0
    /\ Starts(c, "saveCart", NoPayment, 0, [NoCart EXCEPT !.lines = n, !.terminal = t])

-----------------------------------------------------------------------------
(* Payments. *)

\* Mutant: the status of the tender line stays.
ProcessedOnly(c, p, status, stage) ==
    call' = [call EXCEPT ![c].acted = @ \cup ({p} \cap Cards), ![c].stage = stage]

\* The copy with p at a new status, acted on when the processor was.
Processed(c, p, status, stage) ==
    call' = [call EXCEPT ![c].cart.tenders[p] = status,
                         ![c].acted = @ \cup ({p} \cap Cards),
                         ![c].stage = stage]

\* Mutant: cash is processed too.
ProcessorHasAll(p, status) ==
    processor' = [q \in Cards \cup {p} |-> IF q = p THEN status ELSE processor[q]]

\* The processor is told of cards only.
ProcessorHas(p, status) ==
    processor' = IF p \in Cards THEN [processor EXCEPT ![p] = status] ELSE processor

\* Cash is committed at once; a card is authorised.
Authorize(c) ==
    LET p == call[c].payment
        s == IF p \in Cards THEN "PendingCommit" ELSE "Committed" IN
    /\ At(c, {"addTender"}, "payment")
    /\ p \in Cards => processor[p] = "none"
    /\ Processed(c, p, s, "save")
    /\ ProcessorHas(p, s)
    /\ UNCHANGED <<row, versions, order, captures, overlapped, faults, lost>>

CancelPayment(c) ==
    LET p == call[c].payment IN
    /\ At(c, {"voidTender"}, "payment")
    /\ p \in Cards => processor[p] = "PendingCommit"
    /\ Processed(c, p, "Voided", "save")
    /\ ProcessorHas(p, "Voided")
    /\ UNCHANGED <<row, versions, order, captures, overlapped, faults, lost>>

\* The processor declines, or has to: the exception ends the request.
Declined(c) ==
    /\ At(c, {"addTender", "voidTender"}, "payment")
    /\ call[c].payment \in Cards
    /\ Ends(c)
    /\ UNCHANGED <<row, versions, order, processor, captures, overlapped, faults, lost>>

\* One turn of the loop of CapturePayments.
Capture(c, p) ==
    /\ At(c, {"checkout"}, "payment")
    /\ p \in Pending(call[c].cart.tenders)
    /\ processor[p] \in {"PendingCommit", "Committed"}
    /\ Processed(c, p, "Committed", "payment")
    /\ ProcessorHas(p, "Committed")
    /\ captures' = [captures EXCEPT ![p] = @ + 1]
    /\ UNCHANGED <<row, versions, order, overlapped, faults, lost>>

\* Mutant: the exception leaves at once, without the finally block.
CaptureFailsUnsaved(c) ==
    /\ At(c, {"checkout"}, "payment")
    /\ Pending(call[c].cart.tenders) # {}
    /\ Ends(c)
    /\ UNCHANGED <<row, versions, order, processor, captures, overlapped, faults, lost>>

\* The exception leaves by way of the finally block, which saves the cart.
CaptureFails(c) ==
    /\ At(c, {"checkout"}, "payment")
    /\ Pending(call[c].cart.tenders) # {}
    /\ call' = [call EXCEPT ![c].stage = "saveFailed"]
    /\ UNCHANGED <<row, versions, order, processor, captures, overlapped, faults, lost>>

-----------------------------------------------------------------------------
(* Saving and loading the row. *)

ToSave(c) ==
    \/ call[c].stage \in {"save", "saveFailed"}
    \/ At(c, {"checkout"}, "payment") /\ Pending(call[c].cart.tenders) = {}

\* Mutant: the version the row had is not compared.
MayWriteAny(cart) == TRUE

\* A row that is gone is inserted again; one that is there must have the version read.
MayWrite(cart) == ~Exists \/ row.version = cart.version

Save(c) ==
    /\ ToSave(c)
    /\ versions < MaxVersions
    /\ MayWrite(call[c].cart)
    /\ versions' = versions + 1
    /\ row' = [call[c].cart EXCEPT !.version = versions + 1]
    /\ IF call[c].stage = "payment"
       THEN call' = [call EXCEPT ![c].stage = "reload", ![c].acted = {}]
       ELSE Ends(c)
    /\ UNCHANGED <<order, processor, captures, overlapped, faults, lost>>

\* InvalidCartVersion: "a validation issue that can be retried".
SaveRefused(c) ==
    /\ ToSave(c)
    /\ ~MayWrite(call[c].cart)
    /\ lost' = lost \cup call[c].acted
    /\ Ends(c)
    /\ UNCHANGED <<row, versions, order, processor, captures, overlapped, faults>>

\* After a checkout has saved its cart; a cart deleted meanwhile is an exception.
Reload(c) ==
    /\ call[c].stage = "reload"
    /\ IF Exists THEN call' = [call EXCEPT ![c].stage = "order", ![c].cart = row] ELSE Ends(c)
    /\ UNCHANGED <<row, versions, order, processor, captures, overlapped, faults, lost>>

\* That load drops n lines: the cart is saved without them and the request is halted.
ReloadRemoves(c, n) ==
    /\ call[c].stage = "reload" /\ Exists
    /\ n \in 1 .. row.lines
    /\ call' = [call EXCEPT ![c].stage = "saveFailed", ![c].cart = [row EXCEPT !.lines = @ - n],
                            ![c].removed = n]
    /\ UNCHANGED <<row, versions, order, processor, captures, overlapped, faults, lost>>

-----------------------------------------------------------------------------
(* The order. *)

OrderOf(c) ==
    [kind |-> IF call[c].kind = "checkout" THEN "sale" ELSE "void",
     lines |-> call[c].cart.lines, tenders |-> call[c].cart.tenders]

\* INSERTSALESORDER: the terminal and the transaction's id are the primary key.
CreateSalesOrder(c) ==
    LET t == call[c].cart.terminal IN
    /\ call[c].stage = "order"
    /\ IF order[t] = NoOrder
       THEN /\ order' = [order EXCEPT ![t] = OrderOf(c)]
            /\ call' = [call EXCEPT ![c].stage = "delete"]
       ELSE Ends(c) /\ UNCHANGED order
    /\ UNCHANGED <<row, versions, processor, captures, overlapped, faults, lost>>

\* The status of a payment on the orders.
Ordered(p) == {order[t].tenders[p] : t \in Terminals}

\* The row goes, whatever version it has: a payment only it shows is lost.
DeleteCart(c) ==
    /\ call[c].stage = "delete"
    /\ row' = NoCart
    /\ lost' = lost \cup {p \in Cards : row.tenders[p] \notin Ordered(p) \cup {"none"}}
    /\ Ends(c)
    /\ UNCHANGED <<versions, order, processor, captures, overlapped, faults>>

\* The database or the process fails: the request ends where it is.  TryDeleteCart is
\* silent about it.
Fails(c) ==
    /\ call[c].stage # "idle"
    /\ faults < MaxFaults
    /\ faults' = faults + 1
    /\ lost' = lost \cup call[c].acted
    /\ Ends(c)
    /\ UNCHANGED <<row, versions, order, processor, captures, overlapped>>

-----------------------------------------------------------------------------
Next ==
    \E c \in Requests :
        \/ \E kind \in Kind, p \in Payments \cup {NoPayment}, t \in Terminals, n \in 0 .. row.lines :
                Load(c, kind, p, t, n)
        \/ \E t \in Terminals, n \in 1 .. MaxLines : Create(c, t, n)
        \/ Authorize(c) \/ CancelPayment(c) \/ Declined(c)
        \/ \E p \in Cards : Capture(c, p)
        \/ CaptureFails(c)
        \/ Save(c) \/ SaveRefused(c) \/ Reload(c)
        \/ \E n \in 1 .. row.lines : ReloadRemoves(c, n)
        \/ CreateSalesOrder(c) \/ DeleteCart(c) \/ Fails(c)

Spec == Init /\ [][Next]_vars

-----------------------------------------------------------------------------
(* Properties. *)

\* While the cart is there, whatever requests overlap and fail, no save undoes another's:
\* sales lines go only in a save by a request that dropped that many, for want of their
\* products, from the very row it replaces (every load and resume may), and a tender line
\* never goes back to an earlier status.
Progress == {<<"none", "PendingCommit">>, <<"none", "Committed">>,
             <<"PendingCommit", "Committed">>, <<"PendingCommit", "Voided">>,
             <<"Committed", "Voided">>}

SavesKeepLines ==
    [][Exists /\ Exists' =>
        /\ row'.lines < row.lines => \E c \in Requests :
                /\ call'[c] # call[c] /\ call[c].cart.version = row.version
                /\ row.lines <= row'.lines + call[c].removed
        /\ \A p \in Payments : row.tenders[p] # row'.tenders[p] =>
                <<row.tenders[p], row'.tenders[p]>> \in Progress]_vars

\* A card is charged once, however often checkouts failed half way through the captures
\* and were repeated, as long as requests do not overlap and the database does not fail.
CapturedOnce == ~overlapped /\ faults = 0 => \A p \in Cards : captures[p] <= 1

\* The cart or the order shows what the processor has done with a payment, unless a
\* request that acted on it is still running or did not get its change saved.
PaymentsShown ==
    \A p \in Cards \ lost :
        \/ \E c \in Requests : p \in call[c].acted
        \/ processor[p] \in Ordered(p) \cup {row.tenders[p]}

\* "Amount due must be paid before checkout": unless requests overlap, an order is covered
\* by tender lines, and those paid by card have been captured.
OrderPaid ==
    ~overlapped => \A t \in Terminals : order[t].kind = "sale" =>
        /\ Cardinality(Active(order[t].tenders)) >= order[t].lines
        /\ Pending(order[t].tenders) = {}
        /\ \A p \in Active(order[t].tenders) \cap Cards : captures[p] > 0
=============================================================================
