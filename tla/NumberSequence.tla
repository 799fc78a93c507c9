---------------------------- MODULE NumberSequence ----------------------------
(***************************************************************************)
(* The numbers the point of sale gives its transactions and receipts         *)
(* (NumberSequence), and what the activation of the device makes of them:     *)
(* deactivation wipes the local seeds, activation takes new ones the server   *)
(* derives from the transactions it has (NumberSequenceRequestHandler,        *)
(* crt.GETLATESTNUMBERSEQUENCE).                                             *)
(*                                                                         *)
(* A transaction is saved by the server, which refuses a number it has, or by *)
(* the offline database; a merge uploads the latter.  A request of the server  *)
(* that got no answer is executed offline under the number it has; a log on or *)
(* off that succeeded is repeated offline under the next number.  A cart is    *)
(* numbered when it is created and saved when it is checked out or voided.     *)
(* Numbers of shifts, other kinds of receipt, masks and headquarters' seeds    *)
(* are left out.                                                             *)
(***************************************************************************)
EXTENDS Naturals, Sequences, FiniteSetsExt

CONSTANTS
    MaxRows,     \* bound: transactions saved
    MaxNumber,   \* bound: numbers given to transactions
    MaxReceipts  \* bound: numbers given to receipts

ASSUME ConstantsAssumption ==
    {MaxRows, MaxNumber, MaxReceipts} \subseteq Nat

VARIABLES
    active,     \* the device is not activated, has its seeds, or is activated
    online,     \* Session.connectionStatus
    seed,       \* NUMBER_SEQUENCES_KEY, 0 where it has no seed
    cached,     \* CART_RECEIPT_NUMBER_SEQUENCE_KEY: the last cart given a receipt number
    cart,       \* the number of the session's cart, or 0
    suspended,  \* the numbers of suspended carts, by store
    carts,      \* the carts of the server (crt.SALESTRANSACTION) in the order of CREATEDDATETIME
    saved,      \* transactions in the order of CREATEDDATETIME
    repeat,     \* the number of a request the offline database still has to execute, or 0
    repeated,   \* numbers the server has saved and the client takes for not saved
    troubles    \* history: what happened that the seeds do not survive

vars == <<active, online, seed, cached, cart, suspended, carts, saved, repeat, repeated,
          troubles>>

Sequence == {"transaction", "receipt"}

Store == {"server", "device"}

Row == [id : Nat, receipt : Nat, at : Store]

NoReceipt == [cart |-> 0, receipt |-> 0]

TypeOK ==
    /\ active \in {"no", "seeded", "yes"}
    /\ online \in BOOLEAN
    /\ seed \in [Sequence -> Nat]
    /\ cached \in [cart : Nat, receipt : Nat]
    /\ {cart, repeat} \subseteq Nat
    /\ suspended \in [Store -> SUBSET Nat]
    /\ carts \in Seq(Nat)
    /\ saved \in Seq(Row)
    /\ repeated \subseteq Nat
    /\ troubles \subseteq {"late", "pending", "refused", "overwritten"}

Init ==
    /\ active = "no" /\ online = TRUE
    /\ seed = [s \in Sequence |-> 0]
    /\ cached = NoReceipt
    /\ cart = 0 /\ suspended = [s \in Store |-> {}]
    /\ carts = <<>> /\ saved = <<>>
    /\ repeat = 0 /\ repeated = {}
    /\ troubles = {}

Positions    == 1 .. Len(saved)
Rows(where)  == {i \in Positions : saved[i].at = where}
Place        == IF online THEN "server" ELSE "device"

NoRow == [id |-> 0, receipt |-> 0, at |-> "server"]

LastRow(rows) == IF rows = {} THEN NoRow ELSE saved[Max(rows)]

Happens(t, happened) == troubles' = troubles \cup (IF happened THEN {t} ELSE {})

-----------------------------------------------------------------------------
(* The client's numbers. *)

\* GetNextValue: a sequence without a seed starts at 1.
NextValue(s) == IF seed[s] = 0 THEN 1 ELSE seed[s]

\* The seeds once n numbers of s are given.
Given(s, n) == [seed EXCEPT ![s] = NextValue(s) + n]

MayGive(n) == NextValue("transaction") + n <= MaxNumber + 1

\* Mutant: the cached number whatever the cart.
NextReceiptKept(c) == IF cached.cart # 0 THEN cached.receipt ELSE NextValue("receipt")

\* GetNextReceiptId: the cart's number is cached until another cart draws one.
NextReceipt(c) == IF cached.cart = c THEN cached.receipt ELSE NextValue("receipt")

DrawReceipt(c) ==
    /\ NextReceipt(c) <= MaxReceipts
    /\ cached' = [cart |-> c, receipt |-> NextReceipt(c)]
    /\ seed' = IF cached.cart = c THEN seed ELSE Given("receipt", 1)

-----------------------------------------------------------------------------
(* Saving transactions. *)

\* The primary key of RETAILTRANSACTIONTABLE.
Refused(id, where) == \E i \in Rows(where) : saved[i].id = id

Save(id, receipt, where) ==
    /\ Len(saved) < MaxRows
    /\ saved' = IF Refused(id, where) THEN saved
                ELSE Append(saved, [id |-> id, receipt |-> receipt, at |-> where])

\* A transaction with a later number was saved first.
Late(id) == \E i \in Positions : saved[i].id > id

\* A transaction that is numbered when it is made: the drawer, a count, a shift's.
SaveTransaction ==
    /\ active = "yes" /\ MayGive(1)
    /\ seed' = Given("transaction", 1)
    /\ Save(NextValue("transaction"), 0, Place)
    /\ Happens("refused", Refused(NextValue("transaction"), Place))
    /\ UNCHANGED <<active, online, cached, cart, suspended, carts, repeat, repeated>>

\* A log on or off: once the server has saved it, it goes to the offline database under the
\* next number, and nobody waits for it.
SavesTwice(logged) ==
    /\ repeat = 0 /\ MayGive(2)
    /\ Save(NextValue("transaction"), 0, "server")
    /\ seed' = Given("transaction", IF logged THEN 2 ELSE 1)
    /\ repeat' = IF logged THEN NextValue("transaction") + 1 ELSE repeat

\* A log on is tried online whatever the status of the connection.
LogOnOff ==
    /\ active = "yes"
    /\ SavesTwice(~Refused(NextValue("transaction"), "server"))
    /\ Happens("refused", Refused(NextValue("transaction"), "server"))
    /\ UNCHANGED <<active, online, cached, cart, suspended, carts, repeated>>

\* The server does not answer a request, which it may have executed: the session goes
\* offline, where the request is executed under the number it has.
SaveFailsOver ==
    /\ active = "yes" /\ MayGive(1) /\ repeat = 0
    /\ online' = FALSE
    /\ seed' = Given("transaction", 1)
    /\ repeat' = NextValue("transaction")
    /\ \/ UNCHANGED <<saved, repeated, troubles>>
       \/ /\ ~Refused(repeat', "server")
          /\ Save(repeat', 0, "server")
          /\ repeated' = repeated \cup {repeat'}
          /\ UNCHANGED troubles
    /\ UNCHANGED <<active, cached, cart, suspended, carts>>

\* The offline database executes it, or fails.
RepeatOffline ==
    /\ repeat # 0
    /\ repeat' = 0
    /\ \/ UNCHANGED <<saved, troubles>>
       \/ /\ Save(repeat, 0, "device")
          /\ troubles' = troubles \cup (IF Late(repeat) THEN {"late"} ELSE {})
                                  \cup (IF Refused(repeat, "device") THEN {"refused"} ELSE {})
    /\ UNCHANGED <<active, online, seed, cached, cart, suspended, carts, repeated>>

-----------------------------------------------------------------------------
(* Carts. *)

CreateCart ==
    /\ active = "yes" /\ cart = 0 /\ MayGive(1)
    /\ cart' = NextValue("transaction")
    /\ seed' = Given("transaction", 1)
    /\ carts' = IF online THEN Append(carts, cart') ELSE carts
    /\ UNCHANGED <<active, online, cached, suspended, saved, repeat, repeated, troubles>>

\* Session.clearCart, where a sale is given up without a request: the number is not used again.
DropCart ==
    /\ cart # 0 /\ cart' = 0
    /\ UNCHANGED <<active, online, seed, cached, suspended, carts, saved, repeat, repeated,
                   troubles>>

\* The store the session is connected to has the cart.
CartLoads == cart # 0 /\ (online => \E j \in DOMAIN carts : carts[j] = cart)

SuspendCart ==
    /\ CartLoads
    /\ suspended' = [suspended EXCEPT ![Place] = @ \cup {cart}] /\ cart' = 0
    /\ UNCHANGED <<active, online, seed, cached, carts, saved, repeat, repeated, troubles>>

ResumeCart(c) ==
    /\ active = "yes" /\ cart = 0 /\ c \in suspended[Place]
    /\ suspended' = [suspended EXCEPT ![Place] = @ \ {c}] /\ cart' = c
    /\ UNCHANGED <<active, online, seed, cached, carts, saved, repeat, repeated, troubles>>

Without(s, j) == [k \in 1 .. Len(s) - 1 |-> IF k < j THEN s[k] ELSE s[k + 1]]

\* The transaction of the cart is saved and the cart deleted; a server's answer may be lost.
Conclude(receipt, answered) ==
    /\ CartLoads
    /\ Save(cart, receipt, Place)
    /\ ~answered => online /\ ~Refused(cart, Place)
    /\ carts' = IF online /\ ~Refused(cart, Place)
                THEN Without(carts, CHOOSE j \in DOMAIN carts : carts[j] = cart) ELSE carts
    /\ cart' = IF Refused(cart, Place) \/ ~answered THEN cart ELSE 0
    /\ repeated' = IF answered THEN repeated ELSE repeated \cup {cart}
    /\ troubles' = troubles \cup (IF Late(cart) THEN {"late"} ELSE {})
                            \cup (IF Refused(cart, Place) THEN {"refused"} ELSE {})
    /\ UNCHANGED <<active, online, suspended, repeat>>

\* A void saves a transaction without a receipt.
VoidCart(answered) == Conclude(0, answered) /\ UNCHANGED <<seed, cached>>

Checkout(answered) ==
    /\ cart # 0
    /\ DrawReceipt(cart)
    /\ Conclude(NextReceipt(cart), answered)

\* A checkout that is rejected before anything is saved has drawn its number.
CheckoutFails ==
    /\ cart # 0
    /\ DrawReceipt(cart)
    /\ UNCHANGED <<active, online, cart, suspended, carts, saved, repeat, repeated, troubles>>

-----------------------------------------------------------------------------
(* The connection and the upload. *)

\* The session's cart goes offline with it; with a cart in progress it does not go online.
SwitchConnection ==
    /\ active = "yes"
    /\ online' = ~online
    /\ online' => cart = 0
    /\ UNCHANGED <<active, seed, cached, cart, suspended, carts, saved, repeat, repeated, troubles>>

\* crt.UPSERTOFFLINETRANSACTIONS: the merge updates a row of the same key.
Uploaded(i) ==
    LET here == [saved EXCEPT ![i].at = "server"]
        old  == {j \in Rows("server") : saved[j].id = saved[i].id}
    IN  IF old = {} THEN here ELSE Without(here, CHOOSE j \in old : TRUE)

Upload(i) ==
    /\ active = "yes" /\ online /\ saved[i].at = "device"
    /\ saved' = Uploaded(i)
    /\ Happens("overwritten", Refused(saved[i].id, "server") /\ saved[i].id \notin repeated)
    /\ repeated' = repeated \ {saved[i].id}
    /\ UNCHANGED <<active, online, seed, cached, cart, suspended, carts, repeat>>

-----------------------------------------------------------------------------
(* Deactivation and activation. *)

\* Mutant: no sequence is left at all.
WipedAll == <<>>

\* A sequence that is not stored has no seed.
Wiped == [s \in Sequence |-> 0]

\* ApplicationStorage.clear(), once the server has deactivated the device.
Deactivate ==
    /\ active = "yes" /\ online /\ cart = 0 /\ MayGive(1)
    /\ active' = "no"
    /\ seed' = Wiped
    /\ cached' = NoReceipt
    /\ UNCHANGED <<online, cart, suspended, carts, saved, repeat, repeated, troubles>>

\* Mutant: carts do not count.
LatestSaved == LastRow(Rows("server")).id

LastCart == IF carts = <<>> THEN 0 ELSE carts[Len(carts)]

\* The latest number the server has: of the last transaction by date and the last cart.
LatestTransaction == Max({LastCart, LastRow(Rows("server")).id})

\* The receipt of the latest transaction that has one.
LatestReceipt ==
    LastRow({i \in Rows("server") : saved[i].receipt # 0}).receipt

\* GetLatestNumberSequenceOperation: NumberSequence.Update with the server's seeds ...
UpdateSeeds ==
    /\ active = "no"
    /\ active' = "seeded"
    /\ seed' = [transaction |-> LatestTransaction + 1, receipt |-> LatestReceipt + 1]
    /\ Happens("pending", Rows("device") # {} \/ suspended["device"] # {} \/ repeat # 0)
    /\ UNCHANGED <<online, cached, cart, suspended, carts, saved, repeat, repeated>>

\* ... then startSession.
StartSession ==
    LET refused == Refused(NextValue("transaction"), "server") IN
    /\ active = "seeded"
    /\ SavesTwice(~refused)
    /\ active' = IF refused THEN "no" ELSE "yes"
    /\ Happens("refused", refused)
    /\ UNCHANGED <<online, cached, cart, suspended, carts, repeated>>

\* Its failure, or a lost answer, fails the operation: the user repeats both.
StartSessionFails ==
    /\ active = "seeded" /\ MayGive(1)
    /\ active' = "no"
    /\ seed' = Given("transaction", 1)
    /\ \/ UNCHANGED saved
       \/ Save(NextValue("transaction"), 0, "server")
    /\ UNCHANGED <<online, cached, cart, suspended, carts, repeat, repeated, troubles>>

-----------------------------------------------------------------------------
Next ==
    \/ SaveTransaction \/ LogOnOff \/ SaveFailsOver \/ RepeatOffline
    \/ CreateCart \/ DropCart \/ SuspendCart \/ (\E c \in suspended[Place] : ResumeCart(c))
    \/ (\E answered \in BOOLEAN : VoidCart(answered) \/ Checkout(answered)) \/ CheckoutFails
    \/ SwitchConnection \/ (\E i \in Positions : Upload(i))
    \/ Deactivate \/ UpdateSeeds \/ StartSession \/ StartSessionFails

Spec == Init /\ [][Next]_vars

-----------------------------------------------------------------------------
(* Properties. *)

Regular == troubles \cap {"late", "pending"} = {}

\* As long as no transaction was saved after one with a later number, and nothing was pending
\* offline at an activation, no two transactions share a number, and none is refused or
\* overwritten for it.  The one exception is the transaction the server saved and did not
\* answer for: the offline database may have it a second time, until the upload merges them.
NumbersUnique ==
    Regular =>
        /\ \A i, j \in Positions : i # j /\ saved[i].id = saved[j].id =>
                saved[i].id \in repeated /\ saved[i].at # saved[j].at
        /\ troubles = {}

\* Transactions of different numbers never share a receipt number, however often checkouts
\* failed and carts were suspended and resumed in between, unless transactions were pending
\* at an activation.
ReceiptsUnique ==
    "pending" \notin troubles =>
        \A i, j \in Positions :
            saved[i].receipt # 0 /\ saved[i].receipt = saved[j].receipt => saved[i].id = saved[j].id

=============================================================================
