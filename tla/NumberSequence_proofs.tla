------------------------- MODULE NumberSequence_proofs -------------------------
(***************************************************************************)
(* What the numbers keep for every number of transactions, receipts,        *)
(* activations and changes of the connection.                               *)
(***************************************************************************)
EXTENDS NumberSequence, SequenceTheorems, WellFoundedInduction, TLAPS

(* The positions of the saved transactions and the last of them. *)

\* A set of positions that is not empty has a greatest one, which Max chooses.
LEMMA MaxOfPositions ==
    ASSUME NEW n \in Nat, NEW P \in SUBSET (1 .. n), P # {}
    PROVE  Max(P) \in P /\ \A i \in P : i <= Max(P)
<1> DEFINE T == {n - i : i \in P}
<1>1. T \subseteq Nat /\ T # {}
  <2>1. \A i \in P : n - i \in Nat
    OBVIOUS
  <2> QED
    BY <2>1
<1>2. PICK x \in T : \A y \in T : ~(<<y, x>> \in OpToRel(<, Nat))
  BY <1>1, NatLessThanWellFounded, WFMin
<1>3. \A y \in T : ~(y < x)
  BY <1>1, <1>2 DEF OpToRel
<1>4. PICK m \in P : x = n - m
  OBVIOUS
<1>5. \A i \in P : m >= i
  <2> SUFFICES ASSUME NEW i \in P PROVE m >= i
    OBVIOUS
  <2>1. n - i \in T
    OBVIOUS
  <2>2. ~(n - i < n - m)
    BY <1>3, <1>4, <2>1
  <2> QED
    BY <2>2
<1> HIDE DEF T
<1>6. (CHOOSE z \in P : \A y \in P : z >= y) \in P
      /\ \A y \in P : (CHOOSE z \in P : \A w \in P : z >= w) >= y
  BY <1>5
<1>7. Max(P) \in P /\ \A i \in P : Max(P) >= i
  BY <1>6 DEF Max
<1> QED
  BY <1>7

LEMMA PairMax ==
    ASSUME NEW a \in Nat, NEW b \in Nat
    PROVE  Max({a, b}) \in {a, b} /\ a <= Max({a, b}) /\ b <= Max({a, b})
<1>1. \E z \in {a, b} : \A y \in {a, b} : z >= y
  OBVIOUS
<1>2. (CHOOSE z \in {a, b} : \A y \in {a, b} : z >= y) \in {a, b}
      /\ \A y \in {a, b} : (CHOOSE z \in {a, b} : \A w \in {a, b} : z >= w) >= y
  BY <1>1
<1>3. Max({a, b}) \in {a, b} /\ \A y \in {a, b} : Max({a, b}) >= y
  BY <1>2 DEF Max
<1> QED
  BY <1>3

\* The last of some saved rows is one of them, and nothing follows it there.
LEMMA LastRowIs ==
    ASSUME TypeOK, NEW P \in SUBSET Positions
    PROVE  /\ LastRow(P) \in Row
           /\ P = {} => LastRow(P) = NoRow
           /\ P # {} => \E m \in P : LastRow(P) = saved[m] /\ \A i \in P : i <= m
<1>1. NoRow \in Row
  BY DEF NoRow, Row, Store
<1>2. Len(saved) \in Nat /\ \A i \in Positions : saved[i] \in Row
  BY LenProperties, ElementOfSeq DEF TypeOK, Positions
<1>3. P # {} => Max(P) \in P /\ \A i \in P : i <= Max(P)
  BY <1>2, MaxOfPositions DEF Positions
<1> QED
  BY <1>1, <1>2, <1>3 DEF LastRow

-----------------------------------------------------------------------------
(* What a step does to the saved rows. *)

\* A save adds one row at the end, unless it is refused.
LEMMA SaveAdds ==
    ASSUME TypeOK, NEW id \in Nat, NEW receipt \in Nat, NEW where \in {"server", "device"},
           Save(id, receipt, where)
    PROVE  /\ saved' \in Seq(Row)
           /\ \/ saved' = saved
              \/ /\ ~Refused(id, where)
                 /\ Len(saved') = Len(saved) + 1
                 /\ \A i \in Positions : saved'[i] = saved[i]
                 /\ saved'[Len(saved) + 1] = [id |-> id, receipt |-> receipt, at |-> where]
<1>1. [id |-> id, receipt |-> receipt, at |-> where] \in Row
  BY DEF Row, Store
<1> DEFINE row == [id |-> id, receipt |-> receipt, at |-> where]
<1>2. CASE Refused(id, where)
  BY <1>2 DEF Save, TypeOK
<1>3. CASE ~Refused(id, where)
  <2>1. saved' = Append(saved, row) /\ saved \in Seq(Row) /\ row \in Row
    BY <1>1, <1>3 DEF Save, TypeOK
  <2> HIDE DEF row
  <2>2. /\ Append(saved, row) \in Seq(Row) /\ Len(Append(saved, row)) = Len(saved) + 1
        /\ \A i \in 1 .. Len(saved) : Append(saved, row)[i] = saved[i]
        /\ Append(saved, row)[Len(saved) + 1] = row
    BY <2>1, AppendProperties
  <2> QED
    BY <1>3, <2>1, <2>2 DEF Positions, row
<1> QED
  BY <1>2, <1>3

\* A sequence without its j-th element.
LEMMA WithoutOne ==
    ASSUME NEW S, NEW s \in Seq(S), NEW j \in 1 .. Len(s)
    PROVE  /\ Without(s, j) \in Seq(S) /\ Len(Without(s, j)) = Len(s) - 1
           /\ \A k \in 1 .. Len(s) - 1 : Without(s, j)[k] = IF k < j THEN s[k] ELSE s[k + 1]
<1>1. Len(s) \in Nat /\ Len(s) - 1 \in Nat /\ \A k \in 1 .. Len(s) : s[k] \in S
  BY LenProperties, ElementOfSeq
<1>2. Without(s, j) \in [1 .. Len(s) - 1 -> S]
  BY <1>1 DEF Without
<1>3. Without(s, j) \in Seq(S)
  BY <1>1, <1>2, SeqDef
<1>4. Len(Without(s, j)) = Len(s) - 1
  <2>1. DOMAIN Without(s, j) = 1 .. Len(s) - 1
    BY <1>2
  <2>2. DOMAIN Without(s, j) = 1 .. Len(Without(s, j)) /\ Len(Without(s, j)) \in Nat
    BY <1>3, LenProperties
  <2> QED
    BY <1>1, <2>1, <2>2
<1> QED
  BY <1>3, <1>4 DEF Without

\* An upload keeps numbers, receipts and their order; the row it replaces, if there is one,
\* is a row of the server with the number of the uploaded one.
LEMMA UploadKeeps ==
    ASSUME TypeOK, NEW i \in Positions, saved[i].at = "device", saved' = Uploaded(i)
    PROVE  /\ saved' \in Seq(Row)
           /\ \E f \in [1 .. Len(saved') -> Positions] :
                /\ \A j, k \in 1 .. Len(saved') : j < k => f[j] < f[k]
                /\ \A j \in 1 .. Len(saved') :
                      /\ saved'[j].id = saved[f[j]].id /\ saved'[j].receipt = saved[f[j]].receipt
                      /\ saved'[j].at = IF f[j] = i THEN "server" ELSE saved[f[j]].at
                /\ Refused(saved[i].id, "server") =>
                      \E d \in Rows("server") :
                          saved[d].id = saved[i].id /\ \A j \in 1 .. Len(saved') : f[j] # d
<1> DEFINE row == [saved[i] EXCEPT !.at = "server"]
<1> DEFINE here == [saved EXCEPT ![i] = row]
<1> DEFINE old == {j \in Rows("server") : saved[j].id = saved[i].id}
<1>1. saved \in Seq(Row) /\ Len(saved) \in Nat /\ i \in 1 .. Len(saved)
      /\ \A j \in Positions : saved[j] \in Row
  BY LenProperties, ElementOfSeq DEF TypeOK, Positions
<1>2. /\ row \in Row /\ row.id = saved[i].id /\ row.receipt = saved[i].receipt
      /\ row.at = "server"
  BY <1>1 DEF Row, Positions, Store
<1>3. saved' = IF old = {} THEN here ELSE Without(here, CHOOSE j \in old : TRUE)
  BY DEF Uploaded
<1>4. old = {} <=> ~Refused(saved[i].id, "server")
  BY DEF Refused
<1>5. old \subseteq Positions /\ \A d \in old : d \in Rows("server") /\ saved[d].id = saved[i].id
  BY DEF Rows
<1> HIDE DEF row, old
<1>6. /\ here \in Seq(Row) /\ Len(here) = Len(saved)
      /\ \A j \in 1 .. Len(saved) : here[j] = IF j = i THEN row ELSE saved[j]
  BY <1>1, <1>2, ExceptSeq
<1>7. \A j \in Positions : /\ here[j].id = saved[j].id /\ here[j].receipt = saved[j].receipt
                           /\ here[j].at = IF j = i THEN "server" ELSE saved[j].at
  BY <1>2, <1>6 DEF Positions
<1> HIDE DEF here
<1>8. CASE old = {}
  <2>1. saved' = here
    BY <1>3, <1>8
  <2> DEFINE f == [j \in 1 .. Len(saved) |-> j]
  <2>2. /\ f \in [1 .. Len(saved) -> Positions]
        /\ \A j, k \in 1 .. Len(saved) : j < k => f[j] < f[k]
        /\ \A j \in 1 .. Len(saved) : f[j] = j
    BY DEF Positions
  <2> HIDE DEF f
  <2> QED
    BY <1>4, <1>6, <1>7, <1>8, <2>1, <2>2 DEF Positions
<1>9. CASE old # {}
  <2> DEFINE d == CHOOSE j \in old : TRUE
  <2>0. d \in old
    BY <1>9
  <2>1. d \in 1 .. Len(here) /\ saved' = Without(here, d)
    BY <1>3, <1>5, <1>6, <1>9 DEF Positions
  <2> HIDE DEF d
  <2>2. /\ saved' \in Seq(Row) /\ Len(saved') = Len(saved) - 1
        /\ \A k \in 1 .. Len(saved) - 1 : saved'[k] = IF k < d THEN here[k] ELSE here[k + 1]
    BY <1>6, <2>1, WithoutOne
  <2> DEFINE f == [j \in 1 .. Len(saved) - 1 |-> IF j < d THEN j ELSE j + 1]
  <2>3. /\ f \in [1 .. Len(saved) - 1 -> Positions]
        /\ \A j, k \in 1 .. Len(saved) - 1 : j < k => f[j] < f[k]
        /\ \A j \in 1 .. Len(saved) - 1 : saved'[j] = here[f[j]] /\ f[j] # d
    BY <1>1, <1>6, <2>1, <2>2 DEF Positions
  <2> HIDE DEF f
  <2>4. \A j \in 1 .. Len(saved') :
            /\ saved'[j].id = saved[f[j]].id /\ saved'[j].receipt = saved[f[j]].receipt
            /\ saved'[j].at = IF f[j] = i THEN "server" ELSE saved[f[j]].at
    BY <1>7, <2>2, <2>3
  <2>5. d \in Rows("server") /\ saved[d].id = saved[i].id /\ \A j \in 1 .. Len(saved') : f[j] # d
    BY <1>5, <2>0, <2>2, <2>3
  <2>6. /\ f \in [1 .. Len(saved') -> Positions]
        /\ \A j, k \in 1 .. Len(saved') : j < k => f[j] < f[k]
    BY <2>2, <2>3
  <2> QED
    BY <2>2, <2>4, <2>5, <2>6
<1> QED
  BY <1>8, <1>9

-----------------------------------------------------------------------------
(* Types. *)

\* The carts of the server are numbers in a sequence, which is empty or has a last one.
LEMMA CartsTyped ==
    ASSUME TypeOK
    PROVE  /\ carts \in Seq(Nat) /\ Len(carts) \in Nat /\ DOMAIN carts = 1 .. Len(carts)
           /\ \A j \in DOMAIN carts : carts[j] \in Nat
           /\ carts # <<>> => Len(carts) \in DOMAIN carts
<1>1. carts \in Seq(Nat)
  BY DEF TypeOK
<1> QED
  BY <1>1, LenProperties, ElementOfSeq, EmptySeq

LEMMA NumbersTyped ==
    ASSUME TypeOK
    PROVE  /\ \A s \in Sequence : NextValue(s) \in Nat \ {0}
           /\ \A s \in Sequence, n \in Nat : Given(s, n) \in [Sequence -> Nat]
           /\ \A s \in Sequence, n \in Nat : Given(s, n)[s] = NextValue(s) + n
           /\ \A s, r \in Sequence, n \in Nat : r # s => Given(s, n)[r] = seed[r]
           /\ \A c \in Nat : NextReceipt(c) \in Nat
           /\ Place \in {"server", "device"}
           /\ Wiped \in [Sequence -> Nat] /\ NoReceipt \in [cart : Nat, receipt : Nat]
           /\ LatestTransaction \in Nat /\ LatestReceipt \in Nat
           /\ cart \in Nat /\ LastCart \in Nat
<1>1. \A s \in Sequence : NextValue(s) \in Nat \ {0}
  BY DEF NextValue, TypeOK
<1>2. /\ \A s \in Sequence, n \in Nat : Given(s, n) \in [Sequence -> Nat]
      /\ \A s \in Sequence, n \in Nat : Given(s, n)[s] = NextValue(s) + n
      /\ \A s, r \in Sequence, n \in Nat : r # s => Given(s, n)[r] = seed[r]
  BY <1>1 DEF Given, TypeOK
<1>3. \A c \in Nat : NextReceipt(c) \in Nat
  BY <1>1 DEF NextReceipt, TypeOK, Sequence
<1>4. LastRow(Rows("server")).id \in Nat
  BY LastRowIs DEF Rows, Row
<1>5. LatestReceipt \in Nat
  <2>1. {i \in Rows("server") : saved[i].receipt # 0} \subseteq Positions
    BY DEF Rows
  <2> QED
    BY <2>1, LastRowIs DEF LatestReceipt, Row
<1>6. cart \in Nat /\ LastCart \in Nat
  BY CartsTyped DEF TypeOK, LastCart
<1>7. LatestTransaction \in Nat
  BY <1>4, <1>6, PairMax DEF LatestTransaction
<1> QED
  BY <1>1, <1>2, <1>3, <1>5, <1>6, <1>7 DEF Place, Wiped, NoReceipt

Trouble == {"late", "pending", "refused", "overwritten"}

LEMMA TypeKept == TypeOK /\ [Next]_vars => TypeOK'
<1> SUFFICES ASSUME TypeOK, [Next]_vars PROVE TypeOK'
  OBVIOUS
<1>0. /\ active \in {"no", "seeded", "yes"} /\ online \in BOOLEAN /\ seed \in [Sequence -> Nat]
      /\ cached \in [cart : Nat, receipt : Nat] /\ cart \in Nat /\ repeat \in Nat
      /\ suspended \in [Store -> SUBSET Nat] /\ carts \in Seq(Nat) /\ saved \in Seq(Row)
      /\ repeated \subseteq Nat /\ troubles \subseteq Trouble
  BY DEF TypeOK, Trouble
<1>1. /\ \A s \in Sequence : NextValue(s) \in Nat
      /\ \A s \in Sequence, n \in Nat : Given(s, n) \in [Sequence -> Nat]
      /\ \A c \in Nat : NextReceipt(c) \in Nat
      /\ Place \in {"server", "device"}
      /\ Wiped \in [Sequence -> Nat] /\ NoReceipt \in [cart : Nat, receipt : Nat]
      /\ LatestTransaction \in Nat /\ LatestReceipt \in Nat
  BY NumbersTyped
<1>n. /\ NextValue("transaction") \in Nat /\ NextValue("transaction") + 1 \in Nat
      /\ NextValue("receipt") \in Nat
      /\ Given("transaction", 1) \in [Sequence -> Nat]
      /\ Given("transaction", 2) \in [Sequence -> Nat]
      /\ Given("receipt", 1) \in [Sequence -> Nat]
  <2>1. "transaction" \in Sequence /\ "receipt" \in Sequence /\ 1 \in Nat /\ 2 \in Nat
    BY DEF Sequence
  <2>2. \A n \in Nat : n + 1 \in Nat
    OBVIOUS
  <2> QED
    BY <1>1, <2>1, <2>2, Zenon
<1>2. \A id, receipt \in Nat, where \in {"server", "device"} :
          Save(id, receipt, where) => saved' \in Seq(Row)
  BY SaveAdds
<1>p. \A id, receipt \in Nat : Save(id, receipt, Place) => saved' \in Seq(Row)
  <2>1. PICK w \in {"server", "device"} : w = Place
    BY <1>1, Zenon
  <2> QED
    BY <1>2, <2>1, Zenon
<1>3. \A t \in Trouble : \A h : Happens(t, h) => troubles' \subseteq Trouble
  BY <1>0 DEF Happens
<1>4. \A c \in Nat : DrawReceipt(c) => cached' \in [cart : Nat, receipt : Nat]
                                       /\ seed' \in [Sequence -> Nat]
  <2> SUFFICES ASSUME NEW c \in Nat, DrawReceipt(c)
               PROVE  cached' \in [cart : Nat, receipt : Nat] /\ seed' \in [Sequence -> Nat]
    OBVIOUS
  <2>1. cached' = [cart |-> c, receipt |-> NextReceipt(c)] /\ NextReceipt(c) \in Nat
    BY <1>1 DEF DrawReceipt
  <2>2. seed' = seed \/ seed' = Given("receipt", 1)
    BY DEF DrawReceipt
  <2> QED
    BY <1>0, <1>n, <2>1, <2>2
<1>t. "refused" \in Trouble /\ "late" \in Trouble /\ "pending" \in Trouble
      /\ "overwritten" \in Trouble
  BY DEF Trouble
<1>s. \A logged : SavesTwice(logged) => /\ saved' \in Seq(Row) /\ repeat' \in Nat
                                        /\ seed' \in [Sequence -> Nat]
  <2> SUFFICES ASSUME NEW logged, SavesTwice(logged)
               PROVE  saved' \in Seq(Row) /\ repeat' \in Nat /\ seed' \in [Sequence -> Nat]
    OBVIOUS
  <2>1. saved' \in Seq(Row)
    BY <1>n, <1>2 DEF SavesTwice
  <2>2. repeat' \in Nat /\ seed' \in [Sequence -> Nat]
    BY <1>0, <1>n DEF SavesTwice
  <2> QED
    BY <2>1, <2>2
<1>5. CASE SaveTransaction
  <2>1. saved' \in Seq(Row)
    <3>1. Save(NextValue("transaction"), 0, Place)
      BY <1>5 DEF SaveTransaction
    <3>2. 0 \in Nat
      OBVIOUS
    <3> QED
      BY <1>p, <1>n, <3>1, <3>2, Zenon
  <2>2. troubles' \subseteq Trouble
    BY <1>3, <1>5, <1>t DEF SaveTransaction
  <2> QED
    BY <1>0, <1>n, <1>5, <2>1, <2>2 DEF SaveTransaction, TypeOK, Trouble
<1>6. CASE LogOnOff
  <2>1. saved' \in Seq(Row) /\ repeat' \in Nat /\ seed' \in [Sequence -> Nat]
    BY <1>s, <1>6 DEF LogOnOff
  <2>2. troubles' \subseteq Trouble
    BY <1>3, <1>6, <1>t DEF LogOnOff
  <2> QED
    BY <1>0, <1>6, <2>1, <2>2 DEF LogOnOff, TypeOK, Trouble
<1>7. CASE SaveFailsOver
  <2>1. repeat' \in Nat /\ seed' \in [Sequence -> Nat]
    BY <1>n, <1>7 DEF SaveFailsOver
  <2>2. saved' \in Seq(Row) /\ repeated' \subseteq Nat
    BY <1>0, <1>2, <1>7, <2>1 DEF SaveFailsOver
  <2>3. online' \in BOOLEAN /\ troubles' = troubles
    BY <1>7 DEF SaveFailsOver
  <2> QED
    BY <1>0, <1>7, <2>1, <2>2, <2>3 DEF SaveFailsOver, TypeOK, Trouble
<1>8. CASE RepeatOffline
  <2>1. saved' \in Seq(Row)
    BY <1>0, <1>2, <1>8 DEF RepeatOffline
  <2>2. troubles' \subseteq Trouble /\ repeat' \in Nat
    BY <1>0, <1>8, <1>t DEF RepeatOffline
  <2> QED
    BY <1>0, <1>8, <2>1, <2>2 DEF RepeatOffline, TypeOK, Trouble
<1>9. CASE CreateCart
  <2>1. cart' \in Nat /\ seed' \in [Sequence -> Nat]
    BY <1>n, <1>9 DEF CreateCart
  <2>2. carts' \in Seq(Nat)
    <3>1. carts' = Append(carts, cart') \/ carts' = carts
      BY <1>9 DEF CreateCart
    <3>2. PICK n \in Nat : n = cart'
      BY <2>1
    <3>3. Append(carts, n) \in Seq(Nat)
      BY <1>0, AppendProperties
    <3> QED
      BY <1>0, <3>1, <3>2, <3>3
  <2> QED
    BY <1>0, <1>9, <2>1, <2>2 DEF CreateCart, TypeOK, Trouble
<1>10. CASE DropCart \/ SuspendCart \/ \E c \in suspended[Place] : ResumeCart(c)
  <2>0. Place \in Store /\ suspended[Place] \subseteq Nat
    BY <1>0, <1>1 DEF Store
  <2>1. cart' \in Nat /\ suspended' \in [Store -> SUBSET Nat]
    <3>1. CASE DropCart
      BY <1>0, <3>1 DEF DropCart
    <3>2. CASE SuspendCart
      BY <1>0, <2>0, <3>2 DEF SuspendCart
    <3>3. ASSUME NEW c \in suspended[Place], ResumeCart(c)
          PROVE  cart' \in Nat /\ suspended' \in [Store -> SUBSET Nat]
      BY <1>0, <2>0, <3>3 DEF ResumeCart
    <3> QED
      BY <1>10, <3>1, <3>2, <3>3
  <2> QED
    BY <1>0, <1>10, <2>1 DEF DropCart, SuspendCart, ResumeCart, TypeOK, Trouble
<1>c. ASSUME NEW receipt \in Nat, NEW answered, Conclude(receipt, answered)
      PROVE  /\ saved' \in Seq(Row) /\ carts' \in Seq(Nat) /\ cart' \in Nat
             /\ repeated' \subseteq Nat /\ troubles' \subseteq Trouble
             /\ UNCHANGED <<active, online, suspended, repeat>>
  <2>1. saved' \in Seq(Row)
    <3>1. Save(cart, receipt, Place)
      BY <1>c DEF Conclude
    <3> QED
      BY <1>0, <1>p, <3>1, Zenon
  <2>2. cart' \in Nat /\ repeated' \subseteq Nat
    BY <1>0, <1>c DEF Conclude
  <2>3. troubles' \subseteq Trouble
    BY <1>0, <1>c, <1>t DEF Conclude
  <2>4. carts' \in Seq(Nat)
    <3> DEFINE j == CHOOSE k \in DOMAIN carts : carts[k] = cart
    <3>1. CASE carts' = carts
      BY <1>0, <3>1
    <3>2. CASE carts' = Without(carts, j) /\ online
      <4>1. j \in 1 .. Len(carts)
        BY <1>0, <1>c, <3>2, CartsTyped DEF Conclude, CartLoads
      <4> HIDE DEF j
      <4> QED
        BY <1>0, <3>2, <4>1, WithoutOne
    <3> QED
      BY <1>c, <3>1, <3>2 DEF Conclude
  <2> QED
    BY <1>c, <2>1, <2>2, <2>3, <2>4 DEF Conclude
<1>11. CASE \E answered \in BOOLEAN : VoidCart(answered) \/ Checkout(answered)
  <2>1. PICK answered \in BOOLEAN : VoidCart(answered) \/ Checkout(answered)
    BY <1>11
  <2>2. CASE VoidCart(answered)
    <3>1. 0 \in Nat /\ Conclude(0, answered) /\ UNCHANGED <<seed, cached>>
      BY <2>2 DEF VoidCart
    <3>2. /\ saved' \in Seq(Row) /\ carts' \in Seq(Nat) /\ cart' \in Nat
          /\ repeated' \subseteq Nat /\ troubles' \subseteq Trouble
          /\ UNCHANGED <<active, online, suspended, repeat>>
      BY <1>c, <3>1
    <3> QED
      BY <1>0, <3>1, <3>2 DEF TypeOK, Trouble
  <2>3. CASE Checkout(answered)
    <3>1. /\ NextReceipt(cart) \in Nat /\ Conclude(NextReceipt(cart), answered)
          /\ DrawReceipt(cart)
      BY <1>0, <1>1, <2>3 DEF Checkout
    <3>2. /\ saved' \in Seq(Row) /\ carts' \in Seq(Nat) /\ cart' \in Nat
          /\ repeated' \subseteq Nat /\ troubles' \subseteq Trouble
          /\ UNCHANGED <<active, online, suspended, repeat>>
      BY <1>c, <3>1
    <3>3. cached' \in [cart : Nat, receipt : Nat] /\ seed' \in [Sequence -> Nat]
      BY <1>0, <1>4, <3>1
    <3> QED
      BY <1>0, <3>2, <3>3 DEF TypeOK, Trouble
  <2> QED
    BY <2>1, <2>2, <2>3
<1>12. CASE CheckoutFails
  BY <1>0, <1>4, <1>12 DEF CheckoutFails, TypeOK, Trouble
<1>13. CASE SwitchConnection
  <2>1. online' \in BOOLEAN
    BY <1>13, Zenon DEF SwitchConnection
  <2> QED
    BY <1>0, <1>13, <2>1 DEF SwitchConnection, TypeOK, Trouble
<1>14. ASSUME NEW i \in Positions, Upload(i) PROVE TypeOK'
  <2>1. saved' \in Seq(Row)
    BY <1>14, UploadKeeps DEF Upload
  <2>2. troubles' \subseteq Trouble /\ repeated' \subseteq Nat
    BY <1>0, <1>3, <1>14, <1>t DEF Upload
  <2> QED
    BY <1>0, <1>14, <2>1, <2>2 DEF Upload, TypeOK, Trouble
<1>15. CASE Deactivate
  BY <1>0, <1>1, <1>15 DEF Deactivate, TypeOK, Trouble
<1>16. CASE UpdateSeeds
  <2>1. seed' \in [Sequence -> Nat]
    <3>1. \A a, b \in Nat : [transaction |-> a, receipt |-> b] \in [Sequence -> Nat]
      BY DEF Sequence
    <3>2. seed' = [transaction |-> LatestTransaction + 1, receipt |-> LatestReceipt + 1]
      BY <1>16 DEF UpdateSeeds
    <3>3. LatestTransaction + 1 \in Nat /\ LatestReceipt + 1 \in Nat
      BY <1>1
    <3> QED
      BY <3>1, <3>2, <3>3
  <2>2. troubles' \subseteq Trouble /\ active' \in {"no", "seeded", "yes"}
    BY <1>3, <1>16, <1>t DEF UpdateSeeds
  <2> QED
    BY <1>0, <1>16, <2>1, <2>2 DEF UpdateSeeds, TypeOK, Trouble
<1>17. CASE StartSession
  <2>1. active' \in {"no", "seeded", "yes"}
    BY <1>17 DEF StartSession
  <2>2. saved' \in Seq(Row) /\ repeat' \in Nat /\ seed' \in [Sequence -> Nat]
    BY <1>s, <1>17 DEF StartSession
  <2>3. troubles' \subseteq Trouble
    BY <1>3, <1>17, <1>t DEF StartSession
  <2> QED
    BY <1>0, <1>17, <2>1, <2>2, <2>3 DEF StartSession, TypeOK, Trouble
<1>f. CASE StartSessionFails
  <2>1. saved' \in Seq(Row)
    BY <1>0, <1>n, <1>2, <1>f DEF StartSessionFails
  <2>2. active' \in {"no", "seeded", "yes"} /\ seed' \in [Sequence -> Nat]
    BY <1>n, <1>f DEF StartSessionFails
  <2> QED
    BY <1>0, <1>f, <2>1, <2>2 DEF StartSessionFails, TypeOK, Trouble
<1>18. CASE UNCHANGED vars
  BY <1>0, <1>18 DEF vars, TypeOK, Trouble
<1> QED
  BY <1>5, <1>6, <1>7, <1>8, <1>9, <1>10, <1>11, <1>12, <1>13, <1>14, <1>15, <1>16, <1>17, <1>f,
     <1>18
  DEF Next

LEMMA InitType == Init => TypeOK
<1> SUFFICES ASSUME Init PROVE TypeOK
  OBVIOUS
<1>1. saved \in Seq(Row) /\ carts \in Seq(Nat)
  BY EmptySeq DEF Init
<1>2. seed \in [Sequence -> Nat] /\ cached \in [cart : Nat, receipt : Nat]
  BY DEF Init, NoReceipt
<1>3. suspended \in [Store -> SUBSET Nat]
  BY DEF Init
<1> QED
  BY <1>1, <1>2, <1>3 DEF Init, TypeOK

\* Seeds stay numbers through every wipe and activation, and what is saved stays a sequence
\* of rows: the merge that removes a row leaves no gap.
THEOREM TypeCorrect == Spec => []TypeOK
BY InitType, TypeKept, PTL DEF Spec

-----------------------------------------------------------------------------
(* The numbers of transactions.  While nothing is saved after a transaction with a later *)
(* number and nothing is pending at an activation, transactions are saved in the order of *)
(* their numbers, so the last one saved and the last cart of the server bound them all.   *)

OnServer(n) == \E j \in DOMAIN carts : carts[j] = n

\* The carts that may still be checked out or voided: the session's and the suspended ones.
OpenCarts == suspended["server"] \cup suspended["device"] \cup ({cart} \ {0})

\* The server alone may have saved number n, without answering.
Unanswered(n) ==
    \A i \in Positions : saved[i].id = n => n \in repeated /\ saved[i].at = "server"

\* Every number given so far is smaller than n.
Behind(n) ==
    /\ \A i \in Positions : saved[i].id < n
    /\ \A j \in DOMAIN carts : carts[j] < n
    /\ \A c \in OpenCarts \cup {repeat} : c < n

RowsInOrder ==
    \A i, j \in Positions : i < j =>
        /\ saved[i].id <= saved[j].id
        /\ saved[i].id = saved[j].id =>
               saved[i].id \in repeated /\ saved[i].at = "server" /\ saved[j].at = "device"

CartsInOrder ==
    /\ \A i, j \in DOMAIN carts : i < j => carts[i] < carts[j]
    /\ \A c \in suspended["server"] : OnServer(c)

\* What may still be saved is in one place and has not been saved where it would be refused.
OpenApart ==
    /\ \A c \in OpenCarts : Unanswered(c)
    /\ \A c \in OpenCarts : OnServer(c) => \A i \in Positions : saved[i].id # c
    /\ suspended["server"] \cap suspended["device"] = {}
    /\ cart # 0 => cart \notin suspended["server"] /\ cart \notin suspended["device"]
    /\ repeat # 0 => repeat \notin OpenCarts /\ Unanswered(repeat)

NumbersInOrder ==
    /\ troubles = {}
    /\ active # "yes" => cart = 0
    /\ RowsInOrder /\ CartsInOrder /\ OpenApart
    /\ active # "no" => Behind(NextValue("transaction"))

NInv == Regular => NumbersInOrder

\* The next number of a sequence of which n were given, and of the other one.
LEMMA NextAfterGiven ==
    ASSUME TypeOK, NEW s \in Sequence, NEW n \in Nat, seed' = Given(s, n)
    PROVE  /\ NextValue(s)' = NextValue(s) + n
           /\ \A r \in Sequence : r # s => NextValue(r)' = NextValue(r)
<1>1. NextValue(s) \in Nat \ {0} /\ seed'[s] = NextValue(s) + n
      /\ \A r \in Sequence : r # s => seed'[r] = seed[r]
  BY NumbersTyped
<1> QED
  BY <1>1 DEF NextValue

\* No trouble is forgotten.
LEMMA TroublesStay == ASSUME [Next]_vars PROVE troubles \subseteq troubles'
<1>1. \A t, h : Happens(t, h) => troubles \subseteq troubles'
  BY DEF Happens
<1>2. \A receipt, answered : Conclude(receipt, answered) => troubles \subseteq troubles'
  BY DEF Conclude
<1>3. CASE UNCHANGED vars
  BY <1>3 DEF vars
<1>4. CASE SaveTransaction \/ LogOnOff \/ SaveFailsOver \/ RepeatOffline
  BY <1>1, <1>4 DEF SaveTransaction, LogOnOff, SaveFailsOver, RepeatOffline
<1>5. CASE CreateCart \/ DropCart \/ SuspendCart \/ (\E c \in suspended[Place] : ResumeCart(c))
  BY <1>5 DEF CreateCart, DropCart, SuspendCart, ResumeCart
<1>6. CASE \E answered \in BOOLEAN : VoidCart(answered) \/ Checkout(answered)
  BY <1>2, <1>6 DEF VoidCart, Checkout
<1>7. CASE CheckoutFails \/ SwitchConnection \/ (\E i \in Positions : Upload(i))
  BY <1>1, <1>7 DEF CheckoutFails, SwitchConnection, Upload
<1>8. CASE Deactivate \/ UpdateSeeds \/ StartSession \/ StartSessionFails
  BY <1>1, <1>8 DEF Deactivate, UpdateSeeds, StartSession, StartSessionFails
<1> QED
  BY <1>3, <1>4, <1>5, <1>6, <1>7, <1>8 DEF Next

LEMMA RowsTyped ==
    ASSUME TypeOK
    PROVE  /\ Len(saved) \in Nat
           /\ \A i \in Positions : /\ saved[i].id \in Nat /\ saved[i].receipt \in Nat
                                   /\ saved[i].at \in {"server", "device"}
<1>1. saved \in Seq(Row)
  BY DEF TypeOK
<1>2. Len(saved) \in Nat /\ \A i \in Positions : saved[i] \in Row
  BY <1>1, LenProperties, ElementOfSeq DEF Positions
<1> QED
  BY <1>2 DEF Row, Store

LEMMA OpenTyped ==
    ASSUME TypeOK
    PROVE  /\ NextValue("transaction") \in Nat \ {0} /\ cart \in Nat /\ repeat \in Nat
           /\ suspended["server"] \subseteq Nat /\ suspended["device"] \subseteq Nat
           /\ OpenCarts \subseteq Nat
           /\ "transaction" \in Sequence /\ "receipt" \in Sequence
<1>1. NextValue("transaction") \in Nat \ {0}
  BY NumbersTyped DEF Sequence
<1>2. suspended["server"] \subseteq Nat /\ suspended["device"] \subseteq Nat
  BY DEF TypeOK, Store
<1> QED
  BY <1>1, <1>2 DEF TypeOK, OpenCarts, Sequence

\* Every saved row is an old one or has number id.
Adds(id) ==
    \A i \in Positions' :
        \/ saved'[i].id = id
        \/ \E j \in Positions : saved'[i].id = saved[j].id /\ saved'[i].at = saved[j].at

\* A row whose number is greater than all before, or repeats offline what the server has saved
\* without an answer, keeps the order.
LEMMA SaveInOrder ==
    ASSUME TypeOK, RowsInOrder, NEW id \in Nat, NEW receipt \in Nat,
           NEW where \in {"server", "device"}, Save(id, receipt, where),
           \A i \in Positions : saved[i].id <= id, Unanswered(id),
           where = "server" => \A i \in Positions : saved[i].id # id,
           repeated \subseteq repeated'
    PROVE  /\ ~Refused(id, where) /\ RowsInOrder'
           /\ \A i \in Positions' :
                 \/ saved'[i].id = id /\ saved'[i].at = where
                 \/ \E j \in Positions : saved'[i].id = saved[j].id /\ saved'[i].at = saved[j].at
<1>1. Len(saved) \in Nat /\ \A i \in Positions : saved[i].id \in Nat
  BY RowsTyped
<1>2. ~Refused(id, where)
  BY <1>1 DEF Refused, Rows, Unanswered
<1>3. CASE saved' = saved
  <2>1. Positions' = Positions
    BY <1>3 DEF Positions
  <2> QED
    BY <1>2, <1>3, <2>1 DEF RowsInOrder
<1>4. CASE /\ Len(saved') = Len(saved) + 1
           /\ \A i \in Positions : saved'[i] = saved[i]
           /\ saved'[Len(saved) + 1] = [id |-> id, receipt |-> receipt, at |-> where]
  <2>1. saved'[Len(saved) + 1].id = id /\ saved'[Len(saved) + 1].at = where
    BY <1>4
  <2>2. \A i \in Positions' : i \in Positions \/ i = Len(saved) + 1
    BY <1>1, <1>4 DEF Positions
  <2>3. \A i \in Positions : i # Len(saved) + 1 /\ ~(Len(saved) + 1 < i)
    BY <1>1 DEF Positions
  <2>4. RowsInOrder'
    <3> SUFFICES ASSUME NEW i \in Positions', NEW j \in Positions', i < j
                 PROVE  /\ saved'[i].id <= saved'[j].id
                        /\ saved'[i].id = saved'[j].id =>
                              /\ saved'[i].id \in repeated' /\ saved'[i].at = "server"
                              /\ saved'[j].at = "device"
      BY DEF RowsInOrder
    <3>1. i \in Positions
      BY <1>1, <1>4, <2>2 DEF Positions
    <3>2. CASE j \in Positions
      BY <1>4, <3>1, <3>2 DEF RowsInOrder
    <3>3. CASE j = Len(saved) + 1
      <4>1. /\ saved'[i] = saved[i] /\ saved'[j].id = id /\ saved'[j].at = where
            /\ saved[i].id <= id
        BY <1>4, <2>1, <3>1, <3>3
      <4>2. saved[i].id = id => where = "device"
        BY <3>1
      <4> QED
        BY <3>1, <4>1, <4>2 DEF Unanswered
    <3> QED
      BY <2>2, <3>2, <3>3
  <2> QED
    BY <1>2, <1>4, <2>1, <2>2, <2>4
<1> QED
  BY <1>3, <1>4, SaveAdds

\* A row of another number changes nothing for n.
LEMMA UnansweredStays ==
    ASSUME NEW id, NEW n, n # id, Adds(id), Unanswered(n), repeated \subseteq repeated'
    PROVE  Unanswered(n)'
BY DEF Adds, Unanswered

\* A number is given, and what it is given to is saved or still to be executed offline.
LEMMA NumberGiven ==
    ASSUME TypeOK, NumbersInOrder, active # "no", NEW n \in {1, 2},
           NEW id \in Nat, id = NextValue("transaction"),
           seed' = Given("transaction", n), RowsInOrder', Adds(id),
           repeated \subseteq repeated', troubles' = troubles,
           active' # "yes" => cart = 0, UNCHANGED <<cart, suspended, carts>>,
           \/ repeat' = repeat
           \/ repeat' = id /\ Unanswered(id)'
           \/ repeat' = id + 1 /\ n = 2
    PROVE  NumbersInOrder'
<1>1. /\ id \in Nat \ {0} /\ cart \in Nat /\ repeat \in Nat /\ OpenCarts \subseteq Nat
      /\ "transaction" \in Sequence /\ n \in Nat
  BY OpenTyped
<1>2. NextValue("transaction")' = id + n
  BY <1>1, NextAfterGiven
<1>3. Behind(id) /\ RowsInOrder /\ CartsInOrder /\ OpenApart /\ troubles = {}
  BY DEF NumbersInOrder
<1>4. Adds(id) /\ (\/ repeat' = repeat
                   \/ repeat' = id /\ Unanswered(id)'
                   \/ repeat' = id + 1 /\ n = 2)
  OBVIOUS
<1>5. \A i \in Positions : saved[i].id \in Nat
  BY RowsTyped
<1>6. DOMAIN carts' = DOMAIN carts /\ carts' = carts /\ OpenCarts' = OpenCarts
  BY DEF OpenCarts
<1>7. \A c : OnServer(c)' <=> OnServer(c)
  BY <1>6 DEF OnServer
<1>8. \A j \in DOMAIN carts : carts[j] \in Nat
  BY CartsTyped
<1>9. \A c \in OpenCarts : c < id /\ c # id /\ c \in Nat
  <2>1. \A c \in OpenCarts : c < id
    BY <1>3, Zenon DEF Behind
  <2>2. \A c \in OpenCarts : c \in Nat
    BY <1>1
  <2>3. \A c \in Nat : c < id => c # id
    BY <1>1
  <2> QED
    BY <2>1, <2>2, <2>3
<1>10. Behind(NextValue("transaction"))'
  <2>1. \A i \in Positions' : saved'[i].id < id + n
    BY <1>1, <1>3, <1>4, <1>5 DEF Adds, Behind
  <2>2. \A j \in DOMAIN carts : carts[j] < id + n
    BY <1>1, <1>3, <1>8 DEF Behind
  <2>3. \A c \in OpenCarts : c < id + n
    BY <1>1, <1>9
  <2>4. repeat' < id + n
    BY <1>1, <1>3, <1>4 DEF Behind
  <2> QED
    BY <1>2, <1>6, <2>1, <2>2, <2>3, <2>4 DEF Behind
<1>11. CartsInOrder'
  BY <1>3, <1>6, <1>7 DEF CartsInOrder
<1>12. OpenApart'
  <2>1. \A c \in OpenCarts : Unanswered(c)'
    BY <1>3, <1>4, <1>9, UnansweredStays DEF OpenApart
  <2>2. \A c \in OpenCarts : OnServer(c) => \A i \in Positions' : saved'[i].id # c
    BY <1>3, <1>4, <1>9 DEF OpenApart, Adds
  <2>3. repeat' # 0 => repeat' \notin OpenCarts /\ Unanswered(repeat)'
    <3>1. CASE repeat' = repeat
      <4>1. repeat # 0 => repeat \notin OpenCarts /\ Unanswered(repeat) /\ repeat # id
        BY <1>1, <1>3 DEF OpenApart, Behind
      <4>2. repeat # 0 => Unanswered(repeat)'
        <5> SUFFICES ASSUME repeat # 0 PROVE Unanswered(repeat)'
          OBVIOUS
        <5>1. PICK r : r = repeat
          OBVIOUS
        <5>2. Unanswered(r)'
          BY <1>4, <4>1, <5>1, UnansweredStays
        <5> QED
          BY <3>1, <5>1, <5>2 DEF Unanswered
      <4> QED
        BY <3>1, <4>1, <4>2
    <3>2. CASE repeat' = id /\ Unanswered(id)'
      BY <1>9, <3>2 DEF Unanswered
    <3>3. CASE repeat' = id + 1
      <4>1. \A i \in Positions' : saved'[i].id < id + 1
        BY <1>1, <1>3, <1>4, <1>5 DEF Adds, Behind
      <4>2. \A i \in Positions' : saved'[i].id \in Nat
        BY <1>1, <1>4, <1>5 DEF Adds
      <4>3. Unanswered(repeat)'
        BY <1>1, <3>3, <4>1, <4>2 DEF Unanswered
      <4>4. repeat' \notin OpenCarts
        BY <1>1, <1>9, <3>3
      <4> QED
        BY <4>3, <4>4
    <3> QED
      BY <1>4, <3>1, <3>2, <3>3
  <2>4. /\ suspended["server"] \cap suspended["device"] = {}
        /\ cart # 0 => cart \notin suspended["server"] /\ cart \notin suspended["device"]
    BY <1>3 DEF OpenApart
  <2> QED
    BY <1>6, <1>7, <2>1, <2>2, <2>3, <2>4 DEF OpenApart
<1>13. active' # "yes" => cart' = 0
  OBVIOUS
<1> QED
  BY <1>3, <1>10, <1>11, <1>12, <1>13 DEF NumbersInOrder

\* The first number never given is not saved.
LEMMA FreshSaved ==
    ASSUME TypeOK, NumbersInOrder, active # "no", NEW where \in {"server", "device"},
           NEW id \in Nat, id = NextValue("transaction"),
           Save(id, 0, where), repeated \subseteq repeated'
    PROVE  /\ ~Refused(id, where) /\ RowsInOrder' /\ Adds(id)
           /\ \A i \in Positions' : saved'[i].id = id => saved'[i].at = where
<1>2. \A i \in Positions : saved[i].id < id /\ saved[i].id \in Nat
  BY RowsTyped DEF NumbersInOrder, Behind
<1>3. /\ \A i \in Positions : saved[i].id <= id /\ saved[i].id # id
      /\ Unanswered(id) /\ RowsInOrder
  BY <1>2 DEF Unanswered, NumbersInOrder
<1>4. /\ ~Refused(id, where) /\ RowsInOrder'
      /\ \A i \in Positions' :
            \/ saved'[i].id = id /\ saved'[i].at = where
            \/ \E j \in Positions : saved'[i].id = saved[j].id /\ saved'[i].at = saved[j].at
  <2>1. 0 \in Nat
    OBVIOUS
  <2> QED
    BY <1>3, <2>1, SaveInOrder
<1> QED
  BY <1>3, <1>4 DEF Adds

\* Numbers are taken when a transaction is made, whatever the place and the answer.
LEMMA SavesInOrder ==
    ASSUME TypeOK, NumbersInOrder,
           SaveTransaction \/ LogOnOff \/ SaveFailsOver \/ StartSession \/ StartSessionFails
    PROVE  NumbersInOrder'
<1>1. 1 \in {1, 2} /\ 2 \in {1, 2}
  OBVIOUS
<1>i. PICK id \in Nat : id = NextValue("transaction")
  BY OpenTyped
<1>a. active # "yes" => cart = 0
  BY DEF NumbersInOrder
<1>2. CASE SaveTransaction
  <2>1. PICK w \in {"server", "device"} : w = Place
    BY NumbersTyped, Zenon
  <2>2. /\ active # "no" /\ active' = active /\ seed' = Given("transaction", 1)
        /\ Save(id, 0, w) /\ repeated' = repeated /\ Happens("refused", Refused(id, w))
        /\ UNCHANGED <<cart, suspended, carts, repeat>>
    BY <1>i, <1>2, <2>1 DEF SaveTransaction
  <2>3. ~Refused(id, w) /\ RowsInOrder' /\ Adds(id)
    BY <1>i, <2>2, FreshSaved
  <2>4. troubles' = troubles
    BY <2>2, <2>3 DEF Happens
  <2> QED
    BY <1>1, <1>i, <1>a, <2>2, <2>3, <2>4, NumberGiven
<1>3. ASSUME active # "no", repeated' = repeated, UNCHANGED <<cart, suspended, carts>>,
             SavesTwice(~Refused(id, "server")), Happens("refused", Refused(id, "server")),
             ~Refused(id, "server") => active' \in {active, "yes"}
      PROVE  NumbersInOrder'
  <2>1. Save(id, 0, "server") /\ repeated \subseteq repeated'
    BY <1>i, <1>3 DEF SavesTwice
  <2>2. ~Refused(id, "server") /\ RowsInOrder' /\ Adds(id)
    BY <1>i, <1>3, <2>1, FreshSaved
  <2>3. seed' = Given("transaction", 2) /\ repeat' = id + 1
    BY <1>i, <1>3, <2>2 DEF SavesTwice
  <2>4. troubles' = troubles /\ active' \in {active, "yes"}
    BY <1>3, <2>2 DEF Happens
  <2> QED
    BY <1>1, <1>i, <1>a, <1>3, <2>1, <2>2, <2>3, <2>4, NumberGiven
<1>4. CASE LogOnOff
  BY <1>i, <1>3, <1>4 DEF LogOnOff
<1>5. CASE StartSession
  BY <1>i, <1>3, <1>5 DEF StartSession
<1>6. CASE SaveFailsOver
  <2>1. /\ active # "no" /\ active' = active /\ seed' = Given("transaction", 1)
        /\ repeat' = id /\ UNCHANGED <<cart, suspended, carts>>
    BY <1>i, <1>6 DEF SaveFailsOver
  <2>2. troubles' = troubles
    BY <1>6 DEF SaveFailsOver
  <2>3. CASE UNCHANGED <<saved, repeated>>
    <3>1. Positions' = Positions /\ saved' = saved
      BY <2>3 DEF Positions
    <3>2. RowsInOrder' /\ Adds(id)
      BY <2>3, <3>1 DEF NumbersInOrder, RowsInOrder, Adds
    <3>3. \A i \in Positions' : saved'[i].id # id
      BY <1>i, <2>1, <3>1, RowsTyped DEF NumbersInOrder, Behind
    <3>4. Unanswered(id)'
      BY <3>3 DEF Unanswered
    <3>5. repeated \subseteq repeated'
      BY <2>3
    <3> QED
      BY <1>1, <1>i, <1>a, <2>1, <2>2, <3>2, <3>4, <3>5, NumberGiven
  <2>4. CASE Save(id, 0, "server") /\ repeated' = repeated \cup {id}
    <3>1. repeated \subseteq repeated'
      BY <2>4
    <3>2. /\ RowsInOrder' /\ Adds(id)
          /\ \A i \in Positions' : saved'[i].id = id => saved'[i].at = "server"
      BY <1>i, <2>1, <2>4, <3>1, FreshSaved
    <3>3. Unanswered(id)'
      BY <2>4, <3>2 DEF Unanswered
    <3> QED
      BY <1>1, <1>i, <1>a, <2>1, <2>2, <3>1, <3>2, <3>3, NumberGiven
  <2> QED
    BY <1>6, <2>1, <2>3, <2>4 DEF SaveFailsOver
<1>7. CASE StartSessionFails
  <2>1. /\ active = "seeded" /\ active' = "no" /\ seed' = Given("transaction", 1)
        /\ repeat' = repeat /\ repeated' = repeated /\ UNCHANGED <<cart, suspended, carts>>
        /\ troubles' = troubles
    BY <1>7 DEF StartSessionFails
  <2>2. RowsInOrder' /\ Adds(id)
    <3>1. CASE UNCHANGED saved
      <4>1. Positions' = Positions /\ saved' = saved
        BY <3>1 DEF Positions
      <4> QED
        BY <2>1, <4>1 DEF NumbersInOrder, RowsInOrder, Adds
    <3>2. CASE Save(id, 0, "server")
      <4>1. active # "no" /\ repeated \subseteq repeated'
        BY <2>1
      <4> QED
        BY <1>i, <3>2, <4>1, FreshSaved
    <3> QED
      BY <1>7, <1>i, <3>1, <3>2 DEF StartSessionFails
  <2> QED
    BY <1>1, <1>i, <1>a, <2>1, <2>2, NumberGiven
<1> QED
  BY <1>2, <1>4, <1>5, <1>6, <1>7

\* A cart that is deleted leaves the others in their order.
LEMMA CartDeleted ==
    ASSUME TypeOK, CartsInOrder, NEW j \in DOMAIN carts, carts' = Without(carts, j)
    PROVE  /\ \A x, y \in DOMAIN carts' : x < y => carts'[x] < carts'[y]
           /\ \A x \in DOMAIN carts' : OnServer(carts'[x]) /\ carts'[x] # carts[j]
           /\ \A c : OnServer(c) /\ c # carts[j] => OnServer(c)'
<1>1. /\ carts \in Seq(Nat) /\ Len(carts) \in Nat /\ j \in 1 .. Len(carts)
      /\ DOMAIN carts = 1 .. Len(carts) /\ \A k \in DOMAIN carts : carts[k] \in Nat
  BY CartsTyped
<1>2. /\ carts' \in Seq(Nat) /\ Len(carts') = Len(carts) - 1
      /\ \A k \in 1 .. Len(carts) - 1 : carts'[k] = IF k < j THEN carts[k] ELSE carts[k + 1]
  BY <1>1, WithoutOne
<1>3. DOMAIN carts' = 1 .. Len(carts) - 1
  BY <1>2, LenProperties
<1>4. \A x, y \in DOMAIN carts : x < y => carts[x] < carts[y]
  BY DEF CartsInOrder
<1>n. PICK n \in Nat : n = Len(carts)
  BY <1>1
<1> DEFINE g(x) == IF x < j THEN x ELSE x + 1
<1>g. /\ \A x \in 1 .. n - 1 : g(x) \in 1 .. n /\ (g(x) < j \/ j < g(x))
      /\ \A x, y \in 1 .. n - 1 : x < y => g(x) < g(y)
      /\ \A u \in 1 .. n : u < j => u \in 1 .. n - 1 /\ g(u) = u
      /\ \A u \in 1 .. n : j < u => u - 1 \in 1 .. n - 1 /\ g(u - 1) = u
  BY <1>1, <1>n
<1>s. \A x \in 1 .. n - 1 : carts'[x] = carts[g(x)]
  BY <1>2, <1>n
<1>d. DOMAIN carts' = 1 .. n - 1 /\ DOMAIN carts = 1 .. n
  BY <1>1, <1>3, <1>n
<1> HIDE DEF g
<1>5. \A x, y \in DOMAIN carts' : x < y => carts'[x] < carts'[y]
  BY <1>4, <1>g, <1>s, <1>d
<1>6. \A x \in DOMAIN carts' : OnServer(carts'[x]) /\ carts'[x] # carts[j]
  <2> SUFFICES ASSUME NEW x \in DOMAIN carts' PROVE OnServer(carts'[x]) /\ carts'[x] # carts[j]
    OBVIOUS
  <2>1. g(x) \in DOMAIN carts /\ (g(x) < j \/ j < g(x)) /\ carts'[x] = carts[g(x)]
    BY <1>g, <1>s, <1>d
  <2>2. carts[g(x)] # carts[j]
    BY <1>1, <1>4, <2>1
  <2> QED
    BY <2>1, <2>2 DEF OnServer
<1>7. ASSUME NEW c, OnServer(c), c # carts[j] PROVE OnServer(c)'
  <2>1. PICK u \in DOMAIN carts : carts[u] = c
    BY <1>7 DEF OnServer
  <2>2. u \in 1 .. n /\ (u < j \/ j < u)
    BY <1>1, <1>7, <1>d, <2>1
  <2>3. PICK x \in 1 .. n - 1 : g(x) = u
    BY <1>g, <2>2
  <2> QED
    BY <1>s, <1>d, <2>1, <2>3 DEF OnServer
<1> QED
  BY <1>5, <1>6, <1>7

\* A cart that is checked out or voided in time is saved once, where it is not refused.
LEMMA ConcludeInOrder ==
    ASSUME TypeOK, NumbersInOrder, NEW receipt \in Nat, NEW answered \in BOOLEAN,
           Conclude(receipt, answered), Regular',
           NextValue("transaction")' = NextValue("transaction")
    PROVE  NumbersInOrder'
<1>1. /\ cart # 0 /\ (online => OnServer(cart)) /\ Save(cart, receipt, Place)
      /\ UNCHANGED <<active, online, suspended, repeat>>
  BY DEF Conclude, CartLoads, OnServer
<1>2. /\ NextValue("transaction") \in Nat \ {0} /\ cart \in Nat /\ repeat \in Nat
      /\ OpenCarts \subseteq Nat /\ \A i \in Positions : saved[i].id \in Nat
  BY OpenTyped, RowsTyped
<1>3. RowsInOrder /\ CartsInOrder /\ OpenApart /\ troubles = {}
  BY DEF NumbersInOrder
<1>4. cart \in OpenCarts /\ Unanswered(cart)
      /\ (online => \A i \in Positions : saved[i].id # cart)
  <2>1. cart \in OpenCarts
    BY <1>1 DEF OpenCarts
  <2> QED
    BY <1>1, <1>3, <2>1 DEF OpenApart
<1>5. ~Late(cart)
  BY DEF Conclude, Regular
<1>6. \A i \in Positions : saved[i].id <= cart
  BY <1>2, <1>5 DEF Late
<1>7. PICK w \in {"server", "device"} : w = Place /\ (w = "server" <=> online)
  BY NumbersTyped DEF Place
<1>8. repeated \subseteq repeated'
  BY DEF Conclude
<1>9. /\ ~Refused(cart, w) /\ RowsInOrder'
      /\ \A i \in Positions' :
            \/ saved'[i].id = cart /\ saved'[i].at = w
            \/ \E j \in Positions : saved'[i].id = saved[j].id /\ saved'[i].at = saved[j].at
  <2>1. Save(cart, receipt, w)
    BY <1>1, <1>7
  <2> QED
    BY <1>2, <1>3, <1>4, <1>6, <1>7, <1>8, <2>1, SaveInOrder
<1>10. troubles' = {}
  BY <1>3, <1>5, <1>7, <1>9 DEF Conclude
<1>11. Adds(cart)
  BY <1>9 DEF Adds
<1>12. /\ \A x, y \in DOMAIN carts' : x < y => carts'[x] < carts'[y]
       /\ \A x \in DOMAIN carts' : OnServer(carts'[x]) /\ (online => carts'[x] # cart)
       /\ \A c : OnServer(c) /\ c # cart => OnServer(c)'
  <2>1. CASE ~online
    <3>1. carts' = carts
      BY <2>1 DEF Conclude
    <3> QED
      BY <1>3, <2>1, <3>1 DEF CartsInOrder, OnServer
  <2>2. CASE online
    <3> DEFINE j == CHOOSE k \in DOMAIN carts : carts[k] = cart
    <3>1. j \in DOMAIN carts /\ carts[j] = cart
      BY <1>1, <2>2 DEF OnServer
    <3>2. carts' = Without(carts, j)
      BY <1>7, <1>9, <2>2 DEF Conclude
    <3> HIDE DEF j
    <3> QED
      BY <1>3, <2>2, <3>1, <3>2, CartDeleted
  <2> QED
    BY <2>1, <2>2
<1>13. \A c : OnServer(c)' => OnServer(c)
  BY <1>12 DEF OnServer
<1>14. /\ cart' = 0 \/ (cart' = cart /\ ~answered /\ online /\ cart \in repeated')
       /\ cart' = cart \/ cart' = 0
  BY <1>7, <1>9 DEF Conclude
<1>15. OpenCarts' \subseteq OpenCarts /\ (cart \in OpenCarts' => cart' = cart)
  BY <1>1, <1>3, <1>14 DEF OpenCarts, OpenApart
<1>16. CartsInOrder'
  <2>1. \A c \in suspended["server"] : c # cart /\ OnServer(c)
    BY <1>1, <1>3 DEF OpenApart, CartsInOrder
  <2> QED
    BY <1>1, <1>12, <2>1 DEF CartsInOrder
<1>17. OpenApart'
  <2>1. ASSUME NEW c \in OpenCarts', c # cart
        PROVE  Unanswered(c)' /\ (OnServer(c)' => \A i \in Positions' : saved'[i].id # c)
    <3>1. Unanswered(c)'
      BY <1>3, <1>8, <1>11, <1>15, <2>1, UnansweredStays DEF OpenApart
    <3>2. OnServer(c) => \A i \in Positions : saved[i].id # c
      BY <1>3, <1>15, <2>1 DEF OpenApart
    <3> QED
      BY <1>11, <1>13, <2>1, <3>1, <3>2 DEF Adds
  <2>2. ASSUME cart \in OpenCarts'
        PROVE  /\ \A i \in Positions' : saved'[i].id = cart =>
                      cart \in repeated' /\ saved'[i].at = "server"
               /\ ~\E x \in DOMAIN carts' : carts'[x] = cart
    <3>1. online /\ cart \in repeated' /\ w = "server"
      BY <1>1, <1>7, <1>14, <1>15, <2>2
    <3> QED
      BY <1>4, <1>9, <1>12, <3>1
  <2>3. ASSUME NEW c \in OpenCarts'
        PROVE  Unanswered(c)' /\ (OnServer(c)' => \A i \in Positions' : saved'[i].id # c)
    <3>1. CASE c # cart
      BY <2>1, <3>1
    <3>2. CASE c = cart
      BY <2>2, <2>3, <3>2 DEF Unanswered, OnServer
    <3> QED
      BY <3>1, <3>2
  <2>4. repeat # 0 => repeat \notin OpenCarts' /\ Unanswered(repeat)'
    <3> SUFFICES ASSUME repeat # 0 PROVE repeat \notin OpenCarts' /\ Unanswered(repeat)'
      OBVIOUS
    <3>1. PICK r : r = repeat
      OBVIOUS
    <3>2. r \notin OpenCarts /\ Unanswered(r)
      BY <1>3, <3>1 DEF OpenApart
    <3>3. Unanswered(r)'
      BY <1>4, <1>8, <1>11, <3>2, UnansweredStays
    <3> QED
      BY <1>1, <1>15, <3>1, <3>2, <3>3 DEF Unanswered
  <2>5. /\ suspended'["server"] \cap suspended'["device"] = {}
        /\ cart' # 0 => cart' \notin suspended'["server"] /\ cart' \notin suspended'["device"]
    BY <1>1, <1>3, <1>14 DEF OpenApart
  <2> QED
    BY <1>1, <2>3, <2>4, <2>5 DEF OpenApart
<1>18. ASSUME active # "no" PROVE Behind(NextValue("transaction"))'
  <2>1. Behind(NextValue("transaction"))
    BY <1>18 DEF NumbersInOrder
  <2>2. cart < NextValue("transaction")
    BY <1>4, <2>1 DEF Behind
  <2>3. \A i \in Positions' : saved'[i].id < NextValue("transaction")
    BY <1>11, <2>1, <2>2 DEF Adds, Behind
  <2>4. \A x \in DOMAIN carts' : carts'[x] < NextValue("transaction")
    BY <1>12, <2>1 DEF Behind, OnServer
  <2>5. \A c \in OpenCarts' \cup {repeat} : c < NextValue("transaction")
    BY <1>15, <2>1 DEF Behind
  <2> QED
    BY <1>1, <2>3, <2>4, <2>5 DEF Behind
<1> QED
  BY <1>1, <1>9, <1>10, <1>14, <1>16, <1>17, <1>18 DEF NumbersInOrder

\* The offline database executes a request in time, or not at all.
LEMMA RepeatInOrder ==
    ASSUME TypeOK, NumbersInOrder, RepeatOffline, Regular'
    PROVE  NumbersInOrder'
<1>1. /\ repeat # 0 /\ repeat' = 0 /\ repeat \in Nat
      /\ UNCHANGED <<active, online, seed, cached, cart, suspended, carts, repeated>>
  BY OpenTyped DEF RepeatOffline
<1>2. PICK r \in Nat : r = repeat
  BY <1>1
<1>3. /\ RowsInOrder /\ CartsInOrder /\ OpenApart /\ troubles = {}
      /\ r \notin OpenCarts /\ Unanswered(r)
      /\ \A i \in Positions : saved[i].id \in Nat
  BY <1>1, <1>2, RowsTyped DEF NumbersInOrder, OpenApart
<1>4. /\ OpenCarts' = OpenCarts /\ (\A c : OnServer(c)' <=> OnServer(c))
      /\ NextValue("transaction")' = NextValue("transaction")
  BY <1>1 DEF OpenCarts, OnServer, NextValue
<1>5. RowsInOrder' /\ Adds(r) /\ troubles' = {}
  <2>1. CASE UNCHANGED <<saved, troubles>>
    <3>1. Positions' = Positions
      BY <2>1 DEF Positions
    <3> QED
      BY <1>1, <1>3, <2>1, <3>1 DEF RowsInOrder, Adds
  <2>2. CASE /\ Save(repeat, 0, "device")
             /\ troubles' = troubles \cup (IF Late(repeat) THEN {"late"} ELSE {})
                                     \cup (IF Refused(repeat, "device") THEN {"refused"} ELSE {})
    <3>1. Save(r, 0, "device") /\ ~Late(r) /\ 0 \in Nat /\ repeated \subseteq repeated'
      BY <1>1, <1>2, <2>2 DEF Regular
    <3>2. \A i \in Positions : saved[i].id <= r
      BY <1>3, <3>1 DEF Late
    <3>3. /\ ~Refused(r, "device") /\ RowsInOrder'
          /\ \A i \in Positions' :
                \/ saved'[i].id = r /\ saved'[i].at = "device"
                \/ \E j \in Positions : saved'[i].id = saved[j].id /\ saved'[i].at = saved[j].at
      BY <1>3, <3>1, <3>2, SaveInOrder
    <3> QED
      BY <1>2, <1>3, <2>2, <3>1, <3>3 DEF Adds
  <2> QED
    BY <2>1, <2>2 DEF RepeatOffline
<1>6. OpenApart'
  <2>1. \A c \in OpenCarts : Unanswered(c)'
    BY <1>1, <1>3, <1>5, UnansweredStays DEF OpenApart
  <2>2. \A c \in OpenCarts : OnServer(c) => \A i \in Positions' : saved'[i].id # c
    BY <1>3, <1>5 DEF OpenApart, Adds
  <2> QED
    BY <1>1, <1>3, <1>4, <2>1, <2>2 DEF OpenApart
<1>7. CartsInOrder'
  BY <1>1, <1>3, <1>4 DEF CartsInOrder
<1>8. ASSUME active # "no" PROVE Behind(NextValue("transaction"))'
  <2>1. Behind(NextValue("transaction")) /\ NextValue("transaction") \in Nat \ {0}
    BY <1>8, OpenTyped DEF NumbersInOrder
  <2>2. r < NextValue("transaction")
    BY <1>2, <2>1 DEF Behind
  <2>3. \A i \in Positions' : saved'[i].id < NextValue("transaction")
    BY <1>5, <2>1, <2>2 DEF Adds, Behind
  <2>4. 0 < NextValue("transaction")
    BY <2>1
  <2> QED
    BY <1>1, <1>4, <2>1, <2>3, <2>4 DEF Behind
<1> QED
  BY <1>1, <1>5, <1>6, <1>7, <1>8 DEF NumbersInOrder

\* A new cart takes the next number; the server has it last.
LEMMA CreateInOrder ==
    ASSUME TypeOK, NumbersInOrder, CreateCart
    PROVE  NumbersInOrder'
<1>1. PICK n \in Nat : n = NextValue("transaction") /\ n # 0
  BY OpenTyped
<1>2. /\ active = "yes" /\ cart = 0 /\ cart' = n /\ seed' = Given("transaction", 1)
      /\ carts' = IF online THEN Append(carts, n) ELSE carts
      /\ UNCHANGED <<active, online, cached, suspended, saved, repeat, repeated, troubles>>
  BY <1>1 DEF CreateCart
<1>3. /\ Behind(n) /\ RowsInOrder /\ CartsInOrder /\ OpenApart /\ troubles = {}
      /\ OpenCarts \subseteq Nat /\ repeat \in Nat /\ \A i \in Positions : saved[i].id \in Nat
  BY <1>1, <1>2, OpenTyped, RowsTyped DEF NumbersInOrder
<1>4. NextValue("transaction")' = n + 1
  <2>1. 1 \in Nat /\ "transaction" \in Sequence
    BY OpenTyped
  <2> QED
    BY <1>1, <1>2, <2>1, NextAfterGiven
<1>5. Positions' = Positions /\ saved' = saved
  BY <1>2 DEF Positions
<1>6. OpenCarts = suspended["server"] \cup suspended["device"] /\ OpenCarts' = OpenCarts \cup {n}
  BY <1>1, <1>2 DEF OpenCarts
<1>7. \A c \in OpenCarts : c < n /\ c # n
  BY <1>1, <1>3 DEF Behind
<1>8. /\ \A x, y \in DOMAIN carts' : x < y => carts'[x] < carts'[y]
      /\ \A x \in DOMAIN carts' : carts'[x] = n \/ OnServer(carts'[x])
      /\ \A c : OnServer(c) => OnServer(c)'
  <2>1. CASE carts' = carts
    BY <1>3, <2>1 DEF CartsInOrder, OnServer
  <2>2. CASE carts' = Append(carts, n)
    <3>1. /\ carts \in Seq(Nat) /\ Len(carts) \in Nat /\ DOMAIN carts = 1 .. Len(carts)
          /\ \A j \in DOMAIN carts : carts[j] \in Nat
      BY CartsTyped
    <3>2. /\ carts' \in Seq(Nat) /\ Len(carts') = Len(carts) + 1
          /\ \A j \in 1 .. Len(carts) : carts'[j] = carts[j]
          /\ carts'[Len(carts) + 1] = n
      BY <2>2, <3>1, AppendProperties
    <3>3. DOMAIN carts' = 1 .. Len(carts) + 1
      BY <3>2, LenProperties
    <3>4. \A x \in DOMAIN carts' : x \in DOMAIN carts \/ x = Len(carts) + 1
      BY <3>1, <3>3
    <3>5. \A x \in DOMAIN carts : x \in DOMAIN carts' /\ carts'[x] = carts[x] /\ carts[x] < n
      BY <1>3, <3>1, <3>2, <3>3 DEF Behind
    <3>6. \A x, y \in DOMAIN carts' : x < y => carts'[x] < carts'[y]
      <4> SUFFICES ASSUME NEW x \in DOMAIN carts', NEW y \in DOMAIN carts', x < y
                   PROVE  carts'[x] < carts'[y]
        OBVIOUS
      <4>1. x \in DOMAIN carts
        BY <3>1, <3>3, <3>4
      <4>2. CASE y \in DOMAIN carts
        BY <1>3, <3>5, <4>1, <4>2 DEF CartsInOrder
      <4>3. CASE y = Len(carts) + 1
        BY <3>2, <3>5, <4>1, <4>3
      <4> QED
        BY <3>4, <4>2, <4>3
    <3>7. \A x \in DOMAIN carts' : carts'[x] = n \/ OnServer(carts'[x])
      BY <3>2, <3>4, <3>5 DEF OnServer
    <3> QED
      BY <3>5, <3>6, <3>7 DEF OnServer
  <2> QED
    BY <1>2, <2>1, <2>2
<1>9. CartsInOrder'
  BY <1>2, <1>3, <1>8 DEF CartsInOrder
<1>10. OpenApart'
  <2>1. \A i \in Positions : saved[i].id < n /\ saved[i].id # n
    BY <1>3 DEF Behind
  <2>2. \A c \in OpenCarts : Unanswered(c)'
    BY <1>2, <1>3, <1>5 DEF OpenApart, Unanswered
  <2>3. Unanswered(n)' /\ \A i \in Positions' : saved'[i].id # n
    BY <1>5, <2>1 DEF Unanswered
  <2>4. ASSUME NEW c \in OpenCarts, OnServer(c)' PROVE \A i \in Positions' : saved'[i].id # c
    <3>1. OnServer(c)
      BY <1>7, <1>8, <2>4 DEF OnServer
    <3> QED
      BY <1>3, <1>5, <3>1 DEF OpenApart
  <2>5. repeat' # 0 => repeat' \notin OpenCarts' /\ Unanswered(repeat)'
    BY <1>2, <1>3, <1>5, <1>6 DEF OpenApart, Unanswered, Behind
  <2>6. cart' \notin suspended'["server"] /\ cart' \notin suspended'["device"]
    BY <1>2, <1>6, <1>7
  <2>7. suspended'["server"] \cap suspended'["device"] = {}
    BY <1>2, <1>3 DEF OpenApart
  <2> QED
    BY <1>6, <2>2, <2>3, <2>4, <2>5, <2>6, <2>7 DEF OpenApart
<1>11. Behind(NextValue("transaction"))'
  <2>1. \A x \in DOMAIN carts' : carts'[x] < n + 1
    <3>1. \A x \in DOMAIN carts : carts[x] \in Nat
      BY CartsTyped
    <3>2. \A x \in DOMAIN carts : carts[x] < n + 1
      BY <1>3, <3>1 DEF Behind
    <3> QED
      BY <1>8, <3>2 DEF OnServer
  <2>2. \A i \in Positions' : saved'[i].id < n + 1
    BY <1>3, <1>5 DEF Behind
  <2>3. \A c \in OpenCarts' \cup {repeat'} : c < n + 1
    BY <1>2, <1>3, <1>6, <1>7 DEF Behind
  <2> QED
    BY <1>4, <2>1, <2>2, <2>3 DEF Behind
<1>12. RowsInOrder'
  BY <1>2, <1>3, <1>5 DEF RowsInOrder
<1> QED
  BY <1>2, <1>3, <1>9, <1>10, <1>11, <1>12 DEF NumbersInOrder

\* Given up, suspended and resumed a cart keeps its number, and stays in one place.
LEMMA CartsMoveInOrder ==
    ASSUME TypeOK, NumbersInOrder,
           DropCart \/ SuspendCart \/ (\E c \in suspended[Place] : ResumeCart(c))
    PROVE  NumbersInOrder'
<1>1. UNCHANGED <<active, online, seed, cached, carts, saved, repeat, repeated, troubles>>
  BY DEF DropCart, SuspendCart, ResumeCart
<1>2. /\ RowsInOrder /\ CartsInOrder /\ OpenApart /\ troubles = {}
      /\ active # "yes" => cart = 0
      /\ active # "no" => Behind(NextValue("transaction"))
  BY DEF NumbersInOrder
<1>3. PICK w \in {"server", "device"} : w = Place /\ (w = "server" <=> online)
  BY NumbersTyped DEF Place
<1>t. DOMAIN suspended = {"server", "device"}
  BY DEF TypeOK, Store
<1>4. /\ OpenCarts' \subseteq OpenCarts
      /\ suspended'["server"] \cap suspended'["device"] = {}
      /\ cart' # 0 => cart' \notin suspended'["server"] /\ cart' \notin suspended'["device"]
      /\ \A c \in suspended'["server"] : OnServer(c)
      /\ active # "yes" => cart' = 0
  <2>1. CASE DropCart
    BY <1>2, <2>1 DEF DropCart, OpenApart, OpenCarts, CartsInOrder
  <2>2. CASE SuspendCart
    <3>1. /\ cart # 0 /\ cart' = 0 /\ suspended' = [suspended EXCEPT ![w] = @ \cup {cart}]
          /\ w = "server" => OnServer(cart)
      BY <1>3, <2>2 DEF SuspendCart, CartLoads, OnServer
    <3>2. CASE w = "server"
      <4>1. /\ suspended'["server"] = suspended["server"] \cup {cart}
            /\ suspended'["device"] = suspended["device"]
        BY <1>t, <3>1, <3>2
      <4> QED
        BY <1>2, <3>1, <3>2, <4>1 DEF OpenApart, OpenCarts, CartsInOrder
    <3>3. CASE w = "device"
      <4>1. /\ suspended'["device"] = suspended["device"] \cup {cart}
            /\ suspended'["server"] = suspended["server"]
        BY <1>t, <3>1, <3>3
      <4> QED
        BY <1>2, <3>1, <3>3, <4>1 DEF OpenApart, OpenCarts, CartsInOrder
    <3> QED
      BY <3>2, <3>3
  <2>3. ASSUME NEW c \in suspended[w], ResumeCart(c)
        PROVE  /\ OpenCarts' \subseteq OpenCarts
               /\ suspended'["server"] \cap suspended'["device"] = {}
               /\ cart' # 0 => cart' \notin suspended'["server"] /\ cart' \notin suspended'["device"]
               /\ \A x \in suspended'["server"] : OnServer(x)
               /\ active # "yes" => cart' = 0
    <3>1. active = "yes" /\ cart' = c /\ suspended' = [suspended EXCEPT ![w] = @ \ {c}]
      BY <1>3, <2>3 DEF ResumeCart
    <3>2. CASE w = "server"
      <4>1. /\ suspended'["server"] = suspended["server"] \ {c}
            /\ suspended'["device"] = suspended["device"]
        BY <1>t, <3>1, <3>2
      <4> QED
        BY <1>2, <2>3, <3>1, <3>2, <4>1 DEF OpenApart, OpenCarts, CartsInOrder
    <3>3. CASE w = "device"
      <4>1. /\ suspended'["device"] = suspended["device"] \ {c}
            /\ suspended'["server"] = suspended["server"]
        BY <1>t, <3>1, <3>3
      <4> QED
        BY <1>2, <2>3, <3>1, <3>3, <4>1 DEF OpenApart, OpenCarts, CartsInOrder
    <3> QED
      BY <3>2, <3>3
  <2> QED
    BY <1>3, <2>1, <2>2, <2>3
<1>5. /\ Positions' = Positions /\ NextValue("transaction")' = NextValue("transaction")
      /\ \A c : OnServer(c)' <=> OnServer(c)
  BY <1>1 DEF Positions, NextValue, OnServer
<1>6. \A c : Unanswered(c)' <=> Unanswered(c)
  BY <1>1, <1>5 DEF Unanswered
<1>7. OpenApart'
  <2>1. \A c \in OpenCarts' : /\ Unanswered(c)'
                              /\ OnServer(c)' => \A i \in Positions' : saved'[i].id # c
    BY <1>1, <1>2, <1>4, <1>5, <1>6 DEF OpenApart
  <2>2. repeat' # 0 => repeat' \notin OpenCarts' /\ Unanswered(repeat)'
    BY <1>1, <1>2, <1>4, <1>5 DEF OpenApart, Unanswered
  <2> QED
    BY <1>4, <2>1, <2>2 DEF OpenApart
<1>8. active # "no" => Behind(NextValue("transaction"))'
  BY <1>1, <1>2, <1>4, <1>5 DEF Behind
<1>9. RowsInOrder' /\ CartsInOrder'
  BY <1>1, <1>2, <1>4, <1>5 DEF RowsInOrder, CartsInOrder
<1> QED
  BY <1>1, <1>2, <1>4, <1>7, <1>8, <1>9 DEF NumbersInOrder

\* Steps that leave the rows, the carts and the numbers of transactions alone.
LEMMA NumbersUntouched ==
    ASSUME NumbersInOrder,
           \/ active' = active /\ NextValue("transaction")' = NextValue("transaction")
           \/ active' = "no" /\ cart = 0,
           UNCHANGED <<cart, suspended, carts, saved, repeat, repeated, troubles>>
    PROVE  NumbersInOrder'
<1>1. Positions' = Positions /\ OpenCarts' = OpenCarts /\ \A c : OnServer(c)' <=> OnServer(c)
  BY DEF Positions, OpenCarts, OnServer
<1>2. \A c : Unanswered(c)' <=> Unanswered(c)
  BY <1>1 DEF Unanswered
<1>3. RowsInOrder' /\ CartsInOrder'
  BY <1>1 DEF NumbersInOrder, RowsInOrder, CartsInOrder
<1>4. OpenApart'
  <2>1. Unanswered(repeat)' <=> Unanswered(repeat)
    BY <1>1 DEF Unanswered
  <2> QED
    BY <1>1, <1>2, <2>1 DEF NumbersInOrder, OpenApart
<1>5. active' # "no" => Behind(NextValue("transaction"))'
  BY <1>1 DEF NumbersInOrder, Behind
<1> QED
  BY <1>3, <1>4, <1>5 DEF NumbersInOrder

\* An upload replaces the row the server saved without an answer, and no other.
LEMMA UploadInOrder ==
    ASSUME TypeOK, NumbersInOrder, NEW i \in Positions, Upload(i)
    PROVE  NumbersInOrder'
<1>1. /\ saved[i].at = "device" /\ saved' = Uploaded(i) /\ active = "yes"
      /\ Happens("overwritten", Refused(saved[i].id, "server") /\ saved[i].id \notin repeated)
      /\ repeated' = repeated \ {saved[i].id}
      /\ UNCHANGED <<active, online, seed, cached, cart, suspended, carts, repeat>>
  BY DEF Upload
<1>2. /\ RowsInOrder /\ CartsInOrder /\ OpenApart /\ troubles = {}
      /\ Behind(NextValue("transaction"))
      /\ \A j \in Positions : j \in Nat /\ saved[j].id \in Nat
  BY <1>1, RowsTyped DEF NumbersInOrder, Positions
<1>3. \A j \in Rows("server") : /\ j \in Positions /\ j # i /\ saved[j].at = "server"
                                /\ saved[j].id = saved[i].id => j < i /\ saved[i].id \in repeated
  <2> SUFFICES ASSUME NEW j \in Rows("server")
               PROVE  /\ j \in Positions /\ j # i /\ saved[j].at = "server"
                      /\ saved[j].id = saved[i].id => j < i /\ saved[i].id \in repeated
    OBVIOUS
  <2>1. j \in Positions /\ j # i /\ saved[j].at = "server"
    BY <1>1 DEF Rows
  <2>2. j < i \/ i < j
    BY <1>2, <2>1
  <2> QED
    BY <1>1, <1>2, <2>1, <2>2 DEF RowsInOrder
<1>4. troubles' = {}
  BY <1>1, <1>2, <1>3 DEF Happens, Refused
<1>5. PICK f \in [1 .. Len(saved') -> Positions] :
          /\ \A j, k \in 1 .. Len(saved') : j < k => f[j] < f[k]
          /\ \A j \in 1 .. Len(saved') :
                /\ saved'[j].id = saved[f[j]].id /\ saved'[j].receipt = saved[f[j]].receipt
                /\ saved'[j].at = IF f[j] = i THEN "server" ELSE saved[f[j]].at
          /\ Refused(saved[i].id, "server") =>
                \E d \in Rows("server") :
                    saved[d].id = saved[i].id /\ \A j \in 1 .. Len(saved') : f[j] # d
  BY <1>1, UploadKeeps
<1>6. Positions' = 1 .. Len(saved') /\ \A j \in Positions' : f[j] \in Positions
  BY DEF Positions
<1>7. \A j \in Positions' : saved[f[j]].id = saved[i].id => saved[f[j]].at # "server"
  <2> SUFFICES ASSUME NEW j \in Positions', saved[f[j]].id = saved[i].id,
                      saved[f[j]].at = "server"
               PROVE  FALSE
    OBVIOUS
  <2>1. f[j] \in Rows("server")
    BY <1>6 DEF Rows
  <2>2. Refused(saved[i].id, "server")
    BY <2>1 DEF Refused
  <2>3. PICK d \in Rows("server") : saved[d].id = saved[i].id /\ f[j] # d
    BY <1>5, <1>6, <2>2
  <2>4. d \in Positions /\ f[j] \in Positions /\ saved[d].at = "server" /\ (d < f[j] \/ f[j] < d)
    BY <1>2, <1>3, <1>6, <2>3
  <2> QED
    BY <1>2, <2>3, <2>4 DEF RowsInOrder
<1>8. RowsInOrder'
  <2> SUFFICES ASSUME NEW j \in Positions', NEW k \in Positions', j < k
               PROVE  /\ saved'[j].id <= saved'[k].id
                      /\ saved'[j].id = saved'[k].id =>
                            /\ saved'[j].id \in repeated' /\ saved'[j].at = "server"
                            /\ saved'[k].at = "device"
    BY DEF RowsInOrder
  <2>1. f[j] \in Positions /\ f[k] \in Positions /\ f[j] < f[k]
    BY <1>5, <1>6
  <2>2. /\ saved'[j].id = saved[f[j]].id /\ saved'[k].id = saved[f[k]].id
        /\ saved'[j].at = IF f[j] = i THEN "server" ELSE saved[f[j]].at
        /\ saved'[k].at = IF f[k] = i THEN "server" ELSE saved[f[k]].at
    BY <1>5, <1>6
  <2>3. /\ saved[f[j]].id <= saved[f[k]].id
        /\ saved[f[j]].id = saved[f[k]].id =>
              /\ saved[f[j]].id \in repeated /\ saved[f[j]].at = "server"
              /\ saved[f[k]].at = "device"
    BY <1>2, <2>1 DEF RowsInOrder
  <2>4. saved[f[j]].id = saved[f[k]].id =>
            saved[f[j]].id # saved[i].id /\ f[j] # i /\ f[k] # i
    BY <1>7, <2>3
  <2> QED
    BY <1>1, <2>2, <2>3, <2>4
<1>9. ASSUME NEW c, Unanswered(c) PROVE Unanswered(c)'
  <2> SUFFICES ASSUME NEW j \in Positions', saved'[j].id = c
               PROVE  c \in repeated' /\ saved'[j].at = "server"
    BY DEF Unanswered
  <2>1. f[j] \in Positions /\ saved[f[j]].id = c
    BY <1>5, <1>6
  <2>2. c \in repeated /\ saved[f[j]].at = "server"
    BY <1>9, <2>1 DEF Unanswered
  <2>3. c # saved[i].id
    BY <1>1, <1>9 DEF Unanswered
  <2> QED
    BY <1>1, <1>5, <1>6, <2>1, <2>2, <2>3
<1>10. /\ OpenCarts' = OpenCarts /\ (\A c : OnServer(c)' <=> OnServer(c))
       /\ NextValue("transaction")' = NextValue("transaction")
  BY <1>1 DEF OpenCarts, OnServer, NextValue
<1>11. OpenApart'
  <2>1. \A c \in OpenCarts : OnServer(c) => \A j \in Positions' : saved'[j].id # c
    BY <1>2, <1>5, <1>6 DEF OpenApart
  <2>2. repeat # 0 => Unanswered(repeat)'
    <3>1. PICK r : r = repeat
      OBVIOUS
    <3>2. repeat # 0 => Unanswered(r)'
      BY <1>2, <1>9, <3>1 DEF OpenApart
    <3> QED
      BY <1>1, <3>1, <3>2 DEF Unanswered
  <2> QED
    BY <1>1, <1>2, <1>9, <1>10, <2>1, <2>2 DEF OpenApart
<1>12. CartsInOrder'
  BY <1>1, <1>2, <1>10 DEF CartsInOrder
<1>13. Behind(NextValue("transaction"))'
  BY <1>1, <1>2, <1>5, <1>6, <1>10 DEF Behind
<1> QED
  BY <1>1, <1>4, <1>8, <1>11, <1>12, <1>13 DEF NumbersInOrder

\* The seeds of an activation are greater than every number given before it.
LEMMA SeedsInOrder ==
    ASSUME TypeOK, NumbersInOrder, UpdateSeeds, Regular'
    PROVE  NumbersInOrder'
<1>1. /\ active = "no" /\ active' = "seeded" /\ cart = 0
      /\ UNCHANGED <<online, cached, cart, suspended, carts, saved, repeat, repeated>>
      /\ seed'["transaction"] = LatestTransaction + 1
  BY DEF UpdateSeeds, NumbersInOrder
<1>2. Rows("device") = {} /\ suspended["device"] = {} /\ repeat = 0 /\ troubles' = {}
  BY DEF UpdateSeeds, Happens, Regular, NumbersInOrder
<1>3. Rows("server") = Positions
  BY <1>2, RowsTyped DEF Rows
<1>4. /\ LatestTransaction \in Nat /\ LastCart \in Nat /\ LastCart <= LatestTransaction
      /\ LastRow(Positions).id \in Nat /\ LastRow(Positions).id <= LatestTransaction
  <2>1. LastRow(Positions).id \in Nat
    BY LastRowIs DEF Row
  <2>2. LastCart \in Nat
    BY NumbersTyped
  <2>3. LatestTransaction = Max({LastCart, LastRow(Positions).id})
    BY <1>3 DEF LatestTransaction
  <2> QED
    BY <2>1, <2>2, <2>3, PairMax, NumbersTyped
<1>5. \A j \in Positions : saved[j].id <= LatestTransaction
  <2> SUFFICES ASSUME NEW j \in Positions PROVE saved[j].id <= LatestTransaction
    OBVIOUS
  <2>1. PICK m \in Positions : LastRow(Positions) = saved[m] /\ \A k \in Positions : k <= m
    BY LastRowIs
  <2>2. j = m \/ j < m
    BY <2>1, RowsTyped DEF Positions
  <2>3. saved[j].id <= saved[m].id
    BY <2>1, <2>2, RowsTyped DEF NumbersInOrder, RowsInOrder
  <2> QED
    BY <1>4, <2>1, <2>3, RowsTyped
<1>6. \A j \in DOMAIN carts : carts[j] \in Nat /\ carts[j] <= LatestTransaction
  <2> SUFFICES ASSUME NEW j \in DOMAIN carts
               PROVE  carts[j] \in Nat /\ carts[j] <= LatestTransaction
    OBVIOUS
  <2>0. carts # <<>>
    OBVIOUS
  <2>1. PICK n \in Nat : n = Len(carts) /\ DOMAIN carts = 1 .. n /\ n \in DOMAIN carts
    BY <2>0, CartsTyped
  <2>2. LastCart = carts[n] /\ carts[j] \in Nat /\ (j = n \/ j < n)
    BY <2>0, <2>1, CartsTyped DEF LastCart
  <2>3. carts[j] <= LastCart
    BY <1>4, <2>1, <2>2 DEF NumbersInOrder, CartsInOrder
  <2> QED
    BY <1>4, <2>2, <2>3
<1>7. NextValue("transaction")' = LatestTransaction + 1
  BY <1>1, <1>4 DEF NextValue
<1>8. /\ Positions' = Positions /\ OpenCarts' = OpenCarts /\ (\A c : OnServer(c)' <=> OnServer(c))
      /\ OpenCarts = suspended["server"]
  BY <1>1, <1>2 DEF Positions, OpenCarts, OnServer
<1>9. \A c \in OpenCarts : c < LatestTransaction + 1
  BY <1>4, <1>6, <1>8 DEF NumbersInOrder, CartsInOrder, OnServer
<1>10. Behind(NextValue("transaction"))'
  <2>1. \A j \in Positions : saved[j].id < LatestTransaction + 1
    BY <1>4, <1>5, RowsTyped
  <2>2. \A j \in DOMAIN carts : carts[j] < LatestTransaction + 1
    BY <1>4, <1>6
  <2> QED
    BY <1>1, <1>2, <1>4, <1>7, <1>8, <1>9, <2>1, <2>2 DEF Behind
<1>11. RowsInOrder' /\ CartsInOrder'
  BY <1>1, <1>8 DEF NumbersInOrder, RowsInOrder, CartsInOrder
<1>12. OpenApart'
  <2>1. \A c : Unanswered(c)' <=> Unanswered(c)
    BY <1>1, <1>8 DEF Unanswered
  <2> QED
    BY <1>1, <1>2, <1>8, <2>1 DEF NumbersInOrder, OpenApart
<1> QED
  BY <1>1, <1>2, <1>10, <1>11, <1>12 DEF NumbersInOrder

LEMMA NumbersKept == TypeOK /\ NInv /\ [Next]_vars => NInv'
<1> SUFFICES ASSUME TypeOK, NInv, [Next]_vars, Regular' PROVE NumbersInOrder'
  BY DEF NInv
<1>1. NumbersInOrder
  BY TroublesStay DEF NInv, Regular
<1>2. CASE SaveTransaction \/ LogOnOff \/ SaveFailsOver \/ StartSession \/ StartSessionFails
  BY <1>1, <1>2, SavesInOrder
<1>3. CASE RepeatOffline
  BY <1>1, <1>3, RepeatInOrder
<1>4. CASE CreateCart
  BY <1>1, <1>4, CreateInOrder
<1>5. CASE DropCart \/ SuspendCart \/ (\E c \in suspended[Place] : ResumeCart(c))
  BY <1>1, <1>5, CartsMoveInOrder
<1>d. ASSUME NEW c \in Nat, DrawReceipt(c)
      PROVE  NextValue("transaction")' = NextValue("transaction")
  <2>1. "receipt" \in Sequence /\ "transaction" \in Sequence /\ 1 \in Nat
    BY DEF Sequence
  <2>2. CASE seed' = seed
    BY <2>2 DEF NextValue
  <2>3. CASE seed' = Given("receipt", 1)
    BY <2>1, <2>3, NextAfterGiven
  <2> QED
    BY <1>d, <2>2, <2>3 DEF DrawReceipt
<1>6. CASE \E answered \in BOOLEAN : VoidCart(answered) \/ Checkout(answered)
  <2>1. PICK answered \in BOOLEAN : VoidCart(answered) \/ Checkout(answered)
    BY <1>6
  <2>2. CASE VoidCart(answered)
    <3>1. 0 \in Nat /\ Conclude(0, answered) /\ seed' = seed
      BY <2>2 DEF VoidCart
    <3>2. NextValue("transaction")' = NextValue("transaction")
      BY <3>1 DEF NextValue
    <3> QED
      BY <1>1, <3>1, <3>2, ConcludeInOrder
  <2>3. CASE Checkout(answered)
    <3>1. PICK receipt \in Nat : receipt = NextReceipt(cart)
      BY NumbersTyped
    <3>2. Conclude(receipt, answered) /\ DrawReceipt(cart) /\ cart \in Nat
      BY <2>3, <3>1, OpenTyped DEF Checkout
    <3>3. NextValue("transaction")' = NextValue("transaction")
      BY <1>d, <3>2
    <3> QED
      BY <1>1, <3>2, <3>3, ConcludeInOrder
  <2> QED
    BY <2>1, <2>2, <2>3
<1>7. ASSUME NEW i \in Positions, Upload(i) PROVE NumbersInOrder'
  BY <1>1, <1>7, UploadInOrder
<1>8. CASE UpdateSeeds
  BY <1>1, <1>8, SeedsInOrder
<1>9. CASE CheckoutFails
  <2>1. /\ UNCHANGED <<active, cart, suspended, carts, saved, repeat, repeated, troubles>>
        /\ NextValue("transaction")' = NextValue("transaction")
    BY <1>9, <1>d, OpenTyped DEF CheckoutFails
  <2> QED
    BY <1>1, <2>1, NumbersUntouched
<1>10. CASE SwitchConnection
  <2>1. /\ UNCHANGED <<active, cart, suspended, carts, saved, repeat, repeated, troubles>>
        /\ NextValue("transaction")' = NextValue("transaction")
    BY <1>10 DEF SwitchConnection, NextValue
  <2> QED
    BY <1>1, <2>1, NumbersUntouched
<1>11. CASE Deactivate
  <2>1. active' = "no" /\ UNCHANGED <<cart, suspended, carts, saved, repeat, repeated, troubles>>
    BY <1>11 DEF Deactivate
  <2>2. cart = 0
    BY <1>11 DEF Deactivate
  <2> QED
    BY <1>1, <2>1, <2>2, NumbersUntouched
<1>12. CASE UNCHANGED vars
  <2>1. /\ UNCHANGED <<active, cart, suspended, carts, saved, repeat, repeated, troubles>>
        /\ NextValue("transaction")' = NextValue("transaction")
    BY <1>12 DEF vars, NextValue
  <2> QED
    BY <1>1, <2>1, NumbersUntouched
<1> QED
  BY <1>2, <1>3, <1>4, <1>5, <1>6, <1>7, <1>8, <1>9, <1>10, <1>11, <1>12 DEF Next

\* A number is given once and saved once, and never refused or overwritten, through any number
\* of activations, carts and failovers, while nothing is saved late and nothing is pending at an
\* activation; only a transaction the server did not answer for may be saved a second time,
\* offline, until the upload makes one of the two.
THEOREM NumbersStayUnique == Spec => []NumbersUnique
<1>1. Init => NInv
  <2> SUFFICES ASSUME Init PROVE NumbersInOrder
    BY DEF NInv
  <2>1. /\ Positions = {} /\ DOMAIN carts = {} /\ OpenCarts = {} /\ repeat = 0
        /\ troubles = {} /\ active = "no" /\ cart = 0
        /\ suspended["server"] = {} /\ suspended["device"] = {}
    BY EmptySeq DEF Init, Positions, OpenCarts, Store
  <2> QED
    BY <2>1 DEF NumbersInOrder, RowsInOrder, CartsInOrder, OpenApart
<1>2. TypeOK /\ NInv => NumbersUnique
  <2> SUFFICES ASSUME TypeOK, NumbersInOrder
               PROVE  /\ \A i, j \in Positions : i # j /\ saved[i].id = saved[j].id =>
                            saved[i].id \in repeated /\ saved[i].at # saved[j].at
                      /\ troubles = {}
    BY DEF NInv, NumbersUnique
  <2>1. \A i, j \in Positions : i # j => i < j \/ j < i
    BY RowsTyped DEF Positions
  <2> QED
    BY <2>1 DEF NumbersInOrder, RowsInOrder
<1> QED
  BY <1>1, <1>2, InitType, TypeKept, NumbersKept, PTL DEF Spec

-----------------------------------------------------------------------------
(* The numbers of receipts.  Receipts are saved in the order of their numbers  *)
(* even where transactions are not, because a checkout draws or keeps the last *)
(* number given: the last one saved is enough for the next activation.         *)

RowsOrdered ==
    \A i, j \in Positions : i < j /\ saved[i].receipt # 0 /\ saved[j].receipt # 0 =>
        /\ saved[i].receipt <= saved[j].receipt
        /\ saved[i].receipt = saved[j].receipt => saved[i].id = saved[j].id

\* Number n is the last one given, and only the transaction id may have it.
LastGiven(n, id) ==
    \A i \in Positions :
        /\ saved[i].receipt <= n
        /\ saved[i].receipt # 0 /\ saved[i].receipt = n => saved[i].id = id

ReceiptsInOrder ==
    /\ active # "yes" => cart = 0 /\ cached = NoReceipt
    /\ RowsOrdered
    /\ cached.cart # 0 => LastGiven(cached.receipt, cached.cart)
    /\ active # "no" =>
         /\ \A i \in Positions : saved[i].receipt < NextValue("receipt")
         /\ cached.receipt < NextValue("receipt")

RInv == "pending" \notin troubles => ReceiptsInOrder

LEMMA CachedTyped ==
    ASSUME TypeOK
    PROVE  /\ cached.cart \in Nat /\ cached.receipt \in Nat
           /\ NextValue("receipt") \in Nat \ {0} /\ "receipt" \in Sequence /\ "transaction" \in Sequence
           /\ NoReceipt.cart = 0 /\ NoReceipt.receipt = 0
BY NumbersTyped DEF TypeOK, Sequence, NoReceipt

\* A row without a receipt, or with the last one given, keeps the order.
LEMMA SaveReceipts ==
    ASSUME TypeOK, RowsOrdered, NEW id \in Nat, NEW receipt \in Nat,
           NEW where \in {"server", "device"}, Save(id, receipt, where),
           receipt = 0 \/ LastGiven(receipt, id)
    PROVE  /\ RowsOrdered'
           /\ \A i \in Positions' :
                 \/ saved'[i].receipt = receipt /\ saved'[i].id = id
                 \/ \E j \in Positions :
                       saved'[i].receipt = saved[j].receipt /\ saved'[i].id = saved[j].id
<1>1. Len(saved) \in Nat /\ \A i \in Positions : saved[i].receipt \in Nat
  BY RowsTyped
<1>2. CASE saved' = saved
  BY <1>2 DEF RowsOrdered, Positions
<1>3. CASE /\ Len(saved') = Len(saved) + 1
           /\ \A i \in Positions : saved'[i] = saved[i]
           /\ saved'[Len(saved) + 1] = [id |-> id, receipt |-> receipt, at |-> where]
  <2>1. saved'[Len(saved) + 1].id = id /\ saved'[Len(saved) + 1].receipt = receipt
    BY <1>3
  <2>2. \A i \in Positions' : i \in Positions \/ i = Len(saved) + 1
    BY <1>1, <1>3 DEF Positions
  <2>3. RowsOrdered'
    <3> SUFFICES ASSUME NEW i \in Positions', NEW j \in Positions', i < j,
                        saved'[i].receipt # 0, saved'[j].receipt # 0
                 PROVE  /\ saved'[i].receipt <= saved'[j].receipt
                        /\ saved'[i].receipt = saved'[j].receipt => saved'[i].id = saved'[j].id
      BY DEF RowsOrdered
    <3>1. i \in Positions
      BY <1>1, <1>3, <2>2 DEF Positions
    <3>2. CASE j \in Positions
      BY <1>3, <3>1, <3>2 DEF RowsOrdered
    <3>3. CASE j = Len(saved) + 1
      BY <1>3, <2>1, <3>1, <3>3 DEF LastGiven
    <3> QED
      BY <2>2, <3>2, <3>3
  <2> QED
    BY <1>3, <2>1, <2>2, <2>3
<1> QED
  BY <1>2, <1>3, SaveAdds

\* Transactions without a receipt.
LEMMA ReceiptlessSave ==
    ASSUME TypeOK, ReceiptsInOrder, NEW id \in Nat, NEW where \in {"server", "device"},
           Save(id, 0, where), NextValue("receipt")' = NextValue("receipt"), cached' = cached,
           cart' \in {cart, 0}, active' # "yes" => active # "yes", active' # "no" => active # "no"
    PROVE  ReceiptsInOrder'
<1>1. /\ RowsOrdered'
      /\ \A i \in Positions' :
            \/ saved'[i].receipt = 0 /\ saved'[i].id = id
            \/ \E j \in Positions :
                  saved'[i].receipt = saved[j].receipt /\ saved'[i].id = saved[j].id
  BY SaveReceipts DEF ReceiptsInOrder
<1>2. cached.cart # 0 => LastGiven(cached.receipt, cached.cart)'
  BY <1>1, CachedTyped DEF ReceiptsInOrder, LastGiven
<1>3. active # "no" => \A i \in Positions' : saved'[i].receipt < NextValue("receipt")
  BY <1>1, CachedTyped DEF ReceiptsInOrder
<1>4. active # "yes" => cart' = 0
  BY DEF ReceiptsInOrder
<1> QED
  BY <1>1, <1>2, <1>3, <1>4 DEF ReceiptsInOrder

\* The next receipt stays when numbers are given to transactions.
LEMMA NextReceiptStays ==
    ASSUME TypeOK, NEW n \in Nat, seed' = seed \/ seed' = Given("transaction", n)
    PROVE  NextValue("receipt")' = NextValue("receipt")
<1>1. CASE seed' = seed
  BY <1>1 DEF NextValue
<1>2. CASE seed' = Given("transaction", n)
  BY <1>2, CachedTyped, NextAfterGiven
<1> QED
  BY <1>1, <1>2

\* Steps that touch no row and no receipt.
LEMMA ReceiptsUntouched ==
    ASSUME TypeOK, ReceiptsInOrder, NextValue("receipt")' = NextValue("receipt"),
           UNCHANGED <<active, cached, saved>>, active # "yes" => cart' = 0
    PROVE  ReceiptsInOrder'
<1>1. Positions' = Positions
  BY DEF Positions
<1>2. RowsOrdered' /\ (cached.cart # 0 => LastGiven(cached.receipt, cached.cart)')
  BY <1>1 DEF ReceiptsInOrder, RowsOrdered, LastGiven
<1> QED
  BY <1>1, <1>2 DEF ReceiptsInOrder

\* What a cart draws is the last number given, or a greater one.
LEMMA DrawnLast ==
    ASSUME TypeOK, ReceiptsInOrder, cart # 0, DrawReceipt(cart)
    PROVE  /\ active = "yes" /\ NextReceipt(cart) \in Nat
           /\ LastGiven(NextReceipt(cart), cart)
           /\ cached'.cart = cart /\ cached'.receipt = NextReceipt(cart)
           /\ NextReceipt(cart) < NextValue("receipt")'
           /\ NextValue("receipt")' \in Nat /\ NextValue("receipt") <= NextValue("receipt")'
<1>1. active = "yes" /\ NextReceipt(cart) \in Nat
  BY NumbersTyped DEF ReceiptsInOrder
<1>2. cached' = [cart |-> cart, receipt |-> NextReceipt(cart)]
      /\ seed' = IF cached.cart = cart THEN seed ELSE Given("receipt", 1)
  BY DEF DrawReceipt
<1>3. \A i \in Positions : saved[i].receipt \in Nat
  BY RowsTyped
<1>4. CASE cached.cart = cart
  <2>1. NextValue("receipt")' = NextValue("receipt") /\ NextReceipt(cart) = cached.receipt
    BY <1>2, <1>4 DEF NextValue, NextReceipt
  <2>2. LastGiven(cached.receipt, cart) /\ cached.receipt < NextValue("receipt")
    BY <1>1, <1>4 DEF ReceiptsInOrder
  <2> QED
    BY <1>1, <1>2, <2>1, <2>2, CachedTyped
<1>5. CASE cached.cart # cart
  <2>1. 1 \in Nat /\ seed' = Given("receipt", 1)
    BY <1>2, <1>5
  <2>2. NextValue("receipt")' = NextValue("receipt") + 1
    BY <2>1, CachedTyped, NextAfterGiven
  <2>3. NextReceipt(cart) = NextValue("receipt")
    BY <1>5 DEF NextReceipt
  <2>4. \A i \in Positions : saved[i].receipt < NextValue("receipt")
    BY <1>1 DEF ReceiptsInOrder
  <2>5. LastGiven(NextValue("receipt"), cart)
    BY <1>3, <2>4, CachedTyped DEF LastGiven
  <2> QED
    BY <1>1, <1>2, <2>2, <2>3, <2>5, CachedTyped
<1> QED
  BY <1>4, <1>5

LEMMA CheckoutReceipts ==
    ASSUME TypeOK, ReceiptsInOrder,
           CheckoutFails \/ (\E answered \in BOOLEAN : Checkout(answered))
    PROVE  ReceiptsInOrder'
<1>1. cart # 0 /\ DrawReceipt(cart) /\ active' = active /\ cart \in Nat
  BY DEF Checkout, Conclude, CheckoutFails, TypeOK
<1>2. PICK receipt \in Nat : receipt = NextReceipt(cart)
  BY NumbersTyped, <1>1
<1>3. /\ active = "yes" /\ LastGiven(receipt, cart)
      /\ cached'.cart = cart /\ cached'.receipt = receipt
      /\ receipt < NextValue("receipt")'
      /\ NextValue("receipt")' \in Nat /\ NextValue("receipt") <= NextValue("receipt")'
  BY <1>1, <1>2, DrawnLast
<1>4. /\ RowsOrdered'
      /\ \A i \in Positions' :
            \/ saved'[i].receipt = receipt /\ saved'[i].id = cart
            \/ \E j \in Positions :
                  saved'[i].receipt = saved[j].receipt /\ saved'[i].id = saved[j].id
  <2>1. RowsOrdered
    BY DEF ReceiptsInOrder
  <2>2. CASE \E answered \in BOOLEAN : Checkout(answered)
    <3>1. PICK w \in {"server", "device"} : w = Place
      BY NumbersTyped, Zenon
    <3>2. Save(cart, receipt, w)
      BY <1>2, <2>2, <3>1 DEF Checkout, Conclude
    <3> QED
      BY <1>1, <1>3, <2>1, <3>2, SaveReceipts
  <2>3. CASE CheckoutFails
    <3>1. saved' = saved /\ Positions' = Positions
      BY <2>3 DEF CheckoutFails, Positions
    <3> QED
      BY <2>1, <3>1 DEF RowsOrdered
  <2> QED
    BY <2>2, <2>3
<1>5. LastGiven(cached.receipt, cached.cart)'
  <2>1. \A i \in Positions' :
            /\ saved'[i].receipt <= receipt
            /\ saved'[i].receipt # 0 /\ saved'[i].receipt = receipt => saved'[i].id = cart
    BY <1>3, <1>4 DEF LastGiven
  <2> QED
    BY <1>3, <2>1 DEF LastGiven
<1>6. \A i \in Positions' : saved'[i].receipt < NextValue("receipt")'
  <2>1. \A i \in Positions : saved[i].receipt \in Nat
    BY RowsTyped
  <2>2. \A j \in Positions : saved[j].receipt < NextValue("receipt")'
    BY <1>3, <2>1, CachedTyped DEF LastGiven
  <2> QED
    BY <1>3, <1>4, <2>2
<1> QED
  BY <1>1, <1>3, <1>4, <1>5, <1>6 DEF ReceiptsInOrder

\* An upload takes the server's row of a number for the device's, in the same order.
LEMMA UploadReceipts ==
    ASSUME TypeOK, ReceiptsInOrder, NEW i \in Positions, Upload(i)
    PROVE  ReceiptsInOrder'
<1>1. /\ saved[i].at = "device" /\ saved' = Uploaded(i)
      /\ UNCHANGED <<active, online, seed, cached, cart, suspended, carts>>
  BY DEF Upload
<1>2. PICK f \in [1 .. Len(saved') -> Positions] :
          /\ \A j, k \in 1 .. Len(saved') : j < k => f[j] < f[k]
          /\ \A j \in 1 .. Len(saved') :
                saved'[j].id = saved[f[j]].id /\ saved'[j].receipt = saved[f[j]].receipt
  <2>1. PICK f \in [1 .. Len(saved') -> Positions] :
          /\ \A j, k \in 1 .. Len(saved') : j < k => f[j] < f[k]
          /\ \A j \in 1 .. Len(saved') :
                /\ saved'[j].id = saved[f[j]].id /\ saved'[j].receipt = saved[f[j]].receipt
                /\ saved'[j].at = IF f[j] = i THEN "server" ELSE saved[f[j]].at
          /\ Refused(saved[i].id, "server") =>
                \E d \in Rows("server") :
                    saved[d].id = saved[i].id /\ \A j \in 1 .. Len(saved') : f[j] # d
    BY <1>1, UploadKeeps
  <2> QED
    BY <2>1
<1>3. RowsOrdered'
  <2> SUFFICES ASSUME NEW j \in Positions', NEW k \in Positions', j < k,
                      saved'[j].receipt # 0, saved'[k].receipt # 0
               PROVE  /\ saved'[j].receipt <= saved'[k].receipt
                      /\ saved'[j].receipt = saved'[k].receipt => saved'[j].id = saved'[k].id
    BY DEF RowsOrdered
  <2>1. f[j] \in Positions /\ f[k] \in Positions /\ f[j] < f[k]
    BY <1>2 DEF Positions
  <2>2. /\ saved'[j].id = saved[f[j]].id /\ saved'[j].receipt = saved[f[j]].receipt
        /\ saved'[k].id = saved[f[k]].id /\ saved'[k].receipt = saved[f[k]].receipt
    BY <1>2 DEF Positions
  <2> QED
    BY <2>1, <2>2 DEF ReceiptsInOrder, RowsOrdered
<1>4. \A j \in Positions' : \E k \in Positions :
          saved'[j].receipt = saved[k].receipt /\ saved'[j].id = saved[k].id
  BY <1>2 DEF Positions
<1>5. cached.cart # 0 => LastGiven(cached.receipt, cached.cart)'
  BY <1>1, <1>4 DEF ReceiptsInOrder, LastGiven
<1>6. NextValue("receipt")' = NextValue("receipt")
  BY <1>1 DEF NextValue
<1> QED
  BY <1>1, <1>3, <1>4, <1>5, <1>6 DEF ReceiptsInOrder

\* The receipt of the last transaction that has one is the greatest.
LEMMA SeedsReceipts ==
    ASSUME TypeOK, ReceiptsInOrder, UpdateSeeds, "pending" \notin troubles'
    PROVE  ReceiptsInOrder'
<1>1. /\ active = "no" /\ active' = "seeded" /\ cart = 0 /\ cached = NoReceipt
      /\ UNCHANGED <<online, cached, cart, suspended, saved>>
      /\ seed'["receipt"] = LatestReceipt + 1
  BY DEF UpdateSeeds, ReceiptsInOrder
<1>2. Rows("device") = {}
  BY DEF UpdateSeeds, Happens
<1>3. Rows("server") = Positions
  <2>1. \A j \in Positions : saved[j].at \in {"server", "device"}
    <3>1. \A j \in Positions : saved[j] \in Row
      BY ElementOfSeq DEF TypeOK, Positions
    <3> QED
      BY <3>1 DEF Row, Store
  <2> QED
    BY <1>2, <2>1 DEF Rows
<1> DEFINE P == {j \in Positions : saved[j].receipt # 0}
<1>4. LatestReceipt = LastRow(P).receipt /\ LatestReceipt \in Nat
  BY <1>3, NumbersTyped DEF LatestReceipt
<1>5. \A j \in Positions : saved[j].receipt <= LatestReceipt
  <2> SUFFICES ASSUME NEW j \in Positions, saved[j].receipt # 0
               PROVE  saved[j].receipt <= LatestReceipt
    BY <1>4, RowsTyped
  <2>1. PICK m \in P : LastRow(P) = saved[m] /\ \A k \in P : k <= m
    BY LastRowIs
  <2>2. m \in Positions /\ saved[m].receipt # 0 /\ (j = m \/ j < m)
    BY <2>1, RowsTyped DEF Positions
  <2> QED
    BY <1>4, <2>1, <2>2, RowsTyped DEF ReceiptsInOrder, RowsOrdered
<1> HIDE DEF P
<1>6. NextValue("receipt")' = LatestReceipt + 1
  BY <1>1, <1>4 DEF NextValue
<1>7. Positions' = Positions /\ saved' = saved
  BY <1>1 DEF Positions
<1>8. \A j \in Positions' : saved'[j].receipt < NextValue("receipt")'
  BY <1>4, <1>5, <1>6, <1>7, RowsTyped
<1>9. cached'.cart = 0 /\ cached'.receipt < NextValue("receipt")'
  BY <1>1, <1>4, <1>6, CachedTyped
<1>10. RowsOrdered'
  BY <1>7 DEF ReceiptsInOrder, RowsOrdered
<1> QED
  BY <1>1, <1>8, <1>9, <1>10 DEF ReceiptsInOrder

LEMMA ReceiptsKept == TypeOK /\ RInv /\ [Next]_vars => RInv'
<1> SUFFICES ASSUME TypeOK, RInv, [Next]_vars, "pending" \notin troubles' PROVE ReceiptsInOrder'
  BY DEF RInv
<1>1. ReceiptsInOrder
  BY TroublesStay DEF RInv
<1>2. /\ NextValue("transaction") \in Nat /\ NextValue("transaction") + 1 \in Nat
      /\ 1 \in Nat /\ 2 \in Nat
  <2>1. NextValue("transaction") \in Nat \ {0}
    BY NumbersTyped, CachedTyped, Zenon
  <2> QED
    BY <2>1
<1>w. PICK w \in {"server", "device"} : w = Place
  BY NumbersTyped, Zenon
<1>3. CASE SaveTransaction
  <2>1. /\ active # "no" /\ active' = active /\ Save(NextValue("transaction"), 0, w)
        /\ seed' = Given("transaction", 1) /\ UNCHANGED <<cart, cached>>
    BY <1>3, <1>w DEF SaveTransaction
  <2> QED
    BY <1>1, <1>2, <2>1, ReceiptlessSave, NextReceiptStays
<1>4. CASE LogOnOff \/ StartSession
  <2>1. PICK n \in {1, 2} : seed' = Given("transaction", n)
    BY <1>4 DEF LogOnOff, StartSession, SavesTwice
  <2>2. /\ Save(NextValue("transaction"), 0, "server") /\ n \in Nat /\ UNCHANGED <<cart, cached>>
        /\ active # "no" /\ (active' # "yes" => active # "yes")
    BY <1>4 DEF LogOnOff, StartSession, SavesTwice
  <2> QED
    BY <1>1, <1>2, <2>1, <2>2, ReceiptlessSave, NextReceiptStays
<1>f. CASE StartSessionFails
  <2>1. /\ active = "seeded" /\ active' = "no" /\ seed' = Given("transaction", 1)
        /\ UNCHANGED <<cart, cached>> /\ cart = 0 /\ cached = NoReceipt
        /\ NextValue("receipt")' = NextValue("receipt")
    BY <1>1, <1>2, <1>f, NextReceiptStays DEF StartSessionFails, ReceiptsInOrder
  <2>2. CASE Save(NextValue("transaction"), 0, "server")
    BY <1>1, <1>2, <2>1, <2>2, ReceiptlessSave
  <2>3. CASE saved' = saved
    BY <1>1, <2>1, <2>3, CachedTyped DEF ReceiptsInOrder, RowsOrdered, Positions
  <2> QED
    BY <1>f, <2>2, <2>3 DEF StartSessionFails
<1>5. CASE (RepeatOffline \/ SaveFailsOver) /\ saved' # saved
  <2>1. PICK id \in Nat, at \in {"server", "device"} : Save(id, 0, at)
    BY <1>2, <1>5, OpenTyped DEF RepeatOffline, SaveFailsOver
  <2>2. /\ seed' = seed \/ seed' = Given("transaction", 1)
        /\ UNCHANGED <<active, cart, cached>>
    BY <1>5 DEF RepeatOffline, SaveFailsOver
  <2> QED
    BY <1>1, <1>2, <2>1, <2>2, ReceiptlessSave, NextReceiptStays
<1>6. CASE \/ CreateCart \/ DropCart \/ SuspendCart \/ SwitchConnection \/ UNCHANGED vars
           \/ (\E c \in suspended[Place] : ResumeCart(c))
           \/ ((RepeatOffline \/ SaveFailsOver) /\ saved' = saved)
  <2>1. /\ UNCHANGED <<active, cached, saved>> /\ (active # "yes" => cart' = 0)
        /\ seed' = seed \/ seed' = Given("transaction", 1)
    BY <1>1, <1>6 DEF CreateCart, DropCart, SuspendCart, SwitchConnection, ResumeCart, vars,
       RepeatOffline, SaveFailsOver, ReceiptsInOrder
  <2> QED
    BY <1>1, <1>2, <2>1, ReceiptsUntouched, NextReceiptStays
<1>7. CASE \E answered \in BOOLEAN : VoidCart(answered)
  <2>1. PICK c \in Nat : c = cart
    BY OpenTyped
  <2>2. Save(c, 0, w) /\ cart' \in {cart, 0} /\ UNCHANGED <<active, seed, cached>>
    BY <1>7, <1>w, <2>1 DEF VoidCart, Conclude
  <2> QED
    BY <1>1, <1>2, <2>2, ReceiptlessSave, NextReceiptStays
<1>c. CASE CheckoutFails \/ (\E answered \in BOOLEAN : Checkout(answered))
  BY <1>1, <1>c, CheckoutReceipts
<1>8. ASSUME NEW i \in Positions, Upload(i) PROVE ReceiptsInOrder'
  BY <1>1, <1>8, UploadReceipts
<1>9. CASE Deactivate
  <2>1. active' = "no" /\ cart' = 0 /\ cached' = NoReceipt /\ saved' = saved
        /\ Positions' = Positions
    BY <1>9 DEF Deactivate, Positions
  <2> QED
    BY <1>1, <2>1, CachedTyped DEF ReceiptsInOrder, RowsOrdered
<1>10. CASE UpdateSeeds
  BY <1>1, <1>10, SeedsReceipts
<1> QED
  BY <1>3, <1>4, <1>5, <1>6, <1>f, <1>7, <1>c, <1>8, <1>9, <1>10 DEF Next

\* Two transactions with the same receipt number are the same transaction, for any number of
\* failed checkouts, suspended carts and activations, late checkouts included, while nothing
\* is pending at an activation.
THEOREM ReceiptsStayUnique == Spec => []ReceiptsUnique
<1>1. Init => RInv
  <2> SUFFICES ASSUME Init PROVE ReceiptsInOrder
    BY DEF RInv
  <2>1. Positions = {} /\ cart = 0 /\ cached = NoReceipt /\ active = "no"
    BY EmptySeq DEF Init, Positions
  <2>2. NoReceipt.cart = 0
    BY DEF NoReceipt
  <2> QED
    BY <2>1, <2>2 DEF ReceiptsInOrder, RowsOrdered
<1>2. TypeOK /\ RInv => ReceiptsUnique
  <2> SUFFICES ASSUME TypeOK, ReceiptsInOrder, NEW i \in Positions, NEW j \in Positions,
                      saved[i].receipt # 0, saved[i].receipt = saved[j].receipt
               PROVE  saved[i].id = saved[j].id
    BY DEF RInv, ReceiptsUnique
  <2>1. i = j \/ i < j \/ j < i
    BY RowsTyped DEF Positions
  <2> QED
    BY <2>1 DEF ReceiptsInOrder, RowsOrdered
<1> QED
  BY <1>1, <1>2, InitType, TypeKept, ReceiptsKept, PTL DEF Spec

=============================================================================
