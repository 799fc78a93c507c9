------------------------ MODULE ShiftLifecycle_proofs ------------------------
(***************************************************************************)
(* What the shift tables keep for every number of terminals, employees,     *)
(* drawers and requests, with requests overlapping freely.                  *)
(***************************************************************************)
EXTENDS ShiftLifecycle, TLAPS

\* The request a terminal keeps when it has none is a well-formed one.
LEMMA IdleType == Idle \in Call
<1>1. \E k \in Key : TRUE
  <2>1. PICK t \in Terminals, i \in Ids : TRUE
    BY ConstantsAssumption
  <2>2. <<t, i>> \in Key
    BY DEF Key
  <2> QED
    BY <2>2
<1>4. (CHOOSE k \in Key : TRUE) \in Key
  BY <1>1, Zenon
<1>2. NoRow \in Row
  BY DEF NoRow, Row, Status
<1>3. NoUse \in Use
  BY DEF NoUse, Use
<1> QED
  BY <1>4, <1>2, <1>3 DEF Idle, Call, Stage

\* The view returns well-formed uses.
LEMMA UsesType ==
    ASSUME TypeOK, NEW k \in Key, NEW w \in UsesIn(k)
    PROVE  w \in Use
<1>1. NoUse \in Use
  BY DEF NoUse, Use
<1>2. \A v \in UsersOf(k) : [terminal |-> v.terminal, staff |-> v.staff] \in Use
  BY DEF TypeOK, UsersOf, Use
<1> QED
  BY <1>1, <1>2, Zenon DEF UsesIn, UsersOf

\* What each handler hands over to its procedure is well formed.
LEMMA BeginType ==
    ASSUME TypeOK, NEW t \in Terminals, NEW stage \in Stage, NEW proc \in {"upsert", "update"},
           NEW k \in Key, NEW row \in Row, NEW w \in Use, Begin(t, stage, proc, k, row, w),
           stage = "close" \/ row.status # "Open" \/ w \in [terminal : Terminals, staff : Staff],
           numbered' \subseteq Key
    PROVE  TypeOK'
<1>1. [stage |-> stage, proc |-> proc, key |-> k, row |-> row, use |-> w] \in Call
  BY DEF Call
<1>2. call' \in [Terminals -> Call]
  BY <1>1 DEF Begin, TypeOK
<1>3. begun' \in 0 .. MaxCalls
  BY ConstantsAssumption DEF Begin, TypeOK
<1>4. \A s \in Terminals : BringsUse(call'[s])
  BY DEF Begin, TypeOK, BringsUse
<1> QED
  BY <1>2, <1>3, <1>4 DEF Begin, TypeOK, tables

\* A status change leaves a well-formed row.
LEMMA ChangedType ==
    ASSUME NEW row \in Row, NEW to \in {"Closed", "BlindClosed", "Suspended"}
    PROVE  Changed(row, to) \in Row
  BY DEF Changed, Row, Status

LEMMA HandlerType ==
    ASSUME TypeOK, NEW t \in Terminals, Handler(t)
    PROVE  TypeOK'
<1> USE DEF Stage
<1>1. PICK u \in Staff, k \in Key :
        \/ \E d \in Drawers, shared \in BOOLEAN : CreateShift(t, u, k, d, shared)
        \/ \E to \in {"Closed", "BlindClosed", "Suspended"} : ChangeShiftStatus(t, u, k, to)
        \/ \E d \in Drawers : ResumeShift(t, u, k, d)
        \/ UseShift(t, u, k)
  BY Zenon DEF Handler
<1>2. staging[k] \in Row /\ numbered \subseteq Key
  BY DEF TypeOK
<1>3. /\ [terminal |-> t, staff |-> u] \in Use
      /\ [terminal |-> t, staff |-> u] \in [terminal : Terminals, staff : Staff]
  BY DEF Use
<1>4. ASSUME NEW d \in Drawers, NEW shared \in BOOLEAN, CreateShift(t, u, k, d, shared)
      PROVE  TypeOK'
  <2> DEFINE row == [owner |-> u, status |-> "Open", drawer |-> d, shared |-> shared, version |-> 0]
  <2>1. row \in Row
    BY DEF Row, Status
  <2>2. numbered' \subseteq Key
    BY <1>2, <1>4 DEF CreateShift
  <2>3. Begin(t, "upsert", "upsert", k, row, [terminal |-> t, staff |-> u])
    BY <1>4 DEF CreateShift
  <2> HIDE DEF row
  <2> QED
    BY <1>3, <2>1, <2>2, <2>3, BeginType
<1>5. ASSUME NEW to \in {"Closed", "BlindClosed", "Suspended"}, ChangeShiftStatus(t, u, k, to)
      PROVE  TypeOK'
  <2>1. PICK w \in UsesIn(k) :
            Begin(t, IF to = "Closed" THEN "close" ELSE "update", "update", k,
                  Changed(staging[k], to), w)
    BY <1>5 DEF ChangeShiftStatus
  <2>2. w \in Use
    BY UsesType
  <2>3. Changed(staging[k], to) \in Row
    BY <1>2, ChangedType
  <2>4. numbered' \subseteq Key
    BY <1>2, <1>5 DEF ChangeShiftStatus
  <2>5. (IF to = "Closed" THEN "close" ELSE "update") \in Stage
    OBVIOUS
  <2>6. to = "Closed" \/ Changed(staging[k], to).status # "Open"
    BY <1>2 DEF Changed, Row
  <2> QED
    BY <2>1, <2>2, <2>3, <2>4, <2>5, <2>6, BeginType
<1>6. ASSUME NEW d \in Drawers, ResumeShift(t, u, k, d)
      PROVE  TypeOK'
  <2> DEFINE row == [staging[k] EXCEPT !.status = "Open", !.drawer = d]
  <2>1. row \in Row
    BY <1>2 DEF Row, Status
  <2>2. numbered' \subseteq Key
    BY <1>2, <1>6 DEF ResumeShift
  <2>3. Begin(t, "checkDrawer", "update", k, row, [terminal |-> t, staff |-> u])
    BY <1>6 DEF ResumeShift
  <2> HIDE DEF row
  <2> QED
    BY <1>3, <2>1, <2>2, <2>3, BeginType
<1>7. CASE UseShift(t, u, k)
  <2>1. Begin(t, "update", "update", k, staging[k], [terminal |-> t, staff |-> u])
    BY <1>7 DEF UseShift
  <2>2. numbered' \subseteq Key
    BY <1>2, <1>7 DEF UseShift
  <2> QED
    BY <1>2, <1>3, <2>1, <2>2, BeginType
<1> QED
  BY <1>1, <1>4, <1>5, <1>6, <1>7

\* The row a procedure writes is well formed.
LEMMA WriteRowType ==
    ASSUME TypeOK, NEW t \in Terminals, WriteRow(t)
    PROVE  staging' \in [Key -> Row] /\ dbts' \in Nat
<1>1. call[t].row \in Row /\ call[t].key \in Key /\ dbts + 1 \in Nat
  BY DEF TypeOK, Call
<1>2. [call[t].row EXCEPT !.version = dbts + 1] \in Row
  BY <1>1 DEF Row
<1> QED
  BY <1>1, <1>2 DEF WriteRow, TypeOK

LEMMA ProcedureType ==
    ASSUME TypeOK, NEW t \in Terminals, Procedure(t)
    PROVE  TypeOK'
<1> USE DEF Stage
<1>1. call[t] \in Call /\ Idle \in Call /\ call \in [Terminals -> Call]
  BY IdleType DEF TypeOK
<1>0. BringsUse(Idle) /\ \A s \in Terminals : BringsUse(call[s])
  BY DEF TypeOK, BringsUse, Idle
<1> DEFINE CallType == call' \in [Terminals -> Call] /\ \A s \in Terminals : BringsUse(call'[s])
<1>2. \A s \in Stage : [call[t] EXCEPT !.stage = s] \in Call
  BY <1>1 DEF Call
<1>3. ASSUME NEW s \in Stage, call' = [call EXCEPT ![t] = [@ EXCEPT !.stage = s]],
             call[t].stage \in {"checkDrawer", "upsert", "update", "users"}
      PROVE  CallType
  <2>1. call' \in [Terminals -> Call]
    BY <1>1, <1>2, <1>3
  <2>2. BringsUse(call'[t])
    BY <1>0, <1>1, <1>3 DEF BringsUse, Call
  <2>3. \A r \in Terminals \ {t} : call'[r] = call[r]
    BY <1>1, <1>3
  <2> QED
    BY <1>0, <2>1, <2>2, <2>3
<1>4. ASSUME call' = [call EXCEPT ![t] = Idle]
      PROVE  CallType
  BY <1>0, <1>1, <1>4
<1>5. CASE CheckDrawer(t)
  <2>1. CASE call' = [call EXCEPT ![t] = Idle]
    BY <1>4, <1>5, <2>1 DEF CheckDrawer, TypeOK, tables, bounds
  <2>2. CASE call' = [call EXCEPT ![t] = [@ EXCEPT !.stage = "update"]]
    <3>1. CallType
      BY <1>3, <1>5, <2>2 DEF CheckDrawer
    <3> QED
      BY <3>1, <1>5 DEF CheckDrawer, TypeOK, tables, bounds
  <2> QED
    BY <1>5, <2>1, <2>2 DEF CheckDrawer
<1>6. CASE UpsertStaging(t)
  <2>1. CallType
    BY <1>3, <1>6 DEF UpsertStaging
  <2> QED
    BY <2>1, <1>6, WriteRowType DEF UpsertStaging, TypeOK, bounds
<1>7. CASE UpdateStaging(t)
  <2>1. CallType
    BY <1>3, <1>7 DEF UpdateStaging
  <2>2. staging' \in [Key -> Row] /\ dbts' \in Nat
    BY <1>7, WriteRowType DEF UpdateStaging, TypeOK
  <2> QED
    BY <2>1, <2>2, <1>7 DEF UpdateStaging, TypeOK, bounds
<1>8. CASE UpsertUsers(t)
  <2>1. call[t].key \in Key
    BY <1>1 DEF Call
  <2>2. call[t].row.status = "Open" => call[t].use \in [terminal : Terminals, staff : Staff]
    BY <1>0, <1>8 DEF UpsertUsers, BringsUse
  <2>3. users' \subseteq [key : Key, terminal : Terminals, staff : Staff]
    BY <1>8, <2>1, <2>2 DEF UpsertUsers, UsersOf, TypeOK
  <2> QED
    BY <1>4, <1>8, <2>3 DEF UpsertUsers, TypeOK, bounds
<1>9. CASE CloseStaging(t)
  <2>1. NoRow \in Row
    BY DEF NoRow, Row, Status
  <2>2. call[t].key \in Key
    BY <1>1 DEF Call
  <2> QED
    BY <1>4, <1>9, <2>1, <2>2 DEF CloseStaging, UsersOf, TypeOK, tables, bounds
<1>10. CASE AmountsMissing(t)
  BY <1>4, <1>10 DEF AmountsMissing, TypeOK, tables, bounds
<1>11. CASE Retry(t)
  <2>1. call[t].proc \in Stage
    BY <1>1 DEF Call
  <2>2. CallType
    BY <1>3, <1>11, <2>1 DEF Retry
  <2>3. faults' \in Nat
    BY <1>11 DEF Retry, TypeOK
  <2> QED
    BY <1>11, <2>2, <2>3 DEF Retry, TypeOK, tables
<1> QED
  BY <1>5, <1>6, <1>7, <1>8, <1>9, <1>10, <1>11 DEF Procedure

LEMMA InitType == Init => TypeOK
<1> SUFFICES ASSUME Init PROVE TypeOK
  OBVIOUS
<1>1. staging \in [Key -> Row] /\ dbts \in Nat
  BY DEF Init, NoRow, Row, Status
<1>2. call \in [Terminals -> Call] /\ \A t \in Terminals : BringsUse(call[t])
  <2>1. BringsUse(Idle)
    BY DEF Idle, BringsUse
  <2> QED
    BY <2>1, IdleType DEF Init
<1>3. begun \in 0 .. MaxCalls /\ faults \in Nat /\ concurrent \in BOOLEAN
  BY ConstantsAssumption DEF Init
<1> QED
  BY <1>1, <1>2, <1>3 DEF Init, TypeOK

LEMMA TypeKept == TypeOK /\ [Next]_vars => TypeOK'
<1> SUFFICES ASSUME TypeOK, [Next]_vars
             PROVE  TypeOK'
  OBVIOUS
<1>1. CASE UNCHANGED vars
  BY <1>1 DEF vars, tables, bounds, TypeOK
<1>2. CASE Next
  BY <1>2, HandlerType, ProcedureType DEF Next
<1> QED
  BY <1>1, <1>2

\* Rows, uses, requests and bounds keep their types, whatever overlaps or fails.
THEOREM TypeCorrect == Spec => []TypeOK
BY InitType, TypeKept, PTL DEF Spec

-----------------------------------------------------------------------------
(* The version column: what a handler decided on a row it read still holds   *)
(* when the row it finds carries the same version, because every write takes *)
(* a version greater than all that were ever read.                           *)

Versions ==
    /\ \A k \in Key : staging[k].version <= dbts
    /\ \A t \in Terminals : call[t].row.version <= dbts

\* Every shift there ever was has taken its number.
Numbered == \A k \in Key : staging[k].status # "None" \/ k \in closed => k \in numbered

Writes(q)  == q.stage \in {"checkDrawer", "upsert", "update"}
Agrees(r)  == r.drawer = NoDrawer <=> r.status = "Suspended"

\* A row about to be written is a shift whose drawer agrees with its status.
Pending == \A t \in Terminals :
    Writes(call[t]) => call[t].row.status # "None" /\ Agrees(call[t].row)

\* A shift about to be inserted is new.
Fresh == \A t \in Terminals : call[t].stage = "upsert" =>
    /\ call[t].key[1] = t /\ call[t].key \in numbered /\ call[t].key \notin closed
    /\ staging[call[t].key].status = "None" /\ call[t].row.status = "Open"

Allowed(from, to) == from = to \/ <<from, to>> \in Moves

Closable(from) == <<from, "Closed">> \in Transitions

\* A row read at the version still in the table moves along an allowed transition.
ReadCurrent == \A t \in Terminals :
    (/\ staging[call[t].key].status # "None"
     /\ staging[call[t].key].version = call[t].row.version)
    => /\ call[t].stage \in {"checkDrawer", "update"} =>
              Allowed(staging[call[t].key].status, call[t].row.status)
       /\ call[t].stage = "close" => Closable(staging[call[t].key].status)

VInv == TypeOK /\ Versions /\ Numbered /\ Pending /\ Fresh /\ ReadCurrent
            /\ NoneReturned /\ DrawersFollow

LEMMA InitVersions == Init => VInv
<1> SUFFICES ASSUME Init PROVE VInv
  OBVIOUS
<1>1. \A k \in Key : staging[k].status = "None" /\ staging[k].version = 0
  BY DEF Init, NoRow
<1>2. \A t \in Terminals : call[t].stage = "idle" /\ call[t].row.version = 0
  BY DEF Init, Idle, NoRow
<1>3. dbts = 0 /\ closed = {}
  BY DEF Init
<1>4. Versions
  <2>1. 0 <= 0
    OBVIOUS
  <2> QED
    BY <1>1, <1>2, <1>3, <2>1 DEF Versions
<1>5. TypeOK
  BY InitType
<1>6. Pending /\ Fresh /\ ReadCurrent
  BY <1>2 DEF Pending, Fresh, ReadCurrent, Writes
<1>7. Numbered /\ NoneReturned /\ DrawersFollow
  BY <1>1, <1>3 DEF Numbered, NoneReturned, DrawersFollow
<1> QED
  BY <1>4, <1>5, <1>6, <1>7 DEF VInv

\* A handler that hands over an allowed change keeps the invariant.
LEMMA BeginVersions ==
    ASSUME VInv, TypeOK', NEW t \in Terminals, NEW stage \in Stage, NEW proc, NEW k \in Key,
           NEW row \in Row, NEW w, Begin(t, stage, proc, k, row, w),
           numbered \subseteq numbered',
           row.version <= dbts,
           stage \in {"checkDrawer", "upsert", "update"} => row.status # "None" /\ Agrees(row),
           stage = "upsert" =>
                /\ k[1] = t /\ k \in numbered' /\ k \notin closed
                /\ staging[k].status = "None" /\ row.status = "Open",
           stage \in {"checkDrawer", "update"} => Allowed(staging[k].status, row.status),
           stage = "close" => Closable(staging[k].status)
    PROVE  VInv'
<1> DEFINE q == [stage |-> stage, proc |-> proc, key |-> k, row |-> row, use |-> w]
<1>1. call' = [call EXCEPT ![t] = q] /\ UNCHANGED tables
  BY DEF Begin
<1>2. call'[t] = q /\ \A s \in Terminals \ {t} : call'[s] = call[s]
  BY <1>1 DEF VInv, TypeOK
<1>3. UNCHANGED <<staging, closed, dbts>>
  BY <1>1 DEF tables
<1>4. q.stage = stage /\ q.key = k /\ q.row = row
  OBVIOUS
<1> HIDE DEF q
<1>5. Versions'
  BY <1>2, <1>3, <1>4 DEF VInv, Versions
<1>6. Numbered' /\ NoneReturned' /\ DrawersFollow'
  BY <1>3 DEF VInv, Numbered, NoneReturned, DrawersFollow
<1>7. Pending'
  BY <1>2, <1>4 DEF VInv, Pending, Writes
<1>8. Fresh'
  BY <1>2, <1>3, <1>4 DEF VInv, Fresh
<1>9. ReadCurrent'
  BY <1>2, <1>3, <1>4 DEF VInv, ReadCurrent
<1> QED
  BY <1>5, <1>6, <1>7, <1>8, <1>9 DEF VInv

LEMMA HandlerVersions ==
    ASSUME VInv, NEW t \in Terminals, Handler(t)
    PROVE  VInv'
<1> USE DEF Stage
<1>0. TypeOK /\ TypeOK'
  BY HandlerType DEF VInv
<1>1. PICK u \in Staff, k \in Key :
        \/ \E d \in Drawers, shared \in BOOLEAN : CreateShift(t, u, k, d, shared)
        \/ \E to \in {"Closed", "BlindClosed", "Suspended"} : ChangeShiftStatus(t, u, k, to)
        \/ \E d \in Drawers : ResumeShift(t, u, k, d)
        \/ UseShift(t, u, k)
  BY Zenon DEF Handler
<1>2. staging[k] \in Row /\ staging[k].version <= dbts /\ dbts \in Nat
  BY <1>0 DEF TypeOK, VInv, Versions
<1>3. staging[k].status # "None" => Agrees(staging[k])
  BY DEF VInv, DrawersFollow, Agrees
<1>4. ASSUME NEW d \in Drawers, NEW shared \in BOOLEAN, CreateShift(t, u, k, d, shared)
      PROVE  VInv'
  <2> DEFINE row == [owner |-> u, status |-> "Open", drawer |-> d, shared |-> shared, version |-> 0]
  <2>1. row \in Row /\ row.status = "Open" /\ row.version <= dbts /\ Agrees(row)
    BY <1>2, ConstantsAssumption DEF Row, Status, Agrees
  <2>2. k[1] = t /\ k \notin numbered /\ numbered' = numbered \cup {k}
    BY <1>4 DEF CreateShift
  <2>3. k \notin closed /\ staging[k].status = "None"
    BY <2>2 DEF VInv, Numbered
  <2>4. Begin(t, "upsert", "upsert", k, row, [terminal |-> t, staff |-> u])
    BY <1>4 DEF CreateShift
  <2> HIDE DEF row
  <2> QED
    BY <1>0, <2>1, <2>2, <2>3, <2>4, BeginVersions
<1>5. ASSUME NEW to \in {"Closed", "BlindClosed", "Suspended"}, ChangeShiftStatus(t, u, k, to)
      PROVE  VInv'
  <2> DEFINE row == Changed(staging[k], to)
  <2> DEFINE stage == IF to = "Closed" THEN "close" ELSE "update"
  <2>1. PICK w \in UsesIn(k) : Begin(t, stage, "update", k, row, w)
    BY <1>5 DEF ChangeShiftStatus
  <2>2. <<staging[k].status, to>> \in Transitions /\ numbered' = numbered
    BY <1>5 DEF ChangeShiftStatus
  <2>3. row \in Row /\ row.version = staging[k].version
    BY <1>2, ChangedType DEF Changed, Row
  <2>4. stage \in {"checkDrawer", "upsert", "update"} =>
            row.status = to /\ to \in {"BlindClosed", "Suspended"} /\ Agrees(row)
    BY <1>2, <1>3, <2>2 DEF Changed, Agrees, Row, Transitions
  <2>5. to \in {"BlindClosed", "Suspended"} => Allowed(staging[k].status, to)
    BY <2>2 DEF Allowed, Moves, Transitions
  <2>6. stage \in Stage /\ stage # "upsert"
    OBVIOUS
  <2>7. stage = "close" => Closable(staging[k].status)
    BY <2>2 DEF Closable
  <2> HIDE DEF row, stage
  <2> QED
    BY <1>0, <1>2, <2>1, <2>2, <2>3, <2>4, <2>5, <2>6, <2>7, BeginVersions
<1>6. ASSUME NEW d \in Drawers, ResumeShift(t, u, k, d)
      PROVE  VInv'
  <2> DEFINE row == [staging[k] EXCEPT !.status = "Open", !.drawer = d]
  <2>1. row \in Row /\ row.status = "Open" /\ row.version = staging[k].version /\ Agrees(row)
    BY <1>2, ConstantsAssumption DEF Row, Status, Agrees
  <2>2. staging[k].status = "Suspended" /\ numbered' = numbered
    BY <1>6 DEF ResumeShift
  <2>3. Begin(t, "checkDrawer", "update", k, row, [terminal |-> t, staff |-> u])
    BY <1>6 DEF ResumeShift
  <2>4. Allowed(staging[k].status, "Open")
    BY <2>2 DEF Allowed, Moves
  <2> HIDE DEF row
  <2> QED
    BY <1>0, <1>2, <2>1, <2>2, <2>3, <2>4, BeginVersions
<1>7. CASE UseShift(t, u, k)
  <2>1. Begin(t, "update", "update", k, staging[k], [terminal |-> t, staff |-> u])
    BY <1>7 DEF UseShift
  <2>2. staging[k].status = "Open" /\ numbered' = numbered
    BY <1>7 DEF UseShift, CanUse
  <2>3. Allowed(staging[k].status, staging[k].status)
    BY DEF Allowed
  <2> QED
    BY <1>0, <1>2, <1>3, <2>1, <2>2, <2>3, BeginVersions
<1> QED
  BY <1>1, <1>4, <1>5, <1>6, <1>7

\* A request that ends leaves nothing behind.
LEMMA EndVersions ==
    ASSUME VInv, TypeOK', NEW t \in Terminals, call' = [call EXCEPT ![t] = Idle],
           UNCHANGED <<staging, closed, dbts, numbered>>
    PROVE  VInv'
<1>1. call'[t].stage = "idle" /\ call'[t].row.version = 0
  BY DEF VInv, TypeOK, Idle, NoRow
<1>2. \A s \in Terminals \ {t} : call'[s] = call[s]
  BY DEF VInv, TypeOK
<1>3. dbts \in Nat
  BY DEF VInv, TypeOK
<1>4. Versions'
  BY <1>1, <1>2, <1>3 DEF VInv, Versions
<1>5. Numbered' /\ NoneReturned' /\ DrawersFollow'
  BY DEF VInv, Numbered, NoneReturned, DrawersFollow
<1>6. Pending' /\ Fresh' /\ ReadCurrent'
  BY <1>1, <1>2 DEF VInv, Pending, Fresh, ReadCurrent, Writes
<1> QED
  BY <1>4, <1>5, <1>6 DEF VInv

\* So does one that goes on to the users table.
LEMMA ToUsersVersions ==
    ASSUME VInv, TypeOK', NEW t \in Terminals, NEW stage \in {"users", "update"},
           call' = [call EXCEPT ![t] = [@ EXCEPT !.stage = stage]],
           stage = "update" => call[t].stage = "checkDrawer",
           UNCHANGED <<staging, closed, dbts, numbered>>
    PROVE  VInv'
<1>1. /\ call'[t].stage = stage
      /\ call'[t].row = call[t].row
      /\ call'[t].key = call[t].key
  BY DEF VInv, TypeOK, Call
<1>2. \A s \in Terminals \ {t} : call'[s] = call[s]
  BY DEF VInv, TypeOK
<1>4. Versions'
  BY <1>1, <1>2 DEF VInv, Versions
<1>5. Numbered' /\ NoneReturned' /\ DrawersFollow'
  BY DEF VInv, Numbered, NoneReturned, DrawersFollow
<1>6. Pending' /\ Fresh' /\ ReadCurrent'
  BY <1>1, <1>2 DEF VInv, Pending, Fresh, ReadCurrent, Writes
<1> QED
  BY <1>4, <1>5, <1>6 DEF VInv

\* A row written at a new version is none that any other request has read.
LEMMA WriteVersions ==
    ASSUME VInv, TypeOK', NEW t \in Terminals, call[t].stage \in {"upsert", "update"},
           WriteRow(t), call' = [call EXCEPT ![t].stage = "users"],
           UNCHANGED <<closed, numbered>>,
           call[t].key \in numbered, call[t].key \notin closed,
           \A s \in Terminals \ {t} : call[s].stage = "upsert" => call[s].key # call[t].key
    PROVE  VInv'
<1> DEFINE k == call[t].key
<1> DEFINE row == [call[t].row EXCEPT !.version = dbts + 1]
<1>1. /\ call'[t].stage = "users"
      /\ call'[t].row = call[t].row
  BY DEF VInv, TypeOK, Call
<1>2. \A s \in Terminals \ {t} : call'[s] = call[s]
  BY DEF VInv, TypeOK
<1>3. k \in Key /\ call[t].row \in Row /\ dbts \in Nat /\ dbts' = dbts + 1
  BY DEF VInv, TypeOK, Call, WriteRow
<1>4. row.version = dbts + 1 /\ row.status = call[t].row.status /\ row.drawer = call[t].row.drawer
  BY <1>3 DEF Row
<1>5. staging'[k] = row /\ \A j \in Key \ {k} : staging'[j] = staging[j]
  BY <1>3 DEF VInv, TypeOK, WriteRow
<1>6. row.status # "None" /\ Agrees(row)
  BY <1>4 DEF VInv, Pending, Writes, Agrees
<1>7. /\ \A j \in Key : staging[j].version \in Nat /\ staging[j].version <= dbts
      /\ \A s \in Terminals : call[s].row.version \in Nat /\ call[s].row.version <= dbts
                                /\ call[s].key \in Key
  BY DEF VInv, TypeOK, Versions, Row, Call
<1> HIDE DEF row, k
<1>8. Versions'
  BY <1>1, <1>2, <1>3, <1>4, <1>5, <1>7 DEF Versions
<1>9. Numbered' /\ NoneReturned' /\ DrawersFollow'
  <2>1. k \in numbered /\ k \notin closed
    BY DEF k
  <2> QED
    BY <1>5, <1>6, <2>1 DEF VInv, Numbered, NoneReturned, DrawersFollow, Agrees, TypeOK
<1>10. Pending'
  BY <1>1, <1>2 DEF VInv, Pending, Writes
<1>11. Fresh'
  <2> SUFFICES ASSUME NEW s \in Terminals \ {t}, call[s].stage = "upsert"
               PROVE  /\ call[s].key[1] = s /\ call[s].key \in numbered /\ call[s].key \notin closed
                      /\ staging'[call[s].key].status = "None" /\ call[s].row.status = "Open"
    BY <1>1, <1>2 DEF Fresh
  <2>1. call[s].key # k
    BY DEF k
  <2> QED
    BY <1>5, <1>7, <2>1 DEF VInv, Fresh
<1>12. ReadCurrent'
  <2> SUFFICES ASSUME NEW s \in Terminals \ {t},
                      staging'[call[s].key].status # "None",
                      staging'[call[s].key].version = call[s].row.version
               PROVE  /\ call[s].stage \in {"checkDrawer", "update"} =>
                             Allowed(staging'[call[s].key].status, call[s].row.status)
                      /\ call[s].stage = "close" => Closable(staging'[call[s].key].status)
    BY <1>1, <1>2 DEF ReadCurrent
  <2>1. call[s].key # k
    BY <1>3, <1>4, <1>5, <1>7
  <2>2. staging'[call[s].key] = staging[call[s].key]
    BY <1>5, <1>7, <2>1
  <2> QED
    BY <2>2 DEF VInv, ReadCurrent
<1> QED
  BY <1>8, <1>9, <1>10, <1>11, <1>12 DEF VInv

StatusStep == \A k \in Key : staging'[k].status # staging[k].status =>
    \/ <<staging[k].status, staging'[k].status>> \in Moves
    \/ staging'[k].status = "None" /\ LeavesClosed(k)

\* A row written along an allowed transition is a step of the life cycle.
LEMMA WriteMoves ==
    ASSUME VInv, NEW t \in Terminals, WriteRow(t),
           Allowed(staging[call[t].key].status, call[t].row.status)
    PROVE  StatusStep
<1>1. call[t].key \in Key /\ call[t].row \in Row
  BY DEF VInv, TypeOK, Call
<1>2. staging'[call[t].key].status = call[t].row.status
  BY <1>1 DEF WriteRow, VInv, TypeOK, Row
<1>3. \A j \in Key \ {call[t].key} : staging'[j] = staging[j]
  BY <1>1 DEF WriteRow, VInv, TypeOK
<1> QED
  BY <1>2, <1>3 DEF StatusStep, Allowed

\* A statement of a procedure keeps the invariant and follows the life cycle, as
\* long as no transient error repeats the first statement.
LEMMA ProcedureVersions ==
    ASSUME VInv, faults' = 0, NEW t \in Terminals, Procedure(t)
    PROVE  VInv' /\ StatusStep
<1>0. TypeOK /\ TypeOK'
  BY ProcedureType DEF VInv
<1>s. staging' = staging => StatusStep
  BY DEF StatusStep
<1>1. CASE CheckDrawer(t)
  <2>1. UNCHANGED <<staging, closed, dbts, numbered>> /\ call[t].stage = "checkDrawer"
    BY <1>1 DEF CheckDrawer, tables, bounds
  <2>2. CASE call' = [call EXCEPT ![t] = Idle]
    BY <1>0, <1>s, <2>1, <2>2, EndVersions
  <2>3. CASE call' = [call EXCEPT ![t] = [@ EXCEPT !.stage = "update"]]
    BY <1>0, <1>s, <2>1, <2>3, ToUsersVersions
  <2> QED
    BY <1>1, <2>2, <2>3 DEF CheckDrawer
<1>2. CASE UpsertStaging(t)
  <2>1. call[t].stage = "upsert" /\ WriteRow(t) /\ call' = [call EXCEPT ![t].stage = "users"]
        /\ UNCHANGED <<closed, numbered>>
    BY <1>2 DEF UpsertStaging, bounds
  <2>2. /\ call[t].key[1] = t /\ call[t].key \in numbered /\ call[t].key \notin closed
        /\ staging[call[t].key].status = "None" /\ call[t].row.status = "Open"
    BY <2>1 DEF VInv, Fresh
  <2>3. \A s \in Terminals \ {t} : call[s].stage = "upsert" => call[s].key # call[t].key
    BY <2>2 DEF VInv, Fresh
  <2>4. VInv'
    BY <1>0, <2>1, <2>2, <2>3, WriteVersions
  <2>5. Allowed(staging[call[t].key].status, call[t].row.status)
    BY <2>2 DEF Allowed, Moves
  <2> QED
    BY <2>1, <2>4, <2>5, WriteMoves
<1>3. CASE UpdateStaging(t)
  <2>1. call[t].stage = "update" /\ call' = [call EXCEPT ![t].stage = "users"]
        /\ UNCHANGED <<closed, numbered>>
    BY <1>3 DEF UpdateStaging, bounds
  <2>2. CASE AtVersionRead(t)
    <3>1. WriteRow(t)
      BY <1>3, <2>2 DEF UpdateStaging
    <3>2. staging[call[t].key].status # "None" /\ call[t].key \in Key
      BY <2>2 DEF AtVersionRead, VInv, TypeOK, Call
    <3>3. call[t].key \in numbered /\ call[t].key \notin closed
      BY <3>2 DEF VInv, Numbered, NoneReturned
    <3>4. \A s \in Terminals \ {t} : call[s].stage = "upsert" => call[s].key # call[t].key
      BY <3>2 DEF VInv, Fresh
    <3>5. Allowed(staging[call[t].key].status, call[t].row.status)
      BY <2>1, <2>2 DEF VInv, ReadCurrent, AtVersionRead
    <3>6. VInv'
      BY <1>0, <2>1, <3>1, <3>3, <3>4, WriteVersions
    <3> QED
      BY <3>1, <3>5, <3>6, WriteMoves
  <2>3. CASE ~AtVersionRead(t)
    <3>1. UNCHANGED <<staging, dbts>>
      BY <1>3, <2>3 DEF UpdateStaging
    <3> QED
      BY <1>0, <1>s, <2>1, <3>1, ToUsersVersions
  <2> QED
    BY <2>2, <2>3
<1>4. CASE UpsertUsers(t)
  BY <1>0, <1>s, <1>4, EndVersions DEF UpsertUsers, bounds
<1>5. CASE CloseStaging(t)
  <2> DEFINE k == call[t].key
  <2>1. call' = [call EXCEPT ![t] = Idle] /\ UNCHANGED numbered
    BY <1>5 DEF CloseStaging, bounds
  <2>2. CASE staging[k].status = "None" \/ k \in closed
    BY <1>0, <1>5, <1>s, <2>1, <2>2, EndVersions DEF CloseStaging, tables
  <2>3. CASE ~(staging[k].status = "None" \/ k \in closed)
    <3>1. staging' = [staging EXCEPT ![k] = NoRow] /\ closed' = closed \cup {k} /\ dbts' = dbts
      BY <1>5, <2>3 DEF CloseStaging
    <3>2. k \in Key
      BY DEF VInv, TypeOK, Call
    <3>3. /\ staging'[k].status = "None" /\ staging'[k].version = 0
          /\ \A j \in Key \ {k} : staging'[j] = staging[j]
      BY <3>1, <3>2 DEF VInv, TypeOK, NoRow
    <3>4. call'[t].stage = "idle" /\ call'[t].row.version = 0
      BY <2>1 DEF VInv, TypeOK, Idle, NoRow
    <3>5. \A s \in Terminals \ {t} : call'[s] = call[s]
      BY <2>1 DEF VInv, TypeOK
    <3>6. dbts \in Nat /\ \A s \in Terminals : call[s].key \in Key
      BY DEF VInv, TypeOK, Call
    <3>7. k \in numbered
      BY <2>3, <3>2 DEF VInv, Numbered
    <3>8. \A s \in Terminals : call[s].stage = "upsert" => call[s].key # k
      BY <2>3 DEF VInv, Fresh
    <3> HIDE DEF k
    <3>9. Versions'
      BY <3>1, <3>3, <3>4, <3>5, <3>6 DEF VInv, Versions
    <3>10. Numbered' /\ NoneReturned' /\ DrawersFollow'
      BY <2>1, <3>1, <3>3, <3>7 DEF VInv, Numbered, NoneReturned, DrawersFollow
    <3>11. Pending'
      BY <3>4, <3>5 DEF VInv, Pending, Writes
    <3>12. Fresh'
      BY <2>1, <3>1, <3>3, <3>4, <3>5, <3>6, <3>8 DEF VInv, Fresh
    <3>13. ReadCurrent'
      BY <3>3, <3>4, <3>5, <3>6 DEF VInv, ReadCurrent
    <3>14. LeavesClosed(k)
      <4>1. call[t].stage = "close" /\ k \in closed'
        BY <1>5, <3>1 DEF CloseStaging
      <4>2. call[t].key = k
        BY DEF k
      <4>3. AtVersionRead(t) => <<staging[k].status, "Closed">> \in Transitions
        BY <4>1, <4>2 DEF VInv, ReadCurrent, AtVersionRead, Closable
      <4> QED
        BY <3>4, <4>1, <4>2, <4>3 DEF LeavesClosed
    <3>15. StatusStep
      BY <3>2, <3>3, <3>14 DEF StatusStep
    <3> QED
      BY <1>0, <3>9, <3>10, <3>11, <3>12, <3>13, <3>15 DEF VInv
  <2> QED
    BY <2>2, <2>3
<1>6. CASE AmountsMissing(t)
  BY <1>0, <1>s, <1>6, EndVersions DEF AmountsMissing, tables, bounds
<1>7. CASE Retry(t)
  <2>1. FALSE
    BY <1>0, <1>7 DEF Retry, TypeOK
  <2> QED
    BY <2>1
<1> QED
  BY <1>1, <1>2, <1>3, <1>4, <1>5, <1>6, <1>7 DEF Procedure

LEMMA StepVersions ==
    VInv /\ [Next]_vars /\ faults' = 0 => VInv' /\ StatusStep
<1> SUFFICES ASSUME VInv, [Next]_vars, faults' = 0
             PROVE  VInv' /\ StatusStep
  OBVIOUS
<1>1. CASE UNCHANGED vars
  BY <1>1 DEF vars, tables, bounds, VInv, TypeOK, Versions, Numbered, Pending, Fresh,
              ReadCurrent, NoneReturned, DrawersFollow, StatusStep
<1>2. ASSUME NEW t \in Terminals, Handler(t)
      PROVE  VInv' /\ StatusStep
  <2>1. staging' = staging
    <3>1. \A stage, proc, k, row, w : Begin(t, stage, proc, k, row, w) => staging' = staging
      BY DEF Begin, tables
    <3> QED
      BY <1>2, <3>1, Zenon DEF Handler, CreateShift, ChangeShiftStatus, ResumeShift, UseShift
  <2> QED
    BY <1>2, <2>1, HandlerVersions DEF StatusStep
<1>3. ASSUME NEW t \in Terminals, Procedure(t)
      PROVE  VInv' /\ StatusStep
  BY <1>3, ProcedureVersions
<1> QED
  BY <1>1, <1>2, <1>3 DEF Next

\* What holds until a procedure is retried.
WInv == TypeOK /\ (faults = 0 => VInv)

LEMMA WInitially == Init => WInv
BY InitVersions, InitType DEF WInv

\* The faults are counted and never forgotten.
LEMMA FaultsStay ==
    ASSUME TypeOK, [Next]_vars, faults' = 0
    PROVE  faults = 0
<1>1. CASE UNCHANGED vars
  BY <1>1 DEF vars, bounds
<1>2. ASSUME NEW t \in Terminals, Handler(t)
      PROVE  faults' = faults
  <2>1. \A stage, proc, k, row, w : Begin(t, stage, proc, k, row, w) => faults' = faults
    BY DEF Begin
  <2> QED
    BY <1>2, <2>1, Zenon DEF Handler, CreateShift, ChangeShiftStatus, ResumeShift, UseShift
<1>3. ASSUME NEW t \in Terminals, Procedure(t)
      PROVE  faults = 0
  <2>1. CASE Retry(t)
    BY <2>1 DEF Retry, TypeOK
  <2>2. CASE ~Retry(t)
    <3>1. faults' = faults
      BY <1>3, <2>2 DEF Procedure, CheckDrawer, UpsertStaging, UpdateStaging, UpsertUsers,
                        CloseStaging, AmountsMissing, bounds
    <3> QED
      BY <3>1
  <2> QED
    BY <2>1, <2>2
<1> QED
  BY <1>1, <1>2, <1>3 DEF Next

LEMMA WKept == WInv /\ [Next]_vars => WInv' /\ (faults' = 0 => StatusStep)
<1> SUFFICES ASSUME WInv, [Next]_vars
             PROVE  WInv' /\ (faults' = 0 => StatusStep)
  OBVIOUS
<1>1. TypeOK'
  BY TypeKept DEF WInv
<1>2. ASSUME faults' = 0 PROVE VInv' /\ StatusStep
  BY <1>2, FaultsStay, StepVersions DEF WInv
<1> QED
  BY <1>1, <1>2 DEF WInv

LEMMA WAlways == Spec => []WInv /\ [][faults' = 0 => StatusStep]_vars
BY WInitially, WKept, PTL DEF Spec

\* However many requests overlap, a closed shift is never in the staging table again
\* until a procedure is retried: no request that read it before it was closed brings
\* it back.
THEOREM ClosedStaysClosed == Spec => []ClosedForGood
<1>1. WInv => ClosedForGood
  BY DEF WInv, VInv, ClosedForGood
<1> QED
  BY <1>1, WAlways, PTL

\* However many requests overlap, until a procedure is retried a shift's status is updated
\* along the life cycle, since the row version stands between what a handler decided and
\* what others did meanwhile; and a close, which no version guards, takes the shift out from
\* a status it may be closed in unless the shift has changed since the close read it.
THEOREM StatusFollowsLifeCycle == Spec => StatusMoves
BY WAlways, Zenon DEF StatusMoves, StatusStep

\* A suspended shift holds no drawer and every other shift in the table holds one,
\* until a procedure is retried.
THEOREM SuspendedReleasesDrawer == Spec => []DrawerReleased
<1>1. WInv => DrawerReleased
  BY DEF WInv, VInv, DrawerReleased
<1> QED
  BY <1>1, WAlways, PTL

-----------------------------------------------------------------------------
(* Requests one at a time.  A procedure writes two tables in two statements,  *)
(* and a retry begins again at the first, so between them the tables disagree *)
(* about the shift of that request and about no other.                        *)

TablesAgree(k) == staging[k].status = "Open" <=> UsersOf(k) # {}

\* The row is in the table, but for its version.
Written(k, row) ==
    /\ staging[k].status = row.status
    /\ staging[k].drawer = row.drawer
    /\ staging[k].shared = row.shared

\* DrawerExclusive, of two shifts.
Apart(j, k) ==
    (/\ staging[j].status = "Open" /\ staging[k].status = "Open"
     /\ staging[j].drawer = staging[k].drawer)
    => /\ ~(staging[j].shared /\ staging[k].shared)
       /\ ~staging[j].shared /\ ~staging[k].shared =>
              \A v \in UsersOf(j), w \in UsersOf(k) : v.terminal # w.terminal

\* A shift opened with this row and used on this terminal shares its drawer with no other.
NoClash(k, row, terminal) ==
    \A j \in Key \ {k} :
        (staging[j].status = "Open" /\ staging[j].drawer = row.drawer)
        => /\ ~(staging[j].shared /\ row.shared)
           /\ ~staging[j].shared /\ ~row.shared =>
                  \A v \in UsersOf(j) : v.terminal # terminal

\* What the request in progress has established before its next statement.
Ready(t) ==
    LET q == call[t] IN
    /\ q.stage \in {"checkDrawer", "close"} => TablesAgree(q.key)
    /\ q.stage = "checkDrawer" =>
            /\ AtVersionRead(t) /\ UsersOf(q.key) = {}
            /\ q.row.status = "Open" /\ q.use.terminal = t
    /\ q.stage = "update" => AtVersionRead(t) \/ Written(q.key, q.row)
    /\ q.stage = "users" => Written(q.key, q.row)
    /\ q.stage = "upsert" \/ q.proc = "upsert" => q.key \in numbered
    /\ q.stage # "close" /\ q.row.status # "Open" => q.use # NoUse
    /\ q.stage \in {"upsert", "update", "users"} /\ q.row.status = "Open" =>
            /\ NoClash(q.key, q.row, q.use.terminal)
            /\ UsersOf(q.key) = {} \/ Written(q.key, q.row)

OneRequest ==
    \A s, t \in Terminals : call[s].stage # "idle" /\ call[t].stage # "idle" => s = t

RowsNumbered  == \A k \in Key : staging[k].status # "None" => k \in numbered
AllApart      == \A j, k \in Key : j # k => Apart(j, k)
OthersAgree   ==
    \A k \in Key : TablesAgree(k) \/ \E t \in Terminals : call[t].stage # "idle" /\ call[t].key = k
RequestReady  == \A t \in Terminals : call[t].stage # "idle" => Ready(t)

SerialInv ==
    ~concurrent => OneRequest /\ RowsNumbered /\ AllApart /\ OthersAgree /\ RequestReady

\* The view shows every use of a shift, and something for a shift without one.
LEMMA UsesShown ==
    ASSUME NEW k \in Key
    PROVE  /\ UsesIn(k) # {}
           /\ \A v \in UsersOf(k) : [terminal |-> v.terminal, staff |-> v.staff] \in UsesIn(k)
           /\ \A w \in UsesIn(k) :
                \/ w = NoUse /\ UsersOf(k) = {}
                \/ \E v \in UsersOf(k) : w = [terminal |-> v.terminal, staff |-> v.staff]
<1> DEFINE rows == {[terminal |-> u.terminal, staff |-> u.staff] : u \in UsersOf(k)}
<1>1. UsesIn(k) = IF rows = {} THEN {NoUse} ELSE rows
  BY Zenon DEF UsesIn, UsersOf
<1>2. \A v \in UsersOf(k) : [terminal |-> v.terminal, staff |-> v.staff] \in rows
  OBVIOUS
<1>3. \A w \in rows : \E v \in UsersOf(k) : w = [terminal |-> v.terminal, staff |-> v.staff]
  OBVIOUS
<1> HIDE DEF rows
<1>4. CASE rows = {}
  <2>1. UsesIn(k) = {NoUse}
    BY <1>1, <1>4
  <2>2. UsersOf(k) = {}
    BY <1>2, <1>4
  <2> QED
    BY <2>1, <2>2
<1>5. CASE rows # {}
  <2>1. UsesIn(k) = rows
    BY <1>1, <1>5
  <2> QED
    BY <1>2, <1>3, <1>5, <2>1
<1> QED
  BY <1>4, <1>5

\* A terminal whose drawer is free for a request keeps it apart from every open shift.
LEMMA FreeNoClash ==
    ASSUME NEW t \in Terminals, NEW k, NEW row, DrawerFree(t, row.drawer)
    PROVE  NoClash(k, row, t)
<1> SUFFICES ASSUME NEW j \in Key, staging[j].status = "Open", staging[j].drawer = row.drawer
             PROVE  /\ ~staging[j].shared
                    /\ \A v \in UsersOf(j) : v.terminal # t
  BY Zenon DEF NoClash
<1>1. \A w \in UsesIn(j) : ~staging[j].shared /\ w.terminal # t
  BY DEF DrawerFree, OpenShifts
<1>2. ~staging[j].shared
  BY <1>1, UsesShown
<1>3. ASSUME NEW v \in UsersOf(j) PROVE v.terminal # t
  <2> DEFINE w == [terminal |-> v.terminal, staff |-> v.staff]
  <2>1. w \in UsesIn(j)
    BY UsesShown
  <2>2. w.terminal = v.terminal
    OBVIOUS
  <2> HIDE DEF w
  <2> QED
    BY <1>1, <2>1, <2>2
<1> QED
  BY <1>2, <1>3

\* A shift that is open is used, and one that is not is not, when nobody has a request.
LEMMA AgreeWhenIdle ==
    ASSUME SerialInv, ~concurrent, \A s \in Terminals : call[s].stage = "idle"
    PROVE  \A k \in Key : TablesAgree(k)
BY DEF SerialInv, OthersAgree

\* A handler that is alone and hands over a request that is ready.
LEMMA BeginSerial ==
    ASSUME TypeOK, SerialInv, NEW t \in Terminals, MayBegin(t),
           NEW stage \in Stage, NEW proc, NEW k \in Key, NEW row \in Row, NEW w,
           Begin(t, stage, proc, k, row, w), stage # "users",
           numbered \subseteq numbered',
           ~concurrent =>
            /\ stage = "checkDrawer" =>
                 /\ staging[k].status # "None" /\ staging[k].version = row.version
                 /\ UsersOf(k) = {} /\ row.status = "Open" /\ w.terminal = t
            /\ stage = "update" => staging[k].status # "None" /\ staging[k].version = row.version
            /\ stage = "upsert" \/ proc = "upsert" => k \in numbered'
            /\ stage # "close" /\ row.status # "Open" => w # NoUse
            /\ stage \in {"upsert", "update"} /\ row.status = "Open" =>
                 /\ NoClash(k, row, w.terminal)
                 /\ UsersOf(k) = {} \/ Written(k, row)
    PROVE  SerialInv'
<1> SUFFICES ASSUME ~concurrent'
             PROVE  (OneRequest /\ RowsNumbered /\ AllApart /\ OthersAgree /\ RequestReady)'
  BY Zenon DEF SerialInv
<1> DEFINE q == [stage |-> stage, proc |-> proc, key |-> k, row |-> row, use |-> w]
<1>1. ~concurrent /\ call' = [call EXCEPT ![t] = q] /\ staging' = staging /\ users' = users
  BY DEF Begin, tables
<1>2. \A s \in Terminals : call[s].stage = "idle"
  BY <1>1 DEF MayBegin
<1>3. call'[t] = q /\ \A s \in Terminals \ {t} : call'[s].stage = "idle"
  BY <1>1, <1>2 DEF TypeOK
<1>4. q.stage = stage /\ q.proc = proc /\ q.key = k /\ q.row = row /\ q.use = w
  OBVIOUS
<1> HIDE DEF q
<1>5. \A j \in Key : TablesAgree(j)
  BY <1>1, <1>2, AgreeWhenIdle
<1>6. OneRequest'
  BY <1>3 DEF OneRequest
<1>7. RowsNumbered' /\ AllApart' /\ OthersAgree'
  <2>1. RowsNumbered /\ AllApart
    BY <1>1 DEF SerialInv
  <2>2. RowsNumbered'
    BY <1>1, <2>1 DEF RowsNumbered
  <2>3. AllApart'
    BY <1>1, <2>1 DEF AllApart, Apart, UsersOf
  <2>4. OthersAgree'
    BY <1>1, <1>5 DEF OthersAgree, TablesAgree, UsersOf
  <2> QED
    BY <2>2, <2>3, <2>4
<1>8. Ready(t)'
  <2>1. NoClash(k, row, w.terminal) => NoClash(k, row, w.terminal)'
    BY <1>1, Zenon DEF NoClash, UsersOf
  <2>2. UsersOf(k)' = UsersOf(k) /\ (Written(k, row) => Written(k, row)')
    BY <1>1 DEF UsersOf, Written
  <2>3. TablesAgree(k)'
    BY <1>1, <1>5 DEF TablesAgree, UsersOf
  <2> QED
    BY <1>1, <1>3, <1>4, <2>1, <2>2, <2>3 DEF Ready, AtVersionRead
<1>9. RequestReady'
  BY <1>3, <1>8 DEF RequestReady
<1> QED
  BY <1>6, <1>7, <1>9

LEMMA HandlerSerial ==
    ASSUME TypeOK, SerialInv, NEW t \in Terminals, Handler(t)
    PROVE  SerialInv'
<1> USE DEF Stage
<1>1. PICK u \in Staff, k \in Key :
        \/ \E d \in Drawers, shared \in BOOLEAN : CreateShift(t, u, k, d, shared)
        \/ \E to \in {"Closed", "BlindClosed", "Suspended"} : ChangeShiftStatus(t, u, k, to)
        \/ \E d \in Drawers : ResumeShift(t, u, k, d)
        \/ UseShift(t, u, k)
  BY Zenon DEF Handler
<1>2. staging[k] \in Row
  BY DEF TypeOK
<1>3. ASSUME MayBegin(t), ~concurrent
      PROVE  RowsNumbered /\ AllApart /\ \A j \in Key : TablesAgree(j)
  BY <1>3, AgreeWhenIdle DEF MayBegin, SerialInv
<1> DEFINE use == [terminal |-> t, staff |-> u]
<1>u. use.terminal = t
  OBVIOUS
<1> HIDE DEF use
<1>4. ASSUME NEW d \in Drawers, NEW shared \in BOOLEAN, CreateShift(t, u, k, d, shared)
      PROVE  SerialInv'
  <2> DEFINE row == [owner |-> u, status |-> "Open", drawer |-> d, shared |-> shared, version |-> 0]
  <2>1. row \in Row /\ row.status = "Open" /\ row.drawer = d
    BY ConstantsAssumption DEF Row, Status
  <2>2. k \notin numbered /\ numbered' = numbered \cup {k} /\ MayBegin(t) /\ DrawerFree(t, d)
    BY <1>4 DEF CreateShift
  <2>3. Begin(t, "upsert", "upsert", k, row, use)
    BY <1>4 DEF CreateShift, use
  <2> HIDE DEF row
  <2>4. NoClash(k, row, use.terminal)
    BY <1>u, <2>1, <2>2, FreeNoClash
  <2>5. ~concurrent => UsersOf(k) = {}
    BY <1>3, <2>2 DEF RowsNumbered, TablesAgree
  <2> QED
    BY <2>1, <2>2, <2>3, <2>4, <2>5, BeginSerial
<1>5. ASSUME NEW to \in {"Closed", "BlindClosed", "Suspended"}, ChangeShiftStatus(t, u, k, to)
      PROVE  SerialInv'
  <2> DEFINE row == Changed(staging[k], to)
  <2> DEFINE stage == IF to = "Closed" THEN "close" ELSE "update"
  <2>1. PICK w \in UsesIn(k) : CanChangeStatus(t, u, k, w) /\ Begin(t, stage, "update", k, row, w)
    BY <1>5 DEF ChangeShiftStatus
  <2>2. <<staging[k].status, to>> \in Transitions /\ numbered' = numbered /\ MayBegin(t)
    BY <1>5 DEF ChangeShiftStatus
  <2>3. row \in Row /\ row.version = staging[k].version
    BY <1>2, ChangedType DEF Changed, Row
  <2>4. stage \in Stage /\ stage \in {"close", "update"}
    OBVIOUS
  <2>5. stage = "update" => row.status # "Open" /\ staging[k].status = "Open"
    BY <1>2, <2>2 DEF Changed, Row, Transitions
  <2>6. ~concurrent /\ stage = "update" => w # NoUse
    <3> SUFFICES ASSUME ~concurrent, stage = "update" PROVE w # NoUse
      OBVIOUS
    <3>1. UsersOf(k) # {}
      BY <1>3, <2>2, <2>5 DEF TablesAgree
    <3>2. PICK v \in UsersOf(k) : w = [terminal |-> v.terminal, staff |-> v.staff]
      BY <3>1, UsesShown
    <3>3. v.terminal \in Terminals
      BY DEF UsersOf, TypeOK
    <3>4. w.terminal # NoTerminal
      BY <3>2, <3>3, ConstantsAssumption
    <3> QED
      BY <3>4 DEF NoUse
  <2>7. stage # "users" /\ stage # "upsert" /\ stage # "checkDrawer"
    BY <2>4
  <2>8. staging[k].status # "None"
    BY <1>5 DEF ChangeShiftStatus, Finds
  <2> HIDE DEF row, stage
  <2> QED
    BY <2>1, <2>2, <2>3, <2>4, <2>5, <2>6, <2>7, <2>8, BeginSerial
<1>6. ASSUME NEW d \in Drawers, ResumeShift(t, u, k, d)
      PROVE  SerialInv'
  <2> DEFINE row == [staging[k] EXCEPT !.status = "Open", !.drawer = d]
  <2>1. row \in Row /\ row.status = "Open" /\ row.version = staging[k].version
    BY <1>2 DEF Row, Status
  <2>2. staging[k].status = "Suspended" /\ numbered' = numbered /\ MayBegin(t)
    BY <1>6 DEF ResumeShift
  <2>3. Begin(t, "checkDrawer", "update", k, row, use)
    BY <1>6 DEF ResumeShift, use
  <2>4. ~concurrent => UsersOf(k) = {}
    BY <1>3, <2>2 DEF TablesAgree
  <2> HIDE DEF row
  <2> QED
    BY <1>u, <2>1, <2>2, <2>3, <2>4, BeginSerial
<1>7. CASE UseShift(t, u, k)
  <2>1. Begin(t, "update", "update", k, staging[k], use) /\ MayBegin(t) /\ numbered' = numbered
    BY <1>7 DEF UseShift, use
  <2>2. PICK w \in UsesIn(k) : CanUse(t, u, k, w)
    BY <1>7 DEF UseShift
  <2>3. staging[k].status = "Open" /\ (w.terminal = t \/ staging[k].shared)
    BY <2>2 DEF CanUse
  <2>4. ~concurrent => NoClash(k, staging[k], t)
    <3> SUFFICES ASSUME ~concurrent, NEW j \in Key \ {k},
                        staging[j].status = "Open", staging[j].drawer = staging[k].drawer
                 PROVE  /\ ~(staging[j].shared /\ staging[k].shared)
                        /\ ~staging[j].shared /\ ~staging[k].shared =>
                               \A v \in UsersOf(j) : v.terminal # t
      BY Zenon DEF NoClash
    <3>1. Apart(j, k)
      BY <1>3, <2>1 DEF AllApart
    <3>2. /\ ~(staging[j].shared /\ staging[k].shared)
          /\ ~staging[j].shared /\ ~staging[k].shared =>
                 \A v \in UsersOf(j), x \in UsersOf(k) : v.terminal # x.terminal
      BY <2>3, <3>1 DEF Apart
    <3>3. ASSUME ~staging[k].shared PROVE \E x \in UsersOf(k) : x.terminal = t
      <4>1. UsersOf(k) # {}
        BY <1>3, <2>1, <2>3 DEF TablesAgree
      <4>2. PICK x \in UsersOf(k) : w = [terminal |-> x.terminal, staff |-> x.staff]
        BY <4>1, UsesShown
      <4> QED
        BY <2>3, <3>3, <4>2
    <3> QED
      BY <3>2, <3>3
  <2>5. Written(k, staging[k])
    BY DEF Written
  <2> QED
    BY <1>2, <1>u, <2>1, <2>3, <2>4, <2>5, BeginSerial
<1> QED
  BY <1>1, <1>4, <1>5, <1>6, <1>7

\* The terminal whose request is in progress is alone, and every other shift agrees.
LEMMA Alone ==
    ASSUME SerialInv, ~concurrent, NEW t \in Terminals, call[t].stage # "idle"
    PROVE  /\ \A s \in Terminals \ {t} : call[s].stage = "idle"
           /\ \A k \in Key \ {call[t].key} : TablesAgree(k)
           /\ RowsNumbered /\ AllApart /\ Ready(t)
<1>1. \A s \in Terminals \ {t} : call[s].stage = "idle"
  BY DEF SerialInv, OneRequest
<1>2. \A k \in Key \ {call[t].key} : TablesAgree(k)
  BY <1>1 DEF SerialInv, OthersAgree
<1> QED
  BY <1>1, <1>2 DEF SerialInv, RequestReady

\* A request ends where the tables agree again.
LEMMA EndSerial ==
    ASSUME TypeOK, SerialInv, concurrent' = concurrent, NEW t \in Terminals,
           call[t].stage # "idle", call' = [call EXCEPT ![t] = Idle],
           ~concurrent => RowsNumbered' /\ AllApart' /\ \A k \in Key : TablesAgree(k)'
    PROVE  SerialInv'
<1> SUFFICES ASSUME ~concurrent
             PROVE  (OneRequest /\ RowsNumbered /\ AllApart /\ OthersAgree /\ RequestReady)'
  BY Zenon DEF SerialInv
<1>1. \A s \in Terminals : call'[s].stage = "idle"
  BY Alone DEF TypeOK, Idle
<1>2. (OneRequest /\ RequestReady)'
  BY <1>1 DEF OneRequest, RequestReady
<1>3. OthersAgree'
  BY DEF OthersAgree
<1> QED
  BY <1>2, <1>3

\* It goes on where it is ready for its next statement.
LEMMA GoesOnSerial ==
    ASSUME TypeOK, SerialInv, concurrent' = concurrent, NEW t \in Terminals,
           call[t].stage # "idle", NEW stage \in Stage \ {"idle"},
           call' = [call EXCEPT ![t] = [@ EXCEPT !.stage = stage]],
           ~concurrent =>
               RowsNumbered' /\ AllApart' /\ Ready(t)'
                 /\ \A k \in Key \ {call[t].key} : TablesAgree(k)'
    PROVE  SerialInv'
<1> SUFFICES ASSUME ~concurrent
             PROVE  (OneRequest /\ RowsNumbered /\ AllApart /\ OthersAgree /\ RequestReady)'
  BY Zenon DEF SerialInv
<1>1. /\ \A s \in Terminals \ {t} : call'[s].stage = "idle"
      /\ call'[t].stage = stage /\ call'[t].key = call[t].key
  BY Alone DEF TypeOK, Call
<1>2. (OneRequest /\ RequestReady)'
  BY <1>1 DEF OneRequest, RequestReady
<1>3. OthersAgree'
  <2> SUFFICES ASSUME NEW k \in Key, ~TablesAgree(k)'
               PROVE  \E s \in Terminals : call'[s].stage # "idle" /\ call'[s].key = k
    BY DEF OthersAgree
  <2>1. k = call[t].key
    OBVIOUS
  <2> QED
    BY <1>1, <2>1
<1> QED
  BY <1>2, <1>3

\* Tables that stay as they are stay as they agree.
LEMMA TablesStay ==
    ASSUME staging' = staging, users' = users
    PROVE  /\ numbered' = numbered => (RowsNumbered => RowsNumbered')
           /\ AllApart => AllApart'
           /\ \A k : TablesAgree(k)' <=> TablesAgree(k)
           /\ \A k : UsersOf(k)' = UsersOf(k)
BY DEF RowsNumbered, AllApart, Apart, TablesAgree, UsersOf

\* Writing the row a ready request brings keeps every two shifts apart.
LEMMA WriteSerial ==
    ASSUME TypeOK, SerialInv, concurrent' = concurrent, NEW t \in Terminals,
           call[t].stage \in {"upsert", "update"}, WriteRow(t),
           call' = [call EXCEPT ![t].stage = "users"],
           users' = users, numbered' = numbered,
           ~concurrent => call[t].key \in numbered
    PROVE  SerialInv'
<1>k. PICK k, r, x :
        /\ k \in Key /\ r \in Row
        /\ k = call[t].key /\ r = call[t].row /\ x = call[t].use.terminal
  BY DEF TypeOK, Call
<1>d. PICK row : row = [r EXCEPT !.version = dbts + 1]
  OBVIOUS
<1>1. k \in Key /\ r \in Row /\ call[t] \in Call
  BY <1>k DEF TypeOK
<1>2. row.status = r.status /\ row.drawer = r.drawer /\ row.shared = r.shared
  BY <1>1, <1>d DEF Row
<1>3. staging'[k] = row /\ \A j \in Key \ {k} : staging'[j] = staging[j]
  BY <1>d, <1>k DEF TypeOK, WriteRow
<1>4. /\ call'[t].stage = "users" /\ call'[t].key = k /\ call'[t].row = r
      /\ call'[t].use = call[t].use /\ call'[t].proc = call[t].proc
  BY <1>k DEF TypeOK, Call
<1>5. \A j : UsersOf(j)' = UsersOf(j)
  BY DEF UsersOf
<1>6. ASSUME ~concurrent
      PROVE  RowsNumbered' /\ AllApart' /\ Ready(t)' /\ \A j \in Key \ {k} : TablesAgree(j)'
  <2>1. RowsNumbered /\ AllApart /\ Ready(t) /\ \A j \in Key \ {k} : TablesAgree(j)
    BY <1>6, <1>k, Alone
  <2>2. RowsNumbered'
    BY <1>3, <1>6, <1>k, <2>1 DEF RowsNumbered
  <2>3. \A j \in Key \ {k} : TablesAgree(j)'
    BY <1>3, <1>5, <2>1 DEF TablesAgree
  <2>4. row.status = "Open" => NoClash(k, r, x)
                               /\ (UsersOf(k) = {} \/ Written(k, r))
    BY <1>2, <1>k, <2>1 DEF Ready
  <2>5. ASSUME NEW j \in Key \ {k} PROVE Apart(j, k)' /\ Apart(k, j)'
    <3>1. Apart(j, k) /\ Apart(k, j)
      BY <1>1, <2>1 DEF AllApart
    <3>2. staging'[j] = staging[j] /\ UsersOf(j)' = UsersOf(j) /\ UsersOf(k)' = UsersOf(k)
      BY <1>3, <1>5
    <3>3. CASE Written(k, r)
      <4>1. staging'[k].status = staging[k].status /\ staging'[k].drawer = staging[k].drawer
            /\ staging'[k].shared = staging[k].shared
        BY <1>2, <1>3, <3>3 DEF Written
      <4> QED
        BY <3>1, <3>2, <4>1 DEF Apart
    <3>4. CASE ~Written(k, r) /\ row.status = "Open"
      <4>1. UsersOf(k) = {} /\ NoClash(k, r, x)
        BY <2>4, <3>4
      <4>2. staging[j].status = "Open" /\ staging[j].drawer = row.drawer
                => ~(staging[j].shared /\ row.shared)
        BY <1>2, <4>1 DEF NoClash
      <4> QED
        BY <1>3, <3>2, <4>1, <4>2 DEF Apart
    <3>5. CASE row.status # "Open"
      BY <1>3, <3>5 DEF Apart
    <3> QED
      BY <3>3, <3>4, <3>5
  <2>6. AllApart'
    <3> SUFFICES ASSUME NEW i \in Key, NEW j \in Key, i # j PROVE Apart(i, j)'
      BY DEF AllApart
    <3>1. CASE i # k /\ j # k
      <4>1. Apart(i, j)
        BY <2>1 DEF AllApart
      <4> QED
        BY <1>3, <1>5, <3>1, <4>1 DEF Apart
    <3> QED
      BY <2>5, <3>1
  <2>7. Written(k, r)'
    BY <1>2, <1>3, <1>4 DEF Written
  <2>8. row.status = "Open" => NoClash(k, r, x)'
    BY <1>3, <1>5, <2>4, Zenon DEF NoClash
  <2>9. Ready(t)'
    <3>1. call[t].stage # "idle" /\ call[t].stage # "close"
      OBVIOUS
    <3> QED
      BY <1>2, <1>4, <1>k, <2>1, <2>7, <2>8, <3>1 DEF Ready
  <2> QED
    BY <2>1, <2>2, <2>3, <2>6, <2>9
<1> QED
  BY <1>6, <1>k, GoesOnSerial DEF Stage

\* Other shifts' users are not touched; this one's are, once its row is written.
LEMMA UsersSerial ==
    ASSUME TypeOK, SerialInv, NEW t \in Terminals, UpsertUsers(t)
    PROVE  SerialInv'
<1>k. PICK k \in Key, r \in Row, w \in Use : k = call[t].key /\ r = call[t].row /\ w = call[t].use
  BY DEF TypeOK, Call
<1>1. /\ call[t].stage = "users" /\ call' = [call EXCEPT ![t] = Idle]
      /\ staging' = staging /\ numbered' = numbered /\ concurrent' = concurrent
  BY DEF UpsertUsers, bounds
<1>2. users' = IF r.status = "Open"
               THEN users \cup {[key |-> k, terminal |-> w.terminal, staff |-> w.staff]}
               ELSE IF w = NoUse THEN users ELSE users \ UsersOf(k)
  BY <1>k DEF UpsertUsers
<1>3. \A j \in Key \ {k} : UsersOf(j)' = UsersOf(j)
  BY <1>2 DEF UsersOf
<1>4. ASSUME ~concurrent
      PROVE  RowsNumbered' /\ AllApart' /\ \A j \in Key : TablesAgree(j)'
  <2>1. RowsNumbered /\ AllApart /\ Ready(t) /\ \A j \in Key \ {k} : TablesAgree(j)
    BY <1>1, <1>4, <1>k, Alone
  <2>2. RowsNumbered'
    BY <1>1, <2>1 DEF RowsNumbered
  <2>3. Written(k, r) /\ (r.status # "Open" => w # NoUse)
        /\ (r.status = "Open" => NoClash(k, r, w.terminal))
    BY <1>1, <1>k, <2>1 DEF Ready
  <2>4. /\ staging[k].status = r.status /\ staging[k].drawer = r.drawer
        /\ staging[k].shared = r.shared
    BY <2>3 DEF Written
  <2>5. \A j \in Key \ {k} : TablesAgree(j)'
    BY <1>1, <1>3, <2>1 DEF TablesAgree
  <2>6. CASE r.status = "Open"
    <3> DEFINE v == [key |-> k, terminal |-> w.terminal, staff |-> w.staff]
    <3>1. users' = users \cup {v} /\ v.key = k /\ v.terminal = w.terminal
      BY <1>2, <2>6
    <3> HIDE DEF v
    <3>2. UsersOf(k)' = UsersOf(k) \cup {v}
      BY <3>1 DEF UsersOf
    <3>3. TablesAgree(k)'
      BY <1>1, <2>4, <2>6, <3>2 DEF TablesAgree
    <3>4. ASSUME NEW j \in Key \ {k} PROVE Apart(j, k)' /\ Apart(k, j)'
      <4>1. Apart(j, k) /\ Apart(k, j)
        BY <2>1 DEF AllApart
      <4>2. staging[j].status = "Open" /\ staging[j].drawer = staging[k].drawer =>
              /\ ~(staging[j].shared /\ staging[k].shared)
              /\ ~staging[j].shared /\ ~staging[k].shared =>
                     \A y \in UsersOf(j) : y.terminal # v.terminal
        BY <2>3, <2>4, <2>6, <3>1 DEF NoClash
      <4> QED
        BY <1>1, <1>3, <3>2, <4>1, <4>2 DEF Apart
    <3>5. AllApart'
      <4> SUFFICES ASSUME NEW i \in Key, NEW j \in Key, i # j PROVE Apart(i, j)'
        BY DEF AllApart
      <4>1. CASE i # k /\ j # k
        <5>1. Apart(i, j)
          BY <2>1 DEF AllApart
        <5> QED
          BY <1>1, <1>3, <4>1, <5>1 DEF Apart
      <4> QED
        BY <3>4, <4>1
    <3> QED
      BY <2>2, <2>5, <3>3, <3>5
  <2>7. CASE r.status # "Open"
    <3>1. users' = users \ UsersOf(k)
      BY <1>2, <2>3, <2>7
    <3>2. UsersOf(k)' = {}
      BY <3>1 DEF UsersOf
    <3>3. TablesAgree(k)'
      BY <1>1, <2>4, <2>7, <3>2 DEF TablesAgree
    <3>4. AllApart'
      <4> SUFFICES ASSUME NEW i \in Key, NEW j \in Key, i # j PROVE Apart(i, j)'
        BY DEF AllApart
      <4>1. Apart(i, j)
        BY <2>1 DEF AllApart
      <4>2. UsersOf(i)' \subseteq UsersOf(i) /\ UsersOf(j)' \subseteq UsersOf(j)
        BY <3>1 DEF UsersOf
      <4> QED
        BY <1>1, <4>1, <4>2 DEF Apart
    <3> QED
      BY <2>2, <2>5, <3>3, <3>4
  <2> QED
    BY <2>6, <2>7
<1> QED
  BY <1>1, <1>4, EndSerial

\* Closing takes the row and its uses out together.
LEMMA CloseSerial ==
    ASSUME TypeOK, SerialInv, NEW t \in Terminals, CloseStaging(t)
    PROVE  SerialInv'
<1>k. PICK k \in Key : k = call[t].key
  BY DEF TypeOK, Call
<1>1. /\ call[t].stage = "close" /\ call' = [call EXCEPT ![t] = Idle]
      /\ numbered' = numbered /\ concurrent' = concurrent
  BY DEF CloseStaging, bounds
<1>2. ASSUME ~concurrent
      PROVE  RowsNumbered /\ AllApart /\ \A j \in Key : TablesAgree(j)
  <2>1. RowsNumbered /\ AllApart /\ Ready(t) /\ \A j \in Key \ {k} : TablesAgree(j)
    BY <1>1, <1>2, <1>k, Alone
  <2>2. TablesAgree(k)
    BY <1>1, <1>k, <2>1 DEF Ready
  <2> QED
    BY <2>1, <2>2
<1>3. CASE staging[k].status = "None" \/ k \in closed
  <2>1. staging' = staging /\ users' = users
    BY <1>3, <1>k DEF CloseStaging, tables
  <2> QED
    BY <1>1, <1>2, <2>1, EndSerial, TablesStay
<1>4. CASE ~(staging[k].status = "None" \/ k \in closed)
  <2>1. staging' = [staging EXCEPT ![k] = NoRow] /\ users' = users \ UsersOf(k)
    BY <1>4, <1>k DEF CloseStaging
  <2>2. staging'[k].status = "None" /\ \A j \in Key \ {k} : staging'[j] = staging[j]
    BY <2>1 DEF TypeOK, NoRow
  <2>3. UsersOf(k)' = {} /\ \A j \in Key \ {k} : UsersOf(j)' = UsersOf(j)
    BY <2>1 DEF UsersOf
  <2>4. ASSUME ~concurrent
        PROVE  RowsNumbered' /\ AllApart' /\ \A j \in Key : TablesAgree(j)'
    <3>1. RowsNumbered /\ AllApart /\ \A j \in Key : TablesAgree(j)
      BY <1>2, <2>4
    <3>2. RowsNumbered'
      BY <1>1, <2>2, <3>1 DEF RowsNumbered
    <3>3. \A j \in Key : TablesAgree(j)'
      BY <2>2, <2>3, <3>1 DEF TablesAgree
    <3>4. AllApart'
      <4> SUFFICES ASSUME NEW i \in Key, NEW j \in Key, i # j PROVE Apart(i, j)'
        BY DEF AllApart
      <4>1. Apart(i, j)
        BY <3>1 DEF AllApart
      <4> QED
        BY <2>2, <2>3, <4>1 DEF Apart
    <3> QED
      BY <3>2, <3>3, <3>4
  <2> QED
    BY <1>1, <2>4, EndSerial
<1> QED
  BY <1>3, <1>4

\* A step that changes no table and lets the request go on keeps it ready when it
\* only asks for what was known before.
LEMMA StageSerial ==
    ASSUME TypeOK, SerialInv, NEW t \in Terminals, call[t].stage # "idle",
           NEW stage \in Stage \ {"idle"},
           call' = [call EXCEPT ![t] = [@ EXCEPT !.stage = stage]],
           staging' = staging, users' = users, numbered' = numbered, concurrent' = concurrent,
           ~concurrent =>
             \/ /\ call[t].stage = "checkDrawer" /\ stage = "update"
                /\ NoClash(call[t].key, call[t].row, call[t].use.terminal)
             \/ /\ stage = "users" /\ call[t].stage = "update"
                /\ Written(call[t].key, call[t].row)
             \/ call[t].stage = "users" /\ stage = call[t].proc /\ stage \in {"upsert", "update"}
    PROVE  SerialInv'
<1>k. PICK k \in Key, r \in Row, w \in Use : k = call[t].key /\ r = call[t].row /\ w = call[t].use
  BY DEF TypeOK, Call
<1>1. /\ call'[t].stage = stage /\ call'[t].key = k /\ call'[t].row = r
      /\ call'[t].use = w /\ call'[t].proc = call[t].proc
  BY <1>k DEF TypeOK, Call
<1>2. ASSUME ~concurrent
      PROVE  RowsNumbered' /\ AllApart' /\ Ready(t)' /\ \A j \in Key \ {k} : TablesAgree(j)'
  <2>1. RowsNumbered /\ AllApart /\ Ready(t) /\ \A j \in Key \ {k} : TablesAgree(j)
    BY <1>2, <1>k, Alone
  <2>2. RowsNumbered' /\ AllApart' /\ \A j \in Key \ {k} : TablesAgree(j)'
    BY <2>1, TablesStay
  <2>3. UsersOf(k)' = UsersOf(k) /\ (Written(k, r)' <=> Written(k, r))
    BY DEF UsersOf, Written
  <2>4. NoClash(k, r, w.terminal) => NoClash(k, r, w.terminal)'
    BY Zenon DEF NoClash, UsersOf
  <2>5. Ready(t)'
    <3>1. CASE call[t].stage = "checkDrawer" /\ stage = "update" /\ NoClash(k, r, w.terminal)
      BY <1>1, <1>k, <2>1, <2>3, <2>4, <3>1 DEF Ready, AtVersionRead
    <3>2. CASE stage = "users" /\ call[t].stage = "update" /\ Written(k, r)
      BY <1>1, <1>k, <2>1, <2>3, <2>4, <3>2 DEF Ready
    <3>3. CASE call[t].stage = "users" /\ stage = call[t].proc /\ stage \in {"upsert", "update"}
      BY <1>1, <1>k, <2>1, <2>3, <2>4, <3>3 DEF Ready
    <3> QED
      BY <1>2, <1>k, <3>1, <3>2, <3>3
  <2> QED
    BY <2>2, <2>5
<1> QED
  BY <1>2, <1>k, GoesOnSerial

LEMMA ProcedureSerial ==
    ASSUME TypeOK, SerialInv, NEW t \in Terminals, Procedure(t)
    PROVE  SerialInv'
<1> USE DEF Stage
<1>t. call[t] \in Call /\ call[t].key \in Key
  BY DEF TypeOK, Call
<1>a. ASSUME call[t].stage # "idle", ~concurrent
      PROVE  RowsNumbered /\ AllApart /\ Ready(t) /\ \A k \in Key \ {call[t].key} : TablesAgree(k)
  BY <1>a, Alone
<1>e. ASSUME call[t].stage \in {"checkDrawer", "close"}, call' = [call EXCEPT ![t] = Idle],
             UNCHANGED <<tables, bounds>>
      PROVE  SerialInv'
  <2>1. staging' = staging /\ users' = users /\ numbered' = numbered /\ concurrent' = concurrent
    BY <1>e DEF tables, bounds
  <2>2. ~concurrent => RowsNumbered /\ AllApart /\ \A k \in Key : TablesAgree(k)
    BY <1>a, <1>e, <1>t DEF Ready
  <2> QED
    BY <1>e, <2>1, <2>2, EndSerial, TablesStay
<1>1. CASE CheckDrawer(t)
  <2>1. /\ call[t].stage = "checkDrawer"
        /\ staging' = staging /\ users' = users /\ numbered' = numbered /\ concurrent' = concurrent
    BY <1>1 DEF CheckDrawer, tables, bounds
  <2>2. CASE call' = [call EXCEPT ![t] = Idle]
    BY <1>1, <1>e, <2>1, <2>2 DEF CheckDrawer
  <2>3. CASE ~(call' = [call EXCEPT ![t] = Idle])
    <3>1. DrawerFree(t, call[t].row.drawer)
          /\ call' = [call EXCEPT ![t] = [@ EXCEPT !.stage = "update"]]
      BY <1>1, <2>3 DEF CheckDrawer
    <3>2. NoClash(call[t].key, call[t].row, t)
      BY <3>1, FreeNoClash
    <3>3. ~concurrent => call[t].use.terminal = t
      BY <1>a, <2>1 DEF Ready
    <3> QED
      BY <2>1, <3>1, <3>2, <3>3, StageSerial
  <2> QED
    BY <2>2, <2>3
<1>2. CASE UpsertStaging(t)
  <2>1. call[t].stage = "upsert" /\ WriteRow(t) /\ call' = [call EXCEPT ![t].stage = "users"]
        /\ users' = users /\ numbered' = numbered /\ concurrent' = concurrent
    BY <1>2 DEF UpsertStaging, bounds
  <2>2. ~concurrent => call[t].key \in numbered
    BY <1>a, <2>1 DEF Ready
  <2> QED
    BY <2>1, <2>2, WriteSerial
<1>3. CASE UpdateStaging(t)
  <2>1. call[t].stage = "update" /\ call' = [call EXCEPT ![t].stage = "users"]
        /\ users' = users /\ numbered' = numbered /\ concurrent' = concurrent
    BY <1>3 DEF UpdateStaging, bounds
  <2>2. CASE AtVersionRead(t)
    <3>1. WriteRow(t)
      BY <1>3, <2>2 DEF UpdateStaging
    <3>2. ~concurrent => call[t].key \in numbered
      BY <1>a, <1>t, <2>1, <2>2 DEF AtVersionRead, RowsNumbered
    <3> QED
      BY <2>1, <3>1, <3>2, WriteSerial
  <2>3. CASE ~AtVersionRead(t)
    <3>1. staging' = staging
      BY <1>3, <2>3 DEF UpdateStaging
    <3>2. ~concurrent => Written(call[t].key, call[t].row)
      BY <1>a, <2>1, <2>3 DEF Ready
    <3> QED
      BY <2>1, <3>1, <3>2, StageSerial
  <2> QED
    BY <2>2, <2>3
<1>4. CASE UpsertUsers(t)
  BY <1>4, UsersSerial
<1>5. CASE CloseStaging(t)
  BY <1>5, CloseSerial
<1>6. CASE AmountsMissing(t)
  BY <1>6, <1>e DEF AmountsMissing
<1>7. CASE Retry(t)
  <2>1. /\ call[t].stage = "users" /\ call' = [call EXCEPT ![t] = [@ EXCEPT !.stage = call[t].proc]]
        /\ staging' = staging /\ users' = users /\ numbered' = numbered /\ concurrent' = concurrent
    BY <1>7 DEF Retry, tables
  <2>2. call[t].proc \in {"upsert", "update"}
    BY <1>t DEF Call
  <2> QED
    BY <2>1, <2>2, StageSerial
<1> QED
  BY <1>1, <1>2, <1>3, <1>4, <1>5, <1>6, <1>7 DEF Procedure

LEMMA InitSerial == Init => SerialInv
<1> SUFFICES ASSUME Init PROVE SerialInv
  OBVIOUS
<1>1. \A k \in Key : staging[k].status = "None" /\ UsersOf(k) = {}
  BY DEF Init, NoRow, UsersOf
<1>2. \A t \in Terminals : call[t].stage = "idle"
  BY DEF Init, Idle
<1> QED
  BY <1>1, <1>2 DEF SerialInv, OneRequest, RowsNumbered, AllApart, Apart, OthersAgree,
                    TablesAgree, RequestReady

LEMMA SerialKept == TypeOK /\ SerialInv /\ [Next]_vars => SerialInv'
<1> SUFFICES ASSUME TypeOK, SerialInv, [Next]_vars
             PROVE  SerialInv'
  OBVIOUS
<1>1. CASE UNCHANGED vars
  BY <1>1 DEF vars, tables, bounds, SerialInv, OneRequest, RowsNumbered, AllApart, Apart,
              OthersAgree, TablesAgree, RequestReady, Ready, AtVersionRead, Written, NoClash,
              UsersOf
<1>2. CASE Next
  BY <1>2, HandlerSerial, ProcedureSerial DEF Next
<1> QED
  BY <1>1, <1>2

LEMMA SerialAlways == Spec => []SerialInv
BY InitSerial, InitType, SerialKept, TypeKept, PTL DEF Spec

\* When requests do not overlap, and however often a procedure is executed again after a
\* transient error, a shift has users in the users table exactly while the staging table
\* has it open, whenever no request is in progress.
THEOREM UsersFollowStatus == Spec => []UsersWhileOpen
<1>1. SerialInv => UsersWhileOpen
  BY DEF SerialInv, OthersAgree, UsersWhileOpen, Answered, TablesAgree
<1> QED
  BY <1>1, SerialAlways, PTL

\* When requests do not overlap, two open shifts never end up on one drawer, whether they
\* were opened, resumed or only used: UseShift, which does not look at the drawer, adds a
\* use on a terminal that has one or to a shift that is shared already.
THEOREM OneShiftPerDrawer == Spec => []DrawerExclusive
<1>1. SerialInv => DrawerExclusive
  BY DEF SerialInv, AllApart, Apart, DrawerExclusive, OpenShifts
<1> QED
  BY <1>1, SerialAlways, PTL
=============================================================================
