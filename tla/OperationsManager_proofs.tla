------------------------ MODULE OperationsManager_proofs ------------------------
(***************************************************************************)
(* What the count and the override keep for every set of operations and     *)
(* employees, every nesting and every number of operations of the user.     *)
(***************************************************************************)
EXTENDS OperationsManager, SequenceTheorems, FiniteSetTheorems, TLAPS

(* The stacks, position by position. *)

Op == {o \in Operation : o.nested \subseteq Nests[o.kind]}

StacksOK == running \in [Lanes -> Seq(Op)]

Depth(l) == Len(running[l])

\* What becomes of the other lanes, and of lane l below position n.
Keeps(l, n) ==
    /\ running' \in [Lanes -> Seq(Op)]
    /\ \A m \in Lanes : m # l => running'[m] = running[m]
    /\ \A i \in 1 .. n : running'[l][i] = running[l][i]

LEMMA DepthIsNat == ASSUME StacksOK, NEW l \in Lanes
                    PROVE  Depth(l) \in Nat /\ (running[l] = <<>> <=> Depth(l) = 0)
  BY DEF StacksOK, Depth

LEMMA TopTyped ==
    ASSUME StacksOK, NEW l \in Lanes, running[l] # <<>>
    PROVE  Top(l) \in Op /\ Depth(l) \in Nat \ {0}
  BY DEF StacksOK, Top, Depth

LEMMA BelowFacts ==
    ASSUME StacksOK, NEW l \in Lanes, running[l] # <<>>
    PROVE  /\ Below(l) \in Seq(Op) /\ Len(Below(l)) = Depth(l) - 1
           /\ \A i \in 1 .. Depth(l) - 1 : Below(l)[i] = running[l][i]
<1>1. Depth(l) \in Nat \ {0} /\ \A i \in 1 .. Depth(l) : running[l][i] \in Op
  BY DEF StacksOK, Depth
<1>2. PICK n \in Nat : n = Depth(l) - 1
  BY <1>1
<1>3. /\ SubSeq(running[l], 1, n) \in Seq(Op)
      /\ Len(SubSeq(running[l], 1, n)) = IF 1 <= n THEN n - 1 + 1 ELSE 0
      /\ \A i \in 1 .. n - 1 + 1 : SubSeq(running[l], 1, n)[i] = running[l][1 + i - 1]
  BY <1>1, <1>2, SubSeqProperties
<1>4. \A i \in 1 .. n : SubSeq(running[l], 1, n)[i] = running[l][i]
  BY <1>2, <1>3
<1> QED
  BY <1>2, <1>3, <1>4 DEF Below, Depth

LEMMA SetTopFacts ==
    ASSUME StacksOK, NEW l \in Lanes, running[l] # <<>>, NEW op \in Op, SetTop(l, op)
    PROVE  /\ Keeps(l, Depth(l) - 1)
           /\ Depth(l)' = Depth(l) /\ running'[l][Depth(l)] = op /\ Top(l)' = op
<1>1. /\ Below(l) \in Seq(Op) /\ Len(Below(l)) = Depth(l) - 1
      /\ \A i \in 1 .. Depth(l) - 1 : Below(l)[i] = running[l][i]
      /\ Depth(l) \in Nat \ {0}
  BY BelowFacts, TopTyped
<1>2. running'[l] = Append(Below(l), op) /\ \A m \in Lanes : m # l => running'[m] = running[m]
  BY DEF SetTop, StacksOK
<1>3. /\ Append(Below(l), op) \in Seq(Op) /\ Len(Append(Below(l), op)) = Depth(l)
      /\ \A i \in 1 .. Depth(l) - 1 : Append(Below(l), op)[i] = running[l][i]
      /\ Append(Below(l), op)[Depth(l)] = op
  BY <1>1
<1>4. running' \in [Lanes -> Seq(Op)]
  BY <1>2, <1>3 DEF SetTop, StacksOK
<1> QED
  BY <1>2, <1>3, <1>4 DEF Keeps, Depth, Top

LEMMA PopFacts ==
    ASSUME StacksOK, NEW l \in Lanes, running[l] # <<>>, running' = [running EXCEPT ![l] = Below(l)]
    PROVE  Keeps(l, Depth(l) - 1) /\ Depth(l)' = Depth(l) - 1
<1>1. running'[l] = Below(l) /\ \A m \in Lanes : m # l => running'[m] = running[m]
  BY DEF StacksOK
<1> QED
  BY <1>1, BelowFacts DEF Keeps, Depth, StacksOK

LEMMA NewOperationTyped ==
    ASSUME NEW kind \in Kinds, NEW checks \in BOOLEAN
    PROVE  NewOperation(kind, checks) \in Op /\ NewOperation(kind, checks).stage = "drawer"
           /\ NewOperation(kind, checks).manager = NoOne
  BY ConstantsAssumption DEF NewOperation, Op, Operation, OrNone, ConstantsAssumption

LEMMA NestedFacts ==
    ASSUME StacksOK, NEW l \in Lanes, NEW kind \in Kinds, RunNested(l, kind)
    PROVE  /\ Keeps(l, Depth(l) - 1) /\ Depth(l)' = Depth(l) + 1
           /\ running'[l][Depth(l)].stage = "handler"
           /\ running'[l][Depth(l)].manager = Top(l).manager
           /\ Top(l)' = NewOperation(kind, TRUE)
           /\ running'[l][Depth(l) + 1] = NewOperation(kind, TRUE)
<1>1. running[l] # <<>> /\ Top(l) \in Op /\ Top(l).stage = "handler" /\ Depth(l) \in Nat \ {0}
  BY TopTyped DEF RunNested, At
<1> DEFINE op == [Top(l) EXCEPT !.nested = @ \ {kind}]
           new == NewOperation(kind, TRUE)
<1>2. op \in Op /\ op.stage = "handler" /\ op.manager = Top(l).manager
  BY <1>1 DEF Op, Operation
<1>3. new \in Op
  BY NewOperationTyped
<1>4. running' = [running EXCEPT ![l] = Append(Append(Below(l), op), new)]
  BY DEF RunNested
<1> HIDE DEF op, new
<1>5. running'[l] = Append(Append(Below(l), op), new) /\ \A m \in Lanes : m # l => running'[m] = running[m]
  BY <1>4 DEF StacksOK
<1>6. /\ Below(l) \in Seq(Op) /\ Len(Below(l)) = Depth(l) - 1
      /\ \A i \in 1 .. Depth(l) - 1 : Below(l)[i] = running[l][i]
  BY <1>1, BelowFacts
<1>7. /\ Append(Below(l), op) \in Seq(Op) /\ Len(Append(Below(l), op)) = Depth(l)
      /\ \A i \in 1 .. Depth(l) - 1 : Append(Below(l), op)[i] = running[l][i]
      /\ Append(Below(l), op)[Depth(l)] = op
  BY <1>1, <1>2, <1>6
<1>8. /\ running'[l] \in Seq(Op) /\ Len(running'[l]) = Depth(l) + 1
      /\ \A i \in 1 .. Depth(l) - 1 : running'[l][i] = running[l][i]
      /\ running'[l][Depth(l)] = op /\ running'[l][Depth(l) + 1] = new
  BY <1>1, <1>3, <1>5, <1>7
<1>9. running' \in [Lanes -> Seq(Op)]
  BY <1>4, <1>5, <1>8 DEF StacksOK
<1> QED
  BY <1>2, <1>5, <1>8, <1>9 DEF Keeps, Depth, Top, new

LEMMA RunFacts ==
    ASSUME StacksOK, NEW l \in Lanes, NEW kind \in Kinds, NEW checks \in BOOLEAN,
           RunOperation(l, kind, checks)
    PROVE  /\ Keeps(l, 0) /\ Depth(l) = 0 /\ Depth(l)' = 1
           /\ running'[l][1] = NewOperation(kind, checks) /\ Top(l)' = NewOperation(kind, checks)
<1>1. NewOperation(kind, checks) \in Op
  BY NewOperationTyped
<1>2. running'[l] = <<NewOperation(kind, checks)>> /\ \A m \in Lanes : m # l => running'[m] = running[m]
  BY DEF RunOperation, StacksOK
<1>3. running' \in [Lanes -> Seq(Op)]
  BY <1>1, <1>2 DEF RunOperation, StacksOK
<1> QED
  BY <1>2, <1>3 DEF Keeps, Depth, Top, RunOperation

-----------------------------------------------------------------------------
(* Types. *)

RestOK ==
    /\ count \in Int
    /\ elevation \in Elevation
    /\ token \in OrNone(Staff)
    /\ session \in OrNone(Staff)
    /\ troubles \subseteq Trouble

TInv == StacksOK /\ RestOK

LEMMA TypeImplied == ASSUME TInv PROVE TypeOK
<1>1. \A l \in Lanes : \A i \in 1 .. Len(running[l]) : running[l][i] \in Op
  BY DEF TInv, StacksOK
<1>2. running \in [Lanes -> Seq(Operation)]
  <2>1. Seq(Op) \subseteq Seq(Operation)
    <3>1. Op \subseteq Operation
      BY DEF Op
    <3> QED
      BY <3>1
  <2> QED
    BY <2>1 DEF TInv, StacksOK
<1> QED
  BY <1>1, <1>2 DEF TInv, RestOK, TypeOK, Op

LEMMA InitTyped == Init => TInv
  BY ConstantsAssumption DEF Init, TInv, StacksOK, RestOK, NotElevated, Elevation, OrNone, Trouble,
                             ConstantsAssumption

LEMMA ForgottenTyped == ASSUME TInv PROVE Forgotten \in Elevation
  BY DEF TInv, RestOK, Forgotten, Elevation, OrNone

LEMMA StepTyped ==
    ASSUME TInv, NEW l \in Lanes, Step(l)
    PROVE  TInv' /\ running[l] # <<>>
<1> USE DEF TInv
<1>1. running[l] # <<>>
  BY Zenon DEF Step, At, DrawerChecked, DrawerOpen, NotStarted, Allowed, Denied, AskManager, ManagerLogOn,
     EmployeeRead, EmployeeFailed, CancelOverride, LogOnRefused, LogOnAccepted, RunNested,
     HandlerDone, HandlerGivesUp, Completed
<1> SUFFICES TInv'
  BY <1>1
<1>2. Top(l) \in Op
  BY <1>1, TopTyped
<1>3. ASSUME NEW op \in Op, SetTop(l, op) PROVE StacksOK'
  BY <1>1, <1>3, SetTopFacts DEF Keeps, StacksOK
<1>4. ASSUME Finish(l) PROVE StacksOK' /\ count' \in Int
  <2>1. Keeps(l, Depth(l) - 1)
    BY <1>1, <1>4, PopFacts DEF Finish
  <2>2. count' = count - 1 /\ count \in Int
    BY <1>4 DEF Finish, RestOK
  <2> QED
    BY <2>1, <2>2 DEF Keeps, StacksOK
<1>5. Forgotten \in Elevation
  BY ForgottenTyped
<1>6. ASSUME NEW t \in Trouble, NEW h, Note(t, h) PROVE troubles' \subseteq Trouble
  BY <1>6 DEF Note, RestOK
<1> USE DEF RestOK
<1>7. CASE DrawerChecked(l)
  <2>1. [Top(l) EXCEPT !.stage = "before"] \in Op
    BY <1>2 DEF Op, Operation
  <2>2. token' \in OrNone(Staff) /\ elevation' \in Elevation
    BY <1>7 DEF DrawerChecked, RevertToSelf, NotElevated, Elevation, OrNone
  <2> QED
    BY <1>3, <1>7, <2>1, <2>2 DEF DrawerChecked
<1>8. CASE DrawerOpen(l)
  BY <1>4, <1>6, <1>8 DEF DrawerOpen, Trouble
<1>9. CASE NotStarted(l) \/ HandlerGivesUp(l) \/ Completed(l)
  BY <1>4, <1>9 DEF NotStarted, HandlerGivesUp, Completed
<1>10. CASE Allowed(l)
  <2>1. [Top(l) EXCEPT !.stage = "handler"] \in Op
    BY <1>2 DEF Op, Operation
  <2> QED
    BY <1>3, <1>10, <2>1 DEF Allowed
<1>11. CASE Denied(l)
  BY <1>4, <1>5, <1>6, <1>11 DEF Denied, Trouble
<1>12. CASE AskManager(l)
  <2>1. [Top(l) EXCEPT !.stage = "override"] \in Op /\ Top(l).kind \in Kinds
    BY <1>2 DEF Op, Operation
  <2>2. elevation' \in Elevation
    BY <1>12, <2>1 DEF AskManager, Elevation, OrNone
  <2> QED
    BY <1>3, <1>6, <1>12, <2>1, <2>2 DEF AskManager, Trouble
<1>13. CASE ManagerLogOn(l)
  <2>1. [Top(l) EXCEPT !.stage = "logon", !.saved = token] \in Op
    BY <1>2 DEF Op, Operation
  <2> QED
    BY <1>3, <1>13, <2>1 DEF ManagerLogOn
<1>14. CASE EmployeeRead(l)
  <2>1. [Top(l) EXCEPT !.stage = "handler", !.saved = NoOne] \in Op
    BY <1>2 DEF Op, Operation, OrNone
  <2>2. elevation' \in Elevation
    BY <1>2, <1>14 DEF EmployeeRead, Elevation, Op, Operation
  <2> QED
    BY <1>3, <1>14, <2>1, <2>2 DEF EmployeeRead
<1>15. CASE EmployeeFailed(l)
  <2>1. [Top(l) EXCEPT !.stage = "override", !.saved = NoOne, !.manager = NoOne] \in Op
    BY <1>2 DEF Op, Operation, OrNone
  <2> QED
    BY <1>3, <1>6, <1>15, <2>1 DEF EmployeeFailed, Trouble
<1>16. CASE CancelOverride(l)
  BY <1>4, <1>5, <1>16 DEF CancelOverride
<1>17. CASE LogOnRefused(l)
  <2>1. [Top(l) EXCEPT !.stage = "override", !.saved = NoOne] \in Op
    BY <1>2 DEF Op, Operation, OrNone
  <2> QED
    BY <1>3, <1>17, <2>1 DEF LogOnRefused
<1>18. ASSUME NEW m \in Staff, LogOnAccepted(l, m) PROVE TInv'
  <2>1. [Top(l) EXCEPT !.stage = "employee", !.manager = m] \in Op
    BY <1>2 DEF Op, Operation, OrNone
  <2> QED
    BY <1>3, <1>18, <2>1 DEF LogOnAccepted, OrNone
<1>19. ASSUME NEW kind \in Kinds, RunNested(l, kind) PROVE TInv'
  BY <1>19, NestedFacts DEF RunNested, Keeps, StacksOK
<1>20. CASE HandlerDone(l)
  <2>1. [Top(l) EXCEPT !.stage = "after"] \in Op
    BY <1>2 DEF Op, Operation
  <2>2. token' \in OrNone(Staff) /\ session' \in OrNone(Staff) /\ troubles' \subseteq Trouble
    BY <1>6, <1>20 DEF HandlerDone, LoggedOff, OrNone, Trouble
  <2> QED
    BY <1>3, <1>20, <2>1, <2>2 DEF HandlerDone
<1> QED
  BY <1>1, <1>7, <1>8, <1>9, <1>10, <1>11, <1>12, <1>13, <1>14, <1>15, <1>16, <1>17, <1>18, <1>19, <1>20
     DEF Step

LEMMA TypeKept == TInv /\ [Next]_vars => TInv'
<1> SUFFICES ASSUME TInv, [Next]_vars PROVE TInv'
  OBVIOUS
<1>1. ASSUME NEW l \in Lanes, Step(l) PROVE TInv'
  BY <1>1, StepTyped
<1>2. ASSUME NEW l \in Lanes, NEW kind \in Kinds, NEW checks \in BOOLEAN, RunOperation(l, kind, checks)
      PROVE  TInv'
  BY <1>2, RunFacts DEF TInv, RunOperation, Note, Trouble, Keeps, StacksOK, RestOK
<1>3. ASSUME NEW e \in Staff, LogOn(e) PROVE TInv'
  BY <1>3 DEF TInv, LogOn, StacksOK, RestOK, OrNone
<1>4. CASE UNCHANGED vars
  BY <1>4 DEF vars, TInv, StacksOK, RestOK
<1> QED
  BY <1>1, <1>2, <1>3, <1>4 DEF Next

LEMMA TypeAlways == Spec => []TInv
  BY InitTyped, TypeKept, PTL DEF Spec

\* The stacks, the count, the override, the token and the session keep their types, and an
\* operation has left to run only what its handler runs.
THEOREM TypeCorrect == Spec => []TypeOK
<1>1. TInv => TypeOK
  BY TypeImplied
<1> QED
  BY <1>1, TypeAlways, PTL

-----------------------------------------------------------------------------
(* One lane: the others are empty unless operations overlap.               *)

Stage(l) == IF running[l] = <<>> THEN "none" ELSE Top(l).stage

\* The operations of l that the count counts.
Counted(l) == IF Stage(l) = "drawer" THEN Depth(l) - 1 ELSE Depth(l)

Asks(l) == Stage(l) \in {"override", "logon", "employee"}

AllEmptyBut(l) == \A m \in Lanes : m # l => running[m] = <<>>

\* An operation that has started another one waits in its handler.
Inner(l) == \A i \in 1 .. Depth(l) - 1 : running[l][i].stage = "handler"

\* For NotInherited: the recorded count reaches the next operation the user starts.
OverrideEnds(l) ==
    /\ elevation.operation = NoOne => elevation.manager = NoOne
    /\ Asks(l) => elevation.operation # NoOne
    /\ elevation.operation # NoOne => elevation.at >= count - Counted(l) + 1
    /\ Depth(l) = 1 /\ (Stage(l) = "before" \/ Asks(l)) => elevation.manager = NoOne

\* For RevertedToSelf: the token an override has to restore is the session's.
Restores(l) ==
    troubles \cap {"nested", "signIn", "logOff", "overlap"} = {} =>
        /\ elevation.operation = NoOne => token = session
        /\ elevation.operation # NoOne /\ elevation.manager # NoOne => elevation.employeeToken = session
        /\ elevation.operation # NoOne /\ elevation.manager = NoOne => Asks(l)
        /\ Asks(l) => elevation.manager = NoOne
        /\ Stage(l) \in {"override", "logon"} => token = session
        /\ Stage(l) \in {"logon", "employee"} => Top(l).saved = session
        /\ Stage(l) = "employee" => Top(l).manager # NoOne
        /\ session = NoOne => elevation.operation = NoOne /\ token = NoOne

\* The override asked for by the operation at place i of l lasts.
Held(l, i) ==
    /\ running[l][i].stage \in {"handler", "after"} /\ running[l][i].manager # NoOne
    /\ session # NoOne
    => /\ elevation.manager = running[l][i].manager
       /\ token = running[l][i].manager /\ elevation.at = i

\* For ElevationKept: the count of an override is the place of its operation.
Holds(l) ==
    troubles \cap {"drawer", "nested", "overlap"} = {} =>
        /\ count = Counted(l)
        /\ \A i \in 1 .. Depth(l) : Held(l, i)
        /\ Asks(l) => elevation.at = Depth(l) /\ elevation.manager = NoOne
        /\ Stage(l) = "employee" => token = Top(l).manager
        /\ Stage(l) \in {"drawer", "before", "override", "logon"} => Top(l).manager = NoOne

Lane(l) == Inner(l) /\ OverrideEnds(l) /\ Restores(l) /\ Holds(l)

LEMMA MoveFacts ==
    ASSUME StacksOK, NEW l \in Lanes, running[l] # <<>>, NEW op \in Op, SetTop(l, op), Inner(l)
    PROVE  /\ Keeps(l, Depth(l) - 1) /\ Inner(l)' /\ Depth(l) \in Nat \ {0}
           /\ Depth(l)' = Depth(l) /\ Stage(l)' = op.stage /\ Top(l)' = op
           /\ running'[l][Depth(l)] = op
<1>1. Depth(l) \in Nat \ {0}
  BY TopTyped
<1>2. /\ Keeps(l, Depth(l) - 1)
      /\ Depth(l)' = Depth(l) /\ running'[l][Depth(l)] = op /\ Top(l)' = op
  BY SetTopFacts
<1>3. running'[l] # <<>>
  BY <1>1, <1>2 DEF Depth, Keeps
<1>4. Inner(l)'
  BY <1>1, <1>2 DEF Inner, Keeps
<1> QED
  BY <1>1, <1>2, <1>3, <1>4 DEF Stage

LEMMA EndFacts ==
    ASSUME StacksOK, NEW l \in Lanes, running[l] # <<>>, Finish(l), Inner(l)
    PROVE  /\ Keeps(l, Depth(l) - 1) /\ Inner(l)' /\ Depth(l) \in Nat \ {0}
           /\ Depth(l)' = Depth(l) - 1 /\ Stage(l)' \in {"none", "handler"}
           /\ Counted(l)' = Depth(l) - 1 /\ ~Asks(l)'
<1>1. Depth(l) \in Nat \ {0}
  BY TopTyped
<1>2. Keeps(l, Depth(l) - 1) /\ Depth(l)' = Depth(l) - 1
  BY PopFacts DEF Finish
<1>3. Inner(l)'
  BY <1>1, <1>2 DEF Inner, Keeps
<1>4. Stage(l)' \in {"none", "handler"}
  <2>1. CASE running'[l] = <<>>
    BY <2>1 DEF Stage
  <2>2. CASE running'[l] # <<>>
    <3>1. Depth(l)' \in Nat \ {0}
      <4>1. running'[l] \in Seq(Op)
        BY <1>2 DEF Keeps
      <4> QED
        BY <2>2, <4>1 DEF Depth
    <3>2. running'[l][Depth(l) - 1].stage = "handler"
      BY <1>1, <1>2, <3>1 DEF Inner, Keeps
    <3> QED
      BY <1>2, <2>2, <3>2 DEF Stage, Top, Depth
  <2> QED
    BY <2>1, <2>2
<1> QED
  BY <1>1, <1>2, <1>3, <1>4 DEF Counted, Asks

\* What the conjuncts need of a step that ends the innermost operation.
LEMMA EndKeeps ==
    ASSUME TInv, NEW l \in Lanes, running[l] # <<>>, Finish(l), Inner(l), OverrideEnds(l), Holds(l),
           UNCHANGED <<token, session>>, troubles \subseteq troubles',
           elevation' = elevation \/ elevation' = Forgotten
    PROVE  /\ Inner(l)' /\ OverrideEnds(l)'
           /\ Stage(l) # "drawer" /\ (elevation' = elevation \/ elevation.manager = NoOne) => Holds(l)'
<1> USE DEF TInv, RestOK
<1>1. /\ Keeps(l, Depth(l) - 1) /\ Inner(l)' /\ Depth(l) \in Nat \ {0}
      /\ Depth(l)' = Depth(l) - 1 /\ Stage(l)' \in {"none", "handler"}
      /\ Counted(l)' = Depth(l) - 1 /\ ~Asks(l)'
  BY EndFacts
<1>2. Counted(l) \in {Depth(l) - 1, Depth(l)} /\ (Stage(l) # "drawer" => Counted(l) = Depth(l))
  BY DEF Counted
<1>3. count' = count - 1 /\ count \in Int /\ elevation.at \in Int
  BY DEF Finish, Elevation
<1>4. elevation'.at = elevation.at
  BY DEF Forgotten, Elevation
<1>5. \/ elevation'.operation = elevation.operation /\ elevation'.manager = elevation.manager
      \/ elevation'.operation = NoOne /\ elevation'.manager = NoOne
  BY DEF Forgotten, Elevation
<1>6. OverrideEnds(l)'
  BY <1>1, <1>2, <1>3, <1>4, <1>5 DEF OverrideEnds
<1>7. ASSUME Stage(l) # "drawer", elevation' = elevation \/ elevation.manager = NoOne PROVE Holds(l)'
  <2> SUFFICES ASSUME troubles' \cap {"drawer", "nested", "overlap"} = {}
               PROVE  /\ count' = Counted(l)'
                      /\ \A i \in 1 .. Depth(l)' :
                             /\ running'[l][i].stage \in {"handler", "after"}
                             /\ running'[l][i].manager # NoOne /\ session' # NoOne
                             => /\ elevation'.manager = running'[l][i].manager
                                /\ token' = running'[l][i].manager /\ elevation'.at = i
    BY <1>1 DEF Holds, Held
  <2>1. troubles \cap {"drawer", "nested", "overlap"} = {}
    OBVIOUS
  <2>2. count' = Counted(l)'
    BY <1>1, <1>2, <1>3, <1>7, <2>1 DEF Holds
  <2>3. ASSUME NEW i \in 1 .. Depth(l)', running'[l][i].stage \in {"handler", "after"},
               running'[l][i].manager # NoOne, session' # NoOne
        PROVE  /\ elevation'.manager = running'[l][i].manager
               /\ token' = running'[l][i].manager /\ elevation'.at = i
    <3>1. i \in 1 .. Depth(l) /\ running'[l][i] = running[l][i]
      BY <1>1, <2>3 DEF Keeps
    <3>2. /\ elevation.manager = running[l][i].manager
          /\ token = running[l][i].manager /\ elevation.at = i
      BY <2>1, <2>3, <3>1 DEF Holds, Held
    <3> QED
      BY <1>4, <1>7, <2>3, <3>1, <3>2
  <2> QED
    BY <2>2, <2>3
<1> QED
  BY <1>1, <1>6, <1>7

\* The steps of an operation keep its lane's invariant, unless operations overlap.
LEMMA DrawerKeeps ==
    ASSUME TInv, NEW l \in Lanes, running[l] # <<>>, Lane(l), DrawerChecked(l) \/ DrawerOpen(l)
    PROVE  Lane(l)'
<1> USE DEF TInv, RestOK, Lane
<1>1. Stage(l) = "drawer" /\ ~Asks(l) /\ Top(l) \in Op /\ Depth(l) \in Nat \ {0}
      /\ Counted(l) = Depth(l) - 1
  BY TopTyped DEF DrawerChecked, DrawerOpen, At, Stage, Asks, Counted
<1>2. CASE DrawerOpen(l)
  <2>1. Finish(l) /\ UNCHANGED <<elevation, token, session>> /\ troubles' = troubles \cup {"drawer"}
    BY <1>2 DEF DrawerOpen, Note
  <2>2. Inner(l)' /\ OverrideEnds(l)'
    BY <2>1, EndKeeps
  <2>3. ~Asks(l)' /\ Stage(l)' \in {"none", "handler"}
    BY <2>1, EndFacts
  <2>4. Restores(l)'
    BY <1>1, <2>1, <2>3 DEF Restores
  <2> QED
    BY <2>1, <2>2, <2>4 DEF Holds
<1>3. CASE DrawerChecked(l)
  <2> DEFINE op == [Top(l) EXCEPT !.stage = "before"]
  <2>1. op \in Op /\ op.stage = "before" /\ op.manager = Top(l).manager
    BY <1>1 DEF Op, Operation
  <2>2. SetTop(l, op) /\ count' = count + 1 /\ RevertToSelf(count + 1) /\ UNCHANGED <<session, troubles>>
    BY <1>3 DEF DrawerChecked
  <2> HIDE DEF op
  <2>3. /\ Keeps(l, Depth(l) - 1) /\ Inner(l)'
        /\ Depth(l)' = Depth(l) /\ Stage(l)' = "before" /\ Top(l)' = op
        /\ running'[l][Depth(l)] = op
    BY <2>1, <2>2, MoveFacts
  <2>4. ~Asks(l)' /\ Counted(l)' = Depth(l)
    BY <2>3 DEF Asks, Counted
  <2>5. \/ Reverts(count + 1) /\ token' = elevation.employeeToken /\ elevation' = NotElevated
        \/ ~Reverts(count + 1) /\ UNCHANGED <<token, elevation>>
    BY <2>2 DEF RevertToSelf
  <2>6. count \in Int /\ elevation.at \in Int
    BY DEF Elevation
  <2>7. NotElevated.operation = NoOne /\ NotElevated.manager = NoOne
    BY DEF NotElevated
  <2>8. OverrideEnds(l)'
    <3>1. CASE Reverts(count + 1)
      BY <2>4, <2>5, <2>7, <3>1 DEF OverrideEnds
    <3>2. CASE ~Reverts(count + 1)
      BY <1>1, <2>2, <2>3, <2>4, <2>5, <2>6, <3>2 DEF OverrideEnds, Reverts
    <3> QED
      BY <3>1, <3>2
  <2>9. Restores(l)'
    BY <1>1, <2>2, <2>3, <2>4, <2>5, <2>7 DEF Restores, Reverts
  <2>10. Holds(l)'
    <3> SUFFICES ASSUME troubles \cap {"drawer", "nested", "overlap"} = {}
                 PROVE  /\ count' = Depth(l)
                        /\ \A i \in 1 .. Depth(l) :
                               /\ running'[l][i].stage \in {"handler", "after"}
                               /\ running'[l][i].manager # NoOne /\ session # NoOne
                               => /\ elevation'.manager = running'[l][i].manager
                                  /\ token' = running'[l][i].manager /\ elevation'.at = i
                        /\ op.manager = NoOne
      BY <2>2, <2>3, <2>4 DEF Holds, Held
    <3>1. count' = Depth(l) /\ op.manager = NoOne
      BY <1>1, <2>1, <2>2 DEF Holds
    <3>2. ASSUME NEW i \in 1 .. Depth(l), running'[l][i].stage \in {"handler", "after"},
                 running'[l][i].manager # NoOne, session # NoOne
          PROVE  /\ elevation'.manager = running'[l][i].manager
                 /\ token' = running'[l][i].manager /\ elevation'.at = i
      <4>1. i \in 1 .. Depth(l) - 1 /\ running'[l][i] = running[l][i]
        <5>1. i # Depth(l)
          BY <2>1, <2>3, <3>2
        <5> QED
          BY <1>1, <2>3, <5>1 DEF Keeps
      <4>2. /\ elevation.manager = running[l][i].manager
            /\ token = running[l][i].manager /\ elevation.at = i
        BY <3>2, <4>1 DEF Holds, Held
      <4>3. ~Reverts(count + 1)
        BY <1>1, <2>2, <3>1, <4>1, <4>2 DEF Reverts
      <4> QED
        BY <2>5, <4>1, <4>2, <4>3
    <3> QED
      BY <3>1, <3>2
  <2> QED
    BY <2>3, <2>8, <2>9, <2>10
<1> QED
  BY <1>2, <1>3

LEMMA EndsKeep ==
    ASSUME TInv, NEW l \in Lanes, running[l] # <<>>, Lane(l),
           NotStarted(l) \/ HandlerGivesUp(l) \/ Completed(l) \/ Denied(l) \/ CancelOverride(l)
    PROVE  Lane(l)'
<1> USE DEF TInv, RestOK, Lane
<1>1. Finish(l) /\ UNCHANGED <<token, session>>
  BY DEF NotStarted, HandlerGivesUp, Completed, Denied, CancelOverride
<1>2. ~Asks(l)' /\ Stage(l)' \in {"none", "handler"}
  BY <1>1, EndFacts
<1>3. CASE NotStarted(l) \/ HandlerGivesUp(l) \/ Completed(l)
  <2>1. Stage(l) # "drawer" /\ ~Asks(l) /\ UNCHANGED <<elevation, troubles>>
    BY <1>3 DEF NotStarted, HandlerGivesUp, Completed, At, Stage, Asks
  <2>2. Inner(l)' /\ OverrideEnds(l)' /\ Holds(l)'
    BY <1>1, <2>1, EndKeeps
  <2>3. Restores(l)'
    BY <1>1, <1>2, <2>1 DEF Restores
  <2> QED
    BY <2>2, <2>3
<1>4. Forgotten.operation = NoOne /\ Forgotten.manager = NoOne
  BY DEF Forgotten, Elevation
<1>5. CASE Denied(l)
  <2>1. Stage(l) = "before" /\ ~Asks(l) /\ elevation' = Forgotten
    BY <1>5 DEF Denied, At, Stage, Asks
  <2>2. troubles \subseteq troubles' /\ ("nested" \notin troubles' => elevation.manager = NoOne)
    BY <1>5 DEF Denied, Note
  <2>3. Inner(l)' /\ OverrideEnds(l)' /\ (elevation.manager = NoOne => Holds(l)')
    BY <1>1, <2>1, <2>2, EndKeeps
  <2>4. Holds(l)'
    BY <2>2, <2>3 DEF Holds
  <2>5. Restores(l)'
    BY <1>1, <1>2, <1>4, <2>1, <2>2 DEF Restores
  <2> QED
    BY <2>3, <2>4, <2>5
<1>6. CASE CancelOverride(l)
  <2>1. Stage(l) = "override" /\ Asks(l) /\ elevation' = Forgotten /\ UNCHANGED troubles
    BY <1>6 DEF CancelOverride, At, Stage, Asks
  <2>2. Inner(l)' /\ OverrideEnds(l)' /\ (elevation.manager = NoOne => Holds(l)')
    BY <1>1, <2>1, EndKeeps
  <2>3. Holds(l)'
    BY <2>1, <2>2 DEF Holds
  <2>4. Restores(l)'
    BY <1>1, <1>2, <1>4, <2>1 DEF Restores
  <2> QED
    BY <2>2, <2>3, <2>4
<1> QED
  BY <1>3, <1>5, <1>6

LEMMA MoveHolds ==
    ASSUME TInv, NEW l \in Lanes, running[l] # <<>>, NEW op \in Op, SetTop(l, op), Inner(l),
           \A i \in 1 .. Depth(l) : Held(l, i),
           session' \in {session, NoOne},
           UNCHANGED <<elevation, token>> \/ elevation.manager = NoOne \/ session' = NoOne,
           op.stage \in {"handler", "after"} /\ op.manager # NoOne /\ session' # NoOne
               => elevation'.manager = op.manager /\ token' = op.manager /\ elevation'.at = Depth(l)
    PROVE  \A i \in 1 .. Depth(l)' : Held(l, i)'
<1>1. /\ Keeps(l, Depth(l) - 1) /\ Depth(l) \in Nat \ {0}
      /\ Depth(l)' = Depth(l) /\ running'[l][Depth(l)] = op
  BY MoveFacts DEF TInv
<1> SUFFICES ASSUME NEW i \in 1 .. Depth(l), running'[l][i].stage \in {"handler", "after"},
                    running'[l][i].manager # NoOne, session' # NoOne
             PROVE  /\ elevation'.manager = running'[l][i].manager
                    /\ token' = running'[l][i].manager /\ elevation'.at = i
  BY <1>1 DEF Held
<1>2. CASE i = Depth(l)
  BY <1>1, <1>2
<1>3. CASE i # Depth(l)
  <2>1. running'[l][i] = running[l][i]
    BY <1>1, <1>3 DEF Keeps
  <2>2. /\ elevation.manager = running[l][i].manager
        /\ token = running[l][i].manager /\ elevation.at = i
    BY <2>1 DEF Held
  <2> QED
    BY <2>1, <2>2
<1> QED
  BY <1>2, <1>3

LEMMA HandlerKeeps ==
    ASSUME TInv, NEW l \in Lanes, running[l] # <<>>, Lane(l), Allowed(l) \/ HandlerDone(l)
    PROVE  Lane(l)'
<1> USE DEF TInv, RestOK, Lane
<1> DEFINE op == [Top(l) EXCEPT !.stage = IF Allowed(l) THEN "handler" ELSE "after"]
<1>1. Top(l) \in Op /\ Depth(l) \in Nat \ {0}
  BY TopTyped
<1>2. op \in Op /\ op.stage \in {"handler", "after"} /\ op.manager = Top(l).manager
  BY <1>1 DEF Op, Operation
<1>3. SetTop(l, op) /\ UNCHANGED <<count, elevation>>
  BY DEF Allowed, HandlerDone
<1>4. /\ ~Asks(l) /\ Counted(l) = Depth(l) /\ Stage(l) \in {"before", "handler"}
      /\ Stage(l) = "before" => UNCHANGED <<token, session, troubles>>
      /\ Stage(l) = "handler" => HandlerDone(l)
  BY DEF Allowed, HandlerDone, At, Stage, Asks, Counted
<1>5. /\ session' \in {session, NoOne}
      /\ troubles \subseteq troubles'
      /\ UNCHANGED token \/ (session' = NoOne /\ token' = NoOne)
      /\ \/ UNCHANGED <<token, session>>
         \/ elevation.operation # NoOne => "logOff" \in troubles'
  BY DEF Allowed, HandlerDone, LoggedOff, Note
<1> HIDE DEF op
<1>6. /\ Inner(l)' /\ Depth(l)' = Depth(l) /\ Stage(l)' = op.stage /\ Top(l)' = op
  BY <1>2, <1>3, MoveFacts
<1>7. ~Asks(l)' /\ Counted(l)' = Depth(l)
  BY <1>2, <1>6 DEF Asks, Counted
<1>8. OverrideEnds(l)'
  BY <1>2, <1>3, <1>4, <1>6, <1>7 DEF OverrideEnds
<1>9. Restores(l)'
  <2> SUFFICES ASSUME troubles' \cap {"nested", "signIn", "logOff", "overlap"} = {}
               PROVE  /\ elevation.operation = NoOne => token' = session'
                      /\ elevation.operation # NoOne /\ elevation.manager # NoOne
                           => elevation.employeeToken = session'
                      /\ ~(elevation.operation # NoOne /\ elevation.manager = NoOne)
                      /\ session' = NoOne => elevation.operation = NoOne /\ token' = NoOne
    BY <1>2, <1>3, <1>6, <1>7 DEF Restores
  <2>1. troubles \cap {"nested", "signIn", "logOff", "overlap"} = {} /\ "logOff" \notin troubles'
    BY <1>5
  <2>2. UNCHANGED <<token, session>> \/ (elevation.operation = NoOne /\ session' = token')
    BY <2>1 DEF Allowed, HandlerDone, LoggedOff, Note
  <2>3. CASE UNCHANGED <<token, session>>
    BY <1>4, <2>1, <2>3 DEF Restores
  <2>4. CASE elevation.operation = NoOne /\ session' = token'
    BY <2>4
  <2> QED
    BY <2>2, <2>3, <2>4
<1>10. Holds(l)'
  <2> SUFFICES ASSUME troubles' \cap {"drawer", "nested", "overlap"} = {}
               PROVE  count' = Counted(l)' /\ \A i \in 1 .. Depth(l)' : Held(l, i)'
    BY <1>2, <1>6, <1>7 DEF Holds
  <2>1. /\ count = Counted(l) /\ \A i \in 1 .. Depth(l) : Held(l, i)
        /\ Stage(l) = "before" => Top(l).manager = NoOne
    BY <1>5 DEF Holds
  <2>2. Stage(l) = Top(l).stage /\ running[l][Depth(l)] = Top(l)
    BY DEF Stage, Depth, Top
  <2>3. op.manager # NoOne /\ session' # NoOne
          => elevation'.manager = op.manager /\ token' = op.manager /\ elevation'.at = Depth(l)
    BY <1>1, <1>2, <1>3, <1>4, <1>5, <2>1, <2>2 DEF Held
  <2>4. \A i \in 1 .. Depth(l)' : Held(l, i)'
    BY <1>2, <1>3, <1>5, <2>1, <2>3, MoveHolds
  <2> QED
    BY <1>3, <1>4, <1>7, <2>1, <2>4
<1> QED
  BY <1>6, <1>8, <1>9, <1>10

\* AskManager to EmployeeRead: the manager's sign-in.
LEMMA SignInKeeps ==
    ASSUME TInv, NEW l \in Lanes, running[l] # <<>>, Lane(l),
           \/ AskManager(l) \/ ManagerLogOn(l) \/ LogOnRefused(l)
           \/ \E m \in Staff : LogOnAccepted(l, m)
           \/ EmployeeRead(l) \/ EmployeeFailed(l)
    PROVE  Lane(l)'
<1> USE DEF TInv, RestOK, Lane
<1>1. /\ Top(l) \in Op /\ Depth(l) \in Nat \ {0} /\ Stage(l) = Top(l).stage
      /\ Stage(l) # "drawer" => Counted(l) = Depth(l)
  BY TopTyped DEF Stage, Counted
<1>2. /\ UNCHANGED <<count, session>> /\ troubles \subseteq troubles' /\ Stage(l) # "drawer"
      /\ Stage(l) \in {"before", "override", "logon", "employee"}
  BY DEF AskManager, ManagerLogOn, LogOnRefused, LogOnAccepted, EmployeeRead, EmployeeFailed, Note,
         At, Stage
<1>3. count \in Int /\ elevation \in Elevation /\ elevation.at \in Int
  BY DEF Elevation
\* A step to op: what remains to be shown of it.
<1>4. ASSUME NEW op \in Op, SetTop(l, op), op.stage \in {"override", "logon", "employee", "handler"}
      PROVE  /\ Inner(l)' /\ Depth(l)' = Depth(l) /\ Stage(l)' = op.stage /\ Top(l)' = op
             /\ Counted(l)' = Depth(l) /\ (Asks(l)' <=> op.stage # "handler")
  BY <1>4, MoveFacts DEF Counted, Asks
<1>5. ASSUME troubles' \cap {"drawer", "nested", "overlap"} = {}
      PROVE  count = Depth(l) /\ \A i \in 1 .. Depth(l) : Held(l, i)
  BY <1>1, <1>2, <1>5 DEF Holds
<1>6. CASE AskManager(l)
  <2> DEFINE op == [Top(l) EXCEPT !.stage = "override"]
  <2>1. op \in Op /\ op.stage = "override" /\ op.manager = Top(l).manager
    BY <1>1 DEF Op, Operation
  <2>2. /\ SetTop(l, op) /\ UNCHANGED <<token, session>>
        /\ "nested" \notin troubles' => elevation.manager = NoOne
        /\ Stage(l) = "before" /\ session # NoOne
    BY <1>6 DEF AskManager, Note, At, Stage, NeedsOverride, IsCurrentEmployeeAllowed
  <2>3. /\ elevation'.at = count /\ elevation'.operation # NoOne
        /\ elevation'.manager = elevation.manager /\ elevation'.employeeToken = elevation.employeeToken
    BY <1>1, <1>6, ConstantsAssumption DEF AskManager, Elevation, Op, Operation, ConstantsAssumption
  <2> HIDE DEF op
  <2>4. /\ Inner(l)' /\ Depth(l)' = Depth(l) /\ Stage(l)' = "override" /\ Top(l)' = op
        /\ Counted(l)' = Depth(l) /\ Asks(l)'
    BY <1>4, <2>1, <2>2
  <2>5. OverrideEnds(l)'
    BY <1>1, <1>2, <1>3, <2>2, <2>3, <2>4 DEF OverrideEnds
  <2>6. Restores(l)'
    <3>1. ~Asks(l)
      BY <2>2 DEF Asks
    <3> QED
      BY <1>2, <2>2, <2>3, <2>4, <3>1 DEF Restores
  <2>7. Holds(l)'
    <3> SUFFICES ASSUME troubles' \cap {"drawer", "nested", "overlap"} = {}
                 PROVE  /\ count = Depth(l) /\ \A i \in 1 .. Depth(l)' : Held(l, i)'
                        /\ elevation.manager = NoOne /\ op.manager = NoOne
      BY <1>2, <2>3, <2>4 DEF Holds
    <3>1. \A i \in 1 .. Depth(l)' : Held(l, i)'
      BY <1>2, <1>5, <2>1, <2>2, MoveHolds
    <3> QED
      BY <1>2, <1>5, <2>1, <2>2, <3>1 DEF Holds
  <2> QED
    BY <2>4, <2>5, <2>6, <2>7
<1>7. CASE ManagerLogOn(l) \/ LogOnRefused(l)
  <2> DEFINE op == IF ManagerLogOn(l) THEN [Top(l) EXCEPT !.stage = "logon", !.saved = token]
                   ELSE [Top(l) EXCEPT !.stage = "override", !.saved = NoOne]
  <2>1. /\ op \in Op /\ op.manager = Top(l).manager
        /\ IF ManagerLogOn(l) THEN op.stage = "logon" /\ op.saved = token ELSE op.stage = "override"
    BY <1>1 DEF Op, Operation, OrNone
  <2>2. /\ SetTop(l, op) /\ UNCHANGED <<elevation, token, session, troubles>>
        /\ Stage(l) \in {"override", "logon"} /\ Asks(l)
    BY <1>7 DEF ManagerLogOn, LogOnRefused, At, Stage, Asks
  <2> HIDE DEF op
  <2>3. /\ Inner(l)' /\ Depth(l)' = Depth(l) /\ Stage(l)' = op.stage /\ Top(l)' = op
        /\ Counted(l)' = Depth(l) /\ Asks(l)'
    BY <1>4, <2>1, <2>2
  <2>4. OverrideEnds(l)'
    BY <1>1, <1>2, <2>2, <2>3 DEF OverrideEnds
  <2>5. Restores(l)'
    BY <2>1, <2>2, <2>3 DEF Restores
  <2>6. Holds(l)'
    <3> SUFFICES ASSUME troubles \cap {"drawer", "nested", "overlap"} = {}
                 PROVE  /\ count = Depth(l) /\ \A i \in 1 .. Depth(l)' : Held(l, i)'
                        /\ elevation.at = Depth(l) /\ elevation.manager = NoOne /\ op.manager = NoOne
      BY <1>2, <2>1, <2>2, <2>3 DEF Holds
    <3>1. \A i \in 1 .. Depth(l)' : Held(l, i)'
      BY <1>2, <1>5, <2>1, <2>2, MoveHolds
    <3> QED
      BY <1>2, <1>5, <2>1, <2>2, <3>1 DEF Holds
  <2> QED
    BY <2>3, <2>4, <2>5, <2>6
<1>8. ASSUME NEW m \in Staff, LogOnAccepted(l, m) PROVE Lane(l)'
  <2> DEFINE op == [Top(l) EXCEPT !.stage = "employee", !.manager = m]
  <2>1. /\ op \in Op /\ op.manager = m /\ op.stage = "employee" /\ op.saved = Top(l).saved
        /\ m # NoOne
    BY <1>1, ConstantsAssumption DEF Op, Operation, OrNone, ConstantsAssumption
  <2>2. /\ SetTop(l, op) /\ UNCHANGED <<elevation, session, troubles>> /\ token' = m
        /\ Stage(l) = "logon" /\ Asks(l)
    BY <1>8 DEF LogOnAccepted, At, Stage, Asks
  <2> HIDE DEF op
  <2>3. /\ Inner(l)' /\ Depth(l)' = Depth(l) /\ Stage(l)' = op.stage /\ Top(l)' = op
        /\ Counted(l)' = Depth(l) /\ Asks(l)'
    BY <1>4, <2>1, <2>2
  <2>4. OverrideEnds(l)'
    BY <1>1, <1>2, <2>2, <2>3 DEF OverrideEnds
  <2>5. Restores(l)'
    BY <2>1, <2>2, <2>3 DEF Restores, OverrideEnds
  <2>6. Holds(l)'
    <3> SUFFICES ASSUME troubles \cap {"drawer", "nested", "overlap"} = {}
                 PROVE  /\ count = Depth(l) /\ \A i \in 1 .. Depth(l)' : Held(l, i)'
                        /\ elevation.at = Depth(l) /\ elevation.manager = NoOne
      BY <1>2, <2>1, <2>2, <2>3 DEF Holds
    <3>1. elevation.at = Depth(l) /\ elevation.manager = NoOne
      BY <2>2 DEF Holds
    <3>2. \A i \in 1 .. Depth(l)' : Held(l, i)'
      BY <1>2, <1>5, <2>1, <2>2, <3>1, MoveHolds
    <3> QED
      BY <1>2, <1>5, <2>2, <3>1, <3>2
  <2> QED
    BY <2>3, <2>4, <2>5, <2>6
<1>9. CASE EmployeeRead(l)
  <2> DEFINE op == [Top(l) EXCEPT !.stage = "handler", !.saved = NoOne]
  <2>1. op \in Op /\ op.manager = Top(l).manager /\ op.stage = "handler"
    BY <1>1 DEF Op, Operation, OrNone
  <2>2. /\ SetTop(l, op) /\ UNCHANGED <<token, session, troubles>> /\ Stage(l) = "employee" /\ Asks(l)
    BY <1>9 DEF EmployeeRead, At, Stage, Asks
  <2>3. /\ elevation'.at = elevation.at /\ elevation'.operation = elevation.operation
        /\ elevation'.manager = Top(l).manager /\ elevation'.employeeToken = Top(l).saved
    BY <1>9 DEF EmployeeRead, Elevation
  <2> HIDE DEF op
  <2>4. /\ Inner(l)' /\ Depth(l)' = Depth(l) /\ Stage(l)' = "handler" /\ Top(l)' = op
        /\ Counted(l)' = Depth(l) /\ ~Asks(l)'
    BY <1>4, <2>1, <2>2
  <2>5. OverrideEnds(l)'
    BY <1>1, <1>2, <2>2, <2>3, <2>4 DEF OverrideEnds
  <2>6. Restores(l)'
    BY <2>2, <2>3, <2>4 DEF Restores, OverrideEnds
  <2>7. Holds(l)'
    <3> SUFFICES ASSUME troubles \cap {"drawer", "nested", "overlap"} = {}
                 PROVE  count = Depth(l) /\ \A i \in 1 .. Depth(l)' : Held(l, i)'
      BY <1>2, <2>2, <2>4 DEF Holds
    <3>1. elevation.at = Depth(l) /\ elevation.manager = NoOne /\ token = Top(l).manager
      BY <2>2 DEF Holds
    <3>2. \A i \in 1 .. Depth(l)' : Held(l, i)'
      BY <1>2, <1>5, <2>1, <2>2, <2>3, <3>1, MoveHolds
    <3> QED
      BY <1>2, <1>5, <2>2, <3>2
  <2> QED
    BY <2>4, <2>5, <2>6, <2>7
<1>10. CASE EmployeeFailed(l)
  <2> DEFINE op == [Top(l) EXCEPT !.stage = "override", !.saved = NoOne, !.manager = NoOne]
  <2>1. op \in Op /\ op.manager = NoOne /\ op.stage = "override"
    BY <1>1 DEF Op, Operation, OrNone
  <2>2. /\ SetTop(l, op) /\ UNCHANGED <<elevation, token, session>> /\ "signIn" \in troubles'
        /\ Stage(l) = "employee" /\ Asks(l)
    BY <1>10 DEF EmployeeFailed, At, Stage, Asks, Note
  <2> HIDE DEF op
  <2>3. /\ Inner(l)' /\ Depth(l)' = Depth(l) /\ Stage(l)' = op.stage /\ Top(l)' = op
        /\ Counted(l)' = Depth(l) /\ Asks(l)'
    BY <1>4, <2>1, <2>2
  <2>4. OverrideEnds(l)'
    BY <1>1, <1>2, <2>2, <2>3 DEF OverrideEnds
  <2>5. Restores(l)'
    BY <2>2 DEF Restores
  <2>6. Holds(l)'
    <3> SUFFICES ASSUME troubles' \cap {"drawer", "nested", "overlap"} = {}
                 PROVE  /\ count = Depth(l) /\ \A i \in 1 .. Depth(l)' : Held(l, i)'
                        /\ elevation.at = Depth(l) /\ elevation.manager = NoOne
      BY <1>2, <2>1, <2>2, <2>3 DEF Holds
    <3>1. \A i \in 1 .. Depth(l)' : Held(l, i)'
      BY <1>2, <1>5, <2>1, <2>2, MoveHolds
    <3> QED
      BY <1>2, <1>5, <2>2, <3>1 DEF Holds
  <2> QED
    BY <2>3, <2>4, <2>5, <2>6
<1> QED
  BY <1>6, <1>7, <1>8, <1>9, <1>10

LEMMA NestedKeeps ==
    ASSUME TInv, NEW l \in Lanes, running[l] # <<>>, Lane(l), NEW kind \in Kinds, RunNested(l, kind)
    PROVE  Lane(l)'
<1> USE DEF TInv, Lane
<1>1. /\ Keeps(l, Depth(l) - 1) /\ Depth(l)' = Depth(l) + 1
      /\ running'[l][Depth(l)].stage = "handler"
      /\ running'[l][Depth(l)].manager = Top(l).manager
      /\ Top(l)' = NewOperation(kind, TRUE)
      /\ running'[l][Depth(l) + 1] = NewOperation(kind, TRUE)
  BY NestedFacts
<1>2. /\ NewOperation(kind, TRUE).stage = "drawer" /\ NewOperation(kind, TRUE).manager = NoOne
      /\ Depth(l) \in Nat \ {0}
  BY NewOperationTyped, TopTyped
<1>3. UNCHANGED <<count, elevation, token, session, troubles>>
  BY DEF RunNested
<1>4. /\ Stage(l) = "handler" /\ Top(l).stage = "handler" /\ running[l][Depth(l)] = Top(l)
      /\ Counted(l) = Depth(l) /\ ~Asks(l)
  BY DEF RunNested, At, Stage, Top, Depth, Counted, Asks
<1>5. Stage(l)' = "drawer"
  <2>1. running'[l] # <<>>
    BY <1>1, <1>2 DEF Depth, Keeps
  <2> QED
    BY <1>1, <1>2, <2>1 DEF Stage
<1>6. Counted(l)' = Depth(l) /\ ~Asks(l)'
  BY <1>1, <1>2, <1>5 DEF Counted, Asks
<1>7. Inner(l)'
  BY <1>1, <1>2 DEF Inner, Keeps
<1>8. OverrideEnds(l)'
  BY <1>2, <1>3, <1>4, <1>5, <1>6 DEF OverrideEnds
<1>9. Restores(l)'
  BY <1>3, <1>4, <1>5, <1>6 DEF Restores
<1>10. Holds(l)'
  <2> SUFFICES ASSUME troubles \cap {"drawer", "nested", "overlap"} = {}
               PROVE  count = Depth(l) /\ \A i \in 1 .. Depth(l) + 1 : Held(l, i)'
    BY <1>1, <1>2, <1>3, <1>5, <1>6 DEF Holds
  <2>1. count = Depth(l) /\ \A i \in 1 .. Depth(l) : Held(l, i)
    BY <1>4 DEF Holds
  <2>2. ASSUME NEW i \in 1 .. Depth(l) + 1 PROVE Held(l, i)'
    <3>1. CASE i = Depth(l) + 1
      BY <1>1, <1>2, <3>1 DEF Held
    <3>2. CASE i = Depth(l)
      <4>1. Held(l, Depth(l)) /\ running'[l][i].manager = running[l][Depth(l)].manager
        BY <1>1, <1>2, <1>4, <2>1, <3>2
      <4> QED
        BY <1>3, <1>4, <3>2, <4>1 DEF Held
    <3>3. CASE i \in 1 .. Depth(l) - 1
      <4>1. running'[l][i] = running[l][i] /\ i \in 1 .. Depth(l)
        BY <1>1, <1>2, <3>3 DEF Keeps
      <4> QED
        BY <1>3, <2>1, <4>1 DEF Held
    <3> QED
      BY <1>2, <3>1, <3>2, <3>3
  <2> QED
    BY <2>1, <2>2
<1> QED
  BY <1>7, <1>8, <1>9, <1>10

\* A step leaves the other lanes alone.
LEMMA OthersKept ==
    ASSUME TInv, NEW l \in Lanes, Step(l), NEW m \in Lanes, m # l
    PROVE  running'[m] = running[m]
<1>1. ASSUME NEW new, running' = [running EXCEPT ![l] = new] PROVE running'[m] = running[m]
  BY <1>1 DEF TInv, StacksOK
<1>2. CASE DrawerOpen(l) \/ NotStarted(l) \/ Denied(l) \/ CancelOverride(l) \/ HandlerGivesUp(l) \/ Completed(l)
  BY <1>1, <1>2 DEF Finish, DrawerOpen, NotStarted, Denied, CancelOverride, HandlerGivesUp, Completed
<1>3. CASE \E kind \in Kinds : RunNested(l, kind)
  BY <1>1, <1>3 DEF RunNested
<1>4. CASE DrawerChecked(l) \/ Allowed(l) \/ HandlerDone(l)
  BY <1>1, <1>4 DEF SetTop, DrawerChecked, Allowed, HandlerDone
<1>5. CASE AskManager(l) \/ ManagerLogOn(l) \/ LogOnRefused(l) \/ \E e \in Staff : LogOnAccepted(l, e)
  BY <1>1, <1>5 DEF SetTop, AskManager, ManagerLogOn, LogOnRefused, LogOnAccepted
<1>6. CASE EmployeeRead(l) \/ EmployeeFailed(l)
  BY <1>1, <1>6 DEF SetTop, EmployeeRead, EmployeeFailed
<1> QED
  BY <1>2, <1>3, <1>4, <1>5, <1>6 DEF Step

LEMMA LaneKept ==
    ASSUME TInv, NEW l \in Lanes, Lane(l), Step(l)
    PROVE  Lane(l)'
<1>1. running[l] # <<>>
  BY StepTyped
<1>2. CASE \E kind \in Kinds : RunNested(l, kind)
  BY <1>1, <1>2, NestedKeeps
<1>3. CASE ~\E kind \in Kinds : RunNested(l, kind)
  BY <1>1, <1>3, DrawerKeeps, EndsKeep, HandlerKeeps, SignInKeeps DEF Step
<1> QED
  BY <1>2, <1>3

\* An empty lane says only that the last override can be told from the count.
LEMMA EmptyLanes ==
    \A l, m \in Lanes :
        StacksOK /\ running[l] = <<>> /\ running[m] = <<>> /\ Lane(l) => Lane(m)
<1> SUFFICES ASSUME StacksOK, NEW l \in Lanes, NEW m \in Lanes, running[l] = <<>>, running[m] = <<>>, Lane(l)
             PROVE  Lane(m)
  OBVIOUS
<1>1. Depth(l) = 0 /\ Depth(m) = 0 /\ Stage(l) = "none" /\ Stage(m) = "none"
  BY DEF Depth, Stage
<1>2. Counted(l) = 0 /\ Counted(m) = 0 /\ ~Asks(l) /\ ~Asks(m)
  BY <1>1 DEF Counted, Asks
<1>3. Inner(m)
  BY <1>1 DEF Inner
<1>4. OverrideEnds(m)
  BY <1>1, <1>2 DEF Lane, OverrideEnds
<1>5. Restores(m)
  BY <1>1, <1>2 DEF Lane, Restores
<1>6. Holds(m)
  BY <1>1, <1>2 DEF Lane, Holds
<1> QED
  BY <1>3, <1>4, <1>5, <1>6 DEF Lane

LEMMA EmptyLanesNext ==
    (\A l, m \in Lanes :
        StacksOK /\ running[l] = <<>> /\ running[m] = <<>> /\ Lane(l) => Lane(m))'
  BY EmptyLanes, PTL

-----------------------------------------------------------------------------
(* The inductive invariant. *)

LanesInv ==
    "overlap" \notin troubles =>
        /\ \A l, m \in Lanes : running[l] # <<>> /\ running[m] # <<>> => l = m
        /\ \A l \in Lanes : AllEmptyBut(l) => Lane(l)

LEMMA LanesInit == Init => LanesInv
<1> SUFFICES ASSUME Init, NEW l \in Lanes PROVE Lane(l) /\ running[l] = <<>>
  BY DEF LanesInv
<1>1. running[l] = <<>>
  BY DEF Init
<1>2. Depth(l) = 0 /\ Stage(l) = "none" /\ Counted(l) = 0 /\ ~Asks(l)
  BY <1>1 DEF Depth, Stage, Counted, Asks
<1>3. elevation.operation = NoOne /\ elevation.manager = NoOne /\ count = 0 /\ token = session
      /\ token = NoOne
  BY DEF Init, NotElevated
<1> QED
  BY <1>1, <1>2, <1>3 DEF Lane, Inner, OverrideEnds, Restores, Holds

LEMMA StepKeepsLanes ==
    ASSUME TInv, LanesInv, NEW l \in Lanes, Step(l)
    PROVE  LanesInv'
<1> SUFFICES ASSUME "overlap" \notin troubles'
             PROVE  /\ \A k, m \in Lanes : running'[k] # <<>> /\ running'[m] # <<>> => k = m
                    /\ \A m \in Lanes : AllEmptyBut(m)' => Lane(m)'
  BY DEF LanesInv
<1>1. running[l] # <<>> /\ TInv'
  BY StepTyped
<1>2. \A m \in Lanes : m # l => running'[m] = running[m]
  BY OthersKept
<1>3. "overlap" \notin troubles
  BY DEF Step, Note, DrawerChecked, DrawerOpen, NotStarted, Allowed, Denied,
     AskManager, ManagerLogOn, EmployeeRead, EmployeeFailed, CancelOverride, LogOnRefused, LogOnAccepted,
     RunNested, HandlerDone, LoggedOff, HandlerGivesUp, Completed
<1>4. AllEmptyBut(l) /\ Lane(l)
  BY <1>1, <1>3 DEF LanesInv, AllEmptyBut
<1>5. Lane(l)'
  BY <1>4, LaneKept
<1>6. \A m \in Lanes : m # l => running'[m] = <<>>
  BY <1>2, <1>4 DEF AllEmptyBut
<1>7. ASSUME NEW m \in Lanes, AllEmptyBut(m)', m # l PROVE Lane(m)'
  <2>1. running'[l] = <<>> /\ running'[m] = <<>>
    BY <1>6, <1>7 DEF AllEmptyBut
  <2>2. StacksOK'
    BY <1>1 DEF TInv
  <2> QED
    BY <1>5, <2>1, <2>2, EmptyLanesNext
<1> QED
  BY <1>5, <1>6, <1>7

\* The user starts an operation, beside no other one.
LEMMA StartKeepsLanes ==
    ASSUME TInv, LanesInv, NEW l \in Lanes, NEW kind \in Kinds, NEW checks \in BOOLEAN,
           RunOperation(l, kind, checks)
    PROVE  LanesInv'
<1> SUFFICES ASSUME "overlap" \notin troubles'
             PROVE  /\ \A k, m \in Lanes : running'[k] # <<>> /\ running'[m] # <<>> => k = m
                    /\ \A m \in Lanes : AllEmptyBut(m)' => Lane(m)'
  BY DEF LanesInv
<1>1. /\ \A m \in Lanes : running[m] = <<>>
      /\ troubles' \in {troubles, troubles \cup {"overlap"}} /\ "overlap" \notin troubles
  BY DEF RunOperation, Note
<1>2. Lane(l)
  BY <1>1 DEF LanesInv, AllEmptyBut
<1>3. /\ Keeps(l, 0) /\ Depth(l) = 0 /\ Depth(l)' = 1
      /\ running'[l][1] = NewOperation(kind, checks) /\ Top(l)' = NewOperation(kind, checks)
      /\ NewOperation(kind, checks).stage = "drawer" /\ NewOperation(kind, checks).manager = NoOne
  BY RunFacts, NewOperationTyped DEF TInv
<1>4. running'[l] # <<>> /\ \A m \in Lanes : m # l => running'[m] = <<>>
  <2>1. running'[l] # <<>>
    BY DEF RunOperation, TInv, StacksOK
  <2> QED
    BY <1>1, <1>3, <2>1 DEF Keeps
<1>5. Stage(l) = "none" /\ Stage(l)' = "drawer"
  BY <1>1, <1>3, <1>4 DEF Stage
<1>6. Counted(l) = 0 /\ Counted(l)' = 0 /\ ~Asks(l) /\ ~Asks(l)'
  BY <1>3, <1>5 DEF Counted, Asks
<1>7. UNCHANGED <<count, elevation, token, session>> /\ troubles' = troubles
  BY <1>1 DEF RunOperation
<1>8. Inner(l)'
  BY <1>3 DEF Inner
<1>9. OverrideEnds(l)'
  BY <1>2, <1>5, <1>6, <1>7 DEF Lane, OverrideEnds
<1>10. Restores(l)'
  BY <1>2, <1>5, <1>6, <1>7 DEF Lane, Restores
<1>11. Holds(l)'
  <2>1. Held(l, 1)'
    BY <1>3 DEF Held
  <2> QED
    BY <1>2, <1>3, <1>5, <1>6, <1>7, <2>1 DEF Lane, Holds
<1>12. ASSUME NEW m \in Lanes, AllEmptyBut(m)' PROVE m = l
  BY <1>4, <1>12 DEF AllEmptyBut
<1> QED
  BY <1>4, <1>8, <1>9, <1>10, <1>11, <1>12 DEF Lane

LEMMA LogOnKeepsLanes ==
    ASSUME TInv, LanesInv, NEW e \in Staff, LogOn(e)
    PROVE  LanesInv'
<1> SUFFICES ASSUME "overlap" \notin troubles, NEW l \in Lanes PROVE Lane(l)' /\ running'[l] = <<>>
  BY DEF LanesInv, LogOn
<1>1. running[l] = <<>> /\ UNCHANGED <<running, count, elevation, troubles>>
  BY DEF LogOn
<1>2. Lane(l)
  BY DEF LogOn, LanesInv, AllEmptyBut
<1>3. /\ UNCHANGED <<Depth(l), Stage(l)>> /\ Depth(l) = 0 /\ Stage(l) = "none"
  BY <1>1 DEF Depth, Stage
<1>4. Counted(l) = 0 /\ Counted(l)' = 0 /\ ~Asks(l) /\ ~Asks(l)'
  BY <1>3 DEF Counted, Asks
<1>5. session = NoOne /\ session' = e /\ token' = e /\ e # NoOne
  BY ConstantsAssumption DEF LogOn, ConstantsAssumption
<1>6. Inner(l)' /\ OverrideEnds(l)'
  BY <1>1, <1>2, <1>3, <1>4 DEF Lane, Inner, OverrideEnds
<1>7. Restores(l)'
  BY <1>1, <1>2, <1>3, <1>4, <1>5 DEF Lane, Restores
<1>8. Holds(l)'
  BY <1>1, <1>2, <1>3, <1>4 DEF Lane, Holds
<1> QED
  BY <1>1, <1>6, <1>7, <1>8 DEF Lane

LEMMA LanesKept == TInv /\ LanesInv /\ [Next]_vars => LanesInv'
<1> SUFFICES ASSUME TInv, LanesInv, [Next]_vars PROVE LanesInv'
  OBVIOUS
<1>1. CASE UNCHANGED vars
  BY <1>1 DEF vars, LanesInv, AllEmptyBut, Lane, Inner, OverrideEnds, Restores, Holds, Held,
              Asks, Stage, Counted, Depth, Top
<1> QED
  BY <1>1, StepKeepsLanes, StartKeepsLanes, LogOnKeepsLanes DEF Next

LEMMA LanesAlways == Spec => [](TInv /\ LanesInv)
  BY InitTyped, TypeKept, LanesInit, LanesKept, PTL DEF Spec

-----------------------------------------------------------------------------
(* What it says of the override. *)

\* With a lane's own invariant, an operation of the user that is before its handler is alone.
LEMMA FirstIsTop ==
    ASSUME TInv, LanesInv, "overlap" \notin troubles, NEW l \in Lanes, running[l] # <<>>
    PROVE  /\ Lane(l) /\ Depth(l) \in Nat \ {0}
           /\ running[l][1].stage # "handler" => Depth(l) = 1 /\ Stage(l) = running[l][1].stage
<1>1. AllEmptyBut(l) /\ Lane(l)
  BY DEF LanesInv, AllEmptyBut
<1>2. Depth(l) \in Nat \ {0}
  BY TopTyped DEF TInv
<1>3. ASSUME running[l][1].stage # "handler" PROVE Depth(l) = 1
  BY <1>1, <1>2, <1>3 DEF Lane, Inner
<1> QED
  BY <1>1, <1>2, <1>3 DEF Stage, Top, Depth

\* Whatever the drawer, the sign-in, log offs and nested overrides did to the count, an operation
\* of the user does not start under the override of an earlier one.
THEOREM OverrideNotInherited == Spec => []NotInherited
<1>1. TInv /\ LanesInv => NotInherited
  <2> SUFFICES ASSUME TInv, LanesInv, NEW l \in Lanes, "overlap" \notin troubles, running[l] # <<>>,
                      running[l][1].stage \in {"before", "override", "logon", "employee"}
               PROVE  elevation.manager = NoOne
    BY DEF NotInherited
  <2>1. Lane(l) /\ Depth(l) = 1 /\ (Stage(l) = "before" \/ Asks(l))
    BY FirstIsTop DEF Asks
  <2> QED
    BY <2>1 DEF Lane, OverrideEnds
<1> QED
  BY <1>1, LanesAlways, PTL

\* Once an operation of the user has passed its start, the token in use is the employee's own.
THEOREM TokenRestored == Spec => []RevertedToSelf
<1>1. TInv /\ LanesInv => RevertedToSelf
  <2> SUFFICES ASSUME TInv, LanesInv, NEW l \in Lanes, session # NoOne, running[l] # <<>>,
                      troubles \cap {"nested", "signIn", "logOff", "overlap"} = {},
                      running[l][1].stage = "before"
               PROVE  token = session /\ elevation.operation = NoOne
    BY DEF RevertedToSelf
  <2>1. Lane(l) /\ Depth(l) = 1 /\ Stage(l) = "before"
    BY FirstIsTop
  <2>2. ~Asks(l)
    BY <2>1 DEF Asks
  <2>3. elevation.manager = NoOne
    BY <2>1 DEF Lane, OverrideEnds
  <2> QED
    BY <2>1, <2>2, <2>3 DEF Lane, Restores
<1> QED
  BY <1>1, LanesAlways, PTL

\* While the handler of the operation a manager signed in for runs, with everything it starts, the
\* manager's identity and token stay in use.
THEOREM OverrideLasts == Spec => []ElevationKept
<1>1. TInv /\ LanesInv => ElevationKept
  <2> SUFFICES ASSUME TInv, LanesInv, NEW p \in Place,
                      OperationAt(p).stage \in {"handler", "after"}, OperationAt(p).manager # NoOne,
                      session # NoOne, troubles \cap {"drawer", "nested", "overlap"} = {}
               PROVE  elevation.manager = OperationAt(p).manager /\ token = OperationAt(p).manager
    BY DEF ElevationKept
  <2> PICK l \in Lanes : p \in {l} \X DOMAIN running[l]
    BY DEF Place
  <2>1. PICK i \in DOMAIN running[l] : p = <<l, i>>
    OBVIOUS
  <2>2. running[l] \in Seq(Op)
    BY DEF TInv, StacksOK
  <2>3. running[l] # <<>> /\ i \in 1 .. Depth(l)
    BY <2>1, <2>2 DEF Depth
  <2>4. Held(l, i)
    BY <2>3, FirstIsTop DEF Lane, Holds
  <2> QED
    BY <2>1, <2>4 DEF OperationAt, Held
<1> QED
  BY <1>1, LanesAlways, PTL

-----------------------------------------------------------------------------
(* The count, with any number of operations beside one another.            *)

Past == {p \in Place : OperationAt(p).stage # "drawer"}

CountInv == "drawer" \notin troubles => IsFiniteSet(Past) /\ count = Cardinality(Past)

Passed(m, i) == i \in 1 .. Depth(m) /\ running[m][i].stage # "drawer"

LEMMA PastPairs ==
    StacksOK => /\ Past \subseteq Lanes \X Nat
                /\ \A m \in Lanes, i \in Nat : <<m, i>> \in Past <=> Passed(m, i)
<1> SUFFICES ASSUME StacksOK
             PROVE  /\ Past \subseteq Lanes \X Nat
                    /\ \A m \in Lanes, i \in Nat : <<m, i>> \in Past <=> Passed(m, i)
  OBVIOUS
<1>1. \A m \in Lanes : DOMAIN running[m] = 1 .. Depth(m) /\ Depth(m) \in Nat
  BY DEF StacksOK, Depth
<1>2. ASSUME NEW p \in Past PROVE p \in Lanes \X Nat
  <2>1. PICK m \in Lanes : p \in {m} \X DOMAIN running[m]
    BY DEF Past, Place
  <2> QED
    BY <1>1, <2>1
<1>3. ASSUME NEW m \in Lanes, NEW i \in Nat PROVE <<m, i>> \in Past <=> Passed(m, i)
  <2>1. <<m, i>> \in Place <=> i \in DOMAIN running[m]
    BY DEF Place
  <2>2. OperationAt(<<m, i>>) = running[m][i]
    BY DEF OperationAt
  <2> QED
    BY <1>1, <2>1, <2>2 DEF Past, Passed
<1> QED
  BY <1>2, <1>3

LEMMA PastPairsNext ==
    (StacksOK => /\ Past \subseteq Lanes \X Nat
                 /\ \A m \in Lanes, i \in Nat : <<m, i>> \in Past <=> Passed(m, i))'
  BY PastPairs, PTL

\* A step of lane l that keeps it below its top changes at most the top's place in Past.
LEMMA PastSteps ==
    ASSUME StacksOK, StacksOK', NEW l \in Lanes, NEW d \in Nat,
           \A m \in Lanes : m # l => running'[m] = running[m],
           \A i \in Nat : i # d => (Passed(l, i)' <=> Passed(l, i))
    PROVE  /\ Passed(l, d)' /\ ~Passed(l, d) => Past' = Past \cup {<<l, d>>} /\ <<l, d>> \notin Past
           /\ ~Passed(l, d)' /\ Passed(l, d) => Past' = Past \ {<<l, d>>} /\ <<l, d>> \in Past
           /\ (Passed(l, d)' <=> Passed(l, d)) => Past' = Past
<1>1. /\ Past \subseteq Lanes \X Nat
      /\ \A m \in Lanes, i \in Nat : <<m, i>> \in Past <=> Passed(m, i)
  BY PastPairs
<1>2. /\ Past' \subseteq Lanes \X Nat
      /\ \A m \in Lanes, i \in Nat : <<m, i>> \in Past' <=> Passed(m, i)'
  BY PastPairsNext
<1>3. ASSUME NEW m \in Lanes, NEW i \in Nat, <<m, i>> # <<l, d>>
      PROVE  <<m, i>> \in Past' <=> <<m, i>> \in Past
  <2>1. CASE m = l
    BY <1>1, <1>2, <1>3, <2>1
  <2>2. CASE m # l
    <3>1. Passed(m, i)' <=> Passed(m, i)
      BY <2>2 DEF Passed, Depth
    <3> QED
      BY <1>1, <1>2, <3>1
  <2> QED
    BY <2>1, <2>2
<1>4. \A p \in Lanes \X Nat : p # <<l, d>> => (p \in Past' <=> p \in Past)
  BY <1>3
<1>5. (<<l, d>> \in Past' <=> Passed(l, d)') /\ (<<l, d>> \in Past <=> Passed(l, d))
  BY <1>1, <1>2
<1> QED
  BY <1>1, <1>2, <1>4, <1>5

\* The three ways in which a step changes Past.
LEMMA PastMoves ==
    ASSUME StacksOK, NEW l \in Lanes, running[l] # <<>>, NEW op \in Op, SetTop(l, op)
    PROVE  /\ op.stage # "drawer" /\ Top(l).stage # "drawer" => Past' = Past
           /\ op.stage # "drawer" /\ Top(l).stage = "drawer"
                => Past' = Past \cup {<<l, Depth(l)>>} /\ <<l, Depth(l)>> \notin Past
<1>1. /\ Keeps(l, Depth(l) - 1) /\ Depth(l)' = Depth(l) /\ running'[l][Depth(l)] = op
      /\ Depth(l) \in Nat \ {0} /\ running[l][Depth(l)] = Top(l)
  BY SetTopFacts, TopTyped DEF Top, Depth
<1>2. StacksOK'
  BY <1>1 DEF Keeps, StacksOK
<1>3. \A i \in Nat : i # Depth(l) => (Passed(l, i)' <=> Passed(l, i))
  BY <1>1 DEF Passed, Keeps
<1>4. /\ Passed(l, Depth(l))' <=> op.stage # "drawer"
      /\ Passed(l, Depth(l)) <=> Top(l).stage # "drawer"
  <2>1. running'[l][Depth(l)'] = op
    BY <1>1
  <2>2. PICK n \in Nat : n = Depth(l)
    BY <1>1
  <2> QED
    BY <1>1, <2>1, <2>2 DEF Passed
<1> QED
  BY <1>1, <1>2, <1>3, <1>4, PastSteps DEF Keeps

LEMMA PastEnds ==
    ASSUME StacksOK, NEW l \in Lanes, running[l] # <<>>, Top(l).stage # "drawer", Finish(l)
    PROVE  Past' = Past \ {<<l, Depth(l)>>} /\ <<l, Depth(l)>> \in Past
<1>1. /\ Keeps(l, Depth(l) - 1) /\ Depth(l)' = Depth(l) - 1
      /\ Depth(l) \in Nat \ {0} /\ running[l][Depth(l)] = Top(l)
  BY PopFacts, TopTyped DEF Finish, Top, Depth
<1>2. StacksOK'
  BY <1>1 DEF Keeps, StacksOK
<1>3. PICK d \in Nat \ {0} : d = Depth(l)
  BY <1>1
<1>4. \A i \in Nat : i # d => (Passed(l, i)' <=> Passed(l, i))
  BY <1>1, <1>3 DEF Passed, Keeps
<1>5. Passed(l, d) /\ ~Passed(l, d)'
  BY <1>1, <1>3 DEF Passed
<1> QED
  BY <1>1, <1>2, <1>3, <1>4, <1>5, PastSteps DEF Keeps

\* An operation that starts has not passed the drawer, and the one that starts it had.
LEMMA PastStarts ==
    ASSUME StacksOK, NEW l \in Lanes, NEW kind \in Kinds, NEW checks \in BOOLEAN,
           RunNested(l, kind) \/ RunOperation(l, kind, checks)
    PROVE  Past' = Past
<1>1. CASE RunNested(l, kind)
  <2>1. /\ Keeps(l, Depth(l) - 1) /\ Depth(l)' = Depth(l) + 1
        /\ running'[l][Depth(l)].stage = "handler"
        /\ running'[l][Depth(l) + 1].stage = "drawer"
    BY <1>1, NestedFacts, NewOperationTyped
  <2>2. Depth(l) \in Nat \ {0} /\ running[l][Depth(l)].stage = "handler"
    BY <1>1, TopTyped DEF RunNested, At, Top, Depth
  <2>3. PICK d \in Nat \ {0} : d = Depth(l)
    BY <2>2
  <2>4. ASSUME NEW i \in Nat PROVE Passed(l, i)' <=> Passed(l, i)
    <3>1. CASE i = d + 1
      BY <2>1, <2>3, <3>1 DEF Passed
    <3>2. CASE i = d
      BY <2>1, <2>2, <2>3, <3>2 DEF Passed
    <3>3. CASE i # d /\ i # d + 1
      <4>1. i \in 1 .. Depth(l)' <=> i \in 1 .. d - 1
        BY <2>1, <2>3, <3>3
      <4>2. i \in 1 .. Depth(l) <=> i \in 1 .. d - 1
        BY <2>3, <3>3
      <4>3. i \in 1 .. d - 1 => running'[l][i] = running[l][i]
        BY <2>1, <2>3 DEF Keeps
      <4> QED
        BY <4>1, <4>2, <4>3 DEF Passed
    <3> QED
      BY <3>1, <3>2, <3>3
  <2>5. StacksOK'
    BY <2>1 DEF Keeps, StacksOK
  <2> QED
    BY <2>1, <2>3, <2>4, <2>5, PastSteps DEF Keeps
<1>2. CASE RunOperation(l, kind, checks)
  <2>1. /\ Keeps(l, 0) /\ Depth(l) = 0 /\ Depth(l)' = 1 /\ running'[l][1].stage = "drawer"
    BY <1>2, RunFacts, NewOperationTyped
  <2>2. \A i \in Nat : Passed(l, i)' <=> Passed(l, i)
    BY <2>1 DEF Passed
  <2>3. StacksOK'
    BY <2>1 DEF Keeps, StacksOK
  <2> QED
    BY <2>1, <2>2, <2>3, PastSteps DEF Keeps
<1> QED
  BY <1>1, <1>2

LEMMA StepKeepsCount ==
    ASSUME TInv, CountInv, NEW l \in Lanes, Step(l)
    PROVE  CountInv'
<1> USE DEF TInv
<1> SUFFICES ASSUME "drawer" \notin troubles'
             PROVE  IsFiniteSet(Past)' /\ count' = Cardinality(Past')
  BY DEF CountInv
<1>1. running[l] # <<>> /\ TInv'
  BY StepTyped
<1>2. Top(l) \in Op
  BY <1>1, TopTyped
<1>3. "drawer" \notin troubles /\ ~DrawerOpen(l)
  BY DEF Step, Note, DrawerChecked, DrawerOpen, NotStarted, Allowed, Denied,
     AskManager, ManagerLogOn, EmployeeRead, EmployeeFailed, CancelOverride, LogOnRefused, LogOnAccepted,
     RunNested, HandlerDone, LoggedOff, HandlerGivesUp, Completed
<1>4. IsFiniteSet(Past) /\ count = Cardinality(Past) /\ count \in Int
  BY <1>3 DEF CountInv, RestOK
<1>5. CASE DrawerChecked(l)
  <2>1. [Top(l) EXCEPT !.stage = "before"] \in Op /\ [Top(l) EXCEPT !.stage = "before"].stage = "before"
    BY <1>2 DEF Op, Operation
  <2>2. SetTop(l, [Top(l) EXCEPT !.stage = "before"]) /\ Top(l).stage = "drawer" /\ count' = count + 1
    BY <1>5 DEF DrawerChecked, At
  <2>3. Past' = Past \cup {<<l, Depth(l)>>} /\ <<l, Depth(l)>> \notin Past
    BY <1>1, <2>1, <2>2, PastMoves
  <2> QED
    BY <1>4, <2>2, <2>3, FS_AddElement
<1>6. CASE NotStarted(l) \/ Denied(l) \/ CancelOverride(l) \/ HandlerGivesUp(l) \/ Completed(l)
  <2>1. Finish(l) /\ Top(l).stage # "drawer"
    BY <1>6 DEF NotStarted, Denied, CancelOverride, HandlerGivesUp, Completed, At
  <2>2. Past' = Past \ {<<l, Depth(l)>>} /\ <<l, Depth(l)>> \in Past
    BY <1>1, <2>1, PastEnds
  <2>3. count' = count - 1
    BY <2>1 DEF Finish
  <2> QED
    BY <1>4, <2>2, <2>3, FS_RemoveElement
<1>7. CASE \E kind \in Kinds : RunNested(l, kind)
  BY <1>4, <1>7, PastStarts DEF RunNested
<1>8. ASSUME NEW op \in Op, SetTop(l, op), op.stage # "drawer", Top(l).stage # "drawer", UNCHANGED count
      PROVE  IsFiniteSet(Past)' /\ count' = Cardinality(Past')
  BY <1>1, <1>4, <1>8, PastMoves
<1>9. CASE Allowed(l) \/ HandlerDone(l)
  <2>1. /\ [Top(l) EXCEPT !.stage = "handler"] \in Op /\ [Top(l) EXCEPT !.stage = "handler"].stage = "handler"
        /\ [Top(l) EXCEPT !.stage = "after"] \in Op /\ [Top(l) EXCEPT !.stage = "after"].stage = "after"
    BY <1>2 DEF Op, Operation
  <2> QED
    BY <1>8, <1>9, <2>1 DEF Allowed, HandlerDone, At
<1>10. CASE AskManager(l)
  <2>1. [Top(l) EXCEPT !.stage = "override"] \in Op /\ [Top(l) EXCEPT !.stage = "override"].stage = "override"
    BY <1>2 DEF Op, Operation
  <2> QED
    BY <1>8, <1>10, <2>1 DEF AskManager, At
<1>11. CASE ManagerLogOn(l)
  <2> DEFINE op == [Top(l) EXCEPT !.stage = "logon", !.saved = token]
  <2>1. op \in Op /\ op.stage = "logon"
    BY <1>2 DEF Op, Operation, RestOK
  <2> QED
    BY <1>8, <1>11, <2>1 DEF ManagerLogOn, At
<1>12. CASE LogOnRefused(l)
  <2> DEFINE op == [Top(l) EXCEPT !.stage = "override", !.saved = NoOne]
  <2>1. op \in Op /\ op.stage = "override"
    BY <1>2 DEF Op, Operation, OrNone
  <2> QED
    BY <1>8, <1>12, <2>1 DEF LogOnRefused, At
<1>13. ASSUME NEW m \in Staff, LogOnAccepted(l, m)
       PROVE  IsFiniteSet(Past)' /\ count' = Cardinality(Past')
  <2> DEFINE op == [Top(l) EXCEPT !.stage = "employee", !.manager = m]
  <2>1. op \in Op /\ op.stage = "employee"
    BY <1>2 DEF Op, Operation, OrNone
  <2> QED
    BY <1>8, <1>13, <2>1 DEF LogOnAccepted, At
<1>14. CASE EmployeeRead(l)
  <2> DEFINE op == [Top(l) EXCEPT !.stage = "handler", !.saved = NoOne]
  <2>1. op \in Op /\ op.stage = "handler"
    BY <1>2 DEF Op, Operation, OrNone
  <2> QED
    BY <1>8, <1>14, <2>1 DEF EmployeeRead, At
<1>15. CASE EmployeeFailed(l)
  <2> DEFINE op == [Top(l) EXCEPT !.stage = "override", !.saved = NoOne, !.manager = NoOne]
  <2>1. op \in Op /\ op.stage = "override"
    BY <1>2 DEF Op, Operation, OrNone
  <2> QED
    BY <1>8, <1>15, <2>1 DEF EmployeeFailed, At
<1> QED
  BY <1>3, <1>5, <1>6, <1>7, <1>9, <1>10, <1>11, <1>12, <1>13, <1>14, <1>15 DEF Step

LEMMA CountInit == Init => CountInv
<1> SUFFICES ASSUME Init PROVE Past = {} /\ count = 0
  BY FS_EmptySet DEF CountInv
<1>1. \A l \in Lanes : DOMAIN running[l] = {}
  BY DEF Init
<1> QED
  BY <1>1 DEF Init, Past, Place

LEMMA CountKept == TInv /\ CountInv /\ [Next]_vars => CountInv'
<1> SUFFICES ASSUME TInv, CountInv, [Next]_vars PROVE CountInv'
  OBVIOUS
<1>1. ASSUME NEW l \in Lanes, NEW kind \in Kinds, NEW checks \in BOOLEAN, RunOperation(l, kind, checks)
      PROVE  CountInv'
  <2>1. Past' = Past
    BY <1>1, PastStarts DEF TInv
  <2> QED
    BY <1>1, <2>1 DEF CountInv, RunOperation, Note
<1>2. ASSUME NEW e \in Staff, LogOn(e) PROVE CountInv'
  BY <1>2 DEF LogOn, CountInv, Past, Place, OperationAt
<1>3. CASE UNCHANGED vars
  BY <1>3 DEF vars, CountInv, Past, Place, OperationAt
<1> QED
  BY <1>1, <1>2, <1>3, StepKeepsCount DEF Next

\* With any number of operations beside one another, the count is the number of those that have
\* passed the check of the drawer, until that check refuses one.
THEOREM CountFollows == Spec => []CountIsDepth
<1>1. CountInv => CountIsDepth
  BY DEF CountInv, CountIsDepth, Past
<1> QED
  BY <1>1, InitTyped, TypeKept, CountInit, CountKept, PTL DEF Spec
=============================================================================
