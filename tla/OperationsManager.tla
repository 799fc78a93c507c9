--------------------------- MODULE OperationsManager ---------------------------
(***************************************************************************)
(* The operations of the point of sale and the manager's override           *)
(* (OperationsManager, ManagerOverrideViewModel, CommerceUserAuthentication-  *)
(* Provider).                                                               *)
(*                                                                         *)
(* An operation is a queue of awaited steps; its handler may run further     *)
(* operations before it ends.  The singleton counts the operations under way *)
(* and remembers at which count a manager signed in for the cashier: the next *)
(* operation that starts at that count or below gives the cashier's token    *)
(* back.  The cash drawer, the triggers, the handlers' own work, the server  *)
(* and the user are the environment.                                        *)
(***************************************************************************)
EXTENDS Integers, Sequences, FiniteSets

CONSTANTS
    Kinds,          \* the operations (RetailOperation)
    Nests,          \* kind -> the operations its handler runs
    DrawerKinds,    \* run whatever the cash drawer's state
    OwnOnly,        \* no manager may override (ChangePassword)
    Unchecked,      \* may be run by runOperationWithoutPermissionsCheck
    LogOff,
    Staff,
    Grants,         \* staff -> the operations their permissions allow
    NoOne,          \* null, for an employee, a token's owner or an operation
    Lanes           \* bound: operations the user has started and that are under way

ASSUME ConstantsAssumption ==
    /\ Nests \in [Kinds -> SUBSET Kinds]
    /\ Grants \in [Staff -> SUBSET Kinds]
    /\ LogOff \in Kinds
    /\ NoOne \notin Staff \cup Kinds

VARIABLES
    running,    \* lane -> stack of operations under way, the innermost last
    count,      \* _operationStackCount
    elevation,  \* _operationStackCountDuringElevation and the override's fields
    token,      \* whose token the authentication provider holds
    session,    \* Session.CurrentEmployee
    troubles    \* history: what happened that the counts or the override do not survive

vars == <<running, count, elevation, token, session, troubles>>

OrNone(S) == S \cup {NoOne}

\* checks: whether permissions are checked; nested: the operations the handler has yet to run;
\* saved: the token managerLogOn read; manager: who signed in for this operation.
Operation == [kind : Kinds, checks : BOOLEAN, nested : SUBSET Kinds,
              stage : {"drawer", "before", "override", "logon", "employee", "handler", "after"},
              saved : OrNone(Staff), manager : OrNone(Staff)]

Elevation == [at : Int, operation : OrNone(Kinds),
              manager : OrNone(Staff), employeeToken : OrNone(Staff)]

Trouble == {"drawer", "signIn", "nested", "logOff", "overlap"}

TypeOK ==
    /\ running \in [Lanes -> Seq(Operation)]
    /\ \A l \in Lanes : \A i \in 1 .. Len(running[l]) :
           running[l][i].nested \subseteq Nests[running[l][i].kind]
    /\ count \in Int
    /\ elevation \in Elevation
    /\ token \in OrNone(Staff)
    /\ session \in OrNone(Staff)
    /\ troubles \subseteq Trouble

NotElevated == [at |-> -1, operation |-> NoOne, manager |-> NoOne, employeeToken |-> NoOne]

Init ==
    /\ running = [l \in Lanes |-> <<>>]
    /\ count = 0
    /\ elevation = NotElevated
    /\ token = NoOne /\ session = NoOne
    /\ troubles = {}

Below(l) == SubSeq(running[l], 1, Len(running[l]) - 1)
Top(l)   == running[l][Len(running[l])]

\* The innermost operation of l awaits the step s.
At(l, s) == running[l] # <<>> /\ Top(l).stage = s

SetTop(l, op) == running' = [running EXCEPT ![l] = Append(Below(l), op)]

Note(t, happened) == troubles' = troubles \cup (IF happened THEN {t} ELSE {})

-----------------------------------------------------------------------------
(* Starting and ending an operation. *)

\* Mutant for TypeOK: the nested operations of another kind are run too.
NewOperationAny(kind, checks) ==
    [kind |-> kind, checks |-> checks, nested |-> Kinds, stage |-> "drawer",
     saved |-> NoOne, manager |-> NoOne]

NewOperation(kind, checks) ==
    [kind |-> kind, checks |-> checks, nested |-> Nests[kind], stage |-> "drawer",
     saved |-> NoOne, manager |-> NoOne]

\* runOperation and runOperationWithoutPermissionsCheck, called by a view.
RunOperation(l, kind, checks) ==
    /\ running[l] = <<>> /\ session # NoOne
    /\ checks \/ kind \in Unchecked
    /\ running' = [running EXCEPT ![l] = <<NewOperation(kind, checks)>>]
    /\ Note("overlap", \E other \in Lanes : running[other] # <<>>)
    /\ UNCHANGED <<count, elevation, token, session>>

\* runOperation, called by the handler of another operation.
RunNested(l, kind) ==
    /\ At(l, "handler") /\ kind \in Top(l).nested
    /\ running' = [running EXCEPT ![l] =
           Append(Append(Below(l), [Top(l) EXCEPT !.nested = @ \ {kind}]),
                  NewOperation(kind, TRUE))]
    /\ UNCHANGED <<count, elevation, token, session, troubles>>

\* The queue ended, canceled or not, or was rejected.
Finish(l) ==
    /\ count' = count - 1
    /\ running' = [running EXCEPT ![l] = Below(l)]

\* Mutants for ElevationKept and NotInherited: any operation reverts; only one that starts
\* below the elevation's count does.
RevertsAlways(n) == elevation.operation # NoOne
RevertsBelow(n)  == n < elevation.at /\ elevation.operation # NoOne

\* revertToSelf, for an operation that starts when n are under way.
Reverts(n) == n <= elevation.at /\ elevation.operation # NoOne

\* Mutant for RevertedToSelf: the fields are reset, the token is not restored.
RevertToSelfFields(n) ==
    /\ elevation' = IF Reverts(n) THEN NotElevated ELSE elevation
    /\ UNCHANGED token

RevertToSelf(n) ==
    IF Reverts(n)
    THEN token' = elevation.employeeToken /\ elevation' = NotElevated
    ELSE UNCHANGED <<token, elevation>>

\* validateDrawerStatus finds the drawer closed, cannot tell or does not ask.
DrawerChecked(l) ==
    /\ At(l, "drawer")
    /\ count' = count + 1
    /\ RevertToSelf(count + 1)
    /\ SetTop(l, [Top(l) EXCEPT !.stage = "before"])
    /\ UNCHANGED <<session, troubles>>

DrawerOpen(l) ==
    /\ At(l, "drawer") /\ Top(l).kind \notin DrawerKinds
    /\ "drawer" \notin troubles   \* bound: it is found open once
    /\ Finish(l)
    /\ Note("drawer", TRUE)
    /\ UNCHANGED <<elevation, token, session>>

-----------------------------------------------------------------------------
(* Permissions and the manager's override. *)

IsCurrentEmployeeAllowed(kind) == session = NoOne \/ kind \in Grants[session]

NeedsOverride(op) == op.checks /\ ~IsCurrentEmployeeAllowed(op.kind)

\* The override's queue was rejected: its .fail handler.
Forgotten == [elevation EXCEPT !.operation = NoOne, !.manager = NoOne, !.employeeToken = NoOne]

\* A trigger, the pre-handler or a validator cancels or rejects the operation.
NotStarted(l) ==
    /\ At(l, "before")
    /\ Finish(l)
    /\ UNCHANGED <<elevation, token, session, troubles>>

\* They all pass and the permissions, if they are checked, suffice.
Allowed(l) ==
    /\ At(l, "before") /\ ~NeedsOverride(Top(l))
    /\ SetTop(l, [Top(l) EXCEPT !.stage = "handler"])
    /\ UNCHANGED <<count, elevation, token, session, troubles>>

\* No manager may override the permissions.
Denied(l) ==
    /\ At(l, "before") /\ NeedsOverride(Top(l)) /\ Top(l).kind \in OwnOnly
    /\ elevation' = Forgotten
    /\ Finish(l)
    /\ Note("nested", elevation.manager # NoOne)
    /\ UNCHANGED <<token, session>>

\* The manager is asked to sign in.
AskManager(l) ==
    /\ At(l, "before") /\ NeedsOverride(Top(l)) /\ Top(l).kind \notin OwnOnly
    /\ elevation' = [elevation EXCEPT !.at = count, !.operation = Top(l).kind]
    /\ SetTop(l, [Top(l) EXCEPT !.stage = "override"])
    /\ Note("nested", elevation.manager # NoOne)
    /\ UNCHANGED <<count, token, session>>

\* managerLogOn: the token to go back to is read, the log on sent.
ManagerLogOn(l) ==
    /\ At(l, "override")
    /\ SetTop(l, [Top(l) EXCEPT !.stage = "logon", !.saved = token])
    /\ UNCHANGED <<count, elevation, token, session, troubles>>

\* The server accepts the log on of m, or refuses the one it was sent.
LogOnAccepted(l, m) ==
    /\ At(l, "logon") /\ Top(l).kind \in Grants[m]
    /\ token' = m
    /\ SetTop(l, [Top(l) EXCEPT !.stage = "employee", !.manager = m])
    /\ UNCHANGED <<count, elevation, session, troubles>>

LogOnRefused(l) ==
    /\ At(l, "logon")
    /\ SetTop(l, [Top(l) EXCEPT !.stage = "override", !.saved = NoOne])
    /\ UNCHANGED <<count, elevation, token, session, troubles>>

\* getEmployeeAsync: the override is recorded, or the dialog stays.
EmployeeRead(l) ==
    /\ At(l, "employee")
    /\ elevation' = [elevation EXCEPT !.manager = Top(l).manager,
                                      !.employeeToken = Top(l).saved]
    /\ SetTop(l, [Top(l) EXCEPT !.stage = "handler", !.saved = NoOne])
    /\ UNCHANGED <<count, token, session, troubles>>

EmployeeFailed(l) ==
    /\ At(l, "employee")
    /\ "signIn" \notin troubles   \* bound: it fails once
    /\ SetTop(l, [Top(l) EXCEPT !.stage = "override", !.saved = NoOne, !.manager = NoOne])
    /\ Note("signIn", TRUE)
    /\ UNCHANGED <<count, elevation, token, session>>

CancelOverride(l) ==
    /\ At(l, "override")
    /\ elevation' = Forgotten
    /\ Finish(l)
    /\ UNCHANGED <<token, session, troubles>>

-----------------------------------------------------------------------------
(* The handler. *)

\* LogoffOperationHandler: the provider's token is dropped, the session emptied.
LoggedOff(kind) ==
    IF kind = LogOff
    THEN /\ token' = NoOne /\ session' = NoOne
         /\ Note("logOff", elevation.operation # NoOne)
    ELSE UNCHANGED <<token, session, troubles>>

HandlerDone(l) ==
    /\ At(l, "handler")
    /\ LoggedOff(Top(l).kind)
    /\ SetTop(l, [Top(l) EXCEPT !.stage = "after"])
    /\ UNCHANGED <<count, elevation>>

\* The handler is canceled, rejected or throws.
HandlerGivesUp(l) ==
    /\ At(l, "handler")
    /\ Finish(l)
    /\ UNCHANGED <<elevation, token, session, troubles>>

\* The post-handler and the post-trigger end, or one of them fails.
Completed(l) ==
    /\ At(l, "after")
    /\ Finish(l)
    /\ UNCHANGED <<elevation, token, session, troubles>>

\* LoginViewModel.operatorLogOn, from the log on view.
LogOn(e) ==
    /\ session = NoOne /\ \A l \in Lanes : running[l] = <<>>
    /\ session' = e /\ token' = e
    /\ UNCHANGED <<running, count, elevation, troubles>>

-----------------------------------------------------------------------------
Step(l) ==
    \/ DrawerChecked(l) \/ DrawerOpen(l)
    \/ NotStarted(l) \/ Allowed(l) \/ Denied(l)
    \/ AskManager(l) \/ ManagerLogOn(l) \/ EmployeeRead(l) \/ EmployeeFailed(l)
    \/ CancelOverride(l)
    \/ LogOnRefused(l) \/ \E m \in Staff : LogOnAccepted(l, m)
    \/ \E kind \in Kinds : RunNested(l, kind)
    \/ HandlerDone(l) \/ HandlerGivesUp(l) \/ Completed(l)

Next ==
    \/ \E l \in Lanes : Step(l)
    \/ \E l \in Lanes, kind \in Kinds, checks \in BOOLEAN : RunOperation(l, kind, checks)
    \/ \E e \in Staff : LogOn(e)

Spec == Init /\ [][Next]_vars

-----------------------------------------------------------------------------
(* Properties. *)

Place == UNION {{l} \X DOMAIN running[l] : l \in Lanes}
OperationAt(p) == running[p[1]][p[2]]

\* The stack count is the number of operations that have passed the check of the drawer,
\* as long as none was refused by it: a refused one is subtracted and was never added.
CountIsDepth ==
    "drawer" \notin troubles => count = Cardinality({p \in Place : OperationAt(p).stage # "drawer"})

\* While the handler a manager signed in for runs, with all that it nests, the manager's
\* identity and token are the ones in use: no nested operation reverts to self.  A drawer
\* found open, an override asked within the override and an overlapping operation break this.
ElevationKept ==
    \A p \in Place :
        LET op == OperationAt(p) IN
        (/\ op.stage \in {"handler", "after"} /\ op.manager # NoOne
         /\ session # NoOne /\ troubles \cap {"drawer", "nested", "overlap"} = {})
            => elevation.manager = op.manager /\ token = op.manager

\* An operation the user starts does not inherit the override of an earlier one, whatever
\* the drawer and the sign-in did to the counts, unless two operations overlap.
NotInherited ==
    \A l \in Lanes :
        ("overlap" \notin troubles /\ running[l] # <<>>
            /\ running[l][1].stage \in {"before", "override", "logon", "employee"})
        => elevation.manager = NoOne

\* "Revert to Self if elevated before": once an operation the user started has passed its
\* start, the token in use is the session employee's own.  An override within the
\* override, a half failed sign-in and a log off under an override break this.
RevertedToSelf ==
    \A l \in Lanes :
        (/\ troubles \cap {"nested", "signIn", "logOff", "overlap"} = {} /\ session # NoOne
         /\ running[l] # <<>> /\ running[l][1].stage = "before")
        => token = session /\ elevation.operation = NoOne
=============================================================================
