---------------------------- MODULE ShiftLifecycle ----------------------------
(***************************************************************************)
(* Shifts in the Commerce Runtime: opening, using, suspending, resuming and *)
(* closing them from several terminals of a store.                          *)
(*                                                                         *)
(* A handler reads a shift through SHIFTSVIEW, checks it in memory, and then *)
(* calls a stored procedure.  Only the procedure that closes a shift opens a *)
(* transaction; the others run statement by statement, so each statement is  *)
(* a step here and other terminals' steps come between.  A handler that      *)
(* refuses its request changes nothing: its action is then disabled.         *)
(***************************************************************************)
EXTENDS Naturals, FiniteSets

CONSTANTS
    Terminals, NoTerminal,  \* NoTerminal: the view's NULL
    Staff, NoStaff,
    Permissions,  \* [Staff -> SUBSET Permission]
    Drawers,      \* names a terminal may ask for, "" when its profile has no drawer
    Ids,          \* shift numbers of one terminal
    MaxCalls,     \* bound: requests that pass their checks
    MaxFaults     \* bound: transient errors of a stored procedure, by whether requests overlap

Permission == {"manager", "multipleLogins", "manageSharedShift", "useSharedShift",
               "multipleShiftLogOn"}

SharedDrawer == ""      \* a shared shift is opened without a drawer name
NoDrawer     == "null"

ASSUME ConstantsAssumption ==
    /\ Terminals # {} /\ Ids # {}
    /\ NoTerminal \notin Terminals
    /\ NoStaff \notin Staff
    /\ Permissions \in [Staff -> SUBSET Permission]
    /\ NoDrawer \notin Drawers
    /\ MaxCalls \in Nat /\ MaxFaults \in [BOOLEAN -> Nat]

Key == Terminals \X Ids   \* the terminal a shift was opened on, and its number

Status == {"None", "Open", "Suspended", "BlindClosed"}   \* None: not in the table

VARIABLES
    staging,  \* RETAILSHIFTSTAGINGTABLE
    users,    \* RETAILSHIFTUSERSSTAGINGTABLE: who uses which shift on which terminal
    closed,   \* RETAILPOSBATCHTABLE: the closed shifts
    dbts,     \* the last row version the database handed out
    call,     \* the request each terminal has in progress
    numbered, \* shift numbers taken from the terminals' number sequences
    concurrent, \* whether requests of several terminals overlap in this behaviour
    begun, faults

tables == <<staging, users, closed, dbts>>
bounds == <<numbered, concurrent, begun, faults>>
vars   == <<tables, call, bounds>>

Row == [owner : Staff \cup {NoStaff}, status : Status,
        drawer : Drawers \cup {NoDrawer, SharedDrawer}, shared : BOOLEAN, version : Nat]

NoRow == [owner |-> NoStaff, status |-> "None", drawer |-> NoDrawer,
          shared |-> FALSE, version |-> 0]

\* CURRENTTERMINALID and CURRENTSTAFFID of a row of the view.
Use == [terminal : Terminals \cup {NoTerminal}, staff : Staff \cup {NoStaff}]
NoUse == [terminal |-> NoTerminal, staff |-> NoStaff]

Stage == {"idle", "checkDrawer", "upsert", "update", "close", "users"}

\* proc: the first statement of the stored procedure in progress; row: the shift
\* as the handler will write it, with the version it was read at.
Call == [stage : Stage, proc : {"upsert", "update"}, key : Key, row : Row, use : Use]

Idle == [stage |-> "idle", proc |-> "update", key |-> CHOOSE k \in Key : TRUE,
         row |-> NoRow, use |-> NoUse]

\* A request that writes an open shift brings the terminal and employee that use it.
BringsUse(q) ==
    q.stage \in {"checkDrawer", "upsert", "update", "users"} /\ q.row.status = "Open"
        => q.use \in [terminal : Terminals, staff : Staff]

TypeOK ==
    /\ staging \in [Key -> Row]
    /\ users \subseteq [key : Key, terminal : Terminals, staff : Staff]
    /\ closed \subseteq Key
    /\ dbts \in Nat
    /\ call \in [Terminals -> Call] /\ \A t \in Terminals : BringsUse(call[t])
    /\ numbered \subseteq Key
    /\ concurrent \in BOOLEAN
    /\ begun \in 0 .. MaxCalls
    /\ faults \in Nat

Init ==
    /\ staging = [k \in Key |-> NoRow]
    /\ users = {}
    /\ closed = {}
    /\ dbts = 0
    /\ call = [t \in Terminals |-> Idle]
    /\ numbered = {}
    /\ concurrent \in BOOLEAN
    /\ begun = 0
    /\ faults = 0

-----------------------------------------------------------------------------
(* What the handlers read. *)

\* One row of the view for each use of the shift, or one without a use.
UsesIn(k) ==
    LET rows == {[terminal |-> u.terminal, staff |-> u.staff] :
                    u \in {v \in users : v.key = k}}
    IN  IF rows = {} THEN {NoUse} ELSE rows

Manager(u)     == "manager" \in Permissions[u]
May(u, p)      == Manager(u) \/ p \in Permissions[u]
SeesShared(u)  == May(u, "manageSharedShift") \/ May(u, "useSharedShift")
Holds(u, k, w) == staging[k].owner = u \/ w.staff = u

OpenShifts == {k \in Key : staging[k].status = "Open"}

\* Mutant: only shared shifts occupy a drawer.
DrawerFreeOfShared(t, d) ==
    \A k \in OpenShifts : ~(staging[k].drawer = d /\ staging[k].shared)

\* No open shift on this drawer that is shared or in use on this terminal.
DrawerFree(t, d) ==
    \A k \in OpenShifts : \A w \in UsesIn(k) :
        ~(staging[k].drawer = d /\ (staging[k].shared \/ w.terminal = t))

\* The request passed its checks; the stored procedure, or the next read, follows.
Begin(t, stage, proc, k, row, w) ==
    /\ begun < MaxCalls
    /\ begun' = begun + 1
    /\ call' = [call EXCEPT ![t] = [stage |-> stage, proc |-> proc, key |-> k,
                                    row |-> row, use |-> w]]
    /\ UNCHANGED <<tables, concurrent, faults>>

MayBegin(t) ==
    /\ call[t].stage = "idle"
    /\ concurrent \/ \A s \in Terminals : call[s].stage = "idle"

\* The shift exists and this employee's search returns it.
Finds(u, k) ==
    /\ staging[k].status # "None"
    /\ staging[k].shared => SeesShared(u)

-----------------------------------------------------------------------------
(* The handlers. *)

CreateShift(t, u, k, d, shared) ==
    /\ MayBegin(t)
    /\ k[1] = t /\ k \notin numbered
    /\ shared => d = SharedDrawer /\ May(u, "manageSharedShift")
    /\ May(u, "multipleLogins")
        \/ \A j \in OpenShifts : \A w \in UsesIn(j) : ~Holds(u, j, w)
    /\ DrawerFree(t, d)
    /\ numbered' = numbered \cup {k}
    /\ Begin(t, "upsert", "upsert", k,
             [owner |-> u, status |-> "Open", drawer |-> d, shared |-> shared, version |-> 0],
             [terminal |-> t, staff |-> u])

\* The transitions ShiftTransitionHelper knows.
Transitions == {<<"Open", "Closed">>, <<"Open", "BlindClosed">>,
                <<"Open", "Suspended">>, <<"BlindClosed", "Closed">>}

CanChangeStatus(t, u, k, w) ==
    /\ staging[k].shared => May(u, "manageSharedShift")
    /\ staging[k].status = "Open" /\ ~staging[k].shared => t \in {k[1], w.terminal}
    /\ Manager(u) \/ Holds(u, k, w)

\* Mutant: every change, the closing one too, only writes the new status.
ChangedOnlyStatus(row, to) == [row EXCEPT !.status = to]

\* The row as SuspendShift and BlindCloseShift leave it; closing moves it instead.
Changed(row, to) ==
    CASE to = "Suspended"   -> [row EXCEPT !.status = to, !.drawer = NoDrawer]
      [] to = "BlindClosed" -> [row EXCEPT !.status = to]
      [] to = "Closed"      -> row

ChangeShiftStatus(t, u, k, to) ==
    /\ MayBegin(t)
    /\ Finds(u, k)
    /\ <<staging[k].status, to>> \in Transitions
    /\ \E w \in UsesIn(k) :
        /\ CanChangeStatus(t, u, k, w)
        /\ Begin(t, IF to = "Closed" THEN "close" ELSE "update", "update", k,
                 Changed(staging[k], to), w)
    /\ UNCHANGED numbered

\* Validated but for the cash drawer, which a second read answers.
ResumeShift(t, u, k, d) ==
    /\ MayBegin(t)
    /\ Finds(u, k)
    /\ staging[k].status = "Suspended"
    /\ \E w \in UsesIn(k) :
        IF staging[k].shared
        THEN d = SharedDrawer /\ May(u, "manageSharedShift")
        ELSE Holds(u, k, w) \/ May(u, "multipleShiftLogOn")
    /\ Begin(t, "checkDrawer", "update", k,
             [staging[k] EXCEPT !.status = "Open", !.drawer = d],
             [terminal |-> t, staff |-> u])
    /\ UNCHANGED numbered

CheckDrawer(t) ==
    /\ call[t].stage = "checkDrawer"
    /\ call' = [call EXCEPT ![t] =
                    IF DrawerFree(t, @.row.drawer) THEN [@ EXCEPT !.stage = "update"] ELSE Idle]
    /\ UNCHANGED <<tables, bounds>>

CanUse(t, u, k, w) ==
    /\ staging[k].status = "Open"
    /\ w.terminal = t \/ staging[k].shared
    /\ Holds(u, k, w) \/ May(u, IF staging[k].shared THEN "useSharedShift"
                                                     ELSE "multipleShiftLogOn")

UseShift(t, u, k) ==
    /\ MayBegin(t)
    /\ \E w \in UsesIn(k) : CanUse(t, u, k, w)
    /\ Begin(t, "update", "update", k, staging[k], [terminal |-> t, staff |-> u])
    /\ UNCHANGED numbered

-----------------------------------------------------------------------------
(* The stored procedures, a statement at a time. *)

WriteRow(t) ==
    /\ dbts' = dbts + 1
    /\ staging' = [staging EXCEPT ![call[t].key] = [call[t].row EXCEPT !.version = dbts + 1]]

\* UPSERTSHIFTSTAGING inserts the row, or overwrites the one there is.
UpsertStaging(t) ==
    /\ call[t].stage = "upsert"
    /\ WriteRow(t)
    /\ call' = [call EXCEPT ![t].stage = "users"]
    /\ UNCHANGED <<users, closed, bounds>>

AtVersionRead(t) ==
    /\ staging[call[t].key].status # "None"
    /\ staging[call[t].key].version = call[t].row.version

\* Mutant: the row is written whatever happened to it since it was read.
UpdateAnyVersion(t) ==
    /\ call[t].stage = "update"
    /\ IF staging[call[t].key].status # "None" THEN WriteRow(t)
                                               ELSE UNCHANGED <<staging, dbts>>
    /\ call' = [call EXCEPT ![t].stage = "users"]
    /\ UNCHANGED <<users, closed, bounds>>

\* Mutant: the update inserts a missing row, as UPSERTSHIFTSTAGING does.
UpdateInserts(t) ==
    /\ call[t].stage = "update"
    /\ IF staging[call[t].key].status = "None" \/ AtVersionRead(t)
       THEN WriteRow(t) ELSE UNCHANGED <<staging, dbts>>
    /\ call' = [call EXCEPT ![t].stage = "users"]
    /\ UNCHANGED <<users, closed, bounds>>

\* UPDATESHIFTSTAGING writes the row if its version is the one read; it looks at
\* the number of rows only after UPSERTSHIFTUSERSSTAGING.
UpdateStaging(t) ==
    /\ call[t].stage = "update"
    /\ IF AtVersionRead(t) THEN WriteRow(t) ELSE UNCHANGED <<staging, dbts>>
    /\ call' = [call EXCEPT ![t].stage = "users"]
    /\ UNCHANGED <<users, closed, bounds>>

UsersOf(k) == {v \in users : v.key = k}

\* An open shift gains a use; any other loses all of them, unless the use that was
\* read is NULL, which the procedure's NOT NULL columns refuse.
UpsertUsers(t) ==
    LET q == call[t] IN
    /\ q.stage = "users"
    /\ users' = IF q.row.status = "Open"
                THEN users \cup {[key |-> q.key, terminal |-> q.use.terminal,
                                  staff |-> q.use.staff]}
                ELSE IF q.use = NoUse THEN users ELSE users \ UsersOf(q.key)
    /\ call' = [call EXCEPT ![t] = Idle]
    /\ UNCHANGED <<staging, closed, dbts, bounds>>

\* Mutant: the users of a closed shift are left behind.
CloseKeepsUsers(t) ==
    LET k == call[t].key IN
    /\ call[t].stage = "close"
    /\ IF staging[k].status = "None" \/ k \in closed
       THEN UNCHANGED tables
       ELSE /\ staging' = [staging EXCEPT ![k] = NoRow]
            /\ closed' = closed \cup {k}
            /\ UNCHANGED <<users, dbts>>
    /\ call' = [call EXCEPT ![t] = Idle]
    /\ UNCHANGED bounds

\* DELETESHIFTSTAGINGANDINSERTSHIFT is one transaction; it deletes by key, whatever
\* the version, and is rolled back when there is no such row.
CloseStaging(t) ==
    LET k == call[t].key IN
    /\ call[t].stage = "close"
    /\ IF staging[k].status = "None" \/ k \in closed
       THEN UNCHANGED tables
       ELSE /\ staging' = [staging EXCEPT ![k] = NoRow]
            /\ users' = users \ UsersOf(k)
            /\ closed' = closed \cup {k}
            /\ UNCHANGED dbts
    /\ call' = [call EXCEPT ![t] = Idle]
    /\ UNCHANGED bounds

\* ValidateStartingAmountsAndTenderDeclarationForClose refuses.
AmountsMissing(t) ==
    /\ call[t].stage = "close"
    /\ call' = [call EXCEPT ![t] = Idle]
    /\ UNCHANGED <<tables, bounds>>

\* A transient error of the second statement: the retry policy executes the
\* procedure again with the same parameters, after the first one has committed.
Retry(t) ==
    /\ call[t].stage = "users"
    /\ faults < MaxFaults[concurrent]
    /\ faults' = faults + 1
    /\ call' = [call EXCEPT ![t].stage = call[t].proc]
    /\ UNCHANGED <<tables, numbered, concurrent, begun>>

-----------------------------------------------------------------------------

Handler(t) ==
    \E u \in Staff, k \in Key :
        \/ \E d \in Drawers, shared \in BOOLEAN : CreateShift(t, u, k, d, shared)
        \/ \E to \in {"Closed", "BlindClosed", "Suspended"} : ChangeShiftStatus(t, u, k, to)
        \/ \E d \in Drawers : ResumeShift(t, u, k, d)
        \/ UseShift(t, u, k)

Procedure(t) ==
    \/ CheckDrawer(t)
    \/ UpsertStaging(t)
    \/ UpdateStaging(t)
    \/ UpsertUsers(t)
    \/ CloseStaging(t)
    \/ AmountsMissing(t)
    \/ Retry(t)

Next == \E t \in Terminals : Handler(t) \/ Procedure(t)

Spec == Init /\ [][Next]_vars

-----------------------------------------------------------------------------
(* Properties. *)

Answered == \A t \in Terminals : call[t].stage = "idle"

\* When requests do not overlap, the two staging tables agree between them: a shift has
\* users exactly while it is open.  Each procedure writes both, and a retry repeats only
\* the second.
UsersWhileOpen ==
    Answered /\ ~concurrent => \A k \in Key : staging[k].status = "Open" <=> UsersOf(k) # {}

\* A shift that is not shared is in use on one terminal: "we can only use an open
\* shift on a different terminal if it is a shared shift".
OneTerminalAlways ==
    Answered => \A v, w \in users :
        v.key = w.key /\ ~staging[v.key].shared => v.terminal = w.terminal

\* When requests do not overlap, two open shifts on the same drawer are neither both
\* shared nor both in use on one terminal without being shared; CreateShift and
\* ResumeShift look before they write, UseShift does not look.
DrawerExclusive ==
    Answered /\ ~concurrent => \A j, k \in OpenShifts :
        j # k /\ staging[j].drawer = staging[k].drawer =>
            /\ ~(staging[j].shared /\ staging[k].shared)
            /\ ~staging[j].shared /\ ~staging[k].shared =>
                \A v \in UsersOf(j), w \in UsersOf(k) : v.terminal # w.terminal

NoneReturned == \A k \in closed : staging[k].status = "None"

\* Until a procedure is retried, a closed shift never comes back to the staging table,
\* however late a request that read it open arrives there.
ClosedForGood == faults = 0 => NoneReturned

\* Until a procedure is retried and whatever requests overlap, a shift's status is updated
\* only along the transitions of ShiftTransitionHelper and ResumeShift: the version a handler
\* read at protects what it decided from what others did meanwhile.  It protects no close:
\* DELETESHIFTSTAGING does not compare the version, so a close follows the transitions as
\* long as the row it was decided on is the row there, and takes any other row as it is.
Moves == {<<"None", "Open">>, <<"Open", "Suspended">>, <<"Open", "BlindClosed">>,
          <<"Suspended", "Open">>}

LeavesClosed(k) ==
    \E t \in Terminals :
        /\ call[t].stage = "close" /\ call[t].key = k /\ call'[t].stage = "idle"
        /\ k \in closed'
        /\ AtVersionRead(t) => <<staging[k].status, "Closed">> \in Transitions

StatusMoves ==
    [][faults' = 0 => \A k \in Key : staging'[k].status # staging[k].status =>
        \/ <<staging[k].status, staging'[k].status>> \in Moves
        \/ staging'[k].status = "None" /\ LeavesClosed(k)]_vars

DrawersFollow ==
    \A k \in Key : staging[k].status # "None" =>
        (staging[k].drawer = NoDrawer <=> staging[k].status = "Suspended")

\* Until a procedure is retried, a suspended shift has let its drawer go, and no other
\* shift has.
DrawerReleased == faults = 0 => DrawersFollow
=============================================================================
