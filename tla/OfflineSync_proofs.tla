-------------------------- MODULE OfflineSync_proofs --------------------------
(***************************************************************************)
(* What the synchronisation keeps for every number of sessions,             *)
(* transactions, troubles and overlapping runs.                             *)
(***************************************************************************)
EXTENDS OfflineSync, FiniteSetTheorems, TLAPS

(* Types: a run has the calls of its own loop only. *)

LEMMA StagesKnown ==
    /\ StagesOf("download") = {"none", "name", "sessions", "link", "file", "apply", "report"}
    /\ StagesOf("upload") = {"none", "name", "load", "send", "purge", "unmark"}
  BY DEF StagesOf

\* The type of a run of loop k.
RunOf(k) == [stage : StagesOf(k), terminal : BOOLEAN, todo : SUBSET Sessions,
             session : SUBSET Sessions, status : {"Requested", "Failed", "Applied"},
             loaded : SUBSET Txns]

ControlOK ==
    /\ handle \in [Kind -> {"zero", "spent", "armed"}]
    /\ orphans \in [Kind -> Nat]
    /\ syncing \in [Kind -> BOOLEAN]
    /\ offlineSyncing \in BOOLEAN /\ disabled \in BOOLEAN
    /\ run \in [Id -> UNION {RunOf(k) : k \in Kind}]
    /\ \A x \in Id : run[x] \in RunOf(x[1])

DataOK ==
    /\ prepared \subseteq Sessions
    /\ applied \subseteq Sessions
    /\ txn \in [Txns -> {"unmade", "new", "marked", "purged"}]
    /\ received \in [Txns -> Nat]

RestOK ==
    /\ register \in {"null", "blank", "known"}
    /\ offlineStore \in BOOLEAN /\ reachable \in BOOLEAN /\ overlapped \in BOOLEAN
    /\ resets \in 0 .. MaxTroubles /\ changes \in 0 .. MaxTroubles /\ faults \in 0 .. MaxTroubles

TInv == ControlOK /\ DataOK /\ RestOK

LEMMA IdKinds == ASSUME NEW x \in Id PROVE x[1] \in Kind /\ x[2] \in Slots /\ x = <<x[1], x[2]>>
  BY DEF Id

LEMMA TypeImplied == ASSUME TInv PROVE TypeOK
<1>1. ASSUME NEW k \in Kind PROVE RunOf(k) \subseteq Run
  BY DEF RunOf, Run
<1>2. run \in [Id -> Run]
  BY <1>1, IdKinds DEF TInv, ControlOK
<1>3. \A x \in Id : run[x].stage \in StagesOf(x[1])
  BY DEF TInv, ControlOK, RunOf
<1> QED
  BY <1>2, <1>3, Zenon DEF TInv, ControlOK, DataOK, RestOK, TypeOK

LEMMA NoRunTyped == ASSUME NEW k \in Kind PROVE NoRun \in RunOf(k)
  BY DEF NoRun, RunOf, StagesOf

LEMMA InitTyped == Init => TInv
<1> SUFFICES ASSUME Init PROVE TInv
  OBVIOUS
<1>1. ControlOK
  <2>1. \A x \in Id : run[x] \in RunOf(x[1])
    BY NoRunTyped, IdKinds DEF Init
  <2>2. run \in [Id -> UNION {RunOf(k) : k \in Kind}]
    BY <2>1, IdKinds DEF Init
  <2>3. syncing \in [Kind -> BOOLEAN] /\ offlineSyncing \in BOOLEAN /\ disabled \in BOOLEAN
    BY Zenon DEF Init
  <2> QED
    BY <2>1, <2>2, <2>3 DEF Init, ControlOK
<1>2. DataOK
  BY DEF Init, DataOK
<1>3. RestOK
  <2>1. offlineStore \in BOOLEAN /\ reachable \in BOOLEAN /\ overlapped \in BOOLEAN
    BY Zenon DEF Init
  <2> QED
    BY <2>1, ConstantsAssumption DEF Init, RestOK, ConstantsAssumption
<1> QED
  BY <1>1, <1>2, <1>3 DEF TInv

\* A run is replaced by another of its loop.
LEMMA RunReplaced ==
    ASSUME ControlOK, NEW x \in Id, NEW r \in RunOf(x[1]), run' = [run EXCEPT ![x] = r]
    PROVE  /\ run' \in [Id -> UNION {RunOf(k) : k \in Kind}]
           /\ \A y \in Id : run'[y] \in RunOf(y[1])
<1>1. \A y \in Id : run'[y] \in RunOf(y[1])
  BY DEF ControlOK
<1>2. DOMAIN run' = Id /\ run' = [y \in Id |-> run'[y]]
  BY DEF ControlOK
<1> QED
  BY <1>1, <1>2, IdKinds

LEMMA EndTyped ==
    ASSUME ControlOK, NEW x \in Id, NEW off \in BOOLEAN, End(x, off)
    PROVE  ControlOK'
<1>1. x[1] \in Kind
  BY IdKinds
<1>2. /\ run' \in [Id -> UNION {RunOf(k) : k \in Kind}]
      /\ \A y \in Id : run'[y] \in RunOf(y[1])
  BY <1>1, NoRunTyped, RunReplaced DEF End
<1>3. NextHandle(handle[x[1]], off) \in {"zero", "spent", "armed"}
  BY <1>1 DEF NextHandle, Cleared, ControlOK
<1>4. handle' \in [Kind -> {"zero", "spent", "armed"}]
  BY <1>3 DEF End, ControlOK
<1>5. syncing' \in [Kind -> BOOLEAN]
  BY DEF End, ControlOK
<1>6. StillSyncing(x[1]) \in BOOLEAN
  BY DEF StillSyncing
<1>7. offlineSyncing' \in BOOLEAN /\ disabled' \in BOOLEAN
  BY <1>6, Zenon DEF End
<1>8. orphans' \in [Kind -> Nat]
  BY DEF End, ControlOK
<1> QED
  BY <1>2, <1>4, <1>5, <1>7, <1>8 DEF ControlOK

LEMMA ContinueTyped ==
    ASSUME ControlOK, NEW x \in Id, NEW r \in RunOf(x[1]), Continue(x, r)
    PROVE  ControlOK'
<1>1. /\ run' \in [Id -> UNION {RunOf(k) : k \in Kind}]
      /\ \A y \in Id : run'[y] \in RunOf(y[1])
  BY RunReplaced DEF Continue
<1> QED
  BY <1>1 DEF Continue, flags, timers, ControlOK

LEMMA MoveTyped ==
    ASSUME ControlOK, NEW x \in Id, NEW stage \in StagesOf(x[1]), Move(x, stage)
    PROVE  ControlOK'
<1>1. [run[x] EXCEPT !.stage = stage] \in RunOf(x[1])
  BY DEF ControlOK, RunOf
<1> QED
  BY <1>1, ContinueTyped DEF Move

LEMMA NextSessionTyped ==
    ASSUME ControlOK, NEW x \in Id, x[1] = "download", NEW r \in RunOf(x[1]), NextSession(x, r)
    PROVE  ControlOK'
<1>1. CASE r.todo = {}
  BY <1>1, EndTyped DEF NextSession, ControlOK
<1>2. CASE r.todo # {}
  <2>1. PICK s \in r.todo :
          Continue(x, [r EXCEPT !.stage = "link", !.session = {s}, !.todo = @ \ {s},
                                !.status = "Requested"])
    BY <1>2 DEF NextSession
  <2>2. [r EXCEPT !.stage = "link", !.session = {s}, !.todo = @ \ {s},
                  !.status = "Requested"] \in RunOf(x[1])
    BY StagesKnown DEF RunOf
  <2> QED
    BY <2>1, <2>2, ContinueTyped
<1> QED
  BY <1>1, <1>2

\* The stage a run is in tells its loop.
LEMMA LoopOf ==
    ASSUME ControlOK, NEW x \in Id
    PROVE  /\ run[x].stage \in {"sessions", "link", "file", "apply", "report"} => x[1] = "download"
           /\ run[x].stage \in {"load", "send", "purge", "unmark"} => x[1] = "upload"
  BY IdKinds, StagesKnown DEF ControlOK, RunOf, Kind

LEMMA ExecuteTyped ==
    ASSUME ControlOK, RestOK, NEW K \in SUBSET Kind, Execute(K),
           handle' \in [Kind -> {"zero", "spent", "armed"}], orphans' \in [Kind -> Nat]
    PROVE  ControlOK' /\ RestOK'
<1>1. syncing' \in [Kind -> BOOLEAN]
  BY DEF Execute, ControlOK
<1>2. offlineSyncing' \in BOOLEAN /\ disabled' \in BOOLEAN
  BY Zenon DEF Execute, ControlOK
<1>3. \A x \in Id : run'[x] \in RunOf(x[1])
  <2>1. CASE register = "null"
    BY <2>1 DEF Execute, ControlOK
  <2>2. CASE register # "null"
    <3> DEFINE started == [NoRun EXCEPT !.stage = "name", !.terminal = (register = "known")]
    <3>1. ASSUME NEW k \in Kind PROVE started \in RunOf(k)
      <4>1. (register = "known") \in BOOLEAN
        OBVIOUS
      <4>2. "name" \in StagesOf(k)
        BY DEF StagesOf
      <4> QED
        BY <4>1, <4>2 DEF NoRun, RunOf
    <3> HIDE DEF started
    <3>2. ASSUME NEW x \in Id PROVE run'[x] = started \/ run'[x] = run[x]
      BY <2>2 DEF Execute, started
    <3> QED
      BY <3>1, <3>2, IdKinds DEF ControlOK
  <2> QED
    BY <2>1, <2>2
<1>4. run' \in [Id -> UNION {RunOf(k) : k \in Kind}]
  <2>1. run' = [x \in Id |-> run'[x]]
    BY DEF Execute, ControlOK
  <2> QED
    BY <1>3, <2>1, IdKinds
<1>5. overlapped' \in BOOLEAN
  BY Zenon DEF Execute, RestOK
<1>6. RestOK'
  BY <1>5 DEF Execute, RestOK, env
<1> QED
  BY <1>1, <1>2, <1>3, <1>4, <1>6 DEF ControlOK

LEMMA StepTyped ==
    ASSUME TInv, NEW x \in Id, Step(x)
    PROVE  ControlOK' /\ DataOK'
<1> USE DEF TInv
<1>1. run[x] \in RunOf(x[1]) /\ x[1] \in Kind /\ disabled \in BOOLEAN
  BY IdKinds DEF ControlOK
<1>2. UNCHANGED data => DataOK'
  BY DEF data, DataOK
<1>3. CASE NameAnswered(x)
  <2>1. CASE run[x].terminal /\ offlineStore
    <3>1. NextCall(x[1]) \in StagesOf(x[1])
      BY <1>1 DEF NextCall, StagesOf
    <3>2. [run[x] EXCEPT !.stage = NextCall(x[1])] \in RunOf(x[1])
      BY <1>1, <3>1 DEF RunOf
    <3>3. run' = [run EXCEPT ![x] = [run[x] EXCEPT !.stage = NextCall(x[1])]]
      BY <1>3, <2>1 DEF NameAnswered
    <3>4. disabled' \in BOOLEAN
      BY <1>1, <1>3, <2>1, Zenon DEF NameAnswered, Reenabled
    <3> QED
      BY <1>2, <1>3, <2>1, <3>2, <3>3, <3>4, RunReplaced DEF NameAnswered, ControlOK, timers
  <2>2. CASE ~(run[x].terminal /\ offlineStore)
    BY <1>2, <1>3, <2>2, EndTyped DEF NameAnswered
  <2> QED
    BY <2>1, <2>2
<1>4. CASE Rejected(x)
  BY <1>1, <1>2, <1>4, EndTyped DEF Rejected
<1>5. CASE SessionsAnswered(x)
  <2>1. [run[x] EXCEPT !.todo = prepared] \in RunOf(x[1])
    BY <1>1 DEF RunOf, DataOK
  <2> QED
    BY <1>2, <1>5, <2>1, LoopOf, NextSessionTyped DEF SessionsAnswered, At
<1>6. CASE LinkAnswered(x)
  <2>1. x[1] = "download"
    BY <1>6, LoopOf DEF LinkAnswered, At
  <2>2. "file" \in StagesOf(x[1])
    BY <2>1, StagesKnown
  <2> QED
    BY <1>1, <1>2, <1>6, <2>1, <2>2, NextSessionTyped, MoveTyped DEF LinkAnswered
<1>7. CASE FileDownloaded(x)
  <2>1. x[1] = "download"
    BY <1>7, LoopOf DEF FileDownloaded, At
  <2>2. /\ [run[x] EXCEPT !.stage = "apply"] \in RunOf(x[1])
        /\ [run[x] EXCEPT !.stage = "report", !.status = "Failed"] \in RunOf(x[1])
    BY <1>1, <2>1, StagesKnown DEF RunOf
  <2> QED
    BY <1>2, <1>7, <2>2, ContinueTyped DEF FileDownloaded
<1>8. CASE FileApplied(x)
  <2>1. x[1] = "download"
    BY <1>8, LoopOf DEF FileApplied, At
  <2>2. PICK ok \in BOOLEAN :
          /\ Continue(x, [run[x] EXCEPT !.stage = "report", !.status = ApplyStatus(ok)])
          /\ IF ok THEN applied' = applied \cup run[x].session ELSE UNCHANGED applied
    BY <1>8 DEF FileApplied
  <2>3. [run[x] EXCEPT !.stage = "report", !.status = ApplyStatus(ok)] \in RunOf(x[1])
    BY <1>1, <2>1, StagesKnown DEF RunOf, ApplyStatus
  <2>4. run[x].session \subseteq Sessions
    BY <1>1 DEF RunOf
  <2> QED
    BY <1>8, <2>2, <2>3, <2>4, ContinueTyped DEF FileApplied, DataOK
<1>9. CASE StatusReported(x)
  <2>1. x[1] = "download" /\ run[x].session \subseteq Sessions
    BY <1>1, <1>9, LoopOf DEF StatusReported, At, RunOf
  <2>2. ControlOK'
    BY <1>1, <1>9, <2>1, NextSessionTyped DEF StatusReported
  <2> QED
    BY <1>9, <2>1, <2>2 DEF StatusReported, DataOK
<1>10. CASE TransactionsLoaded(x)
  <2>1. x[1] = "upload"
    BY <1>10, LoopOf DEF TransactionsLoaded, At
  <2>2. Waiting \subseteq Txns
    BY DEF Waiting
  <2>3. [run[x] EXCEPT !.stage = "send", !.loaded = Waiting] \in RunOf(x[1])
    BY <1>1, <2>1, <2>2, StagesKnown DEF RunOf
  <2>4. ControlOK'
    BY <1>1, <1>10, <2>3, ContinueTyped, EndTyped DEF TransactionsLoaded
  <2> QED
    BY <1>10, <2>4 DEF TransactionsLoaded, Remark, DataOK
<1>11. CASE TransactionsSent(x)
  <2>1. x[1] = "upload"
    BY <1>11, LoopOf DEF TransactionsSent, At
  <2>2. PICK ok \in BOOLEAN : Move(x, AfterSend(ok))
    BY <1>11 DEF TransactionsSent
  <2>3. AfterSend(ok) \in StagesOf(x[1])
    BY <2>1, StagesKnown DEF AfterSend
  <2>4. ControlOK'
    BY <2>2, <2>3, MoveTyped
  <2> QED
    BY <1>11, <2>4 DEF TransactionsSent, DataOK
<1>12. CASE TransactionsPurged(x)
  <2>1. ControlOK'
    BY <1>1, <1>12, EndTyped DEF TransactionsPurged
  <2> QED
    BY <1>12, <2>1 DEF TransactionsPurged, Remark, DataOK
<1> QED
  BY <1>3, <1>4, <1>5, <1>6, <1>7, <1>8, <1>9, <1>10, <1>11, <1>12 DEF Step

\* Every step of a run keeps what no run writes, and counts at most one fault.
LEMMA StepRest ==
    ASSUME TInv, NEW x \in Id, Step(x)
    PROVE  RestOK' /\ UNCHANGED <<env, resets, overlapped>> /\ (faults' = faults \/ Fault)
<1>1. /\ UNCHANGED <<register, offlineStore, reachable, resets, changes, overlapped>>
      /\ faults' = faults \/ Fault
  BY DEF Step, NameAnswered, Rejected, SessionsAnswered, LinkAnswered, FileDownloaded, FileApplied,
         StatusReported, TransactionsLoaded, TransactionsSent, TransactionsPurged,
         env, bounds, NoFault
<1>2. faults' \in 0 .. MaxTroubles
  BY <1>1, ConstantsAssumption DEF TInv, RestOK, Fault, MoreTrouble, ConstantsAssumption
<1> QED
  BY <1>1, <1>2 DEF TInv, RestOK, env

LEMMA EnvironmentTyped ==
    ASSUME TInv, Environment
    PROVE  TInv'
<1> USE DEF TInv
<1>1. MoreTrouble => /\ resets + 1 \in 0 .. MaxTroubles
                     /\ changes + 1 \in 0 .. MaxTroubles
                     /\ faults + 1 \in 0 .. MaxTroubles
  BY ConstantsAssumption DEF RestOK, MoreTrouble, ConstantsAssumption
<1>2. CASE StopOffline
  <2>1. ControlOK'
    BY <1>2 DEF StopOffline, StopTimers, flags, ControlOK
  <2> QED
    BY <1>1, <1>2, <2>1 DEF StopOffline, data, DataOK, RestOK
<1>3. CASE ResetDevice
  <2>1. handle' \in [Kind -> {"zero", "spent", "armed"}] /\ orphans' \in [Kind -> Nat]
    BY <1>3 DEF ResetDevice, ControlOK
  <2>2. offlineSyncing' \in BOOLEAN /\ disabled' \in BOOLEAN
    BY <1>3, Zenon DEF ResetDevice
  <2>3. UNCHANGED <<syncing, run>>
    BY <1>3 DEF ResetDevice
  <2>4. ControlOK'
    BY <2>1, <2>2, <2>3 DEF ControlOK
  <2>5. RestOK'
    BY <1>1, <1>3 DEF ResetDevice, RestOK
  <2> QED
    BY <1>3, <2>4, <2>5 DEF ResetDevice, data, DataOK
<1>4. CASE EnterRegister
  BY <1>4 DEF EnterRegister, timers, flags, data, bounds, ControlOK, DataOK, RestOK
<1>5. CASE Restart
  <2>1. offlineSyncing' \in BOOLEAN /\ disabled' \in BOOLEAN /\ syncing' \in [Kind -> BOOLEAN]
    BY <1>5, Zenon DEF Restart
  <2>2. \A x \in Id : run'[x] \in RunOf(x[1])
    BY <1>5, NoRunTyped, IdKinds DEF Restart
  <2>3. run' \in [Id -> UNION {RunOf(k) : k \in Kind}]
    BY <1>5, <2>2, IdKinds DEF Restart
  <2>4. ControlOK'
    BY <1>5, <2>1, <2>2, <2>3 DEF Restart, ControlOK
  <2> QED
    BY <1>1, <1>5, <2>4 DEF Restart, Fault, env, data, DataOK, RestOK
<1>6. CASE Connection
  BY <1>6 DEF Connection, timers, flags, data, bounds, ControlOK, DataOK, RestOK
<1>7. CASE Reconfigure
  BY <1>1, <1>7 DEF Reconfigure, timers, flags, data, ControlOK, DataOK, RestOK
<1>8. CASE \E t \in Txns : SellOffline(t)
  BY <1>8 DEF SellOffline, env, timers, flags, bounds, ControlOK, DataOK, RestOK
<1> QED
  BY <1>2, <1>3, <1>4, <1>5, <1>6, <1>7, <1>8 DEF Environment

LEMMA TypeKept == TInv /\ [Next]_vars => TInv'
<1> SUFFICES ASSUME TInv, [Next]_vars PROVE TInv'
  OBVIOUS
<1> USE DEF TInv
<1>1. CASE InitializeSync
  BY <1>1 DEF InitializeSync, env, flags, data, bounds, ControlOK, DataOK, RestOK
<1>2. CASE ManualSync
  <2>1. handle' \in [Kind -> {"zero", "spent", "armed"}] /\ orphans' \in [Kind -> Nat]
    BY <1>2 DEF ManualSync, StopTimers, ControlOK
  <2> QED
    BY <1>2, <2>1, ExecuteTyped DEF ManualSync, Execute, data, DataOK
<1>3. ASSUME NEW k \in Kind, TimerFires(k) PROVE TInv'
  <2>1. handle' \in [Kind -> {"zero", "spent", "armed"}] /\ orphans' \in [Kind -> Nat]
    BY <1>3 DEF TimerFires, ControlOK
  <2>2. {k} \in SUBSET Kind
    OBVIOUS
  <2>3. ControlOK' /\ RestOK'
    BY <1>3, <2>1, <2>2, ExecuteTyped DEF TimerFires
  <2> QED
    BY <1>3, <2>3 DEF TimerFires, Execute, data, DataOK
<1>4. ASSUME NEW x \in Id, Step(x) PROVE TInv'
  BY <1>4, StepTyped, StepRest
<1>5. CASE Environment
  BY <1>5, EnvironmentTyped
<1>6. CASE UNCHANGED vars
  BY <1>6 DEF vars, env, timers, flags, data, bounds, ControlOK, DataOK, RestOK
<1> QED
  BY <1>1, <1>2, <1>3, <1>4, <1>5, <1>6 DEF Next

LEMMA TypeAlways == Spec => []TInv
  BY InitTyped, TypeKept, PTL DEF Spec

\* The flags, handles, timers, runs and data keep their types, and a run awaits a call of
\* its own loop: executeDownload never uploads, executeUpload never downloads.
THEOREM TypeCorrect == Spec => []TypeOK
<1>1. TInv => TypeOK
  BY TypeImplied
<1> QED
  BY <1>1, TypeAlways, PTL

-----------------------------------------------------------------------------
(* How a step changes the run it is of. *)

Flying(x) == run[x].stage # "none"

\* Either the run ends or its timers and flags stay.
Goes(x, r) ==
    /\ run' = [run EXCEPT ![x] = r]
    /\ \/ r = NoRun /\ \E off \in BOOLEAN : End(x, off)
       \/ r.stage # "none" /\ UNCHANGED <<syncing, offlineSyncing, timers>>

LEMMA EndGoes ==
    ASSUME NEW x, NEW off \in BOOLEAN, End(x, off)
    PROVE  Goes(x, NoRun)
  BY DEF Goes, End

LEMMA ContinueGoes ==
    ASSUME NEW x, NEW r, r.stage # "none", Continue(x, r)
    PROVE  Goes(x, r)
  BY DEF Goes, Continue, flags

LEMMA NextSessionGoes ==
    ASSUME ControlOK, NEW x \in Id, x[1] = "download", NEW r \in RunOf(x[1]), NextSession(x, r)
    PROVE  \E q : Goes(x, q) /\ q.stage \in {"none", "link"}
<1>1. CASE r.todo = {}
  <2>1. Goes(x, NoRun)
    BY <1>1, EndGoes DEF NextSession, ControlOK
  <2> QED
    BY <2>1 DEF NoRun
<1>2. CASE r.todo # {}
  <2>1. PICK s \in r.todo :
          Continue(x, [r EXCEPT !.stage = "link", !.session = {s}, !.todo = @ \ {s},
                                !.status = "Requested"])
    BY <1>2 DEF NextSession
  <2> DEFINE q == [r EXCEPT !.stage = "link", !.session = {s}, !.todo = @ \ {s},
                            !.status = "Requested"]
  <2>2. q.stage = "link"
    BY DEF RunOf
  <2> HIDE DEF q
  <2>3. Goes(x, q)
    BY <2>1, <2>2, ContinueGoes DEF q
  <2> QED
    BY <2>2, <2>3
<1> QED
  BY <1>1, <1>2

\* The run after a step, with what the properties tell of it and of the data.
LEMMA StepGoes ==
    ASSUME TInv, NEW x \in Id, Step(x)
    PROVE  \E r :
             /\ Goes(x, r) /\ Flying(x)
             /\ applied \subseteq applied'
             /\ \/ prepared \subseteq prepared'
                \/ At(x, "report") /\ run[x].status = "Applied" /\ prepared \ run[x].session \subseteq prepared'
             /\ r.stage = "report" /\ r.status = "Applied" => r.session \subseteq applied'
<1> USE DEF TInv, Flying
<1>1. run[x] \in RunOf(x[1]) /\ disabled \in BOOLEAN /\ NoRun.stage = "none"
  BY DEF ControlOK, NoRun
<1>2. CASE NameAnswered(x)
  <2>1. CASE run[x].terminal /\ offlineStore
    <3> DEFINE r == [run[x] EXCEPT !.stage = NextCall(x[1])]
    <3>1. r.stage \in {"sessions", "load"}
      BY <1>1 DEF RunOf, NextCall
    <3>2. run' = [run EXCEPT ![x] = r]
      BY <1>2, <2>1 DEF NameAnswered
    <3> HIDE DEF r
    <3> QED
      BY <1>2, <2>1, <3>1, <3>2 DEF NameAnswered, At, Goes, data
  <2>2. CASE ~(run[x].terminal /\ offlineStore)
    BY <1>1, <1>2, <2>2, EndGoes DEF NameAnswered, At, data
  <2> QED
    BY <2>1, <2>2
<1>3. CASE Rejected(x)
  BY <1>1, <1>3, EndGoes DEF Rejected, data
<1>4. CASE SessionsAnswered(x)
  <2>1. x[1] = "download" /\ [run[x] EXCEPT !.todo = prepared] \in RunOf(x[1])
    BY <1>1, <1>4, LoopOf DEF RunOf, DataOK, SessionsAnswered, At
  <2> QED
    BY <1>4, <2>1, NextSessionGoes DEF SessionsAnswered, At, data
<1>5. CASE LinkAnswered(x)
  <2>1. x[1] = "download"
    BY <1>5, LoopOf DEF LinkAnswered, At
  <2>2. CASE Move(x, "file")
    <3>1. [run[x] EXCEPT !.stage = "file"].stage = "file"
      BY <1>1 DEF RunOf
    <3> QED
      BY <1>5, <2>2, <3>1, ContinueGoes DEF Move, LinkAnswered, At, data
  <2>3. CASE NextSession(x, run[x])
    BY <1>1, <1>5, <2>1, <2>3, NextSessionGoes DEF LinkAnswered, At, data
  <2> QED
    BY <1>5, <2>2, <2>3 DEF LinkAnswered
<1>6. CASE FileDownloaded(x)
  <2>1. /\ [run[x] EXCEPT !.stage = "apply"].stage = "apply"
        /\ [run[x] EXCEPT !.stage = "report", !.status = "Failed"].stage = "report"
        /\ [run[x] EXCEPT !.stage = "report", !.status = "Failed"].status = "Failed"
    BY <1>1 DEF RunOf
  <2> QED
    BY <1>6, <2>1, ContinueGoes DEF FileDownloaded, At, data
<1>7. CASE FileApplied(x)
  <2>1. PICK ok \in BOOLEAN :
          /\ Continue(x, [run[x] EXCEPT !.stage = "report", !.status = ApplyStatus(ok)])
          /\ IF ok THEN applied' = applied \cup run[x].session ELSE UNCHANGED applied
    BY <1>7 DEF FileApplied
  <2> DEFINE r == [run[x] EXCEPT !.stage = "report", !.status = ApplyStatus(ok)]
  <2>2. r.stage = "report" /\ r.status = ApplyStatus(ok) /\ r.session = run[x].session
    BY <1>1 DEF RunOf
  <2>3. Continue(x, r)
    BY <2>1
  <2> HIDE DEF r
  <2>4. r.status = "Applied" => ok
    BY <2>2 DEF ApplyStatus
  <2>5. Goes(x, r)
    BY <2>2, <2>3, ContinueGoes
  <2> QED
    BY <1>7, <2>1, <2>2, <2>4, <2>5 DEF FileApplied, At
<1>8. CASE StatusReported(x)
  <2>1. x[1] = "download" /\ Flying(x)
    BY <1>8, LoopOf DEF StatusReported, At
  <2>2. \E q : Goes(x, q) /\ q.stage \in {"none", "link"}
    BY <1>1, <1>8, <2>1, NextSessionGoes DEF StatusReported
  <2> QED
    BY <1>8, <2>1, <2>2 DEF StatusReported
<1>9. CASE TransactionsLoaded(x)
  <2>1. [run[x] EXCEPT !.stage = "send", !.loaded = Waiting].stage = "send"
    BY <1>1 DEF RunOf
  <2> QED
    BY <1>1, <1>9, <2>1, ContinueGoes, EndGoes DEF TransactionsLoaded, At
<1>10. CASE TransactionsSent(x)
  <2>1. PICK ok \in BOOLEAN : Move(x, AfterSend(ok))
    BY <1>10 DEF TransactionsSent
  <2>2. [run[x] EXCEPT !.stage = AfterSend(ok)].stage \in {"purge", "unmark"}
    BY <1>1 DEF RunOf, AfterSend
  <2> QED
    BY <1>10, <2>1, <2>2, ContinueGoes DEF Move, TransactionsSent, At
<1>11. CASE TransactionsPurged(x)
  BY <1>1, <1>11, EndGoes DEF TransactionsPurged, At
<1> QED
  BY <1>2, <1>3, <1>4, <1>5, <1>6, <1>7, <1>8, <1>9, <1>10, <1>11 DEF Step

-----------------------------------------------------------------------------
(* What is reported applied. *)

\* The status to be reported is true.
ReportTrue ==
    \A x \in Id : At(x, "report") /\ run[x].status = "Applied" => run[x].session \subseteq applied

LEMMA ReportKept ==
    ASSUME TInv, ReportTrue, ReportedApplied, [Next]_vars
    PROVE  ReportTrue' /\ ReportedApplied'
<1>1. ASSUME UNCHANGED data, \A x \in Id : run'[x] = run[x] \/ run'[x].stage # "report"
      PROVE  ReportTrue' /\ ReportedApplied'
  BY <1>1 DEF ReportTrue, ReportedApplied, At, data
<1>2. CASE InitializeSync
  BY <1>1, <1>2 DEF InitializeSync
<1>3. ASSUME NEW K \in SUBSET Kind, Execute(K) PROVE ReportTrue' /\ ReportedApplied'
  <2>1. [NoRun EXCEPT !.stage = "name", !.terminal = (register = "known")].stage = "name"
    BY DEF NoRun
  <2> QED
    BY <1>1, <1>3, <2>1 DEF Execute, TInv, ControlOK
<1>4. CASE ManualSync \/ \E k \in Kind : TimerFires(k)
  <2>1. Kind \in SUBSET Kind /\ \A k \in Kind : {k} \in SUBSET Kind
    OBVIOUS
  <2> QED
    BY <1>3, <1>4, <2>1 DEF ManualSync, TimerFires
<1>5. ASSUME NEW x \in Id, Step(x) PROVE ReportTrue' /\ ReportedApplied'
  <2>1. PICK r :
             /\ Goes(x, r)
             /\ applied \subseteq applied'
             /\ \/ prepared \subseteq prepared'
                \/ At(x, "report") /\ run[x].status = "Applied" /\ prepared \ run[x].session \subseteq prepared'
             /\ r.stage = "report" /\ r.status = "Applied" => r.session \subseteq applied'
    BY <1>5, StepGoes
  <2>2. ReportTrue'
    BY <2>1 DEF Goes, ReportTrue, At, TInv, ControlOK
  <2>3. prepared' \subseteq Sessions /\ applied' \subseteq Sessions
    BY <1>5, StepTyped DEF DataOK
  <2> QED
    BY <2>1, <2>2, <2>3 DEF ReportTrue, ReportedApplied
<1>6. CASE Environment
  <2>1. UNCHANGED <<prepared, applied>>
    BY <1>6 DEF Environment, StopOffline, ResetDevice, EnterRegister, Restart, Connection, Reconfigure,
                SellOffline, data
  <2>2. \A x \in Id : run'[x] = run[x] \/ run'[x].stage # "report"
    BY <1>6 DEF Environment, StopOffline, ResetDevice, EnterRegister, Restart, Connection, Reconfigure,
                SellOffline, NoRun
  <2> QED
    BY <2>1, <2>2 DEF ReportTrue, ReportedApplied, At
<1>7. CASE UNCHANGED vars
  BY <1>1, <1>7 DEF vars
<1> QED
  BY <1>2, <1>4, <1>5, <1>6, <1>7 DEF Next

\* What Retail Server believes applied is in the offline database, through every failure,
\* restart, reset and overlap of runs: executeDownload reports after the broker has applied.
THEOREM NothingReportedUnapplied == Spec => []ReportedApplied
<1>1. Init => ReportTrue /\ ReportedApplied
  BY DEF Init, ReportTrue, ReportedApplied, At, NoRun
<1>2. TInv /\ ReportTrue /\ ReportedApplied /\ [Next]_vars => ReportTrue' /\ ReportedApplied'
  BY ReportKept
<1> QED
  BY <1>1, <1>2, TypeAlways, PTL DEF Spec

-----------------------------------------------------------------------------
(* The flags, until the device is reset. *)

Lone == \A x, y \in Id : x[1] = y[1] /\ Flying(x) /\ Flying(y) => x = y

\* Each loop has one run or one timer, and syncing says which.
FlagsTrue ==
    /\ register = "known"
    /\ \A k \in Kind : orphans[k] = 0
    /\ \A x \in Id : Flying(x) => handle[x[1]] # "armed" /\ syncing[x[1]]
    /\ \A k \in Kind : syncing[k] => \E x \in Id : x[1] = k /\ Flying(x)
    /\ Lone
    /\ offlineSyncing <=> \E k \in Kind : syncing[k]

FlagsInv == resets = 0 => FlagsTrue

LEMMA SameId == ASSUME NEW x \in Id, NEW y \in Id, x[1] = y[1], x[2] = y[2] PROVE x = y
  BY DEF Id

LEMMA ExecuteRuns ==
    ASSUME TInv, NEW K \in SUBSET Kind, Execute(K), register # "null"
    PROVE  /\ \A x \in Id : run'[x].stage = IF x[1] \in K /\ x[2] = FreeSlot(x[1]) THEN "name"
                                           ELSE run[x].stage
           /\ \A k \in K : FreeSlot(k) \in Slots /\ <<k, FreeSlot(k)>> \in Id
<1>1. [NoRun EXCEPT !.stage = "name", !.terminal = (register = "known")].stage = "name"
  BY DEF NoRun
<1>2. \A k \in K : FreeSlot(k) \in Slots
  BY DEF Execute, FreeSlot
<1> QED
  BY <1>1, <1>2 DEF Execute, Id

LEMMA ExecuteFlags ==
    ASSUME TInv, FlagsTrue, NEW K \in SUBSET Kind, Execute(K), K # {},
           \A x \in Id : x[1] \in K => ~Flying(x),
           \A k \in K : handle'[k] # "armed",
           \A k \in Kind \ K : handle'[k] = "armed" => handle[k] = "armed",
           \A k \in Kind : orphans'[k] = 0
    PROVE  FlagsTrue'
<1>1. /\ \A x \in Id : run'[x].stage = IF x[1] \in K /\ x[2] = FreeSlot(x[1]) THEN "name"
                                      ELSE run[x].stage
      /\ \A k \in K : <<k, FreeSlot(k)>> \in Id
  BY ExecuteRuns DEF FlagsTrue
<1>2. register' = "known"
  BY DEF Execute, env, FlagsTrue
<1>3. \A k \in Kind : syncing'[k] <=> syncing[k] \/ k \in K
  BY DEF Execute
<1>4. \A x \in Id : Flying(x)' => handle'[x[1]] # "armed" /\ syncing'[x[1]]
  BY <1>1, <1>3, IdKinds DEF FlagsTrue, Flying
<1>5. \A k \in Kind : syncing'[k] => \E x \in Id : x[1] = k /\ Flying(x)'
  <2> SUFFICES ASSUME NEW k \in Kind, syncing'[k] PROVE \E x \in Id : x[1] = k /\ Flying(x)'
    OBVIOUS
  <2>1. CASE k \in K
    <3>1. <<k, FreeSlot(k)>>[1] = k /\ <<k, FreeSlot(k)>>[2] = FreeSlot(k)
      OBVIOUS
    <3>2. run'[<<k, FreeSlot(k)>>].stage = "name"
      BY <1>1, <2>1, <3>1
    <3> QED
      BY <1>1, <2>1, <3>1, <3>2 DEF Flying
  <2>2. CASE k \notin K
    <3>1. PICK x \in Id : x[1] = k /\ Flying(x)
      BY <1>3, <2>2 DEF FlagsTrue
    <3> QED
      BY <1>1, <2>2, <3>1 DEF Flying
  <2> QED
    BY <2>1, <2>2
<1>6. Lone'
  BY <1>1, SameId DEF FlagsTrue, Lone, Flying
<1>7. offlineSyncing' /\ \E k \in Kind : syncing'[k]
  BY <1>3 DEF Execute
<1> QED
  BY <1>2, <1>4, <1>5, <1>6, <1>7 DEF FlagsTrue

LEMMA StepFlags ==
    ASSUME TInv, FlagsTrue, NEW x \in Id, Step(x)
    PROVE  FlagsTrue'
<1>1. PICK r : Goes(x, r) /\ Flying(x)
  BY StepGoes
<1>2. x[1] \in Kind /\ register' = "known"
  BY IdKinds, StepRest DEF FlagsTrue, env
<1>3. \A y \in Id : run'[y] = IF y = x THEN r ELSE run[y]
  BY <1>1 DEF Goes, TInv, ControlOK
<1>4. syncing[x[1]] /\ offlineSyncing
  BY <1>1, <1>2 DEF FlagsTrue
<1>5. CASE r.stage # "none" /\ UNCHANGED <<syncing, offlineSyncing, timers>>
  <2>1. \A y \in Id : Flying(y)' <=> Flying(y)
    BY <1>1, <1>3, <1>5 DEF Flying
  <2> QED
    BY <1>2, <1>5, <2>1 DEF FlagsTrue, Lone, timers
<1>6. ASSUME r = NoRun, NEW off \in BOOLEAN, End(x, off) PROVE FlagsTrue'
  <2>1. \A y \in Id : Flying(y)' <=> Flying(y) /\ y # x
    BY <1>3, <1>6 DEF Flying, NoRun
  <2>2. \A y \in Id : Flying(y)' => y[1] # x[1] /\ y[1] \in Kind
    BY <1>1, <2>1, IdKinds DEF FlagsTrue, Lone
  <2>3. /\ \A k \in Kind : syncing'[k] <=> k # x[1] /\ syncing[k]
        /\ \A k \in Kind : k # x[1] => handle'[k] = handle[k]
        /\ \A k \in Kind : orphans'[k] = orphans[k]
    BY <1>6 DEF End, TInv, ControlOK
  <2>4. \A y \in Id : Flying(y)' => handle'[y[1]] # "armed" /\ syncing'[y[1]]
    BY <2>1, <2>2, <2>3 DEF FlagsTrue
  <2>5. \A k \in Kind : syncing'[k] => \E y \in Id : y[1] = k /\ Flying(y)'
    BY <2>1, <2>3 DEF FlagsTrue
  <2>6. offlineSyncing' <=> syncing[Other(x[1])]
    BY <1>4, <1>6 DEF End, StillSyncing
  <2>7. Kind = {x[1], Other(x[1])} /\ x[1] # Other(x[1])
    BY <1>2 DEF Kind, Other
  <2>8. offlineSyncing' <=> \E k \in Kind : syncing'[k]
    BY <2>3, <2>6, <2>7
  <2>9. Lone'
    BY <2>1 DEF FlagsTrue, Lone
  <2>10. \A k \in Kind : orphans'[k] = 0
    BY <2>3 DEF FlagsTrue
  <2> QED
    BY <1>2, <2>4, <2>5, <2>8, <2>9, <2>10 DEF FlagsTrue
<1> QED
  BY <1>1, <1>5, <1>6 DEF Goes

LEMMA FlagsKept ==
    ASSUME TInv, resets = 0 => FlagsTrue, [Next]_vars
    PROVE  resets' = 0 => FlagsTrue'
<1> SUFFICES ASSUME resets' = 0 PROVE FlagsTrue'
  OBVIOUS
<1>1. CASE InitializeSync
  <2>1. resets = 0 /\ FlagsTrue
    BY <1>1 DEF InitializeSync, bounds
  <2>2. \A x \in Id : ~Flying(x)
    BY <1>1, <2>1, IdKinds DEF InitializeSync, NoExistingSync, FlagsTrue
  <2> QED
    BY <1>1, <2>1, <2>2, IdKinds DEF InitializeSync, env, flags, FlagsTrue, Flying, Lone
<1>2. CASE ManualSync
  <2>1. resets = 0 /\ FlagsTrue
    BY <1>2 DEF ManualSync, Execute
  <2>2. \A x \in Id : ~Flying(x)
    BY <1>2, <2>1, IdKinds DEF ManualSync, FlagsTrue
  <2>3. /\ \A k \in Kind : handle'[k] # "armed" /\ orphans'[k] = 0
        /\ Kind \in SUBSET Kind /\ Kind # {}
    BY <1>2, <2>1 DEF ManualSync, StopTimers, FlagsTrue, Kind
  <2> QED
    BY <1>2, <2>1, <2>2, <2>3, ExecuteFlags DEF ManualSync
<1>3. ASSUME NEW k \in Kind, TimerFires(k) PROVE FlagsTrue'
  <2>1. resets = 0 /\ FlagsTrue
    BY <1>3 DEF TimerFires, Execute
  <2>2. /\ handle[k] = "armed" /\ handle' = [handle EXCEPT ![k] = "spent"] /\ UNCHANGED orphans
    BY <1>3, <2>1 DEF TimerFires, FlagsTrue
  <2>3. /\ handle'[k] # "armed"
        /\ \A j \in Kind : j # k => handle'[j] = handle[j]
        /\ \A j \in Kind : orphans'[j] = 0
    BY <2>1, <2>2 DEF TInv, ControlOK, FlagsTrue
  <2>4. \A x \in Id : x[1] \in {k} => ~Flying(x)
    BY <2>1, <2>2 DEF FlagsTrue
  <2>5. {k} \in SUBSET Kind /\ {k} # {}
    OBVIOUS
  <2>6. Execute({k})
    BY <1>3 DEF TimerFires
  <2> QED
    BY <2>1, <2>3, <2>4, <2>5, <2>6, ExecuteFlags
<1>4. ASSUME NEW x \in Id, Step(x) PROVE FlagsTrue'
  BY <1>4, StepRest, StepFlags
<1>5. CASE Environment
  <2>1. ~StopOffline /\ ~ResetDevice
    BY DEF StopOffline, ResetDevice, TInv, RestOK
  <2>2. resets = 0 /\ FlagsTrue
    BY <1>5, <2>1 DEF Environment, EnterRegister, Restart, Connection, Reconfigure, SellOffline, bounds
  <2>3. ~EnterRegister
    BY <2>2 DEF EnterRegister, FlagsTrue
  <2>4. CASE Restart
    BY <2>2, <2>4, IdKinds DEF Restart, env, FlagsTrue, Flying, Lone, NoRun
  <2>5. CASE Connection \/ Reconfigure \/ \E t \in Txns : SellOffline(t)
    BY <2>2, <2>5 DEF Connection, Reconfigure, SellOffline, env, timers, flags, FlagsTrue, Flying, Lone
  <2> QED
    BY <1>5, <2>1, <2>3, <2>4, <2>5 DEF Environment
<1>6. CASE UNCHANGED vars
  BY <1>6 DEF vars, env, timers, flags, bounds, FlagsTrue, Flying, Lone
<1> QED
  BY <1>1, <1>2, <1>3, <1>4, <1>5, <1>6 DEF Next

\* Until the device is reset, Session.offlineSyncing is true exactly while a run is in
\* flight, whatever is started, fails, ends or crashes: log on and the manual sync, which
\* only look at the flag and the handles, never start a second run of a loop.
THEOREM FlagShowsRuns == Spec => []SyncingShown
<1>1. Init => FlagsInv
  BY IdKinds DEF Init, FlagsInv, FlagsTrue, Flying, Lone, NoRun
<1>2. TInv /\ FlagsInv /\ [Next]_vars => FlagsInv'
  BY FlagsKept DEF FlagsInv
<1>3. TInv /\ FlagsInv => SyncingShown
  <2> SUFFICES ASSUME TInv, FlagsTrue
               PROVE  offlineSyncing <=> \E k \in Kind : InFlight(k) # {}
    BY DEF SyncingShown, FlagsInv
  <2>1. \A k \in Kind : syncing[k] <=> InFlight(k) # {}
    BY DEF FlagsTrue, InFlight, Flying
  <2> QED
    BY <2>1 DEF FlagsTrue
<1> QED
  BY <1>1, <1>2, <1>3, TypeAlways, PTL DEF Spec

-----------------------------------------------------------------------------
(* What an upload purges. *)

\* What a run may purge next, the server has: all that is marked was loaded by the run
\* that sends, and was received once it is to be purged.
UploadTrue ==
    /\ Lone
    /\ \A x \in Id, t \in Txns : At(x, "send") /\ txn[t] = "marked" => t \in run[x].loaded
    /\ \A x \in Id, t \in Txns : At(x, "purge") /\ txn[t] = "marked" => received[t] > 0
    /\ \A t \in Txns : txn[t] = "purged" => received[t] > 0

UploadInv == ~overlapped => UploadTrue

\* No step of a run starts another.
LEMMA LoneKept ==
    ASSUME TInv, Lone, NEW x \in Id, Step(x)
    PROVE  Lone'
<1>1. PICK r : Goes(x, r) /\ Flying(x)
  BY StepGoes
<1>2. \A y \in Id : Flying(y)' => Flying(y)
  BY <1>1 DEF Goes, Flying, TInv, ControlOK
<1> QED
  BY <1>2 DEF Lone

\* The steps that neither load, send nor purge.
LEMMA OtherSteps ==
    ASSUME TInv, NEW x \in Id, Step(x),
           ~TransactionsLoaded(x), ~TransactionsSent(x), ~TransactionsPurged(x)
    PROVE  UNCHANGED <<txn, received>> /\ run'[x].stage \notin {"send", "purge"}
<1>1. UNCHANGED <<txn, received>>
  BY DEF Step, NameAnswered, Rejected, SessionsAnswered, LinkAnswered, FileDownloaded, FileApplied,
         StatusReported, data
<1>2. run[x] \in RunOf(x[1]) /\ run'[x] \in RunOf(x[1])
  BY StepTyped DEF TInv, ControlOK
<1>3. CASE NameAnswered(x) \/ Rejected(x)
  <2>1. run'[x] = NoRun \/ run'[x].stage = NextCall(x[1])
    <3>1. CASE \E off \in BOOLEAN : End(x, off)
      BY <3>1 DEF End, TInv, ControlOK
    <3>2. CASE run' = [run EXCEPT ![x].stage = NextCall(x[1])]
      <4>1. run'[x] = [run[x] EXCEPT !.stage = NextCall(x[1])]
        BY <3>2 DEF TInv, ControlOK
      <4> QED
        BY <1>2, <4>1 DEF RunOf
    <3> QED
      BY <1>3, <3>1, <3>2 DEF NameAnswered, Rejected, TInv, ControlOK
  <2> QED
    BY <1>1, <2>1 DEF NoRun, NextCall
<1>4. CASE ~NameAnswered(x) /\ ~Rejected(x)
  <2>1. run[x].stage \in {"sessions", "link", "file", "apply", "report"}
    BY <1>4 DEF Step, SessionsAnswered, LinkAnswered, FileDownloaded, FileApplied, StatusReported, At
  <2>2. x[1] = "download"
    BY <2>1, LoopOf DEF TInv
  <2> QED
    BY <1>1, <1>2, <2>2, StagesKnown DEF RunOf
<1> QED
  BY <1>3, <1>4

LEMMA UploadStep ==
    ASSUME TInv, UploadTrue, NEW x \in Id, Step(x)
    PROVE  UploadTrue'
<1>1. PICK r : Goes(x, r) /\ Flying(x)
  BY StepGoes
<1>2. /\ \A y \in Id : run'[y] = IF y = x THEN r ELSE run[y]
      /\ run[x] \in RunOf(x[1]) /\ r = run'[x]
  BY <1>1 DEF Goes, TInv, ControlOK
<1>3. Lone'
  BY LoneKept DEF UploadTrue
<1>4. ASSUME UNCHANGED <<txn, received>>, run'[x].stage \notin {"send", "purge"} PROVE UploadTrue'
  BY <1>2, <1>3, <1>4 DEF UploadTrue, At
<1>5. ASSUME NEW y \in Id, run[y].stage \in {"send", "purge"}, x[1] = "upload" PROVE y = x
  BY <1>1, <1>5, LoopOf DEF TInv, UploadTrue, Lone, Flying
<1>6. CASE TransactionsLoaded(x)
  <2>1. x[1] = "upload" /\ At(x, "load")
    BY <1>6, LoopOf DEF TransactionsLoaded, At, TInv
  <2>2. \A y \in Id : run[y].stage \notin {"send", "purge"}
    BY <1>5, <2>1 DEF At
  <2>3. UNCHANGED received
    BY <1>6 DEF TransactionsLoaded
  <2>4. CASE UNCHANGED txn /\ End(x, disabled)
    <3>1. run'[x].stage = "none"
      BY <2>4 DEF End, NoRun, TInv, ControlOK
    <3> QED
      BY <1>4, <2>3, <2>4, <3>1
  <2>5. CASE Remark({"new"}, "marked") /\ Continue(x, [run[x] EXCEPT !.stage = "send", !.loaded = Waiting])
    <3>1. run'[x].stage = "send" /\ run'[x].loaded = Waiting
      BY <1>2, <2>5 DEF Continue, RunOf, TInv, ControlOK
    <3>2. \A t \in Txns : txn'[t] = IF txn[t] = "new" THEN "marked" ELSE txn[t]
      BY <2>5 DEF Remark
    <3>3. \A t \in Txns : txn'[t] = "marked" => t \in Waiting
      BY <3>2 DEF Waiting
    <3> QED
      BY <1>2, <1>3, <2>2, <2>3, <3>1, <3>2, <3>3 DEF UploadTrue, At
  <2> QED
    BY <1>6, <2>4, <2>5 DEF TransactionsLoaded
<1>7. CASE TransactionsSent(x)
  <2>1. PICK delivered, ok \in BOOLEAN :
          /\ ok => delivered
          /\ received' = IF delivered
                         THEN [t \in Txns |-> IF t \in run[x].loaded /\ received[t] < MaxCount
                                             THEN received[t] + 1 ELSE received[t]]
                         ELSE received
          /\ Move(x, AfterSend(ok))
    BY <1>7 DEF TransactionsSent
  <2>2. At(x, "send") /\ x[1] = "upload" /\ UNCHANGED txn
    BY <1>7, LoopOf DEF TransactionsSent, At, TInv
  <2>3. \A t \in Txns : received[t] \in Nat /\ received'[t] \in Nat
    BY StepTyped DEF TInv, DataOK
  <2>4. ASSUME NEW t \in Txns
        PROVE  received'[t] >= received[t] /\ (ok /\ t \in run[x].loaded => received'[t] > 0)
    <3>1. MaxCount \in Nat /\ MaxCount > 0
      BY ConstantsAssumption DEF MaxCount, ConstantsAssumption
    <3>2. CASE delivered
      <4>1. received'[t] = IF t \in run[x].loaded /\ received[t] < MaxCount
                           THEN received[t] + 1 ELSE received[t]
        BY <2>1, <3>2
      <4> QED
        BY <2>3, <3>1, <4>1
    <3>3. CASE ~delivered
      BY <2>1, <2>3, <3>3
    <3> QED
      BY <3>2, <3>3
  <2>5. run'[x].stage = AfterSend(ok)
    BY <1>2, <2>1 DEF Move, Continue, RunOf, TInv, ControlOK
  <2>6. \A y \in Id : At(y, "purge")' => y = x /\ ok
    BY <1>2, <1>5, <2>2, <2>5 DEF At, AfterSend
  <2>7. \A y \in Id : ~At(y, "send")'
    BY <1>2, <1>5, <2>2, <2>5 DEF At, AfterSend
  <2>8. \A t \in Txns : txn'[t] = "purged" => received'[t] > 0
    BY <2>2, <2>3, <2>4 DEF UploadTrue
  <2>9. \A y \in Id, t \in Txns : At(y, "purge")' /\ txn'[t] = "marked" => received'[t] > 0
    BY <2>2, <2>4, <2>6 DEF UploadTrue
  <2> QED
    BY <1>3, <2>7, <2>8, <2>9 DEF UploadTrue
<1>8. CASE TransactionsPurged(x)
  <2>1. x[1] = "upload" /\ run[x].stage \in {"purge", "unmark"} /\ UNCHANGED received /\ End(x, disabled)
    BY <1>8, LoopOf DEF TransactionsPurged, At, TInv
  <2>2. run'[x].stage = "none"
    BY <2>1 DEF End, NoRun, TInv, ControlOK
  <2>3. \A y \in Id : ~At(y, "send")' /\ ~At(y, "purge")'
    BY <1>2, <1>5, <2>1, <2>2 DEF At
  <2>4. \A t \in Txns : txn'[t] = "purged" => txn[t] = "purged" \/ (At(x, "purge") /\ txn[t] = "marked")
    BY <1>8 DEF TransactionsPurged, Remark
  <2>5. \A t \in Txns : txn'[t] = "purged" => received'[t] > 0
    BY <2>1, <2>4 DEF UploadTrue
  <2> QED
    BY <1>3, <2>3, <2>5 DEF UploadTrue
<1> QED
  BY <1>4, <1>6, <1>7, <1>8, OtherSteps

LEMMA ExecuteUpload ==
    ASSUME TInv, UploadTrue, NEW K \in SUBSET Kind, Execute(K), ~overlapped'
    PROVE  UploadTrue'
<1>1. UNCHANGED <<txn, received>>
  BY DEF Execute, data
<1>2. CASE register = "null"
  BY <1>1, <1>2 DEF Execute, UploadTrue, Lone, Flying, At
<1>3. CASE register # "null"
  <2>1. /\ \A x \in Id : run'[x].stage = IF x[1] \in K /\ x[2] = FreeSlot(x[1]) THEN "name"
                                        ELSE run[x].stage
        /\ \A x \in Id : run'[x].stage # "name" => run'[x] = run[x]
    <3>1. [NoRun EXCEPT !.stage = "name", !.terminal = (register = "known")].stage = "name"
      BY DEF NoRun
    <3> QED
      BY <1>3, <3>1, ExecuteRuns DEF Execute
  <2>2. \A x \in Id : x[1] \in K => ~Flying(x)
    BY <1>3 DEF Execute, InFlight, Flying
  <2>3. Lone'
    BY <2>1, <2>2, SameId DEF UploadTrue, Lone, Flying
  <2> QED
    BY <1>1, <2>1, <2>3 DEF UploadTrue, At
<1> QED
  BY <1>2, <1>3

LEMMA UploadKept ==
    ASSUME TInv, UploadInv, [Next]_vars
    PROVE  UploadInv'
<1> SUFFICES ASSUME ~overlapped' PROVE UploadTrue'
  BY DEF UploadInv
<1> USE DEF UploadInv
<1>1. CASE InitializeSync
  BY <1>1 DEF InitializeSync, data, bounds, UploadTrue, Lone, Flying, At
<1>2. ASSUME NEW K \in SUBSET Kind, Execute(K) PROVE UploadTrue'
  <2>1. ~overlapped
    BY <1>2 DEF Execute
  <2> QED
    BY <1>2, <2>1, ExecuteUpload
<1>3. CASE ManualSync \/ \E k \in Kind : TimerFires(k)
  <2>1. Kind \in SUBSET Kind /\ \A k \in Kind : {k} \in SUBSET Kind
    OBVIOUS
  <2> QED
    BY <1>2, <1>3, <2>1 DEF ManualSync, TimerFires
<1>4. ASSUME NEW x \in Id, Step(x) PROVE UploadTrue'
  BY <1>4, StepRest, UploadStep
<1>5. CASE Environment
  <2>1. UNCHANGED <<received, overlapped>>
    BY <1>5 DEF Environment, StopOffline, ResetDevice, EnterRegister, Restart, Connection, Reconfigure,
                SellOffline, data, bounds
  <2>2. \A x \in Id : run'[x] = run[x] \/ run'[x].stage = "none"
    BY <1>5 DEF Environment, StopOffline, ResetDevice, EnterRegister, Restart, Connection, Reconfigure,
                SellOffline, NoRun
  <2>3. \A t \in Txns : txn'[t] \in {"marked", "purged"} => txn'[t] = txn[t]
    <3>1. UNCHANGED txn \/ \E t \in Txns : SellOffline(t)
      BY <1>5 DEF Environment, StopOffline, ResetDevice, EnterRegister, Restart, Connection, Reconfigure, data
    <3> QED
      BY <3>1 DEF SellOffline, TInv, DataOK
  <2> QED
    BY <2>1, <2>2, <2>3 DEF UploadTrue, Lone, Flying, At
<1>6. CASE UNCHANGED vars
  BY <1>6 DEF vars, data, bounds, UploadTrue, Lone, Flying, At
<1> QED
  BY <1>1, <1>3, <1>4, <1>5, <1>6 DEF Next

\* Until two uploads overlap, a transaction is purged from the offline database only when
\* the server was given it, whatever fails, is lost or crashes between load, send and purge.
THEOREM NothingLost == Spec => []NeverLost
<1>1. Init => UploadInv
  BY DEF Init, UploadInv, UploadTrue, Lone, Flying, At, NoRun
<1>2. TInv /\ UploadInv /\ [Next]_vars => UploadInv'
  BY UploadKept
<1>3. UploadInv => NeverLost
  BY DEF UploadInv, UploadTrue, NeverLost
<1> QED
  BY <1>1, <1>2, <1>3, TypeAlways, PTL DEF Spec

-----------------------------------------------------------------------------
(* How often a loop is alive.  A run that ends arms the timer in its own       *)
(* place; one that is started without a timer firing finds no run of its loop *)
(* by offlineSyncing, which may be false beside a run only once the device    *)
(* has been reset.                                                            *)

Alive(k)   == Cardinality(InFlight(k)) + orphans[k]
Pending(k) == IF handle[k] = "armed" THEN 1 ELSE 0

ChainInv ==
    \A k \in Kind :
        /\ IsFiniteSet(InFlight(k))
        /\ Alive(k) + Pending(k) <= 1 + resets
        /\ ~offlineSyncing \/ ~syncing[k] => Alive(k) <= resets

LEMMA CountsTyped ==
    ASSUME TInv, ChainInv, NEW k \in Kind
    PROVE  /\ Cardinality(InFlight(k)) \in Nat /\ orphans[k] \in Nat /\ resets \in Nat
           /\ Alive(k) \in Nat /\ Pending(k) \in 0 .. 1
  BY FS_CardinalityType DEF TInv, ControlOK, RestOK, ChainInv, Alive, Pending

\* A run that starts is one more; the others of the loop stay.
LEMMA StartedAlive ==
    ASSUME TInv, ChainInv, NEW K \in SUBSET Kind, Execute(K), NEW k \in Kind
    PROVE  /\ IsFiniteSet(InFlight(k)')
           /\ Cardinality(InFlight(k)') \in Nat
           /\ Cardinality(InFlight(k)') <=
                  Cardinality(InFlight(k)) + (IF k \in K THEN 1 ELSE 0)
<1> DEFINE S == InFlight(k)
<1>0. IsFiniteSet(S) /\ Cardinality(S) \in Nat
  BY CountsTyped DEF ChainInv
<1>1. CASE register = "null" \/ k \notin K
  <2>1. InFlight(k)' = S
    <3>1. CASE register = "null"
      BY <3>1 DEF Execute, InFlight
    <3>2. CASE register # "null" /\ k \notin K
      BY <3>2, ExecuteRuns DEF InFlight
    <3> QED
      BY <1>1, <3>1, <3>2
  <2> QED
    BY <1>0, <2>1
<1>2. CASE register # "null" /\ k \in K
  <2> DEFINE x == <<k, FreeSlot(k)>>
  <2>1. /\ \A y \in Id : run'[y].stage = IF y[1] \in K /\ y[2] = FreeSlot(y[1]) THEN "name"
                                         ELSE run[y].stage
        /\ x \in Id /\ x[1] = k /\ x[2] = FreeSlot(k)
    BY <1>2, ExecuteRuns
  <2>2. \A y \in Id : y[1] = k => ((y[2] = FreeSlot(y[1])) <=> (y = x))
    BY <2>1, SameId
  <2>3. InFlight(k)' = S \cup {x}
    BY <1>2, <2>1, <2>2 DEF InFlight
  <2> HIDE DEF x, S
  <2>4. IsFiniteSet(S \cup {x})
        /\ Cardinality(S \cup {x}) = IF x \in S THEN Cardinality(S) ELSE Cardinality(S) + 1
    BY <1>0, FS_AddElement
  <2> QED
    BY <1>0, <1>2, <2>3, <2>4 DEF S
<1> QED
  BY <1>1, <1>2

\* What starts the loops K leaves every loop as often alive as it may be.
LEMMA StartedChains ==
    ASSUME TInv, TInv', ChainInv, NEW K \in SUBSET Kind, Execute(K),
           \A k \in K : Cardinality(InFlight(k)) + 1 + orphans'[k] + Pending(k)' <= 1 + resets,
           \A k \in Kind \ K : orphans'[k] = orphans[k] /\ (handle'[k] = "armed" => handle[k] = "armed")
    PROVE  ChainInv'
<1> SUFFICES ASSUME NEW k \in Kind
             PROVE  /\ IsFiniteSet(InFlight(k)')
                    /\ Alive(k)' + Pending(k)' <= 1 + resets'
                    /\ ~offlineSyncing' \/ ~syncing'[k] => Alive(k)' <= resets'
  BY DEF ChainInv
<1>1. /\ IsFiniteSet(InFlight(k)') /\ Cardinality(InFlight(k)') \in Nat
      /\ Cardinality(InFlight(k)') <= Cardinality(InFlight(k)) + (IF k \in K THEN 1 ELSE 0)
  BY StartedAlive
<1>2. resets' = resets /\ offlineSyncing' /\ (syncing'[k] <=> syncing[k] \/ k \in K)
  BY DEF Execute
<1>3. /\ Cardinality(InFlight(k)) \in Nat /\ orphans[k] \in Nat /\ orphans'[k] \in Nat
      /\ resets \in Nat
  BY CountsTyped DEF TInv, ControlOK
<1>4. CASE k \in K
  <2>1. Cardinality(InFlight(k)) + 1 + orphans'[k] + Pending(k)' <= 1 + resets
    BY <1>4
  <2>2. Pending(k)' \in 0 .. 1
    BY DEF Pending
  <2> QED
    BY <1>1, <1>2, <1>3, <1>4, <2>1, <2>2 DEF Alive
<1>5. CASE k \notin K
  <2>1. Alive(k) + Pending(k) <= 1 + resets /\ (~syncing[k] => Alive(k) <= resets)
    BY DEF ChainInv
  <2>2. orphans'[k] = orphans[k] /\ (handle'[k] = "armed" => handle[k] = "armed")
    BY <1>5
  <2>3. Alive(k)' <= Alive(k) /\ Alive(k)' \in Nat
    BY <1>1, <1>3, <1>5, <2>2 DEF Alive
  <2>4. Pending(k)' <= Pending(k) /\ Pending(k) \in 0 .. 1 /\ Pending(k)' \in 0 .. 1
        /\ Alive(k) \in Nat
    BY <2>2, CountsTyped DEF Pending
  <2> QED
    BY <1>1, <1>2, <1>3, <1>5, <2>1, <2>3, <2>4
<1> QED
  BY <1>4, <1>5

LEMMA StepChains ==
    ASSUME TInv, TInv', ChainInv, NEW x \in Id, Step(x)
    PROVE  ChainInv'
<1>1. PICK r : Goes(x, r) /\ Flying(x)
  BY StepGoes
<1>2. \A y \in Id : run'[y] = IF y = x THEN r ELSE run[y]
  BY <1>1 DEF Goes, TInv, ControlOK
<1>3. resets' = resets
  BY StepRest
<1>4. CASE r.stage # "none" /\ UNCHANGED <<syncing, offlineSyncing, timers>>
  <2>1. \A k \in Kind : InFlight(k)' = InFlight(k)
    BY <1>1, <1>2, <1>4 DEF InFlight, Flying
  <2> QED
    BY <1>3, <1>4, <2>1 DEF ChainInv, Alive, Pending, timers
<1>5. ASSUME r = NoRun, NEW off \in BOOLEAN, End(x, off) PROVE ChainInv'
  <2>1. x[1] \in Kind /\ x \in InFlight(x[1])
    BY <1>1, IdKinds DEF InFlight, Flying
  <2> SUFFICES ASSUME NEW k \in Kind
               PROVE  /\ IsFiniteSet(InFlight(k)')
                      /\ Alive(k)' + Pending(k)' <= 1 + resets'
                      /\ ~offlineSyncing' \/ ~syncing'[k] => Alive(k)' <= resets'
    BY DEF ChainInv
  <2>2. orphans'[k] = orphans[k]
    BY <1>5 DEF End
  <2>3. /\ IsFiniteSet(InFlight(k)) /\ Alive(k) + Pending(k) <= 1 + resets
        /\ ~offlineSyncing \/ ~syncing[k] => Alive(k) <= resets
        /\ Cardinality(InFlight(k)) \in Nat /\ orphans[k] \in Nat /\ resets \in Nat
        /\ Alive(k) \in Nat /\ Pending(k) \in 0 .. 1
    BY CountsTyped DEF ChainInv
  <2>4. CASE k = x[1]
    <3>1. InFlight(k)' = InFlight(k) \ {x}
      BY <1>2, <1>5, <2>4 DEF InFlight, NoRun
    <3>2. IsFiniteSet(InFlight(k) \ {x})
          /\ Cardinality(InFlight(k) \ {x}) = Cardinality(InFlight(k)) - 1
      BY <2>1, <2>3, <2>4, FS_RemoveElement
    <3>3. Alive(k)' = Alive(k) - 1
      BY <2>2, <2>3, <3>1, <3>2 DEF Alive
    <3>4. Pending(k)' \in 0 .. 1
      BY DEF Pending
    <3> QED
      BY <1>3, <2>3, <3>1, <3>2, <3>3, <3>4
  <2>5. CASE k # x[1]
    <3>1. InFlight(k)' = InFlight(k)
      BY <1>2, <2>5 DEF InFlight
    <3>2. syncing'[k] = syncing[k] /\ handle'[k] = handle[k]
      BY <1>5, <2>5 DEF End, TInv, ControlOK
    <3>3. ~offlineSyncing' => ~offlineSyncing \/ ~syncing[k]
      <4>1. k = Other(x[1])
        BY <2>1, <2>5 DEF Kind, Other
      <4> QED
        BY <1>5, <4>1 DEF End, StillSyncing
    <3> QED
      BY <1>3, <2>2, <2>3, <3>1, <3>2, <3>3 DEF Alive, Pending
  <2> QED
    BY <2>4, <2>5
<1> QED
  BY <1>1, <1>4, <1>5 DEF Goes

LEMMA ChainKept ==
    ASSUME TInv, TInv', ChainInv, [Next]_vars
    PROVE  ChainInv'
<1>1. \A k \in Kind :
        /\ IsFiniteSet(InFlight(k)) /\ Alive(k) + Pending(k) <= 1 + resets
        /\ ~offlineSyncing \/ ~syncing[k] => Alive(k) <= resets
        /\ Cardinality(InFlight(k)) \in Nat /\ orphans[k] \in Nat /\ resets \in Nat
        /\ Alive(k) \in Nat /\ Pending(k) \in 0 .. 1
  BY CountsTyped DEF ChainInv
<1>2. ASSUME run' = run PROVE \A k \in Kind : InFlight(k)' = InFlight(k)
  BY <1>2 DEF InFlight
<1>3. ASSUME run' = run, UNCHANGED <<timers, flags, resets>> PROVE ChainInv'
  BY <1>2, <1>3 DEF ChainInv, Alive, Pending, timers, flags
<1>4. CASE InitializeSync
  <2>1. /\ \A k \in Kind : handle'[k] = "armed"
        /\ ~offlineSyncing /\ UNCHANGED <<orphans, offlineSyncing, syncing, resets, run>>
    BY <1>4 DEF InitializeSync, NoExistingSync, flags, bounds
  <2>2. \A k \in Kind : Alive(k)' = Alive(k) /\ Pending(k)' \in 0 .. 1
    BY <1>2, <2>1 DEF Alive, Pending
  <2> QED
    BY <1>1, <1>2, <2>1, <2>2 DEF ChainInv
<1>5. CASE ManualSync
  <2>1. ~offlineSyncing /\ Execute(Kind) /\ orphans' = orphans
        /\ \A k \in Kind : handle'[k] = "zero"
    BY <1>5 DEF ManualSync, StopTimers
  <2>2. ASSUME NEW k \in Kind
        PROVE  Cardinality(InFlight(k)) + 1 + orphans'[k] + Pending(k)' <= 1 + resets
    <3>1. Alive(k) <= resets /\ Pending(k)' = 0
      BY <1>1, <2>1 DEF Pending
    <3> QED
      BY <1>1, <2>1, <3>1 DEF Alive
  <2> QED
    BY <2>1, <2>2, StartedChains
<1>6. ASSUME NEW k \in Kind, TimerFires(k) PROVE ChainInv'
  <2>1. Cardinality(InFlight(k)) + 1 + orphans'[k] + Pending(k)' <= 1 + resets
    <3>1. CASE handle[k] = "armed" /\ handle' = [handle EXCEPT ![k] = "spent"] /\ UNCHANGED orphans
      <4>1. Pending(k) = 1 /\ Pending(k)' = 0
        BY <3>1 DEF Pending, TInv, ControlOK
      <4> QED
        BY <1>1, <3>1, <4>1 DEF Alive
    <3>2. CASE orphans[k] > 0 /\ orphans' = [orphans EXCEPT ![k] = @ - 1] /\ UNCHANGED handle
      <4>1. Pending(k)' = Pending(k) /\ orphans'[k] = orphans[k] - 1
        BY <3>2 DEF Pending, TInv, ControlOK
      <4> QED
        BY <1>1, <4>1 DEF Alive
    <3> QED
      BY <1>6, <3>1, <3>2 DEF TimerFires
  <2>2. \A j \in Kind \ {k} : orphans'[j] = orphans[j] /\ handle'[j] = handle[j]
    BY <1>6 DEF TimerFires, TInv, ControlOK
  <2>3. Execute({k}) /\ {k} \in SUBSET Kind
    BY <1>6 DEF TimerFires
  <2> QED
    BY <2>1, <2>2, <2>3, StartedChains
<1>7. ASSUME NEW x \in Id, Step(x) PROVE ChainInv'
  BY <1>7, StepChains
<1>8. CASE Environment
  <2>1. CASE StopOffline
    <3>1. /\ \A k \in Kind : handle'[k] = "zero"
          /\ resets' = resets + 1 /\ UNCHANGED <<orphans, offlineSyncing, syncing, run>>
      BY <2>1 DEF StopOffline, StopTimers, flags
    <3>2. \A k \in Kind : Alive(k)' = Alive(k) /\ Pending(k)' = 0
      BY <1>2, <3>1 DEF Alive, Pending
    <3> QED
      BY <1>1, <1>2, <3>1, <3>2 DEF ChainInv
  <2>2. CASE ResetDevice
    <3>1. /\ \A k \in Kind : handle'[k] = "zero"
          /\ \A k \in Kind : orphans'[k] = IF handle[k] = "armed" THEN orphans[k] + 1 ELSE orphans[k]
          /\ resets' = resets + 1 /\ run' = run
      BY <2>2 DEF ResetDevice
    <3>2. \A k \in Kind : Alive(k)' = Alive(k) + Pending(k) /\ Pending(k)' = 0
      BY <1>1, <1>2, <3>1 DEF Alive, Pending
    <3> QED
      BY <1>1, <1>2, <3>1, <3>2 DEF ChainInv
  <2>3. CASE Restart
    <3>1. /\ \A k \in Kind : InFlight(k)' = {}
          /\ \A k \in Kind : orphans'[k] = 0 /\ handle'[k] = "zero"
          /\ resets' = resets
      BY <2>3 DEF Restart, InFlight, NoRun
    <3>2. \A k \in Kind : Alive(k)' = 0 /\ Pending(k)' = 0
      BY <3>1, FS_EmptySet DEF Alive, Pending
    <3>3. \A k \in Kind : IsFiniteSet(InFlight(k)')
      BY <3>1, FS_EmptySet
    <3>4. resets \in Nat
      BY DEF TInv, RestOK
    <3>5. 0 + 0 <= 1 + resets' /\ 0 <= resets'
      BY <3>1, <3>4
    <3> QED
      BY <3>2, <3>3, <3>5, Zenon DEF ChainInv
  <2>4. CASE EnterRegister \/ Connection \/ Reconfigure \/ \E t \in Txns : SellOffline(t)
    BY <1>3, <2>4 DEF EnterRegister, Connection, Reconfigure, SellOffline, bounds
  <2> QED
    BY <1>8, <2>1, <2>2, <2>3, <2>4 DEF Environment
<1>9. CASE UNCHANGED vars
  BY <1>3, <1>9 DEF vars, bounds
<1> QED
  BY <1>4, <1>5, <1>6, <1>7, <1>8, <1>9 DEF Next

\* However many runs fail, end beside each other or are asked for by hand, a loop is alive
\* once, as a timer or as a run, and once more for each reset of the device: the handles in
\* the session and offlineSyncing together keep a second chain from starting.
THEOREM NoSecondChain == Spec => []OneChain
<1>1. Init => ChainInv
  <2> SUFFICES ASSUME Init PROVE ChainInv
    OBVIOUS
  <2>1. \A k \in Kind : InFlight(k) = {} /\ orphans[k] = 0 /\ handle[k] = "zero" /\ resets = 0
    BY DEF Init, InFlight, NoRun
  <2>2. \A k \in Kind : Alive(k) = 0 /\ Pending(k) = 0
    BY <2>1, FS_EmptySet DEF Alive, Pending
  <2> QED
    BY <2>1, <2>2, FS_EmptySet DEF ChainInv
<1>2. TInv /\ TInv' /\ ChainInv /\ [Next]_vars => ChainInv'
  BY ChainKept
<1>3. ChainInv => OneChain
  BY DEF ChainInv, OneChain, Chains, Alive, Pending
<1> QED
  BY <1>1, <1>2, <1>3, TypeAlways, PTL DEF Spec

-----------------------------------------------------------------------------
(* How often the server is given a transaction.  What is marked outside a      *)
(* purge was given back by a fault, so it has been received once for each.     *)

SentTrue ==
    /\ \A x \in Id : At(x, "send") => \A t \in run[x].loaded : txn[t] = "marked"
    /\ \A t \in Txns : received[t] <= 1 + faults
    /\ \A t \in Txns : txn[t] # "purged" /\ (txn[t] = "marked" => \A x \in Id : ~At(x, "purge"))
           => received[t] <= faults

SentInv == UploadInv /\ (~overlapped => SentTrue)

\* A step that neither loads, sends nor purges.
LEMMA SentSame ==
    ASSUME TInv, TInv', SentTrue, UNCHANGED <<txn, received>>,
           faults' = faults \/ faults' = faults + 1,
           \A x \in Id : run'[x] = run[x]
               \/ (run'[x].stage \notin {"send", "purge"} /\ ~At(x, "purge"))
               \/ (run'[x].stage \notin {"send", "purge"} /\ faults' = faults + 1)
    PROVE  SentTrue'
<1>1. faults \in Nat /\ faults' \in Nat /\ \A t \in Txns : received[t] \in Nat
  BY DEF TInv, RestOK, DataOK
<1>2. \A x \in Id : At(x, "send")' => \A t \in run'[x].loaded : txn'[t] = "marked"
  BY DEF SentTrue, At
<1>3. \A t \in Txns : received'[t] <= 1 + faults'
  BY <1>1 DEF SentTrue
<1>4. CASE faults' = faults + 1
  BY <1>1, <1>2, <1>3, <1>4 DEF SentTrue
<1>5. CASE faults' = faults
  <2>1. \A x \in Id : At(x, "purge") => At(x, "purge")'
    BY <1>1, <1>5 DEF At
  <2>2. ASSUME NEW t \in Txns, txn[t] # "purged", txn[t] = "marked" => \A x \in Id : ~At(x, "purge")'
        PROVE  received[t] <= faults
    BY <2>1, <2>2 DEF SentTrue
  <2> QED
    BY <1>2, <1>3, <1>5, <2>2 DEF SentTrue
<1> QED
  BY <1>4, <1>5

LEMMA SentStep ==
    ASSUME TInv, TInv', UploadTrue, SentTrue, NEW x \in Id, Step(x)
    PROVE  SentTrue'
<1>1. PICK r : Goes(x, r) /\ Flying(x)
  BY StepGoes
<1>2. /\ \A y \in Id : run'[y] = IF y = x THEN r ELSE run[y]
      /\ run[x] \in RunOf(x[1]) /\ r = run'[x]
  BY <1>1 DEF Goes, TInv, ControlOK
<1>3. ASSUME NEW y \in Id, run[y].stage \in {"send", "purge"}, x[1] = "upload" PROVE y = x
  BY <1>1, <1>3, LoopOf DEF TInv, UploadTrue, Lone, Flying
<1>4. faults' = faults \/ faults' = faults + 1
  BY StepRest DEF Fault
<1>5. faults \in Nat /\ faults' \in Nat /\ \A t \in Txns : received[t] \in Nat
  BY DEF TInv, RestOK, DataOK
<1>6. CASE ~TransactionsLoaded(x) /\ ~TransactionsSent(x) /\ ~TransactionsPurged(x)
  <2>1. UNCHANGED <<txn, received>> /\ run'[x].stage \notin {"send", "purge"}
    BY <1>6, OtherSteps
  <2>2. ~At(x, "purge")
    BY <1>6 DEF Step, NameAnswered, Rejected, SessionsAnswered, LinkAnswered, FileDownloaded,
                FileApplied, StatusReported, At
  <2> QED
    BY <1>2, <1>4, <2>1, <2>2, SentSame
<1>7. CASE TransactionsLoaded(x)
  <2>1. x[1] = "upload" /\ At(x, "load") /\ UNCHANGED received
    BY <1>7, LoopOf DEF TransactionsLoaded, At, TInv
  <2>2. CASE UNCHANGED txn /\ End(x, disabled)
    <3>1. run'[x].stage = "none"
      BY <2>2 DEF End, NoRun, TInv, ControlOK
    <3> QED
      BY <1>2, <1>4, <2>1, <2>2, <3>1, SentSame DEF At
  <2>3. CASE /\ Remark({"new"}, "marked") /\ faults' = faults
             /\ Continue(x, [run[x] EXCEPT !.stage = "send", !.loaded = Waiting])
    <3>1. run'[x].stage = "send" /\ run'[x].loaded = Waiting
      BY <1>2, <2>3 DEF Continue, RunOf, TInv, ControlOK
    <3>2. \A t \in Txns : txn'[t] = IF txn[t] = "new" THEN "marked" ELSE txn[t]
      BY <2>3 DEF Remark
    <3>3. \A t \in Waiting : txn'[t] = "marked"
      BY <3>2 DEF Waiting
    <3>4. \A y \in Id : run[y].stage \notin {"send", "purge"}
      BY <1>3, <2>1 DEF At
    <3>5. \A t \in Txns : txn'[t] # "purged" => received[t] <= faults
      BY <3>2, <3>4 DEF SentTrue, At
    <3>6. \A y \in Id : At(y, "send")' => \A t \in run'[y].loaded : txn'[t] = "marked"
      BY <1>2, <3>1, <3>3, <3>4 DEF At
    <3> QED
      BY <2>1, <2>3, <3>5, <3>6 DEF SentTrue
  <2> QED
    BY <1>7, <2>2, <2>3 DEF TransactionsLoaded, NoFault
<1>8. CASE TransactionsSent(x)
  <2>1. PICK delivered, ok \in BOOLEAN :
          /\ ok => delivered
          /\ IF delivered /\ ~ok THEN Fault ELSE NoFault
          /\ received' = IF delivered
                         THEN [t \in Txns |-> IF t \in run[x].loaded /\ received[t] < MaxCount
                                             THEN received[t] + 1 ELSE received[t]]
                         ELSE received
          /\ Move(x, AfterSend(ok))
    BY <1>8 DEF TransactionsSent
  <2>2. At(x, "send") /\ x[1] = "upload" /\ UNCHANGED txn
    BY <1>8, LoopOf DEF TransactionsSent, At, TInv
  <2>3. run'[x].stage = AfterSend(ok)
    BY <1>2, <2>1 DEF Move, Continue, RunOf, TInv, ControlOK
  <2>4. \A y \in Id : ~At(y, "send")' /\ ~At(y, "purge")
    BY <1>2, <1>3, <2>2, <2>3 DEF At, AfterSend
  <2>5. ASSUME NEW t \in Txns
        PROVE  /\ received'[t] <= 1 + faults'
               /\ txn[t] # "purged" /\ ~(ok /\ txn[t] = "marked") => received'[t] <= faults'
    <3>1. received[t] <= 1 + faults /\ (txn[t] # "purged" => received[t] <= faults)
      BY <2>4 DEF SentTrue
    <3>2. t \in run[x].loaded => txn[t] = "marked"
      BY <2>2 DEF SentTrue
    <3>3. CASE received'[t] = received[t]
      BY <1>4, <1>5, <3>1, <3>3
    <3>4. CASE received'[t] # received[t]
      <4>1. delivered /\ t \in run[x].loaded /\ received'[t] = received[t] + 1
        <5>1. delivered
          BY <2>1, <3>4
        <5>2. received'[t] = IF t \in run[x].loaded /\ received[t] < MaxCount
                             THEN received[t] + 1 ELSE received[t]
          BY <2>1, <5>1
        <5> QED
          BY <3>4, <5>1, <5>2
      <4>2. received[t] <= faults /\ txn[t] = "marked"
        BY <3>1, <3>2, <4>1
      <4>3. ~ok => faults' = faults + 1
        BY <2>1, <4>1 DEF Fault
      <4> QED
        BY <1>4, <1>5, <4>1, <4>2, <4>3
    <3> QED
      BY <3>3, <3>4
  <2>6. ok => At(x, "purge")'
    BY <2>3 DEF AfterSend, At
  <2> QED
    BY <2>2, <2>4, <2>5, <2>6 DEF SentTrue
<1>9. CASE TransactionsPurged(x)
  <2>1. /\ x[1] = "upload" /\ run[x].stage \in {"purge", "unmark"} /\ UNCHANGED received
        /\ End(x, disabled)
    BY <1>9, LoopOf DEF TransactionsPurged, At, TInv
  <2>2. run'[x].stage = "none"
    BY <2>1 DEF End, NoRun, TInv, ControlOK
  <2>3. \A y \in Id : run'[y].stage \notin {"send", "purge"}
    BY <1>2, <1>3, <2>1, <2>2
  <2>4. CASE Fault /\ UNCHANGED txn
    BY <1>2, <2>1, <2>2, <2>4, SentSame DEF Fault
  <2>5. CASE At(x, "purge") /\ Remark({"marked"}, "purged") /\ NoFault
    <3>1. /\ \A t \in Txns : txn'[t] # "purged" => txn[t] = txn'[t] /\ txn[t] # "marked"
          /\ faults' = faults
      BY <2>5 DEF Remark, NoFault
    <3> QED
      BY <2>1, <2>3, <3>1 DEF SentTrue, At
  <2>6. CASE At(x, "unmark") /\ Remark({"marked"}, "new") /\ NoFault
    <3>1. \A y \in Id : ~At(y, "purge")
      BY <1>3, <2>1, <2>6 DEF At
    <3>2. (\A t \in Txns : txn'[t] # "purged" => txn[t] # "purged") /\ faults' = faults
      BY <2>6 DEF Remark, NoFault
    <3> QED
      BY <2>1, <2>3, <3>1, <3>2 DEF SentTrue, At
  <2> QED
    BY <1>9, <2>4, <2>5, <2>6 DEF TransactionsPurged
<1> QED
  BY <1>6, <1>7, <1>8, <1>9

LEMMA SentKept ==
    ASSUME TInv, TInv', SentInv, [Next]_vars
    PROVE  SentInv'
<1>0. UploadInv'
  BY UploadKept DEF SentInv
<1> SUFFICES ASSUME ~overlapped' PROVE SentTrue'
  BY <1>0 DEF SentInv
<1>1. ASSUME ~overlapped, UNCHANGED <<txn, received, faults>>,
             \A x \in Id : run'[x] = run[x]
                 \/ (run'[x].stage \notin {"send", "purge"} /\ ~At(x, "purge"))
      PROVE  SentTrue'
  BY <1>1, SentSame DEF SentInv
<1>2. CASE InitializeSync
  BY <1>1, <1>2 DEF InitializeSync, data, bounds
<1>3. ASSUME NEW K \in SUBSET Kind, Execute(K) PROVE SentTrue'
  <2>1. ~overlapped /\ UNCHANGED <<txn, received, faults>>
    BY <1>3 DEF Execute, data
  <2>2. CASE register = "null"
    BY <1>1, <1>3, <2>1, <2>2 DEF Execute
  <2>3. CASE register # "null"
    <3>1. \A x \in Id : x[1] \in K => ~Flying(x)
      BY <1>3, <2>3 DEF Execute, InFlight, Flying
    <3>2. ASSUME NEW x \in Id
          PROVE  run'[x] = run[x] \/ (run'[x].stage \notin {"send", "purge"} /\ ~At(x, "purge"))
      <4>1. CASE x[1] \in K /\ x[2] = FreeSlot(x[1])
        <5>1. run'[x].stage = "name"
          BY <1>3, <2>3, <4>1, ExecuteRuns
        <5> QED
          BY <3>1, <4>1, <5>1 DEF Flying, At
      <4>2. CASE ~(x[1] \in K /\ x[2] = FreeSlot(x[1]))
        BY <1>3, <2>3, <4>2 DEF Execute
      <4> QED
        BY <4>1, <4>2
    <3> QED
      BY <1>1, <2>1, <3>2
  <2> QED
    BY <2>2, <2>3
<1>4. CASE ManualSync \/ \E k \in Kind : TimerFires(k)
  <2>1. Kind \in SUBSET Kind /\ \A k \in Kind : {k} \in SUBSET Kind
    OBVIOUS
  <2> QED
    BY <1>3, <1>4, <2>1 DEF ManualSync, TimerFires
<1>5. ASSUME NEW x \in Id, Step(x) PROVE SentTrue'
  <2>1. ~overlapped
    BY <1>5, StepRest
  <2> QED
    BY <1>5, <2>1, SentStep DEF SentInv, UploadInv
<1>6. CASE Environment
  <2>0. ~overlapped
    BY <1>6 DEF Environment, StopOffline, ResetDevice, EnterRegister, Restart, Connection, Reconfigure,
                SellOffline, bounds
  <2>1. CASE Restart
    <3>1. \A x \in Id : run'[x].stage = "none"
      BY <2>1 DEF Restart, NoRun
    <3>2. UNCHANGED <<txn, received>> /\ faults' = faults + 1
      BY <2>1 DEF Restart, Fault, data
    <3> QED
      BY <2>0, <3>1, <3>2, SentSame DEF SentInv
  <2>2. ASSUME NEW t \in Txns, SellOffline(t) PROVE SentTrue'
    <3>1. UNCHANGED <<run, received, faults>> /\ txn[t] = "unmade" /\ txn' = [txn EXCEPT ![t] = "new"]
      BY <2>2 DEF SellOffline, bounds
    <3>2. \A s \in Txns : txn'[s] = IF s = t THEN "new" ELSE txn[s]
      BY <3>1 DEF TInv, DataOK
    <3>3. \A x \in Id : At(x, "send")' => \A s \in run'[x].loaded : txn'[s] = "marked"
      <4>1. \A x \in Id : run[x].loaded \subseteq Txns
        BY DEF TInv, ControlOK, RunOf
      <4> QED
        BY <2>0, <3>1, <3>2, <4>1 DEF SentInv, SentTrue, At
    <3>4. \A s \in Txns : received'[s] <= 1 + faults'
      BY <2>0, <3>1 DEF SentInv, SentTrue
    <3>5. \A s \in Txns : txn'[s] # "purged" /\ (txn'[s] = "marked" => \A x \in Id : ~At(x, "purge")')
              => received'[s] <= faults'
      BY <2>0, <3>1, <3>2 DEF SentInv, SentTrue, At
    <3> QED
      BY <3>3, <3>4, <3>5 DEF SentTrue
  <2>3. CASE StopOffline \/ ResetDevice \/ EnterRegister \/ Connection \/ Reconfigure
    BY <1>1, <2>0, <2>3 DEF StopOffline, ResetDevice, EnterRegister, Connection, Reconfigure,
                             data, bounds
  <2> QED
    BY <1>6, <2>1, <2>2, <2>3 DEF Environment
<1>7. CASE UNCHANGED vars
  BY <1>1, <1>7 DEF vars, data, bounds
<1> QED
  BY <1>2, <1>4, <1>5, <1>6, <1>7 DEF Next

\* Until two uploads overlap, the server is given a transaction once, and once more for
\* each fault: what is marked is given again only when a fault came between the delivery
\* and the purge.
THEOREM GivenOnce == Spec => []SentOnce
<1>1. Init => SentInv
  <2> SUFFICES ASSUME Init PROVE SentInv
    OBVIOUS
  <2>1. \A t \in Txns : received[t] = 0 /\ txn[t] = "unmade" /\ faults = 0
    BY DEF Init
  <2>2. \A x \in Id : run[x].stage = "none"
    BY DEF Init, NoRun
  <2> QED
    BY <2>1, <2>2 DEF SentInv, UploadInv, UploadTrue, SentTrue, Lone, Flying, At
<1>2. TInv /\ TInv' /\ SentInv /\ [Next]_vars => SentInv'
  BY SentKept
<1>3. SentInv => SentOnce
  BY DEF SentInv, SentTrue, SentOnce
<1> QED
  BY <1>1, <1>2, <1>3, TypeAlways, PTL DEF Spec
=============================================================================
