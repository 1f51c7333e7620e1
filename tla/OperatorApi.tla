------------------------------ MODULE OperatorApi ------------------------------
(***************************************************************************)
(* The operations of the operator's API (src/api/services.py) on the state *)
(* it keeps in memory and in the database: the kill switch, the strategy   *)
(* configuration and the backtest runs.  Every step is one transaction or  *)
(* one assignment; the threads of AuthSessions run them.                   *)
(***************************************************************************)
EXTENDS AuthSessions

CONSTANTS Values,               \* parameters a strategy accepts
          Default,              \* those it has at first, _strategy_defaults
          Refused,              \* parameters its constructor raises on
          MaxTrades,            \* bound: trades of a backtest
          BootstrapOnStartup,   \* auth_bootstrap_admin_on_startup
          BootstrapPassword

ASSUME ApiAssumption ==
    /\ Refused \notin Values /\ Default \in Values /\ MaxTrades \in Nat
    /\ BootstrapOnStartup \in BOOLEAN /\ BootstrapPassword \in Passwords

VARIABLES killSwitch,   \* TradingApiService.kill_switch_enabled
          globalKill,   \* GlobalStateModel.kill_switch_enabled
          strategy,     \* strategy_state[name]: status and parameters
          row,          \* its StrategyConfigModel
          runs,         \* RunHistoryModel by run: status, details' trades, trades recorded
          acknowledged, \* ghost: what the answered updates say the strategy is
          taint         \* ghost: "none"; an update that failed left something in "memory", or in
                        \* the "row" with a later one; or two updates overlapped ("row")

vars_api == <<killSwitch, globalKill, strategy, row, runs, acknowledged, taint>>
vars == <<vars_auth, job, requests, faults, vars_api>>

\* Inputs
Unset == "unset"
Patch == [status : {"enabled", "disabled", Unset}, value : Values \cup {Refused, Unset}]

Init ==
    /\ password = BootstrapPassword
    /\ sessions = <<[revoked |-> FALSE, expired |-> FALSE, left |-> FALSE]>>
    /\ attempts = NoRow /\ failures = 0 /\ overlapped = FALSE
    /\ job = [t \in RequestThreads |-> Idle] /\ requests = 0 /\ faults = 0
    /\ globalKill = FALSE /\ killSwitch = FALSE
    /\ row = [status |-> "enabled", value |-> Default] /\ strategy = row /\ acknowledged = row
    /\ runs = <<>> /\ taint = "none"

(***************************************************************************)
(* Kill switch                                                             *)
(***************************************************************************)

BeginKill(t) ==
    /\ Begin(t)
    /\ \E on \in BOOLEAN : Enter(t, [op |-> "kill", on |-> on])
    /\ UNCHANGED <<vars_auth, faults, vars_api>>

\* set_kill_switch assigns the memory first,
Kill(t) ==
    /\ At(t, "kill")
    /\ killSwitch' = job[t].request.on
    /\ Goto(t, "killcommit")
    /\ UNCHANGED <<vars_auth, requests, faults, globalKill, strategy, row, runs, acknowledged, taint>>

\* and then the database.
CommitKill(t) ==
    /\ At(t, "killcommit")
    /\ globalKill' = job[t].request.on
    /\ Done(t)
    /\ UNCHANGED <<vars_auth, requests, faults, killSwitch, strategy, row, runs, acknowledged, taint>>

\* Mutant: the switch is taken from the memory it is assigned to.
SwitchReadOwn == killSwitch

\* get_global_kill_switch
SwitchRead == globalKill

BeginStatus(t) ==
    /\ At(t, "idle") /\ Enter(t, [op |-> "status"])
    /\ UNCHANGED <<vars_auth, requests, faults, vars_api>>

\* dashboard_summary, risk_status, system_status: the answer of the database replaces the memory.
ReadSwitch(t) ==
    /\ At(t, "status")
    /\ job' = [job EXCEPT ![t] = [step |-> "assign", seen |-> SwitchRead]]
    /\ UNCHANGED <<vars_auth, requests, faults, vars_api>>

AssignSwitch(t) ==
    /\ At(t, "assign")
    /\ killSwitch' = job[t].seen
    /\ Done(t)
    /\ UNCHANGED <<vars_auth, requests, faults, globalKill, strategy, row, runs, acknowledged, taint>>

\* The trading worker enables the switch in the database (worker/service.py).
WorkerKills ==
    /\ faults < MaxFaults /\ ~globalKill
    /\ faults' = faults + 1 /\ globalKill' = TRUE
    /\ UNCHANGED <<vars_auth, job, requests, killSwitch, strategy, row, runs, acknowledged, taint>>

(***************************************************************************)
(* update_strategy                                                         *)
(***************************************************************************)

Given(new, old) == IF new = Unset THEN old ELSE new
Patched(s, p) == [status |-> Given(p.status, s.status), value |-> Given(p.value, s.value)]
Updating == {t \in RequestThreads : job[t].step \in {"validate", "upsert"}}

BeginUpdate(t) ==
    /\ Begin(t)
    /\ \E p \in Patch : Enter(t, [op |-> "update", patch |-> p])
    /\ UNCHANGED <<vars_auth, faults, vars_api>>

\* The status is set before the parameters are looked at.
SetStatus(t) ==
    /\ At(t, "update")
    /\ strategy' = [strategy EXCEPT !.status = Given(job[t].request.patch.status, @)]
    /\ job' = [job EXCEPT ![t] = [step |-> "validate", patch |-> job[t].request.patch, was |-> strategy]]
    /\ taint' = IF Updating = {} THEN taint ELSE "row"
    /\ UNCHANGED <<vars_auth, requests, faults, killSwitch, globalKill, row, runs, acknowledged>>

Spoil(was) == taint' = IF taint = "none" /\ strategy' # was THEN "memory" ELSE taint

\* Mutant: the row is made of the parameters from before the update.
RowOfOld(s, p) == [s EXCEPT !.status = Given(p.status, @)]

\* The arguments of upsert_strategy_config, once the parameters are merged.
RowOf(s, p) == Patched(s, p)

Validate(t) ==
    /\ At(t, "validate")
    /\ IF job[t].patch.value = Refused
       THEN Done(t) /\ UNCHANGED strategy /\ Spoil(job[t].was)
       ELSE /\ strategy' = [strategy EXCEPT !.value = Given(job[t].patch.value, @)]
            /\ job' = [job EXCEPT ![t] = [step |-> "upsert", patch |-> job[t].patch, was |-> job[t].was,
                                          row |-> RowOf(strategy, job[t].patch)]]
            /\ UNCHANGED taint
    /\ UNCHANGED <<vars_auth, requests, faults, killSwitch, globalKill, row, runs, acknowledged>>

UpsertStrategy(t) ==
    /\ At(t, "upsert")
    /\ row' = job[t].row
    /\ acknowledged' = Patched(acknowledged, job[t].patch)
    /\ taint' = IF taint = "memory" THEN "row" ELSE taint
    /\ Done(t)
    /\ UNCHANGED <<vars_auth, requests, faults, killSwitch, globalKill, strategy, runs>>

(***************************************************************************)
(* run_backtest                                                            *)
(***************************************************************************)

BeginBacktest(t) ==
    /\ Begin(t) /\ Enter(t, [op |-> "backtest"])
    /\ UNCHANGED <<vars_auth, faults, vars_api>>

CheckBacktest(t) ==
    /\ At(t, "backtest")
    /\ IF killSwitch \/ strategy.status # "enabled" THEN Done(t) ELSE Goto(t, "start")
    /\ UNCHANGED <<vars_auth, requests, faults, vars_api>>

StartRun(t) ==
    /\ At(t, "start")
    /\ runs' = Append(runs, [status |-> "running", said |-> 0, trades |-> 0])
    /\ job' = [job EXCEPT ![t] = [step |-> "work", run |-> Len(runs')]]
    /\ UNCHANGED <<vars_auth, requests, faults, killSwitch, globalKill, strategy, row, acknowledged, taint>>

\* Mutant: the run is finished first, the trades are recorded after it.
FirstOfFinish(n) == "finish"

\* The trades are recorded one by one, and then the run is finished.
FirstOf(n) == IF n = 0 THEN "finish" ELSE "record"

\* A thread with so many trades of n still to record.
Recording(t, n, left) ==
    job' = [job EXCEPT ![t] = [step |-> FirstOf(left), run |-> job[t].run, n |-> n, left |-> left]]

\* run_backtest_workflow, any exception included.
Work(t) ==
    /\ At(t, "work")
    /\ \/ Goto(t, "fail")
       \/ \E n \in 0..MaxTrades : Recording(t, n, n)
    /\ UNCHANGED <<vars_auth, requests, faults, vars_api>>

RecordTrade(t) ==
    /\ At(t, "record")
    /\ runs' = [runs EXCEPT ![job[t].run].trades = @ + 1]
    /\ Recording(t, job[t].n, job[t].left - 1)
    /\ UNCHANGED <<vars_auth, requests, faults, killSwitch, globalKill, strategy, row, acknowledged, taint>>

FinishRun(t) ==
    /\ At(t, "finish")
    /\ runs' = [runs EXCEPT ![job[t].run].status = "completed", ![job[t].run].said = job[t].n]
    /\ Goto(t, "log")
    /\ UNCHANGED <<vars_auth, requests, faults, killSwitch, globalKill, strategy, row, acknowledged, taint>>

\* append_log_event("api_backtest_completed"), the last statement of the try block.
LogCompleted(t) ==
    /\ At(t, "log")
    /\ Done(t)
    /\ UNCHANGED <<vars_auth, requests, faults, vars_api>>

FailRun(t) ==
    /\ At(t, "fail")
    /\ runs' = [runs EXCEPT ![job[t].run].status = "failed"]
    /\ Done(t)
    /\ UNCHANGED <<vars_auth, requests, faults, killSwitch, globalKill, strategy, row, acknowledged, taint>>

(***************************************************************************)
(* Failures, restarts                                                      *)
(***************************************************************************)

Transactions == {"blocked", "verify", "failed", "count", "clear", "create", "token", "expire", "touch",
                 "logout", "password", "newpassword", "killcommit", "status", "upsert", "start",
                 "record", "finish", "log", "fail"}

\* A transaction raises.  Within its try block run_backtest answers with the "failed" status.
DbFails(t) ==
    /\ job[t].step \in Transactions /\ faults < MaxFaults
    /\ faults' = faults + 1
    /\ IF job[t].step \in {"record", "finish", "log"} THEN Goto(t, "fail") ELSE Done(t)
    /\ IF At(t, "upsert") THEN taint' = IF taint = "none" /\ strategy # job[t].was THEN "memory" ELSE taint
                          ELSE UNCHANGED taint
    /\ UNCHANGED <<vars_auth, requests, killSwitch, globalKill, strategy, row, runs, acknowledged>>

\* The process stops at any point and starts again: __post_init__, maybe_bootstrap_admin_from_settings.
Restart ==
    /\ faults < MaxFaults
    /\ faults' = faults + 1
    /\ job' = [t \in RequestThreads |-> Idle]
    /\ killSwitch' = globalKill /\ strategy' = row
    /\ taint' = IF taint = "memory" THEN "none" ELSE taint
    /\ password' = IF BootstrapOnStartup THEN BootstrapPassword ELSE password
    /\ UNCHANGED <<sessions, attempts, failures, overlapped, requests, globalKill, row, runs, acknowledged>>

Step(t) ==
    \/ AuthStep(t) /\ UNCHANGED vars_api
    \/ BeginKill(t) \/ Kill(t) \/ CommitKill(t)
    \/ BeginStatus(t) \/ ReadSwitch(t) \/ AssignSwitch(t)
    \/ BeginUpdate(t) \/ SetStatus(t) \/ Validate(t) \/ UpsertStrategy(t)
    \/ BeginBacktest(t) \/ CheckBacktest(t) \/ StartRun(t) \/ Work(t)
    \/ RecordTrade(t) \/ FinishRun(t) \/ LogCompleted(t) \/ FailRun(t)
    \/ DbFails(t)

Next ==
    \/ \E t \in RequestThreads : Step(t)
    \/ TimePasses /\ UNCHANGED vars_api
    \/ WorkerKills
    \/ Restart

Spec == Init /\ [][Next]_vars

\* Every request is answered some time: its thread is free again and again.
LiveSpec == Spec /\ \A t \in RequestThreads : []<>(job[t] = Idle)

(***************************************************************************)
(* Properties                                                              *)
(***************************************************************************)

\* However toggles, the worker and status requests interleave, the memory's switch, which the
\* backtests are checked against, is in the end the database's, which the worker obeys, if status
\* requests go on being answered (set_kill_switch, dashboard_summary).
KillSwitchConverges ==
    []<>(\E t \in RequestThreads : At(t, "assign")) => <>[](killSwitch = globalKill)

\* As long as no two updates overlapped and none that failed left its half behind, what was
\* answered is what the memory has and what a restart will find (update_strategy).
AcknowledgedUpdatesLast ==
    taint = "none" /\ (\A t \in RequestThreads : job[t].step \notin {"validate", "upsert"})
        => row = acknowledged /\ strategy = acknowledged

\* A run is "completed" only with all of the trades its details count, wherever a transaction
\* fails or the process stops (run_backtest).
CompletedHasTrades ==
    \A r \in DOMAIN runs : runs[r].status = "completed" => runs[r].trades = runs[r].said
=============================================================================
