--------------------------- MODULE OperatorApi_proofs ---------------------------
(***************************************************************************)
(* A completed run has its trades, a session that was logged out of is not *)
(* used again, a login is blocked only by the wrong passwords it takes,    *)
(* and an update that was answered is what memory and database keep, for   *)
(* all threads, requests, failures and restarts.                           *)
(***************************************************************************)
EXTENDS OperatorApi, TLAPS

Operations == {"password", "kill", "status", "update", "backtest"}
Authenticating == {"token", "expire", "touch"}
OnRun == {"work", "record", "finish", "log", "fail"}

\* What a thread is at is a record with a step; a request that authenticates goes on to an operation.
Shaped(j) ==
    /\ j = [x \in DOMAIN j |-> j[x]] /\ "step" \in DOMAIN j
    /\ j.step \in Authenticating => j.request.op \in Operations

JobShapes ==
    /\ job = [t \in RequestThreads |-> job[t]]
    /\ \A t \in RequestThreads : Shaped(job[t])

-----------------------------------------------------------------------------
(* How a thread goes on.                                                   *)

LEMMA IdleShaped == Shaped(Idle) /\ Idle.step = "idle" /\ DOMAIN Idle = {"step"}
<1>1. DOMAIN Idle = {"step"} /\ Idle.step = "idle"
  BY DEF Idle
<1>2. Idle = [x \in DOMAIN Idle |-> Idle[x]]
  BY <1>1 DEF Idle
<1>3. QED
  BY <1>1, <1>2 DEF Shaped, Authenticating

\* A thread that goes on to a step keeps everything else.
LEMMA GoesOn ==
    ASSUME JobShapes, NEW t \in RequestThreads, NEW s, s \notin Authenticating \/ job[t].step \in Authenticating,
           Goto(t, s)
    PROVE  \E j : /\ job' = [job EXCEPT ![t] = j] /\ Shaped(j)
                  /\ j.step = s /\ DOMAIN j = DOMAIN job[t]
                  /\ j = [job[t] EXCEPT !.step = s]
                  /\ \A x \in DOMAIN j : x # "step" => j[x] = job[t][x]
<1> DEFINE j == [job[t] EXCEPT !.step = s]
<1>1. job[t] = [x \in DOMAIN job[t] |-> job[t][x]] /\ "step" \in DOMAIN job[t]
  BY DEF JobShapes, Shaped
<1>2. job' = [job EXCEPT ![t] = j]
  BY DEF Goto, JobShapes
<1>3. /\ DOMAIN j = DOMAIN job[t] /\ j = [x \in DOMAIN j |-> j[x]]
      /\ j.step = s /\ \A x \in DOMAIN j : x # "step" => j[x] = job[t][x]
  BY <1>1
<1>4. ASSUME j.step \in Authenticating PROVE j.request.op \in Operations
  <2>1. job[t].request.op \in Operations
    BY <1>3, <1>4 DEF JobShapes, Shaped
  <2>2. j.request = job[t].request
    BY <1>1
  <2>3. QED
    BY <2>1, <2>2
<1>5. Shaped(j)
  <2> HIDE DEF j
  <2> QED BY <1>1, <1>3, <1>4 DEF Shaped
<1>6. QED
  BY <1>2, <1>3, <1>5

LEMMA NextShapes ==
    ASSUME JobShapes, NEW t \in RequestThreads, NEW j, Shaped(j), job' = [job EXCEPT ![t] = j]
    PROVE  /\ JobShapes' /\ job'[t] = j
           /\ \A u \in RequestThreads : u # t => job'[u] = job[u]
  BY DEF JobShapes

-----------------------------------------------------------------------------
(* Backtests.                                                              *)

\* How far the run of a thread is: with its trades still to come, being recorded, or complete.
OnItsRun(t) ==
    LET r == runs[job[t].run] IN
    /\ job[t].run \in DOMAIN runs
    /\ job[t].step = "work" => r.status = "running" /\ r.trades = 0
    /\ job[t].step = "record" => /\ r.status = "running" /\ job[t].n \in Nat
                                 /\ job[t].left \in Nat /\ job[t].left > 0 /\ r.trades + job[t].left = job[t].n
    /\ job[t].step = "finish" => r.status = "running" /\ r.trades = job[t].n

Run == [status : {"running", "completed", "failed"}, said : Nat, trades : Nat]

\* No two threads have the same run.
RunsInv ==
    /\ JobShapes
    /\ runs \in Seq(Run)
    /\ CompletedHasTrades
    /\ \A t \in RequestThreads : job[t].step \in OnRun => OnItsRun(t)
    /\ \A t, u \in RequestThreads :
         t # u /\ job[t].step \in OnRun /\ job[u].step \in OnRun => job[t].run # job[u].run

\* A thread that is on no run afterwards.
LEMMA RunsElsewhere ==
    ASSUME RunsInv, NEW t \in RequestThreads, NEW j, Shaped(j), j.step \notin OnRun,
           job' = [job EXCEPT ![t] = j], runs' = runs
    PROVE  RunsInv'
<1>1. JobShapes' /\ job'[t] = j /\ \A u \in RequestThreads : u # t => job'[u] = job[u]
  BY NextShapes DEF RunsInv
<1>2. CompletedHasTrades'
  BY DEF RunsInv, CompletedHasTrades
<1>3. ASSUME NEW u \in RequestThreads, job'[u].step \in OnRun PROVE OnItsRun(u)' /\ u # t /\ job'[u] = job[u]
  BY <1>1, <1>3 DEF RunsInv, OnItsRun
<1>4. QED
  BY <1>1, <1>2, <1>3 DEF RunsInv

LEMMA RunsDone ==
    ASSUME RunsInv, NEW t \in RequestThreads, Done(t), runs' = runs
    PROVE  RunsInv'
  BY RunsElsewhere, IdleShaped DEF Done, OnRun

LEMMA RunsGoto ==
    ASSUME RunsInv, NEW t \in RequestThreads, NEW s, s \notin OnRun,
           s \notin Authenticating \/ job[t].step \in Authenticating, Goto(t, s), runs' = runs
    PROVE  RunsInv'
<1>1. PICK j : job' = [job EXCEPT ![t] = j] /\ Shaped(j) /\ j.step = s
  BY GoesOn DEF RunsInv
<1>2. QED
  BY <1>1, RunsElsewhere

LEMMA RunsEnter ==
    ASSUME RunsInv, NEW t \in RequestThreads, NEW request, request.op \in Operations, Enter(t, request),
           runs' = runs
    PROVE  RunsInv'
<1>1. PICK s : job' = [job EXCEPT ![t] = [step |-> "token", session |-> s, late |-> sessions[s].left,
                                             request |-> request]]
  BY DEF Enter
<1> DEFINE j == [step |-> "token", session |-> s, late |-> sessions[s].left, request |-> request]
<1>2. Shaped(j) /\ j.step \notin OnRun
  BY DEF Shaped, OnRun
<1>3. QED
  BY <1>1, <1>2, RunsElsewhere

\* A step that says what its thread does next, and touches no run.
LEMMA RunsAuth ==
    ASSUME RunsInv, NEW t \in RequestThreads, AuthStep(t), runs' = runs
    PROVE  RunsInv'
<1>1. CASE BeginLogin(t)
  <2>1. PICK entered \in Passwords : job' = [job EXCEPT ![t] = [step |-> "blocked", entered |-> entered]]
    BY <1>1 DEF BeginLogin
  <2>2. Shaped([step |-> "blocked", entered |-> entered])
    BY DEF Shaped, Authenticating
  <2>3. QED
    BY <2>1, <2>2, RunsElsewhere DEF OnRun
<1>2. CASE CheckBlocked(t)
  BY <1>2, RunsDone, RunsGoto DEF CheckBlocked, OnRun, Authenticating
<1>3. CASE Verify(t)
  BY <1>3, RunsGoto DEF Verify, OnRun, Authenticating
<1>4. CASE ReadAttempts(t)
  <2>1. Shaped([step |-> "count", count |-> NextCount])
    BY DEF Shaped, Authenticating
  <2>2. QED
    BY <1>4, <2>1, RunsElsewhere DEF ReadAttempts, OnRun
<1>5. CASE WriteAttempts(t) \/ CreateSession(t) \/ RevokeExpired(t) \/ Logout(t) \/ WritePassword(t)
  BY <1>5, RunsDone DEF WriteAttempts, CreateSession, RevokeExpired, Logout, WritePassword
<1>6. CASE ClearAttempts(t)
  BY <1>6, RunsGoto DEF ClearAttempts, OnRun, Authenticating
<1>7. CASE ReadToken(t)
  BY <1>7, RunsDone, RunsGoto DEF ReadToken, At, OnRun, Authenticating
<1>8. CASE Touch(t)
  <2>1. job[t].request.op \in Operations
    BY <1>8 DEF Touch, At, RunsInv, JobShapes, Shaped, Authenticating
  <2>2. QED
    BY <1>8, <2>1, RunsGoto DEF Touch, Operations, OnRun, Authenticating
<1>9. CASE BeginLogout(t)
  <2>1. PICK s \in DOMAIN sessions : job' = [job EXCEPT ![t] = [step |-> "logout", session |-> s]]
    BY <1>9 DEF BeginLogout
  <2>2. Shaped([step |-> "logout", session |-> s])
    BY DEF Shaped, Authenticating
  <2>3. QED
    BY <2>1, <2>2, RunsElsewhere DEF OnRun
<1>10. CASE BeginPassword(t)
  <2>1. PICK entered, new \in Passwords : Enter(t, [op |-> "password", entered |-> entered, new |-> new])
    BY <1>10 DEF BeginPassword
  <2>2. [op |-> "password", entered |-> entered, new |-> new].op \in Operations
    BY DEF Operations
  <2>3. QED
    BY <2>1, <2>2, RunsEnter
<1>11. CASE VerifyPassword(t)
  BY <1>11, RunsDone, RunsGoto DEF VerifyPassword, OnRun, Authenticating
<1>12. QED
  BY <1>1, <1>2, <1>3, <1>4, <1>5, <1>6, <1>7, <1>8, <1>9, <1>10, <1>11 DEF AuthStep

\* The operations but run_backtest.
LEMMA RunsOthers ==
    ASSUME RunsInv, NEW t \in RequestThreads, runs' = runs,
           \/ BeginKill(t) \/ Kill(t) \/ CommitKill(t)
           \/ BeginStatus(t) \/ ReadSwitch(t) \/ AssignSwitch(t)
           \/ BeginUpdate(t) \/ SetStatus(t) \/ Validate(t) \/ UpsertStrategy(t)
           \/ BeginBacktest(t) \/ CheckBacktest(t)
    PROVE  RunsInv'
<1>1. CASE BeginKill(t)
  <2>1. PICK on \in BOOLEAN : Enter(t, [op |-> "kill", on |-> on])
    BY <1>1 DEF BeginKill
  <2>2. [op |-> "kill", on |-> on].op \in Operations
    BY DEF Operations
  <2>3. QED
    BY <2>1, <2>2, RunsEnter
<1>2. CASE Kill(t)
  BY <1>2, RunsGoto DEF Kill, OnRun, Authenticating
<1>3. CASE CommitKill(t) \/ AssignSwitch(t) \/ UpsertStrategy(t)
  BY <1>3, RunsDone DEF CommitKill, AssignSwitch, UpsertStrategy
<1>4. CASE BeginStatus(t) \/ BeginBacktest(t)
  <2>1. [op |-> "status"].op \in Operations /\ [op |-> "backtest"].op \in Operations
    BY DEF Operations
  <2>2. QED
    BY <1>4, <2>1, RunsEnter DEF BeginStatus, BeginBacktest
<1>5. CASE ReadSwitch(t)
  <2>1. Shaped([step |-> "assign", seen |-> SwitchRead])
    BY DEF Shaped, Authenticating
  <2>2. QED
    BY <1>5, <2>1, RunsElsewhere DEF ReadSwitch, OnRun
<1>6. CASE BeginUpdate(t)
  <2>1. PICK p \in Patch : Enter(t, [op |-> "update", patch |-> p])
    BY <1>6 DEF BeginUpdate
  <2>2. [op |-> "update", patch |-> p].op \in Operations
    BY DEF Operations
  <2>3. QED
    BY <2>1, <2>2, RunsEnter
<1>7. CASE SetStatus(t)
  <2>1. Shaped([step |-> "validate", patch |-> job[t].request.patch, was |-> strategy])
    BY DEF Shaped, Authenticating
  <2>2. QED
    BY <1>7, <2>1, RunsElsewhere DEF SetStatus, OnRun
<1>8. CASE Validate(t)
  <2>1. Shaped([step |-> "upsert", patch |-> job[t].patch, was |-> job[t].was,
                row |-> RowOf(strategy, job[t].patch)])
    BY DEF Shaped, Authenticating
  <2>2. QED
    BY <1>8, <2>1, RunsElsewhere, RunsDone DEF Validate, OnRun
<1>9. CASE CheckBacktest(t)
  BY <1>9, RunsDone, RunsGoto DEF CheckBacktest, OnRun, Authenticating
<1>10. QED
  BY <1>1, <1>2, <1>3, <1>4, <1>5, <1>6, <1>7, <1>8, <1>9

\* A thread whose run changes, or that goes on with its run.
LEMMA RunsOn ==
    ASSUME RunsInv, NEW t \in RequestThreads, NEW j, Shaped(j), job' = [job EXCEPT ![t] = j],
           job[t].step \in OnRun, j.step \in OnRun => j.run = job[t].run,
           NEW r \in Run, runs' = [runs EXCEPT ![job[t].run] = r],
           r.status = "completed" => r.trades = r.said,
           j.step \in OnRun => OnItsRun(t)'
    PROVE  RunsInv'
<1>1. JobShapes' /\ job'[t] = j /\ \A u \in RequestThreads : u # t => job'[u] = job[u]
  BY NextShapes DEF RunsInv
<1> DEFINE n == job[t].run
<1>2. /\ n \in DOMAIN runs /\ runs' \in Seq(Run) /\ DOMAIN runs' = DOMAIN runs
      /\ \A m \in DOMAIN runs : runs'[m] = IF m = n THEN r ELSE runs[m]
  BY DEF RunsInv, OnItsRun
<1>3. CompletedHasTrades'
  <2> HIDE DEF n
  <2> QED BY <1>2 DEF RunsInv, CompletedHasTrades
<1>4. ASSUME NEW u \in RequestThreads, u # t, job[u].step \in OnRun PROVE OnItsRun(u)' /\ job[u].run # n
  <2>1. OnItsRun(u) /\ job[u].run # n /\ job'[u] = job[u]
    BY <1>1, <1>4 DEF RunsInv
  <2>2. runs'[job[u].run] = runs[job[u].run] /\ job[u].run \in DOMAIN runs'
    <3> HIDE DEF n
    <3> QED BY <1>2, <2>1 DEF OnItsRun
  <2>3. QED
    BY <2>1, <2>2 DEF OnItsRun
<1>5. \A u \in RequestThreads : job'[u].step \in OnRun => OnItsRun(u)'
  BY <1>1, <1>4
<1>6. \A u, v \in RequestThreads :
        u # v /\ job'[u].step \in OnRun /\ job'[v].step \in OnRun => job'[u].run # job'[v].run
  BY <1>1, <1>4 DEF RunsInv
<1>7. QED
  BY <1>1, <1>2, <1>3, <1>5, <1>6 DEF RunsInv

LEMMA RunKinds ==
    ASSUME RunsInv, NEW t \in RequestThreads, job[t].step \in OnRun
    PROVE  /\ OnItsRun(t) /\ job[t].run \in DOMAIN runs /\ runs[job[t].run] \in Run
           /\ runs[job[t].run].status = "completed" => runs[job[t].run].trades = runs[job[t].run].said
           /\ runs = [runs EXCEPT ![job[t].run] = runs[job[t].run]]
  BY DEF RunsInv, OnItsRun, CompletedHasTrades

\* A run is added for the thread that starts it.
LEMMA RunsStart ==
    ASSUME RunsInv, NEW t \in RequestThreads, StartRun(t)
    PROVE  RunsInv'
<1> DEFINE r == [status |-> "running", said |-> 0, trades |-> 0]
           j == [step |-> "work", run |-> Len(runs) + 1]
<1>1. r \in Run /\ r.status = "running" /\ r.trades = 0
  BY DEF Run
<1>2. runs \in Seq(Run) /\ Len(runs) \in Nat /\ runs' = Append(runs, r)
  BY DEF StartRun, RunsInv
<1>3. /\ runs' \in Seq(Run) /\ Len(runs') = Len(runs) + 1
      /\ DOMAIN runs' = 1..(Len(runs) + 1) /\ DOMAIN runs = 1..Len(runs)
      /\ runs'[Len(runs) + 1] = r /\ \A m \in DOMAIN runs : runs'[m] = runs[m]
  <2> HIDE DEF r
  <2> QED BY <1>1, <1>2
<1>4. job' = [job EXCEPT ![t] = j]
  BY <1>3 DEF StartRun
<1>5. Shaped(j)
  BY DEF Shaped, Authenticating
<1>6. JobShapes' /\ job'[t] = j /\ \A u \in RequestThreads : u # t => job'[u] = job[u]
  <2> HIDE DEF j
  <2> QED BY <1>4, <1>5, NextShapes DEF RunsInv
<1>7. CompletedHasTrades'
  BY <1>1, <1>2, <1>3 DEF RunsInv, CompletedHasTrades
<1>8. OnItsRun(t)'
  BY <1>1, <1>2, <1>3, <1>6 DEF OnItsRun
<1>9. ASSUME NEW u \in RequestThreads, u # t, job[u].step \in OnRun
      PROVE  OnItsRun(u)' /\ job[u].run # j.run
  <2>1. OnItsRun(u) /\ job'[u] = job[u] /\ job[u].run \in 1..Len(runs)
    BY <1>3, <1>6, <1>9 DEF RunsInv, OnItsRun
  <2>2. runs'[job[u].run] = runs[job[u].run] /\ job[u].run \in DOMAIN runs'
    BY <1>2, <1>3, <2>1
  <2>3. QED
    BY <1>2, <2>1, <2>2 DEF OnItsRun
<1>10. QED
  BY <1>3, <1>6, <1>7, <1>8, <1>9, SMTT(20) DEF RunsInv

LEMMA RunsRecording ==
    ASSUME RunsInv, NEW t \in RequestThreads, job[t].step \in {"work", "record"},
           NEW n \in Nat, NEW left \in Nat, Recording(t, n, left),
           NEW r \in Run, runs' = [runs EXCEPT ![job[t].run] = r],
           r.status = "running" /\ r.trades + left = n
    PROVE  RunsInv'
<1> DEFINE j == [step |-> FirstOf(left), run |-> job[t].run, n |-> n, left |-> left]
<1>1. /\ Shaped(j) /\ j.step \in {"record", "finish"} /\ j.run = job[t].run
      /\ j.n = n /\ j.left = left /\ (j.step = "record" <=> left # 0)
  BY DEF Shaped, Authenticating, FirstOf
<1>2. job' = [job EXCEPT ![t] = j]
  BY DEF Recording
<1> HIDE DEF j
<1>3. job'[t] = j
  BY <1>1, <1>2, NextShapes DEF RunsInv
<1>4. job[t].step \in OnRun
  BY DEF OnRun
<1>5. job[t].run \in DOMAIN runs' /\ runs'[job[t].run] = r
  BY <1>4, RunKinds
<1>6. r.trades \in Nat
  BY DEF Run
<1>7. OnItsRun(t)'
  BY <1>1, <1>3, <1>5, <1>6 DEF OnItsRun
<1>8. QED
  BY <1>1, <1>2, <1>4, <1>7, RunsOn

\* A thread that goes on with a step that only needs its run.
LEMMA RunsGoesOn ==
    ASSUME RunsInv, NEW t \in RequestThreads, job[t].step \in OnRun, NEW s \in {"log", "fail"}, Goto(t, s),
           NEW r \in Run, runs' = [runs EXCEPT ![job[t].run] = r],
           r.status = "completed" => r.trades = r.said
    PROVE  RunsInv'
<1>1. PICK j : /\ job' = [job EXCEPT ![t] = j] /\ Shaped(j) /\ j.step = s
               /\ DOMAIN j = DOMAIN job[t] /\ j = [job[t] EXCEPT !.step = s]
  BY GoesOn DEF RunsInv, Authenticating
<1>2. j.run = job[t].run
  BY <1>1 DEF RunsInv, JobShapes, Shaped
<1>3. job[t].run \in DOMAIN runs'
  BY RunKinds
<1>4. job'[t] = j
  BY <1>1, NextShapes DEF RunsInv
<1>5. OnItsRun(t)'
  BY <1>1, <1>2, <1>3, <1>4 DEF OnItsRun
<1>6. QED
  BY <1>1, <1>2, <1>5, RunsOn

LEMMA RunsWork ==
    ASSUME RunsInv, NEW t \in RequestThreads, Work(t)
    PROVE  RunsInv'
<1>1. job[t].step = "work" /\ job[t].step \in OnRun /\ runs' = runs
  BY DEF Work, At, OnRun, vars_api
<1>2. /\ OnItsRun(t) /\ job[t].run \in DOMAIN runs /\ runs[job[t].run] \in Run
      /\ runs' = [runs EXCEPT ![job[t].run] = runs[job[t].run]]
      /\ runs[job[t].run].status = "running" /\ runs[job[t].run].trades = 0
  BY <1>1, RunKinds DEF OnItsRun
<1>3. CASE Goto(t, "fail")
  BY <1>1, <1>2, <1>3, RunsGoesOn
<1>4. ASSUME NEW n \in 0..MaxTrades, Recording(t, n, n) PROVE RunsInv'
  <2>1. n \in Nat /\ runs[job[t].run].trades + n = n
    BY <1>2, ApiAssumption
  <2>2. job[t].step \in {"work", "record"}
    BY <1>1
  <2>3. QED
    BY <1>2, <1>4, <2>1, <2>2, RunsRecording, Zenon
<1>5. QED
  BY <1>3, <1>4 DEF Work

LEMMA RunsRecord ==
    ASSUME RunsInv, NEW t \in RequestThreads, RecordTrade(t)
    PROVE  RunsInv'
<1> DEFINE old == runs[job[t].run]
           r == [old EXCEPT !.trades = @ + 1]
<1>1. job[t].step = "record" /\ job[t].step \in OnRun
  BY DEF RecordTrade, At, OnRun
<1>2. OnItsRun(t) /\ job[t].run \in DOMAIN runs /\ old \in Run
  BY <1>1, RunKinds
<1>3. r \in Run /\ r.status = old.status /\ r.trades = old.trades + 1
  <2> HIDE DEF old
  <2> QED BY <1>2 DEF Run
<1>4. /\ old.status = "running" /\ old.trades \in Nat /\ job[t].n \in Nat /\ job[t].left \in Nat
      /\ job[t].left > 0 /\ old.trades + job[t].left = job[t].n
  BY <1>1, <1>2 DEF OnItsRun, Run
<1>5. runs' = [runs EXCEPT ![job[t].run] = r] /\ Recording(t, job[t].n, job[t].left - 1)
  BY DEF RecordTrade
<1> HIDE DEF r, old
<1>6. job[t].left - 1 \in Nat /\ r.status = "running" /\ r.trades + (job[t].left - 1) = job[t].n
  BY <1>3, <1>4
<1>7. job[t].step \in {"work", "record"}
  BY <1>1
<1> DEFINE n == job[t].n
           left == job[t].left - 1
<1>8. /\ n \in Nat /\ left \in Nat /\ Recording(t, n, left)
      /\ r.status = "running" /\ r.trades + left = n
  BY <1>4, <1>5, <1>6
<1> HIDE DEF n, left
<1>9. r \in Run /\ runs' = [runs EXCEPT ![job[t].run] = r]
  BY <1>3, <1>5
<1>10. QED
  BY <1>7, <1>8, <1>9, RunsRecording, Zenon

LEMMA RunsFinish_ ==
    ASSUME RunsInv, NEW t \in RequestThreads, FinishRun(t)
    PROVE  RunsInv'
<1> DEFINE old == runs[job[t].run]
           r == [old EXCEPT !.status = "completed", !.said = job[t].n]
<1>1. job[t].step = "finish" /\ job[t].step \in OnRun
  BY DEF FinishRun, At, OnRun
<1>2. job[t].run \in DOMAIN runs /\ old \in Run /\ old.trades = job[t].n
  BY <1>1, RunKinds DEF OnItsRun
<1>3. r \in Run /\ r.trades = r.said
  <2> HIDE DEF old
  <2> QED BY <1>2 DEF Run
<1>4. runs' = [runs EXCEPT ![job[t].run] = r] /\ Goto(t, "log")
  BY DEF FinishRun
<1> HIDE DEF r
<1>5. QED
  BY <1>1, <1>3, <1>4, RunsGoesOn

LEMMA RunsFail ==
    ASSUME RunsInv, NEW t \in RequestThreads, FailRun(t)
    PROVE  RunsInv'
<1> DEFINE old == runs[job[t].run]
           r == [old EXCEPT !.status = "failed"]
<1>1. job[t].step = "fail" /\ job[t].step \in OnRun
  BY DEF FailRun, At, OnRun
<1>2. job[t].run \in DOMAIN runs /\ old \in Run
  BY <1>1, RunKinds
<1>3. r \in Run /\ r.status = "failed"
  <2> HIDE DEF old
  <2> QED BY <1>2 DEF Run
<1>4. runs' = [runs EXCEPT ![job[t].run] = r] /\ job' = [job EXCEPT ![t] = Idle]
  BY DEF FailRun, Done
<1> HIDE DEF r
<1>5. Idle.step \notin OnRun
  BY IdleShaped DEF OnRun
<1>6. QED
  BY <1>1, <1>3, <1>4, <1>5, IdleShaped, RunsOn

LEMMA RunsDbFails ==
    ASSUME RunsInv, NEW t \in RequestThreads, DbFails(t)
    PROVE  RunsInv'
<1>1. runs' = runs
  BY DEF DbFails
<1>2. CASE job[t].step \in {"record", "finish", "log"}
  <2>1. job[t].step \in OnRun /\ Goto(t, "fail")
    BY <1>2 DEF DbFails, OnRun
  <2>2. QED
    BY <1>1, <2>1, RunKinds, RunsGoesOn
<1>3. CASE job[t].step \notin {"record", "finish", "log"}
  BY <1>1, <1>3, RunsDone DEF DbFails
<1>4. QED
  BY <1>2, <1>3
-----------------------------------------------------------------------------
LEMMA RunsInit == Init => RunsInv
<1> SUFFICES ASSUME Init PROVE RunsInv
  OBVIOUS
<1>1. job = [t \in RequestThreads |-> Idle] /\ runs = <<>>
  BY DEF Init
<1>2. JobShapes /\ \A t \in RequestThreads : job[t].step \notin OnRun
  BY <1>1, IdleShaped DEF JobShapes, OnRun
<1>3. QED
  BY <1>1, <1>2 DEF RunsInv, CompletedHasTrades

LEMMA RunsStep == RunsInv /\ [Next]_vars => RunsInv'
<1> SUFFICES ASSUME RunsInv, [Next]_vars PROVE RunsInv'
  OBVIOUS
<1>1. ASSUME NEW t \in RequestThreads, Step(t) PROVE RunsInv'
  <2>1. CASE AuthStep(t) /\ UNCHANGED vars_api
    BY <2>1, RunsAuth DEF vars_api
  <2>2. CASE \/ BeginKill(t) \/ Kill(t) \/ CommitKill(t)
             \/ BeginStatus(t) \/ ReadSwitch(t) \/ AssignSwitch(t)
             \/ BeginUpdate(t) \/ SetStatus(t) \/ Validate(t) \/ UpsertStrategy(t)
             \/ BeginBacktest(t) \/ CheckBacktest(t)
    <3>1. runs' = runs
      BY <2>2 DEF BeginKill, Kill, CommitKill, BeginStatus, ReadSwitch, AssignSwitch, BeginUpdate, SetStatus,
                  Validate, UpsertStrategy, BeginBacktest, CheckBacktest, vars_api
    <3>2. QED
      BY <2>2, <3>1, RunsOthers
  <2>3. CASE StartRun(t)
    BY <2>3, RunsStart
  <2>4. CASE Work(t)
    BY <2>4, RunsWork
  <2>5. CASE RecordTrade(t)
    BY <2>5, RunsRecord
  <2>6. CASE FinishRun(t)
    BY <2>6, RunsFinish_
  <2>7. CASE LogCompleted(t)
    BY <2>7, RunsDone DEF LogCompleted, vars_api
  <2>8. CASE FailRun(t)
    BY <2>8, RunsFail
  <2>9. CASE DbFails(t)
    BY <2>9, RunsDbFails
  <2>10. QED
    BY <1>1, <2>1, <2>2, <2>3, <2>4, <2>5, <2>6, <2>7, <2>8, <2>9 DEF Step
<1>2. ASSUME UNCHANGED <<job, runs>> PROVE RunsInv'
  BY <1>2 DEF RunsInv, JobShapes, CompletedHasTrades, OnItsRun
<1>3. CASE Restart
  <2>1. job' = [t \in RequestThreads |-> Idle] /\ runs' = runs
    BY <1>3 DEF Restart
  <2>2. JobShapes' /\ \A t \in RequestThreads : job'[t].step \notin OnRun
    BY <2>1, IdleShaped DEF JobShapes, OnRun
  <2>3. QED
    BY <2>1, <2>2 DEF RunsInv, CompletedHasTrades
<1>4. CASE (TimePasses /\ UNCHANGED vars_api) \/ WorkerKills \/ UNCHANGED vars
  BY <1>2, <1>4 DEF TimePasses, WorkerKills, vars_api, vars
<1>5. QED
  BY <1>1, <1>3, <1>4 DEF Next

\* A run says it is completed only with all of the trades its details count, wherever a
\* transaction fails or the process stops (run_backtest).
THEOREM CompletedRuns == Spec => []CompletedHasTrades
<1>1. RunsInv => CompletedHasTrades
  BY DEF RunsInv
<1>2. QED
  BY <1>1, RunsInit, RunsStep, PTL DEF Spec

-----------------------------------------------------------------------------
(* Sessions.                                                               *)

Row == [revoked : BOOLEAN, expired : BOOLEAN, left : BOOLEAN]
OnSession == {"token", "expire", "logout"}

Late(t) == "late" \in DOMAIN job[t] /\ job[t].late

\* A request that came late has got to the session's row, which says that it is revoked.
SessionOf(t) ==
    /\ job[t].step \in OnSession => job[t].session \in DOMAIN sessions
    /\ Late(t) => /\ job[t].step = "token" /\ job[t].session \in DOMAIN sessions
                  /\ sessions[job[t].session].revoked

SessionsInv ==
    /\ JobShapes
    /\ sessions \in Seq(Row)
    /\ \A s \in DOMAIN sessions : sessions[s].left => sessions[s].revoked
    /\ \A t \in RequestThreads : SessionOf(t)

\* A thread that is at no session's row afterwards.
LEMMA SessionsElsewhere ==
    ASSUME SessionsInv, NEW t \in RequestThreads, NEW j, Shaped(j), j.step \notin OnSession,
           ~("late" \in DOMAIN j /\ j.late),
           job' = [job EXCEPT ![t] = j], sessions' = sessions
    PROVE  SessionsInv'
<1>1. JobShapes' /\ job'[t] = j /\ \A u \in RequestThreads : u # t => job'[u] = job[u]
  BY NextShapes DEF SessionsInv
<1>2. SessionOf(t)'
  BY <1>1 DEF SessionOf, Late
<1>3. ASSUME NEW u \in RequestThreads, u # t PROVE SessionOf(u)'
  <2>1. SessionOf(u) /\ job'[u] = job[u]
    BY <1>1, <1>3 DEF SessionsInv
  <2>2. QED
    BY <2>1 DEF SessionOf, Late
<1>4. QED
  BY <1>1, <1>2, <1>3 DEF SessionsInv

LEMMA SessionsDone ==
    ASSUME SessionsInv, NEW t \in RequestThreads, Done(t), sessions' = sessions
    PROVE  SessionsInv'
<1>1. Idle.step \notin OnSession /\ "late" \notin DOMAIN Idle
  BY IdleShaped DEF OnSession
<1>2. QED
  BY <1>1, SessionsElsewhere, IdleShaped DEF Done

LEMMA SessionsGoto ==
    ASSUME SessionsInv, NEW t \in RequestThreads, NEW s, s \notin OnSession,
           s \notin Authenticating \/ job[t].step \in Authenticating,
           ~Late(t), Goto(t, s), sessions' = sessions
    PROVE  SessionsInv'
<1>1. PICK j : /\ job' = [job EXCEPT ![t] = j] /\ Shaped(j) /\ j.step = s /\ DOMAIN j = DOMAIN job[t]
               /\ \A x \in DOMAIN j : x # "step" => j[x] = job[t][x]
  BY GoesOn DEF SessionsInv
<1>2. ~("late" \in DOMAIN j /\ j.late)
  <2>1. "late" \in DOMAIN j => j["late"] = job[t]["late"]
    BY <1>1
  <2>2. QED
    BY <1>1, <2>1 DEF Late
<1>3. QED
  BY <1>1, <1>2, SessionsElsewhere

LEMMA SessionsEnter ==
    ASSUME SessionsInv, NEW t \in RequestThreads, NEW request, request.op \in Operations, Enter(t, request),
           sessions' = sessions
    PROVE  SessionsInv'
<1>1. PICK s \in DOMAIN sessions :
        job' = [job EXCEPT ![t] = [step |-> "token", session |-> s, late |-> sessions[s].left,
                                      request |-> request]]
  BY DEF Enter
<1> DEFINE j == [step |-> "token", session |-> s, late |-> sessions[s].left, request |-> request]
<1>2. Shaped(j) /\ j.step = "token" /\ j.session = s /\ j.late = sessions[s].left
  BY DEF Shaped
<1> HIDE DEF j
<1>3. job' = [job EXCEPT ![t] = j]
  BY <1>1 DEF j
<1>4. JobShapes' /\ job'[t] = j /\ \A u \in RequestThreads : u # t => job'[u] = job[u]
  BY <1>2, <1>3, NextShapes DEF SessionsInv
<1>5. sessions[s].left => sessions[s].revoked
  BY DEF SessionsInv
<1>6. SessionOf(t)'
  BY <1>2, <1>4, <1>5 DEF SessionOf, Late
<1>7. ASSUME NEW u \in RequestThreads, u # t PROVE SessionOf(u)'
  <2>1. SessionOf(u) /\ job'[u] = job[u]
    BY <1>4, <1>7 DEF SessionsInv
  <2>2. QED
    BY <2>1 DEF SessionOf, Late
<1>8. QED
  BY <1>4, <1>6, <1>7 DEF SessionsInv

\* Rows that change, none of them back to one that is not revoked, and a thread that is done.
LEMMA SessionsRows ==
    ASSUME SessionsInv, NEW t \in RequestThreads, Done(t), sessions' \in Seq(Row),
           DOMAIN sessions \subseteq DOMAIN sessions',
           \A s \in DOMAIN sessions : sessions[s].revoked => sessions'[s].revoked,
           \A s \in DOMAIN sessions' : sessions'[s].left => sessions'[s].revoked
    PROVE  SessionsInv'
<1>1. JobShapes' /\ job'[t] = Idle /\ \A u \in RequestThreads : u # t => job'[u] = job[u]
  BY NextShapes, IdleShaped DEF SessionsInv, Done
<1>2. ASSUME NEW u \in RequestThreads PROVE SessionOf(u)'
  <2>1. CASE u = t
    BY <1>1, <2>1, IdleShaped DEF SessionOf, Late, OnSession
  <2>2. CASE u # t
    <3>1. SessionOf(u) /\ job'[u] = job[u]
      BY <1>1, <2>2 DEF SessionsInv
    <3>2. QED
      BY <3>1 DEF SessionOf, Late
  <2>3. QED
    BY <2>1, <2>2
<1>3. QED
  BY <1>1, <1>2 DEF SessionsInv

\* Only a thread that has still to read its session's row may be late.
LEMMA NotLate ==
    ASSUME SessionsInv, NEW t \in RequestThreads, job[t].step # "token"
    PROVE  ~Late(t)
  BY DEF SessionsInv, SessionOf

LEMMA SessionsRevoked ==
    ASSUME SessionsInv, NEW t \in RequestThreads, job[t].step \in OnSession
    PROVE  /\ job[t].session \in DOMAIN sessions
           /\ \A r \in {[sessions[job[t].session] EXCEPT !.revoked = TRUE],
                        [sessions[job[t].session] EXCEPT !.revoked = TRUE, !.left = TRUE]} :
                 r \in Row /\ r.revoked
<1> DEFINE old == sessions[job[t].session]
<1>1. job[t].session \in DOMAIN sessions /\ old \in Row
  BY DEF SessionsInv, SessionOf
<1> HIDE DEF old
<1>2. [old EXCEPT !.revoked = TRUE] \in Row /\ [old EXCEPT !.revoked = TRUE].revoked
  BY <1>1 DEF Row
<1>3. /\ [old EXCEPT !.revoked = TRUE, !.left = TRUE] \in Row
      /\ [old EXCEPT !.revoked = TRUE, !.left = TRUE].revoked
  BY <1>1 DEF Row
<1>4. QED
  BY <1>1, <1>2, <1>3 DEF old

LEMMA Replaced ==
    ASSUME NEW S, NEW q \in Seq(S), NEW n \in DOMAIN q, NEW r \in S
    PROVE  /\ [q EXCEPT ![n] = r] \in Seq(S) /\ DOMAIN [q EXCEPT ![n] = r] = DOMAIN q
           /\ \A m \in DOMAIN q : [q EXCEPT ![n] = r][m] = IF m = n THEN r ELSE q[m]
<1>1. q \in [1..Len(q) -> S] /\ Len(q) \in Nat /\ n \in 1..Len(q)
  OBVIOUS
<1>2. [q EXCEPT ![n] = r] \in [1..Len(q) -> S]
  BY <1>1
<1>3. QED
  BY <1>1, <1>2

LEMMA SessionsRevoke ==
    ASSUME SessionsInv, NEW t \in RequestThreads, job[t].step \in OnSession, Done(t),
           NEW r \in Row, r.revoked, sessions' = [sessions EXCEPT ![job[t].session] = r]
    PROVE  SessionsInv'
<1> DEFINE n == job[t].session
<1>1. n \in DOMAIN sessions /\ sessions \in Seq(Row)
  BY DEF SessionsInv, SessionOf
<1> HIDE DEF n
<1>2. sessions' = [sessions EXCEPT ![n] = r]
  BY DEF n
<1>3. /\ sessions' \in Seq(Row) /\ DOMAIN sessions' = DOMAIN sessions
      /\ \A s \in DOMAIN sessions : sessions'[s] = IF s = n THEN r ELSE sessions[s]
  <2> DEFINE q == [sessions EXCEPT ![n] = r]
  <2>1. /\ q \in Seq(Row) /\ DOMAIN q = DOMAIN sessions
        /\ \A s \in DOMAIN sessions : q[s] = IF s = n THEN r ELSE sessions[s]
    BY <1>1, Replaced, Zenon
  <2>2. sessions' = q
    BY <1>2
  <2> HIDE DEF q
  <2>3. QED
    BY <2>1, <2>2
<1>4. \A s \in DOMAIN sessions : sessions[s].revoked => sessions'[s].revoked
  BY <1>3
<1>5. \A s \in DOMAIN sessions' : sessions'[s].left => sessions'[s].revoked
  BY <1>3 DEF SessionsInv
<1>6. QED
  BY <1>3, <1>4, <1>5, SessionsRows

LEMMA SessionsAuth ==
    ASSUME SessionsInv, NEW t \in RequestThreads, AuthStep(t)
    PROVE  SessionsInv'
<1>1. CASE BeginLogin(t)
  <2>1. PICK entered \in Passwords : job' = [job EXCEPT ![t] = [step |-> "blocked", entered |-> entered]]
    BY <1>1 DEF BeginLogin
  <2>2. Shaped([step |-> "blocked", entered |-> entered]) /\ sessions' = sessions
    BY <1>1 DEF Shaped, Authenticating, BeginLogin
  <2>3. QED
    BY <2>1, <2>2, SessionsElsewhere DEF OnSession
<1>2. CASE CheckBlocked(t) \/ Verify(t) \/ ClearAttempts(t) \/ VerifyPassword(t)
  <2>1. ~Late(t) /\ sessions' = sessions
    BY <1>2, NotLate DEF CheckBlocked, Verify, ClearAttempts, VerifyPassword, At, vars_auth
  <2>2. \/ Done(t)
        \/ \E s \in {"verify", "clear", "failed", "create", "newpassword"} : Goto(t, s)
    BY <1>2 DEF CheckBlocked, Verify, ClearAttempts, VerifyPassword
  <2>3. QED
    BY <2>1, <2>2, SessionsDone, SessionsGoto DEF OnSession, Authenticating
<1>3. CASE ReadAttempts(t)
  <2>1. Shaped([step |-> "count", count |-> NextCount]) /\ sessions' = sessions
    BY <1>3 DEF Shaped, Authenticating, ReadAttempts
  <2>2. QED
    BY <1>3, <2>1, SessionsElsewhere DEF ReadAttempts, OnSession
<1>4. CASE WriteAttempts(t) \/ WritePassword(t)
  BY <1>4, SessionsDone DEF WriteAttempts, WritePassword
<1>5. CASE CreateSession(t)
  <2> DEFINE r == [revoked |-> FALSE, expired |-> FALSE, left |-> FALSE]
  <2>1. r \in Row /\ ~r.left
    BY DEF Row
  <2>2. Done(t) /\ sessions' = Append(sessions, r) /\ sessions \in Seq(Row)
    BY <1>5 DEF CreateSession, SessionsInv
  <2> HIDE DEF r
  <2>3. /\ sessions' \in Seq(Row) /\ DOMAIN sessions = 1..Len(sessions)
        /\ DOMAIN sessions' = 1..(Len(sessions) + 1) /\ Len(sessions) \in Nat
        /\ \A s \in DOMAIN sessions : sessions'[s] = sessions[s]
        /\ sessions'[Len(sessions) + 1] = r
    BY <2>1, <2>2
  <2>4. \A s \in DOMAIN sessions' : s \in DOMAIN sessions \/ s = Len(sessions) + 1
    BY <2>3
  <2>5. DOMAIN sessions \subseteq DOMAIN sessions'
    BY <2>3
  <2>6. \A s \in DOMAIN sessions : sessions[s].revoked => sessions'[s].revoked
    BY <2>3
  <2>7. \A s \in DOMAIN sessions' : sessions'[s].left => sessions'[s].revoked
    BY <2>1, <2>3, <2>4 DEF SessionsInv
  <2>8. QED
    BY <2>2, <2>3, <2>5, <2>6, <2>7, SessionsRows
<1>6. CASE ReadToken(t)
  <2>1. job[t].step = "token" /\ sessions' = sessions /\ job[t].session \in DOMAIN sessions
    BY <1>6 DEF ReadToken, At, vars_auth, SessionsInv, SessionOf, OnSession
  <2>2. CASE sessions[job[t].session].revoked
    BY <1>6, <2>1, <2>2, SessionsDone DEF ReadToken
  <2>3. CASE ~sessions[job[t].session].revoked
    <3>1. ~Late(t)
      BY <2>3 DEF SessionsInv, SessionOf
    <3>2. Goto(t, "expire") \/ Goto(t, "touch")
      BY <1>6, <2>3 DEF ReadToken
    <3>3. CASE Goto(t, "touch")
      BY <2>1, <3>1, <3>3, SessionsGoto DEF OnSession, Authenticating
    <3>4. CASE Goto(t, "expire")
      <4>1. PICK j : /\ job' = [job EXCEPT ![t] = j] /\ Shaped(j) /\ j.step = "expire"
                     /\ DOMAIN j = DOMAIN job[t] /\ j = [job[t] EXCEPT !.step = "expire"]
                     /\ \A x \in DOMAIN j : x # "step" => j[x] = job[t][x]
        BY <2>1, <3>4, GoesOn DEF SessionsInv, Authenticating
      <4>2. JobShapes' /\ job'[t] = j /\ \A u \in RequestThreads : u # t => job'[u] = job[u]
        BY <4>1, NextShapes DEF SessionsInv
      <4>3. j.session = job[t].session
        BY <4>1, SMTT(20) DEF SessionsInv, JobShapes, Shaped
      <4>4. ~("late" \in DOMAIN j /\ j.late)
        <5>1. "late" \in DOMAIN j => j["late"] = job[t]["late"]
          BY <4>1
        <5>2. QED
          BY <3>1, <4>1, <5>1 DEF Late
      <4>5. SessionOf(t)'
        BY <2>1, <4>2, <4>3, <4>4 DEF SessionOf, Late
      <4>6. ASSUME NEW u \in RequestThreads, u # t PROVE SessionOf(u)'
        <5>1. SessionOf(u) /\ job'[u] = job[u]
          BY <4>2, <4>6 DEF SessionsInv
        <5>2. QED
          BY <2>1, <5>1 DEF SessionOf, Late
      <4>7. QED
        BY <2>1, <4>2, <4>5, <4>6 DEF SessionsInv
    <3>5. QED
      BY <3>2, <3>3, <3>4
  <2>4. QED
    BY <2>2, <2>3
<1>7. CASE RevokeExpired(t) \/ Logout(t)
  <2>1. Done(t) /\ job[t].step \in OnSession
    BY <1>7 DEF RevokeExpired, Logout, At, OnSession
  <2>2. \E r \in Row : r.revoked /\ sessions' = [sessions EXCEPT ![job[t].session] = r]
    BY <1>7, <2>1, SessionsRevoked DEF RevokeExpired, Logout, Revoke
  <2>3. QED
    BY <2>1, <2>2, SessionsRevoke
<1>8. CASE Touch(t)
  <2>1. job[t].request.op \in Operations /\ job[t].step = "touch" /\ sessions' = sessions
    BY <1>8 DEF Touch, At, SessionsInv, JobShapes, Shaped, Authenticating, vars_auth
  <2>2. job[t].request.op \notin OnSession /\ job[t].request.op \notin Authenticating /\ ~Late(t)
    BY <2>1, NotLate DEF Operations, OnSession, Authenticating
  <2>3. QED
    BY <1>8, <2>1, <2>2, SessionsGoto DEF Touch
<1>9. CASE BeginLogout(t)
  <2>1. PICK s \in DOMAIN sessions : job' = [job EXCEPT ![t] = [step |-> "logout", session |-> s]]
    BY <1>9 DEF BeginLogout
  <2> DEFINE j == [step |-> "logout", session |-> s]
  <2>2. Shaped(j) /\ j.step = "logout" /\ j.session = s /\ "late" \notin DOMAIN j
    BY DEF Shaped, Authenticating
  <2> HIDE DEF j
  <2>3. job' = [job EXCEPT ![t] = j] /\ sessions' = sessions
    BY <1>9, <2>1 DEF j, BeginLogout, vars_auth
  <2>4. JobShapes' /\ job'[t] = j /\ \A u \in RequestThreads : u # t => job'[u] = job[u]
    BY <2>2, <2>3, NextShapes DEF SessionsInv
  <2>5. \A u \in RequestThreads : SessionOf(u)'
    BY <2>2, <2>3, <2>4 DEF SessionsInv, SessionOf, Late
  <2>6. QED
    BY <2>3, <2>4, <2>5 DEF SessionsInv
<1>10. CASE BeginPassword(t)
  <2>1. PICK entered, new \in Passwords : Enter(t, [op |-> "password", entered |-> entered, new |-> new])
    BY <1>10 DEF BeginPassword
  <2>2. [op |-> "password", entered |-> entered, new |-> new].op \in Operations /\ sessions' = sessions
    BY <1>10 DEF Operations, BeginPassword, vars_auth
  <2>3. QED
    BY <2>1, <2>2, SessionsEnter
<1>11. QED
  BY <1>1, <1>2, <1>3, <1>4, <1>5, <1>6, <1>7, <1>8, <1>9, <1>10 DEF AuthStep

\* The operations, which touch no session.
LEMMA SessionsApi ==
    ASSUME SessionsInv, NEW t \in RequestThreads, sessions' = sessions,
           \/ BeginKill(t) \/ Kill(t) \/ CommitKill(t)
           \/ BeginStatus(t) \/ ReadSwitch(t) \/ AssignSwitch(t)
           \/ BeginUpdate(t) \/ SetStatus(t) \/ Validate(t) \/ UpsertStrategy(t)
           \/ BeginBacktest(t) \/ CheckBacktest(t) \/ StartRun(t) \/ Work(t)
           \/ RecordTrade(t) \/ FinishRun(t) \/ LogCompleted(t) \/ FailRun(t)
           \/ DbFails(t)
    PROVE  SessionsInv'
<1>1. CASE BeginKill(t) \/ BeginStatus(t) \/ BeginUpdate(t) \/ BeginBacktest(t)
  <2>1. \/ \E on \in BOOLEAN : Enter(t, [op |-> "kill", on |-> on])
        \/ Enter(t, [op |-> "status"]) \/ Enter(t, [op |-> "backtest"])
        \/ \E p \in Patch : Enter(t, [op |-> "update", patch |-> p])
    BY <1>1 DEF BeginKill, BeginStatus, BeginUpdate, BeginBacktest
  <2>2. /\ \A on \in BOOLEAN : [op |-> "kill", on |-> on].op \in Operations
        /\ [op |-> "status"].op \in Operations /\ [op |-> "backtest"].op \in Operations
        /\ \A p \in Patch : [op |-> "update", patch |-> p].op \in Operations
    BY DEF Operations
  <2>3. QED
    BY <2>1, <2>2, SessionsEnter
<1>2. CASE CommitKill(t) \/ AssignSwitch(t) \/ UpsertStrategy(t) \/ LogCompleted(t) \/ FailRun(t)
  BY <1>2, SessionsDone DEF CommitKill, AssignSwitch, UpsertStrategy, LogCompleted, FailRun
<1>3. CASE Kill(t) \/ CheckBacktest(t) \/ FinishRun(t) \/ DbFails(t) \/ (Work(t) /\ Goto(t, "fail"))
  <2>1. CASE Done(t)
    BY <2>1, SessionsDone
  <2>2. CASE ~Done(t)
    <3>1. \E s \in {"killcommit", "start", "log", "fail"} : Goto(t, s)
      BY <1>3, <2>2 DEF Kill, CheckBacktest, FinishRun, DbFails
    <3>2. job[t].step # "token"
      BY <1>3, <2>2 DEF Kill, CheckBacktest, FinishRun, DbFails, Work, At
    <3>3. QED
      BY <3>1, <3>2, NotLate, SessionsGoto DEF OnSession, Authenticating
  <2>3. QED
    BY <2>1, <2>2
<1>4. CASE ReadSwitch(t)
  <2>1. Shaped([step |-> "assign", seen |-> SwitchRead])
    BY DEF Shaped, Authenticating
  <2>2. QED
    BY <1>4, <2>1, SessionsElsewhere DEF ReadSwitch, OnSession
<1>5. CASE SetStatus(t)
  <2>1. Shaped([step |-> "validate", patch |-> job[t].request.patch, was |-> strategy])
    BY DEF Shaped, Authenticating
  <2>2. QED
    BY <1>5, <2>1, SessionsElsewhere DEF SetStatus, OnSession
<1>6. CASE Validate(t)
  <2>1. Shaped([step |-> "upsert", patch |-> job[t].patch, was |-> job[t].was,
                row |-> RowOf(strategy, job[t].patch)])
    BY DEF Shaped, Authenticating
  <2>2. QED
    BY <1>6, <2>1, SessionsElsewhere, SessionsDone DEF Validate, OnSession
<1>7. CASE StartRun(t)
  <2>1. Shaped([step |-> "work", run |-> Len(runs')])
    BY DEF Shaped, Authenticating
  <2>2. QED
    BY <1>7, <2>1, SessionsElsewhere DEF StartRun, OnSession
<1>8. ASSUME NEW n, NEW left, Recording(t, n, left) PROVE SessionsInv'
  <2>1. Shaped([step |-> FirstOf(left), run |-> job[t].run, n |-> n, left |-> left])
    BY DEF Shaped, Authenticating, FirstOf
  <2>2. FirstOf(left) \notin OnSession
    BY DEF FirstOf, OnSession
  <2>3. QED
    BY <1>8, <2>1, <2>2, SessionsElsewhere DEF Recording
<1>9. CASE Work(t) \/ RecordTrade(t)
  BY <1>3, <1>8, <1>9 DEF Work, RecordTrade
<1>10. QED
  BY <1>1, <1>2, <1>3, <1>4, <1>5, <1>6, <1>7, <1>9

LEMMA SessionsInit == Init => SessionsInv
<1> SUFFICES ASSUME Init PROVE SessionsInv
  OBVIOUS
<1>1. job = [t \in RequestThreads |-> Idle]
  BY DEF Init
<1>2. JobShapes /\ \A t \in RequestThreads : SessionOf(t)
  BY <1>1, IdleShaped DEF JobShapes, SessionOf, Late, OnSession
<1> DEFINE r == [revoked |-> FALSE, expired |-> FALSE, left |-> FALSE]
<1>3. r \in Row /\ ~r.left /\ sessions = <<r>>
  BY DEF Row, Init
<1> HIDE DEF r
<1>4. sessions \in Seq(Row) /\ DOMAIN sessions = {1} /\ sessions[1] = r
  BY <1>3
<1>5. QED
  BY <1>2, <1>3, <1>4 DEF SessionsInv

\* A session that runs out, and everything that leaves what a thread is at.
LEMMA SessionsTime ==
    ASSUME SessionsInv, TimePasses
    PROVE  SessionsInv'
<1>1. job' = job
  BY DEF TimePasses
<1>2. CASE sessions' = sessions
  BY <1>1, <1>2 DEF SessionsInv, JobShapes, SessionOf, Late
<1>3. ASSUME NEW n \in DOMAIN sessions, sessions' = [sessions EXCEPT ![n].expired = TRUE]
      PROVE  SessionsInv'
  <2> DEFINE old == sessions[n]
             r == [old EXCEPT !.expired = TRUE]
             q == [sessions EXCEPT ![n] = r]
  <2>1. old \in Row /\ sessions \in Seq(Row)
    BY DEF SessionsInv
  <2>2. r \in Row /\ r.revoked = old.revoked /\ r.left = old.left
    <3> HIDE DEF old
    <3> QED BY <2>1 DEF Row
  <2>3. sessions' = q
    BY <1>3
  <2> HIDE DEF r
  <2>4. /\ q \in Seq(Row) /\ DOMAIN q = DOMAIN sessions
        /\ \A s \in DOMAIN sessions : q[s] = IF s = n THEN r ELSE sessions[s]
    BY <2>1, <2>2, Replaced, Zenon
  <2> HIDE DEF q
  <2>5. /\ sessions' \in Seq(Row) /\ DOMAIN sessions' = DOMAIN sessions
        /\ \A s \in DOMAIN sessions : /\ sessions'[s].revoked = sessions[s].revoked
                                      /\ sessions'[s].left = sessions[s].left
    BY <2>2, <2>3, <2>4
  <2>6. \A t \in RequestThreads : SessionOf(t)'
    BY <1>1, <2>5 DEF SessionsInv, SessionOf, Late
  <2>7. QED
    BY <1>1, <2>5, <2>6 DEF SessionsInv, JobShapes
<1>4. QED
  BY <1>2, <1>3 DEF TimePasses

LEMMA SessionsStep == SessionsInv /\ [Next]_vars => SessionsInv'
<1> SUFFICES ASSUME SessionsInv, [Next]_vars PROVE SessionsInv'
  OBVIOUS
<1>1. ASSUME NEW t \in RequestThreads, Step(t) PROVE SessionsInv'
  <2>1. CASE AuthStep(t)
    BY <2>1, SessionsAuth
  <2>2. CASE ~AuthStep(t)
    <3>1. sessions' = sessions
      BY <1>1, <2>2 DEF Step, BeginKill, Kill, CommitKill, BeginStatus, ReadSwitch, AssignSwitch, BeginUpdate,
         SetStatus, Validate, UpsertStrategy, BeginBacktest, CheckBacktest, StartRun, Work, RecordTrade,
         FinishRun, LogCompleted, FailRun, DbFails, vars_auth
    <3>2. QED
      BY <1>1, <2>2, <3>1, SessionsApi DEF Step
  <2>3. QED
    BY <2>1, <2>2
<1>2. CASE TimePasses
  BY <1>2, SessionsTime
<1>3. CASE Restart
  <2>1. job' = [t \in RequestThreads |-> Idle] /\ sessions' = sessions
    BY <1>3 DEF Restart
  <2>2. JobShapes' /\ \A t \in RequestThreads : SessionOf(t)'
    BY <2>1, IdleShaped DEF JobShapes, SessionOf, Late, OnSession
  <2>3. QED
    BY <2>1, <2>2 DEF SessionsInv
<1>4. CASE WorkerKills \/ UNCHANGED vars
  BY <1>4 DEF WorkerKills, vars_auth, vars, SessionsInv, JobShapes, SessionOf, Late
<1>5. QED
  BY <1>1, <1>2, <1>3, <1>4 DEF Next

\* A request that begins when the logout of its session has been answered gets no further than the
\* session's row, whatever the requests do that were under way (revoke_auth_session).
THEOREM LoggedOut == Spec => []NoUseAfterLogout
<1>1. SessionsInv => NoUseAfterLogout
  BY DEF SessionsInv, SessionOf, Late, NoUseAfterLogout, At
<1>2. QED
  BY <1>1, SessionsInit, SessionsStep, PTL DEF Spec

-----------------------------------------------------------------------------
(* How a step of a thread leaves it.                                       *)

LoginSteps == {"blocked", "verify", "failed", "count", "clear", "create"}
UpdateSteps == {"validate", "upsert"}

\* Only the steps of login and of update_strategy lead to steps of theirs.
LEMMA Moves ==
    ASSUME JobShapes, NEW t \in RequestThreads, Step(t)
    PROVE  \E j : /\ Shaped(j) /\ job' = [job EXCEPT ![t] = j]
                  /\ j.step \in LoginSteps => \/ BeginLogin(t) \/ CheckBlocked(t) \/ Verify(t)
                                              \/ ReadAttempts(t) \/ ClearAttempts(t)
                  /\ j.step \in UpdateSteps => SetStatus(t) \/ Validate(t)
<1> DEFINE Login == BeginLogin(t) \/ CheckBlocked(t) \/ Verify(t) \/ ReadAttempts(t) \/ ClearAttempts(t)
           Update == SetStatus(t) \/ Validate(t)
           Fits(j) == (j.step \in LoginSteps => Login) /\ (j.step \in UpdateSteps => Update)
           Goal == \E j : Shaped(j) /\ job' = [job EXCEPT ![t] = j] /\ Fits(j)
<1> SUFFICES Goal
  OBVIOUS
<1> HIDE DEF Login, Update
<1>1. Done(t) => Goal
  BY IdleShaped DEF Done, LoginSteps, UpdateSteps
<1>2. ASSUME NEW s, Goto(t, s), s \notin Authenticating \/ job[t].step \in Authenticating,
             s \in LoginSteps => Login, s \notin UpdateSteps
      PROVE  Goal
  BY <1>2, GoesOn
<1>3. ASSUME NEW r, r.op \in Operations, Enter(t, r)
      PROVE  Goal
  <2>1. PICK s : job' = [job EXCEPT ![t] = [step |-> "token", session |-> s, late |-> sessions[s].left,
                                               request |-> r]]
    BY <1>3 DEF Enter
  <2>2. Shaped([step |-> "token", session |-> s, late |-> sessions[s].left, request |-> r])
    BY <1>3 DEF Shaped
  <2> DEFINE j == [step |-> "token", session |-> s, late |-> sessions[s].left, request |-> r]
  <2>3. j.step = "token" /\ Shaped(j) /\ job' = [job EXCEPT ![t] = j]
    BY <2>1, <2>2
  <2> HIDE DEF j
  <2>4. QED
    BY <2>3 DEF LoginSteps, UpdateSteps
<1>4. ASSUME NEW j, Shaped(j), job' = [job EXCEPT ![t] = j], Fits(j)
      PROVE  Goal
  BY <1>4
<1>5. CASE BeginLogin(t)
  <2>1. PICK entered \in Passwords : job' = [job EXCEPT ![t] = [step |-> "blocked", entered |-> entered]]
    BY <1>5 DEF BeginLogin
  <2>2. Shaped([step |-> "blocked", entered |-> entered])
    BY DEF Shaped, Authenticating
  <2>3. QED
    BY <1>4, <1>5, <2>1, <2>2 DEF UpdateSteps, Login
<1>6. CASE CheckBlocked(t) \/ Verify(t) \/ ClearAttempts(t)
  <2>1. Login
    BY <1>6 DEF Login
  <2>2. Done(t) \/ Goto(t, "verify") \/ Goto(t, "clear") \/ Goto(t, "failed") \/ Goto(t, "create")
    BY <1>6 DEF CheckBlocked, Verify, ClearAttempts
  <2>3. QED
    BY <1>1, <1>2, <2>1, <2>2 DEF UpdateSteps, Authenticating
<1>7. CASE ReadAttempts(t)
  <2>1. Shaped([step |-> "count", count |-> NextCount])
    BY DEF Shaped, Authenticating
  <2>2. QED
    BY <1>4, <1>7, <2>1 DEF ReadAttempts, UpdateSteps, Login
<1>8. CASE \/ WriteAttempts(t) \/ CreateSession(t) \/ RevokeExpired(t) \/ Logout(t) \/ WritePassword(t)
           \/ CommitKill(t) \/ AssignSwitch(t) \/ UpsertStrategy(t) \/ LogCompleted(t) \/ FailRun(t)
  BY <1>1, <1>8 DEF WriteAttempts, CreateSession, RevokeExpired, Logout, WritePassword, CommitKill,
     AssignSwitch, UpsertStrategy, LogCompleted, FailRun
<1>9. CASE ReadToken(t) \/ VerifyPassword(t) \/ Kill(t) \/ CheckBacktest(t) \/ FinishRun(t) \/ DbFails(t)
  <2>1. \/ Done(t)
        \/ \E s \in {"newpassword", "killcommit", "start", "log", "fail"} : Goto(t, s)
        \/ job[t].step = "token" /\ (Goto(t, "expire") \/ Goto(t, "touch"))
    BY <1>9 DEF ReadToken, At, VerifyPassword, Kill, CheckBacktest, FinishRun, DbFails
  <2>2. QED
    BY <1>1, <1>2, <2>1 DEF LoginSteps, UpdateSteps, Authenticating
<1>10. CASE Touch(t)
  <2>1. job[t].request.op \in Operations
    BY <1>10 DEF Touch, At, JobShapes, Shaped, Authenticating
  <2>2. QED
    BY <1>2, <1>10, <2>1 DEF Touch, Operations, Authenticating, LoginSteps, UpdateSteps
<1>11. CASE BeginLogout(t)
  <2>1. PICK s \in DOMAIN sessions : job' = [job EXCEPT ![t] = [step |-> "logout", session |-> s]]
    BY <1>11 DEF BeginLogout
  <2>2. Shaped([step |-> "logout", session |-> s])
    BY DEF Shaped, Authenticating
  <2>3. QED
    BY <1>4, <2>1, <2>2 DEF LoginSteps, UpdateSteps
<1>12. CASE BeginPassword(t)
  <2>1. PICK entered, new \in Passwords : Enter(t, [op |-> "password", entered |-> entered, new |-> new])
    BY <1>12 DEF BeginPassword
  <2>2. [op |-> "password", entered |-> entered, new |-> new].op \in Operations
    BY DEF Operations
  <2>3. QED
    BY <1>3, <2>1, <2>2
<1>13. CASE BeginKill(t)
  <2>1. PICK on \in BOOLEAN : Enter(t, [op |-> "kill", on |-> on])
    BY <1>13 DEF BeginKill
  <2>2. [op |-> "kill", on |-> on].op \in Operations
    BY DEF Operations
  <2>3. QED
    BY <1>3, <2>1, <2>2
<1>14. CASE BeginStatus(t) \/ BeginBacktest(t)
  <2>1. [op |-> "status"].op \in Operations /\ [op |-> "backtest"].op \in Operations
    BY DEF Operations
  <2>2. QED
    BY <1>3, <1>14, <2>1 DEF BeginStatus, BeginBacktest
<1>15. CASE BeginUpdate(t)
  <2>1. PICK p \in Patch : Enter(t, [op |-> "update", patch |-> p])
    BY <1>15 DEF BeginUpdate
  <2>2. [op |-> "update", patch |-> p].op \in Operations
    BY DEF Operations
  <2>3. QED
    BY <1>3, <2>1, <2>2
<1>16. CASE ReadSwitch(t)
  <2>1. Shaped([step |-> "assign", seen |-> SwitchRead])
    BY DEF Shaped, Authenticating
  <2>2. QED
    BY <1>4, <1>16, <2>1 DEF ReadSwitch, LoginSteps, UpdateSteps
<1>17. CASE SetStatus(t)
  <2>1. Shaped([step |-> "validate", patch |-> job[t].request.patch, was |-> strategy])
    BY DEF Shaped, Authenticating
  <2>2. QED
    BY <1>4, <1>17, <2>1 DEF SetStatus, LoginSteps, Update
<1>18. CASE Validate(t)
  <2>1. Shaped([step |-> "upsert", patch |-> job[t].patch, was |-> job[t].was,
                row |-> RowOf(strategy, job[t].patch)])
    BY DEF Shaped, Authenticating
  <2>2. QED
    BY <1>1, <1>4, <1>18, <2>1 DEF Validate, LoginSteps, Update
<1>19. CASE StartRun(t)
  <2>1. Shaped([step |-> "work", run |-> Len(runs')])
    BY DEF Shaped, Authenticating
  <2>2. QED
    BY <1>4, <1>19, <2>1 DEF StartRun, LoginSteps, UpdateSteps
<1>20. ASSUME NEW n, NEW left, Recording(t, n, left)
       PROVE  Goal
  <2> DEFINE j == [step |-> FirstOf(left), run |-> job[t].run, n |-> n, left |-> left]
  <2>1. Shaped(j) /\ j.step \in {"record", "finish"}
    BY DEF Shaped, Authenticating, FirstOf
  <2>2. job' = [job EXCEPT ![t] = j]
    BY <1>20 DEF Recording
  <2> HIDE DEF j
  <2>3. QED
    BY <1>4, <2>1, <2>2 DEF LoginSteps, UpdateSteps
<1>21. CASE Work(t) \/ RecordTrade(t)
  <2>1. Goto(t, "fail") => Goal
    BY <1>2 DEF LoginSteps, UpdateSteps, Authenticating
  <2>2. QED
    BY <1>20, <1>21, <2>1 DEF Work, RecordTrade
<1> HIDE DEF Goal
<1>22. CASE AuthStep(t)
  BY <1>5, <1>6, <1>7, <1>8, <1>9, <1>10, <1>11, <1>12, <1>22 DEF AuthStep
<1>23. QED
  BY <1>8, <1>9, <1>13, <1>14, <1>15, <1>16, <1>17, <1>18, <1>19, <1>21, <1>22 DEF Step

-----------------------------------------------------------------------------
(* Blocks.                                                                 *)

Attempts == [count : Nat, open : BOOLEAN, blocked : BOOLEAN]

\* While no two logins have overlapped: one thread logs in at most, it found no block, and the
\* counter, in the row or on its way there, is no more than the wrong passwords of the window.
LoginsInv ==
    /\ JobShapes
    /\ attempts \in Attempts /\ failures \in Nat
    /\ \A t \in RequestThreads : job[t].step = "count" => job[t].count \in Nat
    /\ ~overlapped =>
         /\ \A t, u \in RequestThreads : job[t].step \in LoginSteps /\ job[u].step \in LoginSteps => t = u
         /\ \A t \in RequestThreads :
              /\ job[t].step \in LoginSteps \ {"blocked"} => ~attempts.blocked
              /\ job[t].step = "count" => job[t].count <= failures
         /\ attempts.open => attempts.count <= failures
         /\ attempts.blocked => failures >= MaxAttempts

\* A step that leaves the counter alone, and no login behind but the one there was.
LEMMA LoginsElsewhere ==
    ASSUME LoginsInv, NEW t \in RequestThreads, NEW j, Shaped(j), job' = [job EXCEPT ![t] = j],
           j.step \in LoginSteps =>
              /\ ~overlapped => job[t].step \in LoginSteps
              /\ j.step # "blocked" => ~attempts.blocked
              /\ j.step # "count",
           UNCHANGED <<attempts, failures, overlapped>>
    PROVE  LoginsInv'
<1>1. JobShapes' /\ job'[t] = j /\ \A u \in RequestThreads : u # t => job'[u] = job[u]
  BY NextShapes DEF LoginsInv
<1>2. QED
  BY <1>1 DEF LoginsInv, LoginSteps

LEMMA LoginsStep ==
    ASSUME LoginsInv, NEW t \in RequestThreads, Step(t)
    PROVE  LoginsInv'
<1>1. PICK j : /\ Shaped(j) /\ job' = [job EXCEPT ![t] = j]
               /\ j.step \in LoginSteps => \/ BeginLogin(t) \/ CheckBlocked(t) \/ Verify(t)
                                           \/ ReadAttempts(t) \/ ClearAttempts(t)
  BY Moves DEF LoginsInv
<1>2. /\ JobShapes' /\ job'[t] = j /\ \A u \in RequestThreads : u # t => job'[u] = job[u]
      /\ attempts \in Attempts /\ failures \in Nat /\ MaxAttempts \in Nat
  BY <1>1, NextShapes, AuthAssumption DEF LoginsInv
<1>3. CASE BeginLogin(t)
  <2>1. PICK entered \in Passwords : job' = [job EXCEPT ![t] = [step |-> "blocked", entered |-> entered]]
    BY <1>3 DEF BeginLogin
  <2>2. job'[t].step = "blocked"
    BY <2>1 DEF LoginsInv, JobShapes
  <2>3. UNCHANGED <<attempts, failures>> /\ (~overlapped' => ~overlapped /\ LoggingIn = {})
    BY <1>3 DEF BeginLogin
  <2>4. ~overlapped' => \A u \in RequestThreads : job[u].step \notin LoginSteps
    BY <2>3 DEF LoggingIn, LoginSteps
  <2>5. QED
    BY <1>2, <2>2, <2>3, <2>4 DEF LoginsInv
<1>4. CASE CheckBlocked(t) \/ Verify(t)
  <2>1. /\ job[t].step \in LoginSteps /\ j.step \in {"idle", "verify", "clear", "failed"}
        /\ j.step = "verify" => ~attempts.blocked
        /\ UNCHANGED <<attempts, failures, overlapped>>
        /\ j.step \in {"clear", "failed"} => job[t].step = "verify"
    <3>1. Done(t) => j.step = "idle"
      BY <1>2, IdleShaped DEF Done, LoginsInv, JobShapes
    <3>2. \A s : Goto(t, s) => j.step = s
      BY <1>2 DEF Goto, LoginsInv, JobShapes, Shaped
    <3>3. QED
      BY <1>4, <3>1, <3>2 DEF CheckBlocked, Verify, At, LoginSteps, vars_auth
  <2>2. overlapped \/ j.step \in {"clear", "failed"} => overlapped \/ ~attempts.blocked
    BY <2>1 DEF LoginsInv, LoginSteps
  <2>3. QED
    BY <1>2, <2>1, <2>2 DEF LoginsInv, LoginSteps
<1>5. CASE ReadAttempts(t)
  <2>1. /\ job[t].step = "failed" /\ job' = [job EXCEPT ![t] = [step |-> "count", count |-> NextCount]]
        /\ failures' = IF attempts.open THEN failures + 1 ELSE 1
        /\ UNCHANGED <<attempts, overlapped>>
    BY <1>5 DEF ReadAttempts, At
  <2>2. job'[t].step = "count" /\ job'[t].count = NextCount
    BY <2>1 DEF LoginsInv, JobShapes
  <2>3. attempts.count \in Nat /\ NextCount \in Nat /\ failures' \in Nat
    BY <1>2, <2>1 DEF Attempts, NextCount
  <2>4. ASSUME ~overlapped
        PROVE  /\ NextCount <= failures' /\ ~attempts.blocked
               /\ attempts.open => attempts.count <= failures'
               /\ \A u \in RequestThreads : u # t => job[u].step \notin LoginSteps
    BY <1>2, <2>1, <2>3, <2>4 DEF LoginsInv, NextCount, LoginSteps
  <2>5. QED
    BY <1>2, <2>1, <2>2, <2>3, <2>4 DEF LoginsInv, LoginSteps
<1>6. CASE WriteAttempts(t)
  <2> DEFINE a == [count |-> job[t].count, open |-> TRUE, blocked |-> job[t].count >= MaxAttempts]
  <2>1. job[t].step = "count" /\ attempts' = a /\ UNCHANGED <<failures, overlapped>> /\ j.step = "idle"
    BY <1>1, <1>2, <1>6, IdleShaped DEF WriteAttempts, At, Done, LoginsInv, JobShapes
  <2>2. a \in Attempts /\ a.count = job[t].count /\ (a.blocked => job[t].count >= MaxAttempts)
    <3>1. job[t].count \in Nat /\ (job[t].count >= MaxAttempts) \in BOOLEAN
      BY <2>1 DEF LoginsInv
    <3>2. \A b \in BOOLEAN : [count |-> job[t].count, open |-> TRUE, blocked |-> b] \in Attempts
      BY <3>1 DEF Attempts
    <3>3. a.count = job[t].count /\ a.blocked = (job[t].count >= MaxAttempts)
      BY Zenon
    <3>4. QED
      BY <3>1, <3>2, <3>3, Zenon
  <2>3. ~overlapped => job[t].count <= failures
    BY <2>1 DEF LoginsInv
  <2>4. job[t].count \in Nat /\ (~overlapped /\ a.blocked => failures >= MaxAttempts)
    BY <1>2, <2>1, <2>2, <2>3 DEF LoginsInv
  <2> HIDE DEF a
  <2>5. QED
    BY <1>2, <2>1, <2>2, <2>3, <2>4 DEF LoginsInv, LoginSteps
<1>7. CASE ClearAttempts(t)
  <2>1. /\ job[t].step = "clear" /\ attempts' = NoRow /\ failures' = 0 /\ UNCHANGED overlapped
        /\ j.step = "create"
    BY <1>2, <1>7 DEF ClearAttempts, At, Goto, LoginsInv, JobShapes, Shaped
  <2>2. NoRow \in Attempts /\ ~NoRow.blocked /\ ~NoRow.open
    BY DEF NoRow, Attempts
  <2>3. QED
    BY <1>2, <2>1, <2>2 DEF LoginsInv, LoginSteps
<1>8. CASE ~(\/ BeginLogin(t) \/ CheckBlocked(t) \/ Verify(t) \/ ReadAttempts(t) \/ WriteAttempts(t)
             \/ ClearAttempts(t))
  <2>1. CASE AuthStep(t)
    BY <1>1, <1>8, <2>1, LoginsElsewhere DEF AuthStep, CreateSession, ReadToken, RevokeExpired, Touch,
       BeginLogout, Logout, BeginPassword, VerifyPassword, WritePassword, vars_auth
  <2>2. CASE ~AuthStep(t)
    <3>1. UNCHANGED <<attempts, failures, overlapped>>
      BY <2>2 DEF Step, BeginKill, Kill, CommitKill, BeginStatus, ReadSwitch, AssignSwitch, BeginUpdate,
         SetStatus, Validate, UpsertStrategy, BeginBacktest, CheckBacktest, StartRun, Work, RecordTrade,
         FinishRun, LogCompleted, FailRun, DbFails, vars_auth
    <3>2. QED
      BY <1>1, <1>8, <3>1, LoginsElsewhere
  <2>3. QED
    BY <2>1, <2>2
<1>9. QED
  BY <1>3, <1>4, <1>5, <1>6, <1>7, <1>8

\* As long as no two logins overlap, a login is blocked only after as many wrong passwords as it
\* takes, of one window and none before the last success (_record_login_failure).
THEOREM BlocksEarned == Spec => []BlockedAfterFailures
<1>1. Init => LoginsInv
  <2> SUFFICES ASSUME Init PROVE LoginsInv
    OBVIOUS
  <2>1. job = [t \in RequestThreads |-> Idle] /\ attempts = NoRow /\ failures = 0
    BY DEF Init
  <2>2. JobShapes /\ \A t \in RequestThreads : job[t].step \notin LoginSteps
    BY <2>1, IdleShaped DEF JobShapes, LoginSteps
  <2>3. NoRow \in Attempts /\ ~NoRow.blocked /\ ~NoRow.open
    BY DEF NoRow, Attempts
  <2>4. QED
    BY <2>1, <2>2, <2>3 DEF LoginsInv, LoginSteps
<1>2. LoginsInv /\ [Next]_vars => LoginsInv'
  <2> SUFFICES ASSUME LoginsInv, [Next]_vars PROVE LoginsInv'
    OBVIOUS
  <2>1. CASE TimePasses
    <3>1. UNCHANGED <<job, failures, overlapped>>
      BY <2>1 DEF TimePasses
    <3>2. /\ attempts' \in Attempts /\ (attempts'.blocked => attempts.blocked)
          /\ attempts'.open => attempts.open /\ attempts'.count = attempts.count
      BY <2>1 DEF TimePasses, LoginsInv, Attempts
    <3>3. QED
      BY <3>1, <3>2 DEF LoginsInv, JobShapes
  <2>2. CASE Restart
    <3>1. job' = [t \in RequestThreads |-> Idle] /\ UNCHANGED <<attempts, failures, overlapped>>
      BY <2>2 DEF Restart
    <3>2. JobShapes' /\ \A t \in RequestThreads : job'[t].step \notin LoginSteps
      BY <3>1, IdleShaped DEF JobShapes, LoginSteps
    <3>3. QED
      BY <3>1, <3>2 DEF LoginsInv, LoginSteps
  <2>3. CASE WorkerKills \/ UNCHANGED vars
    BY <2>3 DEF WorkerKills, vars_auth, vars, LoginsInv, JobShapes
  <2>4. QED
    BY <2>1, <2>2, <2>3, LoginsStep DEF Next
<1>3. LoginsInv => BlockedAfterFailures
  BY DEF LoginsInv, BlockedAfterFailures
<1>4. QED
  BY <1>1, <1>2, <1>3, PTL DEF Spec

-----------------------------------------------------------------------------
(* Updates of the strategy.                                                *)

\* What the update of thread t has made of the strategy so far, from what it was.
UpdateOf(t) ==
    LET p == job[t].patch
        was == job[t].was
    IN
    /\ was = acknowledged
    /\ job[t].step = "validate" => strategy = [was EXCEPT !.status = Given(p.status, @)]
    /\ job[t].step = "upsert" => strategy = Patched(was, p) /\ job[t].row = Patched(was, p)

\* The row is what was answered until updates have overlapped or a later one took up what a
\* failed one had left; the memory is too, but for the update that is under way, until one fails.
UpdatesInv ==
    /\ JobShapes
    /\ DOMAIN acknowledged = {"status", "value"}
    /\ taint \in {"none", "memory", "row"}
    /\ taint # "row" =>
         /\ row = acknowledged
         /\ \A t, u \in RequestThreads : job[t].step \in UpdateSteps /\ job[u].step \in UpdateSteps => t = u
    /\ taint = "none" =>
         /\ Updating = {} => strategy = acknowledged
         /\ \A t \in RequestThreads : job[t].step \in UpdateSteps => UpdateOf(t)

\* A step that leaves the strategy, its row and what was answered.
LEMMA UpdatesElsewhere ==
    ASSUME UpdatesInv, NEW t \in RequestThreads, NEW j, Shaped(j), job' = [job EXCEPT ![t] = j],
           job[t].step \notin UpdateSteps, j.step \notin UpdateSteps,
           UNCHANGED <<strategy, row, acknowledged, taint>>
    PROVE  UpdatesInv'
<1>1. JobShapes' /\ job'[t] = j /\ \A u \in RequestThreads : u # t => job'[u] = job[u]
  BY NextShapes DEF UpdatesInv
<1>2. \A u \in RequestThreads : job'[u].step \in UpdateSteps => job'[u] = job[u]
  BY <1>1
<1>3. Updating' = Updating
  BY <1>1 DEF Updating, UpdateSteps
<1>4. QED
  BY <1>1, <1>2, <1>3 DEF UpdatesInv, UpdateOf

\* The update of thread t is over, and leaves the strategy; if not as it was, it is tainted.
LEMMA UpdatesDone ==
    ASSUME UpdatesInv, NEW t \in RequestThreads, job[t].step \in UpdateSteps, Done(t),
           UNCHANGED <<strategy, row, acknowledged>>,
           taint' = IF taint = "none" /\ strategy # job[t].was THEN "memory" ELSE taint
    PROVE  UpdatesInv'
<1>1. /\ JobShapes' /\ job'[t].step = "idle"
      /\ \A u \in RequestThreads : u # t => job'[u] = job[u]
  BY IdleShaped, NextShapes DEF Done, UpdatesInv
<1>2. /\ taint' \in {"none", "memory", "row"} /\ (taint' # "row" => taint # "row")
      /\ taint' = "none" => taint = "none" /\ strategy = job[t].was
  BY DEF UpdatesInv
<1>3. taint # "row" => \A u \in RequestThreads : job'[u].step \notin UpdateSteps
  BY <1>1 DEF UpdatesInv, UpdateSteps
<1>4. taint' = "none" => strategy = acknowledged
  BY <1>2 DEF UpdatesInv, UpdateOf
<1>5. QED
  BY <1>1, <1>2, <1>3, <1>4 DEF UpdatesInv

LEMMA GivenTwice == \A new, old : Given(new, Given(new, old)) = Given(new, old)
  BY DEF Given

LEMMA UpdatesStep ==
    ASSUME UpdatesInv, NEW t \in RequestThreads, Step(t)
    PROVE  UpdatesInv'
<1>1. PICK j : /\ Shaped(j) /\ job' = [job EXCEPT ![t] = j]
               /\ j.step \in UpdateSteps => SetStatus(t) \/ Validate(t)
  BY Moves DEF UpdatesInv
<1>2. JobShapes' /\ job'[t] = j /\ \A u \in RequestThreads : u # t => job'[u] = job[u]
  BY <1>1, NextShapes DEF UpdatesInv
<1>3. CASE SetStatus(t)
  <2> DEFINE p == job[t].request.patch
             k == [step |-> "validate", patch |-> p, was |-> strategy]
  <2>1. /\ job' = [job EXCEPT ![t] = k] /\ UNCHANGED <<row, acknowledged>>
        /\ strategy' = [strategy EXCEPT !.status = Given(p.status, @)]
        /\ taint' = IF Updating = {} THEN taint ELSE "row"
        /\ job[t].step \notin UpdateSteps
    BY <1>3 DEF SetStatus, At, UpdateSteps
  <2>2. job'[t] = k /\ k.step = "validate" /\ k.patch = p /\ k.was = strategy
    BY <2>1 DEF UpdatesInv, JobShapes
  <2> HIDE DEF p, k
  <2>3. taint' # "row" => taint' = taint /\ \A u \in RequestThreads : job[u].step \notin UpdateSteps
    BY <2>1 DEF Updating, UpdateSteps
  <2>4. taint' = "none" => strategy = acknowledged
    BY <2>1 DEF UpdatesInv
  <2>5. taint' = "none" => UpdateOf(t)'
    BY <2>1, <2>2, <2>4 DEF UpdateOf
  <2>6. taint' = "none" => Updating' # {}
    BY <2>2 DEF Updating
  <2>7. QED
    BY <1>2, <2>1, <2>2, <2>3, <2>5, <2>6 DEF UpdatesInv
<1>4. CASE Validate(t)
  <2>1. /\ job[t].step = "validate" /\ job[t].step \in UpdateSteps
        /\ UNCHANGED <<row, acknowledged>>
    BY <1>4 DEF Validate, At, UpdateSteps
  <2>2. CASE job[t].patch.value = Refused
    <3>1. Done(t) /\ strategy' = strategy
          /\ taint' = IF taint = "none" /\ strategy' # job[t].was THEN "memory" ELSE taint
      BY <1>4, <2>2 DEF Validate, Spoil
    <3>2. QED
      BY <2>1, <3>1, UpdatesDone
  <2>3. CASE job[t].patch.value # Refused
    <3> DEFINE p == job[t].patch
               was == job[t].was
               k == [step |-> "upsert", patch |-> p, was |-> was, row |-> RowOf(strategy, p)]
    <3>1. /\ strategy' = [strategy EXCEPT !.value = Given(p.value, @)] /\ taint' = taint
          /\ job' = [job EXCEPT ![t] = k]
      BY <1>4, <2>3 DEF Validate
    <3>2. job'[t] = k
      BY <3>1 DEF UpdatesInv, JobShapes
    <3>3. k.step = "upsert" /\ k.patch = p /\ k.was = was /\ k.row = Patched(strategy, p)
      BY DEF RowOf
    <3> HIDE DEF k
    <3>4. ASSUME taint = "none"
          PROVE  UpdateOf(t)'
      <4>1. /\ was = acknowledged /\ DOMAIN was = {"status", "value"}
            /\ strategy = [was EXCEPT !.status = Given(p.status, @)]
        BY <2>1, <3>4 DEF UpdatesInv, UpdateOf
      <4> HIDE DEF p, was
      <4>2. /\ DOMAIN strategy = {"status", "value"}
            /\ strategy.status = Given(p.status, was.status) /\ strategy.value = was.value
        BY <4>1
      <4>3. strategy' = Patched(was, p)
        <5>1. /\ DOMAIN strategy' = {"status", "value"}
              /\ strategy'.status = Given(p.status, was.status)
              /\ strategy'.value = Given(p.value, was.value)
              /\ strategy' = [x \in {"status", "value"} |-> strategy'[x]]
          BY <3>1, <4>2
        <5>2. QED
          BY <5>1 DEF Patched
      <4>4. Patched(strategy, p) = Patched(was, p)
        BY <4>2, GivenTwice DEF Patched
      <4>5. QED
        BY <2>1, <3>2, <3>3, <4>1, <4>3, <4>4 DEF UpdateOf, p, was
    <3>5. Updating' # {}
      BY <3>2, <3>3 DEF Updating
    <3>6. j.step \in UpdateSteps /\ \A u \in RequestThreads : job'[u].step \in UpdateSteps => job[u].step \in UpdateSteps
      BY <1>2, <2>1, <3>2, <3>3 DEF UpdateSteps
    <3>7. taint = "none" => \A u \in RequestThreads : job'[u].step \in UpdateSteps => UpdateOf(u)'
      BY <1>2, <2>1, <3>4, <3>6 DEF UpdatesInv
    <3>8. QED
      BY <1>2, <2>1, <3>1, <3>5, <3>6, <3>7 DEF UpdatesInv
  <2>4. QED
    BY <2>2, <2>3
<1>5. CASE UpsertStrategy(t)
  <2> DEFINE p == job[t].patch
             was == job[t].was
  <2>1. /\ job[t].step = "upsert" /\ job[t].step \in UpdateSteps /\ strategy' = strategy
        /\ row' = job[t].row /\ acknowledged' = Patched(acknowledged, p)
        /\ taint' = IF taint = "memory" THEN "row" ELSE taint
        /\ Done(t)
    BY <1>5 DEF UpsertStrategy, At, UpdateSteps
  <2>2. job'[t].step = "idle"
    BY <2>1, IdleShaped DEF Done, UpdatesInv, JobShapes
  <2>3. /\ taint' \in {"none", "memory", "row"} /\ taint' # "memory"
        /\ taint' # "row" => taint' = "none" /\ taint = "none"
    BY <2>1 DEF UpdatesInv
  <2>4. taint = "none" => row' = acknowledged' /\ strategy' = acknowledged'
    <3>1. taint = "none" => was = acknowledged /\ strategy = Patched(was, p) /\ job[t].row = Patched(was, p)
      BY <2>1 DEF UpdatesInv, UpdateOf
    <3>2. QED
      BY <2>1, <3>1
  <2>5. DOMAIN acknowledged' = {"status", "value"}
    BY <2>1 DEF Patched
  <2>6. taint # "row" => \A u \in RequestThreads : job'[u].step \notin UpdateSteps
    BY <1>2, <2>1, <2>2 DEF UpdatesInv, UpdateSteps
  <2>7. QED
    BY <1>2, <2>3, <2>4, <2>5, <2>6 DEF UpdatesInv
<1>6. CASE DbFails(t)
  <2>1. CASE At(t, "upsert")
    <3>1. /\ job[t].step \in UpdateSteps /\ Done(t) /\ UNCHANGED <<strategy, row, acknowledged>>
          /\ taint' = IF taint = "none" /\ strategy # job[t].was THEN "memory" ELSE taint
      BY <1>6, <2>1 DEF DbFails, At, UpdateSteps
    <3>2. QED
      BY <3>1, UpdatesDone
  <2>2. CASE ~At(t, "upsert")
    <3>1. job[t].step \notin UpdateSteps /\ UNCHANGED <<strategy, row, acknowledged, taint>>
      BY <1>6, <2>2 DEF DbFails, At, UpdateSteps, Transactions
    <3>2. j.step \notin UpdateSteps
      <4>1. j.step \in {"idle", "fail"}
        BY <1>2, <1>6, IdleShaped DEF DbFails, Done, Goto, UpdatesInv, JobShapes, Shaped
      <4>2. QED
        BY <4>1 DEF UpdateSteps
    <3>3. QED
      BY <1>1, <3>1, <3>2, UpdatesElsewhere
  <2>3. QED
    BY <2>1, <2>2
<1>7. CASE ~(SetStatus(t) \/ Validate(t) \/ UpsertStrategy(t) \/ DbFails(t))
  <2>1. CASE AuthStep(t) /\ UNCHANGED vars_api
    <3>1. job[t].step \notin UpdateSteps
      <4>1. job[t].step \notin {"validate", "upsert"}
        BY <2>1 DEF AuthStep, BeginLogin, CheckBlocked, Verify, ReadAttempts, WriteAttempts, ClearAttempts,
           CreateSession, ReadToken, RevokeExpired, Touch, BeginLogout, Logout, BeginPassword,
           VerifyPassword, WritePassword, Begin, At
      <4>2. QED
        BY <4>1 DEF UpdateSteps
    <3>2. QED
      BY <1>1, <1>7, <2>1, <3>1, UpdatesElsewhere DEF vars_api
  <2>2. CASE ~(AuthStep(t) /\ UNCHANGED vars_api)
    <3>1. job[t].step \notin {"validate", "upsert"} /\ UNCHANGED <<strategy, row, acknowledged, taint>>
      BY <1>7, <2>2 DEF Step, BeginKill, Kill, CommitKill, BeginStatus, ReadSwitch, AssignSwitch, BeginUpdate,
         BeginBacktest, CheckBacktest, StartRun, Work, RecordTrade, FinishRun, LogCompleted, FailRun,
         Begin, At, vars_api
    <3>2. QED
      BY <1>1, <1>7, <3>1, UpdatesElsewhere DEF UpdateSteps
  <2>3. QED
    BY <2>1, <2>2
<1>8. QED
  BY <1>3, <1>4, <1>5, <1>6, <1>7

\* As long as no two updates overlapped and none that failed left its half behind, what was answered
\* is what the memory has and what a restart will find (update_strategy).
THEOREM UpdatesLast == Spec => []AcknowledgedUpdatesLast
<1>1. Init => UpdatesInv
  <2> SUFFICES ASSUME Init PROVE UpdatesInv
    OBVIOUS
  <2>1. /\ job = [t \in RequestThreads |-> Idle] /\ strategy = row /\ acknowledged = row /\ taint = "none"
        /\ DOMAIN row = {"status", "value"}
    BY DEF Init
  <2>2. JobShapes /\ \A t \in RequestThreads : job[t].step \notin UpdateSteps
    BY <2>1, IdleShaped DEF JobShapes, UpdateSteps
  <2>3. QED
    BY <2>1, <2>2 DEF UpdatesInv
<1>2. UpdatesInv /\ [Next]_vars => UpdatesInv'
  <2> SUFFICES ASSUME UpdatesInv, [Next]_vars PROVE UpdatesInv'
    OBVIOUS
  <2>1. CASE Restart
    <3>1. /\ job' = [t \in RequestThreads |-> Idle] /\ UNCHANGED <<row, acknowledged>>
          /\ strategy' = row /\ taint' = IF taint = "memory" THEN "none" ELSE taint
      BY <2>1 DEF Restart
    <3>2. JobShapes' /\ \A t \in RequestThreads : job'[t].step \notin UpdateSteps
      BY <3>1, IdleShaped DEF JobShapes, UpdateSteps
    <3>3. QED
      BY <3>1, <3>2 DEF UpdatesInv
  <2>2. CASE (TimePasses /\ UNCHANGED vars_api) \/ WorkerKills \/ UNCHANGED vars
    <3>1. UNCHANGED <<job, strategy, row, acknowledged, taint>>
      BY <2>2 DEF TimePasses, WorkerKills, vars_api, vars
    <3>2. QED
      BY <3>1 DEF UpdatesInv, JobShapes, UpdateOf, Updating
  <2>3. QED
    BY <2>1, <2>2, UpdatesStep DEF Next
<1>3. UpdatesInv => AcknowledgedUpdatesLast
  BY DEF UpdatesInv, AcknowledgedUpdatesLast, Updating
<1>4. QED
  BY <1>1, <1>2, <1>3, PTL DEF Spec
=============================================================================
