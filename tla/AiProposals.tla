------------------------------ MODULE AiProposals ------------------------------
(***************************************************************************)
(* The analyst that proposes parameters for the signal scorer, and the     *)
(* tables its proposals and the applied parameters are in (trauto/ai).     *)
(* The hourly loop of the API process, the scanner's process and the       *)
(* operator's requests all run it; the answer of the language model is any *)
(* one.  The parameters it applies go to the table; the file, which the     *)
(* scorer reads, is SignalParams'.  A transaction that reads a row and     *)
(* writes it is two steps (READ COMMITTED, no row lock).                   *)
(***************************************************************************)
EXTENDS SignalBounds, Sequences, TLC

CONSTANTS MaxFills,        \* _MAX_FILLS: the fills the analyst looks at
          MinTradeCount,   \* _MIN_TRADE_COUNT
          MaxChanged,      \* _MAX_PARAMS_CHANGED
          MaxChangePct,    \* _MAX_CHANGE_FRACTION, in percent
          LowImpactPct,    \* _IMPACT_AUTO_APPLY_MAX, in percent
          Budget,          \* _AI_MONTHLY_TOKEN_BUDGET, in answers
          Trades,          \* round trips of the last 30 days
          Offered,         \* bound: the values the model answers with
          MaxAnalyses,     \* bound: analyses begun
          MaxFaults        \* bound: transactions that fail and crashes of a process

ASSUME AiAssumption ==
    /\ MaxFills \in Nat /\ MinTradeCount \in Nat /\ MaxChanged \in Nat
    /\ MaxChangePct \in Nat /\ LowImpactPct \in Nat /\ Budget \in Nat
    /\ Trades \in Nat /\ Offered \subseteq Nat /\ MaxAnalyses \in Nat
    /\ MaxFaults \in Nat

VARIABLES proposals,  \* ai_proposals, by id
          versions,   \* signal_params of the database, oldest first, with the proposal's id
          recorded,   \* token_usage of the month, in answers
          rested,     \* no log row within the interval, which the circuit breaker is shorter than
          job,        \* what each thread is at
          analyses, faults,
          answers,    \* ghost: answers of the model that could be read
          raced,      \* ghost: a proposal was being decided twice at a time
          concurrent  \* ghost: two analyses were under way at a time

vars_tables == <<proposals, versions, recorded, rested>>
vars_ghost == <<answers, raced, concurrent>>
vars == <<vars_tables, vars_ghost, job, analyses, faults>>

Threads == {"scanner", "loop"} \cup RequestThreads
At(t, step) == "step" \in DOMAIN job[t] /\ job[t].step = step
Done(t) == job' = [job EXCEPT ![t] = Idle]

Ids == 1 .. Len(proposals)
Pending == {i \in Ids : proposals[i].status = "pending"}
Latest == versions[Len(versions)].params
\* In _execute_analysis, also while its own proposal is being committed.
Analysing == {t \in Threads : \/ "by" \in DOMAIN job[t]
                              \/ At(t, "commit") /\ "by" \in DOMAIN job[t].next}
Stage(t, step) == [step |-> step, by |-> job[t].by]

(***************************************************************************)
(* apply_proposal, reject_proposal: the row is read, then it is committed  *)
(***************************************************************************)

Deciding(id) == {t \in Threads : At(t, "commit") /\ job[t].id = id}

\* Mutant: the status of the row is not looked at.
DecideAnyway(t, id, verdict, next) ==
    /\ job' = [job EXCEPT ![t] = [step |-> "commit", id |-> id, verdict |-> verdict, next |-> next]]
    /\ raced' = (raced \/ Deciding(id) # {})
    /\ UNCHANGED <<vars_tables, analyses, faults, answers, concurrent>>

\* Only a pending row goes on; then, or if it does not, the thread is at next.
Decide(t, id, verdict, next) ==
    /\ job' = [job EXCEPT ![t] = IF id \in Pending
                   THEN [step |-> "commit", id |-> id, verdict |-> verdict, next |-> next] ELSE next]
    /\ raced' = (raced \/ (id \in Pending /\ Deciding(id) # {}))
    /\ UNCHANGED <<vars_tables, analyses, faults, answers, concurrent>>

\* The parameters of an applied proposal become the latest as they were proposed, and the
\* scorer loads its file again (SignalParams!ReloadForAnalyst).
CommitDecision(t) ==
    /\ At(t, "commit")
    /\ proposals' = [proposals EXCEPT ![job[t].id].status = job[t].verdict]
    /\ versions' = IF job[t].verdict = "applied"
                   THEN Append(versions, [params |-> proposals[job[t].id].params, from |-> job[t].id])
                   ELSE versions
    /\ job' = [job EXCEPT ![t] = job[t].next]
    /\ UNCHANGED <<recorded, rested, analyses, faults, vars_ghost>>

\* post_ai_proposal_apply, post_ai_proposal_reject, of a page that may be old
OperatorDecides(t) ==
    /\ job[t] = Idle /\ t \in RequestThreads
    /\ \E id \in Ids, verdict \in {"applied", "rejected"} : Decide(t, id, verdict, Idle)

(***************************************************************************)
(* _run_scheduled_analysis, trigger_immediate_analysis                     *)
(***************************************************************************)

\* Mutant: they wait for their turn like an analysis does.
BeginScheduledLate(t) ==
    /\ job[t] = Idle /\ t \in {"loop", "scanner"}
    /\ job' = [job EXCEPT ![t] = [step |-> "due",
                                  due |-> {i \in Ids : Pending = {} /\ proposals[i].timer = "due"}]]
    /\ UNCHANGED <<vars_tables, vars_ghost, analyses, faults>>

\* The proposals whose timer has elapsed are selected and applied first, whatever comes next.
BeginScheduled(t) ==
    /\ job[t] = Idle /\ t \in {"loop", "scanner"}
    /\ job' = [job EXCEPT ![t] = [step |-> "due",
                                  due |-> {i \in Pending : proposals[i].timer = "due"}]]
    /\ UNCHANGED <<vars_tables, vars_ghost, analyses, faults>>

NextDue(t) ==
    /\ At(t, "due")
    /\ \E i \in job[t].due :
        Decide(t, i, "applied", [step |-> "due", due |-> job[t].due \ {i}])

\* _execute_analysis begins with the parameters in force.
Enter(t, by) ==
    /\ analyses < MaxAnalyses /\ analyses' = analyses + 1
    /\ job' = [job EXCEPT ![t] = [step |-> "call", by |-> by, current |-> Latest]]
    /\ concurrent' = (concurrent \/ Analysing # {})
    /\ UNCHANGED <<vars_tables, faults, answers, raced>>

\* Mutant: a pending proposal holds nothing up.
GateOpen(t) ==
    /\ At(t, "due") /\ job[t].due = {}
    /\ IF rested /\ recorded < Budget /\ analyses < MaxAnalyses
       THEN Enter(t, t)
       ELSE Done(t) /\ UNCHANGED <<vars_tables, vars_ghost, analyses, faults>>

\* The circuit breaker and the interval, a pending proposal, and the budget: four reads.
Gate(t) ==
    /\ At(t, "due") /\ job[t].due = {}
    /\ IF rested /\ Pending = {} /\ recorded < Budget /\ analyses < MaxAnalyses
       THEN Enter(t, t)
       ELSE Done(t) /\ UNCHANGED <<vars_tables, vars_ghost, analyses, faults>>

\* post_ai_run: no gate, and no due proposals.
BeginRequested(t) == job[t] = Idle /\ t \in RequestThreads /\ Enter(t, "request")

(***************************************************************************)
(* _execute_analysis                                                       *)
(***************************************************************************)

\* _summarize_fills: a symbol counts when the window has a buy and a sell of it.
Counted == Least(Trades, MaxFills \div 2)

Gap(a, b) == Greatest(a, b) - Least(a, b)

\* SafetyValidator.validate; the analyst's proposal is the current parameters, some changed.
Validated(ps, current) ==
    /\ Counted >= MinTradeCount
    /\ Cardinality({p \in Params : ps[p] # current[p]}) <= MaxChanged
    /\ Valid(ps)
    /\ \A p \in Params : Gap(ps[p], current[p]) * 100 <= MaxChangePct * current[p]

\* compute_change_impact: averaged over all the parameters, the unchanged ones too.
LowImpact(ps, current) ==
    FoldFunction(+, 0, [p \in Params |-> IF current[p] = 0 THEN 0
                                         ELSE (Gap(ps[p], current[p]) * 1000) \div current[p]])
        <= LowImpactPct * 10 * Cardinality({p \in Params : current[p] # 0})

\* _apply_or_queue
Tier(confidence, ps, current) ==
    IF confidence = "high" /\ LowImpact(ps, current) THEN "auto"
    ELSE IF confidence \in {"high", "middle"} THEN "timer" ELSE "manual"

\* analyze, and what becomes of its answer: nothing (no key, no fills, an error, or text that is
\* no JSON, which is paid for and not counted), a refusal, also of a low confidence or win rate,
\* or create_proposal.  The highest tier applies its own next, in a transaction of its own.
CallAnalyst(t) ==
    /\ At(t, "call")
    /\ \/ job' = [job EXCEPT ![t] = Stage(t, "log")] /\ UNCHANGED <<answers, proposals>>
       \/ /\ answers' = answers + 1
          /\ \/ job' = [job EXCEPT ![t] = Stage(t, "usage")] /\ UNCHANGED proposals
             \/ \E ps \in [Params -> Offered], confidence \in {"high", "middle", "low"} :
                 LET tier == Tier(confidence, ps, job[t].current) IN
                 /\ Validated(ps, job[t].current)
                 /\ proposals' = Append(proposals, [status |-> "pending", by |-> job[t].by, params |-> ps,
                                                    timer |-> IF tier = "timer" THEN "set" ELSE "none"])
                 /\ job' = [job EXCEPT ![t] = IF tier = "auto"
                                THEN [step |-> "own", by |-> job[t].by, id |-> Len(proposals) + 1]
                                ELSE Stage(t, "usage")]
    /\ UNCHANGED <<versions, recorded, rested, analyses, faults, raced, concurrent>>

ApplyOwn(t) == At(t, "own") /\ Decide(t, job[t].id, "applied", Stage(t, "usage"))

\* add_monthly_token_usage: one transaction reads, another writes.
ReadUsage(t) ==
    /\ At(t, "usage")
    /\ job' = [job EXCEPT ![t] = [step |-> "count", by |-> job[t].by, tokens |-> recorded]]
    /\ UNCHANGED <<vars_tables, vars_ghost, analyses, faults>>

\* Mutant: the month's counter is set to this answer's tokens.
CountUsageAnew(t) ==
    /\ At(t, "count")
    /\ recorded' = 1
    /\ job' = [job EXCEPT ![t] = Stage(t, "log")]
    /\ UNCHANGED <<proposals, versions, rested, analyses, faults, vars_ghost>>

CountUsage(t) ==
    /\ At(t, "count")
    /\ recorded' = job[t].tokens + 1
    /\ job' = [job EXCEPT ![t] = Stage(t, "log")]
    /\ UNCHANGED <<proposals, versions, rested, analyses, faults, vars_ghost>>

Log(t) ==
    /\ At(t, "log")
    /\ rested' = FALSE
    /\ Done(t)
    /\ UNCHANGED <<proposals, versions, recorded, analyses, faults, vars_ghost>>

(***************************************************************************)
(* Faults, time and processes                                              *)
(***************************************************************************)

\* A transaction fails: the analysis or the request ends there; of the due proposals, only the one.
Fail(t) ==
    /\ job[t] # Idle /\ faults < MaxFaults
    /\ faults' = faults + 1
    /\ job' = [job EXCEPT ![t] = IF At(t, "commit") /\ "due" \in DOMAIN job[t].next THEN job[t].next
                                 ELSE Idle]
    /\ UNCHANGED <<vars_tables, vars_ghost, analyses>>

TimePasses ==
    \/ ~rested /\ rested' = TRUE
       /\ UNCHANGED <<job, proposals, versions, recorded, analyses, faults, vars_ghost>>
    \/ \E i \in Pending :
        /\ proposals[i].timer = "set"
        /\ proposals' = [proposals EXCEPT ![i].timer = "due"]
        /\ UNCHANGED <<job, versions, recorded, rested, analyses, faults, vars_ghost>>

Restart(process) ==
    /\ faults < MaxFaults /\ faults' = faults + 1
    /\ job' = [t \in Threads |-> IF ProcessOf(t) = process THEN Idle ELSE job[t]]
    /\ UNCHANGED <<vars_tables, vars_ghost, analyses>>

\* seed_signal_params_if_needed: the first row is the file's parameters.
Init ==
    /\ proposals = <<>>
    /\ versions = <<[params |-> Defaults, from |-> 0]>>
    /\ recorded = 0 /\ rested = TRUE
    /\ job = [t \in Threads |-> Idle]
    /\ faults = 0
    /\ answers = 0 /\ analyses = 0 /\ raced = FALSE /\ concurrent = FALSE

AnalysisStep(t) ==
    \/ BeginScheduled(t) \/ NextDue(t) \/ Gate(t) \/ BeginRequested(t)
    \/ CallAnalyst(t) \/ ApplyOwn(t) \/ ReadUsage(t) \/ CountUsage(t) \/ Log(t)
    \/ OperatorDecides(t) \/ CommitDecision(t)

Next ==
    \/ \E t \in Threads : AnalysisStep(t) \/ Fail(t)
    \/ \E process \in Processes : Restart(process)
    \/ TimePasses

Spec == Init /\ [][Next]_vars

\* The loop wakes every hour and ends what it began: in every state it has a next step.
FairSpec == Spec /\ []<><<TRUE>>_(job["loop"])

(***************************************************************************)
(* Properties                                                              *)
(***************************************************************************)

\* An applied proposal is in the table once and a rejected or a pending one never, although
\* the timer, the operator and the analysis itself decide, as long as no two decide the same
\* proposal at a time (apply_proposal, reject_proposal).
DecisionsHold ==
    ~raced => \A i \in Ids :
        Cardinality({n \in 1 .. Len(versions) : versions[n].from = i})
            = IF proposals[i].status = "applied" THEN 1 ELSE 0

\* An answer is counted at most once.  As long as no two analyses run at a time and none is cut
\* short, every answer that could be read is counted or about to be (add_monthly_token_usage).
AnswersCounted ==
    /\ recorded <= answers
    /\ ~concurrent /\ faults = 0 =>
           answers = recorded + Cardinality({t \in Analysing : ~At(t, "call") /\ ~At(t, "log")})

\* The analyst proposes nothing (SafetyValidator.validate).
NothingProposed == proposals = <<>>

\* Of the scheduled analyses of a process at most one proposal is undecided: who finds one
\* pending does not begin, though the two processes may propose at the same time
\* (has_pending_proposal).
PendingBound == \A t \in {"loop", "scanner"} : Cardinality({i \in Pending : proposals[i].by = t}) <= 1

\* A proposal whose timer has elapsed is decided, through failed transactions and restarts:
\* again and again none is overdue (apply_due_auto_proposals).
TimerDecides == []<>(\A i \in Pending : proposals[i].timer # "due")
=============================================================================
