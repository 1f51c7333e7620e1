----------------------------- MODULE SignalParams -----------------------------
(***************************************************************************)
(* The parameters of the Polymarket signal scorer, in a file               *)
(* (polymarket/signals.py), and the tuner that proposes others into a       *)
(* second file (polymarket/tuner.py).  The scanner's process proposes once  *)
(* a day; request threads of the API process propose, apply and reject      *)
(* (dashboard/api.py).  Both processes keep the parameters they loaded.     *)
(* Neither file is locked, and both are written in place.  What the closed *)
(* trades say of a rule is any direction.                                  *)
(***************************************************************************)
EXTENDS SignalBounds

CONSTANTS MaxBegun,        \* bound: runs and applies begun, of all threads together
          MaxRestarts      \* bound: crashes of either process

ASSUME TunerAssumption == MaxBegun \in Nat /\ MaxRestarts \in Nat

VARIABLES file,       \* signal_params.json: its parameters, or Torn
          proposal,   \* signal_params_proposed.json: its parameters, Torn, or None
          history,    \* signal_params_v<n>.json, by number
          memory,     \* _PARAMS of each process
          job,        \* what each thread is at
          begun, restarts,
          past,       \* ghost: every parameters the file has held
          overlapped  \* ghost: two applies were under way at a time

vars == <<file, proposal, history, memory, job, begun, restarts, past, overlapped>>

Threads == {"scanner"} \cup RequestThreads

Torn == [torn |-> TRUE]     \* truncated, or cut in the middle: no JSON
None == [none |-> TRUE]     \* no such file
Holding(ps) == [params |-> ps]
Contents == {Torn} \cup {Holding(ps) : ps \in [Params -> Nat]}
Readable(content) == content \notin {Torn, None}

At(t, op, step) == job[t] # Idle /\ job[t].op = op /\ job[t].step = step
Done(t) == job' = [job EXCEPT ![t] = Idle]
Goto(t, step) == job' = [job EXCEPT ![t].step = step]

\* load_signal_params: a file that cannot be read is the defaults.
Load(content) == IF Readable(content) THEN content.params ELSE Defaults

\* Another thread is writing the same file: the two texts may mix.
Writing(op, step) == {t \in Threads : At(t, op, step)}

(***************************************************************************)
(* propose_tuning                                                          *)
(***************************************************************************)

\* Mutant: the bounds are forgotten.
AdjustedFreely(p, value, direction) ==
    IF direction = "increase" THEN (value * 110) \div 100
    ELSE IF direction = "decrease" THEN (value * 90) \div 100 ELSE value

\* A rule that helps is strengthened by a tenth, one that hurts weakened, within bounds.
Adjusted(p, value, direction) ==
    IF direction = "same" THEN value
    ELSE Greatest(Lo[p], Least(Hi[p], IF direction = "increase" THEN (value * 110) \div 100
                                      ELSE (value * 90) \div 100))

\* Too few trades, or too few with the rule, or a small effect: no change.
Directions == [Params -> {"increase", "decrease", "same"}]
Proposed(current, directions) == [p \in Params |-> Adjusted(p, current[p], directions[p])]

\* _run_tuning_cycle, post_tuner_run: the proposal is computed from the file as it is now.
BeginRun(t) ==
    /\ job[t] = Idle /\ begun < MaxBegun
    /\ \E directions \in Directions :
        LET found == Proposed(Load(file), directions) IN
        /\ found # Load(file)
        /\ job' = [job EXCEPT ![t] = [op |-> "run", step |-> "open", params |-> found]]
    /\ begun' = begun + 1
    /\ UNCHANGED <<file, proposal, history, memory, restarts, past, overlapped>>

\* write_proposal: write_text truncates and then writes.
OpenProposal(t) ==
    /\ At(t, "run", "open")
    /\ proposal' = Torn
    /\ Goto(t, "write")
    /\ UNCHANGED <<file, history, memory, begun, restarts, past, overlapped>>

WriteProposal(t) ==
    /\ At(t, "run", "write")
    /\ proposal' \in IF Writing("run", "write") = {t} THEN {Holding(job[t].params)}
                     ELSE {Holding(job[t].params), Torn}
    /\ Done(t)
    /\ UNCHANGED <<file, history, memory, begun, restarts, past, overlapped>>

(***************************************************************************)
(* apply_proposal, reject_proposal                                         *)
(***************************************************************************)

Applying == {t \in Threads : job[t] # Idle /\ job[t].op = "apply"}

\* post_tuner_apply: a proposal that cannot be read is a 404.
BeginApply(t) ==
    /\ job[t] = Idle /\ t \in RequestThreads /\ begun < MaxBegun
    /\ Readable(proposal)
    /\ job' = [job EXCEPT ![t] = [op |-> "apply", step |-> "read"]]
    /\ begun' = begun + 1
    /\ overlapped' = (overlapped \/ Applying # {})
    /\ UNCHANGED <<file, proposal, history, memory, restarts, past>>

\* It is read again: gone is an exception, another one is applied in its place.
ReadProposal(t) ==
    /\ At(t, "apply", "read")
    /\ IF Readable(proposal)
       THEN job' = [job EXCEPT ![t] = [op |-> "apply", step |-> "count", params |-> proposal.params]]
       ELSE Done(t)
    /\ UNCHANGED <<file, proposal, history, memory, begun, restarts, past, overlapped>>

CountBackups(t) ==
    /\ At(t, "apply", "count")
    /\ job' = [job EXCEPT ![t] = [op |-> "apply", step |-> "backup", params |-> job[t].params,
                                  number |-> Cardinality(DOMAIN history) + 1]]
    /\ UNCHANGED <<file, proposal, history, memory, begun, restarts, past, overlapped>>

\* Mutant: the backup comes after the new parameters.
BackupLate(t) ==
    /\ At(t, "apply", "backup")
    /\ Goto(t, "open")
    /\ UNCHANGED <<file, proposal, history, memory, begun, restarts, past, overlapped>>

Backup(t) ==
    /\ At(t, "apply", "backup")
    /\ history' = [n \in DOMAIN history \cup {job[t].number} |->
                       IF n = job[t].number THEN file ELSE history[n]]
    /\ Goto(t, "open")
    /\ UNCHANGED <<file, proposal, memory, begun, restarts, past, overlapped>>

\* The parameters are replaced as a whole by the proposal's, whatever the file holds now.
OpenParams(t) ==
    /\ At(t, "apply", "open")
    /\ file' = Torn
    /\ Goto(t, "write")
    /\ UNCHANGED <<proposal, history, memory, begun, restarts, past, overlapped>>

WriteParams(t) ==
    /\ At(t, "apply", "write")
    /\ file' \in IF Writing("apply", "write") = {t} THEN {Holding(job[t].params)}
                 ELSE {Holding(job[t].params), Torn}
    /\ past' = past \cup {job[t].params}
    /\ Goto(t, "reload")
    /\ UNCHANGED <<proposal, history, memory, begun, restarts, overlapped>>

\* reload_signal_params: only this process's.
Reload(t) ==
    /\ At(t, "apply", "reload")
    /\ memory' = [memory EXCEPT ![ProcessOf(t)] = Load(file)]
    /\ Goto(t, "unlink")
    /\ UNCHANGED <<file, proposal, history, begun, restarts, past, overlapped>>

\* The proposal file is removed, also one written in the meantime.
Unlink(t) ==
    /\ At(t, "apply", "unlink")
    /\ proposal' = None
    /\ Done(t)
    /\ UNCHANGED <<file, history, memory, begun, restarts, past, overlapped>>

Reject(t) ==
    /\ job[t] = Idle /\ t \in RequestThreads /\ proposal # None
    /\ proposal' = None
    /\ UNCHANGED <<file, history, memory, job, begun, restarts, past, overlapped>>

(***************************************************************************)
(* Processes                                                               *)
(***************************************************************************)

\* The process ends, its threads where they are, and starts: the module loads the file.
Restart(process) ==
    /\ restarts < MaxRestarts /\ restarts' = restarts + 1
    /\ job' = [t \in Threads |-> IF ProcessOf(t) = process THEN Idle ELSE job[t]]
    /\ memory' = [memory EXCEPT ![process] = Load(file)]
    /\ UNCHANGED <<file, proposal, history, begun, past, overlapped>>

\* The analyst of either process has applied a proposal (AiProposals), which is in its table:
\* the file is loaded again as it was.
ReloadForAnalyst(process) ==
    /\ memory' = [memory EXCEPT ![process] = Load(file)]
    /\ UNCHANGED <<file, proposal, history, job, begun, restarts, past, overlapped>>

Init ==
    /\ file = Holding(Defaults)
    /\ proposal = None
    /\ history = <<>>
    /\ memory = [process \in Processes |-> Defaults]
    /\ job = [t \in Threads |-> Idle]
    /\ begun = 0 /\ restarts = 0
    /\ past = {Defaults} /\ overlapped = FALSE

TunerStep(t) ==
    \/ BeginRun(t) \/ OpenProposal(t) \/ WriteProposal(t)
    \/ BeginApply(t) \/ ReadProposal(t) \/ CountBackups(t) \/ Backup(t)
    \/ OpenParams(t) \/ WriteParams(t) \/ Reload(t) \/ Unlink(t)
    \/ Reject(t)

Next ==
    \/ \E t \in Threads : TunerStep(t)
    \/ \E process \in Processes : Restart(process) \/ ReloadForAnalyst(process)

Spec == Init /\ [][Next]_vars

(***************************************************************************)
(* Properties                                                              *)
(***************************************************************************)

\* Parameters of a thread that has some are bounded too.
JobInBounds(t) == "params" \in DOMAIN job[t] => Valid(job[t].params)
InBounds(content) == Readable(content) => Valid(content.params)

\* The scorer never works with a parameter outside its bounds, nor does any file hold one,
\* whatever the order of runs, applies and restarts of the two processes.
ParamsInBounds ==
    /\ InBounds(file) /\ InBounds(proposal)
    /\ \A n \in DOMAIN history : InBounds(history[n])
    /\ \A process \in Processes : Valid(memory[process])
    /\ \A t \in Threads : JobInBounds(t)

\* As long as no two applies overlap, parameters that were in force are in the file or in
\* the history: a crash at any step of an apply loses none.
BackupBeforeReplace ==
    ~overlapped =>
        \A ps \in past : file = Holding(ps) \/ \E n \in DOMAIN history : history[n] = Holding(ps)
=============================================================================
