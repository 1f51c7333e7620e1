--------------------------- MODULE SignalParams_proofs ---------------------------
(***************************************************************************)
(* The scorer's parameters stay within their bounds, and an apply loses no *)
(* parameters, for all parameters, bounds, request threads and restarts.   *)
(***************************************************************************)
EXTENDS SignalParams, FiniteSetTheorems, TLAPS

ParamSets == [Params -> Nat]
Files == {Torn} \cup {Holding(ps) : ps \in ParamSets}

RunJobs == [op : {"run"}, step : {"open", "write"}, params : ParamSets]
ApplySteps == {"backup", "open", "write", "reload", "unlink"}
ApplyJobs == [op : {"apply"}, step : ApplySteps, params : ParamSets, number : Nat]
JobStates ==
    {Idle} \cup RunJobs \cup ApplyJobs
    \cup [op : {"apply"}, step : {"read"}]
    \cup [op : {"apply"}, step : {"count"}, params : ParamSets]

\* Every variable has its type; a backup has a number.
TunerTypes ==
    /\ file \in Files /\ proposal \in Files \cup {None}
    /\ DOMAIN history \subseteq Nat /\ IsFiniteSet(DOMAIN history)
    /\ history = [n \in DOMAIN history |-> history[n]]
    /\ \A n \in DOMAIN history : history[n] \in Files
    /\ memory \in [Processes -> ParamSets]
    /\ job \in [Threads -> JobStates]
    /\ past \subseteq ParamSets /\ overlapped \in BOOLEAN

-----------------------------------------------------------------------------
(* Files and what is made of them.                                         *)

LEMMA Contents_ ==
    /\ Torn # None
    /\ \A ps : Holding(ps) # Torn /\ Holding(ps) # None /\ Holding(ps).params = ps
    /\ \A ps, qs : Holding(ps) = Holding(qs) => ps = qs
<1>1. DOMAIN Torn = {"torn"} /\ DOMAIN None = {"none"} /\ \A ps : DOMAIN Holding(ps) = {"params"}
  BY DEF Torn, None, Holding
<1>2. \A ps : Holding(ps).params = ps
  BY DEF Holding
<1>3. "torn" # "none" /\ "params" # "torn" /\ "params" # "none"
  OBVIOUS
<1>4. QED
  BY <1>1, <1>2, <1>3

LEMMA ReadableHolds ==
    ASSUME NEW c \in Files \cup {None}
    PROVE  /\ Load(c) \in ParamSets
           /\ Readable(c) => c.params \in ParamSets /\ c = Holding(c.params)
           /\ InBounds(c) => Valid(Load(c))
<1>1. Defaults \in ParamSets /\ Valid(Defaults)
  BY ParamsAssumption DEF ParamSets
<1>2. Readable(c) => \E ps \in ParamSets : c = Holding(ps)
  BY DEF Files, Readable
<1>3. Readable(c) => c.params \in ParamSets /\ c = Holding(c.params)
  BY <1>2, Contents_
<1>4. QED
  BY <1>1, <1>3 DEF Load, InBounds

LEMMA AdjustedBounded ==
    ASSUME NEW p \in Params, NEW v \in Nat, NEW d \in {"increase", "decrease", "same"}
    PROVE  /\ Adjusted(p, v, d) \in Nat
           /\ Lo[p] <= v /\ v <= Hi[p] => Lo[p] <= Adjusted(p, v, d) /\ Adjusted(p, v, d) <= Hi[p]
<1>1. Lo[p] \in Nat /\ Hi[p] \in Nat /\ Lo[p] <= Hi[p]
  BY ParamsAssumption
<1>2. (v * 110) \div 100 \in Nat /\ (v * 90) \div 100 \in Nat
  OBVIOUS
<1> DEFINE w == IF d = "increase" THEN (v * 110) \div 100 ELSE (v * 90) \div 100
<1>3. w \in Nat
  BY <1>2
<1>4. Adjusted(p, v, d) = IF d = "same" THEN v ELSE Greatest(Lo[p], Least(Hi[p], w))
  BY DEF Adjusted
<1>5. Least(Hi[p], w) \in Nat /\ Least(Hi[p], w) <= Hi[p]
  <2> HIDE DEF w
  <2> QED BY <1>1, <1>3 DEF Least
<1>6. /\ Greatest(Lo[p], Least(Hi[p], w)) \in Nat
      /\ Lo[p] <= Greatest(Lo[p], Least(Hi[p], w)) /\ Greatest(Lo[p], Least(Hi[p], w)) <= Hi[p]
  <2> HIDE DEF w
  <2> QED BY <1>1, <1>5 DEF Greatest
<1>7. QED
  <2> HIDE DEF w
  <2> QED BY <1>4, <1>6

\* What a run proposes is within the bounds if what it read is.
LEMMA ProposedBounded ==
    ASSUME NEW ps \in ParamSets, NEW ds \in Directions
    PROVE  Proposed(ps, ds) \in ParamSets /\ (Valid(ps) => Valid(Proposed(ps, ds)))
<1>1. \A p \in Params : ps[p] \in Nat /\ ds[p] \in {"increase", "decrease", "same"}
  BY DEF ParamSets, Directions
<1>2. \A p \in Params : Adjusted(p, ps[p], ds[p]) \in Nat
  BY <1>1, AdjustedBounded
<1>3. Proposed(ps, ds) \in ParamSets
  BY <1>2 DEF Proposed, ParamSets
<1>4. ASSUME Valid(ps) PROVE Valid(Proposed(ps, ds))
  BY <1>1, <1>4, AdjustedBounded DEF Proposed, Valid
<1>5. QED
  BY <1>3, <1>4

-----------------------------------------------------------------------------
(* What a thread is at.                                                    *)

LEMMA JobKinds ==
    ASSUME NEW j \in JobStates, j # Idle
    PROVE  \/ j \in RunJobs /\ j.op = "run"
           \/ j \in [op : {"apply"}, step : {"read"}]
           \/ j \in [op : {"apply"}, step : {"count"}, params : ParamSets]
           \/ j \in ApplyJobs /\ j.op = "apply"
  BY DEF JobStates, RunJobs, ApplyJobs, ApplySteps

LEMMA RunGoesOn ==
    ASSUME NEW j \in RunJobs, NEW s \in {"open", "write"}
    PROVE  [j EXCEPT !.step = s] \in RunJobs
  BY DEF RunJobs

LEMMA ApplyGoesOn ==
    ASSUME NEW j \in ApplyJobs, NEW s \in ApplySteps
    PROVE  /\ [j EXCEPT !.step = s] \in ApplyJobs
           /\ [j EXCEPT !.step = s].params = j.params
           /\ [j EXCEPT !.step = s].number = j.number
           /\ [j EXCEPT !.step = s].step = s
  BY DEF ApplyJobs, ApplySteps

LEMMA JobSets ==
    /\ RunJobs \subseteq JobStates /\ ApplyJobs \subseteq JobStates /\ Idle \in JobStates
    /\ [op : {"apply"}, step : {"read"}] \subseteq JobStates
    /\ [op : {"apply"}, step : {"count"}, params : ParamSets] \subseteq JobStates
  BY DEF JobStates, RunJobs, ApplyJobs, ApplySteps
\* The step says what else a thread keeps.
LEMMA AtStep ==
    ASSUME TunerTypes, NEW t \in Threads
    PROVE  /\ job[t] \in JobStates
           /\ At(t, "run", "open") \/ At(t, "run", "write") => job[t] \in RunJobs
           /\ \A step \in ApplySteps : At(t, "apply", step) => job[t] \in ApplyJobs
           /\ At(t, "apply", "count") =>
                job[t] \in [op : {"apply"}, step : {"count"}, params : ParamSets]
<1>1. job[t] \in JobStates
  BY DEF TunerTypes
<1>2. QED
  BY <1>1, JobKinds DEF At, RunJobs, ApplyJobs, ApplySteps

LEMMA NextJob ==
    ASSUME TunerTypes, ParamsInBounds, NEW t \in Threads, NEW j \in JobStates,
           "params" \in DOMAIN j => Valid(j.params), job' = [job EXCEPT ![t] = j]
    PROVE  /\ job' \in [Threads -> JobStates]
           /\ \A u \in Threads : (JobInBounds(u))'
<1>1. job \in [Threads -> JobStates] /\ \A u \in Threads : JobInBounds(u)
  BY DEF TunerTypes, ParamsInBounds
<1>2. job' \in [Threads -> JobStates]
  BY <1>1
<1>3. \A u \in Threads : job'[u] = IF u = t THEN j ELSE job[u]
  BY <1>1
<1>4. \A u \in Threads : (JobInBounds(u))'
  BY <1>1, <1>3 DEF JobInBounds
<1>5. QED
  BY <1>2, <1>4

LEMMA JobDone ==
    ASSUME TunerTypes, ParamsInBounds, NEW t \in Threads, Done(t)
    PROVE  /\ job' \in [Threads -> JobStates]
           /\ \A u \in Threads : (JobInBounds(u))'
<1>1. Idle \in JobStates /\ "params" \notin DOMAIN Idle
  BY JobSets DEF Idle
<1>2. QED
  BY <1>1, NextJob DEF Done

LEMMA JobGoesOn ==
    ASSUME TunerTypes, ParamsInBounds, NEW t \in Threads, NEW s, Goto(t, s),
           \/ job[t] \in RunJobs /\ s \in {"open", "write"}
           \/ job[t] \in ApplyJobs /\ s \in ApplySteps
    PROVE  /\ job' \in [Threads -> JobStates]
           /\ \A u \in Threads : (JobInBounds(u))'
<1> DEFINE j == [job[t] EXCEPT !.step = s]
<1>1. job' = [job EXCEPT ![t] = j]
  BY DEF Goto
<1>2. JobInBounds(t)
  BY DEF ParamsInBounds
<1>3. CASE job[t] \in RunJobs /\ s \in {"open", "write"}
  <2>1. j \in RunJobs /\ j.params = job[t].params /\ "params" \in DOMAIN job[t]
    BY <1>3, RunGoesOn DEF RunJobs
  <2>2. j \in JobStates /\ Valid(j.params)
    BY <2>1, <1>2, JobSets DEF JobInBounds
  <2> HIDE DEF j
  <2>3. QED
    BY <1>1, <2>2, NextJob
<1>4. CASE job[t] \in ApplyJobs /\ s \in ApplySteps
  <2>1. j \in ApplyJobs /\ j.params = job[t].params
    BY <1>4, ApplyGoesOn
  <2>2. "params" \in DOMAIN job[t]
    BY <1>4 DEF ApplyJobs
  <2>3. j \in JobStates /\ Valid(j.params)
    BY <2>1, <2>2, <1>2, JobSets DEF JobInBounds
  <2> HIDE DEF j
  <2>4. QED
    BY <1>1, <2>3, NextJob
<1>5. QED
  BY <1>3, <1>4

-----------------------------------------------------------------------------
(* The files and the memories of a step that changes one of them.          *)

FilesTyped ==
    /\ file \in Files /\ proposal \in Files \cup {None}
    /\ DOMAIN history \subseteq Nat /\ IsFiniteSet(DOMAIN history)
    /\ history = [n \in DOMAIN history |-> history[n]]
    /\ \A n \in DOMAIN history : history[n] \in Files
    /\ memory \in [Processes -> ParamSets]
    /\ past \subseteq ParamSets /\ overlapped \in BOOLEAN

FilesBounded ==
    /\ InBounds(file) /\ InBounds(proposal)
    /\ \A n \in DOMAIN history : InBounds(history[n])
    /\ \A process \in Processes : Valid(memory[process])

LEMMA Parts ==
    /\ TunerTypes <=> FilesTyped /\ job \in [Threads -> JobStates]
    /\ ParamsInBounds <=> FilesBounded /\ \A t \in Threads : JobInBounds(t)
  BY DEF TunerTypes, FilesTyped, ParamsInBounds, FilesBounded

LEMMA HeldInBounds ==
    /\ Torn \in Files /\ InBounds(Torn) /\ InBounds(None)
    /\ \A ps \in ParamSets : Holding(ps) \in Files /\ (Valid(ps) => InBounds(Holding(ps)))
  BY Contents_ DEF Files, InBounds, Readable

LEMMA JobSteps ==
    ASSUME TunerTypes, ParamsInBounds, NEW t \in Threads, TunerStep(t)
    PROVE  /\ job' \in [Threads -> JobStates]
           /\ \A u \in Threads : (JobInBounds(u))'
<1>1. CASE BeginRun(t)
  <2>1. PICK directions \in Directions :
            job' = [job EXCEPT ![t] = [op |-> "run", step |-> "open",
                                       params |-> Proposed(Load(file), directions)]]
    BY <1>1 DEF BeginRun
  <2>2. Load(file) \in ParamSets /\ Valid(Load(file))
    BY ReadableHolds DEF TunerTypes, ParamsInBounds
  <2>3. Proposed(Load(file), directions) \in ParamSets /\ Valid(Proposed(Load(file), directions))
    BY <2>2, ProposedBounded
  <2> DEFINE j == [op |-> "run", step |-> "open", params |-> Proposed(Load(file), directions)]
  <2>4. j \in RunJobs /\ j.params = Proposed(Load(file), directions)
    BY <2>3 DEF RunJobs
  <2>5. j \in JobStates /\ Valid(j.params)
    BY <2>3, <2>4, JobSets
  <2>6. job' = [job EXCEPT ![t] = j]
    BY <2>1
  <2> HIDE DEF j
  <2>7. QED
    BY <2>5, <2>6, NextJob
<1>2. CASE OpenProposal(t)
  BY <1>2, AtStep, JobGoesOn DEF OpenProposal
<1>3. CASE WriteProposal(t) \/ Unlink(t)
  BY <1>3, JobDone DEF WriteProposal, Unlink
<1>4. CASE BeginApply(t)
  <2> DEFINE j == [op |-> "apply", step |-> "read"]
  <2>1. j \in JobStates /\ "params" \notin DOMAIN j
    BY JobSets
  <2>2. job' = [job EXCEPT ![t] = j]
    BY <1>4 DEF BeginApply
  <2> HIDE DEF j
  <2>3. QED
    BY <2>1, <2>2, NextJob
<1>5. CASE ReadProposal(t)
  <2>1. CASE ~Readable(proposal)
    BY <1>5, <2>1, JobDone DEF ReadProposal
  <2>2. CASE Readable(proposal)
    <3> DEFINE j == [op |-> "apply", step |-> "count", params |-> proposal.params]
    <3>1. proposal.params \in ParamSets /\ Valid(proposal.params)
      BY <2>2, ReadableHolds DEF TunerTypes, ParamsInBounds, InBounds
    <3>2. j \in JobStates /\ Valid(j.params)
      BY <3>1, JobSets
    <3>3. job' = [job EXCEPT ![t] = j]
      BY <1>5, <2>2 DEF ReadProposal
    <3> HIDE DEF j
    <3>4. QED
      BY <3>2, <3>3, NextJob
  <2>3. QED
    BY <2>1, <2>2
<1>6. CASE CountBackups(t)
  <2> DEFINE j == [op |-> "apply", step |-> "backup", params |-> job[t].params,
                   number |-> Cardinality(DOMAIN history) + 1]
  <2>1. /\ job[t] \in [op : {"apply"}, step : {"count"}, params : ParamSets]
        /\ job' = [job EXCEPT ![t] = j]
    BY <1>6, AtStep DEF CountBackups
  <2>2. job[t].params \in ParamSets /\ Valid(job[t].params)
    BY <2>1 DEF ParamsInBounds, JobInBounds
  <2>3. Cardinality(DOMAIN history) \in Nat
    BY FS_CardinalityType DEF TunerTypes
  <2>4. j \in ApplyJobs /\ Valid(j.params)
    BY <2>2, <2>3 DEF ApplyJobs, ApplySteps
  <2>5. j \in JobStates
    BY <2>4, JobSets
  <2> HIDE DEF j
  <2>6. QED
    BY <2>1, <2>4, <2>5, NextJob
<1>7. CASE Backup(t)
  BY <1>7, AtStep, JobGoesOn DEF Backup, ApplySteps
<1>8. CASE OpenParams(t)
  BY <1>8, AtStep, JobGoesOn DEF OpenParams, ApplySteps
<1>9. CASE WriteParams(t)
  BY <1>9, AtStep, JobGoesOn DEF WriteParams, ApplySteps
<1>10. CASE Reload(t)
  BY <1>10, AtStep, JobGoesOn DEF Reload, ApplySteps
<1>11. CASE Reject(t)
  BY <1>11 DEF Reject, TunerTypes, ParamsInBounds, JobInBounds
<1>12. QED
  BY <1>1, <1>2, <1>3, <1>4, <1>5, <1>6, <1>7, <1>8, <1>9, <1>10, <1>11 DEF TunerStep

LEMMA FileSteps ==
    ASSUME TunerTypes, ParamsInBounds, NEW t \in Threads, TunerStep(t)
    PROVE  FilesTyped' /\ FilesBounded'
<1> USE DEF TunerTypes, ParamsInBounds
<1>1. CASE \/ BeginRun(t) \/ BeginApply(t) \/ ReadProposal(t) \/ CountBackups(t)
  <2>1. /\ UNCHANGED <<file, proposal, history, memory, past>>
        /\ overlapped' \in BOOLEAN
    BY <1>1 DEF BeginRun, BeginApply, ReadProposal, CountBackups
  <2>2. QED
    BY <2>1 DEF FilesTyped, FilesBounded, InBounds, Valid
<1>2. CASE OpenProposal(t) \/ WriteProposal(t) \/ Unlink(t) \/ Reject(t)
  <2>1. /\ UNCHANGED <<file, history, memory, past, overlapped>>
        /\ proposal' \in Files \cup {None} /\ InBounds(proposal')
    <3>1. CASE WriteProposal(t)
      <4>1. job[t].params \in ParamSets /\ Valid(job[t].params)
        <5>1. job[t] \in RunJobs
          BY <3>1, AtStep DEF WriteProposal
        <5>2. "params" \in DOMAIN job[t] /\ job[t].params \in ParamSets
          BY <5>1 DEF RunJobs
        <5>3. QED
          BY <5>2 DEF JobInBounds
      <4>2. QED
        BY <3>1, <4>1, HeldInBounds DEF WriteProposal
    <3>2. CASE OpenProposal(t) \/ Unlink(t) \/ Reject(t)
      BY <3>2, HeldInBounds DEF OpenProposal, Unlink, Reject
    <3>3. QED
      BY <1>2, <3>1, <3>2
  <2>2. QED
    BY <2>1 DEF FilesTyped, FilesBounded, InBounds, Valid
<1>3. CASE Backup(t)
  <2> DEFINE k == job[t].number
  <2>1. k \in Nat
    BY <1>3, AtStep DEF Backup, ApplySteps, ApplyJobs
  <2>2. /\ history' = [n \in DOMAIN history \cup {k} |-> IF n = k THEN file ELSE history[n]]
        /\ UNCHANGED <<file, proposal, memory, past, overlapped>>
    BY <1>3 DEF Backup
  <2> HIDE DEF k
  <2>3. DOMAIN history' = DOMAIN history \cup {k} /\ IsFiniteSet(DOMAIN history \cup {k})
    BY <2>2, FS_AddElement
  <2>4. \A n \in DOMAIN history' : history'[n] \in Files /\ InBounds(history'[n])
    BY <2>2, <2>3
  <2>5. history' = [n \in DOMAIN history' |-> history'[n]]
    BY <2>2, <2>3
  <2>6. QED
    BY <2>1, <2>2, <2>3, <2>4, <2>5 DEF FilesTyped, FilesBounded, InBounds, Valid
<1>4. CASE OpenParams(t) \/ WriteParams(t)
  <2>1. /\ UNCHANGED <<proposal, history, memory, overlapped>>
        /\ file' \in Files /\ InBounds(file') /\ past' \subseteq ParamSets
    <3>1. CASE WriteParams(t)
      <4>1. job[t].params \in ParamSets /\ Valid(job[t].params)
        <5>1. job[t] \in ApplyJobs
          BY <3>1, AtStep DEF WriteParams, ApplySteps
        <5>2. "params" \in DOMAIN job[t] /\ job[t].params \in ParamSets
          BY <5>1 DEF ApplyJobs
        <5>3. QED
          BY <5>2 DEF JobInBounds
      <4>2. QED
        BY <3>1, <4>1, HeldInBounds DEF WriteParams
    <3>2. CASE OpenParams(t)
      BY <3>2, HeldInBounds DEF OpenParams
    <3>3. QED
      BY <1>4, <3>1, <3>2
  <2>2. QED
    BY <2>1 DEF FilesTyped, FilesBounded, InBounds, Valid
<1>5. CASE Reload(t)
  <2>1. Load(file) \in ParamSets /\ Valid(Load(file))
    BY ReadableHolds
  <2>2. /\ UNCHANGED <<file, proposal, history, past, overlapped>>
        /\ memory' = [memory EXCEPT ![ProcessOf(t)] = Load(file)]
    BY <1>5 DEF Reload
  <2>3. \A process \in Processes : memory'[process] \in ParamSets /\ Valid(memory'[process])
    BY <2>1, <2>2
  <2>4. memory' \in [Processes -> ParamSets]
    BY <2>2, <2>3
  <2>5. QED
    BY <2>2, <2>3, <2>4 DEF FilesTyped, FilesBounded, InBounds, Valid
<1>6. QED
  BY <1>1, <1>2, <1>3, <1>4, <1>5 DEF TunerStep

LEMMA ReloadBounded ==
    ASSUME TunerTypes, ParamsInBounds, NEW process \in Processes,
           memory' = [memory EXCEPT ![process] = Load(file)],
           UNCHANGED <<file, proposal, history, past, overlapped>>
    PROVE  FilesTyped' /\ FilesBounded'
<1> USE DEF TunerTypes, ParamsInBounds
<1>1. Load(file) \in ParamSets /\ Valid(Load(file))
  BY ReadableHolds
<1>2. \A q \in Processes : memory'[q] \in ParamSets /\ Valid(memory'[q])
  BY <1>1
<1>3. memory' \in [Processes -> ParamSets]
  BY <1>2
<1>4. QED
  BY <1>2, <1>3 DEF FilesTyped, FilesBounded, InBounds, Valid

LEMMA BoundsStep ==
    ASSUME TunerTypes, ParamsInBounds, [Next]_vars
    PROVE  TunerTypes' /\ ParamsInBounds'
<1>1. CASE \E t \in Threads : TunerStep(t)
  <2>1. PICK t \in Threads : TunerStep(t)
    BY <1>1
  <2>2. QED
    BY <2>1, JobSteps, FileSteps DEF TunerTypes, FilesTyped, ParamsInBounds, FilesBounded
<1>2. ASSUME NEW process \in Processes, Restart(process)
      PROVE  TunerTypes' /\ ParamsInBounds'
  <2>1. FilesTyped' /\ FilesBounded'
    BY <1>2, ReloadBounded DEF Restart
  <2>2. job' = [t \in Threads |-> IF ProcessOf(t) = process THEN Idle ELSE job[t]]
    BY <1>2 DEF Restart
  <2>3. Idle \in JobStates /\ "params" \notin DOMAIN Idle
    BY JobSets DEF Idle
  <2>4. job' \in [Threads -> JobStates] /\ \A t \in Threads : (JobInBounds(t))'
    BY <2>2, <2>3 DEF TunerTypes, ParamsInBounds, JobInBounds
  <2>5. QED
    BY <2>1, <2>4 DEF TunerTypes, FilesTyped, ParamsInBounds, FilesBounded
<1>3. ASSUME NEW process \in Processes, ReloadForAnalyst(process)
      PROVE  TunerTypes' /\ ParamsInBounds'
  <2>1. FilesTyped' /\ FilesBounded' /\ UNCHANGED job
    BY <1>3, ReloadBounded DEF ReloadForAnalyst
  <2>2. job' \in [Threads -> JobStates] /\ \A t \in Threads : (JobInBounds(t))'
    BY <2>1 DEF TunerTypes, ParamsInBounds, JobInBounds
  <2>3. QED
    BY <2>1, <2>2 DEF TunerTypes, FilesTyped, ParamsInBounds, FilesBounded
<1>4. CASE UNCHANGED vars
  BY <1>4 DEF vars, TunerTypes, ParamsInBounds, InBounds, JobInBounds, Valid
<1>5. QED
  BY <1>1, <1>2, <1>3, <1>4 DEF Next

LEMMA BoundsInit == Init => TunerTypes /\ ParamsInBounds
<1> SUFFICES ASSUME Init PROVE TunerTypes /\ ParamsInBounds
  OBVIOUS
<1>1. Defaults \in ParamSets /\ Valid(Defaults)
  BY ParamsAssumption DEF ParamSets
<1>2. Holding(Defaults) \in Files /\ InBounds(Holding(Defaults)) /\ InBounds(None)
  BY <1>1, HeldInBounds
<1>3. DOMAIN history = {} /\ IsFiniteSet({})
  BY FS_EmptySet DEF Init
<1>4. history = [n \in DOMAIN history |-> history[n]]
  BY DEF Init
<1>5. Idle \in JobStates /\ "params" \notin DOMAIN Idle
  BY JobSets DEF Idle
<1>6. QED
  BY <1>1, <1>2, <1>3, <1>4, <1>5 DEF Init, TunerTypes, ParamsInBounds, JobInBounds

\* The scorer, the files and what the threads are about to write stay within the bounds.
THEOREM BoundsKept == Spec => [](TunerTypes /\ ParamsInBounds)
<1>1. Init => TunerTypes /\ ParamsInBounds
  BY BoundsInit
<1>2. TunerTypes /\ ParamsInBounds /\ [Next]_vars => TunerTypes' /\ ParamsInBounds'
  BY BoundsStep
<1>3. QED
  BY <1>1, <1>2, PTL DEF Spec

-----------------------------------------------------------------------------
(* An apply loses no parameters.                                           *)

Saved == \A ps \in past : \E n \in DOMAIN history : history[n] = Holding(ps)
Replacing(t) == At(t, "apply", "open") \/ At(t, "apply", "write")

\* While no two applies overlap: backups are numbered from 1, the next one takes a new number,
\* and whoever has truncated the file, or is about to, has left all of the past in backups.
Backed ==
    /\ \A t, u \in Applying : t = u
    /\ \E k \in Nat : DOMAIN history = 1 .. k
    /\ \A t \in Threads :
          At(t, "apply", "backup") => job[t].number = Cardinality(DOMAIN history) + 1
    /\ \A ps \in past : file = Holding(ps) \/ \E n \in DOMAIN history : history[n] = Holding(ps)
    /\ \A t \in Threads : Replacing(t) => Saved

BackupInv == ~overlapped => Backed

LEMMA NextNumber ==
    ASSUME NEW k \in Nat, DOMAIN history = 1 .. k
    PROVE  Cardinality(DOMAIN history) + 1 = k + 1 /\ k + 1 \notin DOMAIN history
<1>1. Cardinality(1 .. k) = k
  <2>1. Cardinality(1 .. k) = IF 1 > k THEN 0 ELSE k - 1 + 1
    BY FS_Interval
  <2>2. QED
    BY <2>1
<1>2. QED
  BY <1>1

\* Who is at the step of an apply is applying.
LEMMA AtApplying ==
    ASSUME NEW t \in Threads, NEW step, At(t, "apply", step)
    PROVE  t \in Applying
  BY DEF At, Applying

\* Steps that leave the files alone: nobody begins an apply or to replace the file.
LEMMA SameFiles ==
    ASSUME Backed, UNCHANGED <<file, history, past>>,
           \A t \in Threads : (t \in Applying)' => t \in Applying,
           \A t \in Threads : Replacing(t)' => Replacing(t),
           \A t \in Threads : At(t, "apply", "backup")' =>
               \/ job'[t].number = Cardinality(DOMAIN history) + 1
               \/ At(t, "apply", "backup") /\ job'[t].number = job[t].number
    PROVE  Backed'
<1>1. \A t, u \in Applying' : t = u
  BY DEF Backed, Applying
<1>2. Saved' <=> Saved
  BY DEF Saved
<1>3. \A t \in Threads : Replacing(t)' => Saved'
  BY <1>2 DEF Backed
<1>4. \A t \in Threads :
          At(t, "apply", "backup")' => job'[t].number = Cardinality(DOMAIN history') + 1
  BY DEF Backed
<1>5. /\ \E k \in Nat : DOMAIN history' = 1 .. k
      /\ \A ps \in past' : file' = Holding(ps) \/ \E n \in DOMAIN history' : history'[n] = Holding(ps)
  BY DEF Backed
<1>6. QED
  BY <1>1, <1>3, <1>4, <1>5 DEF Backed, Replacing, At

\* What a step of thread t makes of the jobs.
LEMMA JobsAfter ==
    ASSUME TunerTypes, NEW t \in Threads, TunerStep(t)
    PROVE  /\ \A u \in Threads : u # t => job'[u] = job[u]
           /\ BeginRun(t) \/ OpenProposal(t) \/ WriteProposal(t) \/ Unlink(t) \/ Reject(t) =>
                t \notin Applying'
           /\ BeginApply(t) => job'[t].step = "read" /\ job'[t].op = "apply" /\ t \notin Applying
           /\ ReadProposal(t) =>
                t \in Applying /\ (t \notin Applying' \/ job'[t].step = "count")
           /\ CountBackups(t) => /\ t \in Applying /\ job'[t].step = "backup"
                                 /\ job'[t].number = Cardinality(DOMAIN history) + 1
           /\ Backup(t) => t \in Applying /\ job'[t].step = "open"
           /\ OpenParams(t) => t \in Applying /\ job'[t].step = "write"
           /\ WriteParams(t) => t \in Applying /\ job'[t].step = "reload"
           /\ Reload(t) => t \in Applying /\ job'[t].step = "unlink"
<1>1. job \in [Threads -> JobStates]
  BY DEF TunerTypes
<1>2. \A u \in Threads : u # t => job'[u] = job[u]
  BY <1>1 DEF TunerStep, BeginRun, OpenProposal, WriteProposal, BeginApply, ReadProposal,
     CountBackups, Backup, OpenParams, WriteParams, Reload, Unlink, Reject, Goto, Done
<1>3. BeginRun(t) \/ OpenProposal(t) => t \notin Applying'
  <2>1. CASE BeginRun(t)
    <3>1. job'[t].op = "run"
      BY <1>1, <2>1 DEF BeginRun
    <3>2. QED
      BY <3>1 DEF Applying
  <2>2. CASE OpenProposal(t)
    <3>1. job[t] \in RunJobs /\ job'[t] = [job[t] EXCEPT !.step = "write"]
      BY <1>1, <2>2, AtStep DEF OpenProposal, Goto
    <3>2. job'[t] \in RunJobs
      BY <3>1, RunGoesOn
    <3>3. QED
      BY <3>2 DEF RunJobs, Applying
  <2>3. QED
    BY <2>1, <2>2
<1>4. WriteProposal(t) \/ Unlink(t) => t \notin Applying'
  BY <1>1 DEF WriteProposal, Unlink, Done, Applying
<1>5. Reject(t) => t \notin Applying'
  BY DEF Reject, Applying
<1>6. BeginApply(t) => job'[t].step = "read" /\ job'[t].op = "apply" /\ t \notin Applying
  BY <1>1 DEF BeginApply, Applying
<1>7. ReadProposal(t) => t \in Applying /\ (t \notin Applying' \/ job'[t].step = "count")
  BY <1>1 DEF ReadProposal, Done, Applying, At
<1>8. CountBackups(t) => /\ t \in Applying /\ job'[t].step = "backup"
                         /\ job'[t].number = Cardinality(DOMAIN history) + 1
  BY <1>1 DEF CountBackups, Applying, At
<1>9. \A step, next \in ApplySteps :
        At(t, "apply", step) /\ Goto(t, next) => t \in Applying /\ job'[t].step = next
  <2>1. SUFFICES ASSUME NEW step \in ApplySteps, NEW next \in ApplySteps, At(t, "apply", step), Goto(t, next)
                 PROVE  t \in Applying /\ job'[t].step = next
    OBVIOUS
  <2>2. job[t] \in ApplyJobs /\ job'[t] = [job[t] EXCEPT !.step = next]
    BY <1>1, <2>1, AtStep DEF Goto
  <2>3. QED
    BY <2>1, <2>2, ApplyGoesOn, AtApplying
<1>10. /\ Backup(t) => t \in Applying /\ job'[t].step = "open"
       /\ OpenParams(t) => t \in Applying /\ job'[t].step = "write"
       /\ WriteParams(t) => t \in Applying /\ job'[t].step = "reload"
       /\ Reload(t) => t \in Applying /\ job'[t].step = "unlink"
  BY <1>9 DEF Backup, OpenParams, WriteParams, Reload, ApplySteps
<1>11. QED
  BY <1>2, <1>3, <1>4, <1>5, <1>6, <1>7, <1>8, <1>10

LEMMA BackupStep ==
    ASSUME TunerTypes, BackupInv, NEW t \in Threads, TunerStep(t), ~overlapped'
    PROVE  Backed'
<1>1. ~overlapped /\ (BeginApply(t) => Applying = {})
  BY DEF TunerStep, BeginRun, OpenProposal, WriteProposal, BeginApply, ReadProposal,
     CountBackups, Backup, OpenParams, WriteParams, Reload, Unlink, Reject, TunerTypes
<1>2. Backed
  BY <1>1 DEF BackupInv
<1>3. \A u \in Threads : u # t =>
          /\ u \in Applying' <=> u \in Applying
          /\ Replacing(u)' <=> Replacing(u)
          /\ At(u, "apply", "backup")' => At(u, "apply", "backup") /\ job'[u].number = job[u].number
  BY JobsAfter DEF Applying, Replacing, At
<1>4. CASE \/ BeginRun(t) \/ OpenProposal(t) \/ WriteProposal(t) \/ Unlink(t) \/ Reject(t)
           \/ ReadProposal(t) \/ CountBackups(t) \/ Reload(t)
  <2>1. UNCHANGED <<file, history, past>>
    BY <1>4 DEF BeginRun, OpenProposal, WriteProposal, Unlink, Reject, ReadProposal, CountBackups, Reload
  <2>2. /\ t \in Applying' => t \in Applying
        /\ ~Replacing(t)'
        /\ At(t, "apply", "backup")' => job'[t].number = Cardinality(DOMAIN history) + 1
    BY <1>4, JobsAfter DEF Applying, Replacing, At
  <2>3. QED
    BY <1>2, <1>3, <2>1, <2>2, SameFiles
<1>5. CASE BeginApply(t)
  <2>1. UNCHANGED <<file, history, past>> /\ Applying = {}
    BY <1>1, <1>5 DEF BeginApply
  <2>2. ~Replacing(t)' /\ ~At(t, "apply", "backup")'
    BY <1>5, JobsAfter DEF Replacing, At
  <2>3. \A u \in Applying' : u = t
    BY <1>3, <2>1 DEF Applying
  <2>4. \A u \in Threads : ~Replacing(u)' /\ ~At(u, "apply", "backup")'
    BY <1>3, <2>1, <2>2, AtApplying DEF Replacing
  <2>5. /\ \E k \in Nat : DOMAIN history' = 1 .. k
        /\ \A ps \in past' : file' = Holding(ps) \/ \E n \in DOMAIN history' : history'[n] = Holding(ps)
    BY <1>2, <2>1 DEF Backed
  <2>6. QED
    BY <2>3, <2>4, <2>5 DEF Backed, Replacing, At
<1>6. ASSUME Backup(t) \/ OpenParams(t) \/ WriteParams(t)
      PROVE  /\ t \in Applying /\ ~At(t, "apply", "backup")'
             /\ \A u \in Applying' : u = t
             /\ \A u \in Threads : u # t => ~Replacing(u)' /\ ~At(u, "apply", "backup")'
  <2>1. t \in Applying /\ ~At(t, "apply", "backup")'
    BY <1>6, JobsAfter DEF At
  <2>2. \A u \in Threads : u # t => u \notin Applying
    BY <1>2, <2>1 DEF Backed
  <2>3. \A u \in Threads : u # t => u \notin Applying' /\ ~Replacing(u)' /\ ~At(u, "apply", "backup")'
    BY <1>3, <2>2, AtApplying DEF Replacing
  <2>4. \A u \in Applying' : u \in Threads
    BY DEF Applying
  <2>5. QED
    BY <2>1, <2>3, <2>4
<1>7. CASE Backup(t)
  <2>1. PICK k \in Nat : DOMAIN history = 1 .. k
    BY <1>2 DEF Backed
  <2>2. job[t].number = k + 1 /\ k + 1 \notin DOMAIN history
    BY <1>2, <1>7, <2>1, NextNumber DEF Backed, Backup
  <2>3. /\ UNCHANGED <<file, past>>
        /\ history' = [n \in DOMAIN history \cup {k + 1} |-> IF n = k + 1 THEN file ELSE history[n]]
    BY <1>7, <2>2 DEF Backup
  <2>4. DOMAIN history' = 1 .. (k + 1)
    BY <2>1, <2>3
  <2>5. \A n \in DOMAIN history : n \in DOMAIN history' /\ history'[n] = history[n]
    BY <2>2, <2>3
  <2>6. k + 1 \in DOMAIN history' /\ history'[k + 1] = file
    BY <2>3
  <2>7. Saved'
    <3>1. SUFFICES ASSUME NEW ps \in past
                   PROVE  \E n \in DOMAIN history' : history'[n] = Holding(ps)
      BY <2>3 DEF Saved
    <3>2. file = Holding(ps) \/ \E n \in DOMAIN history : history[n] = Holding(ps)
      BY <1>2 DEF Backed
    <3>3. QED
      BY <2>5, <2>6, <3>2
  <2>8. k + 1 \in Nat
    BY <2>1
  <2>9. QED
    BY <1>6, <1>7, <2>4, <2>7, <2>8 DEF Backed, Saved, Replacing, At
<1>8. CASE OpenParams(t)
  <2>1. UNCHANGED <<history, past>> /\ Replacing(t)
    BY <1>8 DEF OpenParams, Replacing
  <2>2. Saved'
    BY <1>2, <2>1 DEF Backed, Saved
  <2>3. \E k \in Nat : DOMAIN history' = 1 .. k
    BY <1>2, <2>1 DEF Backed
  <2>4. QED
    BY <1>6, <1>8, <2>2, <2>3 DEF Backed, Saved, Replacing, At
<1>9. CASE WriteParams(t)
  <2>1. At(t, "apply", "write") /\ Saved
    BY <1>2, <1>9 DEF WriteParams, Backed, Replacing
  <2>2. Writing("apply", "write") = {t}
    BY <1>2, <2>1, AtApplying DEF Backed, Writing
  <2>3. /\ file' = Holding(job[t].params) /\ past' = past \cup {job[t].params}
        /\ UNCHANGED history
    BY <1>9, <2>2 DEF WriteParams
  <2>4. \A ps \in past' : file' = Holding(ps) \/ \E n \in DOMAIN history' : history'[n] = Holding(ps)
    BY <2>1, <2>3 DEF Saved
  <2>5. ~Replacing(t)'
    BY <1>9, JobsAfter DEF Replacing, At
  <2>6. \E k \in Nat : DOMAIN history' = 1 .. k
    BY <1>2, <2>3 DEF Backed
  <2>7. QED
    BY <1>6, <1>9, <2>4, <2>5, <2>6 DEF Backed, Replacing, At
<1>10. QED
  BY <1>4, <1>5, <1>7, <1>8, <1>9 DEF TunerStep

LEMMA BackupNext ==
    ASSUME TunerTypes, BackupInv, [Next]_vars
    PROVE  BackupInv'
<1>1. SUFFICES ASSUME ~overlapped' PROVE Backed'
  BY DEF BackupInv
<1>2. CASE \E t \in Threads : TunerStep(t)
  BY <1>1, <1>2, BackupStep
<1>3. ASSUME NEW process \in Processes, Restart(process)
      PROVE  Backed'
  <2>1. /\ Backed /\ UNCHANGED <<file, history, past>>
        /\ job' = [t \in Threads |-> IF ProcessOf(t) = process THEN Idle ELSE job[t]]
    BY <1>1, <1>3 DEF Restart, BackupInv
  <2>2. \A t \in Threads : job'[t] = Idle \/ job'[t] = job[t]
    BY <2>1
  <2>3. QED
    BY <2>1, <2>2, SameFiles DEF Applying, Replacing, At
<1>4. CASE UNCHANGED vars \/ \E process \in Processes : ReloadForAnalyst(process)
  <2>1. Backed /\ UNCHANGED <<file, history, past, job>>
    BY <1>1, <1>4 DEF ReloadForAnalyst, BackupInv, vars
  <2>2. QED
    BY <2>1, SameFiles DEF Applying, Replacing, At
<1>5. QED
  BY <1>2, <1>3, <1>4 DEF Next

LEMMA BackupInit == Init => BackupInv
<1> SUFFICES ASSUME Init PROVE Backed
  BY DEF BackupInv
<1>1. DOMAIN history = 1 .. 0
  BY DEF Init
<1>2. \A t \in Threads : job[t] = Idle
  BY DEF Init
<1>3. past = {Defaults} /\ file = Holding(Defaults)
  BY DEF Init
<1>4. 0 \in Nat
  OBVIOUS
<1>5. QED
  BY <1>1, <1>2, <1>3, <1>4 DEF Backed, Applying, Replacing, At

\* Parameters that were in force are in the file or in a backup, wherever an apply is cut off,
\* as long as no two applies overlap.
THEOREM BackupsKept == Spec => []BackupBeforeReplace
<1>1. Init => TunerTypes /\ ParamsInBounds /\ BackupInv
  BY BoundsInit, BackupInit
<1>2. TunerTypes /\ ParamsInBounds /\ BackupInv /\ [Next]_vars
        => TunerTypes' /\ ParamsInBounds' /\ BackupInv'
  BY BoundsStep, BackupNext
<1>3. BackupInv => BackupBeforeReplace
  BY DEF BackupInv, Backed, BackupBeforeReplace
<1>4. QED
  BY <1>1, <1>2, <1>3, PTL DEF Spec
=============================================================================
