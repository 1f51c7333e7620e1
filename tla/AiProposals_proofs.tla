--------------------------- MODULE AiProposals_proofs ---------------------------
(***************************************************************************)
(* What is decided about a proposal holds, no scheduled analysis begins    *)
(* before its last proposal is decided, and the month's counter follows    *)
(* the answers, for all parameters, answers of the model, request threads, *)
(* failures and restarts.                                                  *)
(***************************************************************************)
EXTENDS AiProposals, FiniteSetTheorems, TLAPS

Scheduled == {"loop", "scanner"}
Proposal == [status : {"pending", "applied", "rejected"}, by : {"loop", "scanner", "request"},
             params : [Params -> Nat], timer : {"set", "due", "none"}]
Version == [params : [Params -> Nat], from : Nat]

\* A thread that neither calls the analyst nor commits a decision, and applies what is due
\* only when it is a scheduled one.
Quiet(t, j) ==
    "step" \in DOMAIN j => j.step # "call" /\ j.step # "commit" /\ (j.step = "due" => t \in Scheduled)

PendingOf(a) == {i \in Pending : proposals[i].by = a}

\* A scheduled analysis that is about to propose has no proposal pending.
CallOk(t) ==
    /\ At(t, "call") => job[t].by = "request" \/ (job[t].by = t /\ t \in Scheduled /\ PendingOf(t) = {})
    /\ At(t, "due") => t \in Scheduled

CommitOk(t) ==
    At(t, "commit") => /\ job[t].id \in Ids /\ job[t].verdict \in {"applied", "rejected"}
                       /\ Quiet(t, job[t].next)

Tables ==
    /\ job = [t \in Threads |-> job[t]]
    /\ proposals \in Seq(Proposal) /\ versions \in Seq(Version)
    /\ \A n \in DOMAIN versions : versions[n].from \in 0 .. Len(proposals)

OnePending == \A a \in Scheduled : \A i, k \in PendingOf(a) : i = k

\* As long as nobody raced: who commits has a proposal that is pending, and has it alone; a
\* proposal that is applied is in the table once, any other is not.
Deciders ==
    ~raced => /\ \A t \in Threads : At(t, "commit") => job[t].id \in Pending
              /\ \A t, u \in Threads : At(t, "commit") /\ At(u, "commit") /\ t # u => job[t].id # job[u].id

VersionsOf(i) == {n \in 1 .. Len(versions) : versions[n].from = i}
Recorded(i) == IF proposals[i].status = "applied" THEN \E n : VersionsOf(i) = {n} ELSE VersionsOf(i) = {}

AiInv ==
    /\ Tables /\ OnePending /\ Deciders
    /\ \A t \in Threads : CallOk(t) /\ CommitOk(t)
    /\ ~raced => \A i \in Ids : Recorded(i)

-----------------------------------------------------------------------------
(* Threads.                                                                *)

LEMMA IdleQuiet == \A t : Quiet(t, Idle)
  BY DEF Idle, Quiet

LEMMA NextJob ==
    ASSUME Tables, NEW t \in Threads, NEW j, job' = [job EXCEPT ![t] = j]
    PROVE  /\ job' = [u \in Threads |-> job'[u]] /\ job'[t] = j
           /\ \A u \in Threads : u # t => job'[u] = job[u]
  BY DEF Tables

\* Threads that become quiet, and tables that stay as they are.
LEMMA AiQuiet ==
    ASSUME AiInv, proposals' = proposals, versions' = versions, raced => raced',
           job' = [t \in Threads |-> job'[t]],
           \A t \in Threads : job'[t] = job[t] \/ Quiet(t, job'[t])
    PROVE  AiInv'
<1>1. Tables' /\ OnePending'
  BY DEF AiInv, Tables, OnePending, PendingOf, Pending, Ids
<1>2. Pending' = Pending /\ Ids' = Ids /\ \A a : PendingOf(a)' = PendingOf(a)
  BY DEF Pending, Ids, PendingOf
<1>3. \A t \in Threads : CallOk(t)' /\ CommitOk(t)'
  BY <1>2 DEF AiInv, CallOk, CommitOk, At, Quiet
<1>4. \A t \in Threads : At(t, "commit")' => At(t, "commit") /\ job'[t] = job[t]
  BY DEF At, Quiet
<1>5. Deciders'
  BY <1>2, <1>4 DEF AiInv, Deciders
<1>6. ~raced' => \A i \in Ids' : Recorded(i)'
  BY <1>2 DEF AiInv, Recorded, VersionsOf
<1>7. QED
  BY <1>1, <1>3, <1>5, <1>6 DEF AiInv

LEMMA AiGoesOn ==
    ASSUME AiInv, NEW t \in Threads, NEW j, Quiet(t, j), job' = [job EXCEPT ![t] = j],
           proposals' = proposals, versions' = versions, raced => raced'
    PROVE  AiInv'
<1>1. /\ job' = [u \in Threads |-> job'[u]] /\ job'[t] = j
      /\ \A u \in Threads : u # t => job'[u] = job[u]
  BY NextJob DEF AiInv
<1>2. QED
  BY <1>1, AiQuiet

LEMMA AiDecide ==
    ASSUME AiInv, NEW t \in Threads, ~At(t, "commit"), NEW id, NEW verdict \in {"applied", "rejected"},
           NEW next, Quiet(t, next), Decide(t, id, verdict, next)
    PROVE  AiInv'
<1> DEFINE c == [step |-> "commit", id |-> id, verdict |-> verdict, next |-> next]
<1>1. /\ proposals' = proposals /\ versions' = versions
      /\ job' = [job EXCEPT ![t] = IF id \in Pending THEN c ELSE next]
      /\ raced' = (raced \/ (id \in Pending /\ Deciding(id) # {}))
  BY DEF Decide, vars_tables
<1>2. /\ c.step = "commit" /\ c.id = id /\ c.verdict = verdict /\ c.next = next /\ "step" \in DOMAIN c
  OBVIOUS
<1> HIDE DEF c
<1>3. CASE id \notin Pending
  BY <1>1, <1>3, AiGoesOn
<1>4. CASE id \in Pending
  <2>1. job' = [job EXCEPT ![t] = c]
    BY <1>1, <1>4
  <2>2. /\ job' = [u \in Threads |-> job'[u]] /\ job'[t] = c
        /\ \A u \in Threads : u # t => job'[u] = job[u]
    BY <2>1, NextJob DEF AiInv
  <2>3. /\ Pending' = Pending /\ Ids' = Ids /\ Pending \subseteq Ids
        /\ \A a : PendingOf(a)' = PendingOf(a)
    BY <1>1 DEF Pending, Ids, PendingOf
  <2>4. Tables' /\ OnePending'
    BY <1>1, <2>2, <2>3 DEF AiInv, Tables, OnePending
  <2>5. CallOk(t)' /\ CommitOk(t)'
    BY <1>2, <1>4, <2>2, <2>3 DEF CallOk, CommitOk, At
  <2>6. ASSUME NEW u \in Threads, u # t PROVE CallOk(u)' /\ CommitOk(u)'
    <3>1. CallOk(u) /\ CommitOk(u) /\ job'[u] = job[u]
      BY <2>2, <2>6 DEF AiInv
    <3>2. QED
      BY <2>3, <3>1 DEF CallOk, CommitOk, At
  <2>7. ASSUME ~raced' PROVE ~raced /\ \A u \in Threads : At(u, "commit") => job[u].id # id
    BY <1>1, <1>4, <2>7 DEF Deciding
  <2>8. Deciders'
    <3> SUFFICES ASSUME ~raced'
                 PROVE  /\ \A u \in Threads : At(u, "commit")' => job'[u].id \in Pending
                        /\ \A u, v \in Threads :
                              At(u, "commit")' /\ At(v, "commit")' /\ u # v => job'[u].id # job'[v].id
      BY <2>3 DEF Deciders
    <3>1. \A u \in Threads : u # t => (At(u, "commit")' <=> At(u, "commit")) /\ job'[u] = job[u]
      BY <2>2 DEF At
    <3>2. job'[t].id = id
      BY <1>2, <2>2
    <3>3. QED
      BY <1>4, <2>7, <3>1, <3>2 DEF AiInv, Deciders
  <2>9. ~raced' => \A i \in Ids' : Recorded(i)'
    BY <1>1, <2>3, <2>7 DEF AiInv, Recorded, VersionsOf
  <2>10. QED
    BY <2>4, <2>5, <2>6, <2>8, <2>9 DEF AiInv
<1>5. QED
  BY <1>3, <1>4

\* A call of the analyst, which a scheduled analysis begins with nothing pending.
LEMMA AiEnter ==
    ASSUME AiInv, NEW t \in Threads, NEW by, Enter(t, by),
           by = "request" \/ (by = t /\ t \in Scheduled /\ Pending = {})
    PROVE  AiInv'
<1> DEFINE c == [step |-> "call", by |-> by, current |-> Latest]
<1>1. /\ proposals' = proposals /\ versions' = versions /\ raced' = raced
      /\ job' = [job EXCEPT ![t] = c]
  BY DEF Enter, vars_tables
<1>2. c.step = "call" /\ c.by = by
  OBVIOUS
<1> HIDE DEF c
<1>3. /\ job' = [u \in Threads |-> job'[u]] /\ job'[t] = c
      /\ \A u \in Threads : u # t => job'[u] = job[u]
  BY <1>1, NextJob DEF AiInv
<1>4. /\ Pending' = Pending /\ Ids' = Ids /\ \A a : PendingOf(a)' = PendingOf(a)
  BY <1>1 DEF Pending, Ids, PendingOf
<1>5. Tables' /\ OnePending'
  BY <1>1, <1>3, <1>4 DEF AiInv, Tables, OnePending
<1>6. CallOk(t)' /\ CommitOk(t)'
  <2>1. Pending = {} => PendingOf(t) = {}
    BY DEF PendingOf
  <2>2. QED
    BY <1>2, <1>3, <1>4, <2>1 DEF CallOk, CommitOk, At
<1>7. ASSUME NEW u \in Threads, u # t PROVE CallOk(u)' /\ CommitOk(u)'
  <2>1. CallOk(u) /\ CommitOk(u) /\ job'[u] = job[u]
    BY <1>3, <1>7 DEF AiInv
  <2>2. QED
    BY <1>4, <2>1 DEF CallOk, CommitOk, At
<1>8. \A u \in Threads : At(u, "commit")' => At(u, "commit") /\ job'[u] = job[u]
  BY <1>2, <1>3 DEF At
<1>9. Deciders'
  BY <1>1, <1>4, <1>8 DEF AiInv, Deciders
<1>10. ~raced' => \A i \in Ids' : Recorded(i)'
  BY <1>1, <1>4 DEF AiInv, Recorded, VersionsOf
<1>11. QED
  BY <1>5, <1>6, <1>7, <1>9, <1>10 DEF AiInv

\* A proposal that is added.
LEMMA AiPropose ==
    ASSUME AiInv, NEW t \in Threads, At(t, "call"), NEW j, Quiet(t, j), job' = [job EXCEPT ![t] = j],
           NEW new \in Proposal, new.status = "pending", new.by = job[t].by,
           proposals' = Append(proposals, new), versions' = versions, raced' = raced
    PROVE  AiInv'
<1> DEFINE n == Len(proposals) + 1
<1>1. proposals \in Seq(Proposal) /\ Len(proposals) \in Nat
  BY DEF AiInv, Tables
<1>2. /\ proposals' \in Seq(Proposal) /\ Len(proposals') = n /\ proposals'[n] = new
      /\ Ids = 1 .. Len(proposals) /\ Ids' = 1 .. n
      /\ \A i \in Ids : proposals'[i] = proposals[i]
  <2>1. proposals' = Append(proposals, new) /\ new \in Proposal
    OBVIOUS
  <2> HIDE DEF n
  <2>2. n = Len(proposals) + 1
    BY DEF n
  <2>3. /\ proposals' \in Seq(Proposal) /\ Len(proposals') = n /\ proposals'[n] = new
        /\ \A i \in 1 .. Len(proposals) : proposals'[i] = proposals[i]
    BY <1>1, <2>1, <2>2
  <2> QED
    BY <1>1, <2>2, <2>3 DEF Ids
<1>3. Ids' = Ids \cup {n} /\ n \notin Ids /\ n \in Nat
  BY <1>1, <1>2
<1> HIDE DEF n
<1>4. Pending' = Pending \cup {n} /\ Pending \subseteq Ids
  BY <1>2, <1>3 DEF Pending
<1>5. /\ job' = [u \in Threads |-> job'[u]] /\ job'[t] = j
      /\ \A u \in Threads : u # t => job'[u] = job[u]
  BY NextJob DEF AiInv
<1>6. \A a : PendingOf(a)' = IF a = job[t].by THEN PendingOf(a) \cup {n} ELSE PendingOf(a)
  BY <1>2, <1>3, <1>4, ZenonT(40) DEF PendingOf
<1>7. \A a \in Scheduled : a = job[t].by => a = t /\ PendingOf(a) = {}
  BY DEF AiInv, CallOk, Scheduled
<1>8. OnePending'
  BY <1>6, <1>7 DEF AiInv, OnePending
<1>9. Tables'
  <2>1. \A m \in DOMAIN versions : versions[m].from \in 0 .. n
    BY <1>1 DEF AiInv, Tables, n
  <2>2. QED
    BY <1>2, <1>5, <2>1 DEF AiInv, Tables
<1>10. ASSUME NEW u \in Threads PROVE CallOk(u)' /\ CommitOk(u)'
  <2>1. CASE u = t
    BY <1>5, <2>1 DEF CallOk, CommitOk, At, Quiet
  <2>2. CASE u # t
    <3>1. CallOk(u) /\ CommitOk(u) /\ job'[u] = job[u]
      BY <1>5, <2>2 DEF AiInv
    <3>2. u \in Scheduled /\ PendingOf(u) = {} => PendingOf(u)' = {}
      BY <1>6, <1>7, <2>2
    <3>3. QED
      BY <1>3, <3>1, <3>2 DEF CallOk, CommitOk, At
  <2>3. QED
    BY <2>1, <2>2
<1>11. \A u \in Threads : At(u, "commit")' => At(u, "commit") /\ job'[u] = job[u]
  BY <1>5 DEF At, Quiet
<1>12. Deciders'
  BY <1>4, <1>11 DEF AiInv, Deciders
<1>13. ASSUME ~raced', NEW i \in Ids' PROVE Recorded(i)'
  <2>1. VersionsOf(i)' = VersionsOf(i)
    BY DEF VersionsOf
  <2>2. CASE i \in Ids
    BY <1>2, <1>13, <2>1, <2>2 DEF AiInv, Recorded
  <2>3. CASE i = n
    <3>1. \A m \in 1 .. Len(versions) : versions[m].from # n
      BY <1>1 DEF AiInv, Tables, n
    <3>2. VersionsOf(i) = {}
      BY <2>3, <3>1 DEF VersionsOf
    <3>3. QED
      BY <1>2, <2>1, <2>3, <3>2 DEF Recorded
  <2>4. QED
    BY <1>3, <2>2, <2>3
<1>14. QED
  BY <1>8, <1>9, <1>10, <1>12, <1>13 DEF AiInv

\* A proposal of which one field is set.
LEMMA ProposalSet ==
    ASSUME AiInv, NEW i \in Ids
    PROVE  /\ \A v \in {"applied", "rejected"} :
                LET r == [proposals[i] EXCEPT !.status = v]
                IN  /\ [proposals EXCEPT ![i].status = v] = [proposals EXCEPT ![i] = r]
                    /\ r \in Proposal /\ r.status = v /\ r.by = proposals[i].by
           /\ LET r == [proposals[i] EXCEPT !.timer = "due"]
              IN  /\ [proposals EXCEPT ![i].timer = "due"] = [proposals EXCEPT ![i] = r]
                  /\ r \in Proposal /\ r.status = proposals[i].status /\ r.by = proposals[i].by
<1> DEFINE old == proposals[i]
<1>1. old \in Proposal
  BY DEF AiInv, Tables, Ids
<1> HIDE DEF old
<1>2. \A v \in {"applied", "rejected"} :
        /\ [old EXCEPT !.status = v] \in Proposal /\ [old EXCEPT !.status = v].status = v
        /\ [old EXCEPT !.status = v].by = old.by
  BY <1>1 DEF Proposal
<1>3. /\ [old EXCEPT !.timer = "due"] \in Proposal /\ [old EXCEPT !.timer = "due"].status = old.status
      /\ [old EXCEPT !.timer = "due"].by = old.by
  BY <1>1 DEF Proposal
<1>4. QED
  BY <1>2, <1>3 DEF old

LEMMA ProposalReplaced ==
    ASSUME AiInv, NEW i \in Ids, NEW r \in Proposal, r.by = proposals[i].by,
           proposals' = [proposals EXCEPT ![i] = r]
    PROVE  /\ proposals' \in Seq(Proposal) /\ Len(proposals') = Len(proposals) /\ Ids' = Ids
           /\ proposals'[i] = r /\ \A k \in Ids : k # i => proposals'[k] = proposals[k]
           /\ r.status = "pending" => Pending' = Pending \cup {i}
           /\ r.status # "pending" => Pending' = Pending \ {i}
           /\ \A a : PendingOf(a)' \subseteq PendingOf(a) \/ r.status = "pending"
<1>1. proposals \in Seq(Proposal) /\ i \in 1 .. Len(proposals) /\ Ids = 1 .. Len(proposals)
  BY DEF AiInv, Tables, Ids
<1>2. proposals \in [1 .. Len(proposals) -> Proposal] /\ Len(proposals) \in Nat
  BY <1>1
<1>3. /\ proposals' \in Seq(Proposal) /\ Len(proposals') = Len(proposals)
      /\ \A m \in 1 .. Len(proposals) : proposals'[m] = IF m = i THEN r ELSE proposals[m]
  <2>1. /\ proposals' \in [1 .. Len(proposals) -> Proposal]
        /\ \A m \in 1 .. Len(proposals) : proposals'[m] = IF m = i THEN r ELSE proposals[m]
    BY <1>1, <1>2
  <2>2. QED
    BY <1>2, <2>1
<1>4. /\ proposals' \in Seq(Proposal) /\ Len(proposals') = Len(proposals) /\ Ids' = Ids
      /\ proposals'[i] = r /\ \A k \in Ids : k # i => proposals'[k] = proposals[k]
  BY <1>1, <1>3 DEF Ids
<1>5. /\ r.status = "pending" => Pending' = Pending \cup {i}
      /\ r.status # "pending" => Pending' = Pending \ {i}
  BY <1>4 DEF Pending
<1>6. ASSUME r.status # "pending", NEW a PROVE PendingOf(a)' \subseteq PendingOf(a)
  BY <1>4, <1>5, <1>6 DEF PendingOf, Pending
<1>7. QED
  BY <1>4, <1>5, <1>6

\* A decision that is committed.
LEMMA AiCommit ==
    ASSUME AiInv, NEW t \in Threads, CommitDecision(t)
    PROVE  AiInv'
<1> DEFINE id == job[t].id
           v == job[t].verdict
           j == job[t].next
           r == [proposals[id] EXCEPT !.status = v]
           new == [params |-> proposals[id].params, from |-> id]
<1>1. /\ At(t, "commit") /\ id \in Ids /\ v \in {"applied", "rejected"} /\ Quiet(t, j)
      /\ job' = [job EXCEPT ![t] = j] /\ raced' = raced
      /\ proposals' = [proposals EXCEPT ![id].status = v]
      /\ versions' = IF v = "applied" THEN Append(versions, new) ELSE versions
  BY DEF CommitDecision, AiInv, CommitOk, vars_ghost
<1>2. /\ proposals' = [proposals EXCEPT ![id] = r]
      /\ r \in Proposal /\ r.status = v /\ r.by = proposals[id].by
  BY <1>1, ProposalSet
<1>3. v # "pending"
  BY <1>1
<1>4. new \in Version /\ new.from = id
  <2>1. proposals[id] \in Proposal /\ id \in Nat
    BY <1>1 DEF AiInv, Tables, Ids
  <2>2. proposals[id].params \in [Params -> Nat]
    BY <2>1 DEF Proposal
  <2> HIDE DEF id
  <2>3. QED
    BY <2>1, <2>2 DEF Version
<1> HIDE DEF id, v, j, r, new
<1>5. /\ proposals' \in Seq(Proposal) /\ Len(proposals') = Len(proposals) /\ Ids' = Ids
      /\ proposals'[id] = r /\ \A k \in Ids : k # id => proposals'[k] = proposals[k]
      /\ Pending' = Pending \ {id} /\ \A a : PendingOf(a)' \subseteq PendingOf(a)
  BY <1>1, <1>2, <1>3, ProposalReplaced
<1>6. /\ job' = [u \in Threads |-> job'[u]] /\ job'[t] = j
      /\ \A u \in Threads : u # t => job'[u] = job[u]
  BY <1>1, NextJob DEF AiInv
<1>7. versions \in Seq(Version) /\ Len(versions) \in Nat
  BY DEF AiInv, Tables
<1> DEFINE n == Len(versions) + 1
<1>8. /\ versions' \in Seq(Version)
      /\ v = "applied" => /\ Len(versions') = n /\ versions'[n] = new
                          /\ \A m \in 1 .. Len(versions) : versions'[m] = versions[m]
      /\ v # "applied" => versions' = versions
  BY <1>1, <1>4, <1>7
<1>9. v = "applied" => 1 .. Len(versions') = (1 .. Len(versions)) \cup {n} /\ n \notin 1 .. Len(versions)
  BY <1>7, <1>8
<1>10. Tables'
  <2>1. \A m \in 1 .. Len(versions) : versions[m].from \in 0 .. Len(proposals)
    BY <1>7 DEF AiInv, Tables
  <2>2. id \in 0 .. Len(proposals)
    BY <1>1, <1>7 DEF Ids, AiInv, Tables
  <2>3. \A m \in 1 .. Len(versions') : versions'[m].from \in 0 .. Len(proposals)
    BY <1>4, <1>8, <1>9, <2>1, <2>2
  <2>4. DOMAIN versions' = 1 .. Len(versions')
    BY <1>8
  <2>5. QED
    BY <1>5, <1>6, <1>8, <2>3, <2>4 DEF Tables
<1>11. OnePending'
  BY <1>5 DEF AiInv, OnePending
<1>12. ASSUME NEW u \in Threads PROVE CallOk(u)' /\ CommitOk(u)'
  <2>1. CASE u = t
    BY <1>1, <1>6, <2>1 DEF CallOk, CommitOk, At, Quiet
  <2>2. CASE u # t
    <3>1. CallOk(u) /\ CommitOk(u) /\ job'[u] = job[u]
      BY <1>6, <2>2 DEF AiInv
    <3>2. PendingOf(u) = {} => PendingOf(u)' = {}
      BY <1>5
    <3>3. QED
      BY <1>5, <3>1, <3>2 DEF CallOk, CommitOk, At
  <2>3. QED
    BY <2>1, <2>2
<1>13. \A u \in Threads : At(u, "commit")' => u # t /\ At(u, "commit") /\ job'[u] = job[u]
  BY <1>1, <1>6 DEF At, Quiet
<1>14. ~raced => \A u \in Threads : At(u, "commit")' => job[u].id # id
  BY <1>1, <1>13 DEF AiInv, Deciders, id
<1>15. Deciders'
  BY <1>1, <1>5, <1>13, <1>14 DEF AiInv, Deciders
<1>16. ASSUME ~raced', NEW i \in Ids' PROVE Recorded(i)'
  <2>1. /\ v = "applied" => VersionsOf(i)' = IF i = id THEN VersionsOf(i) \cup {n} ELSE VersionsOf(i)
        /\ v # "applied" => VersionsOf(i)' = VersionsOf(i)
    BY <1>4, <1>8, <1>9 DEF VersionsOf
  <2>2. Recorded(i) /\ i \in Ids
    BY <1>1, <1>5, <1>16 DEF AiInv
  <2>3. CASE i = id
    <3>1. id \in Pending
      BY <1>1, <1>16 DEF AiInv, Deciders, id
    <3>2. VersionsOf(i) = {}
      BY <2>2, <2>3, <3>1 DEF Recorded, Pending
    <3>3. CASE v = "applied"
      <4>1. VersionsOf(i)' = {n} /\ proposals'[i].status = "applied"
        BY <1>2, <1>5, <2>1, <2>3, <3>2, <3>3
      <4>2. QED
        BY <4>1 DEF Recorded
    <3>4. CASE v = "rejected"
      <4>1. VersionsOf(i)' = {} /\ proposals'[i].status = "rejected"
        BY <1>2, <1>5, <2>1, <2>3, <3>2, <3>4
      <4>2. QED
        BY <4>1 DEF Recorded
    <3>5. QED
      BY <1>1, <3>3, <3>4
  <2>4. CASE i # id
    BY <1>5, <2>1, <2>2, <2>4 DEF Recorded
  <2>5. QED
    BY <2>3, <2>4
<1>17. QED
  BY <1>10, <1>11, <1>12, <1>15, <1>16 DEF AiInv

\* A timer that elapses.
LEMMA AiTime ==
    ASSUME AiInv, TimePasses
    PROVE  AiInv'
<1>1. CASE proposals' = proposals
  BY <1>1, AiQuiet DEF TimePasses, vars_ghost, AiInv, Tables
<1>2. CASE \E i \in Pending : /\ proposals' = [proposals EXCEPT ![i].timer = "due"]
                              /\ UNCHANGED <<job, versions, recorded, rested, analyses, faults, vars_ghost>>
  <2>1. PICK i \in Pending : /\ proposals' = [proposals EXCEPT ![i].timer = "due"]
                             /\ job' = job /\ versions' = versions /\ raced' = raced
    BY <1>2 DEF vars_ghost
  <2> DEFINE r == [proposals[i] EXCEPT !.timer = "due"]
  <2>2. /\ i \in Ids /\ proposals' = [proposals EXCEPT ![i] = r]
        /\ r \in Proposal /\ r.status = proposals[i].status /\ r.by = proposals[i].by
    BY <2>1, ProposalSet DEF Pending
  <2> HIDE DEF r
  <2>3. r.status = "pending"
    BY <2>1, <2>2 DEF Pending
  <2>4. /\ proposals' \in Seq(Proposal) /\ Len(proposals') = Len(proposals) /\ Ids' = Ids
        /\ proposals'[i] = r /\ \A k \in Ids : k # i => proposals'[k] = proposals[k]
        /\ Pending' = Pending \cup {i}
    BY <2>2, <2>3, ProposalReplaced
  <2>5. /\ Pending' = Pending /\ Pending \subseteq Ids
        /\ \A k \in Ids : proposals'[k].by = proposals[k].by /\ proposals'[k].status = proposals[k].status
    BY <2>1, <2>2, <2>4 DEF Pending
  <2>6. \A a : PendingOf(a)' = PendingOf(a)
    BY <2>5 DEF PendingOf
  <2>7. Tables' /\ OnePending'
    BY <2>1, <2>4, <2>6 DEF AiInv, Tables, OnePending
  <2>8. \A t \in Threads : CallOk(t)' /\ CommitOk(t)'
    BY <2>1, <2>4, <2>6 DEF AiInv, CallOk, CommitOk, At
  <2>9. Deciders'
    BY <2>1, <2>5 DEF AiInv, Deciders, At
  <2>10. ~raced' => \A k \in Ids' : Recorded(k)'
    BY <2>1, <2>4, <2>5, ZenonT(40) DEF AiInv, Recorded, VersionsOf
  <2>11. QED
    BY <2>7, <2>8, <2>9, <2>10 DEF AiInv
<1>3. QED
  BY <1>1, <1>2 DEF TimePasses

LEMMA AiInit == Init => AiInv
<1> SUFFICES ASSUME Init PROVE AiInv
  OBVIOUS
<1>1. /\ proposals = <<>> /\ Ids = {} /\ Pending = {}
  BY DEF Init, Ids, Pending
<1>2. \A t \in Threads : "step" \notin DOMAIN job[t]
  BY DEF Init, Idle
<1>3. Tables
  <2>1. [params |-> Defaults, from |-> 0] \in Version
    BY ParamsAssumption DEF Version
  <2>2. versions \in Seq(Version) /\ DOMAIN versions = {1} /\ versions[1].from = 0
    BY <2>1 DEF Init
  <2>3. QED
    BY <1>1, <2>2 DEF Tables, Init
<1>4. OnePending
  BY <1>1 DEF OnePending, PendingOf
<1>5. \A t \in Threads : ~At(t, "call") /\ ~At(t, "commit") /\ ~At(t, "due")
  BY <1>2 DEF At
<1>6. QED
  BY <1>1, <1>3, <1>4, <1>5 DEF AiInv, Deciders, CallOk, CommitOk

\* What a scheduled analysis of the two processes does; the others are requests.
LEMMA AiAnalysis ==
    ASSUME AiInv, NEW t \in Threads, AnalysisStep(t)
    PROVE  AiInv'
<1>1. CASE BeginScheduled(t)
  BY <1>1, AiGoesOn DEF BeginScheduled, Scheduled, Quiet, vars_tables, vars_ghost
<1>2. CASE NextDue(t)
  <2>1. PICK i \in job[t].due : Decide(t, i, "applied", [step |-> "due", due |-> job[t].due \ {i}])
    BY <1>2 DEF NextDue
  <2>2. Quiet(t, [step |-> "due", due |-> job[t].due \ {i}]) /\ ~At(t, "commit")
    BY <1>2 DEF AiInv, CallOk, NextDue, At, Quiet
  <2>3. QED
    BY <2>1, <2>2, AiDecide
<1>3. CASE Gate(t)
  <2>1. CASE Enter(t, t) /\ Pending = {}
    <3>1. t \in Scheduled
      BY <1>3 DEF Gate, AiInv, CallOk
    <3>2. QED
      BY <2>1, <3>1, AiEnter
  <2>2. CASE Done(t) /\ UNCHANGED <<vars_tables, vars_ghost, analyses, faults>>
    BY <2>2, AiGoesOn, IdleQuiet DEF Done, vars_tables, vars_ghost
  <2>3. QED
    BY <1>3, <2>1, <2>2 DEF Gate
<1>4. CASE BeginRequested(t)
  BY <1>4, AiEnter DEF BeginRequested
<1>5. CASE CallAnalyst(t)
  <2>1. CASE job' = [job EXCEPT ![t] = Stage(t, "log")] /\ proposals' = proposals
    BY <1>5, <2>1, AiGoesOn DEF CallAnalyst, Stage, Quiet
  <2>2. CASE job' = [job EXCEPT ![t] = Stage(t, "usage")] /\ proposals' = proposals
    BY <1>5, <2>2, AiGoesOn DEF CallAnalyst, Stage, Quiet
  <2>3. CASE \E ps \in [Params -> Offered], confidence \in {"high", "middle", "low"} :
                LET tier == Tier(confidence, ps, job[t].current) IN
                /\ Validated(ps, job[t].current)
                /\ proposals' = Append(proposals, [status |-> "pending", by |-> job[t].by, params |-> ps,
                                                   timer |-> IF tier = "timer" THEN "set" ELSE "none"])
                /\ job' = [job EXCEPT ![t] = IF tier = "auto"
                               THEN [step |-> "own", by |-> job[t].by, id |-> Len(proposals) + 1]
                               ELSE Stage(t, "usage")]
    <3> DEFINE queued == Stage(t, "usage")
               own == [step |-> "own", by |-> job[t].by, id |-> Len(proposals) + 1]
    <3>1. Quiet(t, queued) /\ Quiet(t, own)
      BY DEF Quiet, Stage
    <3> HIDE DEF queued, own
    <3>2. PICK ps \in [Params -> Offered], confidence \in {"high", "middle", "low"} :
              LET tier == Tier(confidence, ps, job[t].current) IN
              /\ proposals' = Append(proposals, [status |-> "pending", by |-> job[t].by, params |-> ps,
                                                 timer |-> IF tier = "timer" THEN "set" ELSE "none"])
              /\ job' = [job EXCEPT ![t] = IF tier = "auto" THEN own ELSE queued]
      BY <2>3 DEF own, queued
    <3> DEFINE tier == Tier(confidence, ps, job[t].current)
               j == IF tier = "auto" THEN own ELSE queued
               timer == IF tier = "timer" THEN "set" ELSE "none"
    <3>3. Quiet(t, j) /\ timer \in {"set", "none"}
      BY <3>1
    <3>4. /\ proposals' = Append(proposals, [status |-> "pending", by |-> job[t].by, params |-> ps,
                                             timer |-> timer])
          /\ job' = [job EXCEPT ![t] = j]
      BY <3>2
    <3> HIDE DEF j, timer
    <3> DEFINE new == [status |-> "pending", by |-> job[t].by, params |-> ps, timer |-> timer]
    <3>5. At(t, "call") /\ versions' = versions /\ raced' = raced
      BY <1>5 DEF CallAnalyst
    <3>6. new \in Proposal
      <4>1. job[t].by \in {"loop", "scanner", "request"}
        BY <3>5 DEF AiInv, CallOk, Scheduled
      <4>2. ps \in [Params -> Nat]
        BY AiAssumption
      <4>3. QED
        BY <3>3, <4>1, <4>2 DEF Proposal
    <3>7. new.status = "pending" /\ new.by = job[t].by /\ proposals' = Append(proposals, new)
      BY <3>4
    <3> HIDE DEF new
    <3>8. QED
      BY <3>4, <3>5, <3>6, <3>7, <3>3, AiPropose
  <2>4. QED
    BY <1>5, <2>1, <2>2, <2>3 DEF CallAnalyst
<1>6. CASE ApplyOwn(t)
  <2>1. Quiet(t, Stage(t, "usage")) /\ ~At(t, "commit")
    BY <1>6 DEF ApplyOwn, At, Quiet, Stage
  <2>2. QED
    BY <1>6, <2>1, AiDecide DEF ApplyOwn
<1>7. CASE ReadUsage(t)
  BY <1>7, AiGoesOn DEF ReadUsage, Quiet, vars_tables, vars_ghost
<1>8. CASE CountUsage(t)
  BY <1>8, AiGoesOn DEF CountUsage, Quiet, Stage, vars_ghost
<1>9. CASE Log(t)
  BY <1>9, AiGoesOn, IdleQuiet DEF Log, Done, vars_ghost
<1>10. CASE OperatorDecides(t)
  <2>1. PICK id \in Ids, verdict \in {"applied", "rejected"} : Decide(t, id, verdict, Idle)
    BY <1>10 DEF OperatorDecides
  <2>2. ~At(t, "commit")
    BY <1>10, IdleQuiet DEF OperatorDecides, At, Quiet
  <2>3. QED
    BY <2>1, <2>2, AiDecide, IdleQuiet
<1>11. CASE CommitDecision(t)
  BY <1>11, AiCommit
<1>12. QED
  BY <1>1, <1>2, <1>3, <1>4, <1>5, <1>6, <1>7, <1>8, <1>9, <1>10, <1>11 DEF AnalysisStep

LEMMA AiStep == AiInv /\ [Next]_vars => AiInv'
<1> SUFFICES ASSUME AiInv, [Next]_vars PROVE AiInv'
  OBVIOUS
<1>1. CASE \E t \in Threads : AnalysisStep(t)
  BY <1>1, AiAnalysis
<1>2. CASE \E t \in Threads : Fail(t)
  <2>1. PICK t \in Threads : Fail(t)
    BY <1>2
  <2>2. Quiet(t, IF At(t, "commit") /\ "due" \in DOMAIN job[t].next THEN job[t].next ELSE Idle)
    BY IdleQuiet DEF AiInv, CommitOk
  <2>3. QED
    BY <2>1, <2>2, AiGoesOn DEF Fail, vars_tables, vars_ghost
<1>3. CASE \E process \in Processes : Restart(process)
  <2>1. /\ proposals' = proposals /\ versions' = versions /\ raced' = raced
        /\ job' = [t \in Threads |-> job'[t]]
        /\ \A t \in Threads : job'[t] = job[t] \/ job'[t] = Idle
    BY <1>3 DEF Restart, vars_tables, vars_ghost
  <2>2. QED
    BY <2>1, AiQuiet, IdleQuiet
<1>4. CASE TimePasses
  BY <1>4, AiTime
<1>5. CASE UNCHANGED vars
  BY <1>5, AiQuiet DEF vars, vars_tables, vars_ghost, AiInv, Tables
<1>6. QED
  BY <1>1, <1>2, <1>3, <1>4, <1>5 DEF Next

-----------------------------------------------------------------------------
(* The month's counter.                                                    *)

\* A thread that is within _execute_analysis, and one whose answer is yet to be counted.
Analyst(j) == "by" \in DOMAIN j \/ ("step" \in DOMAIN j /\ j.step = "commit" /\ "by" \in DOMAIN j.next)
Owes(j) == Analyst(j) /\ j.step # "call" /\ j.step # "log"
Owing == {t \in Threads : Owes(job[t])}

\* What a thread is at once it has decided: nothing, the next due proposal, or counting.
AfterDecision(j) ==
    \/ "by" \notin DOMAIN j /\ ("step" \in DOMAIN j => j.step = "due")
    \/ \E by : j = [step |-> "usage", by |-> by]

\* Only an analysis is of somebody.
Staged(j) ==
    /\ "by" \in DOMAIN j <=> "step" \in DOMAIN j /\ j.step \in {"call", "own", "usage", "count", "log"}
    /\ "step" \in DOMAIN j /\ j.step = "commit" => AfterDecision(j.next)

\* What is counted, or will be by what a thread has read, and the answers yet to be counted are
\* no more than the answers; while one analysis runs at a time and none is cut short, as many.
UsageInv ==
    LET n == Cardinality(Owing) IN
    /\ recorded \in Nat /\ answers \in Nat /\ faults \in Nat /\ IsFiniteSet(Owing)
    /\ \A t \in Threads : Staged(job[t])
    /\ recorded + n <= answers
    /\ \A t \in Threads : At(t, "count") => job[t].tokens \in Nat /\ job[t].tokens + n <= answers
    /\ ~concurrent =>
         /\ \A t, u \in Threads : Analyst(job[t]) /\ Analyst(job[u]) => t = u
         /\ \A t \in Threads : At(t, "count") => job[t].tokens = recorded
         /\ faults = 0 => answers = recorded + n

LEMMA StagedIdle == Staged(Idle) /\ ~Analyst(Idle) /\ "step" \notin DOMAIN Idle /\ AfterDecision(Idle)
  BY DEF Staged, Analyst, Idle, AfterDecision

LEMMA StagedAfter ==
    ASSUME NEW j, AfterDecision(j)
    PROVE  /\ Staged(j) /\ ("step" \in DOMAIN j => j.step \in {"due", "usage"})
           /\ Analyst(j) => "step" \in DOMAIN j /\ j.step = "usage"
           /\ Owes(j) <=> Analyst(j)
           /\ "due" \in DOMAIN j => ~Analyst(j)
  BY DEF AfterDecision, Staged, Analyst, Owes

\* A thread that goes on within its analysis or without one.
LEMMA UsageStays ==
    ASSUME Tables, UsageInv, NEW t \in Threads, NEW j, Staged(j), job' = [job EXCEPT ![t] = j],
           Owes(j) <=> Owes(job[t]), Analyst(j) => Analyst(job[t]),
           "step" \in DOMAIN j /\ j.step = "count" => j.tokens = recorded,
           UNCHANGED <<recorded, answers, faults, concurrent>>
    PROVE  UsageInv'
<1>1. job'[t] = j /\ \A u \in Threads : u # t => job'[u] = job[u]
  BY NextJob
<1>2. Owing' = Owing
  BY <1>1 DEF Owing
<1>3. \A u \in Threads : Staged(job'[u]) /\ (Analyst(job'[u]) => Analyst(job[u]))
  BY <1>1 DEF UsageInv
<1>4. \A u \in Threads : At(u, "count")' => \/ At(u, "count") /\ job'[u].tokens = job[u].tokens
                                            \/ job'[u].tokens = recorded
  BY <1>1 DEF At
<1>5. QED
  BY <1>2, <1>3, <1>4 DEF UsageInv

LEMMA UsageDecide ==
    ASSUME Tables, UsageInv, NEW t \in Threads, NEW id, NEW verdict, NEW next, AfterDecision(next),
           Analyst(next) <=> Analyst(job[t]), Owes(job[t]) <=> Analyst(job[t]), Decide(t, id, verdict, next)
    PROVE  UsageInv'
<1> DEFINE c == [step |-> "commit", id |-> id, verdict |-> verdict, next |-> next]
           j == IF id \in Pending THEN c ELSE next
<1>1. job' = [job EXCEPT ![t] = j] /\ UNCHANGED <<recorded, answers, faults, concurrent>>
  BY DEF Decide, vars_tables
<1>2. /\ Staged(next) /\ (Owes(next) <=> Analyst(next))
      /\ "step" \in DOMAIN next => next.step # "count" /\ next.step # "commit"
  BY StagedAfter
<1>3. Staged(c) /\ (Analyst(c) <=> "by" \in DOMAIN next) /\ (Owes(c) <=> Analyst(c)) /\ c.step = "commit"
  BY DEF Staged, Analyst, Owes
<1>4. Analyst(next) <=> "by" \in DOMAIN next
  BY <1>2 DEF Analyst
<1> HIDE DEF c
<1>5. /\ Staged(j) /\ (Owes(j) <=> Owes(job[t])) /\ (Analyst(j) => Analyst(job[t]))
      /\ "step" \in DOMAIN j /\ j.step = "count" => FALSE
  BY <1>2, <1>3, <1>4
<1> HIDE DEF j
<1>6. QED
  BY <1>1, <1>5, UsageStays

\* A thread that begins an analysis.
LEMMA UsageEnter ==
    ASSUME Tables, UsageInv, NEW t \in Threads, NEW by, ~Analyst(job[t]), Enter(t, by)
    PROVE  UsageInv'
<1> DEFINE c == [step |-> "call", by |-> by, current |-> Latest]
<1>1. /\ job' = [job EXCEPT ![t] = c] /\ UNCHANGED <<recorded, answers, faults>>
      /\ concurrent' = (concurrent \/ Analysing # {})
  BY DEF Enter, vars_tables
<1>2. Staged(c) /\ ~Owes(c) /\ Analyst(c) /\ c.step = "call"
  BY DEF Staged, Owes, Analyst
<1> HIDE DEF c
<1>3. job'[t] = c /\ \A u \in Threads : u # t => job'[u] = job[u]
  BY <1>1, NextJob
<1>4. Owing' = Owing
  BY <1>2, <1>3 DEF Owing, Owes
<1>5. ~concurrent' => ~concurrent /\ \A u \in Threads : ~Analyst(job[u])
  BY <1>1 DEF Analysing, Analyst, At
<1>6. \A u \in Threads : Staged(job'[u]) /\ (At(u, "count")' => At(u, "count") /\ job'[u] = job[u])
  BY <1>2, <1>3 DEF UsageInv, At
<1>7. ~concurrent' => \A u, v \in Threads : Analyst(job'[u]) /\ Analyst(job'[v]) => u = v
  BY <1>3, <1>5
<1>8. QED
  BY <1>1, <1>4, <1>5, <1>6, <1>7 DEF UsageInv

\* An answer that can be read is one more to be counted.
LEMMA UsageAnswer ==
    ASSUME Tables, UsageInv, NEW t \in Threads, Analyst(job[t]), ~Owes(job[t]),
           NEW j, Staged(j), Owes(j), j.step # "count", job' = [job EXCEPT ![t] = j],
           answers' = answers + 1, UNCHANGED <<recorded, faults, concurrent>>
    PROVE  UsageInv'
<1>1. job'[t] = j /\ \A u \in Threads : u # t => job'[u] = job[u]
  BY NextJob
<1>2. Owing' = Owing \cup {t} /\ t \notin Owing
  BY <1>1 DEF Owing
<1>3. /\ IsFiniteSet(Owing') /\ Cardinality(Owing') = Cardinality(Owing) + 1
      /\ Cardinality(Owing) \in Nat
  BY <1>2, FS_AddElement, FS_CardinalityType DEF UsageInv
<1>4. \A u \in Threads : /\ Staged(job'[u]) /\ (Analyst(job'[u]) => Analyst(job[u]))
                         /\ At(u, "count")' => At(u, "count") /\ job'[u] = job[u]
  BY <1>1 DEF UsageInv, At
<1>5. QED
  BY <1>3, <1>4 DEF UsageInv

\* The counter is what the thread had read and one more; its answer is counted.
LEMMA UsageCount ==
    ASSUME Tables, UsageInv, NEW t \in Threads, CountUsage(t)
    PROVE  UsageInv'
<1> DEFINE j == Stage(t, "log")
<1>1. /\ At(t, "count") /\ job' = [job EXCEPT ![t] = j] /\ recorded' = job[t].tokens + 1
      /\ UNCHANGED <<answers, faults, concurrent>>
  BY DEF CountUsage, vars_ghost
<1>2. Staged(j) /\ ~Owes(j) /\ j.step = "log"
  BY DEF Stage, Staged, Owes, Analyst
<1>3. Owes(job[t]) /\ Analyst(job[t])
  BY <1>1 DEF UsageInv, Staged, At, Owes, Analyst
<1> HIDE DEF j
<1>4. job'[t] = j /\ \A u \in Threads : u # t => job'[u] = job[u]
  BY <1>1, NextJob
<1>5. Owing' = Owing \ {t} /\ t \in Owing
  BY <1>2, <1>3, <1>4 DEF Owing
<1>6. /\ IsFiniteSet(Owing') /\ Cardinality(Owing') = Cardinality(Owing) - 1
      /\ Cardinality(Owing) \in Nat /\ Cardinality(Owing') \in Nat
  BY <1>5, FS_RemoveElement, FS_CardinalityType DEF UsageInv
<1>7. \A u \in Threads : /\ Staged(job'[u]) /\ (Analyst(job'[u]) => Analyst(job[u]))
                         /\ At(u, "count")' => u # t /\ At(u, "count") /\ job'[u] = job[u]
  BY <1>2, <1>3, <1>4 DEF UsageInv, At
<1>8. ~concurrent => \A u \in Threads : At(u, "count") => u = t
  BY <1>3 DEF UsageInv, Staged, At, Analyst
<1>9. /\ recorded' \in Nat /\ recorded' + Cardinality(Owing') <= answers
      /\ ~concurrent => recorded' = recorded + 1
  BY <1>1, <1>6 DEF UsageInv
<1>10. QED
  BY <1>1, <1>6, <1>7, <1>8, <1>9 DEF UsageInv

\* Threads that are cut short: their answers are never counted.
LEMMA UsageCut ==
    ASSUME UsageInv, faults' = faults + 1, UNCHANGED <<recorded, answers, concurrent>>,
           \A t \in Threads : \/ job'[t] = job[t]
                              \/ /\ Staged(job'[t]) /\ ~Analyst(job'[t])
                                 /\ "step" \in DOMAIN job'[t] => job'[t].step # "count"
    PROVE  UsageInv'
<1>1. Owing' \subseteq Owing
  BY DEF Owing, Owes
<1>2. /\ IsFiniteSet(Owing') /\ Cardinality(Owing') <= Cardinality(Owing)
      /\ Cardinality(Owing) \in Nat /\ Cardinality(Owing') \in Nat
  BY <1>1, FS_Subset, FS_CardinalityType DEF UsageInv
<1>3. \A u \in Threads : /\ Staged(job'[u]) /\ (Analyst(job'[u]) => Analyst(job[u]))
                         /\ At(u, "count")' => At(u, "count") /\ job'[u] = job[u]
  BY DEF UsageInv, At
<1>4. faults' \in Nat /\ faults' # 0
  BY DEF UsageInv
<1>5. \A u \in Threads : At(u, "count")' => job'[u].tokens \in Nat /\ job'[u].tokens + Cardinality(Owing') <= answers'
  BY <1>2, <1>3 DEF UsageInv
<1>6. recorded' + Cardinality(Owing') <= answers'
  BY <1>2 DEF UsageInv
<1>7. QED
  BY <1>2, <1>3, <1>4, <1>5, <1>6 DEF UsageInv

LEMMA UsageAnalysis ==
    ASSUME Tables, UsageInv, NEW t \in Threads, AnalysisStep(t)
    PROVE  UsageInv'
<1>1. /\ Staged(job[t])
      /\ job[t] = Idle => ~Analyst(job[t]) /\ ~Owes(job[t])
      /\ At(t, "due") => ~Analyst(job[t]) /\ ~Owes(job[t])
      /\ \A s \in {"own", "usage", "count"} : At(t, s) => Analyst(job[t]) /\ Owes(job[t])
      /\ \A s \in {"call", "log"} : At(t, s) => Analyst(job[t]) /\ ~Owes(job[t])
      /\ At(t, "commit") => /\ AfterDecision(job[t].next)
                            /\ Analyst(job[t]) <=> "by" \in DOMAIN job[t].next
                            /\ Owes(job[t]) <=> Analyst(job[t])
  BY StagedIdle DEF UsageInv, Staged, At, Analyst, Owes
<1>2. CASE BeginScheduled(t)
  <2> DEFINE j == [step |-> "due", due |-> {i \in Pending : proposals[i].timer = "due"}]
  <2>1. /\ job' = [job EXCEPT ![t] = j] /\ UNCHANGED <<recorded, answers, faults, concurrent>>
        /\ ~Analyst(job[t]) /\ ~Owes(job[t])
    BY <1>1, <1>2 DEF BeginScheduled, vars_tables, vars_ghost
  <2>2. AfterDecision(j) /\ ~Analyst(j) /\ j.step = "due"
    BY DEF AfterDecision, Analyst
  <2> HIDE DEF j
  <2>3. QED
    BY <2>1, <2>2, StagedAfter, UsageStays DEF Owes
<1>3. CASE NextDue(t)
  <2>1. PICK i \in job[t].due : Decide(t, i, "applied", [step |-> "due", due |-> job[t].due \ {i}])
    BY <1>3 DEF NextDue
  <2> DEFINE j == [step |-> "due", due |-> job[t].due \ {i}]
  <2>2. AfterDecision(j) /\ ~Analyst(j)
    BY DEF AfterDecision, Analyst
  <2>3. Decide(t, i, "applied", j) /\ ~Analyst(job[t]) /\ ~Owes(job[t])
    BY <1>1, <1>3, <2>1 DEF NextDue
  <2> HIDE DEF j
  <2>4. QED
    BY <2>2, <2>3, UsageDecide
<1>4. ASSUME Done(t), UNCHANGED <<recorded, answers, faults, concurrent>>, ~Owes(job[t])
      PROVE  UsageInv'
  BY <1>4, StagedIdle, UsageStays DEF Done, Owes
<1>5. CASE Gate(t)
  BY <1>1, <1>4, <1>5, UsageEnter DEF Gate, vars_tables, vars_ghost
<1>6. CASE BeginRequested(t)
  BY <1>1, <1>6, UsageEnter DEF BeginRequested
<1>7. \A s \in {"own", "usage", "log"} :
        /\ Staged(Stage(t, s)) /\ Analyst(Stage(t, s)) /\ Stage(t, s).step = s
        /\ s # "log" => Owes(Stage(t, s))
        /\ s = "log" => ~Owes(Stage(t, s))
  BY DEF Stage, Staged, Analyst, Owes
<1>8. CASE CallAnalyst(t)
  <2>1. /\ UNCHANGED <<recorded, faults, concurrent>>
        /\ Analyst(job[t]) /\ ~Owes(job[t])
    BY <1>1, <1>8 DEF CallAnalyst
  <2>2. CASE job' = [job EXCEPT ![t] = Stage(t, "log")] /\ answers' = answers
    BY <1>7, <2>1, <2>2, UsageStays
  <2>3. ASSUME NEW ps, NEW tier,
               answers' = answers + 1,
               job' = [job EXCEPT ![t] = IF tier = "auto"
                           THEN [step |-> "own", by |-> job[t].by, id |-> Len(proposals) + 1]
                           ELSE Stage(t, "usage")]
        PROVE  UsageInv'
    <3> DEFINE own == [step |-> "own", by |-> job[t].by, id |-> Len(proposals) + 1]
    <3>1. Staged(own) /\ Owes(own) /\ own.step = "own"
      BY DEF Staged, Analyst, Owes
    <3>2. job' = [job EXCEPT ![t] = own] \/ job' = [job EXCEPT ![t] = Stage(t, "usage")]
      BY <2>3
    <3> HIDE DEF own
    <3>3. QED
      BY <1>7, <2>1, <2>3, <3>1, <3>2, UsageAnswer
  <2>4. CASE answers' = answers + 1 /\ job' = [job EXCEPT ![t] = Stage(t, "usage")]
    BY <1>7, <2>1, <2>4, UsageAnswer
  <2>5. QED
    BY <1>8, <2>2, <2>3, <2>4 DEF CallAnalyst
<1>9. CASE ApplyOwn(t)
  <2>1. AfterDecision(Stage(t, "usage"))
    BY DEF AfterDecision, Stage
  <2>2. /\ Decide(t, job[t].id, "applied", Stage(t, "usage")) /\ Analyst(job[t]) /\ Owes(job[t])
        /\ Analyst(Stage(t, "usage"))
    BY <1>1, <1>7, <1>9 DEF ApplyOwn
  <2>3. QED
    BY <2>1, <2>2, UsageDecide
<1>10. CASE ReadUsage(t)
  <2> DEFINE j == [step |-> "count", by |-> job[t].by, tokens |-> recorded]
  <2>1. /\ job' = [job EXCEPT ![t] = j] /\ UNCHANGED <<recorded, answers, faults, concurrent>>
        /\ Analyst(job[t]) /\ Owes(job[t])
    BY <1>1, <1>10 DEF ReadUsage, vars_tables, vars_ghost
  <2>2. Staged(j) /\ Owes(j) /\ j.tokens = recorded
    BY DEF Staged, Analyst, Owes
  <2> HIDE DEF j
  <2>3. QED
    BY <2>1, <2>2, UsageStays
<1>11. CASE CountUsage(t)
  BY <1>11, UsageCount
<1>12. CASE Log(t)
  BY <1>1, <1>4, <1>12 DEF Log, vars_ghost
<1>13. CASE OperatorDecides(t)
  <2>1. PICK id \in Ids, verdict \in {"applied", "rejected"} : Decide(t, id, verdict, Idle)
    BY <1>13 DEF OperatorDecides
  <2>2. job[t] = Idle
    BY <1>13 DEF OperatorDecides
  <2>3. QED
    BY <1>1, <2>1, <2>2, StagedIdle, UsageDecide
<1>14. CASE CommitDecision(t)
  <2>1. /\ At(t, "commit") /\ job' = [job EXCEPT ![t] = job[t].next]
        /\ UNCHANGED <<recorded, answers, faults, concurrent>>
    BY <1>14 DEF CommitDecision, vars_ghost
  <2> DEFINE j == job[t].next
  <2>2. AfterDecision(j) /\ (Analyst(job[t]) <=> "by" \in DOMAIN j) /\ (Owes(job[t]) <=> Analyst(job[t]))
    BY <1>1, <2>1
  <2>3. job' = [job EXCEPT ![t] = j]
    BY <2>1
  <2> HIDE DEF j
  <2>4. /\ Staged(j) /\ (Analyst(j) <=> Analyst(job[t])) /\ (Owes(j) <=> Analyst(j))
        /\ "step" \in DOMAIN j => j.step # "count"
    BY <2>2, StagedAfter DEF Analyst
  <2>5. QED
    BY <2>1, <2>2, <2>3, <2>4, UsageStays
<1>15. QED
  BY <1>2, <1>3, <1>5, <1>6, <1>8, <1>9, <1>10, <1>11, <1>12, <1>13, <1>14 DEF AnalysisStep

LEMMA UsageStep ==
    ASSUME Tables, UsageInv, [Next]_vars
    PROVE  UsageInv'
<1>1. CASE \E t \in Threads : AnalysisStep(t)
  BY <1>1, UsageAnalysis
<1>2. CASE \E t \in Threads : Fail(t)
  <2>1. PICK t \in Threads : Fail(t)
    BY <1>2
  <2> DEFINE j == IF At(t, "commit") /\ "due" \in DOMAIN job[t].next THEN job[t].next ELSE Idle
  <2>2. /\ job' = [job EXCEPT ![t] = j] /\ faults' = faults + 1
        /\ UNCHANGED <<recorded, answers, concurrent>>
    BY <2>1 DEF Fail, vars_tables, vars_ghost
  <2>3. At(t, "commit") => AfterDecision(job[t].next)
    BY DEF UsageInv, Staged, At
  <2>4. AfterDecision(j) /\ ~Analyst(j)
    BY <2>3, StagedIdle, StagedAfter
  <2> HIDE DEF j
  <2>5. job'[t] = j /\ \A u \in Threads : u # t => job'[u] = job[u]
    BY <2>2, NextJob
  <2>6. QED
    BY <2>2, <2>4, <2>5, StagedAfter, UsageCut
<1>3. CASE \E process \in Processes : Restart(process)
  <2>1. /\ faults' = faults + 1 /\ UNCHANGED <<recorded, answers, concurrent>>
        /\ \A t \in Threads : job'[t] = job[t] \/ job'[t] = Idle
    BY <1>3 DEF Restart, vars_tables, vars_ghost
  <2>2. QED
    BY <2>1, StagedIdle, UsageCut
<1>4. CASE TimePasses \/ UNCHANGED vars
  <2>1. UNCHANGED <<job, recorded, answers, faults, concurrent>>
    BY <1>4 DEF TimePasses, vars, vars_tables, vars_ghost
  <2>2. Owing' = Owing /\ \A t : At(t, "count")' <=> At(t, "count")
    BY <2>1 DEF Owing, At
  <2>3. QED
    BY <2>1, <2>2 DEF UsageInv
<1>5. QED
  BY <1>1, <1>2, <1>3, <1>4 DEF Next

-----------------------------------------------------------------------------
(* The theorems.                                                           *)

LEMMA Inductive == Spec => []AiInv
<1>1. QED
  BY AiInit, AiStep, PTL DEF Spec

\* An applied proposal is in the table once and any other never, for every number of threads
\* and proposals, as long as no two decide the same one at a time (DecisionsHold;
\* apply_proposal, reject_proposal).
THEOREM DecisionsAreFinal == Spec => []DecisionsHold
<1>1. AiInv => DecisionsHold
  <2> SUFFICES ASSUME AiInv, ~raced, NEW i \in Ids
               PROVE  Cardinality(VersionsOf(i)) = IF proposals[i].status = "applied" THEN 1 ELSE 0
    BY DEF DecisionsHold, VersionsOf
  <2>1. Recorded(i)
    BY DEF AiInv
  <2>2. CASE proposals[i].status = "applied"
    BY <2>1, <2>2, FS_Singleton DEF Recorded
  <2>3. CASE proposals[i].status # "applied"
    BY <2>1, <2>3, FS_EmptySet DEF Recorded
  <2>4. QED
    BY <2>2, <2>3
<1>2. QED
  BY <1>1, Inductive, PTL

\* Of the scheduled analyses of a process at most one proposal is pending (PendingBound;
\* has_pending_proposal).
THEOREM OneUndecided == Spec => []PendingBound
<1>1. AiInv => PendingBound
  <2> SUFFICES ASSUME AiInv, NEW a \in Scheduled PROVE Cardinality(PendingOf(a)) <= 1
    BY DEF PendingBound, PendingOf, Scheduled
  <2>1. CASE PendingOf(a) = {}
    <3>1. Cardinality(PendingOf(a)) = 0
      BY <2>1, FS_EmptySet
    <3>2. QED
      BY <3>1
  <2>2. CASE PendingOf(a) # {}
    <3>1. PICK i : PendingOf(a) = {i}
      BY <2>2 DEF AiInv, OnePending
    <3>2. Cardinality(PendingOf(a)) = 1
      BY <3>1, FS_Singleton
    <3>3. QED
      BY <3>2
  <2>3. QED
    BY <2>1, <2>2
<1>2. QED
  BY <1>1, Inductive, PTL

\* The month's counter never says more than was answered, and while one analysis runs at a time
\* and none is cut short it says all but the answer that is about to be counted, for any number of
\* threads that count from what they have read (AnswersCounted; add_monthly_token_usage).
THEOREM AnswersAreCounted == Spec => []AnswersCounted
<1>1. Init => UsageInv
  <2> SUFFICES ASSUME Init PROVE UsageInv
    OBVIOUS
  <2>1. \A t \in Threads : job[t] = Idle
    BY DEF Init
  <2>2. Owing = {} /\ \A t \in Threads : Staged(job[t]) /\ ~Analyst(job[t]) /\ ~At(t, "count")
    BY <2>1, StagedIdle DEF Owing, Owes, At
  <2>3. IsFiniteSet(Owing) /\ Cardinality(Owing) = 0
    BY <2>2, FS_EmptySet
  <2>4. QED
    BY <2>2, <2>3 DEF Init, UsageInv
<1>2. AiInv /\ UsageInv /\ [Next]_vars => UsageInv'
  BY UsageStep DEF AiInv
<1>3. UsageInv => AnswersCounted
  <2> SUFFICES ASSUME UsageInv PROVE AnswersCounted
    OBVIOUS
  <2>1. \A t \in Threads : Staged(job[t])
    BY DEF UsageInv
  <2>2. {t \in Analysing : ~At(t, "call") /\ ~At(t, "log")} = Owing
    <3>1. \A t \in Threads : t \in Analysing <=> Analyst(job[t])
      BY DEF Analysing, Analyst, At
    <3>2. \A t \in Threads : Analyst(job[t]) => "step" \in DOMAIN job[t]
      BY <2>1 DEF Staged, Analyst
    <3>3. QED
      BY <3>1, <3>2 DEF Owing, Owes, At, Analysing
  <2>3. Cardinality(Owing) \in Nat
    BY FS_CardinalityType DEF UsageInv
  <2>4. QED
    BY <2>2, <2>3 DEF UsageInv, AnswersCounted
<1>4. QED
  BY <1>1, <1>2, <1>3, Inductive, PTL DEF Spec

\* The analyst looks at fills of which half are buys, and refuses to propose for fewer than
\* MinTradeCount round trips: with its own constants (30 and 20) it never proposes anything
\* (NothingProposed; _MAX_FILLS, _MIN_TRADE_COUNT).
THEOREM NeverProposes ==
    ASSUME MaxFills < 2 * MinTradeCount PROVE Spec => []NothingProposed
<1>1. Counted < MinTradeCount
  BY AiAssumption DEF Counted, Least
<1>2. Init => NothingProposed
  BY DEF Init, NothingProposed
<1>3. NothingProposed /\ [Next]_vars => NothingProposed'
  <2> SUFFICES ASSUME proposals = <<>>, [Next]_vars PROVE proposals' = proposals
    BY DEF NothingProposed
  <2>1. Ids = {} /\ Pending = {}
    BY DEF Ids, Pending
  <2>2. \A ps, current : ~Validated(ps, current)
    BY <1>1, AiAssumption DEF Validated, Counted, Least
  <2>3. ASSUME NEW t \in Threads, CallAnalyst(t) PROVE proposals' = proposals
    BY <2>2, <2>3 DEF CallAnalyst
  <2>4. ASSUME NEW t \in Threads, CommitDecision(t) PROVE proposals' = proposals
    BY <2>4 DEF CommitDecision
  <2>5. ASSUME NEW t \in Threads, AnalysisStep(t), ~CallAnalyst(t), ~CommitDecision(t)
        PROVE  proposals' = proposals
    BY <2>5 DEF AnalysisStep, BeginScheduled, NextDue, Gate, BeginRequested, Enter, Done, ApplyOwn,
                ReadUsage, CountUsage, Log, OperatorDecides, Decide, vars_tables
  <2>6. ASSUME NEW t \in Threads, Fail(t) PROVE proposals' = proposals
    BY <2>6 DEF Fail, vars_tables
  <2>7. ASSUME NEW process \in Processes, Restart(process) PROVE proposals' = proposals
    BY <2>7 DEF Restart, vars_tables
  <2>8. TimePasses => proposals' = proposals
    BY <2>1 DEF TimePasses
  <2>9. QED
    BY <2>3, <2>4, <2>5, <2>6, <2>7, <2>8 DEF Next, vars, vars_tables
<1>4. QED
  BY <1>2, <1>3, PTL DEF Spec
=============================================================================
