--------------------------- MODULE ThetaRunner_proofs ---------------------------
(***************************************************************************)
(* A one-sided position that was not reported comes from answers that were *)
(* misread, and no entry is made in backwardation; what reaches an exchange stays within the day's budget,  *)
(* the trades of a tick within its limits, and a strategy's orders a       *)
(* cooldown apart; and every tick ends: for all assets, entering           *)
(* processes, markets, settings, answers and restarts.                     *)
(***************************************************************************)
EXTENDS ThetaRunner, FiniteSetTheorems, TLAPS

\* Entries that have bought one unit of a, and those that have sold one short, so far.
Bought(a) == {p \in Processes : job[p].step = "perp" /\ job[p].asset = a /\ job[p].ok /\ ~job[p].dry}
Shorted(a) == {p \in Processes : job[p].step = "coinbase" /\ job[p].asset = a}
Held(a) == Cardinality(Bought(a)) - Cardinality(Shorted(a))

\* What one entry, at a step, holds of a.
Part(j, a) ==
    IF j.step = "perp" /\ j.asset = a /\ j.ok /\ ~j.dry THEN 1
    ELSE IF j.step = "coinbase" /\ j.asset = a THEN -1 ELSE 0

Legs == [Assets -> Int]

Positions ==
    /\ job = [p \in Processes |-> job[p]]
    /\ spot \in Legs /\ perp \in Legs /\ cb \in Legs /\ misread \in Legs

\* An asset that nobody was told of holds what the entries under way hold, and what was
\* misread.
Told(a) == a \in alarms \cup cut
Balanced == \A a \in Assets : Told(a) \/ Exposure(a) = Held(a) + misread[a]
UnwindsTold == \A p \in Processes : job[p].step = "unwind" => Told(job[p].asset)

CarryInv == Positions /\ NoBackwardation /\ UnwindsTold /\ Balanced

-----------------------------------------------------------------------------
(* Counting.                                                               *)

LEMMA HeldFinite ==
    ASSUME NEW a
    PROVE  /\ IsFiniteSet(Bought(a)) /\ IsFiniteSet(Shorted(a))
           /\ Cardinality(Bought(a)) \in Nat /\ Cardinality(Shorted(a)) \in Nat
           /\ Held(a) \in Int
<1>1. Bought(a) \subseteq Processes /\ Shorted(a) \subseteq Processes /\ IsFiniteSet(Processes)
  BY FundingAssumption DEF Bought, Shorted
<1>2. IsFiniteSet(Bought(a)) /\ IsFiniteSet(Shorted(a))
  BY <1>1, FS_Subset
<1>3. Cardinality(Bought(a)) \in Nat /\ Cardinality(Shorted(a)) \in Nat
  BY <1>2, FS_CardinalityType
<1>4. QED
  BY <1>2, <1>3 DEF Held

\* A finite set that one member joins or leaves.
LEMMA OneMember ==
    ASSUME NEW S, NEW T, NEW p, IsFiniteSet(S), T \ {p} = S \ {p}
    PROVE  /\ p \in S /\ p \notin T => Cardinality(T) = Cardinality(S) - 1
           /\ p \notin S /\ p \in T => Cardinality(T) = Cardinality(S) + 1
           /\ (p \in S <=> p \in T) => Cardinality(T) = Cardinality(S)
<1>1. ASSUME p \in S, p \notin T PROVE Cardinality(T) = Cardinality(S) - 1
  <2>1. T = S \ {p}
    BY <1>1
  <2>2. QED
    BY <1>1, <2>1, FS_RemoveElement
<1>2. ASSUME p \notin S, p \in T PROVE Cardinality(T) = Cardinality(S) + 1
  <2>1. T = S \cup {p}
    BY <1>2
  <2>2. QED
    BY <1>2, <2>1, FS_AddElement
<1>3. ASSUME p \in S <=> p \in T PROVE T = S
  BY <1>3
<1>4. QED
  BY <1>1, <1>2, <1>3

LEMMA NextJob ==
    ASSUME Positions, NEW p \in Processes, NEW j, job' = [job EXCEPT ![p] = j]
    PROVE  /\ job' = [q \in Processes |-> job'[q]] /\ job'[p] = j
           /\ \A q \in Processes : q # p => job'[q] = job[q]
  BY DEF Positions

LEMMA HeldChanges ==
    ASSUME Positions, NEW p \in Processes, NEW j, job' = [job EXCEPT ![p] = j], NEW a
    PROVE  Held(a)' = Held(a) - Part(job[p], a) + Part(j, a) /\ Held(a)' \in Int
<1>1. job'[p] = j /\ \A q \in Processes : q # p => job'[q] = job[q]
  BY NextJob
<1>2. Bought(a)' \ {p} = Bought(a) \ {p} /\ Shorted(a)' \ {p} = Shorted(a) \ {p}
  BY <1>1 DEF Bought, Shorted
<1>3. /\ p \in Bought(a) <=> job[p].step = "perp" /\ job[p].asset = a /\ job[p].ok /\ ~job[p].dry
      /\ p \in Bought(a)' <=> j.step = "perp" /\ j.asset = a /\ j.ok /\ ~j.dry
      /\ p \in Shorted(a) <=> job[p].step = "coinbase" /\ job[p].asset = a
      /\ p \in Shorted(a)' <=> j.step = "coinbase" /\ j.asset = a
  BY <1>1 DEF Bought, Shorted
<1> DEFINE B == Cardinality(Bought(a))
           S == Cardinality(Shorted(a))
<1>4. B \in Nat /\ S \in Nat
  BY HeldFinite
<1>5. /\ p \in Bought(a) /\ p \notin Bought(a)' => B' = B - 1
      /\ p \notin Bought(a) /\ p \in Bought(a)' => B' = B + 1
      /\ (p \in Bought(a) <=> p \in Bought(a)') => B' = B
  BY <1>2, HeldFinite, OneMember
<1>6. /\ p \in Shorted(a) /\ p \notin Shorted(a)' => S' = S - 1
      /\ p \notin Shorted(a) /\ p \in Shorted(a)' => S' = S + 1
      /\ (p \in Shorted(a) <=> p \in Shorted(a)') => S' = S
  BY <1>2, HeldFinite, OneMember
<1>7. Held(a) = B - S /\ Held(a)' = B' - S'
  BY DEF Held
<1> HIDE DEF B, S
<1>8. /\ B' = B - (IF p \in Bought(a) THEN 1 ELSE 0) + (IF p \in Bought(a)' THEN 1 ELSE 0)
      /\ S' = S - (IF p \in Shorted(a) THEN 1 ELSE 0) + (IF p \in Shorted(a)' THEN 1 ELSE 0)
  BY <1>4, <1>5, <1>6
<1>9. /\ Part(job[p], a) = (IF p \in Bought(a) THEN 1 ELSE 0) - (IF p \in Shorted(a) THEN 1 ELSE 0)
      /\ Part(j, a) = (IF p \in Bought(a)' THEN 1 ELSE 0) - (IF p \in Shorted(a)' THEN 1 ELSE 0)
  BY <1>3 DEF Part
<1>10. QED
  BY <1>4, <1>7, <1>8, <1>9

-----------------------------------------------------------------------------
(* The steps of an entry.                                                  *)

InCarry == {"basis_perp", "coinbase", "unwind"}

LEMMA ExposureType ==
    ASSUME Positions, NEW a \in Assets
    PROVE  /\ Exposure(a) \in Int /\ misread[a] \in Int
           /\ spot[a] \in Int /\ perp[a] \in Int /\ cb[a] \in Int
<1>1. spot[a] \in Int /\ perp[a] \in Int /\ cb[a] \in Int /\ misread[a] \in Int
  BY DEF Positions, Legs
<1>2. QED
  BY <1>1 DEF Exposure

\* What an entry holds, what was misread and what the venues hold change together, or
\* somebody is told: what the step by which an entry goes on to j changes of a.
Agrees(p, j, a) ==
    Exposure(a)' - Exposure(a) = Part(j, a) - Part(job[p], a) + misread'[a] - misread[a]

LEMMA EntryMoves ==
    ASSUME CarryInv, NEW p \in Processes, NEW j, job' = [job EXCEPT ![p] = j],
           spot' \in Legs, perp' \in Legs, cb' \in Legs, misread' \in Legs,
           alarms \subseteq alarms', cut \subseteq cut',
           \A a \in Assets : Told(a)' \/ Agrees(p, j, a),
           j.step = "unwind" => j.asset \in alarms' \cup cut',
           j.step \in InCarry => j.basis > 0
    PROVE  CarryInv'
<1>1. Positions'
  BY NextJob DEF CarryInv, Positions
<1>2. job'[p] = j /\ \A q \in Processes : q # p => job'[q] = job[q]
  BY NextJob DEF CarryInv
<1>3. NoBackwardation'
  BY <1>2 DEF CarryInv, NoBackwardation, InCarry
<1>4. \A a : Told(a) => Told(a)'
  BY DEF Told
<1>5. UnwindsTold'
  BY <1>2, <1>4 DEF CarryInv, UnwindsTold, Told
<1>6. ASSUME NEW a \in Assets, ~Told(a)' PROVE Exposure(a)' = Held(a)' + misread'[a]
  <2>1. Exposure(a) = Held(a) + misread[a]
    BY <1>4, <1>6 DEF CarryInv, Balanced
  <2>2. /\ Held(a) \in Int /\ Exposure(a) \in Int /\ Exposure(a)' \in Int
        /\ misread[a] \in Int /\ misread'[a] \in Int
    BY HeldFinite, ExposureType DEF CarryInv, Positions, Exposure, Legs
  <2>3. Held(a)' = Held(a) - Part(job[p], a) + Part(j, a)
    BY HeldChanges DEF CarryInv
  <2>4. Part(j, a) \in Int /\ Part(job[p], a) \in Int
    BY DEF Part
  <2>5. Exposure(a)' - Exposure(a) = Part(j, a) - Part(job[p], a) + misread'[a] - misread[a]
    BY <1>6 DEF Agrees
  <2>6. \A x, y, h, i, m, n, s, t \in Int :
           x = h + m /\ i = h - s + t /\ y - x = t - s + n - m => y = i + n
    OBVIOUS
  <2>7. Held(a)' \in Int
    BY HeldChanges DEF CarryInv
  <2>8. QED
    BY <2>1, <2>2, <2>3, <2>4, <2>5, <2>6, <2>7
<1>7. QED
  BY <1>1, <1>3, <1>5, <1>6 DEF CarryInv, Balanced

\* One more, or one less, of an asset.
Units == {-1, 0, 1}

LEMMA LegMoves ==
    ASSUME NEW f \in Legs, NEW x, NEW d \in Units
    PROVE  /\ Add(f, x, d) \in Legs
           /\ \A a \in Assets : Add(f, x, d)[a] = f[a] + (IF a = x THEN d ELSE 0)
<1> DEFINE g == Add(f, x, d)
<1>1. f \in [Assets -> Int] /\ \A a \in Assets : f[a] \in Int
  BY DEF Legs
<1>2. CASE x \in Assets
  BY <1>1, <1>2 DEF Legs, Units, Add
<1>3. CASE x \notin Assets
  <2>1. g = f
    BY <1>1, <1>3 DEF Add
  <2> HIDE DEF g
  <2>2. ASSUME NEW a \in Assets PROVE g[a] = f[a] + 0 /\ a # x
    BY <1>1, <1>3, <2>1
  <2>3. g \in Legs /\ \A a \in Assets : g[a] = f[a] + (IF a = x THEN d ELSE 0)
    BY <2>1, <2>2
  <2>4. QED
    BY <2>3 DEF g
<1>4. QED
  BY <1>2, <1>3

LEMMA UnitMoves ==
    ASSUME NEW b \in BOOLEAN
    PROVE  Unit(b) \in Units /\ Unit(b) = IF b THEN 1 ELSE 0
  BY DEF Unit, Units

\* What was done is what it was taken for, and what is beyond that.
LEMMA Answered ==
    ASSUME NEW dry, NEW o \in LegOutcomes(dry)
    PROVE  /\ Unit(o.filled) \in Units /\ Beyond(dry, o) \in Units /\ -Beyond(dry, o) \in Units
           /\ Unit(o.filled) = Beyond(dry, o) + (IF o.ok /\ ~dry THEN 1 ELSE 0)
<1>1. o.ok \in BOOLEAN /\ o.filled \in BOOLEAN /\ (dry => ~o.filled)
  BY DEF LegOutcomes
<1>2. /\ Unit(o.filled) = (IF o.filled THEN 1 ELSE 0) /\ Unit(o.ok) = (IF o.ok THEN 1 ELSE 0)
      /\ Beyond(dry, o) = IF dry THEN 0 ELSE Unit(o.filled) - Unit(o.ok)
  BY DEF Unit, Beyond
<1> DEFINE f == Unit(o.filled)
           k == IF o.ok /\ ~dry THEN 1 ELSE 0
<1>3. f \in {0, 1} /\ k \in {0, 1}
  BY <1>1, <1>2
<1>4. Beyond(dry, o) = f - k
  <2>1. CASE dry
    <3>1. f = 0 /\ k = 0 /\ Beyond(dry, o) = 0
      BY <1>1, <1>2, <2>1
    <3> HIDE DEF f, k
    <3>2. QED
      BY <3>1
  <2>2. CASE ~dry
    <3>1. k = Unit(o.ok)
      BY <1>1, <1>2, <2>2
    <3>2. QED
      BY <1>2, <2>2, <3>1
  <2>3. QED
    BY <2>1, <2>2
<1> HIDE DEF f, k
<1>5. f \in Units /\ f - k \in Units /\ -(f - k) \in Units /\ f = (f - k) + k
  BY <1>3 DEF Units
<1>6. QED
  BY <1>4, <1>5 DEF f, k

LEMMA ArbSpotStep ==
    ASSUME CarryInv, NEW p \in Processes, ArbSpotLeg(p)
    PROVE  CarryInv'
<1>1. PICK o \in LegOutcomes(job[p].dry) :
        /\ spot' = Add(spot, job[p].asset, Unit(o.filled))
        /\ misread' = Add(misread, job[p].asset, Beyond(job[p].dry, o))
        /\ InArb(p, "perp", job[p].asset, job[p].dry, o.ok)
  BY DEF ArbSpotLeg
<1> DEFINE x == job[p].asset
           j == [step |-> "perp", asset |-> x, dry |-> job[p].dry, ok |-> o.ok]
           d == Unit(o.filled)
           g == Beyond(job[p].dry, o)
           k == IF o.ok /\ ~job[p].dry THEN 1 ELSE 0
<1>2. /\ job[p].step = "spot" /\ perp' = perp /\ cb' = cb /\ alarms' = alarms /\ cut' = cut
      /\ job' = [job EXCEPT ![p] = j]
  BY <1>1 DEF ArbSpotLeg, InArb
<1>3. j.step = "perp" /\ j.asset = x /\ (j.ok <=> o.ok) /\ (j.dry <=> job[p].dry)
  OBVIOUS
<1>4. d \in Units /\ g \in Units /\ k \in Int /\ d = g + k
  BY <1>1, Answered
<1>5. spot' = Add(spot, x, d) /\ misread' = Add(misread, x, g) /\ spot \in Legs /\ misread \in Legs
  BY <1>1 DEF CarryInv, Positions
<1>6. \A a : Part(j, a) = (IF a = x THEN k ELSE 0) /\ Part(job[p], a) = 0
  BY <1>2, <1>3 DEF Part
<1> HIDE DEF d, g, k, j, x
<1>7. /\ spot' \in Legs /\ \A a \in Assets : spot'[a] = spot[a] + (IF a = x THEN d ELSE 0)
      /\ misread' \in Legs /\ \A a \in Assets : misread'[a] = misread[a] + (IF a = x THEN g ELSE 0)
  BY <1>4, <1>5, LegMoves
<1>8. ASSUME NEW a \in Assets PROVE Agrees(p, j, a)
  <2>1. d \in Int /\ Exposure(a)' - Exposure(a) = IF a = x THEN d ELSE 0
    BY <1>2, <1>4, <1>7, ExposureType DEF CarryInv, Exposure, Units
  <2>2. g \in Int /\ misread'[a] - misread[a] = (IF a = x THEN g ELSE 0) /\ misread'[a] \in Int /\ misread[a] \in Int
    BY <1>4, <1>7, ExposureType DEF CarryInv, Units, Legs
  <2>3. QED
    BY <1>4, <1>6, <2>1, <2>2 DEF Agrees
<1>9. j.step # "unwind" /\ j.step \notin InCarry
  BY <1>3 DEF InCarry
<1>10. QED
  BY <1>2, <1>7, <1>8, <1>9, EntryMoves DEF CarryInv, Positions

LEMMA IdleIsOver == Idle.step = "idle" /\ \A a : Part(Idle, a) = 0
  BY DEF Idle, Part

LEMMA ArbPerpStep ==
    ASSUME CarryInv, NEW p \in Processes, ArbPerpLeg(p)
    PROVE  CarryInv'
<1>1. PICK o \in LegOutcomes(job[p].dry) :
        /\ perp' = Add(perp, job[p].asset, Unit(o.filled))
        /\ misread' = Add(misread, job[p].asset, -Beyond(job[p].dry, o))
        /\ alarms' = IF o.ok # job[p].ok THEN alarms \cup {job[p].asset} ELSE alarms
        /\ Done(p)
  BY DEF ArbPerpLeg
<1> DEFINE x == job[p].asset
           d == Unit(o.filled)
           g == -Beyond(job[p].dry, o)
           k == IF o.ok /\ ~job[p].dry THEN 1 ELSE 0
<1>2. /\ job[p].step = "perp" /\ spot' = spot /\ cb' = cb /\ cut' = cut /\ job' = [job EXCEPT ![p] = Idle]
  BY <1>1 DEF ArbPerpLeg, Done
<1>3. alarms \subseteq alarms' /\ (x \in alarms' \/ o.ok = job[p].ok)
  BY <1>1
<1>4. d \in Units /\ g \in Units /\ k \in Int /\ d = k - g
  BY <1>1, Answered DEF Units
<1>5. perp' = Add(perp, x, d) /\ misread' = Add(misread, x, g) /\ perp \in Legs /\ misread \in Legs
  BY <1>1 DEF CarryInv, Positions
<1>6. \A a : /\ Part(Idle, a) = 0
             /\ o.ok = job[p].ok => Part(job[p], a) = IF a = x THEN k ELSE 0
             /\ a # x => Part(job[p], a) = 0
  BY <1>2, IdleIsOver DEF Part
<1> HIDE DEF d, g, k, x
<1>7. /\ perp' \in Legs /\ \A a \in Assets : perp'[a] = perp[a] + (IF a = x THEN d ELSE 0)
      /\ misread' \in Legs /\ \A a \in Assets : misread'[a] = misread[a] + (IF a = x THEN g ELSE 0)
  BY <1>4, <1>5, LegMoves
<1>8. ASSUME NEW a \in Assets PROVE Told(a)' \/ Agrees(p, Idle, a)
  <2>1. d \in Int /\ Exposure(a)' - Exposure(a) = IF a = x THEN -d ELSE 0
    BY <1>2, <1>4, <1>7, ExposureType DEF CarryInv, Exposure, Units
  <2>2. g \in Int /\ misread'[a] - misread[a] = (IF a = x THEN g ELSE 0) /\ misread'[a] \in Int /\ misread[a] \in Int
    BY <1>4, <1>7, ExposureType DEF CarryInv, Units, Legs
  <2>3. CASE a = x /\ x \in alarms'
    BY <2>3 DEF Told
  <2>4. CASE a # x \/ o.ok = job[p].ok
    <3>1. Part(Idle, a) = 0 /\ Part(job[p], a) = IF a = x THEN k ELSE 0
      BY <1>6, <2>4
    <3>2. QED
      BY <1>4, <2>1, <2>2, <3>1 DEF Agrees
  <2>5. QED
    BY <1>3, <2>3, <2>4
<1>9. QED
  BY <1>2, <1>3, <1>7, <1>8, IdleIsOver, EntryMoves DEF CarryInv, Positions, InCarry

\* What an answered basis leg adds.
LEMMA BasisAnswer ==
    ASSUME NEW o \in LegOutcomes(FALSE)
    PROVE  /\ Unit(o.filled) \in Units /\ Beyond(FALSE, o) \in Units /\ -Beyond(FALSE, o) \in Units
           /\ Unit(o.filled) = Beyond(FALSE, o) + (IF o.ok THEN 1 ELSE 0)
  BY Answered

LEMMA BasisPerpStep ==
    ASSUME CarryInv, NEW p \in Processes, BasisPerpLeg(p)
    PROVE  CarryInv'
<1>1. PICK o \in LegOutcomes(FALSE) :
        /\ perp' = Add(perp, job[p].asset, Unit(o.filled))
        /\ misread' = Add(misread, job[p].asset, -Beyond(FALSE, o))
        /\ IF o.ok /\ job[p].basis > 0
           THEN InBasis(p, "coinbase", job[p].asset, job[p].basis) ELSE Done(p)
  BY DEF BasisPerpLeg
<1> DEFINE x == job[p].asset
           d == Unit(o.filled)
           g == -Beyond(FALSE, o)
           k == IF o.ok THEN 1 ELSE 0
           c == [step |-> "coinbase", asset |-> x, basis |-> job[p].basis]
           j == IF o.ok THEN c ELSE Idle
<1>2. /\ job[p].step = "basis_perp" /\ spot' = spot /\ cb' = cb /\ alarms' = alarms /\ cut' = cut
      /\ job[p].basis > 0
  BY <1>1 DEF BasisPerpLeg, CarryInv, NoBackwardation
<1>3. job' = [job EXCEPT ![p] = j]
  BY <1>1, <1>2 DEF InBasis, Done
<1>4. d \in Units /\ g \in Units /\ k \in Int /\ d = k - g
  <2> DEFINE b == Beyond(FALSE, o)
  <2>1. d \in Units /\ b \in Units /\ g \in Units /\ d = b + k
    BY <1>1, BasisAnswer
  <2>2. g = -b /\ k \in Int
    OBVIOUS
  <2> HIDE DEF b, d, g, k
  <2>3. QED
    BY <2>1, <2>2 DEF Units
<1>5. c.step = "coinbase" /\ c.asset = x /\ c.basis > 0
  BY <1>2
<1>6. perp' = Add(perp, x, d) /\ misread' = Add(misread, x, g) /\ perp \in Legs /\ misread \in Legs
  BY <1>1 DEF CarryInv, Positions
<1> HIDE DEF d, g, c
<1>7. j.step # "unwind" /\ (j.step \in InCarry => j.basis > 0)
  BY <1>5, IdleIsOver DEF InCarry
<1>8. \A a : Part(j, a) = (IF a = x THEN -k ELSE 0) /\ Part(job[p], a) = 0
  BY <1>2, <1>5, IdleIsOver DEF Part
<1> HIDE DEF x, j, k
<1>9. /\ perp' \in Legs /\ \A a \in Assets : perp'[a] = perp[a] + (IF a = x THEN d ELSE 0)
      /\ misread' \in Legs /\ \A a \in Assets : misread'[a] = misread[a] + (IF a = x THEN g ELSE 0)
  BY <1>4, <1>6, LegMoves
<1>10. ASSUME NEW a \in Assets PROVE Agrees(p, j, a)
  <2>1. d \in Int /\ Exposure(a)' - Exposure(a) = IF a = x THEN -d ELSE 0
    BY <1>2, <1>4, <1>9, ExposureType DEF CarryInv, Exposure, Units
  <2>2. g \in Int /\ misread'[a] - misread[a] = (IF a = x THEN g ELSE 0) /\ misread'[a] \in Int /\ misread[a] \in Int
    BY <1>4, <1>9, ExposureType DEF CarryInv, Units, Legs
  <2>3. QED
    BY <1>4, <1>8, <2>1, <2>2 DEF Agrees
<1>11. QED
  BY <1>2, <1>3, <1>7, <1>9, <1>10, EntryMoves DEF CarryInv, Positions

LEMMA BasisCoinbaseStep ==
    ASSUME CarryInv, NEW p \in Processes, BasisCoinbaseLeg(p)
    PROVE  CarryInv'
<1>1. PICK o \in LegOutcomes(FALSE) :
        /\ cb' = Add(cb, job[p].asset, Unit(o.filled))
        /\ misread' = Add(misread, job[p].asset, Beyond(FALSE, o))
        /\ alarms' = IF o.ok THEN alarms ELSE alarms \cup {job[p].asset}
        /\ IF o.ok THEN Done(p) ELSE InBasis(p, "unwind", job[p].asset, job[p].basis)
  BY DEF BasisCoinbaseLeg
<1> DEFINE x == job[p].asset
           d == Unit(o.filled)
           g == Beyond(FALSE, o)
           k == IF o.ok THEN 1 ELSE 0
           c == [step |-> "unwind", asset |-> x, basis |-> job[p].basis]
           j == IF o.ok THEN Idle ELSE c
<1>2. /\ job[p].step = "coinbase" /\ spot' = spot /\ perp' = perp /\ cut' = cut
      /\ job[p].basis > 0
  BY <1>1 DEF BasisCoinbaseLeg, CarryInv, NoBackwardation
<1>3. job' = [job EXCEPT ![p] = j]
  BY <1>1 DEF InBasis, Done
<1>4. d \in Units /\ g \in Units /\ d = g + k /\ (o.ok => k = 1)
  BY <1>1, BasisAnswer
<1>5. alarms \subseteq alarms' /\ (~o.ok => x \in alarms')
  BY <1>1
<1>6. c.step = "unwind" /\ c.asset = x /\ c.basis > 0
  BY <1>2
<1>7. cb' = Add(cb, x, d) /\ misread' = Add(misread, x, g) /\ cb \in Legs /\ misread \in Legs
  BY <1>1 DEF CarryInv, Positions
<1> HIDE DEF d, g, k, c
<1>8. (j.step = "unwind" => j.asset \in alarms' \cup cut') /\ (j.step \in InCarry => j.basis > 0)
  BY <1>5, <1>6, IdleIsOver DEF InCarry
<1>9. \A a : /\ o.ok => Part(j, a) = 0
             /\ a # x => Part(j, a) = 0
             /\ Part(job[p], a) = IF a = x THEN -1 ELSE 0
  BY <1>2, <1>6, IdleIsOver DEF Part
<1> HIDE DEF x, j
<1>10. /\ cb' \in Legs /\ \A a \in Assets : cb'[a] = cb[a] + (IF a = x THEN d ELSE 0)
       /\ misread' \in Legs /\ \A a \in Assets : misread'[a] = misread[a] + (IF a = x THEN g ELSE 0)
  BY <1>4, <1>7, LegMoves
<1>11. ASSUME NEW a \in Assets PROVE Told(a)' \/ Agrees(p, j, a)
  <2>1. d \in Int /\ Exposure(a)' - Exposure(a) = IF a = x THEN d ELSE 0
    BY <1>2, <1>4, <1>10, ExposureType DEF CarryInv, Exposure, Units
  <2>2. g \in Int /\ misread'[a] - misread[a] = (IF a = x THEN g ELSE 0) /\ misread'[a] \in Int /\ misread[a] \in Int
    BY <1>4, <1>10, ExposureType DEF CarryInv, Units, Legs
  <2>3. CASE a = x /\ ~o.ok
    BY <1>5, <2>3 DEF Told
  <2>4. CASE a # x
    BY <1>9, <2>1, <2>2, <2>4 DEF Agrees
  <2>5. CASE a = x /\ o.ok
    BY <1>4, <1>9, <2>1, <2>2, <2>5 DEF Agrees
  <2>6. QED
    BY <2>3, <2>4, <2>5
<1>12. QED
  BY <1>2, <1>3, <1>5, <1>8, <1>10, <1>11, EntryMoves DEF CarryInv, Positions

LEMMA BasisUnwindStep ==
    ASSUME CarryInv, NEW p \in Processes, BasisUnwind(p)
    PROVE  CarryInv'
<1> DEFINE x == job[p].asset
<1>1. /\ job[p].step = "unwind" /\ spot' = spot /\ cb' = cb /\ alarms' = alarms /\ cut' = cut
      /\ misread' = misread
      /\ job' = [job EXCEPT ![p] = Idle]
      /\ perp' = perp \/ perp' = [perp EXCEPT ![x] = @ - 1]
  BY DEF BasisUnwind, Done
<1>2. x \in alarms' \cup cut' /\ perp \in Legs
  BY <1>1 DEF CarryInv, UnwindsTold, Told, Positions
<1> HIDE DEF x
<1>3. perp' \in Legs /\ \A a \in Assets : a # x => perp'[a] = perp[a]
  <2>1. CASE perp' = perp
    BY <1>2, <2>1
  <2>2. CASE perp' = [perp EXCEPT ![x] = @ - 1] /\ x \in Assets
    BY <1>2, <2>2 DEF Legs
  <2>3. CASE perp' = [perp EXCEPT ![x] = @ - 1] /\ x \notin Assets
    <3>1. perp' = perp
      BY <1>2, <2>3 DEF Legs
    <3>2. QED
      BY <1>2, <3>1
  <2>4. QED
    BY <1>1, <2>1, <2>2, <2>3
<1>4. ASSUME NEW a \in Assets
      PROVE  Told(a)' \/ Agrees(p, Idle, a)
  <2>1. Part(Idle, a) = 0 /\ Part(job[p], a) = 0
    BY <1>1, IdleIsOver DEF Part
  <2>2. a # x => Exposure(a)' = Exposure(a)
    BY <1>1, <1>3 DEF Exposure
  <2>3. Exposure(a) \in Int /\ misread[a] \in Int
    BY ExposureType DEF CarryInv
  <2>4. QED
    BY <1>1, <1>2, <2>1, <2>2, <2>3 DEF Told, Agrees
<1>5. QED
  BY <1>1, <1>3, <1>4, IdleIsOver, EntryMoves DEF CarryInv, Positions, InCarry

LEMMA EntrySteps ==
    ASSUME CarryInv, NEW p \in Processes, EntryStep(p)
    PROVE  CarryInv'
  BY ArbSpotStep, ArbPerpStep, BasisPerpStep, BasisCoinbaseStep, BasisUnwindStep DEF EntryStep

\* An entry that begins holds nothing.
LEMMA EntryBegins ==
    ASSUME CarryInv, NEW p \in Processes, job[p] = Idle, NEW j, job' = [job EXCEPT ![p] = j],
           j.step = "spot" \/ (j.step = "basis_perp" /\ j.basis > 0),
           UNCHANGED <<spot, perp, cb, alarms, cut, misread>>
    PROVE  CarryInv'
<1>1. ASSUME NEW a \in Assets PROVE Agrees(p, j, a)
  <2>1. Part(j, a) = 0 /\ Part(job[p], a) = 0
    BY IdleIsOver DEF Part
  <2>2. Exposure(a)' = Exposure(a) /\ Exposure(a) \in Int /\ misread[a] \in Int
    BY ExposureType DEF Exposure, CarryInv
  <2>3. QED
    BY <2>1, <2>2 DEF Agrees
<1>2. j.step # "unwind" /\ (j.step \in InCarry => j.basis > 0)
  BY DEF InCarry
<1>3. /\ spot' \in Legs /\ perp' \in Legs /\ cb' \in Legs /\ misread' \in Legs
      /\ alarms \subseteq alarms' /\ cut \subseteq cut'
  BY DEF CarryInv, Positions
<1>4. QED
  BY <1>1, <1>2, <1>3, EntryMoves

\* An entry that a crash cuts short is cut.
LEMMA EntryForgotten ==
    ASSUME CarryInv, NEW p \in Processes, ForgetEntry(p), UNCHANGED <<spot, perp, cb, alarms, misread>>
    PROVE  CarryInv'
<1>1. /\ job' = [job EXCEPT ![p] = Idle] /\ cut \subseteq cut' /\ alarms \subseteq alarms'
      /\ job[p] = Idle \/ job[p].asset \in cut'
  BY DEF ForgetEntry, Done
<1>2. ASSUME NEW a \in Assets
      PROVE  Told(a)' \/ Agrees(p, Idle, a)
  <2>1. Part(Idle, a) = 0 /\ (job[p] = Idle \/ a # job[p].asset => Part(job[p], a) = 0)
    BY IdleIsOver DEF Part
  <2>2. Exposure(a)' = Exposure(a) /\ Exposure(a) \in Int /\ misread[a] \in Int
    BY ExposureType DEF Exposure, CarryInv
  <2>3. QED
    BY <1>1, <2>1, <2>2 DEF Told, Agrees
<1>3. spot' \in Legs /\ perp' \in Legs /\ cb' \in Legs /\ misread' \in Legs
  BY DEF CarryInv, Positions
<1>4. QED
  BY <1>1, <1>2, <1>3, IdleIsOver, EntryMoves DEF InCarry

-----------------------------------------------------------------------------
(* The runner and the monitor.                                             *)

\* The runner is at its entry as long as there is one: of a trade on Hyperliquid, with the
\* runner's own dry_run.
RunnerEnters ==
    /\ job["runner"] # Idle =>
          pc = "entering" /\ job["runner"].step \in {"spot", "perp"} /\ job["runner"].dry = cfg.dry_run
    /\ pc = "entering" => Current.exchange = "hyperliquid"

LEMMA CarryStays ==
    ASSUME CarryInv, UNCHANGED <<spot, perp, cb, job, alarms, cut, misread>>
    PROVE  CarryInv'
  BY DEF CarryInv, Positions, NoBackwardation, UnwindsTold, Balanced, Told, Exposure, Held, Bought, Shorted

\* A basis is only taken in contango.
LEMMA BasisPositive ==
    ASSUME NEW rate, NEW basis \in BasisSeen, Carry(rate, basis) = "basis"
    PROVE  basis > 0
<1>1. basis \in Int /\ MinAnnual \in Nat
  BY FundingAssumption DEF BasisSeen
<1>2. BasisAnnual(basis) > MinAnnual
  BY DEF Carry
<1>3. QED
  BY <1>1, <1>2 DEF BasisAnnual

LEMMA MonitorSteps ==
    ASSUME CarryInv, NextFunding
    PROVE  CarryInv'
<1>1. "monitor" \in Processes
  BY FundingAssumption
<1>2. CASE BeginScan \/ EndScan \/ WindowMoves
  BY <1>2, CarryStays DEF BeginScan, EndScan, WindowMoves
<1>3. CASE ScanAsset
  <2>1. UNCHANGED <<spot, perp, cb, alarms, cut, misread>> /\ job["monitor"] = Idle
    BY <1>3 DEF ScanAsset
  <2>2. PICK a \in DOMAIN monitor.rates, basis \in BasisSeen :
          \/ StartArb("monitor", a, HlDryRun)
          \/ Carry(monitor.rates[a], basis) = "basis" /\ StartBasis("monitor", a, basis)
          \/ UNCHANGED job
    BY <1>3 DEF ScanAsset
  <2>3. CASE StartArb("monitor", a, HlDryRun)
    <3> DEFINE j == [step |-> "spot", asset |-> a, dry |-> HlDryRun, ok |-> FALSE]
    <3>1. job' = [job EXCEPT !["monitor"] = j] /\ j.step = "spot"
      BY <2>3 DEF StartArb, InArb
    <3> HIDE DEF j
    <3>2. QED
      BY <1>1, <2>1, <3>1, EntryBegins
  <2>4. CASE Carry(monitor.rates[a], basis) = "basis" /\ StartBasis("monitor", a, basis)
    <3> DEFINE j == [step |-> "basis_perp", asset |-> a, basis |-> basis]
    <3>1. job' = [job EXCEPT !["monitor"] = j] /\ j.step = "basis_perp" /\ j.basis = basis
      BY <2>4 DEF StartBasis, InBasis
    <3>2. basis > 0
      BY <2>4, BasisPositive
    <3> HIDE DEF j
    <3>3. QED
      BY <1>1, <2>1, <3>1, <3>2, EntryBegins
  <2>5. QED
    BY <2>1, <2>2, <2>3, <2>4, CarryStays
<1>4. CASE EntryStep("monitor")
  BY <1>1, <1>4, EntrySteps
<1>5. CASE MonitorRestarts
  BY <1>1, <1>5, EntryForgotten DEF MonitorRestarts
<1>6. QED
  BY <1>2, <1>3, <1>4, <1>5 DEF NextFunding, MonitorStep

\* The steps of the runner that are no steps of an entry.
LEMMA RunnerBetween ==
    ASSUME RunnerEnters,
           \/ EvaluateSpot \/ EvaluateOther \/ Gate \/ ExecuteDry \/ ExecuteCoinbase
           \/ FundingEntered \/ Record \/ Report \/ Wake
           \/ Sigterm \/ CooldownEnds \/ Midnight \/ MarketMoves
    PROVE  UNCHANGED <<spot, perp, cb, job, alarms, cut, misread>> /\ RunnerEnters'
<1>1. CASE EvaluateSpot \/ EvaluateOther
  BY <1>1 DEF EvaluateSpot, EvaluateOther, AtStrategy, vars_funding, RunnerEnters
<1>2. CASE Gate
  BY <1>2 DEF Gate, vars_funding, RunnerEnters, Current
<1>3. CASE ExecuteDry \/ ExecuteCoinbase
  BY <1>3 DEF ExecuteDry, ExecuteCoinbase, vars_funding, RunnerEnters, Current
<1>4. CASE FundingEntered \/ Record
  BY <1>4 DEF FundingEntered, Record, vars_funding, RunnerEnters, Current
<1>5. CASE Report \/ Wake
  BY <1>5 DEF Report, Wake, Between, vars_funding, RunnerEnters, Current
<1>6. CASE Sigterm \/ CooldownEnds \/ Midnight \/ MarketMoves
  BY <1>6 DEF Sigterm, CooldownEnds, Midnight, MarketMoves, vars_funding, RunnerEnters, Current
<1>7. QED
  BY <1>1, <1>2, <1>3, <1>4, <1>5, <1>6

LEMMA CarryInit == Init => CarryInv /\ RunnerEnters
<1> SUFFICES ASSUME Init PROVE CarryInv /\ RunnerEnters
  OBVIOUS
<1>1. /\ job = [p \in Processes |-> Idle]
      /\ spot = [a \in Assets |-> 0] /\ perp = spot /\ cb = spot /\ misread = spot
  BY DEF Init, InitFunding
<1>2. Positions
  BY <1>1 DEF Positions, Legs
<1>3. \A p \in Processes : job[p].step = "idle"
  BY <1>1, IdleIsOver
<1>4. NoBackwardation /\ UnwindsTold /\ RunnerEnters
  BY <1>1, <1>3, RunnerAssumption DEF NoBackwardation, UnwindsTold, RunnerEnters, Init
<1>5. ASSUME NEW a \in Assets PROVE Exposure(a) = Held(a) + misread[a]
  <2>1. Exposure(a) = 0 /\ misread[a] = 0
    BY <1>1 DEF Exposure
  <2>2. Bought(a) = {} /\ Shorted(a) = {}
    BY <1>3 DEF Bought, Shorted
  <2>3. Cardinality({}) = 0
    BY FS_EmptySet
  <2>4. QED
    BY <2>1, <2>2, <2>3 DEF Held
<1>6. QED
  BY <1>2, <1>4, <1>5 DEF CarryInv, Balanced

\* The monitor's process leaves the runner's entry alone.
LEMMA MonitorLeaves ==
    ASSUME CarryInv, NextFunding
    PROVE  job'["runner"] = job["runner"]
<1>1. "runner" \in Processes /\ "runner" # "monitor"
  BY RunnerAssumption
<1>2. job' = job \/ \E j : job' = [job EXCEPT !["monitor"] = j]
  BY DEF NextFunding, MonitorStep, BeginScan, ScanAsset, EndScan, WindowMoves, MonitorRestarts,
     ForgetEntry, EntryStep, ArbSpotLeg, ArbPerpLeg, BasisPerpLeg, BasisCoinbaseLeg, BasisUnwind, StartArb,
     StartBasis, InArb, InBasis, Done
<1>3. QED
  BY <1>1, <1>2 DEF CarryInv, Positions

LEMMA CarryStep == CarryInv /\ RunnerEnters /\ [Next]_vars => CarryInv' /\ RunnerEnters'
<1> SUFFICES ASSUME CarryInv, RunnerEnters, [Next]_vars PROVE CarryInv' /\ RunnerEnters'
  OBVIOUS
<1>1. "runner" \in Processes /\ "monitor" \in Processes /\ "runner" # "monitor"
  BY RunnerAssumption, FundingAssumption
<1>2. CASE \/ EvaluateSpot \/ EvaluateOther \/ Gate \/ ExecuteDry \/ ExecuteCoinbase
           \/ FundingEntered \/ Record \/ Report \/ Wake
           \/ Sigterm \/ CooldownEnds \/ Midnight \/ MarketMoves
  BY <1>2, RunnerBetween, CarryStays
<1>3. CASE EnterFunding
  <2> DEFINE j == [step |-> "spot", asset |-> Current.asset, dry |-> cfg.dry_run, ok |-> FALSE]
  <2>1. /\ job' = [job EXCEPT !["runner"] = j] /\ j.step = "spot" /\ pc = "execute" /\ pc' = "entering"
        /\ UNCHANGED <<spot, perp, cb, alarms, cut, misread, cfg, turn, selected>>
        /\ Current.exchange = "hyperliquid" /\ j.dry = cfg.dry_run
    BY <1>3 DEF EnterFunding, StartArb, InArb
  <2> HIDE DEF j
  <2>2. job["runner"] = Idle
    BY <2>1 DEF RunnerEnters
  <2>3. job'["runner"] = j
    BY <1>1, <2>1 DEF CarryInv, Positions
  <2>4. RunnerEnters'
    BY <2>1, <2>3 DEF RunnerEnters, Current
  <2>5. QED
    BY <1>1, <2>1, <2>2, <2>4, EntryBegins
<1>4. CASE EnterLeg
  <2>1. EntryStep("runner") /\ job["runner"].step # "idle" /\ pc' = pc
    BY <1>4 DEF EnterLeg, EntryStep, ArbSpotLeg, ArbPerpLeg
  <2>2. CarryInv'
    BY <1>1, <2>1, EntrySteps
  <2>3. pc = "entering" /\ job["runner"].dry = cfg.dry_run /\ Current.exchange = "hyperliquid"
    BY <2>1, IdleIsOver DEF RunnerEnters
  <2>4. UNCHANGED <<cfg, turn, selected>>
    BY <1>4 DEF EnterLeg
  <2>5. job'["runner"] = Idle \/ (job'["runner"].step = "perp" /\ job'["runner"].dry = cfg.dry_run)
    <3>1. CASE ArbSpotLeg("runner")
      <4>1. PICK ok : InArb("runner", "perp", job["runner"].asset, job["runner"].dry, ok)
        BY <3>1 DEF ArbSpotLeg
      <4> DEFINE j == [step |-> "perp", asset |-> job["runner"].asset, dry |-> job["runner"].dry, ok |-> ok]
      <4>2. job' = [job EXCEPT !["runner"] = j] /\ j.step = "perp" /\ j.dry = job["runner"].dry
        BY <4>1 DEF InArb
      <4> HIDE DEF j
      <4>3. QED
        BY <1>1, <2>3, <4>2 DEF CarryInv, Positions
    <3>2. CASE ArbPerpLeg("runner")
      BY <1>1, <3>2 DEF ArbPerpLeg, Done, CarryInv, Positions
    <3>3. QED
      BY <1>4, <3>1, <3>2 DEF EnterLeg
  <2>6. QED
    BY <2>1, <2>2, <2>3, <2>4, <2>5 DEF RunnerEnters, Current
<1>5. CASE NextFunding /\ UNCHANGED vars_runner
  <2>1. CarryInv'
    BY <1>5, MonitorSteps
  <2>2. job'["runner"] = job["runner"]
    BY <1>5, MonitorLeaves
  <2>3. UNCHANGED <<cfg, pc, turn, selected>>
    BY <1>5 DEF vars_runner
  <2>4. QED
    BY <2>1, <2>2, <2>3 DEF RunnerEnters, Current
<1>6. CASE RunnerRestarts
  <2>1. CarryInv' /\ job' = [job EXCEPT !["runner"] = Idle]
    BY <1>1, <1>6, EntryForgotten DEF RunnerRestarts, ForgetEntry, Done
  <2>2. job'["runner"] = Idle /\ pc' = "sleep"
    BY <1>1, <1>6, <2>1 DEF CarryInv, Positions, RunnerRestarts
  <2>3. QED
    BY <2>1, <2>2 DEF RunnerEnters
<1>7. CASE UNCHANGED vars
  BY <1>7, CarryStays DEF vars, vars_funding, vars_runner, RunnerEnters, Current
<1>8. QED
  BY <1>2, <1>3, <1>4, <1>5, <1>6, <1>7 DEF Next, RunnerStep

LEMMA CarryAlways == Spec => [](CarryInv /\ RunnerEnters)
  BY CarryInit, CarryStep, PTL DEF Spec

\* An asset without a CRITICAL line, with no entry of it under way and none cut in two by the end of
\* its process, is exposed by exactly the answers the program misread, a refusal in a body taken for
\* success or an order whose answer was lost (enter_arb, open_basis_trade): whoever enters, and however
\* often.
THEOREM OneSidedIsMisread == Spec => []UnreportedIsMisread
<1>1. CarryInv => UnreportedIsMisread
  <2> SUFFICES ASSUME CarryInv, NEW a \in Assets, ~Entering(a), ~Told(a) PROVE Exposure(a) = misread[a]
    BY DEF UnreportedIsMisread, Told
  <2>1. Bought(a) = {} /\ Shorted(a) = {}
    BY IdleIsOver DEF Entering, Bought, Shorted
  <2>2. Exposure(a) = Cardinality({}) - Cardinality({}) + misread[a] /\ misread[a] \in Int
    BY <2>1, ExposureType DEF CarryInv, Balanced, Held
  <2>3. QED
    BY <2>2, FS_EmptySet
<1>2. QED
  BY <1>1, CarryAlways, PTL

\* No entry is made in backwardation, which the order of its legs would get wrong (compare_carry,
\* open_basis_trade).
THEOREM CarryForward == Spec => []NoBackwardation
<1>1. CarryInv => NoBackwardation
  BY DEF CarryInv
<1>2. QED
  BY <1>1, CarryAlways, PTL
-----------------------------------------------------------------------------
(* The limits of a tick and of a day.                                      *)

\* A strategy trades on one exchange.
Venue(s) == IF s = "funding" THEN "hyperliquid" ELSE "coinbase"
TradeSet ==
    {t \in [strategy : Strategies, exchange : Exchanges, asset : Assets \cup {Asset},
            side : {"buy", "sell"}, notional : Nat, edge : Int] : t.exchange = Venue(t.strategy)}

RunnerTypes ==
    /\ cfg \in Profiles
    /\ pc \in {"evaluate", "execute", "record", "entering", "report", "sleep", "stopped"}
    /\ turn \in Nat \ {0} /\ accepted \in BOOLEAN /\ midnight \in BOOLEAN
    /\ proposals \in Seq(TradeSet) /\ selected \in Seq(TradeSet) /\ done \in Seq(TradeSet)
    /\ spent \in [Exchanges -> Nat] /\ traded \in [Exchanges -> Int] /\ uncounted \in [Exchanges -> Int]
    /\ base \in Int /\ usd \in Int /\ price \in Prices

\* The loop over the selected trades.
Executing == pc \in {"execute", "record", "entering"}

\* A strategy that was asked has at most one proposal.
OneEach ==
    /\ pc # "evaluate" => proposals = <<>>
    /\ \A i, j \in DOMAIN proposals : proposals[i].strategy = proposals[j].strategy => i = j
    /\ \A i \in DOMAIN proposals :
          \E k \in 1..Len(cfg.enabled) : k < turn /\ cfg.enabled[k] = proposals[i].strategy

\* What a selection guarantees: at most two trades, of two strategies that do not cool
\* down, each within what is left of the day and in size, not against each other, and
\* together within the limits of a tick.
EthPart(t) == IF IsEthBuy(t) THEN t.notional ELSE 0
Together(a, b) ==
    /\ a.strategy # b.strategy /\ ~AreConflicting(a, b)
    /\ a.notional + b.notional <= cfg.available_capital
    /\ cfg.max_eth > 0 => EthPart(a) + EthPart(b) <= cfg.max_eth
Alone(t) ==
    /\ t.notional <= cfg.per_trade
    /\ cfg.mode # "single_best" =>
          t.notional <= cfg.available_capital /\ (cfg.max_eth > 0 => EthPart(t) <= cfg.max_eth)
Sound(ts) ==
    /\ Len(ts) <= 2
    /\ \A i \in DOMAIN ts : Alone(ts[i])
    /\ Len(ts) = 2 => cfg.mode # "single_best" /\ Together(ts[1], ts[2])

\* Of the first n trades of ts, at most two, those of ds were done, in order.
Follows(n, ts, ds) ==
    \/ ds = <<>>
    \/ n >= 1 /\ Len(ts) >= 1 /\ ds = <<ts[1]>>
    \/ n >= 2 /\ Len(ts) = 2 /\ (ds = <<ts[2]>> \/ ds = <<ts[1], ts[2]>>)

\* How many trades have been decided.
Decided == IF pc = "execute" THEN turn - 1 ELSE IF pc = "report" THEN Len(selected) ELSE turn
Ordered ==
    /\ Sound(selected)
    /\ Executing => turn <= Len(selected)
    /\ ~Executing /\ pc # "report" => done = <<>>
    /\ Follows(Decided, selected, done)

\* The current trade reached its exchange, or is said to have, and is not recorded yet.
Unrecorded == pc = "entering" \/ (pc = "record" /\ accepted)
Owed(x) == IF Unrecorded /\ x = Current.exchange THEN Current.notional ELSE 0

\* What reached Coinbase and is known is recorded, or will be; before its first trade
\* the whole selection fits the day's budget one by one, later the current trade is over
\* it by at most a trade.
Budgeted ==
    /\ cfg.dry_run => traded = Nothing /\ uncounted = Nothing
    /\ \A x \in Exchanges :
          /\ x = "coinbase" => traded[x] - uncounted[x] <= SpentToday[x] + Owed(x)
          /\ SpentToday[x] <= cfg.daily[x] + cfg.per_trade
    /\ Executing =>
          SpentToday[Current.exchange] + Current.notional <= cfg.daily[Current.exchange] + cfg.per_trade
    /\ Executing /\ turn = 1 =>
          \A i \in DOMAIN selected :
             SpentToday[selected[i].exchange] + selected[i].notional <= cfg.daily[selected[i].exchange]

\* An order less than a cooldown ago that was not forgotten cools its strategy, or will
\* when it is recorded; what is still to be executed does not cool.
Spaced ==
    /\ \A s \in recent \ forgotten : s \in cooling \/ (Unrecorded /\ s = Current.strategy)
    /\ cfg.cooldown /\ Executing =>
          \A i \in DOMAIN selected : i >= turn => selected[i].strategy \notin cooling

RunnerInv == RunnerTypes /\ OneEach /\ Ordered /\ Budgeted /\ Spaced

-----------------------------------------------------------------------------
(* Sums over the trades of a tick.                                         *)

\* The summand of a place.
Term(ts, S, n) == IF n \in S THEN ts[n].notional ELSE 0

\* Two trades at most are ever summed.
LEMMA SumOfTwo ==
    ASSUME NEW ts, NEW S, Len(ts) \in 0..2, \A n \in 1..Len(ts) : ts[n].notional \in Int
    PROVE  SumOver(ts, S) = IF Len(ts) = 0 THEN 0
                            ELSE IF Len(ts) = 1 THEN Term(ts, S, 1)
                            ELSE Term(ts, S, 1) + Term(ts, S, 2)
<1> DEFINE N == Len(ts)
           Unfolds(f) == f = [n \in 0..N |->
               IF n = 0 THEN 0 ELSE f[n - 1] + (IF n \in S THEN ts[n].notional ELSE 0)]
           s == CHOOSE f : Unfolds(f)
           g == [n \in 0..N |-> IF n = 0 THEN 0 ELSE IF n = 1 THEN Term(ts, S, 1)
                                ELSE Term(ts, S, 1) + Term(ts, S, 2)]
<1>1. SumOver(ts, S) = s[N]
  BY DEF SumOver
<1>2. \A n \in 1..N : Term(ts, S, n) \in Int
  BY DEF Term
<1>3. Unfolds(g)
  <2>1. ASSUME NEW n \in 0..N
        PROVE  g[n] = IF n = 0 THEN 0 ELSE g[n - 1] + Term(ts, S, n)
    <3> HIDE DEF g
    <3>1. \A m \in 0..N : g[m] = IF m = 0 THEN 0 ELSE IF m = 1 THEN Term(ts, S, 1)
                                ELSE Term(ts, S, 1) + Term(ts, S, 2)
      BY DEF g
    <3>2. CASE n = 0
      BY <3>1, <3>2
    <3>3. CASE n = 1
      BY <1>2, <3>1, <3>3
    <3>4. CASE n = 2
      BY <1>2, <3>1, <3>4
    <3>5. QED
      BY <3>2, <3>3, <3>4
  <2>2. g = [n \in 0..N |-> IF n = 0 THEN 0 ELSE g[n - 1] + Term(ts, S, n)]
    <3> DEFINE h == [n \in 0..N |-> IF n = 0 THEN 0 ELSE g[n - 1] + Term(ts, S, n)]
    <3>1. \A n \in 0..N : g[n] = h[n]
      BY <2>1
    <3>2. g = [n \in 0..N |-> g[n]] /\ h = [n \in 0..N |-> h[n]]
      OBVIOUS
    <3>3. QED
      BY <3>1, <3>2
  <2>3. QED
    BY <2>2 DEF Term
<1>4. Unfolds(s)
  BY <1>3
<1> HIDE DEF s, g
<1>5. \A n \in 0..N : s[n] = IF n = 0 THEN 0 ELSE s[n - 1] + Term(ts, S, n)
  BY <1>4 DEF Term
<1>6. s[0] = 0 /\ (N >= 1 => s[1] = s[0] + Term(ts, S, 1)) /\ (N >= 2 => s[2] = s[1] + Term(ts, S, 2))
  <2>1. N \in 0..2
    OBVIOUS
  <2> HIDE DEF N
  <2>2. s[0] = 0
    BY <1>5, <2>1
  <2>3. N >= 1 => s[1] = s[0] + Term(ts, S, 1)
    <3>1. 1 - 1 = 0 /\ (N >= 1 => 1 \in 0..N)
      BY <2>1
    <3>2. QED
      BY <1>5, <3>1
  <2>4. N >= 2 => s[2] = s[1] + Term(ts, S, 2)
    <3>1. 2 - 1 = 1 /\ (N >= 2 => 2 \in 0..N)
      BY <2>1
    <3>2. QED
      BY <1>5, <3>1
  <2>5. QED
    BY <2>2, <2>3, <2>4
<1>7. (1 \in 1..N => Term(ts, S, 1) \in Int) /\ N \in 0..2 /\ N = Len(ts)
  BY <1>2
<1> HIDE DEF N
<1>8. CASE N = 0
  BY <1>1, <1>6, <1>7, <1>8
<1>9. CASE N = 1
  BY <1>1, <1>6, <1>7, <1>9
<1>10. CASE N = 2
  BY <1>1, <1>6, <1>7, <1>10
<1>11. QED
  BY <1>7, <1>8, <1>9, <1>10

LEMMA Sums ==
    /\ NotionalOf(<<>>) = 0 /\ EthBuys(<<>>) = 0
    /\ \A a : a.notional \in Int =>
         NotionalOf(<<a>>) = a.notional /\ EthBuys(<<a>>) = EthPart(a) /\ EthPart(a) \in Int
    /\ \A a, b : a.notional \in Int /\ b.notional \in Int =>
         NotionalOf(<<a, b>>) = a.notional + b.notional /\ EthBuys(<<a, b>>) = EthPart(a) + EthPart(b)
<1>1. NotionalOf(<<>>) = 0 /\ EthBuys(<<>>) = 0
  BY SumOfTwo DEF NotionalOf, EthBuys
<1>2. ASSUME NEW a, a.notional \in Int
      PROVE  NotionalOf(<<a>>) = a.notional /\ EthBuys(<<a>>) = EthPart(a) /\ EthPart(a) \in Int
  <2> DEFINE ts == <<a>>
             E == {i \in DOMAIN ts : IsEthBuy(ts[i])}
  <2>1. Len(ts) = 1 /\ DOMAIN ts = 1..1 /\ ts[1] = a
    OBVIOUS
  <2> HIDE DEF ts
  <2>2. 1 \in DOMAIN ts /\ (1 \in E <=> IsEthBuy(a))
    BY <2>1
  <2> HIDE DEF E
  <2>3. \A S : SumOver(ts, S) = Term(ts, S, 1)
    BY <1>2, <2>1, SumOfTwo
  <2>4. NotionalOf(ts) = a.notional /\ EthBuys(ts) = Term(ts, E, 1)
    BY <2>1, <2>2, <2>3 DEF NotionalOf, EthBuys, Term, E
  <2>5. EthBuys(ts) = EthPart(a) /\ EthPart(a) \in Int
    BY <1>2, <2>1, <2>2, <2>4 DEF Term, EthPart
  <2>6. QED
    BY <2>4, <2>5 DEF ts
<1>3. ASSUME NEW a, NEW b, a.notional \in Int, b.notional \in Int
      PROVE  NotionalOf(<<a, b>>) = a.notional + b.notional /\ EthBuys(<<a, b>>) = EthPart(a) + EthPart(b)
  <2> DEFINE ts == <<a, b>>
             E == {i \in DOMAIN ts : IsEthBuy(ts[i])}
  <2>1. Len(ts) = 2 /\ DOMAIN ts = 1..2 /\ ts[1] = a /\ ts[2] = b
    OBVIOUS
  <2> HIDE DEF ts
  <2>2. /\ 1 \in DOMAIN ts /\ (1 \in E <=> IsEthBuy(a))
        /\ 2 \in DOMAIN ts /\ (2 \in E <=> IsEthBuy(b))
    BY <2>1
  <2> HIDE DEF E
  <2>3. ASSUME NEW S PROVE SumOver(ts, S) = Term(ts, S, 1) + Term(ts, S, 2)
    <3>1. Len(ts) \in 0..2 /\ \A n \in 1..Len(ts) : n = 1 \/ n = 2
      BY <2>1
    <3>2. \A n \in 1..Len(ts) : ts[n].notional \in Int
      BY <1>3, <2>1, <3>1
    <3>3. SumOver(ts, S) = IF Len(ts) = 0 THEN 0
                           ELSE IF Len(ts) = 1 THEN Term(ts, S, 1)
                           ELSE Term(ts, S, 1) + Term(ts, S, 2)
      BY <3>1, <3>2, SumOfTwo
    <3>4. QED
      BY <2>1, <3>3
  <2>4. NotionalOf(ts) = a.notional + b.notional /\ EthBuys(ts) = Term(ts, E, 1) + Term(ts, E, 2)
    BY <2>1, <2>2, <2>3 DEF NotionalOf, EthBuys, Term, E
  <2>5. Term(ts, E, 1) = EthPart(a) /\ Term(ts, E, 2) = EthPart(b)
    BY <2>1, <2>2 DEF Term, EthPart
  <2>6. QED
    BY <2>4, <2>5 DEF ts
<1>4. QED
  BY <1>1, <1>2, <1>3

-----------------------------------------------------------------------------
(* What the allocator selects.                                             *)

LEMMA Settings ==
    ASSUME cfg \in Profiles
    PROVE  /\ cfg.enabled \in Seq(Strategies) /\ cfg.daily \in [Exchanges -> Nat]
           /\ \A i, j \in 1..Len(cfg.enabled) : cfg.enabled[i] = cfg.enabled[j] => i = j
           /\ cfg.min_notional \in Nat /\ cfg.per_trade \in Nat /\ cfg.available_capital \in Nat
           /\ cfg.max_notional \in Int /\ cfg.momentum_notional \in Int /\ cfg.max_long \in Int
           /\ cfg.max_eth \in Int /\ cfg.buffer_pct \in Int /\ cfg.edge \in Int
           /\ cfg.edge_weight \in Int /\ cfg.score_offset \in Int
  BY RunnerAssumption

\* Cutting a trade to the cap changes nothing but its size.
LEMMA CappedTrade ==
    ASSUME cfg \in Profiles, NEW t \in TradeSet
    PROVE  /\ Capped(t) \in TradeSet /\ Capped(t).notional <= cfg.per_trade
           /\ Capped(t).strategy = t.strategy /\ Capped(t).exchange = t.exchange
           /\ Capped(t).asset = t.asset /\ Capped(t).side = t.side
<1>1. Lesser(t.notional, cfg.per_trade) \in Nat /\ Lesser(t.notional, cfg.per_trade) <= cfg.per_trade
  BY Settings DEF Lesser, TradeSet
<1> DEFINE n == Lesser(t.notional, cfg.per_trade)
<1>2. Capped(t) = [t EXCEPT !.notional = n]
  BY DEF Capped
<1> HIDE DEF n
<1>3. n \in Nat /\ n <= cfg.per_trade
  BY <1>1 DEF n
<1>4. QED
  BY <1>2, <1>3 DEF TradeSet

LEMMA AheadOfAnother ==
    ASSUME cfg \in Profiles, NEW ps \in Seq(TradeSet), NEW i \in DOMAIN ps, NEW j \in DOMAIN ps,
           Ahead(ps, i, j)
    PROVE  i # j
<1>1. ps[i] \in TradeSet /\ i \in Int
  OBVIOUS
<1>2. ps[i].edge \in Int /\ cfg.edge_weight \in Int /\ cfg.score_offset \in Int
  BY <1>1, Settings DEF TradeSet
<1>3. \A w, e, o \in Int : w * e + o \in Int
  OBVIOUS
<1>4. Score(ps[i]) \in Int
  BY <1>2, <1>3 DEF Score
<1>5. QED
  BY <1>1, <1>4 DEF Ahead

\* A trade that fits with the ones before it keeps the limits of the tick.
LEMMA FitsAlone ==
    ASSUME cfg \in Profiles, NEW t \in TradeSet, t.notional <= cfg.per_trade,
           cfg.mode # "single_best" => Fits(<<>>, t) /\ Passes(<<>>, t)
    PROVE  Alone(t)
<1>1. t.notional \in Nat /\ cfg.available_capital \in Nat /\ cfg.max_eth \in Int
  BY Settings DEF TradeSet
<1>2. Fits(<<>>, t) => t.notional <= cfg.available_capital
  BY <1>1, Sums DEF Fits
<1>3. Passes(<<>>, t) => (cfg.max_eth > 0 => EthPart(t) <= cfg.max_eth)
  BY <1>1, Sums DEF Passes, EthPart
<1>4. QED
  BY <1>2, <1>3 DEF Alone

LEMMA FitsTogether ==
    ASSUME cfg \in Profiles, NEW a \in TradeSet, NEW b \in TradeSet, Alone(a), cfg.mode # "single_best",
           a.strategy # b.strategy, Fits(<<a>>, b), Passes(<<a>>, b)
    PROVE  Together(a, b)
<1>1. /\ a.notional \in Nat /\ b.notional \in Nat /\ cfg.available_capital \in Nat
      /\ cfg.max_eth \in Int
  BY Settings DEF TradeSet
<1>2. NotionalOf(<<a>>) = a.notional /\ EthBuys(<<a>>) = EthPart(a) /\ EthPart(a) \in Int
  BY <1>1, Sums
<1>3. a.notional + b.notional <= cfg.available_capital
  BY <1>1, <1>2 DEF Fits
<1>4. cfg.max_eth > 0 => EthPart(a) + EthPart(b) <= cfg.max_eth
  <2>1. CASE IsEthBuy(b)
    BY <1>1, <1>2, <2>1 DEF Passes, EthPart
  <2>2. CASE ~IsEthBuy(b)
    BY <1>1, <1>2, <2>2 DEF Alone, EthPart
  <2>3. QED
    BY <2>1, <2>2
<1>5. ~AreConflicting(a, b)
  <2>1. Len(<<a>>) = 1 /\ <<a>>[1] = a
    OBVIOUS
  <2>2. QED
    BY <2>1 DEF Passes
<1>6. QED
  BY <1>3, <1>4, <1>5 DEF Together

LEMMA SelectSound ==
    ASSUME RunnerTypes, OneEach, NEW chosen \in Select(proposals)
    PROVE  /\ chosen \in Seq(TradeSet) /\ Sound(chosen)
           /\ \A i \in DOMAIN chosen : \E k \in Eligible(proposals) : chosen[i] = Capped(proposals[k])
<1> DEFINE ps == proposals
           Goal == /\ chosen \in Seq(TradeSet) /\ Sound(chosen)
                   /\ \A i \in DOMAIN chosen : \E k \in Eligible(ps) : chosen[i] = Capped(ps[k])
<1> SUFFICES Goal
  OBVIOUS
<1>1. /\ cfg \in Profiles /\ ps \in Seq(TradeSet)
      /\ \A i \in Eligible(ps) : i \in DOMAIN ps /\ ps[i] \in TradeSet
  BY DEF RunnerTypes, Eligible, Approved
<1>2. \A i \in Eligible(ps) : Capped(ps[i]) \in TradeSet /\ Capped(ps[i]).notional <= cfg.per_trade
  BY <1>1, CappedTrade
<1>3. ASSUME chosen = <<>> PROVE Goal
  <2>1. Len(chosen) = 0 /\ DOMAIN chosen = {} /\ chosen \in Seq(TradeSet)
    BY <1>3
  <2>2. QED
    BY <2>1 DEF Sound
<1>4. ASSUME NEW i \in Eligible(ps), chosen = <<Capped(ps[i])>>, Alone(Capped(ps[i])) PROVE Goal
  <2> DEFINE a == Capped(ps[i])
  <2>1. a \in TradeSet
    BY <1>2
  <2> HIDE DEF a
  <2>2. chosen = <<a>>
    BY <1>4 DEF a
  <2>3. Len(chosen) = 1 /\ DOMAIN chosen = {1} /\ chosen[1] = a /\ chosen \in Seq(TradeSet)
    BY <2>1, <2>2
  <2>4. QED
    BY <1>4, <2>3 DEF Sound, a
<1>5. ASSUME NEW i \in Eligible(ps), NEW j \in Eligible(ps), chosen = <<Capped(ps[i]), Capped(ps[j])>>,
             Alone(Capped(ps[i])), Alone(Capped(ps[j])), Together(Capped(ps[i]), Capped(ps[j])),
             cfg.mode # "single_best"
      PROVE  Goal
  <2> DEFINE a == Capped(ps[i])
             b == Capped(ps[j])
  <2>1. a \in TradeSet /\ b \in TradeSet
    BY <1>2
  <2> HIDE DEF a, b
  <2>2. chosen = <<a, b>>
    BY <1>5 DEF a, b
  <2>3. Len(chosen) = 2 /\ DOMAIN chosen = {1, 2} /\ chosen[1] = a /\ chosen[2] = b
        /\ chosen \in Seq(TradeSet)
    BY <2>1, <2>2
  <2>4. QED
    BY <1>5, <2>3 DEF Sound, a, b
<1> HIDE DEF Goal
<1>6. CASE Eligible(ps) # {} /\ cfg.mode = "single_best"
  <2>1. PICK i \in Primary(ps) : chosen = <<Capped(ps[i])>>
    BY <1>6 DEF Select
  <2>2. i \in Eligible(ps)
    BY DEF Primary, Best
  <2>3. Alone(Capped(ps[i]))
    BY <1>6, <1>2, <2>2 DEF Alone
  <2>4. QED
    BY <1>4, <2>1, <2>2, <2>3
<1>7. CASE Eligible(ps) # {} /\ cfg.mode # "single_best"
  <2>1. chosen \in PriorityWithFallback(ps)
    BY <1>7 DEF Select
  <2>2. ASSUME NEW i \in First(ps)
        PROVE  i \in Eligible(ps) /\ Alone(Capped(ps[i]))
    <3>1. i \in Takes(ps, <<>>)
      BY DEF First, Best
    <3>2. i \in Eligible(ps) /\ Fits(<<>>, Capped(ps[i])) /\ Passes(<<>>, Capped(ps[i]))
      BY <3>1 DEF Takes
    <3>3. QED
      BY <1>1, <1>2, <3>2, FitsAlone
  <2>3. ASSUME NEW i \in First(ps), NEW j \in Second(ps, i)
        PROVE  j \in Eligible(ps) /\ Together(Capped(ps[i]), Capped(ps[j])) /\ Alone(Capped(ps[j]))
    <3>1. j \in Takes(ps, <<Capped(ps[i])>>) /\ Ahead(ps, i, j)
      BY DEF Second, Best
    <3>2. j \in Eligible(ps) /\ Fits(<<Capped(ps[i])>>, Capped(ps[j])) /\ Passes(<<Capped(ps[i])>>, Capped(ps[j]))
      BY <3>1 DEF Takes
    <3>3. i \in Eligible(ps) /\ Alone(Capped(ps[i]))
      BY <2>2
    <3>4. i # j
      BY <1>1, <3>1, <3>2, <3>3, AheadOfAnother
    <3>5. Capped(ps[i]).strategy = ps[i].strategy /\ Capped(ps[j]).strategy = ps[j].strategy
      BY <1>1, <3>2, <3>3, CappedTrade
    <3>6. Capped(ps[i]).strategy # Capped(ps[j]).strategy
      BY <1>1, <3>2, <3>3, <3>4, <3>5 DEF OneEach
    <3>7. Together(Capped(ps[i]), Capped(ps[j]))
      BY <1>1, <1>2, <1>7, <3>2, <3>3, <3>6, FitsTogether
    <3>8. Alone(Capped(ps[j]))
      <4> DEFINE a == Capped(ps[i])
                 b == Capped(ps[j])
      <4>1. a \in TradeSet /\ b \in TradeSet /\ b.notional <= cfg.per_trade /\ Together(a, b)
        BY <1>2, <3>2, <3>3, <3>7
      <4> HIDE DEF a, b
      <4>2. a.notional \in Nat /\ b.notional \in Nat /\ cfg.available_capital \in Nat /\ cfg.max_eth \in Int
            /\ EthPart(a) \in Nat /\ EthPart(b) \in Nat
        BY <1>1, <4>1, Settings DEF TradeSet, EthPart
      <4>3. Alone(b)
        BY <4>1, <4>2 DEF Together, Alone
      <4>4. QED
        BY <4>3 DEF b
    <3>9. QED
      BY <3>2, <3>7, <3>8
  <2>4. CASE chosen = <<>>
    BY <1>3, <2>4
  <2>5. ASSUME NEW i \in First(ps), chosen = <<Capped(ps[i])>> PROVE Goal
    BY <1>4, <2>2, <2>5
  <2>6. ASSUME NEW i \in First(ps), NEW j \in Second(ps, i), chosen = <<Capped(ps[i]), Capped(ps[j])>>
        PROVE  Goal
    BY <1>5, <1>7, <2>2, <2>3, <2>6
  <2>7. QED
    BY <2>1, <2>4, <2>5, <2>6 DEF PriorityWithFallback
<1>8. CASE Eligible(ps) = {}
  BY <1>3, <1>8 DEF Select
<1>9. QED
  BY <1>6, <1>7, <1>8

-----------------------------------------------------------------------------
(* The steps between trades.                                               *)

LEMMA BudgetRests ==
    ASSUME Budgeted, ~Executing, ~Executing', UNCHANGED <<cfg, spent, midnight, traded, uncounted>>
    PROVE  Budgeted'
<1>1. ~Unrecorded /\ ~Unrecorded'
  BY DEF Executing, Unrecorded
<1>2. SpentToday' = SpentToday /\ \A x : Owed(x)' = 0 /\ Owed(x) = 0
  BY <1>1 DEF SpentToday, Owed
<1>3. QED
  BY <1>2 DEF Budgeted

LEMMA SpacedRests ==
    ASSUME Spaced, ~Executing, ~Executing', UNCHANGED <<cfg, cooling, recent, forgotten>>
    PROVE  Spaced'
  BY DEF Spaced, Executing, Unrecorded

\* Nothing the invariant speaks of changes, except for the market.
LEMMA RunnerStays ==
    ASSUME RunnerInv, price' \in Prices, usd' \in Int,
           UNCHANGED <<cfg, pc, turn, accepted, proposals, selected, spent, midnight, cooling, base, done,
                       traded, uncounted, recent, forgotten>>
    PROVE  RunnerInv'
<1>1. RunnerTypes'
  BY DEF RunnerInv, RunnerTypes
<1>2. OneEach'
  BY DEF RunnerInv, OneEach
<1>3. Ordered'
  BY DEF RunnerInv, Ordered, Sound, Alone, Together, Executing, Decided
<1>4. Budgeted'
  BY DEF RunnerInv, Budgeted, SpentToday, Owed, Unrecorded, Current, Executing
<1>5. Spaced'
  BY DEF RunnerInv, Spaced, Unrecorded, Current, Executing
<1>6. QED
  BY <1>1, <1>2, <1>3, <1>4, <1>5 DEF RunnerInv

\* What a strategy hands over: nothing, or one trade of its own.
Handed(s, ts) == ts = <<>> \/ \E t \in TradeSet : t.strategy = s /\ ts = <<t>>

LEMMA Proposed ==
    ASSUME RunnerInv, NEW s \in Strategies, AtStrategy(s), NEW ts, Handed(s, ts), Propose(ts),
           UNCHANGED <<cfg, pc, accepted, selected, spent, midnight, cooling, usd, base, price, done,
                       traded, uncounted, recent, forgotten>>
    PROVE  RunnerInv'
<1>1. /\ pc = "evaluate" /\ ~Executing /\ ~Executing' /\ turn \in Nat \ {0} /\ proposals \in Seq(TradeSet)
      /\ turn <= Len(cfg.enabled) /\ cfg.enabled[turn] = s /\ Len(cfg.enabled) \in Nat
      /\ proposals' = proposals \o ts /\ turn' = turn + 1
  BY Settings, SMTT(20) DEF RunnerInv, RunnerTypes, AtStrategy, Propose, Executing
<1>2. Budgeted' /\ Spaced'
  BY <1>1, BudgetRests, SpacedRests DEF RunnerInv
<1>3. Ordered'
  BY <1>1 DEF RunnerInv, Ordered, Sound, Alone, Together, Executing, Follows
<1>4. /\ proposals' \in Seq(TradeSet)
      /\ \A i \in DOMAIN proposals : i \in DOMAIN proposals' /\ proposals'[i] = proposals[i]
      /\ \A i \in DOMAIN proposals' \ DOMAIN proposals :
            i = Len(proposals) + 1 /\ proposals'[i].strategy = s
  <2>1. CASE ts = <<>>
    <3>1. proposals' = proposals
      BY <1>1, <2>1
    <3>2. QED
      BY <1>1, <3>1
  <2>2. ASSUME NEW t \in TradeSet, t.strategy = s, ts = <<t>>
        PROVE  /\ proposals' \in Seq(TradeSet)
               /\ \A i \in DOMAIN proposals : i \in DOMAIN proposals' /\ proposals'[i] = proposals[i]
               /\ \A i \in DOMAIN proposals' \ DOMAIN proposals :
                     i = Len(proposals) + 1 /\ proposals'[i].strategy = s
    <3>1. proposals' = Append(proposals, t)
      BY <1>1, <2>2
    <3>2. QED
      BY <1>1, <2>2, <3>1
  <2>3. QED
    BY <2>1, <2>2 DEF Handed
<1>5. \A i \in DOMAIN proposals :
        proposals[i].strategy # s /\ \E k \in 1..Len(cfg.enabled) : k < turn /\ cfg.enabled[k] = proposals[i].strategy
  <2> SUFFICES ASSUME NEW i \in DOMAIN proposals
               PROVE  proposals[i].strategy # s
                      /\ \E k \in 1..Len(cfg.enabled) : k < turn /\ cfg.enabled[k] = proposals[i].strategy
    OBVIOUS
  <2>1. PICK k \in 1..Len(cfg.enabled) : k < turn /\ cfg.enabled[k] = proposals[i].strategy
    BY DEF RunnerInv, OneEach
  <2>2. k # turn /\ turn \in 1..Len(cfg.enabled)
    BY <1>1, <2>1
  <2>3. cfg \in Profiles
    BY DEF RunnerInv, RunnerTypes
  <2>4. cfg.enabled[k] # cfg.enabled[turn]
    BY <2>1, <2>2, <2>3, Settings
  <2>5. QED
    BY <1>1, <2>1, <2>4
<1>6. OneEach'
  <2>1. \A i, j \in DOMAIN proposals' : proposals'[i].strategy = proposals'[j].strategy => i = j
    BY <1>4, <1>5 DEF RunnerInv, OneEach
  <2>2. ASSUME NEW i \in DOMAIN proposals'
        PROVE  \E k \in 1..Len(cfg.enabled) : k < turn' /\ cfg.enabled[k] = proposals'[i].strategy
    <3>1. CASE i \in DOMAIN proposals
      <4>1. PICK k \in 1..Len(cfg.enabled) : k < turn /\ cfg.enabled[k] = proposals[i].strategy
        BY <1>5, <3>1
      <4>2. k < turn' /\ proposals'[i] = proposals[i]
        BY <1>1, <1>4, <3>1, <4>1
      <4>3. QED
        BY <4>1, <4>2
    <3>2. CASE i \notin DOMAIN proposals
      <4>1. turn \in 1..Len(cfg.enabled) /\ turn < turn' /\ cfg.enabled[turn] = proposals'[i].strategy
        BY <1>1, <1>4, <3>2
      <4>2. QED
        BY <4>1
    <3>3. QED
      BY <3>1, <3>2
  <2>3. QED
    BY <1>1, <2>1, <2>2 DEF OneEach
<1>7. RunnerTypes'
  BY <1>1, <1>4 DEF RunnerInv, RunnerTypes
<1>8. QED
  BY <1>2, <1>3, <1>6, <1>7 DEF RunnerInv

\* A trade a strategy puts together.
LEMMA TradeMade ==
    ASSUME NEW s \in Strategies, NEW x \in Exchanges, NEW a \in Assets \cup {Asset}, NEW side \in {"buy", "sell"},
           NEW n \in Nat, NEW e \in Int, x = Venue(s)
    PROVE  Handed(s, <<Trade(s, x, a, side, n, e)>>)
<1> DEFINE t == Trade(s, x, a, side, n, e)
<1>1. t \in TradeSet /\ t.strategy = s
  BY DEF Trade, TradeSet
<1> HIDE DEF t
<1>2. Handed(s, <<t>>)
  BY <1>1 DEF Handed
<1>3. QED
  BY <1>2 DEF t

LEMMA LesserType == \A m, n \in Int : Lesser(m, n) \in Int
  BY DEF Lesser

LEMMA SpotHands ==
    ASSUME RunnerTypes, NEW held \in Int, NEW mid \in Int, NEW balance \in Int
    PROVE  Handed("spot", CapSell(held, mid)) /\ Handed("spot", SignalSell(held, mid))
           /\ Handed("spot", SignalBuy(balance))
<1>1. /\ "spot" \in Strategies /\ "coinbase" \in Exchanges /\ Asset \in Assets \cup {Asset}
      /\ Hurdle \in Int /\ cfg \in Profiles /\ Venue("spot") = "coinbase"
  BY RunnerAssumption DEF Strategies, Exchanges, RunnerTypes, Venue
<1>2. held * mid \in Int
  BY SMT
<1>3. /\ cfg.max_long \in Int /\ cfg.max_notional \in Int /\ cfg.min_notional \in Nat /\ cfg.edge \in Int
      /\ -cfg.edge \in Int /\ cfg.buffer_pct \in Int
  BY <1>1, Settings
<1>4. \A m, n \in Int : m - n \in Int /\ (n >= cfg.min_notional => n \in Nat)
  BY <1>3
<1>5. Handed("spot", <<>>)
  BY DEF Handed
<1>6. Handed("spot", CapSell(held, mid))
  <2> DEFINE n == Lesser(held * mid - cfg.max_long, cfg.max_notional)
             ts == <<Trade("spot", "coinbase", Asset, "sell", n, Hurdle)>>
  <2>1. n \in Int
    <3>1. held * mid - cfg.max_long \in Int
      BY <1>2, <1>3, <1>4
    <3>2. QED
      BY <1>3, <3>1, LesserType
  <2>2. CapSell(held, mid) = ts \/ CapSell(held, mid) = <<>>
    BY Zenon DEF CapSell
  <2>3. ~(n >= cfg.min_notional) => CapSell(held, mid) = <<>>
    BY Zenon DEF CapSell
  <2>4. n >= cfg.min_notional => Handed("spot", ts)
    BY <1>1, <1>4, <2>1, TradeMade
  <2> HIDE DEF n, ts
  <2>5. QED
    BY <1>5, <2>2, <2>3, <2>4
<1>7. Handed("spot", SignalSell(held, mid))
  <2> DEFINE n == Lesser(held * mid, cfg.max_notional)
             ts == <<Trade("spot", "coinbase", Asset, "sell", n, -cfg.edge)>>
  <2>1. n \in Int
    BY <1>2, <1>3, LesserType
  <2>2. SignalSell(held, mid) = ts \/ SignalSell(held, mid) = <<>>
    BY Zenon DEF SignalSell
  <2>3. ~(n >= cfg.min_notional) => SignalSell(held, mid) = <<>>
    BY Zenon DEF SignalSell
  <2>4. n >= cfg.min_notional => Handed("spot", ts)
    BY <1>1, <1>3, <1>4, <2>1, TradeMade
  <2> HIDE DEF n, ts
  <2>5. QED
    BY <1>5, <2>2, <2>3, <2>4
<1>8. Handed("spot", SignalBuy(balance))
  <2> DEFINE n == BuyNotional(balance, backoff)
             d == balance * (100 - cfg.buffer_pct)
             ts == <<Trade("spot", "coinbase", Asset, "buy", n, cfg.edge)>>
  <2>1. d \in Int
    <3>1. 100 - cfg.buffer_pct \in Int
      BY <1>3
    <3>2. \A w, e \in Int : w * e \in Int
      OBVIOUS
    <3>3. QED
      BY <3>1, <3>2
  <2>2. Spendable(balance) = d \div 100
    BY DEF Spendable
  <2> HIDE DEF d
  <2>3. Spendable(balance) \in Int
    BY <2>1, <2>2
  <2>4. n \in Int
    <3>1. Lesser(cfg.max_notional, Spendable(balance)) \in Int
      BY <1>3, <2>3, LesserType
    <3>2. n = 0 \/ n = Lesser(cfg.max_notional, Spendable(balance))
      BY Zenon DEF BuyNotional
    <3>3. QED
      BY <3>1, <3>2
  <2>5. SignalBuy(balance) = ts \/ SignalBuy(balance) = <<>>
    BY Zenon DEF SignalBuy
  <2>6. ~(n > 0) => SignalBuy(balance) = <<>>
    BY Zenon DEF SignalBuy
  <2>7. n > 0 => n \in Nat
    BY <2>4
  <2>8. n > 0 => Handed("spot", ts)
    BY <1>1, <1>3, <2>7, TradeMade
  <2> HIDE DEF n, ts
  <2>9. QED
    BY <1>5, <2>5, <2>6, <2>8
<1>9. QED
  BY <1>6, <1>7, <1>8

LEMMA MomentumHands ==
    ASSUME RunnerTypes, NEW edge \in MomentumSeen
    PROVE  Handed("momentum", EvaluateMomentum(edge))
<1>1. /\ "momentum" \in Strategies /\ "coinbase" \in Exchanges /\ Asset \in Assets \cup {Asset}
      /\ edge \in Int /\ cfg \in Profiles /\ Venue("momentum") = "coinbase"
  BY RunnerAssumption DEF Strategies, Exchanges, RunnerTypes, MomentumSeen, Venue
<1> DEFINE n == Lesser(cfg.momentum_notional, cfg.max_notional)
<1>2. n \in Int /\ cfg.min_notional \in Nat
  BY <1>1, Settings, LesserType
<1> DEFINE ts == <<Trade("momentum", "coinbase", Asset, "buy", n, edge)>>
<1>3. EvaluateMomentum(edge) = ts \/ EvaluateMomentum(edge) = <<>>
  BY Zenon DEF EvaluateMomentum
<1>4. ~(n >= cfg.min_notional) => EvaluateMomentum(edge) = <<>>
  BY Zenon DEF EvaluateMomentum, ShouldTrade
<1>5. n >= cfg.min_notional => n \in Nat
  BY <1>2
<1>6. n >= cfg.min_notional => Handed("momentum", ts)
  BY <1>1, <1>5, TradeMade
<1>7. Handed("momentum", <<>>)
  BY DEF Handed
<1> HIDE DEF n, ts
<1>8. QED
  BY <1>3, <1>4, <1>6, <1>7

LEMMA FundingHands ==
    ASSUME NEW ts \in EvaluateFunding
    PROVE  Handed("funding", ts)
<1>1. CASE ts = <<>>
  BY <1>1 DEF Handed
<1>2. CASE ts # <<>>
  <2>1. PICK t \in FundingProposals : ts = <<t>>
    BY <1>2 DEF EvaluateFunding
  <2>2. PICK a \in Assets, rate \in RateLevels, basis \in BasisSeen :
          t = Trade("funding", "hyperliquid", a, "buy", PosUsd, FundingEdge(rate, basis))
    BY DEF FundingProposals
  <2>3. rate \in Int /\ basis \in Int
    BY FundingAssumption DEF BasisSeen
  <2>4. FundingEdge(rate, basis) \in Int
    <3>1. FundingAnnual(rate) \in Int /\ BasisAnnual(basis) \in Int
      BY <2>3 DEF FundingAnnual, BasisAnnual
    <3> DEFINE annual == IF Carry(rate, basis) = "funding" THEN FundingAnnual(rate) ELSE BasisAnnual(basis)
    <3>2. FundingEdge(rate, basis) = 0 \/ FundingEdge(rate, basis) = (annual * 100) \div 1095
      BY DEF FundingEdge
    <3>3. annual \in Int
      BY <3>1
    <3> HIDE DEF annual
    <3>4. (annual * 100) \div 1095 \in Int
      BY <3>3
    <3>5. QED
      BY <3>2, <3>4
  <2>5. "funding" \in Strategies /\ "hyperliquid" \in Exchanges /\ PosUsd \in Nat
        /\ Venue("funding") = "hyperliquid"
    BY RunnerAssumption DEF Strategies, Exchanges, Venue
  <2>6. QED
    BY <2>1, <2>2, <2>4, <2>5, TradeMade
<1>3. QED
  BY <1>1, <1>2

LEMMA EvaluateSpotStep ==
    ASSUME RunnerInv, EvaluateSpot
    PROVE  RunnerInv'
<1>1. \E ts : Handed("spot", ts) /\ Propose(ts)
  <2>1. RunnerTypes /\ usd \in Int /\ base \in Int /\ price \in Int
    BY RunnerAssumption DEF RunnerInv, RunnerTypes
  <2>2. BalanceRead(base) \subseteq Int /\ BalanceRead(usd) \subseteq Int /\ PriceRead \subseteq Int
    BY <2>1 DEF BalanceRead, PriceRead
  <2>3. \A held, mid, balance \in Int : /\ Handed("spot", CapSell(held, mid))
                                        /\ Handed("spot", SignalSell(held, mid))
                                        /\ Handed("spot", SignalBuy(balance))
    BY <2>1, SpotHands
  <2>4. Handed("spot", <<>>)
    BY DEF Handed
  <2>5. \/ \E held \in BalanceRead(base), mid \in PriceRead : Propose(CapSell(held, mid))
        \/ \E balance \in BalanceRead(usd) : Propose(SignalBuy(balance))
        \/ \E holding \in BalanceRead(base), quote \in PriceRead : Propose(SignalSell(holding, quote))
        \/ Propose(<<>>)
    BY DEF EvaluateSpot
  <2>6. QED
    BY <2>2, <2>3, <2>4, <2>5
<1>2. PICK ts : Handed("spot", ts) /\ Propose(ts)
  BY <1>1
<1>3. "spot" \in Strategies /\ AtStrategy("spot")
  BY DEF Strategies, EvaluateSpot
<1>4. UNCHANGED <<cfg, pc, accepted, selected, spent, midnight, cooling, usd, base, price, done, traded,
                  uncounted, recent, forgotten>>
  BY DEF EvaluateSpot
<1>5. QED
  BY <1>2, <1>3, <1>4, Proposed

LEMMA EvaluateOtherStep ==
    ASSUME RunnerInv, EvaluateOther
    PROVE  RunnerInv'
<1>1. UNCHANGED <<cfg, pc, accepted, selected, spent, midnight, cooling, usd, base, price, done, traded,
                  uncounted, recent, forgotten>>
  BY DEF EvaluateOther
<1>2. CASE AtStrategy("momentum") /\ \E edge \in MomentumSeen : Propose(EvaluateMomentum(edge))
  <2>1. PICK edge \in MomentumSeen : Propose(EvaluateMomentum(edge))
    BY <1>2
  <2>2. Handed("momentum", EvaluateMomentum(edge)) /\ "momentum" \in Strategies
    BY MomentumHands DEF RunnerInv, Strategies
  <2>3. QED
    BY <1>1, <1>2, <2>1, <2>2, Proposed
<1>3. CASE AtStrategy("funding") /\ \E ts \in EvaluateFunding : Propose(ts)
  <2>1. PICK ts \in EvaluateFunding : Propose(ts)
    BY <1>3
  <2>2. Handed("funding", ts) /\ "funding" \in Strategies
    BY FundingHands DEF Strategies
  <2>3. QED
    BY <1>1, <1>3, <2>1, <2>2, Proposed
<1>4. QED
  BY <1>2, <1>3 DEF EvaluateOther

LEMMA SpentTodayType == RunnerTypes => SpentToday \in [Exchanges -> Nat]
  BY DEF RunnerTypes, SpentToday, Nothing

\* What the selection of a tick is checked against holds when its first trade is executed.
LEMMA GateStep ==
    ASSUME RunnerInv, Gate
    PROVE  RunnerInv'
<1>1. PICK chosen \in Select(proposals) :
        LET trades == IF chosen # <<>> /\ Score(chosen[1]) < cfg.min_score THEN <<>> ELSE chosen
        IN /\ selected' = trades
           /\ pc' = IF trades = <<>> THEN "report" ELSE "execute"
  BY DEF Gate
<1>2. /\ pc = "evaluate" /\ turn' = 1 /\ proposals' = <<>>
      /\ UNCHANGED <<cfg, accepted, cooling, usd, base, price, done, traded, uncounted, recent, forgotten>>
      /\ pc' = IF selected' = <<>> THEN "report" ELSE "execute"
      /\ selected' = <<>> \/ selected' = chosen
  BY <1>1 DEF Gate
<1>3. SpentToday' = SpentToday
  <2>1. /\ spent' = IF proposals = <<>> THEN spent ELSE SpentToday
        /\ midnight' = (midnight /\ proposals = <<>>)
    BY DEF Gate
  <2>2. CASE proposals = <<>>
    BY <2>1, <2>2 DEF SpentToday
  <2>3. CASE proposals # <<>>
    <3>1. ~midnight' /\ spent' = SpentToday
      BY <2>1, <2>3
    <3>2. QED
      BY <3>1 DEF SpentToday
  <2>4. QED
    BY <2>2, <2>3
<1>4. /\ selected' \in Seq(TradeSet) /\ Sound(selected')
      /\ \A i \in DOMAIN selected' : \E k \in Eligible(proposals) : selected'[i] = Capped(proposals[k])
  <2>1. /\ chosen \in Seq(TradeSet) /\ Sound(chosen)
        /\ \A i \in DOMAIN chosen : \E k \in Eligible(proposals) : chosen[i] = Capped(proposals[k])
    BY SelectSound DEF RunnerInv
  <2>2. <<>> \in Seq(TradeSet) /\ Len(<<>>) = 0 /\ DOMAIN <<>> = {}
    OBVIOUS
  <2>3. CASE selected' = <<>>
    BY <2>2, <2>3 DEF Sound
  <2>4. CASE selected' = chosen
    BY <2>1, <2>4
  <2>5. QED
    BY <1>2, <2>3, <2>4
<1>5. ASSUME NEW i \in DOMAIN selected'
      PROVE  /\ SpentToday[selected'[i].exchange] + selected'[i].notional <= cfg.daily[selected'[i].exchange]
             /\ cfg.cooldown => selected'[i].strategy \notin cooling
             /\ selected'[i].exchange \in Exchanges
  <2>1. PICK k \in Eligible(proposals) : selected'[i] = Capped(proposals[k])
    BY <1>4
  <2>2. k \in DOMAIN proposals /\ CanSpend(proposals[k]) /\ (cfg.cooldown => proposals[k].strategy \notin cooling)
    BY DEF Eligible, Approved
  <2>3. cfg \in Profiles /\ proposals[k] \in TradeSet
    BY <2>2 DEF RunnerInv, RunnerTypes
  <2>4. /\ Capped(proposals[k]).exchange = proposals[k].exchange
        /\ Capped(proposals[k]).strategy = proposals[k].strategy
        /\ proposals[k].exchange \in Exchanges
    BY <2>3, CappedTrade DEF TradeSet
  <2>5. QED
    BY <2>1, <2>2, <2>4 DEF CanSpend
<1>6. Len(selected') \in Nat /\ DOMAIN selected' = 1..Len(selected') /\ (selected' # <<>> => Len(selected') >= 1)
  BY <1>4
<1>7. RunnerTypes'
  <2>1. SpentToday \in [Exchanges -> Nat]
    BY SpentTodayType DEF RunnerInv
  <2>2. spent' \in [Exchanges -> Nat] /\ midnight' \in BOOLEAN
    BY <2>1 DEF Gate, RunnerInv, RunnerTypes
  <2>3. pc' \in {"evaluate", "execute", "record", "entering", "report", "sleep", "stopped"}
    BY <1>2
  <2>4. proposals' \in Seq(TradeSet) /\ turn' \in Nat \ {0}
    BY <1>2
  <2>5. QED
    BY <1>2, <1>4, <2>2, <2>3, <2>4 DEF RunnerInv, RunnerTypes
<1>8. OneEach'
  BY <1>2 DEF OneEach
<1>9. Ordered'
  <2>1. Sound(selected)'
    BY <1>2, <1>4 DEF Sound, Alone, Together
  <2>2. Executing' => turn' <= Len(selected')
    BY <1>2, <1>6 DEF Executing
  <2>3. done' = <<>>
    BY <1>2 DEF RunnerInv, Ordered, Executing
  <2>4. QED
    BY <2>1, <2>2, <2>3 DEF Ordered, Follows
<1>10. Budgeted'
  <2>1. ~Unrecorded /\ ~Unrecorded'
    BY <1>2 DEF Unrecorded
  <2>2. \A x : Owed(x)' = 0 /\ Owed(x) = 0
    BY <2>1 DEF Owed
  <2>3. /\ cfg.dry_run => traded = Nothing /\ uncounted = Nothing
        /\ \A x \in Exchanges : /\ x = "coinbase" => traded[x] - uncounted[x] <= SpentToday[x] + 0
                                /\ SpentToday[x] <= cfg.daily[x] + cfg.per_trade
    BY <2>2 DEF RunnerInv, Budgeted
  <2>4. \A i \in DOMAIN selected' :
          SpentToday[selected'[i].exchange] + selected'[i].notional <= cfg.daily[selected'[i].exchange]
    BY <1>5
  <2>5. ASSUME Executing'
        PROVE  SpentToday[Current'.exchange] + Current'.notional <= cfg.daily[Current'.exchange] + cfg.per_trade
    <3>1. 1 \in DOMAIN selected' /\ Current' = selected'[1]
      BY <1>2, <1>6, <2>5 DEF Executing, Current
    <3> DEFINE t == selected'[1]
    <3>2. t \in TradeSet /\ SpentToday[t.exchange] + t.notional <= cfg.daily[t.exchange]
      BY <1>4, <1>5, <3>1
    <3>3. cfg \in Profiles /\ SpentToday \in [Exchanges -> Nat]
      BY SpentTodayType DEF RunnerInv, RunnerTypes
    <3> HIDE DEF t
    <3>4. t.exchange \in Exchanges /\ t.notional \in Nat
      BY <3>2 DEF TradeSet
    <3>5. SpentToday[t.exchange] \in Nat /\ cfg.daily[t.exchange] \in Nat /\ cfg.per_trade \in Nat
      BY <3>3, <3>4, Settings
    <3>6. SpentToday[t.exchange] + t.notional <= cfg.daily[t.exchange] + cfg.per_trade
      BY <3>2, <3>4, <3>5
    <3>7. QED
      BY <3>1, <3>6 DEF t
  <2>6. QED
    BY <1>2, <1>3, <2>2, <2>3, <2>4, <2>5 DEF Budgeted
<1>11. Spaced'
  <2>1. \A s \in recent \ forgotten : s \in cooling
    BY <1>2 DEF RunnerInv, Spaced, Unrecorded
  <2>2. \A i \in DOMAIN selected' : cfg.cooldown => selected'[i].strategy \notin cooling
    BY <1>5
  <2>3. QED
    BY <1>2, <2>1, <2>2 DEF Spaced
<1>12. QED
  BY <1>7, <1>8, <1>9, <1>10, <1>11 DEF RunnerInv

-----------------------------------------------------------------------------
(* The steps of a trade.                                                   *)

\* The trade being executed is one of the selection, of a size within the cap.
LEMMA CurrentTrade ==
    ASSUME RunnerInv, Executing
    PROVE  /\ Current \in TradeSet /\ Current.notional \in Nat /\ Current.exchange \in Exchanges
           /\ Current.notional <= cfg.per_trade /\ cfg.per_trade \in Nat /\ cfg.daily \in [Exchanges -> Nat]
           /\ turn \in 1..2 /\ turn \in DOMAIN selected /\ Len(selected) \in 1..2
           /\ \A i \in DOMAIN selected : selected[i] \in TradeSet /\ selected[i].notional \in Nat
<1>1. /\ cfg \in Profiles /\ selected \in Seq(TradeSet) /\ turn \in Nat \ {0} /\ Sound(selected)
      /\ turn <= Len(selected)
  BY DEF RunnerInv, RunnerTypes, Ordered
<1>2. Len(selected) <= 2 /\ Len(selected) \in Nat /\ DOMAIN selected = 1..Len(selected)
  BY <1>1 DEF Sound
<1>3. turn \in 1..2 /\ turn \in DOMAIN selected /\ Len(selected) \in 1..2
  BY <1>1, <1>2
<1>4. \A i \in DOMAIN selected : selected[i] \in TradeSet
  BY <1>1
<1>5. \A i \in DOMAIN selected : selected[i].notional \in Nat /\ selected[i].exchange \in Exchanges
  BY <1>4 DEF TradeSet
<1>6. Current.notional <= cfg.per_trade
  BY <1>1, <1>3 DEF Sound, Alone, Current
<1>7. QED
  BY <1>1, <1>3, <1>4, <1>5, <1>6, Settings DEF Current

LEMMA Pair == ASSUME NEW x, NEW y, NEW z \in Seq({x, y}), Len(z) = 2, z[1] = x , z[2] = y PROVE z = <<x, y>>
  OBVIOUS

LEMMA TwoTrades ==
    ASSUME NEW x, NEW y
    PROVE  Append(<<>>, x) = <<x>> /\ Append(<<x>>, y) = <<x, y>>
<1> DEFINE s == <<x>>
           T == {x, y}
           z == Append(s, y)
<1>1. s \in Seq(T) /\ Len(s) = 1 /\ s[1] = x /\ y \in T
  OBVIOUS
<1> HIDE DEF s, T
<1>2. z \in Seq(T) /\ Len(z) = Len(s) + 1 /\ z[Len(s) + 1] = y /\ \A i \in 1..Len(s) : z[i] = s[i]
  BY <1>1
<1>3. Len(z) = 2 /\ z[1] = x /\ z[2] = y
  BY <1>1, <1>2
<1> HIDE DEF z
<1>4. z \in Seq({x, y})
  BY <1>2 DEF T
<1>5. z = <<x, y>>
  BY <1>3, <1>4, Pair, Zenon
<1>6. Append(<<>>, x) = <<x>>
  OBVIOUS
<1>7. QED
  BY <1>5, <1>6 DEF z, s

LEMMA OneMoreDone ==
    ASSUME NEW ts, NEW N \in 1..2, Len(ts) = N, NEW n \in 1..N, NEW ds, Follows(n - 1, ts, ds)
    PROVE  Follows(n, ts, ds) /\ Follows(n, ts, Append(ds, ts[n]))
<1>1. CASE n = 1
  <2>1. ds = <<>>
    BY <1>1 DEF Follows
  <2>2. Append(ds, ts[n]) = <<ts[1]>>
    BY <1>1, <2>1, TwoTrades
  <2>3. QED
    BY <1>1, <2>1, <2>2 DEF Follows
<1>2. CASE n = 2
  <2>1. n - 1 = 1 /\ Len(ts) = 2
    BY <1>2
  <2>2. ds = <<>> \/ ds = <<ts[1]>>
    BY <2>1 DEF Follows
  <2>3. Append(ds, ts[n]) = <<ts[2]>> \/ Append(ds, ts[n]) = <<ts[1], ts[2]>>
    BY <1>2, <2>2, TwoTrades
  <2>4. QED
    BY <1>2, <2>1, <2>2, <2>3 DEF Follows
<1>3. QED
  BY <1>1, <1>2

\* An order, taken or not, and known to have been taken or not.
LEMMA Executed ==
    ASSUME RunnerInv, pc = "execute", NEW known \in BOOLEAN, NEW filled \in BOOLEAN,
           \/ IF filled THEN Reached(Current, known) ELSE NotReached
           \/ filled /\ Performed(Current, known) /\ UNCHANGED <<traded, uncounted>>,
           \/ pc' = "record" /\ accepted' \in BOOLEAN /\ (filled /\ known => accepted')
           \/ pc' = "entering" /\ accepted' = accepted,
           UNCHANGED <<cfg, turn, proposals, selected, spent, midnight, cooling, price>>,
           usd' \in Int, base' \in Int
    PROVE  RunnerInv'
<1> DEFINE t == Current
<1>1. Executing /\ Executing' /\ Current' = t /\ ~Unrecorded /\ SpentToday' = SpentToday
  BY DEF Executing, Unrecorded, SpentToday, Current
<1>2. /\ t \in TradeSet /\ t.notional \in Nat /\ t.exchange \in Exchanges
      /\ turn \in 1..2 /\ turn \in DOMAIN selected /\ Len(selected) \in 1..2
  BY <1>1, CurrentTrade
<1>3. filled /\ known => Unrecorded'
  BY DEF Unrecorded
<1>4. \A x \in Exchanges : Owed(x) = 0
  BY <1>1 DEF Owed
<1>5. t = selected[turn]
  BY DEF Current
<1>6. filled =>
        /\ done' = Append(done, t)
        /\ recent' = recent \cup {t.strategy}
        /\ forgotten' = (IF known THEN forgotten ELSE forgotten \cup {t.strategy})
        /\ \/ UNCHANGED <<traded, uncounted>>
           \/ /\ traded' = (IF cfg.dry_run THEN traded ELSE [traded EXCEPT ![t.exchange] = @ + t.notional])
              /\ uncounted' = (IF cfg.dry_run \/ known THEN uncounted
                              ELSE [uncounted EXCEPT ![t.exchange] = @ + t.notional])
  BY Zenon DEF Reached, Performed, Plus
<1>7. ~filled => UNCHANGED <<done, traded, uncounted, recent, forgotten>>
  BY DEF NotReached
<1> HIDE DEF t
<1>8. \A x \in Exchanges : Owed(x)' = IF Unrecorded' /\ x = t.exchange THEN t.notional ELSE 0
  BY <1>1 DEF Owed
<1>9. /\ traded \in [Exchanges -> Int] /\ uncounted \in [Exchanges -> Int]
      /\ SpentToday \in [Exchanges -> Nat]
  BY SpentTodayType DEF RunnerInv, RunnerTypes
<1>10. /\ traded' \in [Exchanges -> Int] /\ uncounted' \in [Exchanges -> Int]
       /\ cfg.dry_run => traded' = traded /\ uncounted' = uncounted
       /\ \A x \in Exchanges : traded'[x] - uncounted'[x] <= traded[x] - uncounted[x]
             + (IF filled /\ known /\ x = t.exchange THEN t.notional ELSE 0)
  <2>1. CASE ~filled \/ cfg.dry_run \/ UNCHANGED <<traded, uncounted>>
    <3>1. traded' = traded /\ uncounted' = uncounted
      BY <1>6, <1>7, <2>1
    <3>2. QED
      BY <1>2, <1>9, <3>1
  <2>2. CASE filled /\ ~cfg.dry_run /\ known /\ ~UNCHANGED <<traded, uncounted>>
    <3>1. traded' = [traded EXCEPT ![t.exchange] = @ + t.notional] /\ uncounted' = uncounted
      BY <1>6, <2>2
    <3>2. QED
      BY <1>2, <1>9, <2>2, <3>1
  <2>3. CASE filled /\ ~cfg.dry_run /\ ~known /\ ~UNCHANGED <<traded, uncounted>>
    <3>1. /\ traded' = [traded EXCEPT ![t.exchange] = @ + t.notional]
          /\ uncounted' = [uncounted EXCEPT ![t.exchange] = @ + t.notional]
      BY <1>6, <2>3
    <3>2. QED
      BY <1>2, <1>9, <2>3, <3>1
  <2>4. QED
    BY <2>1, <2>2, <2>3
<1>11. RunnerTypes'
  <2>1. done' \in Seq(TradeSet)
    <3>1. done \in Seq(TradeSet)
      BY DEF RunnerInv, RunnerTypes
    <3>2. Append(done, t) \in Seq(TradeSet)
      BY <1>2, <3>1
    <3>3. QED
      BY <1>6, <1>7, <3>1, <3>2
  <2>2. QED
    BY <1>10, <2>1 DEF RunnerInv, RunnerTypes
<1>12. OneEach'
  BY DEF RunnerInv, OneEach
<1>13. Ordered'
  <2>1. Sound(selected)' /\ turn' <= Len(selected')
    BY <1>1 DEF RunnerInv, Ordered, Sound, Alone, Together
  <2>2. Decided = turn - 1 /\ Decided' = turn
    BY DEF Decided
  <2>3. selected \in Seq(TradeSet) /\ turn \in 1..Len(selected) /\ Follows(turn - 1, selected, done)
    BY <1>2, <2>2 DEF RunnerInv, RunnerTypes, Ordered
  <2>4. Follows(turn, selected, done) /\ Follows(turn, selected, Append(done, selected[turn]))
    BY <1>2, <2>3, OneMoreDone
  <2>5. Follows(turn, selected, done')
    BY <1>5, <1>6, <1>7, <2>4
  <2>6. Follows(Decided, selected, done)'
    BY <2>2, <2>5
  <2>7. QED
    BY <1>1, <2>1, <2>6 DEF Ordered
<1>14. Budgeted'
  <2>1. /\ cfg.dry_run => traded = Nothing /\ uncounted = Nothing
        /\ \A x \in Exchanges : /\ x = "coinbase" => traded[x] - uncounted[x] <= SpentToday[x]
                                /\ SpentToday[x] <= cfg.daily[x] + cfg.per_trade
    <3>1. /\ cfg.dry_run => traded = Nothing /\ uncounted = Nothing
          /\ \A x \in Exchanges : /\ x = "coinbase" => traded[x] - uncounted[x] <= SpentToday[x] + Owed(x)
                                  /\ SpentToday[x] <= cfg.daily[x] + cfg.per_trade
      BY DEF RunnerInv, Budgeted
    <3>2. QED
      BY <1>4, <1>9, <3>1
  <2>2. ASSUME NEW x \in Exchanges, x = "coinbase"
        PROVE  traded'[x] - uncounted'[x] <= SpentToday[x] + Owed(x)'
    <3> DEFINE d == traded[x] - uncounted[x]
               e == traded'[x] - uncounted'[x]
               s == SpentToday[x]
    <3>1. d \in Int /\ e \in Int /\ s \in Nat /\ d <= s
      BY <1>9, <1>10, <2>1, <2>2
    <3>2. e <= d + (IF filled /\ known /\ x = t.exchange THEN t.notional ELSE 0)
      BY <1>10
    <3>3. Owed(x)' = IF Unrecorded' /\ x = t.exchange THEN t.notional ELSE 0
      BY <1>8
    <3> HIDE DEF d, e, s
    <3>4. e <= s + Owed(x)'
      BY <1>2, <1>3, <3>1, <3>2, <3>3
    <3>5. QED
      BY <3>4 DEF e, s
  <2>3. /\ SpentToday[t.exchange] + t.notional <= cfg.daily[t.exchange] + cfg.per_trade
        /\ turn = 1 => \A i \in DOMAIN selected :
              SpentToday[selected[i].exchange] + selected[i].notional <= cfg.daily[selected[i].exchange]
    BY <1>1 DEF RunnerInv, Budgeted, t
  <2>4. QED
    BY <1>1, <1>10, <2>1, <2>2, <2>3 DEF Budgeted
<1>15. Spaced'
  <2>1. \A s \in recent \ forgotten : s \in cooling
    BY <1>1 DEF RunnerInv, Spaced
  <2>2. \A s \in recent' \ forgotten' : s \in cooling \/ (filled /\ known /\ s = t.strategy)
    BY <1>6, <1>7, <2>1
  <2>3. cfg.cooldown => \A i \in DOMAIN selected : i >= turn => selected[i].strategy \notin cooling
    BY <1>1 DEF RunnerInv, Spaced
  <2>4. QED
    BY <1>1, <1>3, <2>2, <2>3 DEF Spaced
<1>16. QED
  BY <1>11, <1>12, <1>13, <1>14, <1>15 DEF RunnerInv

LEMMA ExecuteDryStep ==
    ASSUME RunnerInv, ExecuteDry
    PROVE  RunnerInv'
<1>1. /\ pc = "execute" /\ pc' = "record" /\ accepted' = TRUE /\ Reached(Current, TRUE)
      /\ UNCHANGED <<cfg, turn, proposals, selected, spent, midnight, cooling, price, usd, base>>
  BY DEF ExecuteDry
<1>2. usd' \in Int /\ base' \in Int
  BY <1>1 DEF RunnerInv, RunnerTypes
<1>3. QED
  BY <1>1, <1>2, Executed

LEMMA EnterFundingStep ==
    ASSUME RunnerInv, EnterFunding
    PROVE  RunnerInv'
<1>1. /\ pc = "execute" /\ pc' = "entering" /\ accepted' = accepted /\ Performed(Current, TRUE)
      /\ UNCHANGED <<cfg, turn, proposals, selected, spent, midnight, cooling, price, usd, base, traded,
                     uncounted>>
  BY DEF EnterFunding
<1>2. usd' \in Int /\ base' \in Int
  BY <1>1 DEF RunnerInv, RunnerTypes
<1>3. QED
  BY <1>1, <1>2, Executed

LEMMA ExecuteCoinbaseStep ==
    ASSUME RunnerInv, ExecuteCoinbase
    PROVE  RunnerInv'
<1>1. /\ pc = "execute" /\ pc' = "record"
      /\ UNCHANGED <<cfg, turn, proposals, selected, spent, midnight, cooling, price>>
  BY DEF ExecuteCoinbase
<1>2. PICK ok \in BOOLEAN, filled \in BOOLEAN :
        /\ accepted' = ok
        /\ IF filled THEN Reached(Current, ok) ELSE NotReached
        /\ LET size == BaseSize(Current.notional) IN
           IF ~filled THEN UNCHANGED <<usd, base>>
           ELSE IF Current.side = "buy"
                THEN usd' = usd - Current.notional /\ base' = base + Current.notional \div price
                ELSE usd' = usd + size * price /\ base' = base - size
  BY DEF ExecuteCoinbase
<1>3. usd' \in Int /\ base' \in Int
  <2>1. Executing
    BY <1>1 DEF Executing
  <2> DEFINE n == Current.notional
             size == BaseSize(n)
  <2>2. n \in Int /\ price \in Nat \ {0} /\ usd \in Int /\ base \in Int
    BY <2>1, CurrentTrade, RunnerAssumption DEF RunnerInv, RunnerTypes
  <2>3. n \div price \in Int /\ size \in Int
    <3>1. n + price - 1 \in Int
      BY <2>2
    <3>2. \A m \in Int : m \div price \in Int
      BY <2>2
    <3>3. QED
      BY <2>2, <3>1, <3>2 DEF BaseSize
  <2>4. \/ UNCHANGED <<usd, base>>
        \/ usd' = usd - n /\ base' = base + n \div price
        \/ usd' = usd + size * price /\ base' = base - size
    BY Zenon, <1>2
  <2> HIDE DEF n, size
  <2>5. size * price \in Int
    BY <2>2, <2>3
  <2> DEFINE q == n \div price
             m == size * price
  <2>6. q \in Int /\ m \in Int
    BY <2>3, <2>5
  <2>7. \/ usd' = usd /\ base' = base
        \/ usd' = usd - n /\ base' = base + q
        \/ usd' = usd + m /\ base' = base - size
    BY <2>4
  <2> HIDE DEF q, m
  <2>8. QED
    BY <2>2, <2>3, <2>6, <2>7
<1>4. QED
  BY <1>1, <1>2, <1>3, Executed

LEMMA FundingEnteredStep ==
    ASSUME RunnerInv, FundingEntered
    PROVE  RunnerInv'
<1>1. /\ pc = "entering" /\ pc' = "record" /\ accepted' = TRUE
      /\ UNCHANGED <<cfg, turn, proposals, selected, spent, midnight, cooling, usd, base, price, done,
                     traded, uncounted, recent, forgotten>>
  BY DEF FundingEntered
<1>2. Executing /\ Executing' /\ Unrecorded /\ Unrecorded' /\ SpentToday' = SpentToday /\ Current' = Current
  BY <1>1 DEF Executing, Unrecorded, SpentToday, Current
<1>3. \A x : Owed(x)' = Owed(x)
  BY <1>2 DEF Owed
<1>4. RunnerTypes' /\ OneEach'
  BY <1>1 DEF RunnerInv, RunnerTypes, OneEach
<1>5. Ordered'
  <2>1. Decided' = Decided
    BY <1>1 DEF Decided
  <2>2. QED
    BY <1>1, <1>2, <2>1 DEF RunnerInv, Ordered, Sound, Alone, Together
<1>6. Budgeted'
  BY <1>1, <1>2, <1>3 DEF RunnerInv, Budgeted
<1>7. Spaced'
  BY <1>1, <1>2 DEF RunnerInv, Spaced
<1>8. QED
  BY <1>4, <1>5, <1>6, <1>7 DEF RunnerInv

LEMMA MoreSpent ==
    ASSUME NEW f \in [Exchanges -> Nat], NEW x \in Exchanges, NEW n \in Nat
    PROVE  /\ [f EXCEPT ![x] = @ + n] \in [Exchanges -> Nat]
           /\ \A y \in Exchanges : [f EXCEPT ![x] = @ + n][y] = f[y] + (IF y = x THEN n ELSE 0)
  OBVIOUS

\* What was owed is recorded.
LEMMA RecordStep ==
    ASSUME RunnerInv, Record
    PROVE  RunnerInv'
<1> DEFINE t == Current
           counts == accepted /\ ~cfg.dry_run
<1>1. /\ pc = "record" /\ turn' = turn + 1
      /\ pc' = IF turn < Len(selected) THEN "execute" ELSE "report"
      /\ UNCHANGED <<cfg, accepted, proposals, selected, usd, base, price, done, traded, uncounted, recent,
                     forgotten>>
      /\ cooling' = IF accepted THEN cooling \cup {t.strategy} ELSE cooling
  BY DEF Record
<1>2. /\ counts => spent' = [SpentToday EXCEPT ![t.exchange] = @ + t.notional] /\ ~midnight'
      /\ ~counts => spent' = spent /\ midnight' = midnight
      /\ midnight' \in BOOLEAN
  BY DEF Record, RunnerInv, RunnerTypes
<1>3. Executing /\ (Unrecorded <=> accepted) /\ ~Unrecorded'
  BY <1>1 DEF Executing, Unrecorded
<1>4. /\ t \in TradeSet /\ t.notional \in Nat /\ t.exchange \in Exchanges /\ t.notional <= cfg.per_trade
      /\ cfg.per_trade \in Nat /\ cfg.daily \in [Exchanges -> Nat]
      /\ turn \in 1..2 /\ turn \in DOMAIN selected /\ Len(selected) \in 1..2 /\ turn <= Len(selected)
      /\ \A i \in DOMAIN selected : selected[i] \in TradeSet /\ selected[i].notional \in Nat
  BY <1>3, CurrentTrade DEF RunnerInv, Ordered
<1>5. t = selected[turn] /\ Current' = selected[turn + 1]
  BY <1>1 DEF Current
<1>6. SpentToday \in [Exchanges -> Nat]
  BY SpentTodayType DEF RunnerInv
<1>7. \A x \in Exchanges : Owed(x) = IF accepted /\ x = t.exchange THEN t.notional ELSE 0
  BY <1>3 DEF Owed
<1>8. \A x : Owed(x)' = 0
  BY <1>3 DEF Owed
<1> HIDE DEF t
<1>9. /\ counts => SpentToday' = [SpentToday EXCEPT ![t.exchange] = @ + t.notional]
      /\ ~counts => SpentToday' = SpentToday
  <2>1. counts => SpentToday' = spent'
    BY <1>2 DEF SpentToday
  <2>2. ~counts => SpentToday' = SpentToday
    BY <1>2 DEF SpentToday
  <2>3. QED
    BY <1>2, <2>1, <2>2
<1> HIDE DEF counts
<1>10. /\ SpentToday' \in [Exchanges -> Nat]
       /\ \A x \in Exchanges : SpentToday'[x] = SpentToday[x] + (IF counts /\ x = t.exchange THEN t.notional ELSE 0)
  <2>1. CASE counts
    <3>1. SpentToday' = [SpentToday EXCEPT ![t.exchange] = @ + t.notional]
      BY <1>9, <2>1
    <3>2. QED
      BY <1>4, <1>6, <2>1, <3>1, MoreSpent
  <2>2. CASE ~counts
    BY <1>6, <1>9, <2>2
  <2>3. QED
    BY <2>1, <2>2
<1>11. RunnerTypes'
  <2>1. spent' \in [Exchanges -> Nat]
    <3>1. spent \in [Exchanges -> Nat]
      BY DEF RunnerInv, RunnerTypes
    <3>2. counts => spent' \in [Exchanges -> Nat]
      BY <1>2, <1>4, <1>6 DEF counts, t
    <3>3. QED
      BY <1>2, <3>1, <3>2 DEF counts
  <2>2. turn' \in Nat \ {0} /\ pc' \in {"evaluate", "execute", "record", "entering", "report", "sleep", "stopped"}
    BY <1>1, <1>4
  <2>3. QED
    BY <1>1, <1>2, <2>1, <2>2 DEF RunnerInv, RunnerTypes
<1>12. OneEach'
  BY <1>1 DEF RunnerInv, OneEach
<1>13. ASSUME Executing' PROVE turn = 1 /\ turn' = 2 /\ Len(selected) = 2 /\ DOMAIN selected = {1, 2}
  <2>1. turn < Len(selected)
    BY <1>1, <1>13 DEF Executing
  <2> DEFINE L == Len(selected)
  <2>2. turn < L /\ turn \in 1..2 /\ L \in 1..2 /\ turn' = turn + 1
    BY <1>1, <1>4, <2>1
  <2> HIDE DEF L
  <2>3. turn = 1 /\ turn' = 2 /\ L = 2
    BY <2>2
  <2>4. selected \in Seq(TradeSet)
    BY DEF RunnerInv, RunnerTypes
  <2>5. DOMAIN selected = 1..L
    BY <2>4 DEF L
  <2>6. QED
    BY <2>3, <2>5 DEF L
<1>14. Ordered'
  <2>1. Sound(selected)'
    BY <1>1 DEF RunnerInv, Ordered, Sound, Alone, Together
  <2>2. Executing' => turn' <= Len(selected')
    BY <1>1, <1>13
  <2>3. Decided = turn /\ Decided' = turn
    <3>1. Decided = turn
      BY <1>1 DEF Decided
    <3>2. CASE turn < Len(selected)
      BY <1>1, <1>4, <3>2 DEF Decided
    <3>3. CASE ~(turn < Len(selected))
      <4>1. turn = Len(selected)
        BY <1>4, <3>3
      <4>2. QED
        BY <1>1, <3>1, <3>3, <4>1 DEF Decided
    <3>4. QED
      BY <3>1, <3>2, <3>3
  <2>4. pc' = "execute" \/ pc' = "report"
    BY <1>1
  <2>5. QED
    BY <1>1, <2>1, <2>2, <2>3, <2>4 DEF RunnerInv, Ordered, Executing
<1>15. Budgeted'
  <2>1. /\ cfg.dry_run => traded = Nothing /\ uncounted = Nothing
        /\ \A x \in Exchanges : /\ x = "coinbase" => traded[x] - uncounted[x] <= SpentToday[x] + Owed(x)
                                /\ SpentToday[x] <= cfg.daily[x] + cfg.per_trade
        /\ SpentToday[t.exchange] + t.notional <= cfg.daily[t.exchange] + cfg.per_trade
        /\ turn = 1 => \A i \in DOMAIN selected :
              SpentToday[selected[i].exchange] + selected[i].notional <= cfg.daily[selected[i].exchange]
    BY <1>3 DEF RunnerInv, Budgeted, t
  <2>2. ASSUME NEW x \in Exchanges
        PROVE  /\ x = "coinbase" => traded[x] - uncounted[x] <= SpentToday'[x]
               /\ SpentToday'[x] <= cfg.daily[x] + cfg.per_trade
    <3>1. SpentToday'[x] = SpentToday[x] + (IF counts /\ x = t.exchange THEN t.notional ELSE 0)
      BY <1>10
    <3>2. SpentToday'[x] <= cfg.daily[x] + cfg.per_trade
      BY <1>4, <1>6, <2>1, <3>1
    <3>3. ASSUME x = "coinbase" PROVE traded[x] - uncounted[x] <= SpentToday'[x]
      <4>1. CASE cfg.dry_run
        <5>1. traded[x] = 0 /\ uncounted[x] = 0 /\ SpentToday'[x] \in Nat
          BY <1>10, <2>1, <4>1 DEF Nothing
        <5>2. QED
          BY <5>1
      <4>2. CASE ~cfg.dry_run
        <5>1. SpentToday'[x] = SpentToday[x] + Owed(x)
          BY <1>7, <3>1, <4>2 DEF counts
        <5>2. QED
          BY <2>1, <3>3, <5>1
      <4>3. QED
        BY <4>1, <4>2
    <3>4. QED
      BY <3>2, <3>3
  <2>3. \A x \in Exchanges : x = "coinbase" => traded[x] - uncounted[x] <= SpentToday'[x] + 0
    <3>1. \A x \in Exchanges : SpentToday'[x] + 0 = SpentToday'[x]
      BY <1>10
    <3>2. QED
      BY <2>2, <3>1
  <2>4. ASSUME Executing'
        PROVE  SpentToday'[Current'.exchange] + Current'.notional <= cfg.daily[Current'.exchange] + cfg.per_trade
    <3> DEFINE u == selected[2]
               x == u.exchange
    <3>1. turn = 1 /\ 2 \in DOMAIN selected /\ Current' = u
      BY <1>5, <1>13, <2>4
    <3>2. u \in TradeSet /\ SpentToday[x] + u.notional <= cfg.daily[x]
      BY <1>4, <2>1, <3>1
    <3> HIDE DEF u
    <3>3. x \in Exchanges /\ u.notional \in Nat
      BY <3>2 DEF TradeSet
    <3> HIDE DEF x
    <3>4. SpentToday'[x] <= SpentToday[x] + cfg.per_trade /\ SpentToday'[x] \in Nat /\ SpentToday[x] \in Nat
          /\ cfg.daily[x] \in Nat
      <4>1. SpentToday'[x] = SpentToday[x] + (IF counts /\ x = t.exchange THEN t.notional ELSE 0)
        BY <1>10, <3>3
      <4>2. SpentToday'[x] \in Nat /\ SpentToday[x] \in Nat /\ cfg.daily[x] \in Nat
        BY <1>4, <1>6, <1>10, <3>3
      <4>3. t.notional \in Nat /\ cfg.per_trade \in Nat /\ t.notional <= cfg.per_trade
        BY <1>4
      <4>4. QED
        BY <4>1, <4>2, <4>3
    <3>5. SpentToday'[x] + u.notional <= cfg.daily[x] + cfg.per_trade
      BY <1>4, <3>2, <3>3, <3>4
    <3>6. QED
      BY <3>1, <3>5 DEF x
  <2>5. Executing' => turn' # 1
    BY <1>13
  <2>6. QED
    BY <1>1, <1>8, <2>1, <2>2, <2>3, <2>4, <2>5 DEF Budgeted
<1>16. Spaced'
  <2>1. /\ \A s \in recent \ forgotten : s \in cooling \/ (accepted /\ s = t.strategy)
        /\ cfg.cooldown => \A i \in DOMAIN selected : i >= turn => selected[i].strategy \notin cooling
    BY <1>3 DEF RunnerInv, Spaced, t
  <2>2. \A s \in recent \ forgotten : s \in cooling'
    BY <1>1, <2>1
  <2>3. ASSUME cfg.cooldown, Executing', NEW i \in DOMAIN selected, i >= turn'
        PROVE  selected[i].strategy \notin cooling'
    <3>1. i = 2 /\ turn = 1 /\ Len(selected) = 2
      BY <1>13, <2>3
    <3>2. selected[1].strategy # selected[2].strategy
      BY <3>1 DEF RunnerInv, Ordered, Sound, Together
    <3>3. selected[2].strategy \notin cooling
      BY <1>13, <2>1, <2>3, <3>1
    <3>4. QED
      BY <1>1, <1>5, <3>1, <3>2, <3>3
  <2>4. QED
    BY <1>1, <2>2, <2>3 DEF Spaced
<1>17. QED
  BY <1>11, <1>12, <1>14, <1>15, <1>16 DEF RunnerInv

-----------------------------------------------------------------------------
(* The steps around a tick, and time.                                      *)

\* Between two ticks nothing is selected.
LEMMA NothingDone ==
    ASSUME selected = <<>>, done = <<>>, ~Executing
    PROVE  Ordered
<1>1. Len(selected) = 0 /\ DOMAIN selected = {}
  OBVIOUS
<1>2. QED
  BY <1>1 DEF Ordered, Sound, Follows

LEMMA BetweenTicks ==
    ASSUME RunnerInv, Report \/ Wake
    PROVE  RunnerInv'
<1>1. /\ UNCHANGED <<cfg, accepted, spent, midnight, cooling, usd, base, price, traded, uncounted, recent,
                     forgotten>>
      /\ ~Executing /\ ~Executing'
  BY DEF Report, Wake, Between, Executing
<1>2. Budgeted' /\ Spaced'
  BY <1>1, BudgetRests, SpacedRests DEF RunnerInv
<1>3. CASE Report
  <2>1. selected' = <<>> /\ done' = <<>> /\ proposals' = <<>> /\ turn' = 1
    BY <1>3 DEF Report
  <2>2. Ordered'
    BY <1>1, <2>1 DEF Ordered, Sound, Follows, Executing
  <2>3. OneEach'
    BY <2>1 DEF OneEach
  <2>4. pc' \in {"stopped", "sleep"}
    BY <1>3 DEF Report
  <2>5. RunnerTypes'
    BY <1>1, <2>1, <2>4 DEF RunnerInv, RunnerTypes
  <2>6. QED
    BY <1>2, <2>2, <2>3, <2>5 DEF RunnerInv
<1>4. CASE Wake
  <2>1. UNCHANGED <<turn, proposals, selected, done>> /\ pc = "sleep" /\ pc' \in {"stopped", "evaluate"}
    BY <1>4 DEF Wake
  <2>2. Ordered'
    BY <1>1, <2>1 DEF RunnerInv, Ordered, Sound, Alone, Together, Executing, Follows
  <2>3. OneEach'
    BY <1>1, <2>1 DEF RunnerInv, OneEach
  <2>4. RunnerTypes'
    BY <1>1, <2>1 DEF RunnerInv, RunnerTypes
  <2>5. QED
    BY <1>2, <2>2, <2>3, <2>4 DEF RunnerInv
<1>5. QED
  BY <1>3, <1>4

\* An empty budget, and nothing to be recorded that the runner knows of.
LEMMA NothingSpent ==
    ASSUME cfg \in Profiles, ~Executing, SpentToday = Nothing, traded \in [Exchanges -> Int],
           uncounted = traded, cfg.dry_run => traded = Nothing
    PROVE  Budgeted
<1>1. ~Unrecorded
  BY DEF Unrecorded, Executing
<1>2. \A x \in Exchanges : Owed(x) = 0 /\ SpentToday[x] = 0 /\ traded[x] - uncounted[x] = 0
  BY <1>1 DEF Owed, Nothing
<1>3. \A x \in Exchanges : 0 <= cfg.daily[x] + cfg.per_trade
  BY Settings
<1>4. QED
  BY <1>2, <1>3 DEF Budgeted

LEMMA RestartStep ==
    ASSUME RunnerInv, RunnerRestarts
    PROVE  RunnerInv'
<1>1. /\ pc' = "sleep" /\ turn' = 1 /\ accepted' = FALSE
      /\ proposals' = <<>> /\ selected' = <<>> /\ done' = <<>>
      /\ spent' = Nothing /\ midnight' = FALSE /\ cooling' = {}
      /\ uncounted' = traded /\ forgotten' = recent
      /\ UNCHANGED <<cfg, usd, base, price, traded, recent>>
  BY DEF RunnerRestarts
<1>2. ~Executing' /\ SpentToday' = Nothing /\ Nothing \in [Exchanges -> Nat]
  BY <1>1 DEF Executing, SpentToday, Nothing
<1>3. RunnerTypes'
  <2>1. <<>> \in Seq(TradeSet) /\ traded \in [Exchanges -> Int]
    BY DEF RunnerInv, RunnerTypes
  <2>2. pc' \in {"evaluate", "execute", "record", "entering", "report", "sleep", "stopped"}
    BY <1>1
  <2>3. turn' \in Nat \ {0}
    BY <1>1
  <2>4. accepted' \in BOOLEAN /\ midnight' \in BOOLEAN
    BY Zenon, <1>1
  <2>5. QED
    BY <1>1, <1>2, <2>1, <2>2, <2>3, <2>4 DEF RunnerInv, RunnerTypes
<1>4. OneEach'
  BY <1>1 DEF OneEach
<1>5. Ordered'
  BY <1>1, <1>2 DEF Ordered, Sound, Follows, Executing
<1>6. Budgeted'
  <2>1. cfg \in Profiles /\ traded \in [Exchanges -> Int] /\ (cfg.dry_run => traded = Nothing)
    BY DEF RunnerInv, RunnerTypes, Budgeted
  <2>2. ~Unrecorded'
    BY <1>1 DEF Unrecorded
  <2>3. \A x \in Exchanges : Owed(x)' = 0 /\ SpentToday'[x] = 0 /\ traded[x] - traded[x] = 0
    BY <1>2, <2>1, <2>2 DEF Owed, Nothing
  <2>4. \A x \in Exchanges : 0 <= cfg.daily[x] + cfg.per_trade
    BY <2>1, Settings
  <2>5. QED
    BY <1>1, <1>2, <2>1, <2>3, <2>4 DEF Budgeted
<1>7. Spaced'
  BY <1>1, <1>2 DEF Spaced
<1>8. QED
  BY <1>3, <1>4, <1>5, <1>6, <1>7 DEF RunnerInv

LEMMA CooldownStep ==
    ASSUME RunnerInv, CooldownEnds
    PROVE  RunnerInv'
<1>1. PICK s \in recent \cup cooling :
        cooling' = cooling \ {s} /\ recent' = recent \ {s} /\ forgotten' = forgotten \ {s}
  BY DEF CooldownEnds
<1>2. /\ pc = "sleep" /\ UNCHANGED <<cfg, pc, turn, accepted, proposals, selected, spent, midnight, usd, base,
                                     price, done, traded, uncounted>>
      /\ ~Executing /\ ~Executing'
  BY DEF CooldownEnds, Executing
<1>3. RunnerTypes' /\ OneEach'
  BY <1>2 DEF RunnerInv, RunnerTypes, OneEach
<1>4. Ordered'
  BY <1>2 DEF RunnerInv, Ordered, Sound, Alone, Together, Decided
<1>5. Budgeted'
  BY <1>2, BudgetRests DEF RunnerInv
<1>6. Spaced'
  BY <1>1, <1>2 DEF RunnerInv, Spaced, Unrecorded, Executing
<1>7. QED
  BY <1>3, <1>4, <1>5, <1>6 DEF RunnerInv

\* A new day's budget is empty, also in the middle of a tick.
LEMMA MidnightStep ==
    ASSUME RunnerInv, Midnight
    PROVE  RunnerInv'
<1>1. /\ midnight' = TRUE /\ traded' = Nothing /\ uncounted' = Nothing
      /\ UNCHANGED <<cfg, pc, turn, accepted, proposals, selected, spent, cooling, usd, base, price, done,
                     recent, forgotten>>
  BY DEF Midnight
<1>2. /\ SpentToday' = Nothing /\ (Executing <=> Executing') /\ Current' = Current
      /\ (Unrecorded <=> Unrecorded')
  BY <1>1 DEF SpentToday, Executing, Current, Unrecorded
<1>3. RunnerTypes'
  BY <1>1 DEF RunnerInv, RunnerTypes, Nothing
<1>4. OneEach'
  BY <1>1 DEF RunnerInv, OneEach
<1>5. Ordered'
  BY <1>1, <1>2 DEF RunnerInv, Ordered, Sound, Alone, Together, Decided
<1>6. Spaced'
  BY <1>1, <1>2 DEF RunnerInv, Spaced
<1>7. Budgeted'
  <2>1. cfg \in Profiles /\ SpentToday \in [Exchanges -> Nat]
    BY SpentTodayType DEF RunnerInv, RunnerTypes
  <2>2. \A x \in Exchanges : Owed(x)' \in Nat
    <3>1. CASE Executing
      <4>1. Current.notional \in Nat
        BY <3>1, CurrentTrade
      <4>2. QED
        BY <1>2, <4>1 DEF Owed
    <3>2. CASE ~Executing
      <4>1. ~Unrecorded'
        BY <1>2, <3>2 DEF Unrecorded, Executing
      <4>2. QED
        BY <4>1 DEF Owed
    <3>3. QED
      BY <3>1, <3>2
  <2>3. \A x \in Exchanges : Nothing[x] = 0 /\ cfg.daily[x] \in Nat /\ cfg.per_trade \in Nat /\ SpentToday[x] \in Nat
    BY <2>1, Settings DEF Nothing
  <2>4. \A x \in Exchanges : Nothing[x] - Nothing[x] <= Nothing[x] + Owed(x)'
                             /\ Nothing[x] <= cfg.daily[x] + cfg.per_trade
    BY <2>2, <2>3
  <2>5. ASSUME Executing
        PROVE  Nothing[Current.exchange] + Current.notional <= cfg.daily[Current.exchange] + cfg.per_trade
    <3>1. Current.exchange \in Exchanges /\ Current.notional \in Nat /\ Current.notional <= cfg.per_trade
      BY <2>5, CurrentTrade
    <3>2. QED
      BY <2>3, <3>1
  <2>6. ASSUME Executing, turn = 1, NEW i \in DOMAIN selected
        PROVE  Nothing[selected[i].exchange] + selected[i].notional <= cfg.daily[selected[i].exchange]
    <3>1. selected[i] \in TradeSet /\ selected[i].notional \in Nat
      BY <2>6, CurrentTrade
    <3>2. selected[i].exchange \in Exchanges
      BY <3>1 DEF TradeSet
    <3>3. SpentToday[selected[i].exchange] + selected[i].notional <= cfg.daily[selected[i].exchange]
      BY <2>6 DEF RunnerInv, Budgeted
    <3>4. QED
      BY <2>3, <3>1, <3>2, <3>3
  <2>7. QED
    BY <1>1, <1>2, <2>4, <2>5, <2>6 DEF Budgeted
<1>8. QED
  BY <1>3, <1>4, <1>5, <1>6, <1>7 DEF RunnerInv

LEMMA MarketStep ==
    ASSUME RunnerInv, MarketMoves
    PROVE  RunnerInv'
<1>1. price' \in Prices /\ usd' \in Int
  BY RunnerAssumption DEF MarketMoves, RunnerInv, RunnerTypes
<1>2. UNCHANGED <<cfg, pc, turn, accepted, proposals, selected, spent, midnight, cooling, base, done, traded,
                  uncounted, recent, forgotten>>
  BY DEF MarketMoves
<1>3. QED
  BY <1>1, <1>2, RunnerStays

LEMMA RunnerInit == Init => RunnerInv
<1> SUFFICES ASSUME Init PROVE RunnerInv
  OBVIOUS
<1>1. /\ cfg \in Profiles /\ pc = "evaluate" /\ turn = 1 /\ accepted = FALSE /\ price \in Prices
      /\ proposals = <<>> /\ selected = <<>> /\ done = <<>> /\ spent = Nothing /\ midnight = FALSE
      /\ usd = StartUsd /\ base = StartBase /\ traded = Nothing /\ uncounted = Nothing
      /\ recent = {} /\ forgotten = {}
  BY DEF Init
<1>2. ~Executing /\ SpentToday = Nothing /\ Nothing \in [Exchanges -> Nat] /\ Nothing \in [Exchanges -> Int]
  BY <1>1 DEF Executing, SpentToday, Nothing
<1>3. RunnerTypes
  <2>1. <<>> \in Seq(TradeSet) /\ StartUsd \in Int /\ StartBase \in Int
    BY RunnerAssumption
  <2>2. pc \in {"evaluate", "execute", "record", "entering", "report", "sleep", "stopped"}
    BY <1>1
  <2>3. turn \in Nat \ {0}
    BY <1>1
  <2>4. accepted \in BOOLEAN /\ midnight \in BOOLEAN
    BY Zenon, <1>1
  <2>5. QED
    BY <1>1, <1>2, <2>1, <2>2, <2>3, <2>4 DEF RunnerTypes
<1>4. OneEach
  BY <1>1 DEF OneEach
<1>5. Ordered
  BY <1>1, <1>2, NothingDone
<1>6. Budgeted
  BY <1>1, <1>2, NothingSpent
<1>7. Spaced
  BY <1>1, <1>2 DEF Spaced
<1>8. QED
  BY <1>3, <1>4, <1>5, <1>6, <1>7 DEF RunnerInv

Hl == "hyperliquid"

LEMMA NoUnit ==
    ASSUME NEW f \in Legs, NEW x
    PROVE  Add(f, x, 0) = f
<1>1. /\ Add(f, x, 0) \in Legs /\ \A a \in Assets : Add(f, x, 0)[a] = f[a] + (IF a = x THEN 0 ELSE 0)
  BY LegMoves DEF Units
<1>2. \A a \in Assets : f[a] \in Int
  BY DEF Legs
<1> DEFINE g == Add(f, x, 0)
<1>3. g \in Legs /\ \A a \in Assets : g[a] = f[a]
  BY <1>1, <1>2
<1> HIDE DEF g
<1>4. g = f
  BY <1>3 DEF Legs
<1>5. QED
  BY <1>4 DEF g

\* A leg of the runner's entry reaches Hyperliquid or not, and in a dry run it does not.
LEMMA LegSent ==
    ASSUME CarryInv, RunnerEnters, RunnerInv, EnterLeg
    PROVE  /\ pc = "entering" /\ Current.exchange = Hl
           /\ UNCHANGED <<cfg, pc, turn, accepted, proposals, selected, spent, midnight, cooling, usd, base, price,
                          done, uncounted, recent, forgotten>>
           /\ traded' \in [Exchanges -> Int] /\ (cfg.dry_run => traded' = traded)
           /\ traded'["coinbase"] = traded["coinbase"]
           /\ traded'[Hl] = traded[Hl] \/ traded'[Hl] = traded[Hl] + Current.notional
           /\ job["runner"].step = "spot" => job'["runner"].step = "perp"
           /\ job["runner"].step = "perp" => job'["runner"].step = "idle"
           /\ job["runner"].step \in {"spot", "perp"}
<1>1. job["runner"].step \in {"spot", "perp"} /\ "runner" \in Processes /\ job = [p \in Processes |-> job[p]]
  BY RunnerAssumption DEF EnterLeg, ArbSpotLeg, ArbPerpLeg, CarryInv, Positions
<1>2. pc = "entering" /\ job["runner"].dry = cfg.dry_run /\ Current.exchange = Hl
  BY <1>1, IdleIsOver DEF RunnerEnters, Hl
<1>3. /\ UNCHANGED <<cfg, pc, turn, accepted, proposals, selected, spent, midnight, cooling, usd, base, price,
                     done, uncounted, recent, forgotten>>
      /\ traded' = traded \/ (~UNCHANGED <<spot, perp>> /\ traded' = Plus(traded, Current))
  BY DEF EnterLeg
<1>4. Current \in TradeSet /\ Current.notional \in Nat /\ traded \in [Exchanges -> Int]
  BY <1>2, CurrentTrade DEF Executing, RunnerInv, RunnerTypes
<1>5. traded' = traded \/ traded' = [traded EXCEPT ![Hl] = @ + Current.notional]
  BY <1>2, <1>3 DEF Plus
<1>6. /\ traded' \in [Exchanges -> Int] /\ traded'["coinbase"] = traded["coinbase"]
      /\ traded'[Hl] = traded[Hl] \/ traded'[Hl] = traded[Hl] + Current.notional
  <2>1. CASE traded' = traded
    BY <1>4, <2>1
  <2>2. CASE traded' = [traded EXCEPT ![Hl] = @ + Current.notional]
    BY <1>4, <2>2 DEF Exchanges, Hl
  <2>3. QED
    BY <1>5, <2>1, <2>2
<1>7. ASSUME cfg.dry_run PROVE traded' = traded
  <2>1. spot \in Legs /\ perp \in Legs
    BY DEF CarryInv, Positions
  <2>2. CASE ArbSpotLeg("runner")
    <3>1. PICK o \in LegOutcomes(job["runner"].dry) : spot' = Add(spot, job["runner"].asset, Unit(o.filled))
      BY <2>2 DEF ArbSpotLeg
    <3>2. Unit(o.filled) = 0
      BY <1>2, <1>7, <3>1 DEF LegOutcomes, Unit
    <3>3. spot' = spot /\ perp' = perp
      BY <2>1, <2>2, <3>1, <3>2, NoUnit DEF ArbSpotLeg
    <3>4. QED
      BY <1>3, <3>3
  <2>3. CASE ArbPerpLeg("runner")
    <3>1. PICK o \in LegOutcomes(job["runner"].dry) : perp' = Add(perp, job["runner"].asset, Unit(o.filled))
      BY <2>3 DEF ArbPerpLeg
    <3>2. Unit(o.filled) = 0
      BY <1>2, <1>7, <3>1 DEF LegOutcomes, Unit
    <3>3. spot' = spot /\ perp' = perp
      BY <2>1, <2>3, <3>1, <3>2, NoUnit DEF ArbPerpLeg
    <3>4. QED
      BY <1>3, <3>3
  <2>4. QED
    BY <2>2, <2>3 DEF EnterLeg
<1>8. ASSUME job["runner"].step = "spot" PROVE job'["runner"].step = "perp"
  <2>1. ArbSpotLeg("runner")
    BY <1>8 DEF EnterLeg, ArbPerpLeg
  <2>2. PICK ok : InArb("runner", "perp", job["runner"].asset, job["runner"].dry, ok)
    BY <2>1 DEF ArbSpotLeg
  <2>3. QED
    BY <1>1, <2>2 DEF InArb
<1>9. ASSUME job["runner"].step = "perp" PROVE job'["runner"].step = "idle"
  <2>1. ArbPerpLeg("runner")
    BY <1>9 DEF EnterLeg, ArbSpotLeg
  <2>2. job' = [job EXCEPT !["runner"] = Idle]
    BY <2>1 DEF ArbPerpLeg, Done
  <2>3. QED
    BY <1>1, <2>2, IdleIsOver
<1>10. QED
  BY <1>1, <1>2, <1>3, <1>6, <1>7, <1>8, <1>9

LEMMA EnterLegStep ==
    ASSUME CarryInv, RunnerEnters, RunnerInv, EnterLeg
    PROVE  RunnerInv'
<1>1. /\ UNCHANGED <<cfg, pc, turn, accepted, proposals, selected, spent, midnight, cooling, usd, base, price,
                     done, uncounted, recent, forgotten>>
      /\ traded' \in [Exchanges -> Int] /\ (cfg.dry_run => traded' = traded)
      /\ traded'["coinbase"] = traded["coinbase"]
  BY LegSent
<1>2. RunnerTypes' /\ OneEach'
  BY <1>1 DEF RunnerInv, RunnerTypes, OneEach
<1>3. Ordered'
  BY <1>1 DEF RunnerInv, Ordered, Sound, Alone, Together, Executing, Decided
<1>4. Budgeted'
  <2>1. /\ SpentToday' = SpentToday /\ Current' = Current /\ (Executing' <=> Executing)
        /\ \A x : Owed(x)' = Owed(x)
    BY <1>1 DEF SpentToday, Current, Executing, Owed, Unrecorded
  <2>2. \A x \in Exchanges : x = "coinbase" => traded'[x] - uncounted'[x] = traded[x] - uncounted[x]
    BY <1>1
  <2>3. QED
    BY <1>1, <2>1, <2>2 DEF RunnerInv, Budgeted
<1>5. Spaced'
  BY <1>1 DEF RunnerInv, Spaced, Unrecorded, Current, Executing
<1>6. QED
  BY <1>2, <1>3, <1>4, <1>5 DEF RunnerInv

LEMMA RunnerNext == CarryInv /\ RunnerEnters /\ RunnerInv /\ [Next]_vars => RunnerInv'
<1> SUFFICES ASSUME CarryInv, RunnerEnters, RunnerInv, [Next]_vars PROVE RunnerInv'
  OBVIOUS
<1>1. CASE UNCHANGED vars_runner
  <2>1. price' \in Prices /\ usd' \in Int
    BY <1>1 DEF vars_runner, RunnerInv, RunnerTypes
  <2>2. QED
    BY <1>1, <2>1, RunnerStays DEF vars_runner
<1>2. CASE Sigterm
  <2>1. price' \in Prices /\ usd' \in Int
    BY <1>2 DEF Sigterm, RunnerInv, RunnerTypes
  <2>2. QED
    BY <1>2, <2>1, RunnerStays DEF Sigterm
<1>3. CASE RunnerStep
  BY <1>1, <1>3, EvaluateSpotStep, EvaluateOtherStep, GateStep, ExecuteDryStep, ExecuteCoinbaseStep,
     EnterFundingStep, EnterLegStep, FundingEnteredStep, RecordStep, BetweenTicks DEF RunnerStep
<1>4. CASE UNCHANGED vars
  BY <1>1, <1>4 DEF vars
<1>5. QED
  BY <1>1, <1>2, <1>3, <1>4, RestartStep, CooldownStep, MidnightStep, MarketStep DEF Next

LEMMA RunnerAlways == Spec => []RunnerInv
  BY CarryAlways, RunnerInit, RunnerNext, PTL DEF Spec

-----------------------------------------------------------------------------
(* The carry trades: two orders each, of which the budget counts one.       *)

\* The orders still to be placed in the runner's entry.
Unsent ==
    IF pc # "entering" THEN 0
    ELSE IF job["runner"].step = "spot" THEN 2 * Current.notional
    ELSE IF job["runner"].step = "perp" THEN Current.notional
    ELSE 0

\* Only one strategy trades on Hyperliquid, so a trade there fits the budget when it is made.
Carried ==
    /\ traded[Hl] - uncounted[Hl] + Unsent <= 2 * (SpentToday[Hl] + Owed(Hl))
    /\ SpentToday[Hl] <= cfg.daily[Hl]
    /\ Executing =>
          \A i \in DOMAIN selected :
             i >= turn /\ selected[i].exchange = Hl => SpentToday[Hl] + selected[i].notional <= cfg.daily[Hl]

LEMMA HlAmounts ==
    ASSUME RunnerTypes
    PROVE  /\ traded[Hl] \in Int /\ uncounted[Hl] \in Int /\ SpentToday[Hl] \in Nat
           /\ cfg.daily[Hl] \in Nat /\ Hl \in Exchanges
  BY SpentTodayType, Settings DEF RunnerTypes, Exchanges, Hl

LEMMA NoneUnderWay == ~Executing => Unsent = 0 /\ Owed(Hl) = 0
  BY DEF Executing, Unsent, Owed, Unrecorded

\* Nothing that matters for the carry trades happens.
LEMMA CarriedRests ==
    ASSUME Carried, UNCHANGED <<cfg, pc, turn, accepted, selected, spent, midnight, traded, uncounted>>,
           job'["runner"] = job["runner"]
    PROVE  Carried'
  BY DEF Carried, Executing, SpentToday, Owed, Unrecorded, Unsent, Current

LEMMA CarriedBetween ==
    ASSUME RunnerInv, RunnerInv', Carried,
           EvaluateSpot \/ EvaluateOther \/ Gate \/ Report \/ Wake \/ CooldownEnds
    PROVE  Carried'
<1>1. /\ UNCHANGED <<cfg, traded, uncounted>> /\ SpentToday' = SpentToday /\ ~Executing
      /\ Gate \/ ~Executing'
  <2>1. CASE Gate
    <3>1. /\ UNCHANGED <<cfg, traded, uncounted>> /\ pc = "evaluate"
          /\ \/ proposals = <<>> /\ spent' = spent /\ (midnight' <=> midnight)
             \/ spent' = SpentToday /\ ~midnight'
      BY <2>1 DEF Gate
    <3>2. SpentToday' = SpentToday
      BY <3>1 DEF SpentToday
    <3>3. QED
      BY <2>1, <3>1, <3>2 DEF Executing
  <2>2. CASE EvaluateSpot \/ EvaluateOther
    BY <2>2 DEF EvaluateSpot, EvaluateOther, AtStrategy, Executing, SpentToday
  <2>3. CASE Report \/ Wake \/ CooldownEnds
    BY <2>3 DEF Report, Wake, Between, CooldownEnds, Executing, SpentToday
  <2>4. QED
    BY <2>1, <2>2, <2>3
<1>2. Unsent = 0 /\ Owed(Hl) = 0
  BY <1>1, NoneUnderWay
<1>3. Unsent' = 0 /\ Owed(Hl)' = 0
  <2>1. CASE Gate
    BY <2>1 DEF Gate, Unsent, Owed, Unrecorded
  <2>2. CASE ~Executing'
    BY <2>2 DEF Executing, Unsent, Owed, Unrecorded
  <2>3. QED
    BY <1>1, <2>1, <2>2
<1>4. ASSUME Executing', NEW i \in DOMAIN selected', selected'[i].exchange = Hl
      PROVE  SpentToday'[Hl] + selected'[i].notional <= cfg'.daily[Hl]
  <2>1. turn' = 1
    BY <1>1, <1>4 DEF Gate
  <2>2. QED
    BY <1>4, <2>1 DEF RunnerInv, Budgeted
<1>5. QED
  BY <1>1, <1>2, <1>3, <1>4 DEF Carried

LEMMA CarriedElsewhere ==
    ASSUME RunnerInv, Carried, ExecuteDry \/ ExecuteCoinbase
    PROVE  Carried'
<1>1. /\ pc = "execute" /\ pc' = "record" /\ Current.exchange = "coinbase"
      /\ UNCHANGED <<cfg, turn, selected>>
      /\ Executing /\ Executing' /\ SpentToday' = SpentToday /\ Current' = Current
  <2>1. /\ pc = "execute" /\ pc' = "record" /\ Current.exchange = "coinbase"
        /\ UNCHANGED <<cfg, turn, selected, spent, midnight>>
    BY DEF ExecuteDry, ExecuteCoinbase
  <2>2. QED
    BY <2>1 DEF Executing, SpentToday, Current
<1>2. Unsent = 0 /\ Owed(Hl) = 0 /\ Unsent' = 0 /\ Owed(Hl)' = 0
  BY <1>1 DEF Unsent, Owed, Unrecorded, Hl
<1>3. \/ UNCHANGED <<traded, uncounted>>
      \/ \E k \in BOOLEAN : Reached(Current, k)
  BY DEF ExecuteDry, ExecuteCoinbase, NotReached
<1>4. Plus(traded, Current)[Hl] = traded[Hl] /\ Plus(uncounted, Current)[Hl] = uncounted[Hl]
  BY <1>1 DEF Plus, Hl, Exchanges, RunnerInv, RunnerTypes
<1>5. traded'[Hl] = traded[Hl] /\ uncounted'[Hl] = uncounted[Hl]
  BY <1>3, <1>4 DEF Reached
<1>6. QED
  BY <1>1, <1>2, <1>5 DEF Carried

LEMMA CarriedEntry ==
    ASSUME CarryInv, RunnerEnters, RunnerInv, Carried, EnterFunding \/ EnterLeg \/ FundingEntered
    PROVE  Carried'
<1>1. /\ UNCHANGED <<cfg, turn, selected, spent, midnight, uncounted>>
      /\ Executing /\ Executing' /\ SpentToday' = SpentToday /\ Current' = Current
  <2>1. CASE EnterLeg
    BY <2>1, LegSent DEF Executing, SpentToday, Current
  <2>2. CASE EnterFunding \/ FundingEntered
    <3>1. /\ UNCHANGED <<cfg, turn, selected, spent, midnight, uncounted>>
          /\ pc \in {"execute", "entering"} /\ pc' \in {"entering", "record"}
      BY <2>2 DEF EnterFunding, FundingEntered
    <3>2. QED
      BY <3>1 DEF Executing, SpentToday, Current
  <2>3. QED
    BY <2>1, <2>2
<1>2. Current.notional \in Nat /\ RunnerTypes
  BY <1>1, CurrentTrade DEF RunnerInv
<1>3. Unsent \in Int /\ Unsent' \in Int
  BY <1>1, <1>2 DEF Unsent
<1>4. Current.exchange = Hl
  BY LegSent DEF EnterFunding, FundingEntered, RunnerEnters, Hl
<1>5. Owed(Hl)' = Current.notional
  <2>1. CASE EnterLeg
    BY <1>1, <1>4, <2>1, LegSent DEF Owed, Unrecorded
  <2>2. QED
    BY <1>1, <1>4, <2>1 DEF EnterFunding, FundingEntered, Owed, Unrecorded
<1>6. traded'[Hl] - uncounted[Hl] + Unsent' <= 2 * (SpentToday[Hl] + Current.notional)
  <2>1. traded[Hl] - uncounted[Hl] + Unsent <= 2 * (SpentToday[Hl] + Owed(Hl))
    BY DEF Carried
  <2>2. CASE EnterFunding
    <3>1. pc = "execute" /\ pc' = "entering" /\ traded' = traded
      BY <2>2 DEF EnterFunding
    <3>2. job'["runner"].step = "spot"
      BY <2>2, RunnerAssumption DEF EnterFunding, StartArb, InArb, CarryInv, Positions
    <3>3. Unsent = 0 /\ Owed(Hl) = 0 /\ Unsent' = 2 * Current.notional
      BY <1>1, <3>1, <3>2 DEF Unsent, Owed, Unrecorded
    <3>4. QED
      BY <1>2, <2>1, <3>1, <3>3, HlAmounts
  <2>3. CASE EnterLeg
    <3>1. /\ pc = "entering" /\ pc' = "entering"
          /\ traded'[Hl] = traded[Hl] \/ traded'[Hl] = traded[Hl] + Current.notional
          /\ \/ job["runner"].step = "spot" /\ job'["runner"].step = "perp"
             \/ job["runner"].step = "perp" /\ job'["runner"].step = "idle"
      BY <2>3, LegSent
    <3>2. Owed(Hl) = Current.notional
      BY <1>4, <3>1 DEF Owed, Unrecorded
    <3>3. Unsent = Unsent' + Current.notional
      BY <1>1, <1>2, <3>1 DEF Unsent
    <3>4. QED
      BY <1>2, <1>3, <2>1, <3>1, <3>2, <3>3, HlAmounts
  <2>4. CASE FundingEntered
    <3>1. pc = "entering" /\ job["runner"] = Idle /\ pc' = "record" /\ traded' = traded
      BY <2>4 DEF FundingEntered
    <3>2. Unsent = 0 /\ Unsent' = 0 /\ Owed(Hl) = Current.notional
      BY <1>4, <3>1, IdleIsOver DEF Unsent, Owed, Unrecorded
    <3>3. QED
      BY <2>1, <3>1, <3>2
  <2>5. QED
    BY <2>2, <2>3, <2>4
<1>7. QED
  BY <1>1, <1>5, <1>6 DEF Carried

LEMMA CarriedRecord ==
    ASSUME RunnerInv, RunnerInv', Carried, Record
    PROVE  Carried'
<1>1. /\ pc = "record" /\ Executing /\ turn' = turn + 1 /\ pc' \in {"execute", "report"}
      /\ UNCHANGED <<cfg, selected, traded, uncounted>>
  BY DEF Record, Executing
<1>2. Unsent = 0 /\ Unsent' = 0 /\ Owed(Hl)' = 0
  BY <1>1 DEF Unsent, Owed, Unrecorded
<1>3. /\ Current \in TradeSet /\ Current.notional \in Nat /\ turn \in DOMAIN selected /\ turn \in Int
      /\ RunnerTypes /\ RunnerTypes' /\ Current = selected[turn]
  BY <1>1, CurrentTrade DEF RunnerInv, Current
<1>4. Owed(Hl) = IF accepted /\ Current.exchange = Hl THEN Current.notional ELSE 0
  BY <1>1 DEF Owed, Unrecorded
<1>5. SpentToday'[Hl] = SpentToday[Hl] + (IF accepted /\ ~cfg.dry_run /\ Current.exchange = Hl
                                          THEN Current.notional ELSE 0)
  <2>1. CASE accepted /\ ~cfg.dry_run
    <3>1. spent' = [SpentToday EXCEPT ![Current.exchange] = @ + Current.notional] /\ SpentToday' = spent'
      BY <2>1 DEF Record, SpentToday
    <3>2. SpentToday \in [Exchanges -> Nat] /\ Hl \in Exchanges
      BY <1>3, SpentTodayType, HlAmounts
    <3>3. CASE Current.exchange = Hl
      BY <2>1, <3>1, <3>2, <3>3
    <3>4. CASE Current.exchange # Hl
      <4>1. SpentToday'[Hl] = SpentToday[Hl]
        BY <3>1, <3>2, <3>4
      <4>2. QED
        BY <3>2, <3>4, <4>1
    <3>5. QED
      BY <3>3, <3>4
  <2>2. CASE ~(accepted /\ ~cfg.dry_run)
    <3>1. SpentToday' = SpentToday
      BY <2>2 DEF Record, SpentToday
    <3>2. QED
      BY <1>3, <2>2, <3>1, HlAmounts
  <2>3. QED
    BY <2>1, <2>2
<1>6. /\ traded[Hl] - uncounted[Hl] <= 2 * (SpentToday[Hl] + Owed(Hl)) /\ SpentToday[Hl] <= cfg.daily[Hl]
      /\ Current.exchange = Hl => SpentToday[Hl] + Current.notional <= cfg.daily[Hl]
  <2>1. traded[Hl] \in Int /\ uncounted[Hl] \in Int
    BY <1>3, HlAmounts
  <2>2. QED
    BY <1>1, <1>2, <1>3, <2>1 DEF Carried
<1>7. traded[Hl] - uncounted[Hl] <= 2 * SpentToday'[Hl]
  <2>1. CASE cfg.dry_run
    <3>1. traded[Hl] = 0 /\ uncounted[Hl] = 0
      BY <1>3, <2>1, HlAmounts DEF RunnerInv, Budgeted, Nothing
    <3>2. SpentToday'[Hl] \in Nat
      BY <1>3, <1>5, HlAmounts
    <3>3. QED
      BY <3>1, <3>2
  <2>2. CASE ~cfg.dry_run
    <3>1. SpentToday'[Hl] = SpentToday[Hl] + Owed(Hl)
      BY <1>4, <1>5, <2>2
    <3>2. QED
      BY <1>6, <3>1
  <2>3. QED
    BY <2>1, <2>2
<1>8. SpentToday'[Hl] <= cfg.daily[Hl]
  BY <1>3, <1>5, <1>6, HlAmounts
<1>9. ASSUME Executing', NEW i \in DOMAIN selected, i >= turn + 1, selected[i].exchange = Hl
      PROVE  SpentToday'[Hl] + selected[i].notional <= cfg.daily[Hl]
  <2>1. turn = 1 /\ i = 2 /\ Len(selected) = 2
    <3>1. Len(selected) <= 2 /\ DOMAIN selected = 1..Len(selected) /\ Len(selected) \in Nat
      BY <1>3 DEF RunnerInv, RunnerTypes, Ordered, Sound
    <3>2. QED
      BY <1>3, <1>9, <3>1
  <2>2. selected[1].strategy # selected[2].strategy /\ selected[1] \in TradeSet /\ selected[2] \in TradeSet
    <3>1. Together(selected[1], selected[2])
      BY <2>1 DEF RunnerInv, Ordered, Sound
    <3>2. selected \in Seq(TradeSet) /\ 1 \in DOMAIN selected /\ 2 \in DOMAIN selected
      BY <1>3, <1>9, <2>1 DEF RunnerTypes
    <3>3. QED
      BY <3>1, <3>2 DEF Together
  <2>3. Current.exchange # Hl
    BY <1>3, <1>9, <2>1, <2>2 DEF TradeSet, Venue, Strategies, Hl
  <2>4. SpentToday'[Hl] = SpentToday[Hl]
    BY <1>3, <1>5, <2>3, HlAmounts
  <2>5. i >= turn
    BY <2>1
  <2>6. QED
    BY <1>1, <1>9, <2>4, <2>5 DEF Carried
<1>10. traded'[Hl] - uncounted'[Hl] + Unsent' <= 2 * (SpentToday'[Hl] + Owed(Hl)')
  <2>1. traded[Hl] \in Int /\ uncounted[Hl] \in Int /\ SpentToday'[Hl] \in Nat
    BY <1>3, <1>5, HlAmounts
  <2>2. QED
    BY <1>1, <1>2, <1>7, <2>1
<1>11. QED
  BY <1>1, <1>8, <1>9, <1>10 DEF Carried

\* A restart hides what was traded; at midnight a new budget begins, and the entry under way is
\* counted in it.
LEMMA CarriedAnew ==
    ASSUME RunnerEnters, RunnerInv, RunnerInv', Carried, RunnerRestarts \/ Midnight
    PROVE  Carried'
<1>1. RunnerTypes /\ RunnerTypes' /\ cfg' = cfg
  BY DEF RunnerInv, RunnerRestarts, Midnight
<1>2. CASE RunnerRestarts
  <2>1. ~Executing' /\ SpentToday' = Nothing /\ uncounted' = traded /\ traded' = traded
    BY <1>2 DEF RunnerRestarts, Executing, SpentToday
  <2>2. Unsent' = 0 /\ Owed(Hl)' = 0
    BY <2>1 DEF Executing, Unsent, Owed, Unrecorded
  <2>3. Nothing[Hl] = 0
    BY <1>1, HlAmounts DEF Nothing
  <2>4. traded[Hl] \in Int /\ cfg.daily[Hl] \in Nat
    BY <1>1, HlAmounts
  <2>5. QED
    BY <1>1, <2>1, <2>2, <2>3, <2>4 DEF Carried
<1>3. CASE Midnight
  <2>1. /\ UNCHANGED <<cfg, pc, turn, accepted, selected, job>>
        /\ SpentToday' = Nothing /\ traded' = Nothing /\ uncounted' = Nothing
    BY <1>3 DEF Midnight, SpentToday, vars_funding
  <2>2. /\ Unsent' = Unsent /\ Owed(Hl)' = Owed(Hl) /\ (Executing' <=> Executing)
    BY <2>1 DEF Unsent, Owed, Unrecorded, Executing, Current
  <2>3. Nothing[Hl] = 0 /\ cfg.daily[Hl] \in Nat /\ SpentToday[Hl] \in Nat
    BY <1>1, HlAmounts DEF Nothing
  <2>4. Unsent <= 2 * Owed(Hl) /\ Unsent \in Int /\ Owed(Hl) \in Int
    <3>1. CASE Executing
      <4>1. Current.notional \in Nat
        BY <3>1, CurrentTrade
      <4>2. pc = "entering" => Current.exchange = Hl
        BY DEF RunnerEnters, Hl
      <4>3. CASE pc = "entering"
        <5>1. Owed(Hl) = Current.notional
          BY <4>2, <4>3 DEF Owed, Unrecorded
        <5>2. QED
          BY <4>1, <5>1 DEF Unsent
      <4>4. CASE pc # "entering"
        BY <4>1, <4>4 DEF Unsent, Owed
      <4>5. QED
        BY <4>3, <4>4
    <3>2. CASE ~Executing
      BY <3>2, NoneUnderWay
    <3>3. QED
      BY <3>1, <3>2
  <2>5. Executing =>
          \A i \in DOMAIN selected :
             i >= turn /\ selected[i].exchange = Hl => 0 + selected[i].notional <= cfg.daily[Hl]
    <3> SUFFICES ASSUME Executing, NEW i \in DOMAIN selected, i >= turn, selected[i].exchange = Hl
                 PROVE  0 + selected[i].notional <= cfg.daily[Hl]
      OBVIOUS
    <3>1. selected[i].notional \in Nat
      BY CurrentTrade
    <3>2. SpentToday[Hl] + selected[i].notional <= cfg.daily[Hl]
      BY DEF Carried
    <3>3. QED
      BY <2>3, <3>1, <3>2
  <2>6. QED
    BY <2>1, <2>2, <2>3, <2>4, <2>5 DEF Carried
<1>4. QED
  BY <1>2, <1>3

LEMMA CarriedInit == Init => Carried
<1> SUFFICES ASSUME Init PROVE Carried
  OBVIOUS
<1>1. RunnerTypes
  BY RunnerInit DEF RunnerInv
<1>2. /\ pc = "evaluate" /\ spent = Nothing /\ midnight = FALSE /\ traded = Nothing /\ uncounted = Nothing
  BY DEF Init
<1>3. ~Executing /\ SpentToday = Nothing /\ Nothing[Hl] = 0
  BY <1>1, <1>2, HlAmounts DEF Executing, SpentToday, Nothing
<1>4. QED
  BY <1>1, <1>2, <1>3, NoneUnderWay, HlAmounts DEF Carried

LEMMA CarriedNext == CarryInv /\ RunnerEnters /\ RunnerInv /\ RunnerInv' /\ Carried /\ [Next]_vars => Carried'
<1> SUFFICES ASSUME CarryInv, RunnerEnters, RunnerInv, RunnerInv', Carried, [Next]_vars PROVE Carried'
  OBVIOUS
<1>1. CASE Sigterm \/ MarketMoves \/ UNCHANGED vars
  BY <1>1, CarriedRests DEF Sigterm, MarketMoves, vars_funding, vars, vars_runner
<1>2. CASE NextFunding /\ UNCHANGED vars_runner
  BY <1>2, MonitorLeaves, CarriedRests DEF vars_runner
<1>3. CASE RunnerStep
  BY <1>3, CarriedBetween, CarriedElsewhere, CarriedEntry, CarriedRecord DEF RunnerStep
<1>4. QED
  BY <1>1, <1>2, <1>3, CarriedBetween, CarriedAnew DEF Next

LEMMA CarriedAlways == Spec => []Carried
  BY CarryAlways, RunnerAlways, CarriedInit, CarriedNext, PTL DEF Spec

-----------------------------------------------------------------------------
(* The results about the runner.                                           *)

\* What reached an exchange in a day, except for the orders an answer lost or a restart hid from the
\* runner, is on Coinbase within the daily budget and one trade, and on Hyperliquid, where a carry trade
\* places two orders and counts as one, within twice the budget (_check_risk, _DailyNotional.record,
\* enter_arb), for any strategies, limits, prices and answers, midnight in the middle of a tick and
\* every restart.
THEOREM BudgetKept == Spec => []BudgetBoundsTrading
<1>1. RunnerInv /\ Carried => BudgetBoundsTrading
  <2> SUFFICES ASSUME RunnerInv, Carried PROVE BudgetBoundsTrading
    OBVIOUS
  <2> DEFINE x == "coinbase"
  <2>1. /\ traded[x] \in Int /\ uncounted[x] \in Int /\ SpentToday[x] \in Nat
        /\ cfg.daily[x] \in Nat /\ cfg.per_trade \in Nat
    BY SpentTodayType, Settings DEF RunnerInv, RunnerTypes, Exchanges
  <2>2. traded[x] - uncounted[x] <= cfg.daily[x] + cfg.per_trade
    <3>1. /\ traded[x] - uncounted[x] <= SpentToday[x] + Owed(x)
          /\ SpentToday[x] <= cfg.daily[x] + cfg.per_trade
          /\ Executing => SpentToday[Current.exchange] + Current.notional
                            <= cfg.daily[Current.exchange] + cfg.per_trade
      BY DEF RunnerInv, Budgeted, Exchanges
    <3>2. CASE Unrecorded /\ x = Current.exchange
      <4>1. Executing /\ Owed(x) = Current.notional
        BY <3>2 DEF Unrecorded, Executing, Owed
      <4>2. Current.notional \in Nat
        BY <4>1, CurrentTrade
      <4>3. QED
        BY <2>1, <3>1, <3>2, <4>1, <4>2
    <3>3. CASE ~(Unrecorded /\ x = Current.exchange)
      <4>1. Owed(x) = 0
        BY <3>3 DEF Owed
      <4>2. QED
        BY <2>1, <3>1, <4>1
    <3>4. QED
      BY <3>2, <3>3
  <2>3. traded[Hl] - uncounted[Hl] <= 2 * cfg.daily[Hl]
    <3>1. /\ traded[Hl] \in Int /\ uncounted[Hl] \in Int /\ SpentToday[Hl] \in Nat /\ cfg.daily[Hl] \in Nat
      BY HlAmounts DEF RunnerInv
    <3>2. /\ traded[Hl] - uncounted[Hl] + Unsent <= 2 * (SpentToday[Hl] + Owed(Hl))
          /\ SpentToday[Hl] <= cfg.daily[Hl]
      BY DEF Carried
    <3>3. CASE Executing
      <4>1. Current.notional \in Nat /\ turn \in DOMAIN selected /\ Current = selected[turn] /\ turn \in Int
        BY <3>3, CurrentTrade DEF Current
      <4>2. Unsent \in Nat
        BY <4>1 DEF Unsent
      <4>3. Owed(Hl) = 0 \/ (Owed(Hl) = Current.notional /\ Current.exchange = Hl)
        BY DEF Owed
      <4>4. Current.exchange = Hl => SpentToday[Hl] + Current.notional <= cfg.daily[Hl]
        BY <3>3, <4>1 DEF Carried
      <4>5. SpentToday[Hl] + Owed(Hl) <= cfg.daily[Hl] /\ Owed(Hl) \in Nat
        BY <3>1, <3>2, <4>1, <4>3, <4>4
      <4>6. QED
        BY <3>1, <3>2, <4>2, <4>5
    <3>4. CASE ~Executing
      BY <3>1, <3>2, <3>4, NoneUnderWay
    <3>5. QED
      BY <3>3, <3>4
  <2>4. QED
    BY <2>2, <2>3 DEF BudgetBoundsTrading, Hl
<1>2. QED
  BY <1>1, RunnerAlways, CarriedAlways, PTL

\* The trades of one tick never take opposite sides of an asset; with a fallback allowed, they stay
\* within the capital and the exposure to ETH of a tick (StrategyAllocator.select), whichever of them
\* are done.
THEOREM TickLimitsKept == Spec => []TickWithinLimits
<1>1. RunnerInv => TickWithinLimits
  <2> SUFFICES ASSUME RunnerInv PROVE TickWithinLimits
    OBVIOUS
  <2>1. /\ Sound(selected) /\ selected \in Seq(TradeSet) /\ cfg \in Profiles
        /\ Follows(Decided, selected, done)
    BY DEF RunnerInv, RunnerTypes, Ordered
  <2>2. cfg.available_capital \in Nat
    BY <2>1, Settings
  <2>3. \A a : ~AreConflicting(a, a)
    BY DEF AreConflicting
  <2>4. CASE done = <<>>
    <3>1. 1..Len(done) = {}
      BY <2>4
    <3>2. NotionalOf(done) = 0 /\ EthBuys(done) = 0
      BY <2>4, Sums
    <3>3. 0 <= cfg.available_capital /\ (cfg.max_eth > 0 => 0 <= cfg.max_eth)
      BY <2>1, <2>2, Settings
    <3>4. QED
      BY <3>1, <3>2, <3>3 DEF TickWithinLimits
  <2>5. ASSUME NEW k \in DOMAIN selected, done = <<selected[k]>> PROVE TickWithinLimits
    <3> DEFINE a == selected[k]
    <3>1. a \in TradeSet /\ Alone(a) /\ done = <<a>>
      BY <2>1, <2>5 DEF Sound
    <3> HIDE DEF a
    <3>2. Len(done) = 1 /\ done[1] = a
      BY <3>1
    <3>3. a.notional \in Int
      BY <3>1 DEF TradeSet
    <3>4. NotionalOf(done) = a.notional /\ EthBuys(done) = EthPart(a)
      BY <3>1, <3>3, Sums
    <3>5. \A i \in 1..Len(done) : done[i] = a
      BY <3>2
    <3>6. QED
      BY <2>3, <3>1, <3>4, <3>5 DEF TickWithinLimits, Alone
  <2>6. ASSUME Len(selected) = 2, done = <<selected[1], selected[2]>> PROVE TickWithinLimits
    <3> DEFINE a == selected[1]
               b == selected[2]
    <3>1. 1 \in DOMAIN selected /\ 2 \in DOMAIN selected
      BY <2>1, <2>6
    <3>2. a \in TradeSet /\ b \in TradeSet /\ Together(a, b) /\ done = <<a, b>>
      BY <2>1, <2>6, <3>1 DEF Sound
    <3> HIDE DEF a, b
    <3>3. Len(done) = 2 /\ done[1] = a /\ done[2] = b
      BY <3>2
    <3>4. a.notional \in Int /\ b.notional \in Int
      BY <3>2 DEF TradeSet
    <3>5. NotionalOf(done) = a.notional + b.notional /\ EthBuys(done) = EthPart(a) + EthPart(b)
      BY <3>2, <3>4, Sums
    <3>6. \A i \in 1..Len(done) : done[i] = a \/ done[i] = b
      BY <3>3
    <3>7. ~AreConflicting(a, b) /\ ~AreConflicting(b, a)
      BY <3>2 DEF Together, AreConflicting
    <3>8. QED
      BY <2>3, <3>2, <3>5, <3>6, <3>7 DEF TickWithinLimits, Together
  <2>7. (Len(selected) >= 1 => 1 \in DOMAIN selected) /\ (Len(selected) = 2 => 2 \in DOMAIN selected)
    BY <2>1
  <2>8. QED
    BY <2>1, <2>4, <2>5, <2>6, <2>7 DEF Follows
<1>2. QED
  BY <1>1, RunnerAlways, PTL

\* Two orders of a strategy are a cooldown apart, except after an order whose answer was lost, or a
\* restart (_in_cooldown, run_once): also when the strategy trades as a fallback, or its entry takes
\* steps of its own.
THEOREM OrdersSpaced == Spec => CooldownSpacesOrders
<1> DEFINE Spacing == (cfg.cooldown /\ Len(done') > Len(done)) =>
              LET s == done'[Len(done')].strategy IN s \in recent => s \in forgotten
<1>1. RunnerInv /\ [Next]_vars => [Spacing]_vars
  <2> SUFFICES ASSUME RunnerInv, Next, cfg.cooldown, Len(done') > Len(done)
               PROVE  done'[Len(done')].strategy \in recent => done'[Len(done')].strategy \in forgotten
    OBVIOUS
  <2>1. done \in Seq(TradeSet) /\ Len(done) \in Nat /\ Len(<<>>) = 0
    BY DEF RunnerInv, RunnerTypes
  <2>2. done' # done /\ done' # <<>>
    BY <2>1
  <2>3. ExecuteDry \/ ExecuteCoinbase \/ EnterFunding
    BY <2>2 DEF Next, RunnerStep, EvaluateSpot, EvaluateOther, Gate, EnterLeg, FundingEntered, Record, Report,
       Wake, Between, Sigterm, RunnerRestarts, CooldownEnds, Midnight, MarketMoves, vars_runner
  <2>4. pc = "execute" /\ done' = Append(done, Current)
    BY <2>2, <2>3 DEF ExecuteDry, ExecuteCoinbase, EnterFunding, Reached, NotReached, Performed
  <2>5. Executing /\ ~Unrecorded
    BY <2>4 DEF Executing, Unrecorded
  <2>6. Current \in TradeSet /\ turn \in DOMAIN selected /\ turn \in Int
    BY <2>5, CurrentTrade
  <2>7. done'[Len(done')] = Current
    BY <2>1, <2>4, <2>6
  <2>8. Current.strategy \notin cooling
    BY <2>5, <2>6 DEF RunnerInv, Spaced, Current
  <2>9. QED
    BY <2>5, <2>7, <2>8 DEF RunnerInv, Spaced
<1>2. QED
  BY <1>1, RunnerAlways, PTL DEF Spec, CooldownSpacesOrders

-----------------------------------------------------------------------------
(* Every tick ends: where the runner goes from each trade of a selection.  *)

\* Where the runner is; a step it takes in a tick changes this.
Place == <<pc, turn, job["runner"]>>

\* It is about to execute, or to record, the n-th trade.
AtTrade(p, n) == pc = p /\ turn = n

\* It waits for the entry of the n-th trade.
AtEntry(step, n) == pc = "entering" /\ turn = n /\ job["runner"].step = step
EntryOver(n) == pc = "entering" /\ turn = n /\ job["runner"] = Idle

TickOver == pc \in {"sleep", "stopped"}

\* A step that is not the runner's own leaves it where it is, or is its end.
LEMMA Others ==
    ASSUME CarryInv, [Next]_vars,
           ~(EvaluateSpot \/ EvaluateOther \/ Gate \/ ExecuteDry \/ ExecuteCoinbase \/ EnterFunding
             \/ EnterLeg \/ FundingEntered \/ Record \/ Report \/ Wake)
    PROVE  Place' = Place \/ TickOver'
<1>1. CASE NextFunding /\ UNCHANGED vars_runner
  BY <1>1, MonitorLeaves DEF vars_runner, Place
<1>2. CASE RunnerRestarts
  BY <1>2 DEF RunnerRestarts, TickOver
<1>3. CASE Sigterm \/ CooldownEnds \/ Midnight \/ MarketMoves
  BY <1>3 DEF Sigterm, CooldownEnds, Midnight, MarketMoves, vars_funding, Place
<1>4. CASE UNCHANGED vars
  BY <1>4 DEF vars, vars_funding, vars_runner, Place
<1>5. QED
  BY <1>1, <1>2, <1>3, <1>4 DEF Next, RunnerStep

LEMMA FromExecute ==
    ASSUME CarryInv, RunnerEnters, [Next]_vars, NEW n, AtTrade("execute", n)
    PROVE  \/ Place' = Place \/ TickOver'
           \/ AtTrade("record", n)' \/ AtEntry("spot", n)'
<1>1. /\ job = [p \in Processes |-> job[p]] /\ job["runner"] = Idle
      /\ "runner" \in Processes /\ pc = "execute" /\ turn = n
  BY RunnerAssumption DEF CarryInv, Positions, RunnerEnters, AtTrade
<1>2. CASE ExecuteDry \/ ExecuteCoinbase
  BY <1>1, <1>2 DEF ExecuteDry, ExecuteCoinbase, AtTrade
<1>3. CASE EnterFunding
  <2>1. /\ pc' = "entering" /\ turn' = turn
        /\ job' = [job EXCEPT !["runner"] = [step |-> "spot", asset |-> Current.asset,
                                             dry |-> cfg.dry_run, ok |-> FALSE]]
    BY <1>3 DEF EnterFunding, StartArb, InArb
  <2>2. job'["runner"].step = "spot"
    BY <1>1, <2>1
  <2>3. QED
    BY <1>1, <2>1, <2>2 DEF AtEntry
<1>4. ~EnterLeg
  BY <1>1, IdleIsOver DEF EnterLeg, ArbSpotLeg, ArbPerpLeg
<1>5. ~(EvaluateSpot \/ EvaluateOther \/ Gate \/ FundingEntered \/ Record \/ Report \/ Wake)
  BY <1>1 DEF EvaluateSpot, EvaluateOther, Gate, FundingEntered, Record, Report, Wake, AtStrategy
<1>6. QED
  BY <1>2, <1>3, <1>4, <1>5, Others

\* enter_arb: the spot leg, the perp leg, and it is over.
LEMMA FromEntry ==
    ASSUME CarryInv, [Next]_vars, NEW n
    PROVE  /\ AtEntry("spot", n) => Place' = Place \/ TickOver' \/ AtEntry("perp", n)'
           /\ AtEntry("perp", n) => Place' = Place \/ TickOver' \/ EntryOver(n)'
           /\ EntryOver(n) => Place' = Place \/ TickOver' \/ AtTrade("record", n)'
<1>1. job = [p \in Processes |-> job[p]] /\ "runner" \in Processes
  BY RunnerAssumption DEF CarryInv, Positions
<1>2. ASSUME pc = "entering"
      PROVE  ~(EvaluateSpot \/ EvaluateOther \/ Gate \/ ExecuteDry \/ ExecuteCoinbase \/ EnterFunding
               \/ Record \/ Report \/ Wake)
  BY <1>2 DEF EvaluateSpot, EvaluateOther, Gate, ExecuteDry, ExecuteCoinbase, EnterFunding, Record, Report,
     Wake, AtStrategy
<1>3. ASSUME AtEntry("spot", n) PROVE Place' = Place \/ TickOver' \/ AtEntry("perp", n)'
  <2>1. pc = "entering" /\ turn = n /\ job["runner"].step = "spot" /\ ~FundingEntered
    BY <1>3, IdleIsOver DEF AtEntry, FundingEntered
  <2>2. CASE EnterLeg
    <3>1. ArbSpotLeg("runner") /\ UNCHANGED <<pc, turn>>
      BY <2>1, <2>2 DEF EnterLeg, ArbSpotLeg, ArbPerpLeg
    <3>2. PICK o : InArb("runner", "perp", job["runner"].asset, job["runner"].dry, o.ok)
      BY <3>1 DEF ArbSpotLeg
    <3>3. job'["runner"].step = "perp"
      BY <1>1, <3>2 DEF InArb
    <3>4. QED
      BY <2>1, <3>1, <3>3 DEF AtEntry
  <2>3. QED
    BY <1>2, <2>1, <2>2, Others
<1>4. ASSUME AtEntry("perp", n) PROVE Place' = Place \/ TickOver' \/ EntryOver(n)'
  <2>1. pc = "entering" /\ turn = n /\ job["runner"].step = "perp" /\ ~FundingEntered
    BY <1>4, IdleIsOver DEF AtEntry, FundingEntered
  <2>2. CASE EnterLeg
    <3>1. ArbPerpLeg("runner") /\ UNCHANGED <<pc, turn>>
      BY <2>1, <2>2 DEF EnterLeg, ArbSpotLeg, ArbPerpLeg
    <3>2. job' = [job EXCEPT !["runner"] = Idle]
      BY <3>1 DEF ArbPerpLeg, Done
    <3>3. job'["runner"] = Idle
      BY <1>1, <3>2
    <3>4. QED
      BY <2>1, <3>1, <3>3 DEF EntryOver
  <2>3. QED
    BY <1>2, <2>1, <2>2, Others
<1>5. ASSUME EntryOver(n) PROVE Place' = Place \/ TickOver' \/ AtTrade("record", n)'
  <2>1. pc = "entering" /\ turn = n /\ job["runner"] = Idle
    BY <1>5 DEF EntryOver
  <2>2. ~EnterLeg
    BY <2>1, IdleIsOver DEF EnterLeg, ArbSpotLeg, ArbPerpLeg
  <2>3. CASE FundingEntered
    BY <2>1, <2>3 DEF FundingEntered, AtTrade
  <2>4. QED
    BY <1>2, <2>1, <2>2, <2>3, Others
<1>6. QED
  BY <1>3, <1>4, <1>5

LEMMA FromRecord ==
    ASSUME CarryInv, RunnerEnters, RunnerInv, [Next]_vars, NEW n, AtTrade("record", n)
    PROVE  \/ Place' = Place \/ TickOver'
           \/ n = 1 /\ AtTrade("execute", 2)'
           \/ (pc = "report")'
<1>1. pc = "record" /\ turn = n /\ job["runner"] = Idle
  BY DEF AtTrade, RunnerEnters
<1>2. turn \in 1..2 /\ Len(selected) \in 1..2
  BY <1>1, CurrentTrade DEF Executing
<1>3. CASE Record
  <2>1. /\ turn' = turn + 1
        /\ turn < Len(selected) => pc' = "execute"
        /\ ~(turn < Len(selected)) => pc' = "report"
    BY <1>3 DEF Record
  <2>2. turn < Len(selected) => turn = 1
    <3> DEFINE m == Len(selected)
    <3>1. turn \in {1, 2} /\ m \in {1, 2}
      BY <1>2
    <3> HIDE DEF m
    <3>2. turn < m => turn = 1
      BY <3>1
    <3>3. QED
      BY <3>2 DEF m
  <2>3. turn < Len(selected) => n = 1 /\ turn' = 2
    BY <1>1, <2>1, <2>2
  <2>4. QED
    BY <2>1, <2>3 DEF AtTrade
<1>4. ~(EvaluateSpot \/ EvaluateOther \/ Gate \/ ExecuteDry \/ ExecuteCoinbase \/ EnterFunding
        \/ EnterLeg \/ FundingEntered \/ Report \/ Wake)
  BY <1>1, IdleIsOver DEF EvaluateSpot, EvaluateOther, Gate, ExecuteDry, ExecuteCoinbase, EnterFunding,
     FundingEntered, Report, Wake, AtStrategy, EnterLeg, ArbSpotLeg, ArbPerpLeg
<1>5. QED
  BY <1>3, <1>4, Others

LEMMA FromReport ==
    ASSUME CarryInv, RunnerEnters, [Next]_vars, pc = "report"
    PROVE  Place' = Place \/ TickOver'
<1>1. job["runner"] = Idle
  BY DEF RunnerEnters
<1>2. CASE Report
  BY <1>2 DEF Report, TickOver
<1>3. ~(EvaluateSpot \/ EvaluateOther \/ Gate \/ ExecuteDry \/ ExecuteCoinbase \/ EnterFunding
        \/ EnterLeg \/ FundingEntered \/ Record \/ Wake)
  BY <1>1, IdleIsOver DEF EvaluateSpot, EvaluateOther, Gate, ExecuteDry, ExecuteCoinbase, EnterFunding,
     FundingEntered, Record, Wake, AtStrategy, EnterLeg, ArbSpotLeg, ArbPerpLeg
<1>4. QED
  BY <1>2, <1>3, Others

\* Once no trade on Coinbase is left to execute in a tick, none comes up before its end.
LEMMA NoCoinbaseLeft ==
    ASSUME CarryInv, RunnerEnters, RunnerInv, [Next]_vars, InTick, ~AwaitsCoinbase
    PROVE  ~AwaitsCoinbase' \/ TickOver'
<1>1. turn \in Int /\ pc \in {"execute", "entering", "record", "report"} /\ Len(selected) \in Int
  BY DEF InTick, RunnerInv, RunnerTypes
<1>2. ASSUME UNCHANGED <<turn, selected>>, pc' = "execute" => pc = "execute"
      PROVE  ~AwaitsCoinbase'
  BY <1>2 DEF AwaitsCoinbase
<1>3. CASE ExecuteDry \/ ExecuteCoinbase \/ EnterFunding \/ FundingEntered
  BY <1>2, <1>3 DEF ExecuteDry, ExecuteCoinbase, EnterFunding, FundingEntered
<1>4. CASE EnterLeg
  BY <1>2, <1>4, LegSent
<1>5. CASE Record
  <2>1. turn' = turn + 1 /\ selected' = selected
    BY <1>5 DEF Record
  <2>2. \A i \in turn + 1 .. Len(selected) : i \in turn .. Len(selected) /\ i > turn
    BY <1>1
  <2>3. QED
    BY <2>1, <2>2 DEF AwaitsCoinbase
<1>6. CASE Report \/ RunnerRestarts
  BY <1>6 DEF Report, RunnerRestarts, TickOver
<1>7. CASE Sigterm \/ Midnight \/ MarketMoves \/ UNCHANGED vars_runner
  BY <1>2, <1>7 DEF Sigterm, Midnight, MarketMoves, vars_runner
<1>8. CASE EvaluateSpot \/ EvaluateOther \/ Gate \/ Wake \/ CooldownEnds
  BY <1>1, <1>8 DEF EvaluateSpot, EvaluateOther, AtStrategy, Gate, Wake, CooldownEnds
<1>9. QED
  BY <1>3, <1>4, <1>5, <1>6, <1>7, <1>8 DEF Next, RunnerStep, vars

\* Where a tick with no trade on Coinbase left can be, and that the runner goes on from there.
LEMMA InTickPlaces ==
    ASSUME RunnerEnters, RunnerInv, InTick, ~AwaitsCoinbase
    PROVE  /\ RunnerCanStep
           /\ \/ pc = "report"
              \/ \E n \in 1..2 : \/ AtTrade("execute", n) \/ AtTrade("record", n)
                                 \/ AtEntry("spot", n) \/ AtEntry("perp", n) \/ EntryOver(n)
<1>1. CASE pc = "report"
  BY <1>1 DEF RunnerCanStep
<1>2. CASE Executing
  <2>1. turn \in 1..2 /\ turn \in DOMAIN selected /\ Current \in TradeSet
    BY <1>2, CurrentTrade
  <2>2. ASSUME pc = "execute" PROVE Current.exchange = "hyperliquid"
    <3>1. turn \in turn .. Len(selected)
      BY <2>1 DEF RunnerInv, RunnerTypes
    <3>2. Current.exchange # "coinbase"
      BY <2>2, <3>1 DEF AwaitsCoinbase, Current
    <3>3. QED
      BY <2>1, <3>2 DEF TradeSet, Exchanges
  <2>3. pc = "entering" => job["runner"] = Idle \/ job["runner"].step \in {"spot", "perp"}
    BY DEF RunnerEnters
  <2>4. RunnerCanStep
    BY <1>2, <2>2 DEF RunnerCanStep, Executing
  <2>5. QED
    BY <1>2, <2>1, <2>3, <2>4 DEF Executing, AtTrade, AtEntry, EntryOver
<1>3. QED
  BY <1>1, <1>2 DEF InTick, Executing

\* If the runner's process goes on where no call to Coinbase can hold it, a tick that has no trade on
\* Coinbase left to execute ends in a sleep or a stop: one that enters a carry trade too, and one that
\* a restart, midnight or the market interrupts (run_once, runner_worker).
THEOREM AllTicksEnd == FairSpec => TickEnds
<1> DEFINE I == CarryInv /\ RunnerEnters /\ RunnerInv
           A == InTick /\ ~AwaitsCoinbase
           X1 == A /\ AtTrade("execute", 1)
           S1 == A /\ AtEntry("spot", 1)
           P1 == A /\ AtEntry("perp", 1)
           O1 == A /\ EntryOver(1)
           R1 == A /\ AtTrade("record", 1)
           X2 == A /\ AtTrade("execute", 2)
           S2 == A /\ AtEntry("spot", 2)
           P2 == A /\ AtEntry("perp", 2)
           O2 == A /\ EntryOver(2)
           R2 == A /\ AtTrade("record", 2)
           Reports == A /\ pc = "report"
           Moves == <<TRUE>>_<<pc, turn, job["runner"]>>
<1>1. Spec => []I
  BY CarryAlways, RunnerAlways, PTL
<1>2. Place' = Place =>
        /\ \A p \in {"execute", "record"}, n \in 1..2 : AtTrade(p, n) => AtTrade(p, n)'
        /\ \A p \in {"spot", "perp"}, n \in 1..2 : AtEntry(p, n) => AtEntry(p, n)'
        /\ \A n \in 1..2 : EntryOver(n) => EntryOver(n)'
        /\ (pc = "report" => pc' = "report")
        /\ ~Moves
  BY DEF Place, AtTrade, AtEntry, EntryOver
<1>3. /\ \A p \in {"execute", "record"}, n \in 1..2 : AtTrade(p, n)' => InTick'
      /\ \A p \in {"spot", "perp"}, n \in 1..2 : AtEntry(p, n)' => InTick'
      /\ \A n \in 1..2 : EntryOver(n)' => InTick'
      /\ (pc' = "report" => InTick')
  BY DEF AtTrade, AtEntry, EntryOver, InTick
<1>4. I /\ A /\ [Next]_vars => TickOver' \/ ~AwaitsCoinbase'
  BY NoCoinbaseLeft
<1>5. /\ I /\ X1 /\ [Next]_vars => X1' \/ TickOver' \/ R1' \/ S1'
      /\ I /\ X1 /\ [Next]_vars /\ Moves => TickOver' \/ R1' \/ S1'
      /\ I /\ X2 /\ [Next]_vars => X2' \/ TickOver' \/ R2' \/ S2'
      /\ I /\ X2 /\ [Next]_vars /\ Moves => TickOver' \/ R2' \/ S2'
  BY <1>2, <1>3, <1>4, FromExecute
<1>6. /\ I /\ S1 /\ [Next]_vars => S1' \/ TickOver' \/ P1'
      /\ I /\ S1 /\ [Next]_vars /\ Moves => TickOver' \/ P1'
      /\ I /\ S2 /\ [Next]_vars => S2' \/ TickOver' \/ P2'
      /\ I /\ S2 /\ [Next]_vars /\ Moves => TickOver' \/ P2'
  BY <1>2, <1>3, <1>4, FromEntry
<1>7. /\ I /\ P1 /\ [Next]_vars => P1' \/ TickOver' \/ O1'
      /\ I /\ P1 /\ [Next]_vars /\ Moves => TickOver' \/ O1'
      /\ I /\ P2 /\ [Next]_vars => P2' \/ TickOver' \/ O2'
      /\ I /\ P2 /\ [Next]_vars /\ Moves => TickOver' \/ O2'
  BY <1>2, <1>3, <1>4, FromEntry
<1>8. /\ I /\ O1 /\ [Next]_vars => O1' \/ TickOver' \/ R1'
      /\ I /\ O1 /\ [Next]_vars /\ Moves => TickOver' \/ R1'
      /\ I /\ O2 /\ [Next]_vars => O2' \/ TickOver' \/ R2'
      /\ I /\ O2 /\ [Next]_vars /\ Moves => TickOver' \/ R2'
  BY <1>2, <1>3, <1>4, FromEntry
<1>9. /\ I /\ R1 /\ [Next]_vars => R1' \/ TickOver' \/ Reports' \/ X2'
      /\ I /\ R1 /\ [Next]_vars /\ Moves => TickOver' \/ Reports' \/ X2'
      /\ I /\ R2 /\ [Next]_vars => R2' \/ TickOver' \/ Reports'
      /\ I /\ R2 /\ [Next]_vars /\ Moves => TickOver' \/ Reports'
  BY <1>2, <1>3, <1>4, FromRecord
<1>10. /\ I /\ Reports /\ [Next]_vars => Reports' \/ TickOver'
       /\ I /\ Reports /\ [Next]_vars /\ Moves => TickOver'
  BY <1>2, <1>3, <1>4, FromReport
<1>11. I /\ A => /\ RunnerCanStep
                 /\ X1 \/ S1 \/ P1 \/ O1 \/ R1 \/ X2 \/ S2 \/ P2 \/ O2 \/ R2 \/ Reports
  <2> SUFFICES ASSUME I, A
               PROVE  /\ RunnerCanStep
                      /\ X1 \/ S1 \/ P1 \/ O1 \/ R1 \/ X2 \/ S2 \/ P2 \/ O2 \/ R2 \/ Reports
    OBVIOUS
  <2>1. 1..2 = {1, 2}
    OBVIOUS
  <2>2. QED
    BY <2>1, InTickPlaces
<1>12. X1 \/ S1 \/ P1 \/ O1 \/ R1 \/ X2 \/ S2 \/ P2 \/ O2 \/ R2 \/ Reports => A
  OBVIOUS
<1>13. TickOver => pc \in {"sleep", "stopped"}
  BY DEF TickOver
<1>14. A <=> (InTick /\ ~AwaitsCoinbase)
  OBVIOUS
<1> HIDE DEF I, A, X1, S1, P1, O1, R1, X2, S2, P2, O2, R2, Reports
<1> QED
  BY <1>1, <1>5, <1>6, <1>7, <1>8, <1>9, <1>10, <1>11, <1>12, <1>13, <1>14, PTL DEF FairSpec, Spec, TickEnds
=============================================================================
