-------------------------- MODULE TradingWorker_proofs --------------------------
(***************************************************************************)
(* The trading worker, for all symbols, strategies, settings and bars that *)
(* the assumptions allow, any number of cycles, crashes, database errors   *)
(* and operator requests: the saved book is what the recorded fills add up *)
(* to, locks follow positions, the day's limit holds on the day's bars,    *)
(* entries fall into open sessions, the account never borrows, and a kill  *)
(* switch lets one more BUY through.                                       *)
(*                                                                         *)
(* In order: the invariant; sums over finite sets; the paper executor; the *)
(* session and the size of an entry; the plan of a symbol's cycle; what    *)
(* every step makes of the worker's locals; the parts of the invariant,    *)
(* step by step; the theorems.  Then that every run is finished, and that  *)
(* a trip gets nearer to the database with every step; at the end the      *)
(* deployment: what the two readings of the environment agree on.          *)
(***************************************************************************)
EXTENDS TradingWorker, FiniteSetTheorems, WellFoundedInduction, TLAPS

-----------------------------------------------------------------------------
(* The worker's cycle: which points it has, and what its locals are there. *)

SymbolPoints == {"decide", "order", "status", "fill", "lock", "finish"}
CyclePoints == {"next", "release", "trip"} \cup SymbolPoints
Ordering == w.at \in {"order", "status", "fill"}

\* The executor has filled the order and its fill is not recorded yet; it is recorded and
\* its lock not synced yet.
Filled == w.at = "fill" \/ (w.at = "status" /\ w.status = "FILLED")
Traded == Filled \/ (w.at = "lock" /\ w.order # NoOrder)

Holders == Strategies \cup {"none"}
Entries == [symbol : Symbols, bar : Bars]
FillRows == [symbol : Symbols, side : {"BUY", "SELL"}, quantity : Nat, price : Int,
             bar_time : Int, bucket : Nat, strategy : Holders]

\* An account that has not borrowed: in the book, and in the executor.
Account(x) == x.cash \in Nat /\ x.pos \in [Symbols -> Nat] /\ x.avg \in [Symbols -> Int]

Executor(x) ==
    /\ Account(x)
    /\ x = [cash |-> x.cash, pos |-> x.pos, avg |-> x.avg, day_start |-> x.day_start,
            peak |-> x.peak, anchor |-> x.anchor, kill |-> x.kill]

Distinct(todo) == \A i, j \in DOMAIN todo : todo[i].symbol = todo[j].symbol => i = j

\* The locals of a cycle.
Locals == {"up", "at", "key", "cycles", "ex", "locks", "seen", "todo", "sel", "order", "status"}

Job(x) ==
    /\ DOMAIN x = Locals
    /\ Executor(x.ex)
    /\ x.locks \in [Symbols -> Holders] /\ x.sel \in Holders
    /\ x.todo \in Seq(Entries) /\ Distinct(x.todo)
    /\ x.at \in SymbolPoints => x.todo # << >>
    /\ x.at \in {"release", "trip"} => x.todo = << >>

\* An order is for the symbol whose turn it is.
Planned(o, s) ==
    /\ o.symbol = s /\ o.side \in {"BUY", "SELL"}
    /\ o.quantity \in Nat \ {0} /\ o.price \in Int /\ o.bar_time \in Int

\* The database.
Stored ==
    /\ settings \in Profiles /\ now \in Nat
    /\ Account(book) /\ lock \in [Symbols -> Holders] /\ fills \in Seq(FillRows)

\* The worker.
Working ==
    /\ w.at \in {"idle", "restore"} \cup CyclePoints
    /\ w.at # "idle" => w.up /\ w.key = now
    /\ w.at \in CyclePoints => Job(w)
    /\ Ordering \/ (w.at = "lock" /\ w.order # NoOrder) =>
          Planned(w.order, sym) /\ (w.order.side = "BUY" => w.sel \in Strategies)

\* The symbols whose position this cycle has not changed yet.
Remaining ==
    {w.todo[i].symbol : i \in IF w.at \in {"next", "decide", "order"} THEN DOMAIN w.todo
                              ELSE DOMAIN w.todo \ {1}}

\* What the cycle has traded shows in the positions: none of what remains, and
\* something if anything, so that a cycle cut off is seen by comparing positions.
TradesShow ==
    w.at \in CyclePoints =>
        /\ \A s \in Remaining : w.ex.pos[s] = book.pos[s]
        /\ \/ w.ex.pos = book.pos /\ w.ex.cash = book.cash
           \/ \E s \in Symbols \ Remaining : w.ex.pos[s] # book.pos[s]
        /\ w.at \in {"release", "trip"} => w.ex.pos = book.pos /\ w.ex.cash = book.cash
        /\ Traded => w.ex.pos[sym] # book.pos[sym]

\* A sale sells the whole position, a purchase starts one.
WholePositions ==
    /\ w.at = "order" => w.ex.pos[sym] = IF w.order.side = "BUY" THEN 0 ELSE w.order.quantity
    /\ Traded => (w.ex.pos[sym] = 0 <=> w.order.side = "SELL")

Shape == Stored /\ Working /\ WholePositions

\* The executor is the fill rows and the fill that is still to be recorded.
ExecutorMatches ==
    /\ w.ex.cash = InitialCapital - Spent
                     - (IF Filled THEN Signed(w.order) * w.order.price ELSE 0)
    /\ \A s \in Symbols :
          w.ex.pos[s] = Net(s) + (IF Filled /\ s = sym THEN Signed(w.order) ELSE 0)

BookMatches == book.cash = InitialCapital - Spent /\ \A s \in Symbols : book.pos[s] = Net(s)

BooksInv ==
    ~torn => /\ w.at \in {"idle", "restore"} => BookMatches
             /\ w.at \in CyclePoints => ExecutorMatches

BuysOf(s) == {i \in DOMAIN fills : fills[i].symbol = s /\ fills[i].side = "BUY"}

\* The lock of a symbol is that of the strategy that last bought it.
LockFits(s, position) ==
    /\ lock[s] = IF position = 0 THEN "none" ELSE LastBuyer(s)
    /\ position # 0 => BuysOf(s) # {} /\ LastBuyer(s) \in Strategies

LocksInv ==
    ~torn /\ ~settings.allow_multi_strategy =>
        /\ w.at \in {"idle", "restore"} => \A s \in Symbols : LockFits(s, book.pos[s])
        /\ w.at \in CyclePoints =>
              /\ w.locks = lock
              /\ \A s \in Symbols : (Traded /\ s = sym) \/ LockFits(s, w.ex.pos[s])
              /\ w.at = "lock" /\ w.order # NoOrder /\ w.order.side = "BUY" =>
                    BuysOf(sym) # {} /\ LastBuyer(sym) = w.sel

\* A BUY that was planned may be made: the session is open, the day's limit is not
\* reached, and the kill switch was off.
BuyAhead == Ordering /\ w.order.side = "BUY"
EntriesInv ==
    /\ BuyAhead => WorkerSession(now, settings).can_open
    /\ EntriesInOpenSessions

\* The entries made on the day of their bar.
OwnBuys(t) == {i \in buys_of_day(t) : MarketDate(fills[i].bucket) = MarketDate(t)}

LimitInv ==
    /\ BuyAhead => Cardinality(buys_of_day(now)) < settings.max_trades_per_day
    /\ \A t \in Nat : Cardinality(OwnBuys(t)) <= settings.max_trades_per_day

LateInv == late_buys = 0 \/ (late_buys = 1 /\ kill /\ ~BuyAhead)
-----------------------------------------------------------------------------
(* Sums.                                                                   *)

\* A set of numbers that is not empty has a least one.
LEMMA Least ==
    ASSUME NEW S \in SUBSET Nat, S # {}
    PROVE  \E n \in S : \A m \in S : n <= m
  <1> DEFINE R == {ss \in Nat \X Nat : ss[1] < ss[2]}
  <1>0. IsWellFoundedOn(R, Nat)
    BY NatLessThanWellFounded DEF OpToRel
  <1>1. PICK n \in S : \A m \in S : ~(<<m, n>> \in R)
    <2> HIDE DEF R
    <2> QED BY <1>0, WFMin
  <1>2. n \in Nat /\ \A m \in S : m \in Nat
    OBVIOUS
  <1>3. \A m \in S : ~(m < n)
    BY <1>1, <1>2
  <1> QED
    BY <1>2, <1>3

Element(T) == CHOOSE x \in T : TRUE

\* What the recursion under Total says of one set.
AddsUp(v, g, T) == g[T] = IF T = {} THEN 0 ELSE v[Element(T)] + g[T \ {Element(T)}]

Sum(v) == CHOOSE g : g = [T \in SUBSET DOMAIN v |->
                             IF T = {} THEN 0 ELSE v[Element(T)] + g[T \ {Element(T)}]]

LEMMA TotalIsSum ==
    ASSUME NEW v
    PROVE  Total(v) = Sum(v)[DOMAIN v]
  BY DEF Total, MapThenSumSet, MapThenFoldSet, Sum, Element

LEMMA Smaller ==
    ASSUME NEW T, IsFiniteSet(T), NEW x \in T
    PROVE  /\ IsFiniteSet(T \ {x}) /\ Cardinality(T) \in Nat
           /\ Cardinality(T \ {x}) = Cardinality(T) - 1 /\ Cardinality(T \ {x}) \in Nat
  BY FS_RemoveElement, FS_CardinalityType

LEMMA ElementIn ==
    ASSUME NEW T, T # {}
    PROVE  Element(T) \in T
  BY DEF Element

\* The recursion has a solution on every finite domain.
LEMMA SumExists ==
    ASSUME NEW v, IsFiniteSet(DOMAIN v)
    PROVE  \E g : g = [T \in SUBSET DOMAIN v |->
                          IF T = {} THEN 0 ELSE v[Element(T)] + g[T \ {Element(T)}]]
  <1> DEFINE D == DOMAIN v
             Good(n) == \E g : \A T \in SUBSET D : Cardinality(T) <= n => AddsUp(v, g, T)
             Bad == {n \in Nat : ~Good(n)}
  <1>1. \A T \in SUBSET D : IsFiniteSet(T) /\ Cardinality(T) \in Nat
    BY FS_Subset, FS_CardinalityType
  <1>2. Good(0)
    <2> DEFINE g == [T \in SUBSET D |-> 0]
    <2>1. \A T \in SUBSET D : Cardinality(T) <= 0 => T = {}
      BY <1>1, FS_EmptySet
    <2>2. \A T \in SUBSET D : Cardinality(T) <= 0 => AddsUp(v, g, T)
      BY <2>1 DEF AddsUp
    <2> QED
      BY <2>2
  <1>3. ASSUME NEW n \in Nat, Good(n)
        PROVE  Good(n + 1)
    <2>1. PICK g : \A T \in SUBSET D : Cardinality(T) <= n => AddsUp(v, g, T)
      BY <1>3
    <2> DEFINE h == [T \in SUBSET D |->
                        IF T = {} THEN 0
                        ELSE IF Cardinality(T) <= n THEN g[T]
                        ELSE v[Element(T)] + g[T \ {Element(T)}]]
    <2>2. ASSUME NEW T \in SUBSET D, Cardinality(T) <= n + 1
          PROVE  AddsUp(v, h, T)
      <3>1. CASE T = {}
        BY <3>1 DEF AddsUp
      <3>2. CASE T # {}
        <4> DEFINE U == T \ {Element(T)}
        <4>1. /\ Element(T) \in T /\ U \in SUBSET D
              /\ Cardinality(U) = Cardinality(T) - 1 /\ Cardinality(T) \in Nat
          BY <1>1, <3>2, ElementIn, Smaller
        <4>2. Cardinality(U) <= n
          BY <2>2, <4>1
        <4>3. h[U] = g[U]
          <5>1. U = {} => g[U] = 0
            BY <2>1, <4>1, <4>2 DEF AddsUp
          <5> QED
            BY <4>1, <4>2, <5>1
        <4>4. h[T] = v[Element(T)] + g[U]
          <5>1. CASE Cardinality(T) <= n
            BY <2>1, <3>2, <5>1 DEF AddsUp
          <5>2. CASE ~(Cardinality(T) <= n)
            BY <3>2, <5>2
          <5> QED
            BY <5>1, <5>2
        <4> QED
          BY <3>2, <4>3, <4>4 DEF AddsUp
      <3> QED
        BY <3>1, <3>2
    <2> QED
      BY <2>2
  <1>4. Bad = {}
    <2>1. SUFFICES ASSUME Bad # {} PROVE FALSE
      OBVIOUS
    <2> HIDE DEF Good
    <2>2. Bad \in SUBSET Nat
      OBVIOUS
    <2>3. PICK n \in Bad : \A m \in Bad : n <= m
      <3> HIDE DEF Bad
      <3> QED
        BY <2>1, <2>2, Least
    <2>4. n # 0
      BY <1>2
    <2>5. n - 1 \in Nat /\ ~(n - 1 \in Bad)
      BY <2>3, <2>4
    <2>6. Good(n - 1)
      BY <2>5
    <2>7. Good((n - 1) + 1)
      BY <1>3, <2>5, <2>6
    <2> QED
      BY <2>2, <2>7
  <1>5. PICK g : \A T \in SUBSET D : AddsUp(v, g, T)
    <2>1. Cardinality(D) \in Nat /\ \A T \in SUBSET D : Cardinality(T) <= Cardinality(D)
      BY FS_Subset, FS_CardinalityType
    <2>2. Good(Cardinality(D))
      <3> HIDE DEF Good
      <3> QED
        BY <1>4, <2>1
    <2> QED
      BY <2>1, <2>2
  <1> DEFINE h == [T \in SUBSET D |-> g[T]]
  <1>6. ASSUME NEW T \in SUBSET D
        PROVE  h[T] = IF T = {} THEN 0 ELSE v[Element(T)] + h[T \ {Element(T)}]
    BY <1>5 DEF AddsUp
  <1>7. h = [T \in SUBSET D |-> IF T = {} THEN 0 ELSE v[Element(T)] + h[T \ {Element(T)}]]
    <2>1. h = [T \in SUBSET D |-> h[T]]
      OBVIOUS
    <2> HIDE DEF h
    <2> QED
      BY <1>6, <2>1
  <1> QED
    BY <1>7

LEMMA SumUnfolds ==
    ASSUME NEW v, IsFiniteSet(DOMAIN v)
    PROVE  \A T \in SUBSET DOMAIN v : AddsUp(v, Sum(v), T)
  <1> DEFINE g == Sum(v)
  <1>1. g = [T \in SUBSET DOMAIN v |-> IF T = {} THEN 0 ELSE v[Element(T)] + g[T \ {Element(T)}]]
    BY SumExists DEF Sum
  <1> HIDE DEF g
  <1>2. \A T \in SUBSET DOMAIN v : AddsUp(v, g, T)
    BY <1>1 DEF AddsUp
  <1> QED
    BY <1>2 DEF g

\* The sum over a set of the domain.
SumOver(v, T) == Sum(v)[T]

LEMMA SumParts ==
    ASSUME NEW v, IsFiniteSet(DOMAIN v)
    PROVE  /\ SumOver(v, {}) = 0
           /\ \A T \in SUBSET DOMAIN v : T # {} =>
                 SumOver(v, T) = v[Element(T)] + SumOver(v, T \ {Element(T)})
  <1>1. \A T \in SUBSET DOMAIN v : AddsUp(v, Sum(v), T)
    BY SumUnfolds
  <1>2. {} \in SUBSET DOMAIN v
    OBVIOUS
  <1> QED
    BY <1>1, <1>2 DEF AddsUp, SumOver

\* Induction over finite sets, by the number of their elements: a property of the sets of
\* a family fails for none, if it never fails for a set and holds for all smaller ones.
LEMMA SmallestSet ==
    ASSUME NEW F, \A T \in F : IsFiniteSet(T), NEW B \in SUBSET F, B # {}
    PROVE  \E T \in B : \A U \in F : Cardinality(U) < Cardinality(T) => U \notin B
  <1> DEFINE N == {Cardinality(T) : T \in B}
  <1>1. \A T \in B : Cardinality(T) \in Nat
    BY FS_CardinalityType
  <1>2. N \in SUBSET Nat /\ N # {}
    BY <1>1
  <1>3. PICK n \in N : \A m \in N : n <= m
    <2> HIDE DEF N
    <2> QED
      BY <1>2, Least
  <1>4. PICK T \in B : n = Cardinality(T)
    OBVIOUS
  <1>5. ASSUME NEW U \in F, Cardinality(U) < Cardinality(T), U \in B
        PROVE  FALSE
    <2>1. Cardinality(U) \in N /\ Cardinality(U) \in Nat /\ n \in Nat
      BY <1>1, <1>2, <1>5
    <2> QED
      BY <1>3, <1>4, <1>5, <2>1
  <1> QED
    BY <1>4, <1>5

LEMMA SumInt ==
    ASSUME NEW v, IsFiniteSet(DOMAIN v), \A x \in DOMAIN v : v[x] \in Int
    PROVE  \A T \in SUBSET DOMAIN v : SumOver(v, T) \in Int
  <1> DEFINE F == SUBSET DOMAIN v
             B == {T \in F : ~(SumOver(v, T) \in Int)}
  <1>1. \A T \in F : IsFiniteSet(T)
    BY FS_Subset
  <1>2. SUFFICES ASSUME B # {} PROVE FALSE
    OBVIOUS
  <1>3. PICK T \in B : \A U \in F : Cardinality(U) < Cardinality(T) => U \notin B
    <2>1. B \in SUBSET F
      OBVIOUS
    <2> HIDE DEF F, B
    <2> QED
      BY <1>1, <1>2, <2>1, SmallestSet
  <1>4. T # {}
    BY <1>3, SumParts
  <1> DEFINE x == Element(T)
             U == T \ {x}
  <1>5. x \in T /\ x \in DOMAIN v /\ U \in F
    BY <1>4, ElementIn
  <1>6. Cardinality(U) < Cardinality(T)
    BY <1>1, <1>5, Smaller
  <1>7. SumOver(v, U) \in Int
    BY <1>3, <1>5, <1>6
  <1>8. SumOver(v, T) = v[x] + SumOver(v, U)
    BY <1>4, <1>5, SumParts
  <1> HIDE DEF x, U
  <1> QED
    BY <1>3, <1>5, <1>7, <1>8

\* Any element may be taken out, not only the chosen one.
LEMMA SumSplit ==
    ASSUME NEW v, IsFiniteSet(DOMAIN v), \A x \in DOMAIN v : v[x] \in Int
    PROVE  \A T \in SUBSET DOMAIN v : \A x \in T : SumOver(v, T) = v[x] + SumOver(v, T \ {x})
  <1> DEFINE F == SUBSET DOMAIN v
             Splits(T) == \A x \in T : SumOver(v, T) = v[x] + SumOver(v, T \ {x})
             B == {T \in F : ~Splits(T)}
  <1>1. \A T \in F : IsFiniteSet(T)
    BY FS_Subset
  <1>2. SUFFICES ASSUME B # {} PROVE FALSE
    OBVIOUS
  <1>3. PICK T \in B : \A U \in F : Cardinality(U) < Cardinality(T) => U \notin B
    <2>1. B \in SUBSET F
      OBVIOUS
    <2> HIDE DEF F, B
    <2> QED
      BY <1>1, <1>2, <2>1, SmallestSet
  <1>4. PICK x \in T : ~(SumOver(v, T) = v[x] + SumOver(v, T \ {x}))
    BY <1>3
  <1> DEFINE c == Element(T)
  <1>5. c \in T /\ T \in F /\ c \in DOMAIN v /\ x \in DOMAIN v
    BY <1>3, <1>4, ElementIn
  <1>6. SumOver(v, T) = v[c] + SumOver(v, T \ {c})
    BY <1>4, <1>5, SumParts
  <1> HIDE DEF c
  <1>7. x # c
    BY <1>4, <1>6
  <1>8. ASSUME NEW y \in T
        PROVE  T \ {y} \in F /\ Splits(T \ {y})
    <2>1. T \ {y} \in F
      BY <1>5
    <2>2. Cardinality(T \ {y}) < Cardinality(T)
      BY <1>1, <1>5, Smaller
    <2> QED
      BY <1>3, <2>1, <2>2
  <1>9. SumOver(v, T \ {c}) = v[x] + SumOver(v, (T \ {c}) \ {x})
    BY <1>5, <1>7, <1>8
  <1>10. SumOver(v, T \ {x}) = v[c] + SumOver(v, (T \ {x}) \ {c})
    BY <1>5, <1>7, <1>8
  <1>11. (T \ {x}) \ {c} = (T \ {c}) \ {x}
    OBVIOUS
  <1>12. v[x] \in Int /\ v[c] \in Int /\ SumOver(v, (T \ {c}) \ {x}) \in Int
    <2>1. (T \ {c}) \ {x} \in SUBSET DOMAIN v
      BY <1>5
    <2> QED
      BY <1>5, <2>1, SumInt
  <1> DEFINE rest == SumOver(v, (T \ {c}) \ {x})
  <1>13. /\ SumOver(v, T \ {c}) = v[x] + rest /\ SumOver(v, T \ {x}) = v[c] + rest
         /\ rest \in Int
    BY <1>9, <1>10, <1>11, <1>12, Zenon
  <1> HIDE DEF rest
  <1>14. SumOver(v, T) = v[c] + (v[x] + rest) /\ v[x] + SumOver(v, T \ {x}) = v[x] + (v[c] + rest)
    BY <1>6, <1>13, Zenon
  <1>15. v[c] + (v[x] + rest) = v[x] + (v[c] + rest)
    BY <1>12, <1>13
  <1> QED
    BY <1>4, <1>14, <1>15, Zenon

\* A sum only depends on the values that are added.
LEMMA SumAgrees ==
    ASSUME NEW v, NEW u, IsFiniteSet(DOMAIN v), IsFiniteSet(DOMAIN u),
           NEW D \in SUBSET DOMAIN v, D \in SUBSET DOMAIN u, \A x \in D : v[x] = u[x]
    PROVE  \A T \in SUBSET D : SumOver(v, T) = SumOver(u, T)
  <1> DEFINE F == SUBSET D
             B == {T \in F : SumOver(v, T) # SumOver(u, T)}
  <1>1. \A T \in F : IsFiniteSet(T) /\ T \in SUBSET DOMAIN v /\ T \in SUBSET DOMAIN u
    BY FS_Subset
  <1>2. SUFFICES ASSUME B # {} PROVE FALSE
    OBVIOUS
  <1>3. PICK T \in B : \A U \in F : Cardinality(U) < Cardinality(T) => U \notin B
    <2>1. B \in SUBSET F
      OBVIOUS
    <2> HIDE DEF F, B
    <2> QED
      BY <1>1, <1>2, <2>1, SmallestSet
  <1>4. T # {}
    BY <1>3, SumParts
  <1> DEFINE x == Element(T)
             U == T \ {x}
  <1>5. x \in T /\ x \in D /\ U \in F /\ T \in F
    BY <1>3, <1>4, ElementIn
  <1>6. Cardinality(U) < Cardinality(T)
    BY <1>1, <1>5, Smaller
  <1>7. SumOver(v, U) = SumOver(u, U)
    BY <1>3, <1>5, <1>6
  <1>8. SumOver(v, T) = v[x] + SumOver(v, U)
    BY <1>1, <1>4, <1>5, SumParts
  <1>9. SumOver(u, T) = u[x] + SumOver(u, U)
    BY <1>1, <1>4, <1>5, SumParts
  <1> HIDE DEF x, U
  <1> QED
    BY <1>3, <1>5, <1>7, <1>8, <1>9

\* What the model's sums need: a sum of numbers is a number, an empty one is 0, and one
\* more value adds that value.
LEMMA TotalInt ==
    ASSUME NEW v, IsFiniteSet(DOMAIN v), \A x \in DOMAIN v : v[x] \in Int
    PROVE  Total(v) \in Int
  <1>1. DOMAIN v \in SUBSET DOMAIN v
    OBVIOUS
  <1> QED
    BY <1>1, TotalIsSum, SumInt DEF SumOver

LEMMA TotalEmpty ==
    ASSUME NEW v, DOMAIN v = {}
    PROVE  Total(v) = 0
  BY TotalIsSum, SumParts, FS_EmptySet DEF SumOver

LEMMA TotalGrows ==
    ASSUME NEW v, NEW u, IsFiniteSet(DOMAIN v), NEW e, e \notin DOMAIN v,
           DOMAIN u = DOMAIN v \cup {e}, \A x \in DOMAIN v : u[x] = v[x],
           \A x \in DOMAIN u : u[x] \in Int
    PROVE  Total(u) = u[e] + Total(v)
  <1>1. IsFiniteSet(DOMAIN u)
    BY FS_AddElement
  <1>2. Total(u) = SumOver(u, DOMAIN u) /\ Total(v) = SumOver(v, DOMAIN v)
    BY TotalIsSum DEF SumOver
  <1>3. SumOver(u, DOMAIN u) = u[e] + SumOver(u, DOMAIN u \ {e})
    BY <1>1, SumSplit
  <1>4. DOMAIN u \ {e} = DOMAIN v
    OBVIOUS
  <1>5. DOMAIN v \in SUBSET DOMAIN v /\ DOMAIN v \in SUBSET DOMAIN u
    OBVIOUS
  <1>6. SumOver(v, DOMAIN v) = SumOver(u, DOMAIN v)
    BY <1>1, <1>5, SumAgrees
  <1> QED
    BY <1>2, <1>3, <1>4, <1>6

-----------------------------------------------------------------------------
(* The settings, and the executor.                                         *)

\* What the limits of a deployment say of the settings the proofs use.
LEMMA Limits ==
    ASSUME NEW S \in Profiles
    PROVE  /\ S.max_portfolio_exposure_pct \in 1..100 /\ S.max_trades_per_day \in Nat \ {0}
           /\ S.worker_order_quantity \in Nat /\ S.aggressiveness_pct \in 0..99
           /\ S.stop_loss_pct \in 1..99 /\ S.risk_per_trade_pct \in 1..99
           /\ S.bullish_multiplier \in Nat /\ S.sideways_multiplier \in Nat
           /\ S.bearish_multiplier \in Nat
  <1>1. LimitsOk(S)
    BY SettingsAssumption
  <1> QED
    BY <1>1 DEF LimitsOk

LEMMA GrossPct ==
    ASSUME NEW S \in Profiles
    PROVE  EffectiveMaxGrossPct(S) \in 1..100
  BY Limits DEF EffectiveMaxGrossPct

LEMMA Products ==
    /\ \A a, b \in Int : a * b \in Int
    /\ \A a, b \in Nat : a * b \in Nat
  OBVIOUS

LEMMA Shares ==
    ASSUME NEW p \in 1..100, NEW e \in Nat
    PROVE  p * e <= 100 * e
  <1>1. (100 - p) * e \in Nat
    BY Products
  <1>2. (100 - p) * e = 100 * e - p * e
    OBVIOUS
  <1>3. p * e \in Int
    BY Products
  <1> QED
    BY <1>1, <1>2, <1>3

LEMMA EquityInt ==
    ASSUME NEW x, Account(x)
    PROVE  gross_exposure(x) \in Int /\ current_equity(x) \in Int
  <1> DEFINE v == [s \in Symbols |-> x.pos[s] * x.avg[s]]
  <1>1. DOMAIN v = Symbols /\ IsFiniteSet(DOMAIN v)
    BY WorkerAssumption
  <1>2. ASSUME NEW s \in DOMAIN v
        PROVE  v[s] \in Int
    <2>1. x.pos[s] \in Int /\ x.avg[s] \in Int
      BY <1>1 DEF Account
    <2> QED
      BY <1>1, <2>1, Products
  <1> HIDE DEF v
  <1>3. Total(v) \in Int
    BY <1>1, <1>2, TotalInt
  <1>4. gross_exposure(x) \in Int
    BY <1>3 DEF gross_exposure, v
  <1>5. x.cash \in Int
    BY DEF Account
  <1> QED
    BY <1>4, <1>5 DEF current_equity

\* What two executors or books hold is the same.
SameHoldings(x, y) == x.cash = y.cash /\ x.pos = y.pos /\ x.avg = y.avg

LEMMA EquitySame ==
    ASSUME NEW x, NEW y, SameHoldings(x, y)
    PROVE  gross_exposure(x) = gross_exposure(y) /\ current_equity(x) = current_equity(y)
  BY DEF SameHoldings, gross_exposure, current_equity

LEMMA Anchoring ==
    ASSUME NEW x, Executor(x), NEW o
    PROVE  /\ Executor(WithPeak(x)) /\ SameHoldings(WithPeak(x), x)
           /\ Executor(DayAnchor(x, o)) /\ SameHoldings(DayAnchor(x, o), x)
  <1> DEFINE y == WithPeak(x)
  <1>1. /\ y = [cash |-> x.cash, pos |-> x.pos, avg |-> x.avg, day_start |-> x.day_start,
                peak |-> GreatestOf(x.peak, current_equity(x)), anchor |-> x.anchor, kill |-> x.kill]
    BY DEF Executor, WithPeak
  <1>2. Executor(y) /\ SameHoldings(y, x)
    BY <1>1 DEF Executor, Account, SameHoldings
  <1>3. CASE x.anchor = {BarDate(o)}
    BY <1>2, <1>3 DEF DayAnchor, SameHoldings
  <1>4. CASE x.anchor # {BarDate(o)}
    <2> HIDE DEF y
    <2>1. DayAnchor(x, o) = [y EXCEPT !.anchor = {BarDate(o)}, !.day_start = current_equity(x)]
      BY <1>4 DEF DayAnchor, y
    <2>2. DayAnchor(x, o) = [cash |-> y.cash, pos |-> y.pos, avg |-> y.avg, day_start |-> current_equity(x),
                          peak |-> y.peak, anchor |-> {BarDate(o)}, kill |-> y.kill]
      BY <1>2, <2>1 DEF Executor
    <2>3. Executor(DayAnchor(x, o)) /\ SameHoldings(DayAnchor(x, o), y)
      BY <1>2, <2>2 DEF Executor, Account, SameHoldings
    <2>4. SameHoldings(DayAnchor(x, o), x)
      BY <1>2, <2>3 DEF SameHoldings
    <2> QED
      BY <1>2, <2>3, <2>4 DEF y
  <1> QED
    BY <1>3, <1>4

LEMMA Switched ==
    ASSUME NEW x, Executor(x), NEW b
    PROVE  Executor([x EXCEPT !.kill = b]) /\ SameHoldings([x EXCEPT !.kill = b], x)
  <1>1. [x EXCEPT !.kill = b] =
            [cash |-> x.cash, pos |-> x.pos, avg |-> x.avg, day_start |-> x.day_start,
             peak |-> x.peak, anchor |-> x.anchor, kill |-> b]
    BY DEF Executor
  <1> QED
    BY <1>1 DEF Executor, Account, SameHoldings

\* A BUY that validate_order lets through costs no more than there is.
LEMMA Affordable ==
    ASSUME NEW x, Executor(x), NEW o, NEW s \in Symbols, Planned(o, s), o.side = "BUY",
           NEW S \in Profiles, validate_order(x, o, S) = {}
    PROVE  o.quantity * o.price <= x.cash
  <1> DEFINE cost == o.quantity * o.price
             gross == gross_exposure(x)
             equity == current_equity(x)
             pct == EffectiveMaxGrossPct(S)
  <1>1. cost \in Int /\ gross \in Int /\ equity \in Int /\ pct \in 1..100 /\ x.cash \in Int
    BY EquityInt, GrossPct, Products DEF Planned, Executor, Account
  <1>2. equity = x.cash + gross
    BY DEF current_equity
  <1>3. ~(equity <= 0) /\ ~((gross + cost) * 100 > pct * equity)
    <2>1. /\ When(equity <= 0, "non_positive_equity") = {}
          /\ When(ProjectedGross(x, o) * 100 > EffectiveMaxGrossPct(S) * current_equity(x),
                  "max_gross_exposure_exceeded") = {}
      BY DEF validate_order
    <2>2. ProjectedGross(x, o) = gross + cost
      BY DEF ProjectedGross
    <2> QED
      BY <2>1, <2>2 DEF When
  <1> HIDE DEF cost, gross, equity, pct
  <1>4. equity \in Nat
    BY <1>1, <1>3
  <1>5. pct * equity <= 100 * equity /\ pct * equity \in Int
    BY <1>1, <1>4, Shares, Products
  <1>6. (gross + cost) * 100 <= pct * equity
    BY <1>1, <1>3, <1>5
  <1> DEFINE m == pct * equity
  <1>7. m <= 100 * equity /\ m \in Int /\ (gross + cost) * 100 <= m
    BY <1>5, <1>6
  <1> HIDE DEF m
  <1>8. cost <= x.cash
    BY <1>1, <1>2, <1>7
  <1> QED
    BY <1>8 DEF cost

\* A purchase that can be paid for and a sale of what is held leave no debts.
LEMMA Fill ==
    ASSUME NEW x, Executor(x), NEW o, NEW s \in Symbols, Planned(o, s), o.price > 0,
           o.side = "BUY" => o.quantity * o.price <= x.cash,
           o.side = "SELL" => o.quantity = x.pos[s]
    PROVE  LET y == apply_fill(x, o)
           IN /\ Executor(y)
              /\ y.pos = [x.pos EXCEPT ![s] = @ + Signed(o)]
              /\ y.cash = x.cash - Signed(o) * o.price
  <1> DEFINE y == apply_fill(x, o)
             cost == o.quantity * o.price
             owned == x.pos[s]
  <1> SUFFICES /\ Executor(y)
               /\ y.pos = [x.pos EXCEPT ![s] = @ + Signed(o)]
               /\ y.cash = x.cash - Signed(o) * o.price
    OBVIOUS
  <1>1. /\ x.cash \in Nat /\ x.pos \in [Symbols -> Nat] /\ x.avg \in [Symbols -> Int]
        /\ owned \in Nat /\ x.avg[s] \in Int
    BY DEF Executor, Account
  <1>2. /\ o.symbol = s /\ o.side \in {"BUY", "SELL"} /\ o.quantity \in Nat \ {0} /\ o.price \in Nat
    BY DEF Planned
  <1>3. cost \in Nat
    BY <1>2, Products
  <1>4. CASE o.side = "BUY"
    <2> DEFINE avg == (owned * x.avg[s] + cost) \div (owned + o.quantity)
    <2>1. y = [x EXCEPT !.cash = @ - cost, !.pos[s] = owned + o.quantity, !.avg[s] = avg]
      BY <1>2, <1>4 DEF apply_fill
    <2>2. avg \in Int
      <3>1. owned * x.avg[s] \in Int
        BY <1>1, Products
      <3> DEFINE m == owned * x.avg[s]
      <3>2. m + cost \in Int /\ owned + o.quantity \in Nat \ {0}
        <4> HIDE DEF m, cost, owned
        <4> QED
          BY <1>1, <1>2, <1>3, <3>1 DEF m
      <3> HIDE DEF m, cost, owned
      <3>3. \A a \in Int : \A b \in Nat \ {0} : a \div b \in Int
        OBVIOUS
      <3> QED
        BY <3>2, <3>3 DEF m
    <2> HIDE DEF avg, cost
    <2>3. y = [cash |-> x.cash - cost, pos |-> [x.pos EXCEPT ![s] = owned + o.quantity],
               avg |-> [x.avg EXCEPT ![s] = avg], day_start |-> x.day_start, peak |-> x.peak,
               anchor |-> x.anchor, kill |-> x.kill]
      BY <2>1 DEF Executor
    <2> HIDE DEF y
    <2>4. x.cash - cost \in Nat
      <3>1. cost <= x.cash
        BY <1>4 DEF cost
      <3> QED
        BY <1>1, <1>3, <3>1
    <2>5. Executor(y)
      BY <1>1, <1>2, <2>2, <2>3, <2>4 DEF Executor, Account
    <2>6. Signed(o) = o.quantity
      BY <1>4 DEF Signed
    <2> QED
      BY <1>1, <2>3, <2>5, <2>6 DEF cost
  <1>5. CASE o.side = "SELL"
    <2>1. o.quantity = owned /\ LeastOf(o.quantity, owned) = owned /\ owned - owned = 0
      BY <1>1, <1>5 DEF LeastOf
    <2> DEFINE avg == IF owned = owned THEN 0 ELSE x.avg[s]
    <2>2. y = [x EXCEPT !.cash = @ + owned * o.price, !.pos[s] = owned - owned, !.avg[s] = avg]
      BY <1>2, <1>5, <2>1 DEF apply_fill
    <2>3. y = [x EXCEPT !.cash = @ + cost, !.pos[s] = 0, !.avg[s] = 0]
      BY <2>1, <2>2
    <2> HIDE DEF cost, y
    <2>4. y = [cash |-> x.cash + cost, pos |-> [x.pos EXCEPT ![s] = 0],
               avg |-> [x.avg EXCEPT ![s] = 0], day_start |-> x.day_start, peak |-> x.peak,
               anchor |-> x.anchor, kill |-> x.kill]
      BY <2>3 DEF Executor
    <2>5. Executor(y)
      BY <1>1, <1>3, <2>4 DEF Executor, Account
    <2>6. Signed(o) = 0 - o.quantity /\ owned + Signed(o) = 0
      BY <1>1, <1>2, <1>5, <2>1 DEF Signed
    <2>7. x.cash - Signed(o) * o.price = x.cash + cost
      <3>1. (0 - o.quantity) * o.price = 0 - cost
        BY <1>2 DEF cost
      <3> QED
        BY <1>1, <1>3, <2>6, <3>1
    <2> QED
      BY <1>1, <2>4, <2>5, <2>6, <2>7
  <1> QED
    BY <1>2, <1>4, <1>5

\* submit_order: an order that is not filled leaves the holdings alone, and a filled one
\* moves position and cash by the order.
LEMMA Submit ==
    ASSUME NEW x, Executor(x), NEW o, NEW s \in Symbols, Planned(o, s), NEW S \in Profiles,
           o.side = "SELL" => o.quantity = x.pos[s]
    PROVE  LET r == submit_order(x, o, S)
           IN /\ Executor(r.ex) /\ r.status \in {"FILLED", "REJECTED"}
              /\ r.status = "REJECTED" => r.ex.pos = x.pos /\ r.ex.cash = x.cash
              /\ r.status = "FILLED" => /\ r.ex.pos = [x.pos EXCEPT ![s] = @ + Signed(o)]
                                        /\ r.ex.cash = x.cash - Signed(o) * o.price
  <1> DEFINE r == submit_order(x, o, S)
             anchored == WithPeak(DayAnchor(x, o))
             bought == apply_fill(anchored, o)
             filled == WithPeak(bought)
             tripped == \/ DrawdownBreached(anchored) \/ DailyLossBreached(anchored, S)
             Moved(y) == /\ y.pos = [x.pos EXCEPT ![s] = @ + Signed(o)]
                         /\ y.cash = x.cash - Signed(o) * o.price
             Rests(q) == Executor(q.ex) /\ SameHoldings(q.ex, x) /\ q.status = "REJECTED"
  <1> SUFFICES /\ Executor(r.ex) /\ r.status \in {"FILLED", "REJECTED"}
               /\ r.status = "REJECTED" => r.ex.pos = x.pos /\ r.ex.cash = x.cash
               /\ r.status = "FILLED" => Moved(r.ex)
    OBVIOUS
  <1>1. Executor(DayAnchor(x, o)) /\ SameHoldings(DayAnchor(x, o), x)
    BY Anchoring
  <1>2. Executor(anchored) /\ SameHoldings(anchored, x)
    <2> DEFINE d == DayAnchor(x, o)
    <2>1. Executor(d) /\ SameHoldings(d, x)
      BY <1>1
    <2> HIDE DEF d
    <2>2. Executor(WithPeak(d)) /\ SameHoldings(WithPeak(d), d)
      BY <2>1, Anchoring
    <2>3. SameHoldings(WithPeak(d), x)
      BY <2>1, <2>2 DEF SameHoldings
    <2> QED
      BY <2>2, <2>3 DEF d
  <1>3. CASE Inadmissible(x, o)
    <2>1. r = Rejected(x)
      BY <1>3 DEF submit_order
    <2> QED
      BY <2>1 DEF Rejected
  <1> DEFINE Large == \/ o.quantity * o.price > S.max_notional_per_trade
                      \/ /\ o.side = "BUY" /\ x.pos[o.symbol] = 0
                         /\ active_positions(x) >= EffectiveMaxOpenPositions(S)
             reasons == validate_order(anchored, o, S)
  <1>4. CASE ~Inadmissible(x, o) /\ Large
    <2>1. r = Rejected(DayAnchor(x, o))
      BY <1>4 DEF submit_order
    <2>2. Rests(r)
      BY <1>1, <2>1 DEF Rejected
    <2> HIDE DEF r
    <2> QED
      BY <2>2 DEF SameHoldings
  <1>5. CASE ~Inadmissible(x, o) /\ ~Large /\ reasons # {}
    <2> DEFINE e == [anchored EXCEPT !.kill = anchored.kill \/ tripped]
    <2>1. r = Rejected(e)
      BY <1>5 DEF submit_order
    <2>2. Executor(e) /\ SameHoldings(e, anchored)
      <3> HIDE DEF anchored, tripped
      <3> QED
        BY <1>2, Switched
    <2> HIDE DEF e, anchored
    <2>3. Rests(r)
      BY <1>2, <2>1, <2>2 DEF Rejected, SameHoldings
    <2> HIDE DEF r
    <2> QED
      BY <2>3 DEF SameHoldings
  <1>6. CASE ~Inadmissible(x, o) /\ ~Large /\ reasons = {}
    <2> DEFINE e == [filled EXCEPT !.kill = filled.kill \/ LossCapBreached(filled, S)]
    <2>1. r = [ex |-> e, status |-> "FILLED"]
      BY <1>6 DEF submit_order
    <2>2. o.price > 0
      BY <1>6 DEF Inadmissible, Planned
    <2> HIDE DEF anchored
    <2>3. o.side = "BUY" => o.quantity * o.price <= anchored.cash
      BY <1>2, <1>6, Affordable
    <2>4. o.side = "SELL" => o.quantity = anchored.pos[s]
      BY <1>2 DEF SameHoldings
    <2>5. Executor(bought) /\ Moved(bought)
      <3>1. /\ Executor(bought)
            /\ bought.pos = [anchored.pos EXCEPT ![s] = @ + Signed(o)]
            /\ bought.cash = anchored.cash - Signed(o) * o.price
        BY <1>2, <2>2, <2>3, <2>4, Fill
      <3> QED
        BY <1>2, <3>1 DEF SameHoldings
    <2> HIDE DEF bought
    <2>6. Executor(filled) /\ SameHoldings(filled, bought)
      BY <2>5, Anchoring
    <2> HIDE DEF filled
    <2>7. Executor(e) /\ SameHoldings(e, filled)
      BY <2>6, Switched
    <2> HIDE DEF e
    <2>8. Moved(e)
      BY <2>5, <2>6, <2>7 DEF SameHoldings
    <2> QED
      BY <2>1, <2>7, <2>8
  <1> QED
    BY <1>3, <1>4, <1>5, <1>6

-----------------------------------------------------------------------------
(* Sessions and sizing.                                                    *)

\* A session that does not open positions sizes them with 0.
ClosedIsZero(c) == c.size_multiplier \in Nat /\ (~c.can_open => c.size_multiplier = 0)

LEMMA ExtendedIsZero ==
    ASSUME NEW state, NEW enabling, NEW supported, NEW m \in Nat
    PROVE  ClosedIsZero(ExtendedContext(state, enabling, supported, m))
  <1>1. CASE enabling /\ supported
    BY <1>1 DEF ExtendedContext, SessionContext, ClosedIsZero
  <1>2. CASE enabling /\ ~supported
    BY <1>2 DEF ExtendedContext, SessionContext, ClosedIsZero
  <1>3. CASE ~enabling
    BY <1>3 DEF ExtendedContext, SessionContext, ClosedIsZero
  <1> QED
    BY <1>1, <1>2, <1>3

LEMMA SessionIsZero ==
    ASSUME NEW t, NEW S
    PROVE  ClosedIsZero(WorkerSession(t, S))
  <1> DEFINE supported == S.broker_extended_hours_supported \/ S.allow_after_hours
             enabling == S.extended_hours_enabled \/ S.allow_after_hours
             overnight == enabling /\ S.overnight_trading_enabled
             c == classify_trading_session(t, S, supported)
  <1>1. \/ c = SessionContext("closed_session", FALSE, 0, "weekend_closed")
        \/ c = SessionContext("regular_session", TRUE, 100, "none")
        \/ c = ExtendedContext("premarket_session", enabling, supported, 50)
        \/ c = ExtendedContext("afterhours_session", enabling, supported, 50)
        \/ c = ExtendedContext("overnight_session", overnight, supported, 25)
    <2> DEFINE tod == TimeOfDay(t)
               closed == MarketDate(t) \in Weekend
    <2>0. /\ PremarketStart \in Int /\ TradingStart \in Int /\ TradingEnd \in Int
          /\ AfterhoursEnd \in Int /\ TradingStart <= TradingEnd
      BY RulesAssumption
    <2>1. CASE closed
      BY <2>1 DEF classify_trading_session
    <2>2. CASE ~closed /\ tod \in TradingStart..TradingEnd
      <3>1. /\ ~(tod \in PremarketStart..(TradingStart - 1))
            /\ ~(tod \in (TradingEnd + 1)..AfterhoursEnd)
        BY <2>0, <2>2
      <3>2. c = SessionContext("regular_session", TRUE, 100, "none")
        BY <2>2, <3>1 DEF classify_trading_session
      <3> QED
        BY <3>2
    <2>3. CASE ~closed /\ ~(tod \in TradingStart..TradingEnd) /\ tod \in PremarketStart..(TradingStart - 1)
      <3>1. ~(tod \in (TradingEnd + 1)..AfterhoursEnd)
        BY <2>0, <2>3
      <3>2. c = ExtendedContext("premarket_session", enabling, supported, 50)
        BY <2>3, <3>1 DEF classify_trading_session
      <3> QED
        BY <3>2
    <2>4. CASE ~closed /\ ~(tod \in TradingStart..TradingEnd) /\ tod \notin PremarketStart..(TradingStart - 1)
      BY <2>4 DEF classify_trading_session
    <2> QED
      BY <2>1, <2>2, <2>3, <2>4
  <1>2. /\ ClosedIsZero(ExtendedContext("premarket_session", enabling, supported, 50))
        /\ ClosedIsZero(ExtendedContext("afterhours_session", enabling, supported, 50))
        /\ ClosedIsZero(ExtendedContext("overnight_session", overnight, supported, 25))
    BY ExtendedIsZero
  <1>3. /\ ClosedIsZero(SessionContext("closed_session", FALSE, 0, "weekend_closed"))
        /\ ClosedIsZero(SessionContext("regular_session", TRUE, 100, "none"))
    BY DEF ClosedIsZero, SessionContext
  <1> HIDE DEF c, enabling, overnight
  <1>4. ClosedIsZero(c)
    BY <1>1, <1>2, <1>3
  <1> QED
    BY <1>4 DEF WorkerSession, c

LEMMA Quotients ==
    /\ \A a \in Int : \A b \in Nat \ {0} : a \div b \in Int
    /\ \A a \in Nat : \A b \in Nat \ {0} : a \div b \in Nat
    /\ \A b \in Nat \ {0} : 0 \div b = 0
  OBVIOUS

LEMMA Nothing == \A a \in Int : a * 0 = 0 /\ 0 * a = 0
  OBVIOUS

LEMMA SizeInt ==
    ASSUME NEW price \in Nat, NEW m \in Nat, NEW a, a.equity \in Int, a.gross \in Int,
           NEW S \in Profiles
    PROVE  LET q == calculate_position_size(price, m, a, S)
           IN q \in Int /\ (m = 0 => q <= 0)
  <1> DEFINE q == calculate_position_size(price, m, a, S)
             risk == RiskPerShare(price, S)
             raw == RawQuantity(price, m, a, S)
             exposure == ExposureQuantity(price, a, S)
  <1> SUFFICES q \in Int /\ (m = 0 => q <= 0)
    OBVIOUS
  <1>1. risk \in Nat /\ (price = 0 => risk = 0)
    <2>1. S.stop_loss_pct \in Nat
      BY Limits
    <2>2. price * S.stop_loss_pct \in Nat /\ (price = 0 => price * S.stop_loss_pct = 0)
      BY <2>1, Products, Nothing
    <2> DEFINE k == price * S.stop_loss_pct
    <2>3. risk = k \div 100
      BY DEF RiskPerShare
    <2> HIDE DEF k, risk
    <2>4. k \in Nat /\ (price = 0 => k = 0)
      BY <2>2 DEF k
    <2> QED
      BY <2>3, <2>4
  <1>2. CASE risk = 0
    BY <1>2 DEF calculate_position_size
  <1>3. CASE risk # 0
    <2>0. /\ S.risk_per_trade_pct \in Int /\ S.max_portfolio_exposure_pct \in Int
          /\ price \in Nat \ {0} /\ risk \in Nat \ {0}
      BY <1>1, <1>3, Limits
    <2>1. raw \in Int /\ (m = 0 => raw = 0)
      <3> DEFINE k == a.equity * S.risk_per_trade_pct
                 n == k * m
                 d == 10000 * risk
      <3>1. k \in Int
        BY <2>0, Products
      <3> HIDE DEF k
      <3>2. n \in Int /\ (m = 0 => n = 0)
        BY <3>1, Products, Nothing
      <3>3. d \in Nat \ {0}
        <4> HIDE DEF risk
        <4> QED BY <2>0
      <3> HIDE DEF n, d
      <3>4. raw = n \div d
        BY DEF RawQuantity, n, d, k
      <3> QED
        BY <3>2, <3>3, <3>4, Quotients
    <2>2. exposure \in Int
      <3> DEFINE k == a.equity * S.max_portfolio_exposure_pct
                 n == GreatestOf(k \div 100 - a.gross, 0)
      <3>1. k \in Int
        BY <2>0, Products
      <3> HIDE DEF k
      <3>2. n \in Int
        BY <3>1 DEF GreatestOf
      <3> HIDE DEF n
      <3>3. exposure = n \div price
        BY DEF ExposureQuantity, n, k
      <3> QED
        BY <2>0, <3>2, <3>3, Quotients
    <2> HIDE DEF raw, exposure
    <2>3. q = 0 \/ q = LeastOf(raw, exposure)
      BY DEF calculate_position_size, raw, exposure
    <2> HIDE DEF q
    <2> QED
      BY <2>1, <2>2, <2>3 DEF LeastOf
  <1> QED
    BY <1>2, <1>3

\* The quantity of an entry is a number, and nothing in a session that does not open any.
LEMMA EntryQuantity ==
    ASSUME NEW m \in Nat, settings \in Profiles, bar.price \in Nat, Executor(w.ex)
    PROVE  entry_quantity(m) \in Int /\ (~session.can_open => entry_quantity(m) <= 0)
  <1> DEFINE regime == IF settings.enable_strategy_gating THEN RegimeMultiplier(bar.market, settings)
                       ELSE 100
             scale == session.size_multiplier
             share == (regime * scale) \div 100
             sized == calculate_position_size(bar.price, share, account, settings)
             fixed == (settings.worker_order_quantity * m * scale) \div 10000
             q == entry_quantity(m)
  <1> SUFFICES q \in Int /\ (~session.can_open => q <= 0)
    OBVIOUS
  <1>1. scale \in Nat /\ (~session.can_open => scale = 0)
    BY SessionIsZero DEF session, ClosedIsZero
  <1> HIDE DEF scale
  <1>2. regime \in Nat
    BY Limits DEF RegimeMultiplier
  <1> HIDE DEF regime
  <1>3. share \in Nat /\ (scale = 0 => share = 0)
    <2> DEFINE k == regime * scale
    <2>1. k \in Nat /\ (scale = 0 => k = 0)
      BY <1>1, <1>2, Products, Nothing
    <2>2. share = k \div 100
      OBVIOUS
    <2> HIDE DEF k, share
    <2> QED
      BY <2>1, <2>2
  <1> HIDE DEF share
  <1>4. sized \in Int /\ (scale = 0 => sized <= 0)
    <2>1. account.equity \in Int /\ account.gross \in Int
      BY EquityInt DEF account, Executor
    <2> QED
      BY <1>3, <2>1, SizeInt
  <1> HIDE DEF sized
  <1>5. fixed \in Int /\ (scale = 0 => fixed <= 0)
    <2> DEFINE a == settings.worker_order_quantity * m
               k == a * scale
    <2>1. a \in Nat
      BY Limits, Products
    <2> HIDE DEF a
    <2>2. k \in Nat /\ (scale = 0 => k = 0)
      BY <1>1, <2>1, Products, Nothing
    <2>3. fixed = k \div 10000
      BY DEF a
    <2> HIDE DEF k, fixed
    <2> QED
      BY <2>2, <2>3
  <1> HIDE DEF fixed
  <1>6. q = 0 \/ q = sized \/ q = fixed
    <2>1. CASE settings.enable_position_sizing
      <3>1. q = 0 \/ q = sized
        BY <2>1 DEF entry_quantity, sized, share, scale, regime
      <3> QED
        BY <3>1
    <2>2. CASE ~settings.enable_position_sizing
      <3>1. q = 0 \/ q = fixed
        BY <2>2 DEF entry_quantity, fixed, scale
      <3> QED
        BY <3>1
    <2> QED
      BY <2>1, <2>2
  <1> HIDE DEF q
  <1> QED
    BY <1>1, <1>4, <1>5, <1>6

-----------------------------------------------------------------------------
(* The plan of a symbol's cycle.                                           *)

\* Only a strategy without a reason against it is selected, with the kill switch off.
LEMMA Selection ==
    ASSUME NEW regime, NEW global
    PROVE  LET s == select(candidates, regime, global, Order)
           IN /\ s.strategy \in Holders /\ s.multiplier \in {0, 50, 100}
              /\ s.strategy # "none" => /\ s.strategy \in Strategies /\ ~global.kill
                                        /\ external_reasons(s.strategy) = {}
<1> DEFINE s == select(candidates, regime, global, Order)
           score(c) == CandidateScore(c, regime)
           qualified == Qualified(candidates, regime, global)
           best == {c \in qualified : \A d \in qualified \ {c} :
                       \/ score(c) > score(d)
                       \/ score(c) = score(d) /\ Order[c.strategy] < Order[d.strategy]}
           one == CHOOSE b \in best : TRUE
<1> SUFFICES /\ s.strategy \in Holders /\ s.multiplier \in {0, 50, 100}
             /\ s.strategy # "none" => /\ s.strategy \in Strategies /\ ~global.kill
                                       /\ external_reasons(s.strategy) = {}
  OBVIOUS
<1>1. s = IF best = {} THEN [strategy |-> "none", multiplier |-> 0]
          ELSE [strategy |-> one.strategy, multiplier |-> IF score(one) < MediocreScore THEN 50 ELSE 100]
  BY DEF select
<1>2. CASE best = {}
  <2>1. s = [strategy |-> "none", multiplier |-> 0]
    BY <1>1, <1>2
  <2> HIDE DEF s
  <2> QED
    BY <2>1 DEF Holders
<1>3. CASE best # {}
  <2>1. one \in candidates /\ CandidateReasons(one, regime, global) = {}
    <3>1. one \in best
      BY <1>3
    <3> HIDE DEF one
    <3> QED
      BY <3>1 DEF Qualified
  <2>2. PICK st \in Strategies :
             one = [strategy |-> st, enabled |-> enabled(st), signal |-> signals(st),
                    metrics |-> strategy_metrics(st, w.seen), external |-> external_reasons(st)]
    <3> HIDE DEF one
    <3> QED
      BY <2>1 DEF candidates
  <2>3. one.strategy = st /\ one.external = external_reasons(st)
    <3> HIDE DEF one
    <3> QED
      BY <2>2
  <2>4. one.external = {} /\ ~global.kill
    <3> HIDE DEF one
    <3>1. one.external = {} /\ When(global.kill, "kill_switch_enabled") = {}
      BY <2>1 DEF CandidateReasons
    <3> QED
      BY <3>1 DEF When
  <2>5. s.strategy = one.strategy /\ s.multiplier \in {50, 100}
    <3>1. s = [strategy |-> one.strategy, multiplier |-> IF score(one) < MediocreScore THEN 50 ELSE 100]
      BY <1>1, <1>3
    <3> HIDE DEF s, one
    <3> QED
      BY <3>1
  <2> HIDE DEF s, one
  <2> QED
    BY <2>2, <2>3, <2>4, <2>5 DEF Holders
<1> QED
  BY <1>2, <1>3

\* What a new entry may count on besides: the day's trades are below their limit.
LEMMA RoomToday ==
    ASSUME NEW st, held <= 0, held \in Int, external_reasons(st) = {},
           fills \in Seq(FillRows), settings \in Profiles
    PROVE  Cardinality(buys_of_day(now)) < settings.max_trades_per_day
<1>1. cooldown_reasons(sym, st, now, now - bar.age) = {}
  <2>1. ~(held > 0)
    OBVIOUS
  <2> HIDE DEF held
  <2> QED
    BY <2>1 DEF external_reasons
<1>2. When(Cardinality(buys_of_day(now)) >= settings.max_trades_per_day, "max_trades_per_day_exceeded") = {}
  BY <1>1 DEF cooldown_reasons
<1>3. ~(Cardinality(buys_of_day(now)) >= settings.max_trades_per_day)
  BY <1>2 DEF When
<1>4. Cardinality(buys_of_day(now)) \in Nat
  <2>1. IsFiniteSet(DOMAIN fills)
    BY FS_Interval DEF FillRows
  <2>2. buys_of_day(now) \subseteq DOMAIN fills
    BY DEF buys_of_day
  <2> QED
    BY <2>1, <2>2, FS_Subset, FS_CardinalityType
<1>5. settings.max_trades_per_day \in Nat
  BY Limits
<1> QED
  BY <1>3, <1>4, <1>5

LEMMA Price ==
    ASSUME NEW side, settings \in Profiles, bar.price \in Nat
    PROVE  order_price(side) \in Int
<1>1. settings.aggressiveness_pct \in 0..99
  BY Limits
<1> DEFINE p == bar.price
           k == IF side = "BUY" THEN 100 + settings.aggressiveness_pct ELSE 100 - settings.aggressiveness_pct
<1>2. p \in Int /\ k \in Int
  BY <1>1
<1>3. p * k \in Int
  <2> HIDE DEF p, k
  <2> QED
    BY <1>2, Products
<1>4. (p * k) \div 100 \in Int
  <2> DEFINE x == p * k
  <2> HIDE DEF x
  <2> QED
    BY <1>3, Quotients DEF x
<1>5. order_price(side) = IF session.state \in ExtendedSessions /\ settings.use_limit_orders
                          THEN (p * k) \div 100 ELSE p
  BY DEF order_price
<1> HIDE DEF p, k
<1> QED
  BY <1>2, <1>4, <1>5

\* An order is for the symbol at hand: a sale of all of it, or a purchase that may be made.
Sound(o, strategy) ==
    /\ Planned(o, sym) /\ o # NoOrder
    /\ o.side = "SELL" => o.quantity = held
    /\ o.side = "BUY" => /\ held = 0 /\ strategy \in Strategies /\ ~kill /\ session.can_open
                         /\ Cardinality(buys_of_day(now)) < settings.max_trades_per_day

\* What Shape and Job say of the symbol at hand.
LEMMA AtHand ==
    ASSUME Job(w), w.todo # << >>
    PROVE  /\ sym \in Symbols /\ sym # "none" /\ bar \in Bars /\ bar.price \in Nat /\ bar.age \in Nat
           /\ held \in Nat /\ Executor(w.ex) /\ Tail(w.todo) \in Seq(Entries)
           /\ Distinct(Tail(w.todo))
           /\ \A i \in DOMAIN w.todo \ {1} : w.todo[i].symbol # sym
           /\ DOMAIN Tail(w.todo) = 1 .. (Len(w.todo) - 1)
           /\ \A i \in DOMAIN Tail(w.todo) : i + 1 \in DOMAIN w.todo \ {1} /\ Tail(w.todo)[i] = w.todo[i + 1]
<1>1. w.todo \in Seq(Entries) /\ w.todo # << >>
  BY DEF Job
<1>2. Head(w.todo) \in Entries /\ Head(w.todo) = w.todo[1] /\ 1 \in DOMAIN w.todo
  BY <1>1
<1>3. sym \in Symbols /\ bar \in Bars
  BY <1>2 DEF sym, bar, Entries
<1>4. sym # "none" /\ bar.price \in Nat /\ bar.age \in Nat
  BY <1>3, WorkerAssumption, BarsAssumption
<1>5. Executor(w.ex) /\ held \in Nat
  BY <1>3 DEF Job, Executor, Account, held
<1>6. Tail(w.todo) \in Seq(Entries) /\ DOMAIN Tail(w.todo) = 1 .. (Len(w.todo) - 1)
  BY <1>1
<1>7. \A i \in DOMAIN Tail(w.todo) : i + 1 \in DOMAIN w.todo \ {1} /\ Tail(w.todo)[i] = w.todo[i + 1]
  BY <1>1
<1>8. \A i, j \in DOMAIN w.todo : w.todo[i].symbol = w.todo[j].symbol => i = j
  BY DEF Job, Distinct
<1>9. \A i \in DOMAIN w.todo \ {1} : w.todo[i].symbol # sym
  BY <1>2, <1>8 DEF sym
<1>10. Distinct(Tail(w.todo))
  BY <1>6, <1>7, <1>8 DEF Distinct
<1> QED
  BY <1>3, <1>4, <1>5, <1>6, <1>7, <1>9, <1>10

LEMMA Planning ==
    ASSUME Shape, At("decide"), NEW selection,
           selection = select(candidates, bar.regime, global_state, Order)
    PROVE  /\ selection.strategy \in Holders
           /\ \/ plan_order(selection) = NoOrder
              \/ Sound(plan_order(selection), selection.strategy)
<1>1. Job(w) /\ w.todo # << >> /\ settings \in Profiles /\ now \in Nat /\ fills \in Seq(FillRows)
  BY DEF Shape, Stored, Working, At, CyclePoints, SymbolPoints, Job
<1>2. sym \in Symbols /\ sym # "none" /\ bar.price \in Nat /\ bar.age \in Nat /\ held \in Nat /\ Executor(w.ex)
  BY <1>1, AtHand
<1>3. /\ selection.strategy \in Holders /\ selection.multiplier \in Nat
      /\ selection.strategy # "none" => /\ selection.strategy \in Strategies /\ ~global_state.kill
                                        /\ external_reasons(selection.strategy) = {}
  BY Selection
<1>4. global_state.kill = kill
  BY DEF global_state
<1> DEFINE quantity == entry_quantity(selection.multiplier)
<1>5. quantity \in Int /\ (~session.can_open => quantity <= 0)
  BY <1>1, <1>2, <1>3, EntryQuantity
<1>6. ASSUME NEW side \in {"BUY", "SELL"}, NEW n \in Nat \ {0}
      PROVE  /\ Planned(order_of(side, n), sym) /\ order_of(side, n) # NoOrder
             /\ order_of(side, n).side = side /\ order_of(side, n).quantity = n
  <2> DEFINE o == order_of(side, n)
  <2>1. /\ o.symbol = sym /\ o.side = side /\ o.quantity = n /\ o.price = order_price(side)
        /\ o.bar_time = now - bar.age
    BY DEF order_of
  <2>2. NoOrder.symbol = "none"
    BY DEF NoOrder
  <2>3. order_price(side) \in Int /\ now - bar.age \in Int
    BY <1>1, <1>2, Price
  <2> HIDE DEF o
  <2>4. o # NoOrder
    BY <1>2, <2>1, <2>2
  <2>5. Planned(o, sym)
    BY <2>1, <2>3 DEF Planned
  <2> QED
    BY <2>1, <2>4, <2>5 DEF o
<1> HIDE DEF quantity
<1>7. CASE held > 0 /\ (ShouldForceFlatten(now, settings) \/ selection.strategy = "none")
  <2>1. plan_order(selection) = order_of("SELL", held)
    BY <1>2, <1>7 DEF plan_order
  <2>2. Sound(order_of("SELL", held), selection.strategy)
    BY <1>2, <1>6, <1>7 DEF Sound
  <2> QED
    BY <1>3, <2>1, <2>2
<1>8. CASE held = 0 /\ selection.strategy # "none" /\ quantity > 0
  <2>1. plan_order(selection) = order_of("BUY", quantity)
    BY <1>2, <1>8 DEF plan_order, quantity
  <2>2. Cardinality(buys_of_day(now)) < settings.max_trades_per_day
    BY <1>1, <1>3, <1>8, RoomToday
  <2>3. session.can_open
    BY <1>5, <1>8
  <2>4. Sound(order_of("BUY", quantity), selection.strategy)
    BY <1>3, <1>4, <1>5, <1>6, <1>8, <2>2, <2>3 DEF Sound
  <2> QED
    BY <1>3, <2>1, <2>4
<1>9. CASE /\ ~(held > 0 /\ (ShouldForceFlatten(now, settings) \/ selection.strategy = "none"))
           /\ ~(held = 0 /\ selection.strategy # "none" /\ quantity > 0)
  <2>1. plan_order(selection) = NoOrder
    BY <1>9 DEF plan_order, quantity
  <2> QED
    BY <1>3, <2>1
<1> QED
  BY <1>7, <1>8, <1>9

-----------------------------------------------------------------------------
(* The steps of a cycle, as what they make of the worker's locals.         *)

Becomes(at, ex, locks, todo, sel, order, status) ==
    /\ DOMAIN w' = Locals
    /\ w'.up = w.up /\ w'.at = at /\ w'.key = w.key /\ w'.ex = ex /\ w'.locks = locks
    /\ w'.todo = todo /\ w'.sel = sel /\ w'.order = order /\ w'.status = status

LEMMA StartRunMoves ==
    ASSUME Job(w), StartRun
    PROVE  /\ w.at = "next" /\ w.todo # << >>
           /\ \/ Becomes("decide", w.ex, w.locks, w.todo, w.sel, w.order, w.status)
              \/ Becomes("next", w.ex, w.locks, Tail(w.todo), w.sel, w.order, w.status)
           /\ UNCHANGED <<settings, now, kill, book, lock, fills, torn, late_buys>>
<1>1. w.at = "next" /\ w.todo # << >> /\ UNCHANGED <<settings, now, kill, book, lock, fills, torn, late_buys>>
  BY DEF StartRun, At
<1>2. \/ w' = [w EXCEPT !.at = "decide"]
      \/ w' = [w EXCEPT !.todo = Tail(@)]
  BY DEF StartRun
<1> QED
  BY <1>1, <1>2 DEF Job, Locals, Becomes

LEMMA DecideMoves ==
    ASSUME Shape, Decide
    PROVE  /\ w.at = "decide"
           /\ UNCHANGED <<settings, now, kill, book, lock, fills, torn, late_buys>>
           /\ \E sel, order, at :
                 /\ sel \in Holders
                 /\ Becomes(at, w.ex, w.locks, w.todo, sel, order, w.status)
                 /\ \/ order = NoOrder /\ at \in {"lock", "finish"}
                    \/ Sound(order, sel) /\ at = "order"
<1> DEFINE selection == select(candidates, bar.regime, global_state, Order)
           o == plan_order(selection)
           order == IF settings.worker_dry_run THEN NoOrder ELSE o
           at == after_planning(o)
<1>1. At("decide") /\ w.at = "decide" /\ UNCHANGED <<settings, now, kill, book, lock, fills, torn, late_buys>>
  BY DEF Decide, At
<1>2. w' = [w EXCEPT !.sel = selection.strategy, !.order = order, !.at = at]
  BY DEF Decide
<1>3. Job(w)
  BY <1>1 DEF Shape, Working, CyclePoints, SymbolPoints
<1> HIDE DEF selection
<1>4. selection.strategy \in Holders /\ (o = NoOrder \/ Sound(o, selection.strategy))
  BY <1>1, Planning DEF selection
<1>5. Sound(o, selection.strategy) => o # NoOrder
  BY DEF Sound
<1> HIDE DEF o
<1>6. \/ order = NoOrder /\ at \in {"lock", "finish"}
      \/ Sound(order, selection.strategy) /\ at = "order"
  <2>1. CASE o = NoOrder
    <3>1. at = "lock"
      BY <2>1 DEF after_planning
    <3> QED
      BY <2>1, <3>1
  <2>2. CASE o # NoOrder /\ settings.worker_dry_run
    <3>1. at = "finish"
      BY <2>2 DEF after_planning
    <3> QED
      BY <2>2, <3>1
  <2>3. CASE o # NoOrder /\ ~settings.worker_dry_run
    <3>1. at = "order"
      BY <2>3 DEF after_planning
    <3> QED
      BY <1>4, <2>3, <3>1
  <2> QED
    BY <2>1, <2>2, <2>3
<1> HIDE DEF order, at
<1>7. Becomes(at, w.ex, w.locks, w.todo, selection.strategy, order, w.status)
  BY <1>2, <1>3 DEF Job, Locals, Becomes
<1> QED
  BY <1>1, <1>4, <1>6, <1>7

LEMMA RecordOrderMoves ==
    ASSUME Job(w), RecordOrder
    PROVE  /\ w.at = "order"
           /\ UNCHANGED <<settings, now, kill, book, lock, fills, torn, late_buys>>
           /\ \/ Becomes("finish", w.ex, w.locks, w.todo, w.sel, w.order, w.status)
              \/ \E r : /\ r = submit_order(w.ex, w.order, settings)
                        /\ Becomes("status", r.ex, w.locks, w.todo, w.sel, w.order, r.status)
<1> DEFINE r == submit_order(w.ex, w.order, settings)
<1>1. w.at = "order" /\ UNCHANGED <<settings, now, kill, book, lock, fills, torn, late_buys>>
  BY DEF RecordOrder, At
<1>2. \/ w' = [w EXCEPT !.at = "finish"]
      \/ w' = [w EXCEPT !.at = "status", !.ex = r.ex, !.status = r.status]
  BY DEF RecordOrder
<1> HIDE DEF r
<1>3. \/ Becomes("finish", w.ex, w.locks, w.todo, w.sel, w.order, w.status)
      \/ Becomes("status", r.ex, w.locks, w.todo, w.sel, w.order, r.status)
  BY <1>2 DEF Job, Locals, Becomes
<1> QED
  BY <1>1, <1>3 DEF r

LEMMA UpdateOrderStatusMoves ==
    ASSUME Job(w), UpdateOrderStatus
    PROVE  /\ w.at = "status"
           /\ UNCHANGED <<settings, now, kill, book, lock, fills, torn, late_buys>>
           /\ Becomes(IF w.status = "FILLED" THEN "fill" ELSE "finish", w.ex, w.locks, w.todo,
                        w.sel, w.order, w.status)
  BY DEF UpdateOrderStatus, At, Job, Locals, Becomes

LEMMA RecordFillMoves ==
    ASSUME Job(w), RecordFill
    PROVE  /\ w.at = "fill" /\ Becomes("lock", w.ex, w.locks, w.todo, w.sel, w.order, w.status)
           /\ UNCHANGED <<settings, now, kill, book, lock, torn>>
           /\ fills' = Append(fills, [symbol |-> w.order.symbol, side |-> w.order.side,
                                      quantity |-> w.order.quantity, price |-> w.order.price,
                                      bar_time |-> w.order.bar_time, bucket |-> w.key,
                                      strategy |-> w.sel])
           /\ late_buys' = IF kill /\ w.order.side = "BUY" THEN late_buys + 1 ELSE late_buys
<1>1. w.at = "fill" /\ w' = [w EXCEPT !.at = "lock"]
  BY DEF RecordFill, At
<1>2. Becomes("lock", w.ex, w.locks, w.todo, w.sel, w.order, w.status)
  BY <1>1 DEF Job, Locals, Becomes
<1> QED
  BY <1>1, <1>2 DEF RecordFill, record_fill

LEMMA SyncLockMoves ==
    ASSUME Job(w), SyncLock
    PROVE  /\ w.at = "lock" /\ UNCHANGED <<settings, now, kill, book, fills, torn, late_buys>>
           /\ Becomes("finish", w.ex, [w.locks EXCEPT ![sym] = synced_lock], w.todo, w.sel,
                        w.order, w.status)
           /\ lock' = IF synced_lock = w.locks[sym] THEN lock ELSE [lock EXCEPT ![sym] = synced_lock]
<1>1. w.at = "lock" /\ w' = [w EXCEPT !.at = "finish", !.locks[sym] = synced_lock]
  BY DEF SyncLock, At
<1>2. w' = [w EXCEPT !.at = "finish", !.locks = [w.locks EXCEPT ![sym] = synced_lock]]
  BY <1>1 DEF Job
<1> DEFINE locks == [w.locks EXCEPT ![sym] = synced_lock]
<1> HIDE DEF locks
<1>3. Becomes("finish", w.ex, locks, w.todo, w.sel, w.order, w.status)
  BY <1>2 DEF Job, Locals, Becomes, locks
<1> QED
  BY <1>1, <1>3 DEF SyncLock, write_lock, locks

LEMMA NextSymbolIs ==
    ASSUME Job(w), w' = NextSymbol
    PROVE  Becomes("next", w.ex, w.locks, Tail(w.todo), "none", NoOrder, "none")
<1>1. w' = [w EXCEPT !.at = "next", !.todo = Tail(w.todo), !.sel = "none", !.order = NoOrder,
                     !.status = "none"]
  BY DEF NextSymbol, Job
<1> QED
  BY <1>1 DEF Job, Locals, Becomes

LEMMA FinishRunMoves ==
    ASSUME Job(w), FinishRun
    PROVE  /\ w.at = "finish"
           /\ UNCHANGED <<settings, now, kill, book, lock, fills, torn, late_buys>>
           /\ Becomes("next", w.ex, w.locks, Tail(w.todo), "none", NoOrder, "none")
  BY NextSymbolIs DEF FinishRun, At

LEMMA SymbolFailsMoves ==
    ASSUME Job(w), SymbolFails
    PROVE  /\ w.at \in SymbolPoints /\ UNCHANGED <<settings, now, kill, book, lock, fills, late_buys>>
           /\ Becomes("next", w.ex, w.locks, Tail(w.todo), "none", NoOrder, "none")
           /\ torn' = \/ torn
                      \/ w.at = "status" /\ w.status = "FILLED"
                      \/ w.at \in {"fill", "lock", "finish"}
  BY NextSymbolIs DEF SymbolFails, InSymbolCycle, SymbolPoints

LEMMA SaveBookMoves ==
    ASSUME Job(w), SaveBook
    PROVE  /\ w.at = "next" /\ w.todo = << >>
           /\ UNCHANGED <<settings, now, kill, lock, fills, torn, late_buys>>
           /\ book' = snapshot_state(w.ex)
           /\ Becomes("release", w.ex, w.locks, w.todo, w.sel, w.order, w.status)
  BY DEF SaveBook, At, Job, Locals, Becomes

LEMMA ReleaseStaleLocksMoves ==
    ASSUME Job(w), ReleaseStaleLocks
    PROVE  /\ w.at = "release"
           /\ UNCHANGED <<settings, now, kill, book, fills, torn, late_buys>>
           /\ lock' = [s \in Symbols |-> IF w.locks[s] # "none" /\ w.ex.pos[s] = 0 THEN "none" ELSE lock[s]]
           /\ Becomes("trip", w.ex, w.locks, w.todo, w.sel, w.order, w.status)
  BY DEF ReleaseStaleLocks, At, Job, Locals, Becomes

-----------------------------------------------------------------------------
(* The shape of the database and of the worker is kept.                    *)

\* A step within a cycle, from what it makes of the locals.
LEMMA Onward ==
    ASSUME Working, w.at \in CyclePoints, now' = now,
           NEW at \in CyclePoints, NEW ex, NEW locks, NEW todo, NEW sel, NEW order, NEW status,
           Becomes(at, ex, locks, todo, sel, order, status),
           Executor(ex), locks \in [Symbols -> Holders], sel \in Holders,
           todo = w.todo \/ (w.todo # << >> /\ todo = Tail(w.todo)),
           at \in SymbolPoints => todo # << >>,
           at \in {"release", "trip"} => todo = << >>,
           at \in {"order", "status", "fill"} \/ (at = "lock" /\ order # NoOrder) =>
               todo = w.todo /\ Planned(order, sym) /\ (order.side = "BUY" => sel \in Strategies)
    PROVE  Working'
<1>1. Job(w) /\ w.up /\ w.key = now
  BY DEF Working, CyclePoints, SymbolPoints
<1>2. todo \in Seq(Entries) /\ Distinct(todo)
  <2>1. w.todo \in Seq(Entries) /\ Distinct(w.todo)
    BY <1>1 DEF Job
  <2>2. w.todo # << >> => Tail(w.todo) \in Seq(Entries) /\ Distinct(Tail(w.todo))
    BY <1>1, AtHand
  <2> QED
    BY <2>1, <2>2
<1>3. Job(w')
  BY <1>2 DEF Job, Becomes
<1>4. w'.at = at /\ w'.up /\ w'.key = now'
  BY <1>1 DEF Becomes
<1>5. ASSUME Ordering' \/ (w'.at = "lock" /\ w'.order # NoOrder')
      PROVE  Planned(w'.order, sym') /\ (w'.order.side = "BUY" => w'.sel \in Strategies)
  <2>1. at \in {"order", "status", "fill"} \/ (at = "lock" /\ order # NoOrder)
    BY <1>4, <1>5 DEF Ordering, Becomes, NoOrder
  <2>2. sym' = sym
    BY <2>1 DEF sym, Becomes
  <2> QED
    BY <2>1, <2>2 DEF Becomes
<1>6. Planned(w'.order, sym') <=> Planned(w.order, sym)'
  BY DEF Planned
<1>7. Job(w') <=> Job(w)'
  BY DEF Job
<1> QED
  BY <1>3, <1>4, <1>5, <1>6, <1>7 DEF Working

LEMMA StoredSame ==
    ASSUME Stored, UNCHANGED <<settings, now, book, lock, fills>>
    PROVE  Stored'
  BY DEF Stored, Account

\* Outside the part of a cycle in which an order is under way there is nothing to show.
LEMMA NothingPlanned ==
    ASSUME w'.at \notin {"order", "status", "fill", "lock"} \/ (w'.at = "lock" /\ w'.order = NoOrder)
    PROVE  WholePositions'
  BY DEF WholePositions, Traded, Filled, NoOrder

LEMMA ShapeStartRun ==
    ASSUME Shape, StartRun
    PROVE  Shape'
<1>1. w.at = "next"
  BY DEF StartRun, At
<1>2. Job(w) /\ Stored /\ Working
  BY <1>1 DEF Shape, Working, CyclePoints
<1>3. /\ w.todo # << >>
      /\ \/ Becomes("decide", w.ex, w.locks, w.todo, w.sel, w.order, w.status)
         \/ Becomes("next", w.ex, w.locks, Tail(w.todo), w.sel, w.order, w.status)
      /\ UNCHANGED <<settings, now, book, lock, fills>>
  BY <1>2, StartRunMoves
<1>4. Executor(w.ex) /\ w.locks \in [Symbols -> Holders] /\ w.sel \in Holders
  BY <1>2 DEF Job
<1>5. Working' /\ w'.at \in {"decide", "next"}
  <2>1. CASE Becomes("decide", w.ex, w.locks, w.todo, w.sel, w.order, w.status)
    BY <1>1, <1>2, <1>3, <1>4, <2>1, Onward DEF CyclePoints, SymbolPoints, Becomes
  <2>2. CASE Becomes("next", w.ex, w.locks, Tail(w.todo), w.sel, w.order, w.status)
    BY <1>1, <1>2, <1>3, <1>4, <2>2, Onward DEF CyclePoints, SymbolPoints, Becomes
  <2> QED
    BY <1>3, <2>1, <2>2
<1> QED
  BY <1>2, <1>3, <1>5, StoredSame, NothingPlanned DEF Shape

LEMMA ShapeDecide ==
    ASSUME Shape, Decide
    PROVE  Shape'
<1>1. /\ w.at = "decide" /\ UNCHANGED <<settings, now, book, lock, fills>>
  BY DecideMoves
<1>2. PICK sel, order, at :
          /\ sel \in Holders
          /\ Becomes(at, w.ex, w.locks, w.todo, sel, order, w.status)
          /\ \/ order = NoOrder /\ at \in {"lock", "finish"}
             \/ Sound(order, sel) /\ at = "order"
  BY DecideMoves
<1>3. Job(w) /\ Stored /\ Working /\ w.todo # << >>
  BY <1>1 DEF Shape, Working, CyclePoints, SymbolPoints, Job
<1>4. Executor(w.ex) /\ w.locks \in [Symbols -> Holders]
  BY <1>3 DEF Job
<1>5. Sound(order, sel) => Planned(order, sym) /\ (order.side = "BUY" => sel \in Strategies)
  BY DEF Sound
<1>6. Working'
  <2>1. at \in CyclePoints /\ w.at \in CyclePoints /\ at \notin {"release", "trip", "status", "fill"}
    BY <1>1, <1>2 DEF CyclePoints, SymbolPoints
  <2>2. at = "order" \/ (at = "lock" /\ order # NoOrder) =>
            Planned(order, sym) /\ (order.side = "BUY" => sel \in Strategies)
    BY <1>2, <1>5
  <2> QED
    BY <1>1, <1>2, <1>3, <1>4, <2>1, <2>2, Onward
<1>7. WholePositions'
  <2>1. CASE order = NoOrder /\ at \in {"lock", "finish"}
    BY <1>2, <2>1, NothingPlanned DEF Becomes
  <2>2. CASE Sound(order, sel) /\ at = "order"
    <3>1. w'.at = "order" /\ w'.order = order /\ w'.ex = w.ex /\ sym' = sym
      BY <1>2, <2>2 DEF Becomes, sym
    <3>2. w.ex.pos[sym] = IF order.side = "BUY" THEN 0 ELSE order.quantity
      BY <2>2 DEF Sound, Planned, held
    <3> QED
      BY <3>1, <3>2 DEF WholePositions, Traded, Filled
  <2> QED
    BY <1>2, <2>1, <2>2
<1> QED
  BY <1>1, <1>3, <1>6, <1>7, StoredSame DEF Shape

\* What submit_order leaves of the order at hand.
LEMMA Submitted ==
    ASSUME Shape, w.at = "order", NEW r, r = submit_order(w.ex, w.order, settings)
    PROVE  /\ sym \in Symbols /\ Planned(w.order, sym) /\ w.order.side \in {"BUY", "SELL"}
           /\ Executor(r.ex) /\ r.status \in {"FILLED", "REJECTED"}
           /\ r.status = "REJECTED" => r.ex.pos = w.ex.pos /\ r.ex.cash = w.ex.cash
           /\ r.status = "FILLED" =>
                 /\ r.ex.pos = [w.ex.pos EXCEPT ![sym] = @ + Signed(w.order)]
                 /\ r.ex.cash = w.ex.cash - Signed(w.order) * w.order.price
                 /\ Signed(w.order) \in Int /\ Signed(w.order) # 0
                 /\ w.ex.pos[sym] + Signed(w.order) = IF w.order.side = "BUY" THEN w.order.quantity ELSE 0
<1>1. Job(w) /\ w.todo # << >> /\ settings \in Profiles
  BY DEF Shape, Stored, Working, CyclePoints, SymbolPoints, Job
<1>2. Planned(w.order, sym) /\ w.order.side \in {"BUY", "SELL"} /\ w.order.quantity \in Nat \ {0}
  BY DEF Shape, Working, Ordering, Planned
<1>3. sym \in Symbols /\ Executor(w.ex)
  BY <1>1, AtHand
<1>4. w.ex.pos[sym] = IF w.order.side = "BUY" THEN 0 ELSE w.order.quantity
  BY DEF Shape, WholePositions
<1>5. /\ Executor(r.ex) /\ r.status \in {"FILLED", "REJECTED"}
      /\ r.status = "REJECTED" => r.ex.pos = w.ex.pos /\ r.ex.cash = w.ex.cash
      /\ r.status = "FILLED" => /\ r.ex.pos = [w.ex.pos EXCEPT ![sym] = @ + Signed(w.order)]
                                /\ r.ex.cash = w.ex.cash - Signed(w.order) * w.order.price
  <2>1. w.order.side = "SELL" => w.order.quantity = w.ex.pos[sym]
    BY <1>4
  <2> DEFINE q == submit_order(w.ex, w.order, settings)
  <2>2. /\ Executor(q.ex) /\ q.status \in {"FILLED", "REJECTED"}
        /\ q.status = "REJECTED" => q.ex.pos = w.ex.pos /\ q.ex.cash = w.ex.cash
        /\ q.status = "FILLED" => /\ q.ex.pos = [w.ex.pos EXCEPT ![sym] = @ + Signed(w.order)]
                                  /\ q.ex.cash = w.ex.cash - Signed(w.order) * w.order.price
    BY <1>1, <1>2, <1>3, <2>1, Submit
  <2> QED
    BY <2>2
<1>6. /\ Signed(w.order) \in Int /\ Signed(w.order) # 0
      /\ w.ex.pos[sym] + Signed(w.order) = IF w.order.side = "BUY" THEN w.order.quantity ELSE 0
  BY <1>2, <1>4 DEF Signed
<1> QED
  BY <1>2, <1>3, <1>5, <1>6

LEMMA ShapeRecordOrder ==
    ASSUME Shape, RecordOrder
    PROVE  Shape'
<1>1. w.at = "order"
  BY DEF RecordOrder, At
<1>2. Job(w) /\ Stored /\ Working /\ w.todo # << >>
  BY <1>1 DEF Shape, Working, CyclePoints, SymbolPoints, Job
<1>3. UNCHANGED <<settings, now, book, lock, fills>>
  BY <1>2, RecordOrderMoves
<1>4. Executor(w.ex) /\ w.locks \in [Symbols -> Holders] /\ w.sel \in Holders
  BY <1>2 DEF Job
<1>5. Planned(w.order, sym) /\ (w.order.side = "BUY" => w.sel \in Strategies)
  BY <1>1, <1>2 DEF Working, Ordering
<1>6. Stored'
  BY <1>2, <1>3, StoredSame
<1>7. CASE Becomes("finish", w.ex, w.locks, w.todo, w.sel, w.order, w.status)
  <2>1. Working' /\ w'.at = "finish"
    BY <1>1, <1>2, <1>3, <1>4, <1>7, Onward DEF CyclePoints, SymbolPoints, Becomes
  <2> QED
    BY <1>6, <2>1, NothingPlanned DEF Shape
<1>8. CASE \E r : /\ r = submit_order(w.ex, w.order, settings)
                  /\ Becomes("status", r.ex, w.locks, w.todo, w.sel, w.order, r.status)
  <2>1. PICK r : /\ r = submit_order(w.ex, w.order, settings)
                 /\ Becomes("status", r.ex, w.locks, w.todo, w.sel, w.order, r.status)
    BY <1>8
  <2>2. /\ sym \in Symbols /\ w.order.side \in {"BUY", "SELL"}
        /\ Executor(r.ex) /\ r.status \in {"FILLED", "REJECTED"}
        /\ r.status = "FILLED" =>
              /\ r.ex.pos = [w.ex.pos EXCEPT ![sym] = @ + Signed(w.order)]
              /\ w.ex.pos[sym] + Signed(w.order) = IF w.order.side = "BUY" THEN w.order.quantity ELSE 0
    BY <1>1, <2>1, Submitted
  <2>3. Working'
    BY <1>1, <1>2, <1>3, <1>4, <1>5, <2>1, <2>2, Onward DEF CyclePoints, SymbolPoints
  <2>4. WholePositions'
    <3>1. /\ w'.at = "status" /\ w'.status = r.status /\ w'.order = w.order /\ w'.ex = r.ex
          /\ sym' = sym
      BY <2>1 DEF Becomes, sym
    <3>2. r.status = "FILLED" => (r.ex.pos[sym] = 0 <=> w.order.side = "SELL")
      <4>1. sym \in DOMAIN w.ex.pos
        BY <1>4, <2>2 DEF Executor, Account
      <4>2. w.order.quantity \in Nat \ {0}
        BY <1>5 DEF Planned
      <4> QED
        BY <2>2, <4>1, <4>2
    <3> QED
      BY <3>1, <3>2 DEF WholePositions, Traded, Filled
  <2> QED
    BY <1>6, <2>3, <2>4 DEF Shape
<1> QED
  BY <1>2, <1>7, <1>8, RecordOrderMoves

LEMMA ShapeUpdateOrderStatus ==
    ASSUME Shape, UpdateOrderStatus
    PROVE  Shape'
<1>1. w.at = "status"
  BY DEF UpdateOrderStatus, At
<1>2. Job(w) /\ Stored /\ Working /\ w.todo # << >>
  BY <1>1 DEF Shape, Working, CyclePoints, SymbolPoints, Job
<1> DEFINE at == IF w.status = "FILLED" THEN "fill" ELSE "finish"
<1>3. /\ UNCHANGED <<settings, now, book, lock, fills>>
      /\ Becomes(at, w.ex, w.locks, w.todo, w.sel, w.order, w.status)
  BY <1>2, UpdateOrderStatusMoves
<1>4. Executor(w.ex) /\ w.locks \in [Symbols -> Holders] /\ w.sel \in Holders
  BY <1>2 DEF Job
<1>5. Planned(w.order, sym) /\ (w.order.side = "BUY" => w.sel \in Strategies)
  BY <1>1, <1>2 DEF Working, Ordering
<1>6. at \in {"fill", "finish"}
  OBVIOUS
<1>7. Working'
  <2> HIDE DEF at
  <2> QED
    BY <1>1, <1>2, <1>3, <1>4, <1>5, <1>6, Onward DEF CyclePoints, SymbolPoints
<1>8. WholePositions'
  <2>1. sym' = sym /\ w'.at = at /\ w'.order = w.order /\ w'.ex = w.ex
    BY <1>3 DEF Becomes, sym
  <2>2. at = "fill" => Traded
    BY <1>1 DEF Traded, Filled
  <2> QED
    BY <1>6, <2>1, <2>2 DEF Shape, WholePositions, Traded, Filled
<1> QED
  BY <1>2, <1>3, <1>7, <1>8, StoredSame DEF Shape

\* The row of a fill.
Row == [symbol |-> w.order.symbol, side |-> w.order.side, quantity |-> w.order.quantity,
        price |-> w.order.price, bar_time |-> w.order.bar_time, bucket |-> w.key,
        strategy |-> w.sel]

LEMMA RowIs ==
    ASSUME Shape, w.at = "fill"
    PROVE  /\ Row \in FillRows /\ fills \in Seq(FillRows)
           /\ Row.symbol = sym /\ Row.side = w.order.side /\ Row.quantity = w.order.quantity
           /\ Row.price = w.order.price /\ Row.bucket = now /\ Row.strategy = w.sel
           /\ Row.bar_time = w.order.bar_time
           /\ sym \in Symbols /\ w.order.side \in {"BUY", "SELL"} /\ w.order.quantity \in Nat \ {0}
           /\ w.order.price \in Int
<1>1. Planned(w.order, sym) /\ w.key = now /\ now \in Nat /\ Job(w) /\ w.todo # << >>
  BY DEF Shape, Stored, Working, Ordering, Job, CyclePoints, SymbolPoints
<1>2. w.order.symbol = sym /\ w.order.side \in {"BUY", "SELL"} /\ w.order.quantity \in Nat \ {0}
      /\ w.order.price \in Int /\ w.order.bar_time \in Int
  BY <1>1 DEF Planned
<1>3. sym \in Symbols /\ w.sel \in Holders
  BY <1>1, AtHand DEF Job
<1>4. Row \in FillRows
  BY <1>1, <1>2, <1>3 DEF Row, FillRows
<1> QED
  BY <1>1, <1>2, <1>3, <1>4 DEF Row, Shape, Stored

LEMMA ShapeRecordFill ==
    ASSUME Shape, RecordFill
    PROVE  Shape'
<1>1. w.at = "fill"
  BY DEF RecordFill, At
<1>2. Job(w) /\ Stored /\ Working /\ w.todo # << >>
  BY <1>1 DEF Shape, Working, CyclePoints, SymbolPoints, Job
<1>3. /\ UNCHANGED <<settings, now, book, lock>>
      /\ Becomes("lock", w.ex, w.locks, w.todo, w.sel, w.order, w.status)
      /\ fills' = Append(fills, Row)
  BY <1>2, RecordFillMoves DEF Row
<1>4. Executor(w.ex) /\ w.locks \in [Symbols -> Holders] /\ w.sel \in Holders
  BY <1>2 DEF Job
<1>5. Planned(w.order, sym) /\ (w.order.side = "BUY" => w.sel \in Strategies)
  BY <1>1, <1>2 DEF Working, Ordering
<1>6. fills' \in Seq(FillRows)
  <2>1. Row \in FillRows /\ fills \in Seq(FillRows)
    BY <1>1, RowIs
  <2> HIDE DEF Row
  <2> QED
    BY <1>3, <2>1
<1>7. Stored'
  BY <1>2, <1>3, <1>6 DEF Stored, Account
<1>8. Working'
  BY <1>1, <1>2, <1>3, <1>4, <1>5, Onward DEF CyclePoints, SymbolPoints
<1>9. WholePositions'
  <2>1. sym' = sym /\ w'.at = "lock" /\ w'.order = w.order /\ w'.ex = w.ex
    BY <1>3 DEF Becomes, sym
  <2>2. Traded
    BY <1>1 DEF Traded, Filled
  <2> QED
    BY <2>1, <2>2 DEF Shape, WholePositions, Traded, Filled
<1> QED
  BY <1>7, <1>8, <1>9 DEF Shape

\* The lock after a fill or without an order.
LEMMA SyncedLock ==
    ASSUME Job(w), w.todo # << >>
    PROVE  /\ synced_lock \in Holders
           /\ settings.allow_multi_strategy => synced_lock = w.locks[sym]
           /\ ~settings.allow_multi_strategy /\ w.order # NoOrder =>
                 synced_lock = IF w.order.side = "BUY" THEN w.sel
                               ELSE IF held = 0 THEN "none" ELSE w.locks[sym]
           /\ ~settings.allow_multi_strategy /\ w.order = NoOrder =>
                 synced_lock = IF held = 0 THEN "none"
                               ELSE IF w.locks[sym] = "none" THEN w.sel ELSE w.locks[sym]
<1>1. w.locks[sym] \in Holders /\ w.sel \in Holders /\ "none" \in Holders
  <2>1. sym \in Symbols
    BY AtHand
  <2> QED
    BY <2>1 DEF Job, Holders
<1>2. settings.allow_multi_strategy => synced_lock = w.locks[sym]
  BY DEF synced_lock
<1>3. ~settings.allow_multi_strategy /\ w.order # NoOrder =>
          synced_lock = IF w.order.side = "BUY" THEN w.sel
                        ELSE IF held = 0 THEN "none" ELSE w.locks[sym]
  BY DEF synced_lock
<1>4. ~settings.allow_multi_strategy /\ w.order = NoOrder =>
          synced_lock = IF held = 0 THEN "none"
                        ELSE IF w.locks[sym] = "none" THEN w.sel ELSE w.locks[sym]
  BY DEF synced_lock
<1> HIDE DEF synced_lock
<1> QED
  BY <1>1, <1>2, <1>3, <1>4

LEMMA ShapeSyncLock ==
    ASSUME Shape, SyncLock
    PROVE  Shape'
<1>1. w.at = "lock"
  BY DEF SyncLock, At
<1>2. Job(w) /\ Stored /\ Working /\ w.todo # << >>
  BY <1>1 DEF Shape, Working, CyclePoints, SymbolPoints, Job
<1> DEFINE locks == [w.locks EXCEPT ![sym] = synced_lock]
<1>3. /\ UNCHANGED <<settings, now, book, fills>>
      /\ Becomes("finish", w.ex, locks, w.todo, w.sel, w.order, w.status)
      /\ lock' = IF synced_lock = w.locks[sym] THEN lock ELSE [lock EXCEPT ![sym] = synced_lock]
  BY <1>2, SyncLockMoves
<1>4. Executor(w.ex) /\ w.locks \in [Symbols -> Holders] /\ w.sel \in Holders
  BY <1>2 DEF Job
<1>5. synced_lock \in Holders
  BY <1>2, SyncedLock
<1>6. locks \in [Symbols -> Holders]
  BY <1>4, <1>5
<1>7. lock' \in [Symbols -> Holders]
  BY <1>2, <1>3, <1>5 DEF Stored
<1>8. Stored'
  BY <1>2, <1>3, <1>7 DEF Stored, Account
<1> HIDE DEF locks
<1>9. Working' /\ w'.at = "finish"
  BY <1>1, <1>2, <1>3, <1>4, <1>6, Onward DEF CyclePoints, SymbolPoints, Becomes
<1> QED
  BY <1>8, <1>9, NothingPlanned DEF Shape

LEMMA ShapeSymbolEnds ==
    ASSUME Shape, FinishRun \/ SymbolFails
    PROVE  Shape'
<1>1. w.at \in SymbolPoints
  BY DEF FinishRun, At, SymbolFails, InSymbolCycle, SymbolPoints
<1>2. Job(w) /\ Stored /\ Working /\ w.todo # << >> /\ w.at \in CyclePoints
  BY <1>1 DEF Shape, Working, CyclePoints, Job
<1>3. /\ UNCHANGED <<settings, now, book, lock, fills>>
      /\ Becomes("next", w.ex, w.locks, Tail(w.todo), "none", NoOrder, "none")
  BY <1>2, FinishRunMoves, SymbolFailsMoves
<1>4. Executor(w.ex) /\ w.locks \in [Symbols -> Holders] /\ "none" \in Holders
  BY <1>2 DEF Job, Holders
<1>5. Working' /\ w'.at = "next"
  BY <1>2, <1>3, <1>4, Onward DEF CyclePoints, SymbolPoints, Becomes
<1> QED
  BY <1>2, <1>3, <1>5, StoredSame, NothingPlanned DEF Shape

LEMMA ShapeSaveBook ==
    ASSUME Shape, SaveBook
    PROVE  Shape'
<1>1. w.at = "next" /\ w.todo = << >>
  BY DEF SaveBook, At
<1>2. Job(w) /\ Stored /\ Working
  BY <1>1 DEF Shape, Working, CyclePoints
<1>3. /\ UNCHANGED <<settings, now, lock, fills>> /\ book' = snapshot_state(w.ex)
      /\ Becomes("release", w.ex, w.locks, w.todo, w.sel, w.order, w.status)
  BY <1>2, SaveBookMoves
<1>4. Executor(w.ex) /\ w.locks \in [Symbols -> Holders] /\ w.sel \in Holders
  BY <1>2 DEF Job
<1>5. Stored'
  BY <1>2, <1>3, <1>4 DEF Stored, Account, Executor, snapshot_state
<1>6. Working' /\ w'.at = "release"
  BY <1>1, <1>2, <1>3, <1>4, Onward DEF CyclePoints, SymbolPoints, Becomes
<1> QED
  BY <1>5, <1>6, NothingPlanned DEF Shape

LEMMA ShapeReleaseStaleLocks ==
    ASSUME Shape, ReleaseStaleLocks
    PROVE  Shape'
<1>1. w.at = "release"
  BY DEF ReleaseStaleLocks, At
<1>2. Job(w) /\ Stored /\ Working /\ w.todo = << >>
  BY <1>1 DEF Shape, Working, CyclePoints, Job
<1>3. /\ UNCHANGED <<settings, now, book, fills>>
      /\ lock' = [s \in Symbols |-> IF w.locks[s] # "none" /\ w.ex.pos[s] = 0 THEN "none" ELSE lock[s]]
      /\ Becomes("trip", w.ex, w.locks, w.todo, w.sel, w.order, w.status)
  BY <1>2, ReleaseStaleLocksMoves
<1>4. Executor(w.ex) /\ w.locks \in [Symbols -> Holders] /\ w.sel \in Holders
  BY <1>2 DEF Job
<1>5. lock' \in [Symbols -> Holders]
  BY <1>2, <1>3 DEF Stored, Holders
<1>6. Stored'
  BY <1>2, <1>3, <1>5 DEF Stored, Account
<1>7. Working' /\ w'.at = "trip"
  BY <1>1, <1>2, <1>3, <1>4, Onward DEF CyclePoints, SymbolPoints, Becomes
<1> QED
  BY <1>6, <1>7, NothingPlanned DEF Shape

\* Without a cycle: the process starts, dies, waits, or ends its cycle.
LEMMA Idle ==
    ASSUME Stored, UNCHANGED <<settings, book, lock, fills>>, now' \in Nat, w'.at = "idle"
    PROVE  Shape'
<1>1. Stored'
  BY DEF Stored, Account
<1>2. Working'
  BY DEF Working, Ordering, CyclePoints, SymbolPoints
<1>3. WholePositions'
  BY DEF WholePositions, Traded, Filled
<1> QED
  BY <1>1, <1>2, <1>3 DEF Shape

\* The scan gives every symbol at most one turn.
LEMMA Universe ==
    ASSUME NEW bars \in [Symbols -> Bars], NEW ex, NEW todo \in universe(bars, ex)
    PROVE  todo \in Seq(Entries) /\ Distinct(todo)
<1> DEFINE symbols == Shortlist(bars, Order, now, settings) \cup Open(ex)
<1>1. symbols \subseteq Symbols
  BY DEF Shortlist, Open
<1>2. PICK o \in Injection(1 .. Cardinality(symbols), symbols) :
          todo = [i \in DOMAIN o |-> [symbol |-> o[i], bar |-> bars[o[i]]]]
  BY DEF universe
<1>3. Cardinality(symbols) \in Nat
  BY <1>1, FS_Subset, FS_CardinalityType, WorkerAssumption
<1> DEFINE n == Cardinality(symbols)
<1> HIDE DEF symbols
<1>4. /\ o \in [1 .. n -> symbols]
      /\ \A i, j \in 1 .. n : o[i] = o[j] => i = j
  BY <1>2 DEF Injection, IsInjective
<1> HIDE DEF n
<1>5. DOMAIN o = 1 .. n /\ n \in Nat
  BY <1>3, <1>4 DEF n
<1>6. \A i \in 1 .. n : todo[i] \in Entries /\ todo[i].symbol = o[i]
  BY <1>1, <1>2, <1>4, <1>5 DEF Entries
<1>7. todo = [i \in 1 .. n |-> todo[i]]
  BY <1>2, <1>5
<1>8. todo \in Seq(Entries) /\ DOMAIN todo = 1 .. n
  BY <1>5, <1>6, <1>7
<1>9. Distinct(todo)
  BY <1>4, <1>6, <1>8 DEF Distinct
<1> QED
  BY <1>8, <1>9

LEMMA RestoreMoves ==
    ASSUME Shape, RestoreAndScan
    PROVE  /\ w.at = "restore" /\ UNCHANGED <<settings, now, kill, book, fills, torn, late_buys>>
           /\ lock' = [s \in Symbols |-> IF book.pos[s] = 0 THEN "none" ELSE lock[s]]
           /\ \/ w' = EndOfCycle
              \/ /\ w'.at = "next" /\ Job(w') /\ w'.up /\ w'.key = w.key /\ w'.locks = lock'
                 /\ w'.ex.pos = book.pos /\ w'.ex.cash = book.cash /\ w'.ex.kill = kill
                 /\ w'.order = NoOrder
<1> DEFINE ex == restore_state(book, kill)
           locks == WithoutStale(lock, ex)
<1>1. w.at = "restore" /\ UNCHANGED <<settings, now, kill, book, fills, torn, late_buys>>
  BY DEF RestoreAndScan, At
<1>2. PICK bars \in [Symbols -> Bars] : \E todo \in universe(bars, ex) :
          /\ lock' = locks
          /\ w' = IF todo = << >> THEN EndOfCycle
                  ELSE [up |-> TRUE, at |-> "next", key |-> w.key, cycles |-> w.cycles,
                        ex |-> ex, locks |-> locks, seen |-> Len(fills), todo |-> todo,
                        sel |-> "none", order |-> NoOrder, status |-> "none"]
  BY DEF RestoreAndScan
<1>3. PICK todo \in universe(bars, ex) :
          /\ lock' = locks
          /\ w' = IF todo = << >> THEN EndOfCycle
                  ELSE [up |-> TRUE, at |-> "next", key |-> w.key, cycles |-> w.cycles,
                        ex |-> ex, locks |-> locks, seen |-> Len(fills), todo |-> todo,
                        sel |-> "none", order |-> NoOrder, status |-> "none"]
  BY <1>2
<1>4. todo \in Seq(Entries) /\ Distinct(todo)
  BY Universe
<1>5. Executor(ex) /\ ex.pos = book.pos /\ ex.cash = book.cash /\ ex.kill = kill
  BY DEF restore_state, Executor, Account, Shape, Stored
<1>6. /\ locks = [s \in Symbols |-> IF book.pos[s] = 0 THEN "none" ELSE lock[s]]
      /\ locks \in [Symbols -> Holders]
  <2>1. lock \in [Symbols -> Holders]
    BY DEF Shape, Stored
  <2>2. locks = [s \in Symbols |-> IF book.pos[s] = 0 THEN "none" ELSE lock[s]]
    BY <1>5 DEF WithoutStale
  <2> HIDE DEF locks
  <2> QED
    BY <2>1, <2>2 DEF Holders
<1> HIDE DEF ex, locks
<1>7. CASE todo # << >>
  <2>1. /\ DOMAIN w' = Locals /\ w'.up /\ w'.at = "next" /\ w'.key = w.key /\ w'.ex = ex
        /\ w'.locks = locks /\ w'.todo = todo /\ w'.sel = "none" /\ w'.order = NoOrder
    BY <1>3, <1>7 DEF Locals
  <2>2. Job(w')
    BY <1>4, <1>5, <1>6, <2>1 DEF Job, Holders, SymbolPoints
  <2> QED
    BY <1>1, <1>3, <1>5, <1>6, <2>1, <2>2
<1>8. CASE todo = << >>
  BY <1>1, <1>3, <1>6, <1>8
<1> QED
  BY <1>7, <1>8

LEMMA Ended == EndOfCycle.at = "idle" /\ EndOfCycle.up /\ Stopped.at = "idle" /\ Started.at = "idle"
  BY DEF EndOfCycle, Started, Stopped

LEMMA ShapeRestoreAndScan ==
    ASSUME Shape, RestoreAndScan
    PROVE  Shape'
<1>1. /\ w.at = "restore" /\ UNCHANGED <<settings, now, book, fills>>
      /\ lock' = [s \in Symbols |-> IF book.pos[s] = 0 THEN "none" ELSE lock[s]]
      /\ \/ w' = EndOfCycle
         \/ /\ w'.at = "next" /\ Job(w') /\ w'.up /\ w'.key = w.key /\ w'.locks = lock'
            /\ w'.order = NoOrder
  BY RestoreMoves
<1>2. Stored /\ w.key = now
  BY <1>1 DEF Shape, Working
<1>3. lock' \in [Symbols -> Holders]
  BY <1>1, <1>2 DEF Stored, Holders
<1>4. Stored'
  BY <1>1, <1>2, <1>3 DEF Stored, Account
<1>5. CASE w' = EndOfCycle
  <2>1. w'.at = "idle"
    BY <1>5, Ended
  <2>2. Working'
    BY <2>1 DEF Working, Ordering, CyclePoints, SymbolPoints
  <2> QED
    BY <1>4, <2>1, <2>2, NothingPlanned DEF Shape
<1>6. CASE w'.at = "next" /\ Job(w') /\ w'.up /\ w'.key = w.key
  <2>1. Job(w)'
    BY <1>6 DEF Job
  <2>2. Working'
    BY <1>1, <1>2, <1>6, <2>1 DEF Working, Ordering, CyclePoints, SymbolPoints
  <2> QED
    BY <1>4, <1>6, <2>2, NothingPlanned DEF Shape
<1> QED
  BY <1>1, <1>5, <1>6

LEMMA ShapeInit ==
    ASSUME Init
    PROVE  Shape
<1>1. Account(EmptyBook)
  BY WorkerAssumption DEF EmptyBook, Account
<1>2. Stored
  <2>1. settings \in Profiles /\ now = 0 /\ book = EmptyBook /\ lock = [s \in Symbols |-> "none"] /\ fills = << >>
    BY DEF Init
  <2> QED
    BY <1>1, <2>1 DEF Stored, Holders
<1>3. w.at = "idle"
  BY Ended DEF Init
<1> QED
  BY <1>2, <1>3 DEF Shape, Working, WholePositions, Ordering, Traded, Filled, CyclePoints, SymbolPoints

LEMMA ShapeUnmoved ==
    ASSUME Shape, UNCHANGED <<settings, now, book, lock, fills, w>>
    PROVE  Shape'
<1>1. Stored'
  BY StoredSame DEF Shape
<1>2. Working'
  BY DEF Shape, Working, Ordering, sym, Job
<1>3. WholePositions'
  BY DEF Shape, WholePositions, Traded, Filled, sym
<1> QED
  BY <1>1, <1>2, <1>3 DEF Shape

LEMMA ShapeStep ==
    ASSUME Shape, [Next]_vars
    PROVE  Shape'
<1>1. Stored /\ Working /\ now \in Nat
  BY DEF Shape, Stored
<1>2. ASSUME WorkerStart \/ Crash PROVE Shape'
  <2>1. w'.at = "idle" /\ now' \in Nat /\ UNCHANGED <<settings, book, lock, fills>>
    BY <1>1, <1>2, Ended DEF WorkerStart, Crash
  <2> QED
    BY <1>1, <2>1, Idle
<1>3. ASSUME Tick PROVE Shape'
  <2>1. w'.at = "idle" /\ now' \in Nat /\ UNCHANGED <<settings, book, lock, fills>>
    BY <1>1, <1>3 DEF Tick
  <2> QED
    BY <1>1, <2>1, Idle
<1>4. ASSUME RegisterCycle PROVE Shape'
  <2>1. w'.at = "restore" /\ w'.up /\ w'.key = now' /\ UNCHANGED <<settings, now, book, lock, fills>>
    BY <1>4 DEF RegisterCycle
  <2>2. Stored'
    BY <1>1, <2>1, StoredSame
  <2>3. Working'
    BY <2>1 DEF Working, Ordering, CyclePoints, SymbolPoints
  <2> QED
    BY <2>1, <2>2, <2>3, NothingPlanned DEF Shape
<1>5. ASSUME PersistKill PROVE Shape'
  <2>1. w'.at = "idle" /\ now' \in Nat /\ UNCHANGED <<settings, book, lock, fills>>
    BY <1>1, <1>5, Ended DEF PersistKill
  <2> QED
    BY <1>1, <2>1, Idle
<1>6. ASSUME Operator PROVE Shape'
  <2>1. UNCHANGED <<settings, now, book, lock, fills, w>>
    BY <1>6 DEF Operator, ApiStart, update_strategy, set_kill_switch
  <2> QED
    BY <2>1, ShapeUnmoved
<1>7. ASSUME UNCHANGED vars PROVE Shape'
  BY <1>7, ShapeUnmoved DEF vars
<1>8. ASSUME Worker PROVE Shape'
  BY <1>4, <1>5, <1>8, ShapeRestoreAndScan, ShapeStartRun, ShapeDecide, ShapeRecordOrder,
     ShapeUpdateOrderStatus, ShapeRecordFill, ShapeSyncLock, ShapeSymbolEnds, ShapeSaveBook,
     ShapeReleaseStaleLocks DEF Worker
<1> QED
  BY <1>2, <1>3, <1>6, <1>7, <1>8 DEF Next

-----------------------------------------------------------------------------
(* What a cycle has traded shows in the positions.                         *)

\* The turns that are left only become fewer.
LEMMA FewerTurns ==
    ASSUME Job(w), NEW at, NEW ex, NEW locks, NEW todo, NEW sel, NEW order, NEW status,
           Becomes(at, ex, locks, todo, sel, order, status),
           \/ todo = w.todo /\ (at \in {"next", "decide", "order"} => w.at \in {"next", "decide", "order"})
           \/ w.todo # << >> /\ todo = Tail(w.todo)
    PROVE  Remaining' \subseteq Remaining
<1>1. w'.at = at /\ w'.todo = todo
  BY DEF Becomes
<1>2. CASE todo = w.todo /\ (at \in {"next", "decide", "order"} => w.at \in {"next", "decide", "order"})
  BY <1>1, <1>2 DEF Remaining
<1>3. CASE w.todo # << >> /\ todo = Tail(w.todo)
  <2>1. \A i \in DOMAIN Tail(w.todo) : i + 1 \in DOMAIN w.todo \ {1} /\ Tail(w.todo)[i] = w.todo[i + 1]
    BY <1>3, AtHand
  <2> SUFFICES ASSUME NEW s \in Remaining' PROVE s \in Remaining
    OBVIOUS
  <2>2. PICK i \in DOMAIN Tail(w.todo) : s = Tail(w.todo)[i].symbol
    BY <1>1, <1>3 DEF Remaining
  <2> QED
    BY <2>1, <2>2 DEF Remaining
<1> QED
  BY <1>2, <1>3

\* A step that moves no holdings keeps what shows.
LEMMA StillShows ==
    ASSUME TradesShow, w.at \in CyclePoints, book' = book,
           w'.ex.pos = w.ex.pos, w'.ex.cash = w.ex.cash, Remaining' \subseteq Remaining,
           w'.at \in {"release", "trip"} => w.at \in {"release", "trip"},
           Traded' => Traded /\ sym' = sym
    PROVE  TradesShow'
  BY DEF TradesShow

LEMMA ShowRecordOrder ==
    ASSUME Shape, TradesShow, RecordOrder
    PROVE  TradesShow'
<1>1. w.at = "order"
  BY DEF RecordOrder, At
<1>2. Job(w) /\ w.todo # << >> /\ w.at \in CyclePoints
  BY <1>1 DEF Shape, Working, CyclePoints, SymbolPoints, Job
<1>3. book' = book
  BY <1>2, RecordOrderMoves
<1>4. CASE Becomes("finish", w.ex, w.locks, w.todo, w.sel, w.order, w.status)
  <2>1. Remaining' \subseteq Remaining
    BY <1>2, <1>4, FewerTurns
  <2>2. w'.at = "finish" /\ w'.ex = w.ex
    BY <1>4 DEF Becomes
  <2> QED
    BY <1>2, <1>3, <2>1, <2>2, StillShows DEF Traded, Filled
<1>5. CASE \E r : /\ r = submit_order(w.ex, w.order, settings)
                  /\ Becomes("status", r.ex, w.locks, w.todo, w.sel, w.order, r.status)
  <2>1. PICK r : /\ r = submit_order(w.ex, w.order, settings)
                 /\ Becomes("status", r.ex, w.locks, w.todo, w.sel, w.order, r.status)
    BY <1>5
  <2>2. /\ sym \in Symbols /\ r.status \in {"FILLED", "REJECTED"}
        /\ r.status = "REJECTED" => r.ex.pos = w.ex.pos /\ r.ex.cash = w.ex.cash
        /\ r.status = "FILLED" =>
              /\ r.ex.pos = [w.ex.pos EXCEPT ![sym] = @ + Signed(w.order)]
              /\ Signed(w.order) \in Int /\ Signed(w.order) # 0
    BY <1>1, <2>1, Submitted
  <2>3. Remaining' \subseteq Remaining
    BY <1>2, <2>1, FewerTurns
  <2>4. w'.at = "status" /\ w'.ex = r.ex /\ w'.status = r.status /\ w'.todo = w.todo /\ sym' = sym
    BY <2>1 DEF Becomes, sym
  <2>5. CASE r.status = "REJECTED"
    BY <1>2, <1>3, <2>2, <2>3, <2>4, <2>5, StillShows DEF Traded, Filled
  <2>6. CASE r.status = "FILLED"
    <3>1. sym \notin Remaining'
      <4>1. \A i \in DOMAIN w.todo \ {1} : w.todo[i].symbol # sym
        BY <1>2, AtHand
      <4> QED
        BY <2>4, <4>1 DEF Remaining
    <3>2. sym \in Remaining
      <4>1. w.todo \in Seq(Entries) /\ w.todo # << >>
        BY <1>2 DEF Job
      <4>2. 1 \in DOMAIN w.todo /\ sym = w.todo[1].symbol
        BY <4>1 DEF sym
      <4> QED
        BY <1>1, <4>2 DEF Remaining
    <3>3. w.ex.pos \in [Symbols -> Nat]
      BY <1>2 DEF Job, Executor, Account
    <3>4. w'.ex.pos[sym] # w.ex.pos[sym] /\ \A s \in Symbols \ {sym} : w'.ex.pos[s] = w.ex.pos[s]
      BY <2>2, <2>4, <2>6, <3>3
    <3>5. Remaining \subseteq Symbols
      <4>1. w.todo \in Seq(Entries)
        BY <1>2 DEF Job
      <4>2. \A i \in DOMAIN w.todo : w.todo[i] \in Entries
        BY <4>1
      <4>3. \A i \in DOMAIN w.todo : w.todo[i].symbol \in Symbols
        BY <4>2 DEF Entries
      <4> QED
        BY <4>3 DEF Remaining
    <3>6. \A s \in Remaining : w.ex.pos[s] = book.pos[s]
      BY <1>2 DEF TradesShow
    <3>7. w'.ex.pos[sym] # book'.pos[sym]
      BY <1>3, <3>2, <3>4, <3>6
    <3>8. \A s \in Remaining' : w'.ex.pos[s] = book'.pos[s]
      BY <1>3, <2>3, <3>1, <3>4, <3>5, <3>6
    <3> QED
      BY <2>2, <2>4, <3>1, <3>7, <3>8 DEF TradesShow
  <2> QED
    BY <2>2, <2>5, <2>6
<1> QED
  BY <1>2, <1>4, <1>5, RecordOrderMoves

\* The other steps of a cycle but the first and the last.
LEMMA ShowMoves ==
    ASSUME Shape, TradesShow,
           StartRun \/ Decide \/ UpdateOrderStatus \/ RecordFill \/ SyncLock \/ FinishRun
           \/ SymbolFails \/ ReleaseStaleLocks
    PROVE  TradesShow'
<1>1. w.at \in CyclePoints /\ Job(w)
  <2>1. w.at \in CyclePoints
    BY DEF StartRun, Decide, UpdateOrderStatus, RecordFill, SyncLock, FinishRun, SymbolFails,
           ReleaseStaleLocks, At, InSymbolCycle, CyclePoints, SymbolPoints
  <2> QED
    BY <2>1 DEF Shape, Working
<1>2. w.at \in SymbolPoints => w.todo # << >>
  BY <1>1 DEF Job
<1>3. ASSUME StartRun PROVE TradesShow'
  <2>1. w.at = "next" /\ w.todo # << >> /\ book' = book
    BY <1>1, <1>3, StartRunMoves
  <2>2. CASE Becomes("decide", w.ex, w.locks, w.todo, w.sel, w.order, w.status)
    <3>1. Remaining' \subseteq Remaining
      BY <1>1, <2>1, <2>2, FewerTurns
    <3> QED
      BY <1>1, <2>1, <2>2, <3>1, StillShows DEF Becomes, Traded, Filled
  <2>3. CASE Becomes("next", w.ex, w.locks, Tail(w.todo), w.sel, w.order, w.status)
    <3>1. Remaining' \subseteq Remaining
      BY <1>1, <2>1, <2>3, FewerTurns
    <3> QED
      BY <1>1, <2>1, <2>3, <3>1, StillShows DEF Becomes, Traded, Filled
  <2> QED
    BY <1>1, <1>3, <2>2, <2>3, StartRunMoves
<1>4. ASSUME Decide PROVE TradesShow'
  <2>1. w.at = "decide" /\ book' = book
    BY <1>4, DecideMoves
  <2>2. PICK sel, order, at :
            /\ sel \in Holders
            /\ Becomes(at, w.ex, w.locks, w.todo, sel, order, w.status)
            /\ \/ order = NoOrder /\ at \in {"lock", "finish"}
               \/ Sound(order, sel) /\ at = "order"
    BY <1>4, DecideMoves
  <2>3. Remaining' \subseteq Remaining
    BY <1>1, <2>1, <2>2, FewerTurns
  <2>4. ~Traded' /\ w'.at \notin {"release", "trip"} /\ w'.ex = w.ex
    BY <2>2 DEF Becomes, Traded, Filled, NoOrder
  <2> QED
    BY <1>1, <2>1, <2>3, <2>4, StillShows
<1>5. ASSUME UpdateOrderStatus PROVE TradesShow'
  <2>1. /\ w.at = "status" /\ book' = book
        /\ Becomes(IF w.status = "FILLED" THEN "fill" ELSE "finish", w.ex, w.locks, w.todo,
                   w.sel, w.order, w.status)
    BY <1>1, <1>5, UpdateOrderStatusMoves
  <2>2. Remaining' \subseteq Remaining
    BY <1>1, <2>1, FewerTurns
  <2>3. Traded' => Traded /\ sym' = sym
    BY <2>1 DEF Becomes, Traded, Filled, sym
  <2> QED
    BY <1>1, <2>1, <2>2, <2>3, StillShows DEF Becomes
<1>6. ASSUME RecordFill PROVE TradesShow'
  <2>1. /\ w.at = "fill" /\ book' = book
        /\ Becomes("lock", w.ex, w.locks, w.todo, w.sel, w.order, w.status)
    BY <1>1, <1>6, RecordFillMoves
  <2>2. Remaining' \subseteq Remaining
    BY <1>1, <2>1, FewerTurns
  <2>3. Traded /\ sym' = sym
    BY <2>1 DEF Becomes, Traded, Filled, sym
  <2> QED
    BY <1>1, <2>1, <2>2, <2>3, StillShows DEF Becomes
<1>7. ASSUME SyncLock PROVE TradesShow'
  <2> DEFINE locks == [w.locks EXCEPT ![sym] = synced_lock]
  <2>1. /\ w.at = "lock" /\ book' = book
        /\ Becomes("finish", w.ex, locks, w.todo, w.sel, w.order, w.status)
    BY <1>1, <1>7, SyncLockMoves
  <2> HIDE DEF locks
  <2>2. Remaining' \subseteq Remaining
    BY <1>1, <2>1, FewerTurns
  <2> QED
    BY <1>1, <2>1, <2>2, StillShows DEF Becomes, Traded, Filled
<1>8. ASSUME FinishRun \/ SymbolFails PROVE TradesShow'
  <2>1. /\ w.at \in SymbolPoints /\ book' = book
        /\ Becomes("next", w.ex, w.locks, Tail(w.todo), "none", NoOrder, "none")
    BY <1>1, <1>8, FinishRunMoves, SymbolFailsMoves DEF SymbolPoints
  <2>2. Remaining' \subseteq Remaining
    BY <1>1, <1>2, <2>1, FewerTurns
  <2> QED
    BY <1>1, <2>1, <2>2, StillShows DEF Becomes, Traded, Filled
<1>9. ASSUME ReleaseStaleLocks PROVE TradesShow'
  <2>1. /\ w.at = "release" /\ book' = book
        /\ Becomes("trip", w.ex, w.locks, w.todo, w.sel, w.order, w.status)
    BY <1>1, <1>9, ReleaseStaleLocksMoves
  <2>2. Remaining' \subseteq Remaining
    BY <1>1, <2>1, FewerTurns
  <2> QED
    BY <1>1, <2>1, <2>2, StillShows DEF Becomes, Traded, Filled
<1> QED
  BY <1>3, <1>4, <1>5, <1>6, <1>7, <1>8, <1>9

LEMMA ShowStep ==
    ASSUME Shape, TradesShow, [Next]_vars
    PROVE  TradesShow'
<1>1. ASSUME w'.at \in {"idle", "restore"} PROVE TradesShow'
  BY <1>1 DEF TradesShow, CyclePoints, SymbolPoints
<1>2. ASSUME WorkerStart \/ Crash \/ Tick \/ RegisterCycle \/ PersistKill PROVE TradesShow'
  <2>1. w'.at \in {"idle", "restore"}
    <3>1. CASE WorkerStart \/ Crash \/ PersistKill
      BY <3>1, Ended DEF WorkerStart, Crash, PersistKill
    <3>2. CASE Tick
      BY <3>2 DEF Tick
    <3>3. CASE RegisterCycle
      BY <3>3 DEF RegisterCycle
    <3> QED
      BY <1>2, <3>1, <3>2, <3>3
  <2> QED
    BY <1>1, <2>1
<1>3. ASSUME UNCHANGED <<book, w>> PROVE TradesShow'
  BY <1>3 DEF TradesShow, Remaining, Traded, Filled, sym
<1>4. ASSUME Operator \/ UNCHANGED vars PROVE TradesShow'
  BY <1>3, <1>4 DEF Operator, ApiStart, update_strategy, set_kill_switch, vars
<1>5. ASSUME RestoreAndScan PROVE TradesShow'
  <2>1. /\ book' = book
        /\ \/ w' = EndOfCycle
           \/ w'.at = "next" /\ w'.ex.pos = book.pos /\ w'.ex.cash = book.cash
    BY <1>5, RestoreMoves
  <2>2. CASE w' = EndOfCycle
    BY <1>1, <2>2, Ended
  <2>3. CASE w'.at = "next" /\ w'.ex.pos = book.pos /\ w'.ex.cash = book.cash
    BY <2>1, <2>3 DEF TradesShow, Traded, Filled
  <2> QED
    BY <2>1, <2>2, <2>3
<1>6. ASSUME SaveBook PROVE TradesShow'
  <2>1. w.at = "next"
    BY <1>6 DEF SaveBook, At
  <2>2. Job(w)
    BY <2>1 DEF Shape, Working, CyclePoints
  <2>3. /\ book' = snapshot_state(w.ex)
        /\ Becomes("release", w.ex, w.locks, w.todo, w.sel, w.order, w.status)
    BY <1>6, <2>2, SaveBookMoves
  <2>4. w'.at = "release" /\ w'.ex.pos = book'.pos /\ w'.ex.cash = book'.cash
    BY <2>3 DEF Becomes, snapshot_state
  <2> QED
    BY <2>4 DEF TradesShow, Traded, Filled
<1>7. ASSUME Worker PROVE TradesShow'
  BY <1>2, <1>5, <1>6, <1>7, ShowMoves, ShowRecordOrder DEF Worker
<1> QED
  BY <1>2, <1>4, <1>7 DEF Next

-----------------------------------------------------------------------------
(* The book is what the fill rows add up to.                               *)

LEMMA SignedInt ==
    ASSUME NEW f \in FillRows
    PROVE  Signed(f) \in Int /\ f.price \in Int /\ Signed(f) * f.price \in Int
<1>1. f.quantity \in Nat /\ f.price \in Int
  BY DEF FillRows
<1>2. Signed(f) \in Int
  BY <1>1 DEF Signed
<1> HIDE DEF Signed
<1>3. Signed(f) * f.price \in Int
  BY <1>1, <1>2, Products
<1> QED
  BY <1>1, <1>2, <1>3

\* A sum over the rows, from what one row is worth.
LEMMA RowsAddUp ==
    ASSUME NEW rows \in Seq(FillRows), NEW row \in FillRows, NEW worth \in [FillRows -> Int],
           NEW more, more = Append(rows, row)
    PROVE  /\ Total([i \in DOMAIN rows |-> worth[rows[i]]]) \in Int
           /\ Total([i \in DOMAIN more |-> worth[more[i]]])
                = worth[row] + Total([i \in DOMAIN rows |-> worth[rows[i]]])
<1> DEFINE v == [i \in DOMAIN rows |-> worth[rows[i]]]
           u == [i \in DOMAIN more |-> worth[more[i]]]
           n == Len(rows)
<1>1. n \in Nat /\ DOMAIN rows = 1 .. n /\ DOMAIN more = 1 .. (n + 1)
  OBVIOUS
<1>2. \A i \in 1 .. n : rows[i] \in FillRows /\ more[i] = rows[i]
  OBVIOUS
<1>3. more[n + 1] = row
  OBVIOUS
<1>4. IsFiniteSet(1 .. n)
  BY <1>1, FS_Interval
<1>5. DOMAIN v = 1 .. n /\ DOMAIN u = 1 .. (n + 1)
  BY <1>1
<1>6. \A i \in 1 .. n : v[i] = worth[rows[i]] /\ v[i] \in Int /\ u[i] = v[i]
  BY <1>1, <1>2
<1>7. u[n + 1] = worth[row] /\ u[n + 1] \in Int
  BY <1>1, <1>3
<1> HIDE DEF v, u, n
<1>8. Total(v) \in Int
  BY <1>4, <1>5, <1>6, TotalInt
<1>9. Total(u) = u[n + 1] + Total(v)
  <2>1. n + 1 \notin DOMAIN v /\ DOMAIN u = DOMAIN v \cup {n + 1} /\ IsFiniteSet(DOMAIN v)
    BY <1>1, <1>4, <1>5
  <2>2. (\A i \in DOMAIN v : u[i] = v[i]) /\ (\A i \in DOMAIN u : u[i] \in Int)
    BY <1>5, <1>6, <1>7, <2>1
  <2> QED
    BY <2>1, <2>2, TotalGrows
<1> QED
  BY <1>7, <1>8, <1>9 DEF v, u

LEMMA SumsOfFills ==
    ASSUME fills \in Seq(FillRows)
    PROVE  Spent \in Int /\ \A s : Net(s) \in Int
<1>1. IsFiniteSet(DOMAIN fills) /\ \A i \in DOMAIN fills : fills[i] \in FillRows
  BY FS_Interval
<1>2. Spent \in Int
  <2> DEFINE v == [i \in DOMAIN fills |-> Signed(fills[i]) * fills[i].price]
  <2>1. \A i \in DOMAIN fills : v[i] \in Int
    BY <1>1, SignedInt
  <2>2. DOMAIN v = DOMAIN fills
    OBVIOUS
  <2>3. Spent = Total(v)
    BY DEF Spent
  <2> HIDE DEF v
  <2> QED
    BY <1>1, <2>1, <2>2, <2>3, TotalInt
<1>3. ASSUME NEW s PROVE Net(s) \in Int
  <2> DEFINE v == [i \in DOMAIN fills |-> IF fills[i].symbol = s THEN Signed(fills[i]) ELSE 0]
  <2>1. \A i \in DOMAIN fills : v[i] \in Int
    BY <1>1, SignedInt
  <2>2. DOMAIN v = DOMAIN fills
    OBVIOUS
  <2>3. Net(s) = Total(v)
    BY DEF Net
  <2> HIDE DEF v
  <2> QED
    BY <1>1, <2>1, <2>2, <2>3, TotalInt
<1> QED
  BY <1>2, <1>3

LEMMA SumsGrow ==
    ASSUME fills \in Seq(FillRows), NEW row \in FillRows, fills' = Append(fills, row)
    PROVE  /\ Spent' = Signed(row) * row.price + Spent
           /\ \A s : Net(s)' = (IF row.symbol = s THEN Signed(row) ELSE 0) + Net(s)
<1>0. /\ \A i \in DOMAIN fills : fills[i] \in FillRows
      /\ \A i \in DOMAIN fills' : fills'[i] \in FillRows
  OBVIOUS
<1>1. Spent' = Signed(row) * row.price + Spent
  <2> DEFINE worth == [f \in FillRows |-> Signed(f) * f.price]
  <2>1. worth \in [FillRows -> Int]
    BY SignedInt
  <2>2. /\ Spent' = Total([i \in DOMAIN fills' |-> worth[fills'[i]]])
        /\ Spent = Total([i \in DOMAIN fills |-> worth[fills[i]]])
    BY <1>0 DEF Spent, Signed
  <2> HIDE DEF worth
  <2>3. ASSUME NEW more, more = Append(fills, row)
        PROVE  Total([i \in DOMAIN more |-> worth[more[i]]])
                 = worth[row] + Total([i \in DOMAIN fills |-> worth[fills[i]]])
    BY <2>1, <2>3, RowsAddUp, ZenonT(40)
  <2>4. Total([i \in DOMAIN fills' |-> worth[fills'[i]]])
           = worth[row] + Total([i \in DOMAIN fills |-> worth[fills[i]]])
    BY <2>3
  <2> QED
    BY <2>2, <2>4 DEF worth
<1>2. ASSUME NEW s PROVE Net(s)' = (IF row.symbol = s THEN Signed(row) ELSE 0) + Net(s)
  <2> DEFINE worth == [f \in FillRows |-> IF f.symbol = s THEN Signed(f) ELSE 0]
  <2>1. worth \in [FillRows -> Int]
    BY SignedInt
  <2>2. /\ Net(s)' = Total([i \in DOMAIN fills' |-> worth[fills'[i]]])
        /\ Net(s) = Total([i \in DOMAIN fills |-> worth[fills[i]]])
    BY <1>0 DEF Net, Signed
  <2> HIDE DEF worth
  <2>3. ASSUME NEW more, more = Append(fills, row)
        PROVE  Total([i \in DOMAIN more |-> worth[more[i]]])
                 = worth[row] + Total([i \in DOMAIN fills |-> worth[fills[i]]])
    BY <2>1, <2>3, RowsAddUp, ZenonT(40)
  <2>4. Total([i \in DOMAIN fills' |-> worth[fills'[i]]])
           = worth[row] + Total([i \in DOMAIN fills |-> worth[fills[i]]])
    BY <2>3
  <2> QED
    BY <2>2, <2>4 DEF worth
<1> QED
  BY <1>1, <1>2

\* Nothing that has been filled waits for its row, before and after.
LEMMA StillMatches ==
    ASSUME ExecutorMatches, ~Filled, ~Filled', fills' = fills,
           w'.ex.pos = w.ex.pos, w'.ex.cash = w.ex.cash
    PROVE  ExecutorMatches'
<1>1. Spent' = Spent /\ \A s : Net(s)' = Net(s)
  BY DEF Spent, Net
<1> QED
  BY <1>1 DEF ExecutorMatches

\* The executor's holdings are the book's: then nothing is waiting, and the book matches.
LEMMA BookFollows ==
    ASSUME TradesShow, ExecutorMatches, w.at \in CyclePoints, w.ex.pos = book.pos,
           fills \in Seq(FillRows), Account(book)
    PROVE  BookMatches
<1>1. w.ex.cash = book.cash
  BY DEF TradesShow
<1>2. ~Filled
  BY DEF TradesShow, Traded
<1>3. Spent \in Int /\ \A s : Net(s) \in Int
  BY SumsOfFills
<1> QED
  BY <1>1, <1>2, <1>3, WorkerAssumption DEF ExecutorMatches, BookMatches

LEMMA BooksRecordOrder ==
    ASSUME Shape, BooksInv, RecordOrder
    PROVE  BooksInv'
<1>1. w.at = "order"
  BY DEF RecordOrder, At
<1>2. Job(w) /\ w.at \in CyclePoints /\ fills \in Seq(FillRows)
  BY <1>1 DEF Shape, Stored, Working, CyclePoints, SymbolPoints
<1>3. UNCHANGED <<book, fills, torn>>
  BY <1>2, RecordOrderMoves
<1>4. ~Filled
  BY <1>1 DEF Filled
<1> SUFFICES ASSUME ~torn, w'.at \in CyclePoints, w'.at \notin {"idle", "restore"}
             PROVE  ExecutorMatches'
  <2>1. w'.at \in {"finish", "status"}
    BY <1>2, RecordOrderMoves DEF Becomes
  <2> QED
    BY <1>3, <2>1 DEF BooksInv, CyclePoints, SymbolPoints
<1>5. ExecutorMatches
  BY <1>2 DEF BooksInv
<1>6. CASE Becomes("finish", w.ex, w.locks, w.todo, w.sel, w.order, w.status)
  BY <1>3, <1>4, <1>5, <1>6, StillMatches DEF Becomes, Filled
<1>7. CASE \E r : /\ r = submit_order(w.ex, w.order, settings)
                  /\ Becomes("status", r.ex, w.locks, w.todo, w.sel, w.order, r.status)
  <2>1. PICK r : /\ r = submit_order(w.ex, w.order, settings)
                 /\ Becomes("status", r.ex, w.locks, w.todo, w.sel, w.order, r.status)
    BY <1>7
  <2> DEFINE amount == Signed(w.order) * w.order.price
  <2>2. /\ sym \in Symbols /\ r.status \in {"FILLED", "REJECTED"}
        /\ r.status = "REJECTED" => r.ex.pos = w.ex.pos /\ r.ex.cash = w.ex.cash
        /\ r.status = "FILLED" =>
              /\ r.ex.pos = [w.ex.pos EXCEPT ![sym] = @ + Signed(w.order)]
              /\ r.ex.cash = w.ex.cash - amount
              /\ Signed(w.order) \in Int
    BY <1>1, <2>1, Submitted
  <2>3. /\ w'.at = "status" /\ w'.ex = r.ex /\ w'.status = r.status /\ w'.order = w.order
        /\ sym' = sym
    BY <2>1 DEF Becomes, sym
  <2>4. CASE r.status = "REJECTED"
    BY <1>3, <1>4, <1>5, <2>2, <2>3, <2>4, StillMatches DEF Filled
  <2>5. CASE r.status = "FILLED"
    <3>1. Spent' = Spent /\ \A s : Net(s)' = Net(s)
      BY <1>3 DEF Spent, Net
    <3>2. Spent \in Int /\ \A s : Net(s) \in Int
      BY <1>2, SumsOfFills
    <3>3. Filled' /\ Signed(w.order)' = Signed(w.order) /\ (Signed(w.order) * w.order.price)' = amount
      BY <2>3, <2>5 DEF Filled, Signed
    <3>4. w.ex.cash = InitialCapital - Spent /\ \A s \in Symbols : w.ex.pos[s] = Net(s)
      <4>1. w.ex.cash = InitialCapital - Spent - 0 /\ \A s \in Symbols : w.ex.pos[s] = Net(s) + 0
        BY <1>4, <1>5 DEF ExecutorMatches
      <4> QED
        BY <4>1, <3>2, WorkerAssumption
    <3>5. w'.ex.cash = InitialCapital - Spent' - amount
      BY <2>2, <2>3, <2>5, <3>1, <3>4
    <3>6. \A s \in Symbols : w'.ex.pos[s] = Net(s)' + (IF s = sym' THEN Signed(w.order) ELSE 0)
      <4>1. w.ex.pos \in [Symbols -> Nat]
        BY <1>2 DEF Job, Executor, Account
      <4> HIDE DEF amount
      <4>2. ASSUME NEW s \in Symbols
            PROVE  r.ex.pos[s] = IF s = sym THEN w.ex.pos[s] + Signed(w.order) ELSE w.ex.pos[s]
        BY <2>2, <2>5, <4>1
      <4> QED
        BY <2>2, <2>3, <3>1, <3>2, <3>4, <4>2
    <3> HIDE DEF amount
    <3> QED
      BY <3>3, <3>5, <3>6 DEF ExecutorMatches
  <2> QED
    BY <2>2, <2>4, <2>5
<1> QED
  BY <1>2, <1>6, <1>7, RecordOrderMoves

LEMMA BooksRecordFill ==
    ASSUME Shape, BooksInv, RecordFill
    PROVE  BooksInv'
<1>1. w.at = "fill"
  BY DEF RecordFill, At
<1>2. Job(w) /\ w.at \in CyclePoints
  BY <1>1 DEF Shape, Working, CyclePoints, SymbolPoints
<1>3. /\ UNCHANGED torn /\ fills' = Append(fills, Row)
      /\ Becomes("lock", w.ex, w.locks, w.todo, w.sel, w.order, w.status)
  BY <1>2, RecordFillMoves DEF Row
<1>4. /\ Row \in FillRows /\ fills \in Seq(FillRows)
      /\ Row.symbol = sym /\ Row.side = w.order.side /\ Row.quantity = w.order.quantity
      /\ Row.price = w.order.price
  BY <1>1, RowIs
<1>5. w'.at = "lock" /\ w'.ex = w.ex /\ ~Filled' /\ Filled
  BY <1>1, <1>3 DEF Becomes, Filled
<1> SUFFICES ASSUME ~torn PROVE ExecutorMatches'
  BY <1>3, <1>5 DEF BooksInv
<1>6. Signed(Row) = Signed(w.order) /\ Signed(Row) \in Int /\ Signed(Row) * Row.price \in Int
  BY <1>4, SignedInt DEF Signed
<1> DEFINE amount == Signed(w.order) * w.order.price
<1>7. Spent' = amount + Spent /\ amount \in Int
  BY <1>3, <1>4, <1>6, SumsGrow
<1>8. \A s : Net(s)' = (IF s = sym THEN Signed(w.order) ELSE 0) + Net(s)
  BY <1>3, <1>4, <1>6, SumsGrow
<1>9. Spent \in Int /\ \A s : Net(s) \in Int
  BY <1>4, SumsOfFills
<1>10. /\ w.ex.cash = InitialCapital - Spent - amount
       /\ \A s \in Symbols : w.ex.pos[s] = Net(s) + (IF s = sym THEN Signed(w.order) ELSE 0)
  BY <1>2, <1>5 DEF BooksInv, ExecutorMatches
<1> HIDE DEF amount
<1>11. w'.ex.cash = InitialCapital - Spent' - 0
  BY <1>5, <1>7, <1>9, <1>10, WorkerAssumption
<1>12. \A s \in Symbols : w'.ex.pos[s] = Net(s)' + 0
  <2>1. Signed(w.order) \in Int
    BY <1>6
  <2> QED
    BY <1>5, <1>8, <1>9, <1>10, <2>1
<1> QED
  BY <1>5, <1>11, <1>12 DEF ExecutorMatches

LEMMA BooksMoves ==
    ASSUME Shape, TradesShow, BooksInv,
           StartRun \/ Decide \/ UpdateOrderStatus \/ SyncLock \/ FinishRun \/ SymbolFails
           \/ SaveBook \/ ReleaseStaleLocks
    PROVE  BooksInv'
<1>1. w.at \in CyclePoints /\ Job(w)
  <2>1. w.at \in CyclePoints
    BY DEF StartRun, Decide, UpdateOrderStatus, SyncLock, FinishRun, SymbolFails, SaveBook,
           ReleaseStaleLocks, At, InSymbolCycle, CyclePoints, SymbolPoints
  <2> QED
    BY <2>1 DEF Shape, Working
<1>2. ~torn => ExecutorMatches
  BY <1>1 DEF BooksInv
<1>3. ASSUME ~torn' => ~torn /\ ~Filled, ~Filled', fills' = fills, w'.ex.pos = w.ex.pos,
             w'.ex.cash = w.ex.cash, w'.at \notin {"idle", "restore"}
      PROVE  BooksInv'
  BY <1>2, <1>3, StillMatches DEF BooksInv
<1>4. ASSUME StartRun PROVE BooksInv'
  <2>1. /\ w.at = "next" /\ UNCHANGED <<fills, torn>> /\ w'.ex = w.ex /\ w'.at \in {"next", "decide"}
    BY <1>1, <1>4, StartRunMoves DEF Becomes
  <2> QED
    BY <1>3, <2>1 DEF Filled
<1>5. ASSUME Decide PROVE BooksInv'
  <2>1. /\ w.at = "decide" /\ UNCHANGED <<fills, torn>> /\ w'.ex = w.ex
        /\ w'.at \in {"lock", "finish", "order"}
    BY <1>5, DecideMoves DEF Becomes
  <2> QED
    BY <1>3, <2>1 DEF Filled
<1>6. ASSUME UpdateOrderStatus PROVE BooksInv'
  <2>1. /\ w.at = "status" /\ UNCHANGED <<fills, torn>>
        /\ Becomes(IF w.status = "FILLED" THEN "fill" ELSE "finish", w.ex, w.locks, w.todo,
                   w.sel, w.order, w.status)
    BY <1>1, <1>6, UpdateOrderStatusMoves
  <2>2. CASE w.status = "FILLED"
    <3>1. /\ w'.at = "fill" /\ w'.ex = w.ex /\ w'.order = w.order /\ sym' = sym
          /\ Filled /\ Filled'
      BY <2>1, <2>2 DEF Becomes, Filled, sym
    <3>2. Spent' = Spent /\ \A s : Net(s)' = Net(s)
      BY <2>1 DEF Spent, Net
    <3>3. Signed(w.order)' = Signed(w.order) /\ (Signed(w.order) * w.order.price)' = Signed(w.order) * w.order.price
      BY <3>1 DEF Signed
    <3>4. ExecutorMatches => ExecutorMatches'
      BY <3>1, <3>2, <3>3 DEF ExecutorMatches
    <3> QED
      BY <1>2, <2>1, <3>1, <3>4 DEF BooksInv
  <2>3. CASE w.status # "FILLED"
    <3>1. w'.at = "finish" /\ w'.ex = w.ex
      BY <2>1, <2>3 DEF Becomes
    <3> QED
      BY <1>3, <2>1, <2>3, <3>1 DEF Filled
  <2> QED
    BY <2>2, <2>3
<1>7. ASSUME SyncLock PROVE BooksInv'
  <2>1. w.at = "lock" /\ UNCHANGED <<fills, torn>> /\ w'.ex = w.ex /\ w'.at = "finish"
    BY <1>1, <1>7, SyncLockMoves DEF Becomes
  <2> QED
    BY <1>3, <2>1 DEF Filled
<1>8. ASSUME FinishRun PROVE BooksInv'
  <2>1. w.at = "finish" /\ UNCHANGED <<fills, torn>> /\ w'.ex = w.ex /\ w'.at = "next"
    BY <1>1, <1>8, FinishRunMoves DEF Becomes
  <2> QED
    BY <1>3, <2>1 DEF Filled
<1>9. ASSUME SymbolFails PROVE BooksInv'
  <2>1. /\ fills' = fills /\ w'.ex = w.ex /\ w'.at = "next"
        /\ torn' = \/ torn
                   \/ w.at = "status" /\ w.status = "FILLED"
                   \/ w.at \in {"fill", "lock", "finish"}
    BY <1>1, <1>9, SymbolFailsMoves DEF Becomes
  <2>2. ~torn' => ~torn /\ ~Filled
    BY <2>1 DEF Filled
  <2> QED
    BY <1>3, <2>1, <2>2 DEF Filled
<1>10. ASSUME SaveBook PROVE BooksInv'
  <2>1. w.at = "next" /\ UNCHANGED <<fills, torn>> /\ w'.ex = w.ex /\ w'.at = "release"
    BY <1>1, <1>10, SaveBookMoves DEF Becomes
  <2> QED
    BY <1>3, <2>1 DEF Filled
<1>11. ASSUME ReleaseStaleLocks PROVE BooksInv'
  <2>1. w.at = "release" /\ UNCHANGED <<fills, torn>> /\ w'.ex = w.ex /\ w'.at = "trip"
    BY <1>1, <1>11, ReleaseStaleLocksMoves DEF Becomes
  <2> QED
    BY <1>3, <2>1 DEF Filled
<1> QED
  BY <1>4, <1>5, <1>6, <1>7, <1>8, <1>9, <1>10, <1>11

LEMMA BooksStep ==
    ASSUME Shape, TradesShow, BooksInv, [Next]_vars
    PROVE  BooksInv'
<1>1. fills \in Seq(FillRows) /\ Account(book)
  BY DEF Shape, Stored
<1>2. ASSUME BookMatches, UNCHANGED <<book, fills>>, w'.at \in {"idle", "restore"} PROVE BooksInv'
  <2>1. Spent' = Spent /\ \A s : Net(s)' = Net(s)
    BY <1>2 DEF Spent, Net
  <2>2. BookMatches'
    BY <1>2, <2>1 DEF BookMatches
  <2> QED
    BY <1>2, <2>2 DEF BooksInv, CyclePoints, SymbolPoints
<1>3. ASSUME WorkerStart \/ Tick \/ RegisterCycle PROVE BooksInv'
  <2>1. w.at = "idle" /\ UNCHANGED <<book, fills, torn>>
    BY <1>3 DEF WorkerStart, Tick, RegisterCycle, At, Shape, Working
  <2>2. w'.at \in {"idle", "restore"}
    <3>1. CASE WorkerStart
      BY <3>1, Ended DEF WorkerStart
    <3>2. CASE Tick
      BY <2>1, <3>2 DEF Tick
    <3>3. CASE RegisterCycle
      BY <3>3 DEF RegisterCycle
    <3> QED
      BY <1>3, <3>1, <3>2, <3>3
  <2>3. CASE torn
    BY <2>1, <2>3 DEF BooksInv
  <2>4. CASE ~torn
    BY <1>2, <2>1, <2>2, <2>4 DEF BooksInv
  <2> QED
    BY <2>3, <2>4
<1>4. ASSUME Crash PROVE BooksInv'
  <2>1. /\ w'.at = "idle" /\ UNCHANGED <<book, fills>>
        /\ torn' = (torn \/ (w.at \notin {"idle", "restore"} /\ w.ex.pos # book.pos))
    BY <1>4, Ended DEF Crash
  <2>2. CASE torn'
    BY <2>2 DEF BooksInv
  <2>3. CASE ~torn'
    <3>1. BookMatches
      <4>1. w.at \in {"idle", "restore"} \/ w.at \in CyclePoints
        BY DEF Shape, Working
      <4>2. CASE w.at \in {"idle", "restore"}
        BY <2>1, <2>3, <4>2 DEF BooksInv
      <4>3. CASE w.at \in CyclePoints
        <5>1. w.ex.pos = book.pos /\ ExecutorMatches
          BY <2>1, <2>3, <4>3 DEF BooksInv, CyclePoints, SymbolPoints
        <5> QED
          BY <1>1, <4>3, <5>1, BookFollows
      <4> QED
        BY <4>1, <4>2, <4>3
    <3> QED
      BY <1>2, <2>1, <3>1
  <2> QED
    BY <2>2, <2>3
<1>5. ASSUME PersistKill PROVE BooksInv'
  <2>1. w.at = "trip" /\ w'.at = "idle" /\ UNCHANGED <<book, fills, torn>> /\ w.at \in CyclePoints
    BY <1>5, Ended DEF PersistKill, At, CyclePoints
  <2>2. CASE torn
    BY <2>1, <2>2 DEF BooksInv
  <2>3. CASE ~torn
    <3>1. ExecutorMatches /\ w.ex.pos = book.pos
      BY <2>1, <2>3 DEF BooksInv, TradesShow
    <3> QED
      BY <1>1, <1>2, <2>1, <3>1, BookFollows
  <2> QED
    BY <2>2, <2>3
<1>6. ASSUME RestoreAndScan PROVE BooksInv'
  <2>1. /\ w.at = "restore" /\ UNCHANGED <<book, fills, torn>>
        /\ \/ w' = EndOfCycle
           \/ w'.at = "next" /\ w'.ex.pos = book.pos /\ w'.ex.cash = book.cash
    BY <1>6, RestoreMoves
  <2>2. CASE torn
    BY <2>1, <2>2 DEF BooksInv
  <2>3. CASE ~torn
    <3>1. BookMatches
      BY <2>1, <2>3 DEF BooksInv
    <3>2. CASE w' = EndOfCycle
      BY <1>2, <2>1, <3>1, <3>2, Ended
    <3>3. CASE w'.at = "next" /\ w'.ex.pos = book.pos /\ w'.ex.cash = book.cash
      <4>1. Spent' = Spent /\ \A s : Net(s)' = Net(s)
        BY <2>1 DEF Spent, Net
      <4>2. ~Filled'
        BY <3>3 DEF Filled
      <4>3. Spent \in Int /\ \A s : Net(s) \in Int
        BY <1>1, SumsOfFills
      <4>4. ExecutorMatches'
        BY <3>1, <3>3, <4>1, <4>2, <4>3, WorkerAssumption DEF ExecutorMatches, BookMatches
      <4> QED
        BY <3>3, <4>4 DEF BooksInv
    <3> QED
      BY <2>1, <3>2, <3>3
  <2> QED
    BY <2>2, <2>3
<1>7. ASSUME Operator \/ UNCHANGED vars PROVE BooksInv'
  <2>1. UNCHANGED <<book, fills, torn, w>>
    BY <1>7 DEF Operator, ApiStart, update_strategy, set_kill_switch, vars
  <2> QED
    BY <2>1 DEF BooksInv, BookMatches, ExecutorMatches, Spent, Net, Filled, sym, Signed
<1>8. ASSUME Worker PROVE BooksInv'
  BY <1>3, <1>5, <1>6, <1>8, BooksMoves, BooksRecordOrder, BooksRecordFill DEF Worker
<1> QED
  BY <1>3, <1>4, <1>5, <1>7, <1>8 DEF Next

-----------------------------------------------------------------------------
(* The locks follow the positions.                                         *)

Single == ~torn /\ ~settings.allow_multi_strategy

\* Every symbol but the one that is traded has the lock its position wants.
LocksFit == \A s \in Symbols : (Traded /\ s = sym) \/ LockFits(s, w.ex.pos[s])

LEMMA BuyersSame ==
    ASSUME fills' = fills
    PROVE  \A s : BuysOf(s)' = BuysOf(s) /\ LastBuyer(s)' = LastBuyer(s)
<1>1. ASSUME NEW s PROVE BuysOf(s)' = BuysOf(s) /\ LastBuyer(s)' = LastBuyer(s)
  BY DEF BuysOf, LastBuyer
<1> QED
  BY <1>1

\* The last of some rows exists.
LEMMA LastRow ==
    ASSUME NEW n \in Nat, NEW S \in SUBSET (1 .. n), S # {}
    PROVE  Max(S) \in S
<1> DEFINE D == {n - i : i \in S}
<1>1. D \in SUBSET Nat /\ D # {}
  OBVIOUS
<1>2. PICK d \in D : \A e \in D : d <= e
  <2> HIDE DEF D
  <2> QED
    BY <1>1, Least
<1>3. PICK m \in S : d = n - m
  BY <1>2
<1>4. ASSUME NEW i \in S PROVE m >= i
  <2>1. n - i \in D
    OBVIOUS
  <2>2. d <= n - i
    <3> HIDE DEF D
    <3> QED
      BY <1>2, <2>1
  <2> QED
    BY <1>3, <2>2
<1> QED
  BY <1>3, <1>4 DEF Max

LEMMA LastIs ==
    ASSUME NEW n \in Nat, NEW S \in SUBSET (1 .. n), n \in S
    PROVE  Max(S) = n
<1>1. \A y \in S : n >= y
  OBVIOUS
<1>2. Max(S) \in S /\ \A y \in S : Max(S) >= y
  BY <1>1 DEF Max
<1> DEFINE m == Max(S)
<1>3. m \in 1 .. n /\ m >= n
  BY <1>2
<1> HIDE DEF m
<1>4. m = n
  BY <1>3
<1> QED
  BY <1>4 DEF m

LEMMA BuyersGrow ==
    ASSUME fills \in Seq(FillRows), NEW row \in FillRows, fills' = Append(fills, row)
    PROVE  /\ \A s : BuysOf(s) # {} /\ ~(row.symbol = s /\ row.side = "BUY") =>
                 BuysOf(s)' # {} /\ LastBuyer(s)' = LastBuyer(s)
           /\ \A s : row.symbol = s /\ row.side = "BUY" =>
                 BuysOf(s)' # {} /\ LastBuyer(s)' = row.strategy
<1> DEFINE n == Len(fills)
<1>1. n \in Nat /\ DOMAIN fills = 1 .. n /\ DOMAIN fills' = 1 .. (n + 1)
  OBVIOUS
<1>2. (\A i \in 1 .. n : fills'[i] = fills[i]) /\ fills'[n + 1] = row
  OBVIOUS
<1> HIDE DEF n
<1>3. ASSUME NEW s, BuysOf(s) # {}, ~(row.symbol = s /\ row.side = "BUY")
      PROVE  BuysOf(s)' # {} /\ LastBuyer(s)' = LastBuyer(s)
  <2>1. BuysOf(s)' = BuysOf(s) /\ BuysOf(s) \subseteq 1 .. n
    BY <1>1, <1>2, <1>3 DEF BuysOf
  <2>2. Max(BuysOf(s)) \in 1 .. n
    BY <1>1, <1>3, <2>1, LastRow
  <2>3. LastBuyer(s) = fills[Max(BuysOf(s))].strategy /\ LastBuyer(s)' = fills'[Max(BuysOf(s)')].strategy
    BY DEF LastBuyer, BuysOf
  <2> QED
    BY <1>2, <1>3, <2>1, <2>2, <2>3
<1>4. ASSUME NEW s, row.symbol = s, row.side = "BUY"
      PROVE  BuysOf(s)' # {} /\ LastBuyer(s)' = row.strategy
  <2>1. n + 1 \in BuysOf(s)' /\ BuysOf(s)' \subseteq 1 .. (n + 1)
    BY <1>1, <1>2, <1>4 DEF BuysOf
  <2>2. LastBuyer(s)' = fills'[Max(BuysOf(s)')].strategy
    BY DEF BuysOf, LastBuyer
  <2>3. \A S \in SUBSET (1 .. (n + 1)) : n + 1 \in S => Max(S) = n + 1
    BY <1>1, LastIs
  <2>4. Max(BuysOf(s)') = n + 1
    BY <2>1, <2>3
  <2> QED
    BY <1>2, <2>1, <2>2, <2>4
<1> QED
  BY <1>3, <1>4

\* A step that trades nothing and changes no lock keeps the locks as they are.
LEMMA StillFits ==
    ASSUME w.locks = lock, LocksFit, fills' = fills, lock' = lock, w'.locks = w.locks,
           w'.ex.pos = w.ex.pos, Traded => Traded' /\ sym' = sym
    PROVE  (w.locks = lock /\ LocksFit)'
<1>1. \A s : BuysOf(s)' = BuysOf(s) /\ LastBuyer(s)' = LastBuyer(s)
  BY BuyersSame
<1> QED
  BY <1>1 DEF LocksFit, LockFits

\* In a cycle, between the trade's row and its lock there is nothing more to know.
LEMMA LocksInCycle ==
    ASSUME w'.at \in CyclePoints, w'.at # "lock" \/ w'.order = NoOrder,
           Single' => (w.locks = lock /\ LocksFit)'
    PROVE  LocksInv'
  BY DEF LocksInv, LocksFit, Single, CyclePoints, SymbolPoints

LEMMA LocksRecordOrder ==
    ASSUME Shape, LocksInv, RecordOrder
    PROVE  LocksInv'
<1>1. w.at = "order"
  BY DEF RecordOrder, At
<1>2. Job(w) /\ w.at \in CyclePoints
  BY <1>1 DEF Shape, Working, CyclePoints, SymbolPoints
<1>3. UNCHANGED <<settings, lock, fills, torn>>
  BY <1>2, RecordOrderMoves
<1>4. ~Traded
  BY <1>1 DEF Traded, Filled
<1>5. Single' => w.locks = lock /\ LocksFit
  BY <1>2, <1>3 DEF Single, LocksInv, LocksFit
<1>6. CASE Becomes("finish", w.ex, w.locks, w.todo, w.sel, w.order, w.status)
  <2>1. w'.at = "finish" /\ w'.locks = w.locks /\ w'.ex = w.ex
    BY <1>6 DEF Becomes
  <2>2. Single' => (w.locks = lock /\ LocksFit)'
    BY <1>3, <1>4, <1>5, <2>1, StillFits
  <2> QED
    BY <2>1, <2>2, LocksInCycle DEF CyclePoints, SymbolPoints
<1>7. CASE \E r : /\ r = submit_order(w.ex, w.order, settings)
                  /\ Becomes("status", r.ex, w.locks, w.todo, w.sel, w.order, r.status)
  <2>1. PICK r : /\ r = submit_order(w.ex, w.order, settings)
                 /\ Becomes("status", r.ex, w.locks, w.todo, w.sel, w.order, r.status)
    BY <1>7
  <2>2. /\ sym \in Symbols /\ r.status \in {"FILLED", "REJECTED"}
        /\ r.status = "REJECTED" => r.ex.pos = w.ex.pos
        /\ r.status = "FILLED" => r.ex.pos = [w.ex.pos EXCEPT ![sym] = @ + Signed(w.order)]
    BY <1>1, <2>1, Submitted
  <2>3. /\ w'.at = "status" /\ w'.ex = r.ex /\ w'.status = r.status /\ w'.locks = w.locks
        /\ sym' = sym
    BY <2>1 DEF Becomes, sym
  <2>4. Single' => (w.locks = lock /\ LocksFit)'
    <3>1. CASE r.status = "REJECTED"
      BY <1>3, <1>4, <1>5, <2>2, <2>3, <3>1, StillFits
    <3>2. CASE r.status = "FILLED"
      <4>1. Traded'
        BY <2>3, <3>2 DEF Traded, Filled
      <4>2. w.ex.pos \in [Symbols -> Nat]
        BY <1>2 DEF Job, Executor, Account
      <4>3. \A s \in Symbols : s = sym \/ w'.ex.pos[s] = w.ex.pos[s]
        BY <2>2, <2>3, <3>2, <4>2
      <4>4. \A s : BuysOf(s)' = BuysOf(s) /\ LastBuyer(s)' = LastBuyer(s)
        BY <1>3, BuyersSame
      <4>5. LocksFit => LocksFit'
        BY <1>3, <1>4, <2>3, <4>1, <4>3, <4>4 DEF LocksFit, LockFits
      <4> QED
        BY <1>3, <1>5, <2>3, <4>5
    <3> QED
      BY <2>2, <3>1, <3>2
  <2> QED
    BY <2>3, <2>4, LocksInCycle DEF CyclePoints, SymbolPoints
<1> QED
  BY <1>2, <1>6, <1>7, RecordOrderMoves

LEMMA LocksRecordFill ==
    ASSUME Shape, LocksInv, RecordFill
    PROVE  LocksInv'
<1>1. w.at = "fill"
  BY DEF RecordFill, At
<1>2. Job(w) /\ w.at \in CyclePoints
  BY <1>1 DEF Shape, Working, CyclePoints, SymbolPoints
<1>3. /\ UNCHANGED <<settings, lock, torn>> /\ fills' = Append(fills, Row)
      /\ Becomes("lock", w.ex, w.locks, w.todo, w.sel, w.order, w.status)
  BY <1>2, RecordFillMoves DEF Row
<1>4. /\ Row \in FillRows /\ fills \in Seq(FillRows)
      /\ Row.symbol = sym /\ Row.side = w.order.side /\ Row.strategy = w.sel /\ sym \in Symbols
  BY <1>1, RowIs
<1>5. /\ w'.at = "lock" /\ w'.ex = w.ex /\ w'.locks = w.locks /\ w'.order = w.order /\ w'.sel = w.sel
      /\ sym' = sym
  BY <1>3 DEF Becomes, sym
<1>6. w.order # NoOrder
  <2>1. w.order.symbol = sym /\ NoOrder.symbol = "none"
    BY <1>1 DEF Shape, Working, Ordering, Planned, NoOrder
  <2> QED
    BY <1>4, <2>1, WorkerAssumption
<1>7. Traded /\ Traded'
  BY <1>1, <1>5, <1>6 DEF Traded, Filled, NoOrder
<1>8. \A s : BuysOf(s) # {} /\ s # sym => BuysOf(s)' # {} /\ LastBuyer(s)' = LastBuyer(s)
  BY <1>3, <1>4, BuyersGrow
<1>9. \A s : s = sym /\ w.order.side = "BUY" => BuysOf(s)' # {} /\ LastBuyer(s)' = w.sel
  BY <1>3, <1>4, BuyersGrow
<1>10. Single' => w.locks = lock /\ LocksFit
  BY <1>2, <1>3 DEF Single, LocksInv, LocksFit
<1>11. LocksFit => LocksFit'
  BY <1>3, <1>5, <1>7, <1>8 DEF LocksFit, LockFits
<1>12. w.order.side = "BUY" => (BuysOf(sym) # {} /\ LastBuyer(sym) = w.sel)'
  BY <1>5, <1>9 DEF BuysOf, LastBuyer
<1> QED
  BY <1>3, <1>5, <1>10, <1>11, <1>12 DEF LocksInv, LocksFit, Single

LEMMA LocksSyncLock ==
    ASSUME Shape, LocksInv, SyncLock
    PROVE  LocksInv'
<1>1. w.at = "lock"
  BY DEF SyncLock, At
<1>2. Job(w) /\ w.at \in CyclePoints /\ w.todo # << >>
  BY <1>1 DEF Shape, Working, CyclePoints, SymbolPoints, Job
<1> DEFINE locks == [w.locks EXCEPT ![sym] = synced_lock]
<1>3. /\ UNCHANGED <<settings, fills, torn>>
      /\ Becomes("finish", w.ex, locks, w.todo, w.sel, w.order, w.status)
      /\ lock' = IF synced_lock = w.locks[sym] THEN lock ELSE [lock EXCEPT ![sym] = synced_lock]
  BY <1>2, SyncLockMoves
<1>4. w'.at = "finish" /\ w'.ex = w.ex /\ w'.locks = locks
  BY <1>3 DEF Becomes
<1>5. sym \in Symbols /\ held \in Nat /\ held = w.ex.pos[sym]
  BY <1>2, AtHand DEF held
<1> SUFFICES ASSUME Single' PROVE (w.locks = lock /\ LocksFit)'
  BY <1>4, LocksInCycle DEF CyclePoints, SymbolPoints
<1>6. Single /\ ~settings.allow_multi_strategy /\ w.locks = lock /\ LocksFit
  BY <1>2, <1>3 DEF Single, LocksInv, LocksFit
<1>7. w.locks \in [Symbols -> Holders]
  BY <1>2 DEF Job
<1>8. lock' = locks
  BY <1>3, <1>6, <1>7
<1>9. \A s : BuysOf(s)' = BuysOf(s) /\ LastBuyer(s)' = LastBuyer(s)
  BY <1>3, BuyersSame
<1>10. \/ w.ex.pos[sym] = 0 /\ synced_lock = "none"
       \/ /\ w.ex.pos[sym] # 0 /\ synced_lock = LastBuyer(sym)
          /\ BuysOf(sym) # {} /\ LastBuyer(sym) \in Strategies
  <2>1. CASE w.order = NoOrder
    <3>1. LockFits(sym, w.ex.pos[sym])
      BY <1>1, <1>5, <1>6, <2>1 DEF LocksFit, Traded, Filled
    <3>2. synced_lock = IF held = 0 THEN "none"
                        ELSE IF w.locks[sym] = "none" THEN w.sel ELSE w.locks[sym]
      BY <1>2, <1>6, <2>1, SyncedLock
    <3>3. "none" \notin Strategies
      BY WorkerAssumption
    <3> QED
      BY <1>5, <1>6, <3>1, <3>2, <3>3 DEF LockFits
  <2>2. CASE w.order # NoOrder
    <3>1. Traded
      BY <1>1, <2>2 DEF Traded
    <3>2. w.ex.pos[sym] = 0 <=> w.order.side = "SELL"
      BY <3>1 DEF Shape, WholePositions
    <3>3. w.order.side \in {"BUY", "SELL"} /\ (w.order.side = "BUY" => w.sel \in Strategies)
      BY <1>1, <2>2 DEF Shape, Working, Planned
    <3>4. w.order.side = "BUY" => BuysOf(sym) # {} /\ LastBuyer(sym) = w.sel
      BY <1>1, <1>2, <1>6, <2>2 DEF LocksInv, Single
    <3>5. synced_lock = IF w.order.side = "BUY" THEN w.sel
                        ELSE IF held = 0 THEN "none" ELSE w.locks[sym]
      BY <1>2, <1>6, <2>2, SyncedLock
    <3> QED
      BY <1>5, <3>2, <3>3, <3>4, <3>5
  <2> QED
    BY <2>1, <2>2
<1>11. locks[sym] = synced_lock /\ \A s \in Symbols \ {sym} : locks[s] = lock[s]
  BY <1>5, <1>6, <1>7
<1> HIDE DEF locks
<1>12. \A s \in Symbols \ {sym} : LockFits(s, w.ex.pos[s])
  BY <1>6 DEF LocksFit
<1>13. LocksFit'
  BY <1>4, <1>8, <1>9, <1>10, <1>11, <1>12 DEF LocksFit, LockFits
<1> QED
  BY <1>4, <1>8, <1>13

LEMMA LocksMoves ==
    ASSUME Shape, TradesShow, LocksInv,
           StartRun \/ Decide \/ UpdateOrderStatus \/ FinishRun \/ SymbolFails \/ SaveBook
           \/ ReleaseStaleLocks
    PROVE  LocksInv'
<1>1. w.at \in CyclePoints /\ Job(w) /\ settings' = settings
  <2>1. w.at \in CyclePoints
    BY DEF StartRun, Decide, UpdateOrderStatus, FinishRun, SymbolFails, SaveBook,
           ReleaseStaleLocks, At, InSymbolCycle, CyclePoints, SymbolPoints
  <2>2. settings' = settings
    BY DEF StartRun, Decide, UpdateOrderStatus, FinishRun, SymbolFails, SaveBook, ReleaseStaleLocks
  <2> QED
    BY <2>1, <2>2 DEF Shape, Working
<1>2. Single => w.locks = lock /\ LocksFit
  BY <1>1 DEF Single, LocksInv, LocksFit
<1>3. ASSUME torn' \/ (~torn /\ (Traded => Traded' /\ sym' = sym)), UNCHANGED <<fills, lock>>,
             w'.locks = w.locks, w'.ex.pos = w.ex.pos, w'.at \in CyclePoints,
             w'.at # "lock" \/ w'.order = NoOrder
      PROVE  LocksInv'
  <2>1. Single' => Single /\ (Traded => Traded' /\ sym' = sym)
    BY <1>1, <1>3 DEF Single
  <2>2. Single' => (w.locks = lock /\ LocksFit)'
    BY <1>2, <1>3, <2>1, StillFits
  <2> QED
    BY <1>3, <2>2, LocksInCycle
<1>4. ASSUME StartRun PROVE LocksInv'
  <2>1. /\ w.at = "next" /\ UNCHANGED <<fills, lock, torn>> /\ w'.ex = w.ex /\ w'.locks = w.locks
        /\ w'.at \in {"next", "decide"}
    BY <1>1, <1>4, StartRunMoves DEF Becomes
  <2> QED
    BY <1>3, <2>1 DEF Traded, Filled, CyclePoints, SymbolPoints
<1>5. ASSUME Decide PROVE LocksInv'
  <2>1. /\ w.at = "decide" /\ UNCHANGED <<fills, lock, torn>> /\ w'.ex = w.ex /\ w'.locks = w.locks
        /\ w'.at \in {"lock", "finish", "order"} /\ (w'.at = "lock" => w'.order = NoOrder)
    <3>1. PICK sel, order, at :
              /\ sel \in Holders
              /\ Becomes(at, w.ex, w.locks, w.todo, sel, order, w.status)
              /\ \/ order = NoOrder /\ at \in {"lock", "finish"}
                 \/ Sound(order, sel) /\ at = "order"
      BY <1>5, DecideMoves
    <3> QED
      BY <1>5, <3>1, DecideMoves DEF Becomes
  <2> QED
    BY <1>3, <2>1 DEF Traded, Filled, CyclePoints, SymbolPoints
<1>6. ASSUME UpdateOrderStatus PROVE LocksInv'
  <2>1. /\ w.at = "status" /\ UNCHANGED <<fills, lock, torn>>
        /\ Becomes(IF w.status = "FILLED" THEN "fill" ELSE "finish", w.ex, w.locks, w.todo,
                   w.sel, w.order, w.status)
    BY <1>1, <1>6, UpdateOrderStatusMoves
  <2>2. /\ w'.at \in {"fill", "finish"} /\ w'.ex = w.ex /\ w'.locks = w.locks
        /\ Traded => Traded' /\ sym' = sym
    BY <2>1 DEF Becomes, Traded, Filled, sym
  <2> QED
    BY <1>3, <2>1, <2>2 DEF CyclePoints, SymbolPoints
<1>7. ASSUME FinishRun PROVE LocksInv'
  <2>1. /\ w.at = "finish" /\ UNCHANGED <<fills, lock, torn>> /\ w'.ex = w.ex /\ w'.locks = w.locks
        /\ w'.at = "next"
    BY <1>1, <1>7, FinishRunMoves DEF Becomes
  <2> QED
    BY <1>3, <2>1 DEF Traded, Filled, CyclePoints
<1>8. ASSUME SymbolFails PROVE LocksInv'
  <2>1. /\ UNCHANGED <<fills, lock>> /\ w'.ex = w.ex /\ w'.locks = w.locks /\ w'.at = "next"
        /\ torn' = \/ torn
                   \/ w.at = "status" /\ w.status = "FILLED"
                   \/ w.at \in {"fill", "lock", "finish"}
    BY <1>1, <1>8, SymbolFailsMoves DEF Becomes
  <2>2. torn' \/ (~torn /\ ~Traded)
    BY <2>1 DEF Traded, Filled
  <2> QED
    BY <1>3, <2>1, <2>2 DEF CyclePoints
<1>9. ASSUME SaveBook PROVE LocksInv'
  <2>1. /\ w.at = "next" /\ UNCHANGED <<fills, lock, torn>> /\ w'.ex = w.ex /\ w'.locks = w.locks
        /\ w'.at = "release"
    BY <1>1, <1>9, SaveBookMoves DEF Becomes
  <2> QED
    BY <1>3, <2>1 DEF Traded, Filled, CyclePoints
<1>10. ASSUME ReleaseStaleLocks PROVE LocksInv'
  <2>1. /\ w.at = "release" /\ UNCHANGED <<fills, torn>> /\ w'.ex = w.ex /\ w'.locks = w.locks
        /\ w'.at = "trip"
        /\ lock' = [s \in Symbols |-> IF w.locks[s] # "none" /\ w.ex.pos[s] = 0 THEN "none" ELSE lock[s]]
    BY <1>1, <1>10, ReleaseStaleLocksMoves DEF Becomes
  <2>2. Single => lock' = lock
    <3> SUFFICES ASSUME Single PROVE lock' = lock
      OBVIOUS
    <3>1. LocksFit /\ ~Traded
      BY <1>2, <2>1 DEF Traded, Filled
    <3>2. lock \in [Symbols -> Holders]
      BY DEF Shape, Stored
    <3>3. \A s \in Symbols : w.ex.pos[s] = 0 => lock[s] = "none"
      BY <3>1 DEF LocksFit, LockFits
    <3> QED
      BY <2>1, <3>2, <3>3
  <2>3. CASE Single
    BY <1>3, <2>1, <2>2, <2>3 DEF Single, Traded, Filled, CyclePoints
  <2>4. CASE ~Single
    BY <1>1, <2>1, <2>4 DEF LocksInv, Single
  <2> QED
    BY <2>3, <2>4
<1> QED
  BY <1>4, <1>5, <1>6, <1>7, <1>8, <1>9, <1>10

LEMMA LocksStep ==
    ASSUME Shape, TradesShow, LocksInv, [Next]_vars
    PROVE  LocksInv'
<1> DEFINE Fit == \A s \in Symbols : LockFits(s, book.pos[s])
<1>1. ASSUME Fit, UNCHANGED <<book, fills, lock>>, w'.at \in {"idle", "restore"} PROVE LocksInv'
  <2>1. \A s : BuysOf(s)' = BuysOf(s) /\ LastBuyer(s)' = LastBuyer(s)
    BY <1>1, BuyersSame
  <2>2. Fit'
    BY <1>1, <2>1 DEF LockFits
  <2> QED
    BY <1>1, <2>2 DEF LocksInv, CyclePoints, SymbolPoints
<1>2. ASSUME WorkerStart \/ Tick \/ RegisterCycle PROVE LocksInv'
  <2>1. w.at = "idle" /\ UNCHANGED <<settings, book, fills, lock, torn>>
    BY <1>2 DEF WorkerStart, Tick, RegisterCycle, At, Shape, Working
  <2>2. w'.at \in {"idle", "restore"}
    <3>1. CASE WorkerStart
      BY <3>1, Ended DEF WorkerStart
    <3>2. CASE Tick
      BY <2>1, <3>2 DEF Tick
    <3>3. CASE RegisterCycle
      BY <3>3 DEF RegisterCycle
    <3> QED
      BY <1>2, <3>1, <3>2, <3>3
  <2>3. CASE ~Single
    BY <2>1, <2>3 DEF LocksInv, Single
  <2>4. CASE Single
    BY <1>1, <2>1, <2>2, <2>4 DEF LocksInv, Single
  <2> QED
    BY <2>3, <2>4
<1>3. ASSUME Single, w.at \in CyclePoints, w.ex.pos = book.pos PROVE Fit
  <2>1. ~Traded
    BY <1>3 DEF TradesShow
  <2> QED
    BY <1>3, <2>1 DEF LocksInv, Single, LocksFit
<1>4. ASSUME Crash PROVE LocksInv'
  <2>1. /\ w'.at = "idle" /\ UNCHANGED <<settings, book, fills, lock>>
        /\ torn' = (torn \/ (w.at \notin {"idle", "restore"} /\ w.ex.pos # book.pos))
    BY <1>4, Ended DEF Crash
  <2>2. CASE ~Single'
    BY <2>2 DEF LocksInv, Single
  <2>3. CASE Single'
    <3>1. Single /\ (w.at \notin {"idle", "restore"} => w.ex.pos = book.pos)
      BY <2>1, <2>3 DEF Single
    <3>2. Fit
      <4>1. CASE w.at \in {"idle", "restore"}
        BY <3>1, <4>1 DEF LocksInv, Single
      <4>2. CASE w.at \in CyclePoints
        BY <1>3, <3>1, <4>2 DEF CyclePoints, SymbolPoints
      <4> QED
        BY <4>1, <4>2 DEF Shape, Working
    <3> QED
      BY <1>1, <2>1, <3>2
  <2> QED
    BY <2>2, <2>3
<1>5. ASSUME PersistKill PROVE LocksInv'
  <2>1. /\ w.at = "trip" /\ w'.at = "idle" /\ UNCHANGED <<settings, book, fills, lock, torn>>
        /\ w.at \in CyclePoints
    BY <1>5, Ended DEF PersistKill, At, CyclePoints
  <2>2. CASE ~Single
    BY <2>1, <2>2 DEF LocksInv, Single
  <2>3. CASE Single
    <3>1. Fit
      BY <1>3, <2>1, <2>3 DEF TradesShow
    <3> QED
      BY <1>1, <2>1, <3>1
  <2> QED
    BY <2>2, <2>3
<1>6. ASSUME RestoreAndScan PROVE LocksInv'
  <2>1. /\ w.at = "restore" /\ UNCHANGED <<settings, book, fills, torn>>
        /\ lock' = [s \in Symbols |-> IF book.pos[s] = 0 THEN "none" ELSE lock[s]]
        /\ \/ w' = EndOfCycle
           \/ /\ w'.at = "next" /\ w'.locks = lock' /\ w'.ex.pos = book.pos
              /\ w'.order = NoOrder
    BY <1>6, RestoreMoves
  <2>2. CASE ~Single
    BY <2>1, <2>2 DEF LocksInv, Single
  <2>3. CASE Single
    <3>1. Fit
      BY <2>1, <2>3 DEF LocksInv, Single
    <3>2. lock' = lock
      <4>1. lock \in [Symbols -> Holders]
        BY DEF Shape, Stored
      <4>2. \A s \in Symbols : book.pos[s] = 0 => lock[s] = "none"
        BY <3>1 DEF LockFits
      <4> QED
        BY <2>1, <4>1, <4>2
    <3>3. CASE w' = EndOfCycle
      BY <1>1, <2>1, <3>1, <3>2, <3>3, Ended
    <3>4. CASE w'.at = "next" /\ w'.locks = lock' /\ w'.ex.pos = book.pos /\ w'.order = NoOrder
      <4>1. \A s : BuysOf(s)' = BuysOf(s) /\ LastBuyer(s)' = LastBuyer(s)
        BY <2>1, BuyersSame
      <4>2. (w.locks = lock /\ LocksFit)'
        BY <2>1, <3>1, <3>2, <3>4, <4>1 DEF LocksFit, LockFits
      <4> QED
        BY <3>4, <4>2, LocksInCycle DEF CyclePoints
    <3> QED
      BY <2>1, <3>3, <3>4
  <2> QED
    BY <2>2, <2>3
<1>7. ASSUME Operator \/ UNCHANGED vars PROVE LocksInv'
  <2>1. UNCHANGED <<settings, book, fills, lock, torn, w>>
    BY <1>7 DEF Operator, ApiStart, update_strategy, set_kill_switch, vars
  <2>2. \A s : BuysOf(s)' = BuysOf(s) /\ LastBuyer(s)' = LastBuyer(s)
    BY <2>1, BuyersSame
  <2>3. Single' = Single /\ Traded' = Traded /\ sym' = sym
    BY <2>1 DEF Single, Traded, Filled, sym
  <2>4. BuysOf(sym)' = BuysOf(sym) /\ LastBuyer(sym)' = LastBuyer(sym)
    BY <2>1, <2>3 DEF BuysOf, LastBuyer
  <2>5. /\ Fit => Fit'
        /\ LocksFit => LocksFit'
    BY <2>1, <2>2, <2>3 DEF LocksFit, LockFits
  <2> QED
    BY <2>1, <2>3, <2>4, <2>5 DEF LocksInv, LocksFit, Single
<1>8. ASSUME Worker PROVE LocksInv'
  BY <1>2, <1>5, <1>6, <1>8, LocksMoves, LocksRecordOrder, LocksRecordFill, LocksSyncLock DEF Worker
<1> QED
  BY <1>2, <1>4, <1>5, <1>7, <1>8 DEF Next

-----------------------------------------------------------------------------
(* Purchases.                                                              *)

Permitted == /\ ~kill /\ session.can_open
             /\ Cardinality(buys_of_day(now)) < settings.max_trades_per_day

LEMMA SettingsStay ==
    ASSUME [Next]_vars
    PROVE  settings' = settings /\ (fills' = fills \/ RecordFill)
<1>1. ASSUME Worker PROVE settings' = settings /\ (fills' = fills \/ RecordFill)
  BY <1>1 DEF Worker, RegisterCycle, RestoreAndScan, StartRun, Decide, RecordOrder, UpdateOrderStatus,
     RecordFill, SyncLock, FinishRun, SymbolFails, SaveBook, ReleaseStaleLocks, PersistKill
<1>2. ASSUME Operator PROVE settings' = settings /\ fills' = fills
  BY <1>2 DEF Operator, ApiStart, update_strategy, set_kill_switch
<1>3. ASSUME WorkerStart \/ Crash \/ Tick \/ UNCHANGED vars PROVE settings' = settings /\ fills' = fills
  BY <1>3 DEF WorkerStart, Crash, Tick, vars
<1> QED
  BY <1>1, <1>2, <1>3 DEF Next

\* A purchase is ahead only if it was, or if it has just been permitted.
LEMMA AheadStep ==
    ASSUME Shape, [Next]_vars, BuyAhead'
    PROVE  /\ now' = now /\ fills' = fills /\ late_buys' \in {0, late_buys}
           /\ BuyAhead \/ (Permitted /\ UNCHANGED <<kill, late_buys>>)
<1> DEFINE Goal == /\ now' = now /\ fills' = fills /\ late_buys' \in {0, late_buys}
                   /\ BuyAhead \/ (Permitted /\ UNCHANGED <<kill, late_buys>>)
<1>1. w'.at \in {"order", "status", "fill"} /\ w'.order.side = "BUY"
  BY DEF BuyAhead, Ordering
<1>2. ASSUME w.at \in CyclePoints PROVE Job(w)
  BY <1>2 DEF Shape, Working
<1>3. ASSUME WorkerStart \/ Crash \/ Tick \/ RegisterCycle \/ PersistKill PROVE FALSE
  <2>1. w'.at \in {"idle", "restore"}
    <3>1. CASE WorkerStart \/ Crash \/ PersistKill
      BY <3>1, Ended DEF WorkerStart, Crash, PersistKill
    <3>2. CASE Tick
      BY <3>2 DEF Tick
    <3>3. CASE RegisterCycle
      BY <3>3 DEF RegisterCycle
    <3> QED
      BY <1>3, <3>1, <3>2, <3>3
  <2> QED
    BY <1>1, <2>1
<1>4. ASSUME RestoreAndScan PROVE FALSE
  <2>1. w' = EndOfCycle \/ w'.at = "next"
    BY <1>4, RestoreMoves
  <2> QED
    BY <1>1, <2>1, Ended
<1>5. ASSUME StartRun PROVE FALSE
  <2>1. Job(w)
    BY <1>2, <1>5 DEF StartRun, At, CyclePoints
  <2>2. w'.at \in {"next", "decide"}
    BY <1>5, <2>1, StartRunMoves DEF Becomes
  <2> QED
    BY <1>1, <2>2
<1>6. ASSUME Decide PROVE Goal
  <2>1. UNCHANGED <<now, kill, fills, late_buys>>
    BY <1>6, DecideMoves
  <2>2. PICK sel, order, at :
            /\ sel \in Holders
            /\ Becomes(at, w.ex, w.locks, w.todo, sel, order, w.status)
            /\ \/ order = NoOrder /\ at \in {"lock", "finish"}
               \/ Sound(order, sel) /\ at = "order"
    BY <1>6, DecideMoves
  <2>3. Sound(order, sel) /\ order.side = "BUY"
    BY <1>1, <2>2 DEF Becomes
  <2>4. Permitted
    BY <2>3 DEF Sound, Permitted
  <2> QED
    BY <2>1, <2>4
<1>7. ASSUME RecordOrder PROVE Goal
  <2>1. Job(w)
    BY <1>2, <1>7 DEF RecordOrder, At, CyclePoints, SymbolPoints
  <2>2. w.at = "order" /\ UNCHANGED <<now, kill, fills, late_buys>> /\ w'.order = w.order
    BY <1>7, <2>1, RecordOrderMoves DEF Becomes
  <2> QED
    BY <1>1, <2>2 DEF BuyAhead, Ordering
<1>8. ASSUME UpdateOrderStatus PROVE Goal
  <2>1. Job(w)
    BY <1>2, <1>8 DEF UpdateOrderStatus, At, CyclePoints, SymbolPoints
  <2>2. w.at = "status" /\ UNCHANGED <<now, kill, fills, late_buys>> /\ w'.order = w.order
    BY <1>8, <2>1, UpdateOrderStatusMoves DEF Becomes
  <2> QED
    BY <1>1, <2>2 DEF BuyAhead, Ordering
<1>9. ASSUME RecordFill \/ SyncLock \/ FinishRun \/ SymbolFails \/ SaveBook \/ ReleaseStaleLocks PROVE FALSE
  <2>1. Job(w)
    BY <1>2, <1>9 DEF RecordFill, SyncLock, FinishRun, SymbolFails, SaveBook, ReleaseStaleLocks,
       At, InSymbolCycle, CyclePoints, SymbolPoints
  <2>2. w'.at \in {"lock", "finish", "next", "release", "trip"}
    BY <1>9, <2>1, RecordFillMoves, SyncLockMoves, FinishRunMoves, SymbolFailsMoves, SaveBookMoves,
       ReleaseStaleLocksMoves DEF Becomes
  <2> QED
    BY <1>1, <2>2
<1>10. ASSUME Operator \/ UNCHANGED vars PROVE Goal
  <2>1. UNCHANGED <<now, fills, w>> /\ late_buys' \in {0, late_buys}
    BY <1>10 DEF Operator, ApiStart, update_strategy, set_kill_switch, vars
  <2> QED
    BY <1>1, <2>1 DEF BuyAhead, Ordering
<1> QED
  BY <1>3, <1>4, <1>5, <1>6, <1>7, <1>8, <1>9, <1>10 DEF Next, Worker

\* The row of a fill, and what was ahead of it.
LEMMA FillStep ==
    ASSUME Shape, RecordFill
    PROVE  /\ fills' = Append(fills, Row) /\ Row \in FillRows /\ fills \in Seq(FillRows)
           /\ Row.bucket = now /\ (Row.side = "BUY" <=> BuyAhead) /\ ~BuyAhead' /\ kill' = kill
           /\ late_buys' = IF kill /\ BuyAhead THEN late_buys + 1 ELSE late_buys
<1>1. w.at = "fill"
  BY DEF RecordFill, At
<1>2. Job(w)
  BY <1>1 DEF Shape, Working, CyclePoints, SymbolPoints
<1>3. /\ Becomes("lock", w.ex, w.locks, w.todo, w.sel, w.order, w.status)
      /\ kill' = kill /\ fills' = Append(fills, Row)
      /\ late_buys' = IF kill /\ w.order.side = "BUY" THEN late_buys + 1 ELSE late_buys
  BY <1>2, RecordFillMoves DEF Row
<1>4. ~BuyAhead' /\ (BuyAhead <=> w.order.side = "BUY")
  BY <1>1, <1>3 DEF BuyAhead, Ordering, Becomes
<1>5. Row \in FillRows /\ fills \in Seq(FillRows) /\ Row.bucket = now /\ Row.side = w.order.side
  BY <1>1, RowIs
<1> QED
  BY <1>3, <1>4, <1>5

LEMMA EntriesStep ==
    ASSUME Shape, EntriesInv, [Next]_vars
    PROVE  EntriesInv'
<1>1. settings' = settings
  BY SettingsStay
<1>2. ASSUME BuyAhead' PROVE WorkerSession(now, settings).can_open'
  <2>1. now' = now /\ (BuyAhead \/ Permitted)
    BY <1>2, AheadStep
  <2>2. WorkerSession(now, settings).can_open
    BY <2>1 DEF EntriesInv, Permitted, session
  <2> QED
    BY <1>1, <2>1, <2>2
<1>3. EntriesInOpenSessions'
  <2>1. CASE fills' = fills
    BY <1>1, <2>1 DEF EntriesInv, EntriesInOpenSessions
  <2>2. CASE RecordFill
    <3>1. /\ fills' = Append(fills, Row) /\ Row \in FillRows /\ fills \in Seq(FillRows)
          /\ Row.bucket = now /\ (Row.side = "BUY" => BuyAhead)
      BY <2>2, FillStep
    <3>2. Row.side = "BUY" => WorkerSession(Row.bucket, settings).can_open
      BY <3>1 DEF EntriesInv
    <3> SUFFICES ASSUME NEW i \in DOMAIN fills', fills'[i].side = "BUY"
                 PROVE  WorkerSession(fills'[i].bucket, settings').can_open
      BY DEF EntriesInOpenSessions
    <3>3. CASE i \in DOMAIN fills
      <4>1. fills'[i] = fills[i]
        BY <3>1, <3>3
      <4> QED
        BY <1>1, <3>3, <4>1 DEF EntriesInv, EntriesInOpenSessions
    <3>4. CASE i \notin DOMAIN fills
      <4>1. fills'[i] = Row
        BY <3>1, <3>4
      <4> QED
        BY <1>1, <3>2, <4>1
    <3> QED
      BY <3>3, <3>4
  <2> QED
    BY <2>1, <2>2, SettingsStay
<1> QED
  BY <1>2, <1>3 DEF EntriesInv

\* The limit of a day counts the purchases on the bars of that day.
LEMMA LimitStep ==
    ASSUME Shape, LimitInv, [Next]_vars
    PROVE  LimitInv'
<1> DEFINE most == settings.max_trades_per_day
<1>1. settings' = settings /\ most \in Nat
  BY SettingsStay, Limits DEF Shape, Stored
<1>2. ASSUME BuyAhead' PROVE (Cardinality(buys_of_day(now)) < most)'
  <2>1. now' = now /\ fills' = fills /\ (BuyAhead \/ Permitted)
    BY <1>2, AheadStep
  <2>2. Cardinality(buys_of_day(now)) < most
    BY <2>1 DEF LimitInv, Permitted
  <2>3. buys_of_day(now)' = buys_of_day(now)
    BY <2>1 DEF buys_of_day
  <2> QED
    BY <1>1, <2>2, <2>3
<1>3. ASSUME NEW t \in Nat PROVE Cardinality(OwnBuys(t)') <= most
  <2>1. Cardinality(OwnBuys(t)) <= most
    BY DEF LimitInv
  <2>2. CASE fills' = fills
    <3>1. OwnBuys(t)' = OwnBuys(t)
      BY <2>2 DEF OwnBuys, buys_of_day
    <3> QED
      BY <2>1, <3>1
  <2>3. CASE RecordFill
    <3>1. /\ fills' = Append(fills, Row) /\ Row \in FillRows /\ fills \in Seq(FillRows)
          /\ Row.bucket = now /\ (Row.side = "BUY" => BuyAhead)
      BY <2>3, FillStep
    <3> DEFINE n == Len(fills)
    <3>2. n \in Nat /\ DOMAIN fills = 1 .. n /\ DOMAIN fills' = 1 .. (n + 1)
      BY <3>1
    <3>3. (\A i \in 1 .. n : fills'[i] = fills[i]) /\ fills'[n + 1] = Row
      BY <3>1
    <3> HIDE DEF n
    <3>4. IsFiniteSet(OwnBuys(t)) /\ IsFiniteSet(buys_of_day(now)) /\ n + 1 \notin OwnBuys(t)
      <4>1. OwnBuys(t) \subseteq 1 .. n /\ buys_of_day(now) \subseteq 1 .. n
        BY <3>2 DEF OwnBuys, buys_of_day
      <4>2. IsFiniteSet(1 .. n)
        BY <3>2, FS_Interval
      <4> QED
        BY <3>2, <4>1, <4>2, FS_Subset
    <3>5. OwnBuys(t)' = OwnBuys(t)
                          \cup (IF /\ Row.side = "BUY" /\ MarketDate(Row.bar_time) = MarketDate(t)
                                   /\ MarketDate(Row.bucket) = MarketDate(t)
                                THEN {n + 1} ELSE {})
      <4>1. ASSUME NEW i
            PROVE  i \in OwnBuys(t)' <=>
                      \/ i \in OwnBuys(t)
                      \/ /\ i = n + 1 /\ Row.side = "BUY" /\ MarketDate(Row.bar_time) = MarketDate(t)
                         /\ MarketDate(Row.bucket) = MarketDate(t)
        <5>1. i \in OwnBuys(t)' <=>
                  /\ i \in DOMAIN fills' /\ fills'[i].side = "BUY"
                  /\ MarketDate(fills'[i].bar_time) = MarketDate(t)
                  /\ MarketDate(fills'[i].bucket) = MarketDate(t)
          BY DEF OwnBuys, buys_of_day
        <5>2. i \in OwnBuys(t) <=>
                  /\ i \in DOMAIN fills /\ fills[i].side = "BUY"
                  /\ MarketDate(fills[i].bar_time) = MarketDate(t)
                  /\ MarketDate(fills[i].bucket) = MarketDate(t)
          BY DEF OwnBuys, buys_of_day
        <5>3. i \in DOMAIN fills' <=> i \in DOMAIN fills \/ i = n + 1
          BY <3>2
        <5>4. n + 1 \notin DOMAIN fills
          BY <3>2
        <5> QED
          BY <3>2, <3>3, <5>1, <5>2, <5>3, <5>4
      <4> QED
        BY <4>1
    <3>6. CASE ~(/\ Row.side = "BUY" /\ MarketDate(Row.bar_time) = MarketDate(t)
                 /\ MarketDate(Row.bucket) = MarketDate(t))
      <4>1. OwnBuys(t)' = OwnBuys(t)
        BY <3>5, <3>6
      <4> QED
        BY <2>1, <4>1
    <3>7. CASE /\ Row.side = "BUY" /\ MarketDate(Row.bar_time) = MarketDate(t)
               /\ MarketDate(Row.bucket) = MarketDate(t)
      <4>1. OwnBuys(t)' = OwnBuys(t) \cup {n + 1}
        BY <3>5, <3>7
      <4>2. Cardinality(OwnBuys(t)') = Cardinality(OwnBuys(t)) + 1
        BY <3>4, <4>1, FS_AddElement
      <4>3. OwnBuys(t) \subseteq buys_of_day(now)
        <5>1. MarketDate(t) = MarketDate(now)
          BY <3>1, <3>7
        <5> QED
          BY <5>1 DEF OwnBuys, buys_of_day
      <4>4. Cardinality(OwnBuys(t)) <= Cardinality(buys_of_day(now))
        BY <3>4, <4>3, FS_Subset
      <4>5. Cardinality(buys_of_day(now)) < most
        BY <3>1, <3>7 DEF LimitInv
      <4>6. Cardinality(OwnBuys(t)) \in Nat /\ Cardinality(buys_of_day(now)) \in Nat
        BY <3>4, FS_CardinalityType
      <4> QED
        BY <1>1, <4>2, <4>4, <4>5, <4>6
    <3> QED
      BY <3>6, <3>7
  <2> QED
    BY <2>2, <2>3, SettingsStay
<1> QED
  BY <1>1, <1>2, <1>3 DEF LimitInv

\* The switch goes off only at the operator's hand, who sets the count back.
LEMMA SwitchStep ==
    ASSUME [Next]_vars, ~RecordFill
    PROVE  late_buys' = 0 \/ (late_buys' = late_buys /\ (kill => kill'))
<1>1. ASSUME Worker PROVE late_buys' = late_buys /\ (kill => kill')
  <2>1. CASE PersistKill
    BY <2>1 DEF PersistKill
  <2>2. CASE ~PersistKill
    <3>1. late_buys' = late_buys /\ kill' = kill
      BY <1>1, <2>2 DEF Worker, RegisterCycle, RestoreAndScan, StartRun, Decide, RecordOrder,
         UpdateOrderStatus, SyncLock, FinishRun, SymbolFails, SaveBook, ReleaseStaleLocks
    <3> QED
      BY <3>1
  <2> QED
    BY <2>1, <2>2
<1>2. ASSUME Operator PROVE late_buys' = 0 \/ (late_buys' = late_buys /\ (kill => kill'))
  <2>1. CASE \E on \in BOOLEAN : set_kill_switch(on)
    BY <2>1 DEF set_kill_switch
  <2>2. CASE ~(\E on \in BOOLEAN : set_kill_switch(on))
    BY <1>2, <2>2 DEF Operator, ApiStart, update_strategy
  <2> QED
    BY <2>1, <2>2
<1>3. ASSUME WorkerStart PROVE late_buys' = late_buys /\ (kill => kill')
  BY <1>3 DEF WorkerStart
<1>4. ASSUME Crash \/ Tick \/ UNCHANGED vars PROVE late_buys' = late_buys /\ (kill => kill')
  <2>1. late_buys' = late_buys /\ kill' = kill
    BY <1>4 DEF Crash, Tick, vars
  <2> QED
    BY <2>1
<1> QED
  BY <1>1, <1>2, <1>3, <1>4 DEF Next

LEMMA LateStep ==
    ASSUME Shape, LateInv, [Next]_vars
    PROVE  LateInv'
<1>1. CASE RecordFill
  <2>1. /\ ~BuyAhead' /\ kill' = kill
        /\ late_buys' = IF kill /\ BuyAhead THEN late_buys + 1 ELSE late_buys
    BY <1>1, FillStep
  <2> QED
    BY <2>1 DEF LateInv
<1>2. CASE ~RecordFill
  <2>1. late_buys' = 0 \/ (late_buys' = late_buys /\ (kill => kill'))
    BY <1>2, SwitchStep
  <2>2. BuyAhead' => BuyAhead \/ ~kill
    BY AheadStep DEF Permitted
  <2> QED
    BY <2>1, <2>2 DEF LateInv
<1> QED
  BY <1>1, <1>2

-----------------------------------------------------------------------------
(* The theorems.                                                           *)

LEMMA Starts ==
    ASSUME Init
    PROVE  Shape /\ TradesShow /\ BooksInv /\ LocksInv /\ EntriesInv /\ LimitInv /\ LateInv
<1>1. w.at = "idle" /\ fills = << >> /\ late_buys = 0 /\ book = EmptyBook
  BY Ended DEF Init
<1>2. Shape
  BY ShapeInit
<1>3. TradesShow
  BY <1>1 DEF TradesShow, CyclePoints, SymbolPoints
<1>4. BooksInv
  <2>1. Spent = 0
    <3> DEFINE v == [i \in DOMAIN fills |-> Signed(fills[i]) * fills[i].price]
    <3>1. DOMAIN v = {}
      BY <1>1
    <3> HIDE DEF v
    <3> QED
      BY <3>1, TotalEmpty DEF Spent, v
  <2>2. ASSUME NEW s PROVE Net(s) = 0
    <3> DEFINE v == [i \in DOMAIN fills |-> IF fills[i].symbol = s THEN Signed(fills[i]) ELSE 0]
    <3>1. DOMAIN v = {}
      BY <1>1
    <3> HIDE DEF v
    <3> QED
      BY <3>1, TotalEmpty DEF Net, v
  <2>3. BookMatches
    BY <1>1, <2>1, <2>2, WorkerAssumption DEF BookMatches, EmptyBook
  <2> QED
    BY <1>1, <2>3 DEF BooksInv, CyclePoints, SymbolPoints
<1>5. LocksInv
  <2>1. \A s \in Symbols : LockFits(s, book.pos[s])
    BY <1>1 DEF Init, EmptyBook, LockFits
  <2> QED
    BY <1>1, <2>1 DEF LocksInv, CyclePoints, SymbolPoints
<1>6. EntriesInv
  BY <1>1 DEF EntriesInv, EntriesInOpenSessions, BuyAhead, Ordering
<1>7. LimitInv
  <2>1. settings.max_trades_per_day \in Nat
    BY <1>2, Limits DEF Shape, Stored
  <2>2. ASSUME NEW t \in Nat PROVE Cardinality(OwnBuys(t)) = 0
    <3>1. OwnBuys(t) = {}
      BY <1>1 DEF OwnBuys, buys_of_day
    <3> QED
      BY <3>1, FS_EmptySet
  <2> QED
    BY <1>1, <2>1, <2>2 DEF LimitInv, BuyAhead, Ordering
<1>8. LateInv
  BY <1>1 DEF LateInv
<1> QED
  BY <1>2, <1>3, <1>4, <1>5, <1>6, <1>7, <1>8

LEMMA Held == Spec => [](Shape /\ TradesShow /\ BooksInv /\ LocksInv /\ EntriesInv /\ LimitInv /\ LateInv)
<1> DEFINE Inv == Shape /\ TradesShow /\ BooksInv /\ LocksInv /\ EntriesInv /\ LimitInv /\ LateInv
<1>1. Init => Inv
  BY Starts
<1>2. Inv /\ [Next]_vars => Inv'
  BY ShapeStep, ShowStep, BooksStep, LocksStep, EntriesStep, LimitStep, LateStep
<1> QED
  BY <1>1, <1>2, PTL DEF Spec

\* Between cycles, cash and positions of the saved book are what the fill rows add up to,
\* unless a crash or a failed transaction cut a symbol's cycle in two.
THEOREM BooksAgree == Spec => []BooksMatchFills
<1>1. BooksInv => BooksMatchFills
  BY DEF BooksInv, BookMatches, BooksMatchFills
<1> QED
  BY <1>1, Held, PTL

\* Between cycles a symbol is locked by the strategy that last bought it as long as there is
\* a position, and by none when there is no position.
THEOREM LocksFollow == Spec => []LockFollowsPosition
<1>1. LocksInv => LockFollowsPosition
  BY DEF LocksInv, LockFits, LockFollowsPosition
<1> QED
  BY <1>1, Held, PTL

\* No day records more entries on that day's bars than max_trades_per_day.
THEOREM DayLimited == Spec => []DailyTradeLimit
<1>1. LimitInv => DailyTradeLimit
  BY WorkerAssumption DEF LimitInv, OwnBuys, DailyTradeLimit, Buckets
<1> QED
  BY <1>1, Held, PTL

\* Every recorded BUY was made in a session that opens positions.
THEOREM OpenEntries == Spec => []EntriesInOpenSessions
<1>1. EntriesInv => EntriesInOpenSessions
  BY DEF EntriesInv
<1> QED
  BY <1>1, Held, PTL

\* Neither the saved book nor the executor of a running cycle ever owes cash.
THEOREM NoDebts == Spec => []NeverBorrows
<1>1. Shape => NeverBorrows
  BY DEF Shape, Stored, Working, Job, Executor, Account, NeverBorrows
<1> QED
  BY <1>1, Held, PTL

\* Once the kill switch is on, at most one BUY that was already decided is still recorded.
THEOREM OneLate == Spec => []OneLateBuy
<1>1. LateInv => OneLateBuy
  BY DEF LateInv, OneLateBuy
<1> QED
  BY <1>1, Held, PTL

-----------------------------------------------------------------------------
(* Every run is finished: where the cycle of a symbol goes from each of its points. *)

RunRows == [status : {"none", "running", "completed", "failed"}, selected : Holders]

RunsShape == runs \in [Symbols -> [Buckets -> RunRows]]

\* The worker is at point p of the run of symbol s in bucket t.
Here(p, s, t) == w.up /\ w.at = p /\ sym = s /\ w.key = t

\* The run has ended, or the process has.
RunOver(s, t) == runs[s][t].status \in {"completed", "failed"} \/ ~w.up

\* Where a run may go from each point; it never goes back.
NextPoints == [decide |-> {"order", "lock", "finish"}, order |-> {"status", "finish"},
           status |-> {"fill", "finish"}, fill |-> {"lock"}, lock |-> {"finish"}, finish |-> {}]

\* The run history stays one row for each symbol and bucket.
LEMMA RunsShapeStep ==
    ASSUME Shape, RunsShape, [Next]_vars
    PROVE  RunsShape'
  <1>1. CASE UNCHANGED runs
    BY <1>1 DEF RunsShape
  <1>2. ASSUME NEW st \in {"running", "completed", "failed"}, NEW sel \in Holders,
               runs' = [runs EXCEPT ![sym][w.key] = [status |-> st, selected |-> sel]]
        PROVE  RunsShape'
    <2>1. [status |-> st, selected |-> sel] \in RunRows
      BY DEF RunRows
    <2> QED
      BY <1>2, <2>1 DEF RunsShape
  <1>3. CASE StartRun
    BY <1>1, <1>2, <1>3 DEF StartRun, start_run, Holders
  <1>4. CASE FinishRun
    <2>1. w.sel \in Holders
      BY <1>4 DEF FinishRun, At, Shape, Working, CyclePoints, SymbolPoints, Job
    <2> QED
      BY <1>2, <1>4, <2>1 DEF FinishRun, finish_run
  <1>5. CASE SymbolFails
    BY <1>2, <1>5 DEF SymbolFails, finish_run, Holders
  <1>6. CASE UNCHANGED vars
    BY <1>1, <1>6 DEF vars
  <1>7. CASE Next /\ ~(StartRun \/ FinishRun \/ SymbolFails)
    <2>1. UNCHANGED runs
      BY <1>7 DEF Next, WorkerStart, Crash, Tick, Worker, Operator, ApiStart, update_strategy, set_kill_switch,
            RegisterCycle, RestoreAndScan, Decide, RecordOrder, UpdateOrderStatus, RecordFill, SyncLock,
            SaveBook, ReleaseStaleLocks, PersistKill
    <2> QED
      BY <1>1, <2>1
  <1> QED
    BY <1>3, <1>4, <1>5, <1>6, <1>7

\* A step leaves the worker where it is, takes the run onward, or ends it.
LEMMA RunStep ==
    ASSUME Shape, RunsShape, NEW s \in Symbols, NEW t \in Buckets, NEW p \in SymbolPoints,
           Here(p, s, t), [Next]_vars
    PROVE  \/ w' = w
           \/ RunOver(s, t)'
           \/ \E q \in NextPoints[p] : Here(q, s, t)'
  <1>1. /\ DOMAIN w = Locals /\ w.up /\ w.at = p /\ w.key = t /\ sym = s
        /\ p \in CyclePoints /\ w.at # "idle"
    BY DEF Here, Shape, Working, CyclePoints, Job, SymbolPoints
  <1>2. ASSUME NEW st \in {"completed", "failed"}, NEW sel,
               runs' = [runs EXCEPT ![sym][w.key] = [status |-> st, selected |-> sel]]
        PROVE  RunOver(s, t)'
    <2>1. runs'[s][t] = [status |-> st, selected |-> sel]
      BY <1>1, <1>2 DEF RunsShape
    <2> QED
      BY <2>1 DEF RunOver
  <1>3. ASSUME NEW q \in NextPoints[p], w'.up = w.up, w'.at = q, w'.todo = w.todo, w'.key = w.key
        PROVE  \E r \in NextPoints[p] : Here(r, s, t)'
    BY <1>1, <1>3 DEF Here, sym
  <1>4. CASE Decide
    <2>1. /\ p = "decide" /\ w'.up = w.up /\ w'.todo = w.todo /\ w'.key = w.key
          /\ w'.at \in {"order", "lock", "finish"}
      BY <1>1, <1>4 DEF Decide, At, after_planning, Locals
    <2> QED
      BY <1>3, <2>1 DEF NextPoints
  <1>5. CASE RecordOrder
    <2>1. /\ p = "order" /\ w'.up = w.up /\ w'.todo = w.todo /\ w'.key = w.key
          /\ w'.at \in {"status", "finish"}
      BY <1>1, <1>5 DEF RecordOrder, At, Locals
    <2> QED
      BY <1>3, <2>1 DEF NextPoints
  <1>6. CASE UpdateOrderStatus
    <2>1. /\ p = "status" /\ w'.up = w.up /\ w'.todo = w.todo /\ w'.key = w.key
          /\ w'.at \in {"fill", "finish"}
      BY <1>1, <1>6 DEF UpdateOrderStatus, At, Locals
    <2> QED
      BY <1>3, <2>1 DEF NextPoints
  <1>7. CASE RecordFill
    <2>1. /\ p = "fill" /\ w'.up = w.up /\ w'.todo = w.todo /\ w'.key = w.key /\ w'.at = "lock"
      BY <1>1, <1>7 DEF RecordFill, At, Locals
    <2> QED
      BY <1>3, <2>1 DEF NextPoints
  <1>8. CASE SyncLock
    <2>1. /\ p = "lock" /\ w'.up = w.up /\ w'.todo = w.todo /\ w'.key = w.key /\ w'.at = "finish"
      BY <1>1, <1>8 DEF SyncLock, At, Locals
    <2> QED
      BY <1>3, <2>1 DEF NextPoints
  <1>9. CASE FinishRun
    BY <1>2, <1>9 DEF FinishRun, finish_run
  <1>10. CASE SymbolFails
    BY <1>2, <1>10 DEF SymbolFails, finish_run
  <1>11. CASE Crash
    BY <1>11 DEF Crash, Stopped, RunOver
  <1>12. CASE Operator \/ UNCHANGED vars
    BY <1>12 DEF Operator, ApiStart, update_strategy, set_kill_switch, vars
  <1>13. ~(WorkerStart \/ Tick \/ RegisterCycle \/ RestoreAndScan \/ StartRun \/ SaveBook
             \/ ReleaseStaleLocks \/ PersistKill)
    BY <1>1 DEF WorkerStart, Tick, RegisterCycle, RestoreAndScan, StartRun, SaveBook, ReleaseStaleLocks,
          PersistKill, At, SymbolPoints
  <1> QED
    BY <1>4, <1>5, <1>6, <1>7, <1>8, <1>9, <1>10, <1>11, <1>12, <1>13 DEF Next, Worker

LEMMA RunsHeld == Spec => [](Shape /\ RunsShape)
  <1>1. Init => RunsShape
    BY DEF Init, RunsShape, RunRows, NoRun, Holders
  <1>2. Shape /\ RunsShape /\ [Next]_vars => RunsShape'
    BY RunsShapeStep
  <1> QED
    BY Held, <1>1, <1>2, PTL DEF Spec

\* If the process runs on while it is up, every run it has started is finished, or the
\* process dies: from each point of a symbol's cycle the next step leads onward, and
\* neither an error of the database nor the operator leads back (service.py, run_once).
THEOREM AllRunsFinish == FairSpec => RunsFinish
  <1> SUFFICES ASSUME NEW s \in Symbols, NEW t \in Buckets
               PROVE  FairSpec => ((InSymbolCycle /\ sym = s /\ w.key = t)
                                     ~> (runs[s][t].status \in {"completed", "failed"} \/ ~w.up))
    BY DEF RunsFinish
  <1> DEFINE I == Shape /\ RunsShape
             D == Here("decide", s, t)
             O == Here("order", s, t)
             U == Here("status", s, t)
             F == Here("fill", s, t)
             L == Here("lock", s, t)
             E == Here("finish", s, t)
             Over == RunOver(s, t)
  <1>1. Spec => []I
    BY RunsHeld
  <1>2. w' = w => (D => D') /\ (O => O') /\ (U => U') /\ (F => F') /\ (L => L') /\ (E => E')
    BY DEF Here, sym
  <1>3. /\ I /\ D /\ [Next]_vars => D' \/ Over' \/ O' \/ L' \/ E'
        /\ I /\ D /\ [Next]_vars /\ <<Worker>>_w => Over' \/ O' \/ L' \/ E'
    BY <1>2, RunStep DEF NextPoints, SymbolPoints
  <1>4. /\ I /\ O /\ [Next]_vars => O' \/ Over' \/ U' \/ E'
        /\ I /\ O /\ [Next]_vars /\ <<Worker>>_w => Over' \/ U' \/ E'
    BY <1>2, RunStep DEF NextPoints, SymbolPoints
  <1>5. /\ I /\ U /\ [Next]_vars => U' \/ Over' \/ F' \/ E'
        /\ I /\ U /\ [Next]_vars /\ <<Worker>>_w => Over' \/ F' \/ E'
    BY <1>2, RunStep DEF NextPoints, SymbolPoints
  <1>6. /\ I /\ F /\ [Next]_vars => F' \/ Over' \/ L'
        /\ I /\ F /\ [Next]_vars /\ <<Worker>>_w => Over' \/ L'
    BY <1>2, RunStep DEF NextPoints, SymbolPoints
  <1>7. /\ I /\ L /\ [Next]_vars => L' \/ Over' \/ E'
        /\ I /\ L /\ [Next]_vars /\ <<Worker>>_w => Over' \/ E'
    BY <1>2, RunStep DEF NextPoints, SymbolPoints
  <1>8. /\ I /\ E /\ [Next]_vars => E' \/ Over'
        /\ I /\ E /\ [Next]_vars /\ <<Worker>>_w => Over'
    BY <1>2, RunStep DEF NextPoints, SymbolPoints
  <1>9. D \/ O \/ U \/ F \/ L \/ E => WorkerCanStep
    BY DEF Here, WorkerCanStep
  <1>10. InSymbolCycle /\ sym = s /\ w.key = t => D \/ O \/ U \/ F \/ L \/ E
    BY DEF InSymbolCycle, Here
  <1>11. Over => runs[s][t].status \in {"completed", "failed"} \/ ~w.up
    BY DEF RunOver
  <1> HIDE DEF I, D, O, U, F, L, E, Over
  <1> QED
    BY <1>1, <1>3, <1>4, <1>5, <1>6, <1>7, <1>8, <1>9, <1>10, <1>11, PTL DEF FairSpec, Spec

-----------------------------------------------------------------------------
(* A trip of the executor's kill switch is not lost on its way to the database. *)

\* The executor's switch is on, and the cycle goes on.
TripPending == w.up /\ w.at \notin {"idle", "restore"} /\ w.ex.kill

\* The steps a cycle has left at most: 8 for each symbol and 7.
PointsLeft == [decide |-> 6, order |-> 5, status |-> 4, fill |-> 3, lock |-> 2, finish |-> 1,
               next |-> 7, release |-> 2, trip |-> 1]
CycleLeft == 8 * Len(w.todo) + PointsLeft[w.at]

\* Whatever is rejected, fails or is written in between, the cycle gets nearer to its end with the
\* switch on, unless it is persisted or the process dies.
TripDescends ==
    [][TripPending => \/ kill' \/ ~w'.up
                      \/ w' = w
                      \/ TripPending' /\ CycleLeft' < CycleLeft]_vars

\* A symbol less, or a point further for the same symbols, is nearer to the end.
LEMMA Nearer ==
    ASSUME NEW todo \in Seq(Entries), NEW more \in Seq(Entries), NEW m \in 1..7, NEW n \in 1..7,
           \/ todo = more /\ m < n
           \/ more # << >> /\ todo = Tail(more)
    PROVE  8 * Len(todo) + m < 8 * Len(more) + n
  <1> DEFINE a == Len(todo)
             b == Len(more)
  <1>1. a \in Nat /\ b \in Nat /\ ((a = b /\ m < n) \/ a = b - 1)
    OBVIOUS
  <1> HIDE DEF a, b
  <1>2. 8 * a + m < 8 * b + n
    BY <1>1
  <1> QED
    BY <1>2 DEF a, b

\* A rejected order leaves the executor as it is.
LEMMA TripRejects ==
    ASSUME NEW x, NEW o, NEW S, x.kill
    PROVE  submit_order(x, o, S) = Rejected(x)
  BY DEF submit_order, Inadmissible

LEMMA TripStep ==
    ASSUME Shape, TripPending, [Next]_vars
    PROVE  \/ kill' \/ ~w'.up
           \/ w' = w
           \/ TripPending' /\ CycleLeft' < CycleLeft
  <1>1. /\ DOMAIN w = Locals /\ w.up /\ w.at \in CyclePoints /\ w.todo \in Seq(Entries) /\ w.ex.kill
        /\ w.at \in SymbolPoints => w.todo # << >>
    BY DEF TripPending, Shape, Working, Job
  <1>2. PointsLeft[w.at] \in 1..7
    BY <1>1 DEF CyclePoints, SymbolPoints, PointsLeft
  <1>3. ASSUME NEW p \in CyclePoints, w'.up = w.up, w'.at = p, w'.ex = w.ex,
               \/ w'.todo = w.todo /\ PointsLeft[p] < PointsLeft[w.at]
               \/ w.todo # << >> /\ w'.todo = Tail(w.todo)
        PROVE  TripPending' /\ CycleLeft' < CycleLeft
    <2>1. PointsLeft[p] \in 1..7
      BY DEF CyclePoints, SymbolPoints, PointsLeft
    <2>2. Tail(w.todo) \in Seq(Entries) \/ w.todo = << >>
      BY <1>1
    <2>3. w'.todo \in Seq(Entries)
      BY <1>1, <1>3, <2>2
    <2>4. 8 * Len(w'.todo) + PointsLeft[p] < 8 * Len(w.todo) + PointsLeft[w.at]
      BY <1>1, <1>2, <1>3, <2>1, <2>3, Nearer
    <2>5. p \notin {"idle", "restore"}
      BY DEF CyclePoints, SymbolPoints
    <2> QED
      BY <1>1, <1>3, <2>4, <2>5 DEF TripPending, CycleLeft
  <1>4. CASE Decide
    <2>1. /\ w.at = "decide" /\ w'.up = w.up /\ w'.todo = w.todo /\ w'.ex = w.ex
          /\ w'.at \in {"order", "lock", "finish"}
      BY <1>1, <1>4 DEF Decide, At, after_planning, Locals
    <2> QED
      BY <1>3, <2>1 DEF CyclePoints, SymbolPoints, PointsLeft
  <1>5. CASE RecordOrder
    <2> DEFINE r == submit_order(w.ex, w.order, settings)
    <2>1. r.ex = w.ex
      BY <1>1, TripRejects DEF Rejected
    <2>2. \/ w' = [w EXCEPT !.at = "finish"]
          \/ w' = [w EXCEPT !.at = "status", !.ex = r.ex, !.status = r.status]
      BY <1>5 DEF RecordOrder
    <2> HIDE DEF r
    <2>3. /\ w.at = "order" /\ w'.up = w.up /\ w'.todo = w.todo /\ w'.ex = w.ex
          /\ w'.at \in {"status", "finish"}
      BY <1>1, <1>5, <2>1, <2>2 DEF RecordOrder, At, Locals
    <2> QED
      BY <1>3, <2>3 DEF CyclePoints, SymbolPoints, PointsLeft
  <1>6. CASE UpdateOrderStatus
    <2>1. /\ w.at = "status" /\ w'.up = w.up /\ w'.todo = w.todo /\ w'.ex = w.ex
          /\ w'.at \in {"fill", "finish"}
      BY <1>1, <1>6 DEF UpdateOrderStatus, At, Locals
    <2> QED
      BY <1>3, <2>1 DEF CyclePoints, SymbolPoints, PointsLeft
  <1>7. CASE RecordFill
    <2>1. w.at = "fill" /\ w'.up = w.up /\ w'.todo = w.todo /\ w'.ex = w.ex /\ w'.at = "lock"
      BY <1>1, <1>7 DEF RecordFill, At, Locals
    <2> QED
      BY <1>3, <2>1 DEF CyclePoints, SymbolPoints, PointsLeft
  <1>8. CASE SyncLock
    <2>1. w.at = "lock" /\ w'.up = w.up /\ w'.todo = w.todo /\ w'.ex = w.ex /\ w'.at = "finish"
      BY <1>1, <1>8 DEF SyncLock, At, Locals
    <2> QED
      BY <1>3, <2>1 DEF CyclePoints, SymbolPoints, PointsLeft
  <1>9. CASE FinishRun \/ SymbolFails
    <2>1. w.at \in SymbolPoints /\ w' = NextSymbol
      BY <1>9 DEF FinishRun, SymbolFails, InSymbolCycle, At, SymbolPoints
    <2>2. w'.up = w.up /\ w'.at = "next" /\ w'.ex = w.ex /\ w'.todo = Tail(w.todo)
      BY <1>1, <2>1 DEF NextSymbol, Locals
    <2> QED
      BY <1>1, <1>3, <2>1, <2>2 DEF CyclePoints
  <1>10. CASE StartRun
    <2>1. /\ w.at = "next" /\ w.todo # << >> /\ w'.up = w.up /\ w'.ex = w.ex
          /\ \/ w'.at = "decide" /\ w'.todo = w.todo
             \/ w'.at = "next" /\ w'.todo = Tail(w.todo)
      BY <1>1, <1>10 DEF StartRun, At, Locals
    <2> QED
      BY <1>3, <2>1 DEF CyclePoints, SymbolPoints, PointsLeft
  <1>11. CASE SaveBook
    <2>1. w.at = "next" /\ w'.up = w.up /\ w'.todo = w.todo /\ w'.ex = w.ex /\ w'.at = "release"
      BY <1>1, <1>11 DEF SaveBook, At, Locals
    <2> QED
      BY <1>3, <2>1 DEF CyclePoints, SymbolPoints, PointsLeft
  <1>12. CASE ReleaseStaleLocks
    <2>1. w.at = "release" /\ w'.up = w.up /\ w'.todo = w.todo /\ w'.ex = w.ex /\ w'.at = "trip"
      BY <1>1, <1>12 DEF ReleaseStaleLocks, At, Locals
    <2> QED
      BY <1>3, <2>1 DEF CyclePoints, SymbolPoints, PointsLeft
  <1>13. CASE PersistKill
    BY <1>1, <1>13 DEF PersistKill
  <1>14. CASE Crash
    BY <1>14 DEF Crash, Stopped
  <1>15. CASE Operator \/ UNCHANGED vars
    BY <1>15 DEF Operator, ApiStart, update_strategy, set_kill_switch, vars
  <1>16. ~(WorkerStart \/ Tick \/ RegisterCycle \/ RestoreAndScan)
    BY <1>1 DEF WorkerStart, Tick, RegisterCycle, RestoreAndScan, At, CyclePoints, SymbolPoints
  <1> QED
    BY <1>4, <1>5, <1>6, <1>7, <1>8, <1>9, <1>10, <1>11, <1>12, <1>13, <1>14, <1>15, <1>16
       DEF Next, Worker

\* A trip of the executor's kill switch reaches the database in at most 8 steps of the worker for
\* each symbol that is left and 7 more, or the process dies: every step of the cycle keeps the
\* switch on and gets nearer to the step that persists it (service.py, run_once).
THEOREM TripInTime ==
    Spec => /\ [](TripPending => CycleLeft \in Nat)
            /\ TripDescends
  <1>1. Shape => (TripPending => CycleLeft \in Nat)
    <2> SUFFICES ASSUME Shape, TripPending PROVE CycleLeft \in Nat
      OBVIOUS
    <2>1. w.todo \in Seq(Entries) /\ w.at \in CyclePoints
      BY DEF TripPending, Shape, Working, Job
    <2>2. Len(w.todo) \in Nat /\ PointsLeft[w.at] \in Nat
      BY <2>1 DEF CyclePoints, SymbolPoints, PointsLeft
    <2> QED
      BY <2>2 DEF CycleLeft
  <1>2. /\ Shape /\ [Next]_vars =>
             [TripPending => \/ kill' \/ ~w'.up
                             \/ w' = w
                             \/ TripPending' /\ CycleLeft' < CycleLeft]_vars
    BY TripStep
  <1> QED
    BY Held, <1>1, <1>2, PTL DEF Spec, TripDescends

-----------------------------------------------------------------------------
(* The deployment.                                                         *)

\* No deployment is accepted in live mode that did not ask for it in every variable that has a say.
THEOREM LiveDeployment == \A e \in Environments : LiveIsAskedFor(e)
<1>1. SUFFICES ASSUME NEW e \in Environments, Accepted(e), PolyMode(e) = "live"
               PROVE  /\ e.venue = "polymarket" /\ ~e.poly_dry_run /\ e.live_trading # "false"
                      /\ e.worker_enable_trading /\ ~e.worker_dry_run /\ e.credentials
                      /\ ~e.paper_trading
  BY DEF LiveIsAskedFor
<1>2. LiveOk(e)
  BY <1>1 DEF Accepted
<1>3. e.venue = "polymarket"
  BY <1>1, <1>2 DEF LiveOk, Venue, Environments, Unset
<1>4. ~e.paper_trading
  BY <1>1, <1>3 DEF Accepted, Venue, PolymarketVenueOk, Unset
<1>5. e.live_trading # "false"
  BY <1>1, <1>2 DEF LiveOk, LiveTrading, Environments, Unset
<1>6. QED
  BY <1>2, <1>3, <1>4, <1>5 DEF LiveOk

\* No worker process sends an order that moves money, on any of the three venues, but one of an
\* enabled deployment of "polymarket", and none to Polymarket that anything said dry run of.
THEOREM RealOrders == \A e \in Environments : RealOrdersAskedFor(e)
<1>1. TAKE e \in Environments
<1>2. Accepted(e) => AlpacaMode(e) # "live"
  BY DEF Accepted, PolymarketVenueOk, AlpacaVenueOk
<1>3. ASSUME StartsPolymarket(e)
      PROVE  /\ e.venue = "polymarket" /\ AlpacaMode(e) = "disabled" /\ ~e.paper_trading
             /\ e.worker_enable_trading /\ e.credentials
  <2>1. Accepted(e) /\ Venue(e) = "polymarket" /\ e.worker_enable_trading /\ e.credentials
    BY <1>3 DEF StartsPolymarket
  <2>2. e.venue = "polymarket"
    BY <2>1 DEF Venue, Unset
  <2>3. AlpacaMode(e) = "disabled" /\ ~e.paper_trading
    BY <2>1 DEF Accepted, PolymarketVenueOk
  <2> QED
    BY <2>1, <2>2, <2>3
<1>4. ASSUME StartsPolymarket(e), SendsOrders(e)
      PROVE  PolyMode(e) = "live" /\ e.live_trading # "false" /\ ~e.worker_dry_run /\ ~e.poly_dry_run
  <2>1. Accepted(e) /\ Venue(e) = "polymarket" /\ ~e.poly_dry_run
    BY <1>4 DEF StartsPolymarket, SendsOrders
  <2>2. PolyMode(e) = "live"
    BY <2>1 DEF Accepted, PolymarketVenueOk
  <2>3. ~e.worker_dry_run
    BY <2>1, <2>2 DEF Accepted, LiveOk
  <2>4. e.live_trading # "false"
    BY <2>1, <2>2, LiveDeployment DEF LiveIsAskedFor
  <2> QED
    BY <2>1, <2>2, <2>3, <2>4
<1>5. RealVenues(e) # {} => StartsPolymarket(e)
  BY DEF RealVenues
<1>6. "polymarket" \in RealVenues(e) => StartsPolymarket(e) /\ SendsOrders(e)
  BY DEF RealVenues, CarryVenues
<1>7. QED
  BY <1>2, <1>3, <1>4, <1>5, <1>6 DEF RealOrdersAskedFor

\* A started Polymarket worker sends orders exactly if the mode that was accepted is "live".
THEOREM OneReading == \A e \in Environments : ReadingsAgree(e)
<1>1. SUFFICES ASSUME NEW e \in Environments, StartsPolymarket(e), ConfigAccepted(e)
               PROVE  SendsOrders(e) <=> PolyMode(e) = "live"
  BY DEF ReadingsAgree
<1>2. Accepted(e) /\ Venue(e) = "polymarket"
  BY <1>1 DEF StartsPolymarket
<1>3. PolymarketVenueOk(e)
  BY <1>2 DEF Accepted
<1>4. PolyMode(e) = "live" => ~e.poly_dry_run
  BY <1>2 DEF Accepted, LiveOk
<1>5. ~e.poly_dry_run => PolyMode(e) = "live"
  BY <1>3 DEF PolymarketVenueOk
<1>6. QED
  BY <1>1, <1>4, <1>5 DEF SendsOrders, Environments

\* The second reading refuses what the first one has started a worker in for a blank
\* ALPACA_TRADING_MODE, for a number only the second reads, and, with POLY_DRY_RUN false, for a
\* "disabled" that was asked for; and for nothing else.
THEOREM SecondReading == \A e \in Environments : StartsOnce(e)
<1>1. SUFFICES ASSUME NEW e \in Environments, StartsPolymarket(e)
               PROVE  ConfigAccepted(e) <=> /\ e.alpaca_trading_mode # Blank /\ e.poly_numbers
                                            /\ ~e.poly_dry_run =>
                                                  "disabled" \notin {e.trading_mode, e.poly_trading_mode}
  BY DEF StartsOnce
<1>2. /\ Accepted(e) /\ Venue(e) = "polymarket" /\ e.venue = "polymarket"
      /\ e.worker_enable_trading /\ PolyMode(e) # "disabled" /\ e.credentials
  BY <1>1 DEF StartsPolymarket, Venue, Environments, Unset
<1>3. PolymarketVenueOk(e)
  BY <1>2 DEF Accepted
<1>4. e.alpaca_trading_mode \in {Unset, Blank, "disabled"}
  BY <1>2, <1>3 DEF PolymarketVenueOk, AlpacaMode
<1>5. /\ e.poly_trading_mode \in {Unset, "disabled", "dry_run", "live"}
      /\ e.live_trading \in {Unset, "true", "false"}
      /\ e.poly_dry_run \in BOOLEAN /\ e.poly_numbers \in BOOLEAN
      /\ e.trading_mode \in {Unset, "disabled", "dry_run", "paper", "live"}
  BY <1>1 DEF Environments, PolyModes, TradingModes, Unset
<1>6. CASE e.poly_dry_run
  <2>1. PolyMode(e) # "live"
    BY <1>2, <1>6 DEF Accepted, LiveOk
  <2>2. ConfigPolyMode(e) # "live"
    BY <1>2, <1>5, <1>6, <2>1 DEF ConfigPolyMode, PolyMode, PolyModeRead, Unset
  <2>3. ConfigAccepted(e) <=> e.poly_numbers /\ e.alpaca_trading_mode \in {Unset, "disabled"}
    BY <1>2, <1>6, <2>2 DEF ConfigAccepted
  <2>4. QED
    BY <1>4, <1>6, <2>3 DEF Blank, Unset
<1>7. CASE ~e.poly_dry_run
  <2>1. PolyMode(e) = "live" /\ LiveOk(e)
    BY <1>2, <1>3, <1>7 DEF PolymarketVenueOk, Accepted
  <2>2. /\ PolyModeRead(e) \in {"live", "disabled"}
        /\ PolyModeRead(e) = "disabled" <=> e.poly_trading_mode = "disabled"
    BY <1>2, <1>5, <1>7, <2>1 DEF PolyMode, PolyModeRead, Unset
  <2>3. ConfigPolyMode(e) = PolyModeRead(e)
    BY <1>2, <1>5, <1>7, <2>2 DEF ConfigPolyMode, PolyModeRead, Unset
  <2>4. ASSUME e.poly_trading_mode # "disabled"
        PROVE  ConfigTradingMode(e) = "live" <=> e.trading_mode # "disabled"
    <3>1. ConfigPolyMode(e) = "live" /\ PolyModeRead(e) = "live"
      BY <2>2, <2>3, <2>4
    <3>2. TradingMode(e) \in {"live", "disabled"}
      BY <1>3, <2>1 DEF PolymarketVenueOk
    <3> QED
      BY <1>2, <1>5, <3>1, <3>2 DEF ConfigTradingMode, TradingMode, Unset
  <2>5. ConfigPolyMode(e) = "live" => ConfigLive(e)
    BY <1>5, <2>1, <2>3 DEF ConfigLive, LiveOk, LiveTrading, Unset
  <2>6. ConfigAccepted(e) <=> /\ e.poly_numbers /\ e.alpaca_trading_mode \in {Unset, "disabled"}
                              /\ ConfigPolyMode(e) = "live" /\ ConfigTradingMode(e) = "live"
    BY <1>2, <1>7, <2>1, <2>5 DEF ConfigAccepted, LiveOk, Unset
  <2>7. ConfigPolyMode(e) = "live" <=> e.poly_trading_mode # "disabled"
    BY <2>2, <2>3
  <2>8. e.alpaca_trading_mode # Blank <=> e.alpaca_trading_mode \in {Unset, "disabled"}
    BY <1>4 DEF Blank, Unset
  <2>9. QED
    BY <1>7, <2>4, <2>6, <2>7, <2>8
<1>8. QED
  BY <1>5, <1>6, <1>7
=============================================================================
