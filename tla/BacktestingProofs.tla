-------------------------- MODULE BacktestingProofs --------------------------
(***************************************************************************)
(* Proofs about Backtesting: the design of the validation (its arithmetic  *)
(* holds for every series, horizon, cadence and maximum), and what the     *)
(* evaluation computes at the origins of that design.                      *)
(***************************************************************************)
EXTENDS Backtesting, FiniteSums

(* Division by a variable. *)

LEMMA DivFacts ==
    ASSUME NEW x \in Nat, NEW s \in Nat \ {0}
    PROVE  /\ x \div s \in Nat
           /\ (x \div s) * s <= x
           /\ x < (x \div s) * s + s
  BY SMT

LEMMA ExactDiv ==
    ASSUME NEW x \in Nat, NEW s \in Nat \ {0}, x % s = 0
    PROVE  (x \div s) * s = x
  BY SMT

LEMMA MultipleMod ==
    ASSUME NEW a \in Nat, NEW s \in Nat \ {0}
    PROVE  (a * s) % s = 0
  BY SMT

LEMMA ProductOrder ==
    ASSUME NEW a \in Nat, NEW b \in Nat, NEW s \in Nat \ {0}
    PROVE  /\ a * s \in Nat
           /\ a <= b => a * s <= b * s
           /\ a * s <= 0 => a = 0
  BY SMT

LEMMA HalfFacts ==
    ASSUME NEW x \in Int
    PROVE  x \div 2 \in Int /\ 2 * (x \div 2) <= x /\ x <= 2 * (x \div 2) + 1
  BY SMT
-----------------------------------------------------------------------------
(* backtest_config *)

LEMMA DesignTypes ==
    ASSUME NEW in \in BacktestRequest, Accepted(in)
    PROVE  /\ MinimumTrain(in) \in Nat /\ MinimumTrain(in) >= 10
           /\ Reserve(in) \in Nat
           /\ Reserve(in) > 0 => in.length >= 10 + 3 * Reserve(in)
           /\ SelectionLength(in) \in Nat
           /\ MinimumHistory(in) \in Nat /\ MinimumHistory(in) >= 2
           /\ Evaluated(in) \in Nat \ {0} /\ Evaluated(in) <= in.horizon
           /\ InitialTrain(in) \in Nat
           /\ Step(in) \in Nat \ {0}
  <1> DEFINE sel == SelectionLength(in)
  <1>0. in.length \in Nat /\ in.horizon \in Nat /\ in.horizon >= 1 /\ in.period \in Nat
        /\ in.step \in Int \cup {Default}
    BY DEF BacktestRequest, Accepted
  <1>1. MinimumTrain(in) \in Nat /\ MinimumTrain(in) >= 10
    BY <1>0, SMT DEF MinimumTrain, Most
  <1>2. /\ Reserve(in) \in Nat /\ Reserve(in) <= in.length
        /\ Reserve(in) > 0 => in.length >= 10 + 3 * Reserve(in)
    BY <1>0, <1>1, SMT DEF Reserve
  <1>3. sel \in Nat
    BY <1>0, <1>2, SMT DEF SelectionLength
  <1>4. sel \div 2 \in Int
    BY <1>3, HalfFacts
  <1>5. MinimumHistory(in) \in Nat /\ MinimumHistory(in) >= 2
    BY <1>1, <1>3, <1>4, SMT DEF MinimumHistory, Least, Most
  <1>6. (sel - MinimumHistory(in)) \div 2 \in Int
    BY <1>3, <1>5, HalfFacts
  <1>7. Evaluated(in) \in Nat \ {0} /\ Evaluated(in) <= in.horizon
    BY <1>0, <1>6, SMT DEF Evaluated, Least, Most
  <1>8. InitialTrain(in) \in Nat
    BY <1>1, <1>3, <1>4, <1>7, SMT DEF InitialTrain, Least, Most
  <1>9. Step(in) \in Nat \ {0}
    BY <1>0, <1>7, BacktestingAssumption, SMT DEF Step, Accepted
  <1> QED
    BY <1>1, <1>2, <1>3, <1>5, <1>7, <1>8, <1>9

\* The reserve is only made when the full horizon fits twice before it.
LEMMA ReserveMeansFullHorizon ==
    ASSUME NEW in \in BacktestRequest, Accepted(in), Reserve(in) > 0
    PROVE  Reserve(in) = in.horizon /\ Evaluated(in) = in.horizon
  <1> DEFINE sel == SelectionLength(in)
             room == sel - MinimumHistory(in)
  <1>0. in.length \in Nat /\ in.horizon \in Nat /\ in.horizon >= 1
    BY DEF BacktestRequest, Accepted
  <1>1. Reserve(in) = in.horizon /\ in.length >= MinimumTrain(in) + 3 * in.horizon
    BY <1>0, SMT DEF Reserve
  <1>2. /\ MinimumTrain(in) \in Nat /\ MinimumHistory(in) \in Nat /\ sel \in Nat
    BY DesignTypes
  <1>3. sel >= MinimumTrain(in) + 2 * in.horizon
    BY <1>0, <1>1, <1>2, SMT DEF SelectionLength
  <1>4. MinimumHistory(in) <= MinimumTrain(in)
    <2>1. sel \div 2 \in Int
      BY <1>2, HalfFacts
    <2> QED
      BY <2>1, <1>2, SMT DEF MinimumHistory, Least, Most
  <1>5. room \in Int /\ room >= 2 * in.horizon
    BY <1>0, <1>2, <1>3, <1>4, SMT
  <1>6. room \div 2 \in Int /\ room <= 2 * (room \div 2) + 1
    BY <1>5, HalfFacts
  <1>7. room \div 2 >= in.horizon
    BY <1>0, <1>5, <1>6, SMT
  <1>8. Evaluated(in) = in.horizon
    BY <1>0, <1>6, <1>7, SMT DEF Evaluated, Least, Most
  <1> QED
    BY <1>1, <1>8

\* Two windows and the promised history fit into the selection part.
LEMMA HistoryAndTwoWindows ==
    ASSUME NEW in \in BacktestRequest, Accepted(in), SelectionLength(in) >= 4
    PROVE  /\ InitialTrain(in) >= MinimumHistory(in)
           /\ InitialTrain(in) + 2 * Evaluated(in) <= SelectionLength(in)
  <1> DEFINE sel == SelectionLength(in)
             room == sel - MinimumHistory(in)
  <1>1. /\ MinimumTrain(in) \in Nat /\ MinimumTrain(in) >= 10
        /\ MinimumHistory(in) \in Nat /\ MinimumHistory(in) >= 2
        /\ sel \in Nat /\ Evaluated(in) \in Nat \ {0}
    BY DesignTypes
  <1>2. sel \div 2 \in Int /\ 2 * (sel \div 2) <= sel /\ sel <= 2 * (sel \div 2) + 1
    BY <1>1, HalfFacts
  <1>3. MinimumHistory(in) <= sel \div 2
    BY <1>1, <1>2, SMT DEF MinimumHistory, Least, Most
  <1>4. room \in Int /\ room >= 2
    BY <1>1, <1>2, <1>3, SMT
  <1>5. room \div 2 \in Int /\ 2 * (room \div 2) <= room /\ room <= 2 * (room \div 2) + 1
    BY <1>4, HalfFacts
  <1>6. room \div 2 >= 1
    BY <1>4, <1>5, SMT
  <1>7. in.horizon \in Int
    BY DEF BacktestRequest
  <1>8. Evaluated(in) <= room \div 2
    BY <1>5, <1>6, <1>7, SMT DEF Evaluated, Least, Most
  <1>9. sel - 2 * Evaluated(in) >= MinimumHistory(in)
    BY <1>1, <1>5, <1>8, SMT
  <1>10. MinimumHistory(in) <= MinimumTrain(in)
    BY <1>1, <1>2, SMT DEF MinimumHistory, Least, Most
  <1> QED
    BY <1>1, <1>2, <1>9, <1>10, SMT DEF InitialTrain, Least, Most
-----------------------------------------------------------------------------
(* generate_folds *)

Designed == input \in BacktestRequest /\ Accepted(input) /\ cfg = Config(input)

LEMMA FoldDesign ==
    ASSUME Designed
    PROVE  /\ cfg.reserve = Reserve(input) /\ cfg.horizon = Evaluated(input)
           /\ cfg.step = Step(input) /\ cfg.initial = InitialTrain(input)
           /\ FinalTestSize = cfg.reserve /\ EndLimit = SelectionLength(input)
           /\ Latest \in Int /\ Earliest \in Nat \ {0}
           /\ cfg.step \in Nat \ {0} /\ cfg.horizon \in Nat \ {0}
           /\ cfg.reserve \in Nat /\ input.length \in Nat
           /\ EligibleOrigins \in Nat
  <1>1. /\ cfg.reserve = Reserve(input) /\ cfg.horizon = Evaluated(input)
        /\ cfg.step = Step(input) /\ cfg.initial = InitialTrain(input)
    BY DEF Designed, Config
  <1>2. /\ Reserve(input) \in Nat
        /\ Reserve(input) > 0 => input.length >= 10 + 3 * Reserve(input)
        /\ SelectionLength(input) \in Nat /\ Evaluated(input) \in Nat \ {0}
        /\ Step(input) \in Nat \ {0} /\ InitialTrain(input) \in Nat
    BY DesignTypes DEF Designed
  <1>3. input.length \in Nat
    BY DEF Designed, BacktestRequest
  <1>4. FinalTestSize = cfg.reserve
    BY <1>1, <1>2, <1>3, SMT DEF FinalTestSize, Least, Most
  <1>5. EndLimit = SelectionLength(input)
    BY <1>1, <1>4 DEF EndLimit, SelectionLength
  <1>6. Latest \in Int /\ Earliest \in Nat \ {0}
    BY <1>1, <1>2, <1>5, SMT DEF Latest, Earliest, Least, Most
  <1>7. EligibleOrigins \in Nat
    <2>1. CASE Latest < Earliest
      BY <2>1 DEF EligibleOrigins
    <2>2. CASE ~(Latest < Earliest)
      <3>1. Latest - Earliest \in Nat
        BY <2>2, <1>6, SMT
      <3>2. (Latest - Earliest) \div cfg.step \in Nat
        BY <3>1, <1>1, <1>2, DivFacts
      <3> QED
        BY <2>2, <3>2, SMT DEF EligibleOrigins
    <2> QED
      BY <2>1, <2>2
  <1> QED
    BY <1>1, <1>2, <1>3, <1>4, <1>5, <1>6, <1>7

\* The cadence from the latest origin backwards.
LEMMA OriginFacts ==
    ASSUME Designed, EligibleOrigins > 0
    PROVE  /\ \A i \in 0..(EligibleOrigins - 1) :
                 /\ Origin(i) \in Int /\ Earliest <= Origin(i) /\ Origin(i) <= Latest
                 /\ (Latest - Origin(i)) % cfg.step = 0
           /\ \A i, j \in 0..(EligibleOrigins - 1) : i < j => Origin(i) < Origin(j)
           /\ Origin(EligibleOrigins - 1) = Latest
           /\ Origin(0) <= Earliest + cfg.step - 1
  <1> DEFINE span == Latest - Earliest
             q == span \div cfg.step
  <1>1. /\ Latest \in Int /\ Earliest \in Nat \ {0} /\ cfg.step \in Nat \ {0}
        /\ EligibleOrigins \in Nat
    BY FoldDesign
  <1>2. span \in Nat /\ EligibleOrigins = q + 1
    BY <1>1, SMT DEF EligibleOrigins
  <1>3. q \in Nat /\ q * cfg.step <= span /\ span < q * cfg.step + cfg.step
    BY <1>1, <1>2, DivFacts
  <1> HIDE DEF q
  <1>4. \A i \in 0..(EligibleOrigins - 1) :
           /\ Origin(i) = Latest - (q - i) * cfg.step
           /\ q - i \in Nat /\ q - i <= q
    BY <1>1, <1>2, <1>3, SMT DEF Origin
  <1>5. ASSUME NEW i \in 0..(EligibleOrigins - 1)
        PROVE  /\ Origin(i) \in Int /\ Earliest <= Origin(i) /\ Origin(i) <= Latest
               /\ (Latest - Origin(i)) % cfg.step = 0
    <2>1. (q - i) * cfg.step <= q * cfg.step /\ (q - i) * cfg.step \in Nat
      BY <1>1, <1>3, <1>4, ProductOrder
    <2>2. Origin(i) \in Int /\ Earliest <= Origin(i) /\ Origin(i) <= Latest
      BY <2>1, <1>1, <1>2, <1>3, <1>4, SMT
    <2>3. Latest - Origin(i) = (q - i) * cfg.step
      BY <2>1, <1>1, <1>4, SMT
    <2>4. ((q - i) * cfg.step) % cfg.step = 0
      BY <1>1, <1>4, MultipleMod
    <2> QED
      BY <2>2, <2>3, <2>4
  <1>6. ASSUME NEW i \in 0..(EligibleOrigins - 1), NEW j \in 0..(EligibleOrigins - 1), i < j
        PROVE  Origin(i) < Origin(j)
    <2>1. (q - i) * cfg.step > (q - j) * cfg.step
      BY <1>1, <1>3, <1>4, <1>6, SMT
    <2>2. (q - i) * cfg.step \in Int /\ (q - j) * cfg.step \in Int
      BY <1>1, <1>3, <1>4, SMT
    <2> QED
      BY <2>1, <2>2, <1>1, <1>4, SMT
  <1>7. Origin(EligibleOrigins - 1) = Latest /\ Origin(0) <= Earliest + cfg.step - 1
    <2>1. Origin(EligibleOrigins - 1) = Latest - 0 * cfg.step
      BY <1>1, <1>2, <1>3, SMT DEF Origin
    <2>2. Origin(0) = Latest - q * cfg.step
      BY <1>1, <1>2, <1>3, SMT DEF Origin
    <2>3. q * cfg.step \in Nat
      BY <1>1, <1>3, SMT
    <2> QED
      BY <2>1, <2>2, <2>3, <1>1, <1>2, <1>3, SMT
  <1> QED
    BY <1>5, <1>6, <1>7

\* np.linspace picks different eligible origins, the first and the last among
\* them, also when interior points are rounded down.
LEMMA SpreadFacts ==
    ASSUME Designed, EligibleOrigins > input.maxOrigins, NEW low \in SUBSET ExactPoints
    PROVE  /\ \A i \in 0..(input.maxOrigins - 1) : Sampled(i, low) \in 0..(EligibleOrigins - 1)
           /\ \A i, j \in 0..(input.maxOrigins - 1) :
                 i < j => Sampled(i, low) < Sampled(j, low)
           /\ Sampled(0, low) = 0
           /\ Sampled(input.maxOrigins - 1, low) = EligibleOrigins - 1
  <1> DEFINE d == input.maxOrigins - 1
             L == EligibleOrigins - 1
             q(i) == (i * L) \div d
             r(i) == IF i \in low THEN 1 ELSE 0
  <1>1. d \in Nat \ {0} /\ L \in Nat /\ L >= d + 1
    BY FoldDesign, SMT DEF Designed, Accepted
  <1>2. ASSUME NEW i \in 0..d
        PROVE  /\ i * L \in Nat
               /\ q(i) \in Nat /\ q(i) * d <= i * L /\ i * L < q(i) * d + d
               /\ i \in low => i \in 1..(d - 1) /\ q(i) * d = i * L
    <2>1. i * L \in Nat
      BY <1>1, SMT
    <2>2. q(i) \in Nat /\ q(i) * d <= i * L /\ i * L < q(i) * d + d
      BY <2>1, <1>1, DivFacts
    <2>3. ASSUME i \in low
          PROVE  i \in 1..(d - 1) /\ (i * L) % d = 0
      <3>1. i \in ExactPoints
        BY <2>3
      <3>2. input.maxOrigins \in Int
        BY DEF Designed, BacktestRequest
      <3> QED
        BY <3>1, <3>2, SMT DEF ExactPoints
    <2>4. i \in low => q(i) * d = i * L
      BY <2>1, <2>3, <1>1, ExactDiv
    <2> QED
      BY <2>1, <2>2, <2>3, <2>4
  <1>3. \A i \in 0..d : Sampled(i, low) = q(i) - r(i)
    BY DEF Sampled
  <1> HIDE DEF q
  <1>a. 0 \in 0..d /\ d \in 0..d
    BY <1>1, SMT
  <1>4. ASSUME NEW i \in 0..d, NEW j \in 0..d, i < j
        PROVE  q(i) - r(i) < q(j) - r(j)
    <2>1. j * L >= i * L + L
      BY <1>1, <1>4, SMT
    <2>2. q(i) \in Nat /\ q(j) \in Nat /\ q(i) * d <= i * L /\ i * L \in Nat /\ j * L \in Nat
          /\ j * L < q(j) * d + d
      BY <1>2
    <2>3. q(i) * d \in Nat /\ q(j) * d \in Nat
      BY <2>2, <1>1, SMT
    <2>4. q(i) * d + 1 < q(j) * d
      BY <2>1, <2>2, <2>3, <1>1, SMT
    <2>5. q(i) < q(j)
      BY <2>4, <2>2, <1>1, SMT
    <2>6. ASSUME j \in low PROVE q(i) + 1 < q(j)
      <3>1. q(j) * d = j * L
        BY <2>6, <1>2
      <3>2. q(j) * d > q(i) * d + d
        BY <3>1, <2>1, <2>2, <2>3, <1>1, SMT
      <3>3. q(j) * d > (q(i) + 1) * d
        BY <3>2, <2>2, <2>3, <1>1, SMT
      <3> QED
        BY <3>3, <2>2, <1>1, SMT
    <2> QED
      BY <2>2, <2>5, <2>6, SMT
  <1>5. q(0) - r(0) = 0
    <2>1. q(0) \in Nat /\ q(0) * d <= 0 * L /\ (0 \in low => 0 \in 1..(d - 1))
      BY <1>2, <1>a
    <2>2. q(0) * d <= 0
      BY <2>1, <1>1, SMT
    <2>3. q(0) = 0
      BY <2>1, <2>2, <1>1, ProductOrder
    <2> QED
      BY <2>1, <2>3, <1>1, SMT
  <1>6. q(d) - r(d) = L
    <2>1. /\ q(d) \in Nat /\ q(d) * d <= d * L /\ d * L < q(d) * d + d
          /\ d \in low => d \in 1..(d - 1)
      BY <1>2, <1>a
    <2>2. q(d) = L
      BY <2>1, <1>1, SMT
    <2> QED
      BY <2>1, <2>2, <1>1, SMT
  <1>7. ASSUME NEW i \in 0..d
        PROVE  q(i) - r(i) \in 0..L
    <2>1. q(i) \in Nat /\ q(0) \in Nat /\ q(d) \in Nat
      BY <1>2, <1>a
    <2>2. CASE i = 0
      BY <2>2, <1>1, <1>5, SMT
    <2>3. CASE i = d
      BY <2>3, <1>1, <1>6, SMT
    <2>4. CASE i # 0 /\ i # d
      <3>1. q(0) - r(0) < q(i) - r(i)
        BY <2>4, <1>1, <1>4, SMT
      <3>2. q(i) - r(i) < q(d) - r(d)
        BY <2>4, <1>1, <1>4, SMT
      <3> QED
        BY <3>1, <3>2, <2>1, <1>1, <1>5, <1>6, SMT
    <2> QED
      BY <2>2, <2>3, <2>4
  <1> QED
    BY <1>3, <1>4, <1>5, <1>6, <1>7, <1>a
-----------------------------------------------------------------------------
(* The design in every reachable state *)

FoldsMade ==
    /\ Designed
    /\ origins \in Seq(Int)
    /\ Len(origins) = Least(EligibleOrigins, input.maxOrigins)
    /\ \A k \in DOMAIN origins :
          /\ Earliest <= origins[k] /\ origins[k] <= Latest
          /\ (Latest - origins[k]) % cfg.step = 0
    /\ \A j, k \in DOMAIN origins : j < k => origins[j] < origins[k]
    /\ origins # <<>> => /\ origins[Len(origins)] = Latest
                         /\ origins[1] <= Earliest + cfg.step - 1

Phases == {"configure", "folds", "backtest", "produce", "audit", "done", "error"}

DesignInv ==
    /\ input \in BacktestRequest
    /\ stage \in Phases
    /\ \/ /\ stage \in {"configure", "error"}
          /\ cfg = None /\ origins = <<>>
       \/ stage = "folds" /\ Designed /\ origins = <<>>
       \/ stage \in Phases \ {"configure", "folds"} /\ FoldsMade

LEMMA FoldsAreMade ==
    ASSUME DesignInv, GenerateFolds
    PROVE  FoldsMade'
  <1> DEFINE m == input.maxOrigins
  <1>1. Designed
    BY DEF DesignInv, GenerateFolds
  <1>2. /\ Latest \in Int /\ Earliest \in Nat \ {0} /\ cfg.step \in Nat \ {0}
        /\ EligibleOrigins \in Nat
    BY <1>1, FoldDesign
  <1>3. m \in 2..30
    BY <1>1 DEF Designed, Accepted
  <1>4. UNCHANGED <<input, cfg>>
    BY DEF GenerateFolds
  <1>5. /\ Designed' /\ Latest' = Latest /\ Earliest' = Earliest /\ EligibleOrigins' = EligibleOrigins
        /\ cfg'.step = cfg.step /\ input'.maxOrigins = m
    BY <1>1, <1>4 DEF Designed, Latest, Earliest, EligibleOrigins, EndLimit, FinalTestSize
  <1>6. PICK pick : /\ origins' = [k \in 1..Least(EligibleOrigins, m) |-> Origin(pick[k - 1])]
                    /\ \A i \in 0..(Least(EligibleOrigins, m) - 1) : pick[i] \in 0..(EligibleOrigins - 1)
                    /\ \A i, j \in 0..(Least(EligibleOrigins, m) - 1) : i < j => pick[i] < pick[j]
                    /\ EligibleOrigins > 0 => /\ pick[0] = 0
                                       /\ pick[Least(EligibleOrigins, m) - 1] = EligibleOrigins - 1
    <2>1. CASE EligibleOrigins <= m
      <3> DEFINE f == [i \in 0..(EligibleOrigins - 1) |-> i]
      <3>1. Least(EligibleOrigins, m) = EligibleOrigins
        BY <2>1 DEF Least
      <3>2. origins' = [k \in 1..EligibleOrigins |-> Origin(k - 1)]
        BY <2>1 DEF GenerateFolds
      <3>3. \A k \in 1..EligibleOrigins : f[k - 1] = k - 1
        BY <1>2, SMT
      <3>4. origins' = [k \in 1..EligibleOrigins |-> Origin(f[k - 1])]
        BY <3>2, <3>3, Zenon
      <3>5. EligibleOrigins > 0 => 0 \in 0..(EligibleOrigins - 1) /\ EligibleOrigins - 1 \in 0..(EligibleOrigins - 1)
        BY <1>2, SMT
      <3>6. \A i \in 0..(EligibleOrigins - 1) : f[i] = i
        OBVIOUS
      <3> HIDE DEF f
      <3> WITNESS f
      <3> QED
        BY <3>1, <3>4, <3>5, <3>6
    <2>2. CASE ~(EligibleOrigins <= m)
      <3>1. PICK low \in SUBSET ExactPoints :
                origins' = [k \in 1..m |-> Origin(Sampled(k - 1, low))]
        BY <2>2 DEF GenerateFolds
      <3> DEFINE f == [i \in 0..(m - 1) |-> Sampled(i, low)]
      <3>2. Least(EligibleOrigins, m) = m /\ EligibleOrigins > m
        BY <2>2, <1>2, <1>3, SMT DEF Least
      <3>0. \A i \in 0..(m - 1) : f[i] = Sampled(i, low)
        OBVIOUS
      <3> HIDE DEF f
      <3>3. \A k \in 1..m : f[k - 1] = Sampled(k - 1, low)
        <4> SUFFICES ASSUME NEW k \in 1..m PROVE f[k - 1] = Sampled(k - 1, low)
          OBVIOUS
        <4>1. k - 1 \in 0..(m - 1)
          BY <1>3, SMT
        <4> QED
          BY <4>1, <3>0
      <3>4. origins' = [k \in 1..m |-> Origin(f[k - 1])]
        BY <3>1, <3>3, Zenon
      <3>5. 0 \in 0..(m - 1) /\ m - 1 \in 0..(m - 1)
        BY <1>3, SMT
      <3>6. /\ \A i \in 0..(m - 1) : Sampled(i, low) \in 0..(EligibleOrigins - 1)
            /\ \A i, j \in 0..(m - 1) : i < j => Sampled(i, low) < Sampled(j, low)
            /\ Sampled(0, low) = 0 /\ Sampled(m - 1, low) = EligibleOrigins - 1
        BY <1>1, <3>2, SpreadFacts
      <3> WITNESS f
      <3> QED
        BY <3>0, <3>2, <3>4, <3>5, <3>6
    <2> QED
      BY <2>1, <2>2
  <1> DEFINE n == Least(EligibleOrigins, m)
  <1>7. n \in Nat /\ n <= m /\ (n > 0 => EligibleOrigins > 0)
    BY <1>2, <1>3, SMT DEF Least
  <1>8. ASSUME NEW k \in 1..n
        PROVE  /\ k - 1 \in 0..(n - 1) /\ pick[k - 1] \in 0..(EligibleOrigins - 1)
               /\ origins'[k] = Origin(pick[k - 1])
    BY <1>6, <1>7, SMT
  <1>9. \A k \in 1..n : /\ origins'[k] \in Int
                        /\ Earliest <= origins'[k] /\ origins'[k] <= Latest
                        /\ (Latest - origins'[k]) % cfg.step = 0
    <2> SUFFICES ASSUME NEW k \in 1..n
                 PROVE  /\ Origin(pick[k - 1]) \in Int
                        /\ Earliest <= Origin(pick[k - 1])
                        /\ Origin(pick[k - 1]) <= Latest
                        /\ (Latest - Origin(pick[k - 1])) % cfg.step = 0
      BY <1>8
    <2>1. EligibleOrigins > 0
      BY <1>7, SMT
    <2> QED
      BY <1>1, <1>8, <2>1, OriginFacts
  <1>10. DOMAIN origins' = 1..n /\ origins' \in Seq(Int) /\ Len(origins') = n
    <2>1. origins' = [k \in 1..n |-> origins'[k]]
      BY <1>6
    <2>2. \A k \in 1..n : origins'[k] \in Int
      BY <1>9
    <2> HIDE DEF n
    <2> QED
      BY <1>7, <2>1, <2>2, SMT
  <1>11. \A j, k \in 1..n : j < k => origins'[j] < origins'[k]
    <2> SUFFICES ASSUME NEW j \in 1..n, NEW k \in 1..n, j < k
                 PROVE  Origin(pick[j - 1]) < Origin(pick[k - 1])
      BY <1>8
    <2>1. EligibleOrigins > 0 /\ j - 1 < k - 1
      BY <1>7, SMT
    <2>2. pick[j - 1] < pick[k - 1]
      BY <1>6, <1>8, <2>1
    <2> QED
      BY <1>1, <1>8, <2>1, <2>2, OriginFacts
  <1>12. origins' # <<>> => /\ origins'[n] = Latest
                            /\ origins'[1] <= Earliest + cfg.step - 1
    <2> SUFFICES ASSUME origins' # <<>>
                 PROVE  /\ origins'[n] = Latest
                        /\ origins'[1] <= Earliest + cfg.step - 1
      OBVIOUS
    <2>1. n > 0
      BY <1>7, <1>10
    <2>2. 1 \in 1..n /\ n \in 1..n /\ 1 - 1 = 0
      BY <1>7, <2>1, SMT
    <2>3. origins'[n] = Origin(EligibleOrigins - 1) /\ origins'[1] = Origin(0)
      BY <1>6, <1>7, <1>8, <2>1, <2>2
    <2> QED
      BY <1>1, <1>7, <2>1, <2>3, OriginFacts
  <1> QED
    BY <1>5, <1>9, <1>10, <1>11, <1>12 DEF FoldsMade

LEMMA DesignPreserved == DesignInv /\ [BacktestNext]_backtestVars => DesignInv'
  <1> SUFFICES ASSUME DesignInv, [BacktestNext]_backtestVars PROVE DesignInv'
    OBVIOUS
  <1>1. CASE Configure
    BY <1>1 DEF Configure, DesignInv, Designed, Phases
  <1>2. CASE GenerateFolds
    <2>1. FoldsMade'
      BY <1>2, FoldsAreMade
    <2> QED
      BY <1>2, <2>1 DEF GenerateFolds, DesignInv, Phases
  <1>3. ASSUME stage \notin {"configure", "folds"} \/ stage' = stage,
               stage' \in Phases \ {"configure", "folds"} \/ stage' = stage,
               UNCHANGED <<input, cfg, origins>>,
               stage = "error" => stage' = stage
        PROVE  DesignInv'
    <2>1. /\ FoldsMade => FoldsMade'
          /\ Designed => Designed'
      BY <1>3 DEF FoldsMade, Designed, Latest, Earliest, EligibleOrigins, EndLimit,
                  FinalTestSize
    <2> QED
      BY <1>3, <2>1 DEF DesignInv, Phases
  <1>4. CASE FitPart
    BY <1>4, <1>3 DEF FitPart
  <1>5. CASE ScoreFold \/ SkipFold \/ FailFold
    BY <1>5, <1>3 DEF ScoreFold, SkipFold, FailFold, Report
  <1>6. CASE Select
    BY <1>6, <1>3 DEF Select, Phases
  <1>7. CASE Produced \/ ProductionFails
    BY <1>7, <1>3 DEF Produced, ProductionFails, Phases
  <1>8. CASE Audited
    BY <1>8, <1>3 DEF Audited, Phases
  <1>9. CASE UNCHANGED backtestVars
    BY <1>9, <1>3 DEF backtestVars
  <1> QED
    BY <1>1, <1>2, <1>4, <1>5, <1>6, <1>7, <1>8, <1>9 DEF BacktestNext

LEMMA DesignAlways == BacktestSpec => []DesignInv
  <1>1. BacktestInit => DesignInv
    BY BacktestingAssumption DEF BacktestInit, DesignInv, Phases
  <1> QED
    BY <1>1, DesignPreserved, PTL DEF BacktestSpec

\* Sampled or not, the folds rise strictly, keep the cadence, are no more than
\* the maximum and include the latest origin and the first of the cadence.
THEOREM OriginsAreSpread == BacktestSpec => []OriginsSpread
  <1>1. DesignInv => OriginsSpread
    <2> SUFFICES ASSUME DesignInv, Folded, origins # <<>>
                 PROVE  /\ Len(origins) <= input.maxOrigins
                        /\ \A j, k \in DOMAIN origins : j < k => origins[j] < origins[k]
                        /\ \A k \in DOMAIN origins : (Latest - origins[k]) % cfg.step = 0
                        /\ origins[Len(origins)] = Latest
                        /\ origins[1] \in Earliest..(Earliest + cfg.step - 1)
      BY DEF OriginsSpread
    <2>1. FoldsMade
      BY DEF DesignInv, Folded
    <2>2. EligibleOrigins \in Nat /\ Earliest \in Nat /\ cfg.step \in Nat
      BY <2>1, FoldDesign DEF FoldsMade
    <2>3. Len(origins) <= input.maxOrigins
      <3>1. input.maxOrigins \in Int
        BY <2>1 DEF FoldsMade, Designed, BacktestRequest
      <3> QED
        BY <2>1, <2>2, <3>1, SMT DEF FoldsMade, Least
    <2>4. 1 \in DOMAIN origins /\ origins[1] \in Int
      BY <2>1, SMT DEF FoldsMade
    <2>5. origins[1] \in Earliest..(Earliest + cfg.step - 1)
      BY <2>1, <2>2, <2>4, SMT DEF FoldsMade
    <2> QED
      BY <2>1, <2>3, <2>5 DEF FoldsMade
  <1> QED
    BY <1>1, DesignAlways, PTL

\* A final test is only reserved when the requested horizon was evaluated.
THEOREM AuditsTheFullHorizon == BacktestSpec => []FullHorizonAudit
  <1>1. DesignInv => FullHorizonAudit
    <2> SUFFICES ASSUME DesignInv, Configured, cfg.reserve > 0
                 PROVE  cfg.reserve = input.horizon /\ cfg.horizon = input.horizon
      BY DEF FullHorizonAudit
    <2>1. Designed
      BY DEF DesignInv, Configured, FoldsMade
    <2>2. cfg.reserve = Reserve(input) /\ cfg.horizon = Evaluated(input)
      BY <2>1, FoldDesign
    <2> QED
      BY <2>1, <2>2, ReserveMeansFullHorizon DEF Designed
  <1> QED
    BY <1>1, DesignAlways, PTL

\* No origin has less history than promised.
THEOREM EveryOriginHasHistory == BacktestSpec => []EnoughHistory
  <1>1. DesignInv => EnoughHistory
    <2> SUFFICES ASSUME DesignInv, Folded, SelectionLength(input) >= 4,
                        NEW k \in DOMAIN origins
                 PROVE  origins[k] >= MinimumHistory(input)
      BY DEF EnoughHistory
    <2>1. FoldsMade /\ Designed
      BY DEF DesignInv, Folded, FoldsMade
    <2>2. /\ InitialTrain(input) >= MinimumHistory(input)
          /\ InitialTrain(input) + 2 * Evaluated(input) <= SelectionLength(input)
      BY <2>1, HistoryAndTwoWindows DEF Designed
    <2>3. /\ cfg.horizon = Evaluated(input) /\ cfg.initial = InitialTrain(input)
          /\ EndLimit = SelectionLength(input)
      BY <2>1, FoldDesign
    <2>4. /\ MinimumHistory(input) \in Nat /\ InitialTrain(input) \in Nat
          /\ Evaluated(input) \in Nat \ {0} /\ SelectionLength(input) \in Nat
          /\ MinimumHistory(input) >= 2
      BY <2>1, DesignTypes DEF Designed
    <2>5. Earliest >= MinimumHistory(input) /\ Earliest \in Int
      BY <2>2, <2>3, <2>4, SMT DEF Earliest, Latest, Least, Most
    <2>6. origins[k] \in Int /\ origins[k] >= Earliest
      BY <2>1, SMT DEF FoldsMade
    <2> QED
      BY <2>4, <2>5, <2>6, SMT
  <1> QED
    BY <1>1, DesignAlways, PTL

\* The default cadence leaves two origins.
THEOREM DefaultCadenceIsRankable == BacktestSpec => []TwoOriginsByDefault
  <1>1. DesignInv => TwoOriginsByDefault
    <2> SUFFICES ASSUME DesignInv, Folded, input.step = Default,
                        SelectionLength(input) >= 4
                 PROVE  Len(origins) >= 2
      BY DEF TwoOriginsByDefault
    <2>1. FoldsMade /\ Designed
      BY DEF DesignInv, Folded, FoldsMade
    <2>2. InitialTrain(input) + 2 * Evaluated(input) <= SelectionLength(input)
      BY <2>1, HistoryAndTwoWindows DEF Designed
    <2>3. /\ cfg.horizon = Evaluated(input) /\ cfg.initial = InitialTrain(input)
          /\ EndLimit = SelectionLength(input) /\ cfg.step = Evaluated(input)
          /\ EligibleOrigins \in Nat
      BY <2>1, FoldDesign DEF Step
    <2>4. /\ InitialTrain(input) \in Nat
          /\ Evaluated(input) \in Nat \ {0} /\ SelectionLength(input) \in Nat
      BY <2>1, DesignTypes DEF Designed
    <2>5. InitialTrain(input) >= 1
      <3>1. /\ InitialTrain(input) >= MinimumHistory(input)
            /\ MinimumHistory(input) \in Nat /\ MinimumHistory(input) >= 2
        BY <2>1, HistoryAndTwoWindows, DesignTypes DEF Designed
      <3> QED
        BY <3>1, <2>4, SMT
    <2>6. /\ Latest \in Int /\ Earliest \in Int
          /\ Latest - Earliest >= Evaluated(input)
      BY <2>2, <2>3, <2>4, <2>5, SMT DEF Earliest, Latest, Least, Most
    <2> DEFINE q == (Latest - Earliest) \div cfg.step
    <2>7. /\ q \in Nat /\ Latest - Earliest < q * cfg.step + cfg.step
      <3>1. Latest - Earliest \in Nat /\ cfg.step \in Nat \ {0}
        BY <2>3, <2>4, <2>6, SMT
      <3> QED
        BY <3>1, DivFacts
    <2>8. EligibleOrigins = q + 1
      BY <2>4, <2>6, SMT DEF EligibleOrigins
    <2> HIDE DEF q
    <2>9. q # 0
      BY <2>3, <2>4, <2>6, <2>7, SMT
    <2>10. input.maxOrigins \in 2..30
      BY <2>1 DEF Designed, Accepted
    <2>11. Len(origins) = Least(EligibleOrigins, input.maxOrigins)
      BY <2>1 DEF FoldsMade
    <2>12. EligibleOrigins >= 2 /\ EligibleOrigins \in Nat
      <3>1. q \in Nat
        BY <2>7
      <3> QED
        BY <2>8, <2>9, <3>1, SMT
    <2>13. Least(EligibleOrigins, input.maxOrigins) >= 2
      BY <2>10, <2>12, SMT DEF Least
    <2> QED
      BY <2>11, <2>13
  <1> QED
    BY <1>1, DesignAlways, PTL
-----------------------------------------------------------------------------
(* The evaluation *)

FoldRes == [status : {"OK", "FAILED", "NOT_ESTIMABLE"}, fits : Seq(Fit)]
Entry   == {[key |-> Key(f), fit |-> f] : f \in Fit}

\* What a fold result with status OK was computed from.
SoundFold(p, end, r) ==
    /\ Len(r.fits) = Len(PartsOf(p))
    /\ \A i \in DOMAIN r.fits : r.fits[i] = Wanted(PartsOf(p)[i], cfg.horizon, end)
    /\ Targets(TestWindow(end)) # {}

EvalInv ==
    /\ turn \in 1..(Len(Contenders) + 1)
    /\ winner \in Procedures \cup {None}
    /\ results \in [Procedures -> Seq(FoldRes)]
    /\ cache \in Seq(Entry)
    /\ fits \in Seq(Fit)
    /\ stage \in {"configure", "folds"} =>
          turn = 1 /\ results = [p \in Procedures |-> <<>>]
    /\ stage \in {"produce", "audit", "done"} =>
          winner \in Procedures /\ (origins = <<>> \/ turn > Len(Contenders))
    /\ \A j \in DOMAIN Contenders :
          /\ j < turn => Len(results[Contenders[j]]) = Len(origins)
          /\ j = turn => /\ Len(results[Contenders[j]]) <= Len(origins)
                         /\ origins # <<>> =>
                               Len(results[Contenders[j]]) < Len(origins)
          /\ j > turn => results[Contenders[j]] = <<>>
    /\ \A p \in Procedures : \A k \in Good(p) :
          /\ k \in DOMAIN origins
          /\ SoundFold(p, origins[k], results[p][k])
    /\ fits # <<>> =>
          /\ Fitting
          /\ Len(fits) <= Len(PartsOf(Current))
          /\ \A i \in DOMAIN fits : fits[i] = Wanted(PartsOf(Current)[i], Ahead, End)
    /\ audit # None => /\ stage = "done" /\ FinalTestSize > 0
                       /\ audit = Window(input.length - FinalTestSize, input.length)

LEMMA PartsType ==
    ASSUME NEW p \in Procedures
    PROVE  PartsOf(p) \in Seq(Procedures) /\ Len(PartsOf(p)) >= 1
  <1>1. MembersOf[p] \in Seq(Procedures)
    BY BacktestingAssumption
  <1>2. CASE MembersOf[p] = <<>>
    BY <1>2 DEF PartsOf
  <1>3. CASE MembersOf[p] # <<>>
    BY <1>1, <1>3 DEF PartsOf
  <1> QED
    BY <1>2, <1>3

LEMMA WantedType ==
    ASSUME NEW p \in Procedures, NEW h \in Int, NEW end \in Int
    PROVE  Wanted(p, h, end) \in Fit
  <1>1. Recent[p] \in Nat
    BY BacktestingAssumption
  <1>2. (IF Recent[p] = 0 THEN 0 ELSE Most(0, end - Recent[p])) \in Int
    BY <1>1, SMT DEF Most
  <1> QED
    BY <1>2 DEF Wanted, Fit

LEMMA KeyInjective ==
    ASSUME NEW f \in Fit, NEW g \in Fit, Key(f) = Key(g)
    PROVE  f = g
  <1>1. f.method = g.method /\ f.horizon = g.horizon /\ f.from = g.from
        /\ f.to - 1 = g.to - 1
    BY DEF Key
  <1>2. f.to \in Int /\ g.to \in Int
    BY DEF Fit
  <1>3. f.to = g.to
    BY <1>1, <1>2, SMT
  <1> QED
    BY <1>1, <1>3 DEF Fit

\* The call under way asks a procedure for a horizon at an end of training.
LEMMA CallTypes ==
    ASSUME DesignInv, EvalInv, Fitting
    PROVE  Current \in Procedures /\ Ahead \in Int /\ End \in Int
           /\ (stage = "backtest" => /\ Current = Contenders[turn]
                                     /\ turn \in DOMAIN Contenders
                                     /\ Len(results[Current]) + 1 \in DOMAIN origins
                                     /\ Ahead = cfg.horizon /\ End = NextOrigin)
  <1>1. CASE stage = "backtest"
    <2>1. Evaluating
      BY <1>1 DEF Fitting
    <2>2. Designed /\ origins \in Seq(Int) /\ cfg.horizon \in Nat
      BY <1>1, FoldDesign DEF DesignInv, FoldsMade
    <2>3. Contenders \in Seq(Procedures)
      BY BacktestingAssumption
    <2>4. turn \in DOMAIN Contenders /\ origins # <<>>
      BY <2>1, <2>3 DEF Evaluating, EvalInv
    <2>5. Current = Contenders[turn] /\ Current \in Procedures
      BY <1>1, <2>4 DEF Current, Procedures
    <2>6. Len(results[Current]) < Len(origins) /\ Len(results[Current]) \in Nat
      BY <2>4, <2>5 DEF EvalInv
    <2>7. Len(results[Current]) + 1 \in DOMAIN origins
      BY <2>2, <2>6
    <2>8. NextOrigin \in Int
      BY <2>2, <2>7 DEF NextOrigin
    <2>9. End = NextOrigin /\ Ahead = cfg.horizon
      BY <1>1 DEF End, Ahead
    <2> QED
      BY <1>1, <2>2, <2>4, <2>5, <2>7, <2>8, <2>9
  <1>2. CASE stage = "produce"
    <2>1. End = input.length /\ Ahead = input.horizon /\ Current = winner
      BY <1>2 DEF End, Ahead, Current
    <2> QED
      BY <1>2, <2>1 DEF EvalInv, DesignInv, BacktestRequest
  <1>3. CASE stage = "audit"
    <2>1. End = input.length - FinalTestSize /\ Ahead = FinalTestSize /\ Current = winner
      BY <1>3 DEF End, Ahead, Current
    <2>2. FinalTestSize \in Nat /\ input.length \in Nat
      BY <1>3, FoldDesign DEF DesignInv, FoldsMade
    <2> QED
      BY <1>3, <2>1, <2>2 DEF EvalInv
  <1>4. stage \in {"backtest", "produce", "audit"}
    BY DEF Fitting, Evaluating
  <1> QED
    BY <1>1, <1>2, <1>3, <1>4

\* A hit returns the fit that was asked for, and so does a miss.
LEMMA FitPartFacts ==
    ASSUME DesignInv, EvalInv, FitPart
    PROVE  /\ NextFit \in Fit
           /\ fits' = Append(fits, NextFit)
           /\ cache' \in Seq(Entry)
  <1>1. Current \in Procedures /\ Ahead \in Int /\ End \in Int
    BY CallTypes DEF FitPart
  <1>2. Len(fits) + 1 \in DOMAIN PartsOf(Current) /\ PartsOf(Current) \in Seq(Procedures)
    BY <1>1, PartsType DEF FitPart, EvalInv
  <1>3. NextFit \in Fit
    BY <1>1, <1>2, WantedType DEF NextFit
  <1>4. CASE Hits(NextFit) # {}
    <2> DEFINE i == CHOOSE i \in Hits(NextFit) : TRUE
    <2>1. i \in DOMAIN cache /\ cache[i].key = Key(NextFit)
      BY <1>4 DEF Hits
    <2>2. cache[i] \in Entry
      BY <2>1 DEF EvalInv
    <2>3. cache[i].fit \in Fit /\ cache[i].key = Key(cache[i].fit)
      <3>1. PICK f \in Fit : cache[i] = [key |-> Key(f), fit |-> f]
        BY <2>2 DEF Entry
      <3>2. cache[i].fit = f /\ cache[i].key = Key(f)
        BY <3>1
      <3> QED
        BY <3>2
    <2>4. cache[i].fit = NextFit
      BY <2>1, <2>3, <1>3, KeyInjective
    <2> HIDE DEF i
    <2>5. fits' = Append(fits, cache[i].fit) /\ cache' = cache
      BY <1>4 DEF FitPart, i
    <2> QED
      BY <1>3, <2>4, <2>5 DEF EvalInv
  <1>5. CASE ~(Hits(NextFit) # {})
    <2>1. fits' = Append(fits, NextFit) /\ cache' = Stored(NextFit)
      BY <1>5 DEF FitPart
    <2>2. [key |-> Key(NextFit), fit |-> NextFit] \in Entry
      BY <1>3 DEF Entry
    <2>3. ASSUME NEW e \in Nat
          PROVE  SubSeq(cache, e + 1, Len(cache)) \in Seq(Entry)
      BY SMT DEF EvalInv
    <2>4. Most(0, Len(cache) + 1 - Capacity(NextFit.horizon)) \in Nat
      <3>1. NextFit.horizon \in Int
        BY <1>3 DEF Fit
      <3>2. Most(1, NextFit.horizon) \in Nat \ {0}
        BY <3>1, SMT DEF Most
      <3>3. Paths * Most(1, NextFit.horizon) \in Nat \ {0}
        BY <3>2, BacktestingAssumption, ProductOrder
      <3>4. Floats \div (Paths * Most(1, NextFit.horizon)) \in Nat
        BY <3>3, BacktestingAssumption, DivFacts
      <3>5. Capacity(NextFit.horizon) \in Nat
        BY <3>4, BacktestingAssumption, SMT DEF Capacity, Least, Most
      <3>6. Len(cache) \in Nat
        BY DEF EvalInv
      <3> QED
        BY <3>5, <3>6, SMT DEF Most
    <2>5. Stored(NextFit) \in Seq(Entry)
      BY <2>2, <2>3, <2>4 DEF Stored
    <2> QED
      BY <1>3, <2>1, <2>5
  <1> QED
    BY <1>3, <1>4, <1>5

\* A fold result of the candidate at its next origin.
LEMMA ReportPreserves ==
    ASSUME DesignInv, EvalInv, Evaluating, NEW r \in FoldRes, Report(r),
           r.status = "OK" => SoundFold(Current, NextOrigin, r)
    PROVE  EvalInv'
  <1> DEFINE c == Current
             n == Len(results[c])
  <1>0. FoldsMade /\ stage = "backtest"
    BY DEF Evaluating, DesignInv
  <1>1. /\ c = Contenders[turn] /\ turn \in DOMAIN Contenders /\ c \in Procedures
        /\ Contenders \in Seq(Procedures) /\ origins # <<>> /\ origins \in Seq(Int)
    BY <1>0, BacktestingAssumption DEF Evaluating, EvalInv, Current, Procedures, FoldsMade
  <1>2. n < Len(origins) /\ n \in Nat /\ results[c] \in Seq(FoldRes)
    BY <1>1 DEF EvalInv
  <1>3. /\ results' = [results EXCEPT ![c] = Append(@, r)]
        /\ turn' = IF n + 1 = Len(origins) THEN turn + 1 ELSE turn
        /\ fits' = <<>>
        /\ UNCHANGED <<stage, input, cfg, origins, cache, excluded, winner, calibration, audit>>
    BY DEF Report
  <1>4. /\ results' \in [Procedures -> Seq(FoldRes)]
        /\ results'[c] = Append(results[c], r)
        /\ \A p \in Procedures : p # c => results'[p] = results[p]
    BY <1>1, <1>2, <1>3 DEF EvalInv
  <1>5. Len(results'[c]) = n + 1
    BY <1>2, <1>4
  <1>6. turn' \in 1..(Len(Contenders) + 1)
    BY <1>1, <1>3
  <1>7. ASSUME NEW j \in DOMAIN Contenders
        PROVE  /\ j < turn' => Len(results'[Contenders[j]]) = Len(origins)
               /\ j = turn' => /\ Len(results'[Contenders[j]]) <= Len(origins)
                               /\ origins # <<>> =>
                                     Len(results'[Contenders[j]]) < Len(origins)
               /\ j > turn' => results'[Contenders[j]] = <<>>
    <2>1. Contenders[j] \in Procedures /\ j \in Int /\ turn \in Int
      BY <1>1 DEF EvalInv
    <2>2. j # turn => Contenders[j] # c
      BY <1>1, BacktestingAssumption
    <2>3. /\ j < turn => Len(results[Contenders[j]]) = Len(origins)
          /\ j > turn => results[Contenders[j]] = <<>>
      BY DEF EvalInv
    <2>4. j # turn => results'[Contenders[j]] = results[Contenders[j]]
      BY <1>4, <2>1, <2>2
    <2>5. Len(<<>>) < Len(origins)
      BY <1>1
    <2>6. CASE j = turn
      <3>1. Len(results'[Contenders[j]]) = n + 1
        BY <1>1, <1>5, <2>6
      <3>2. Len(origins) \in Nat
        BY <1>1
      <3> HIDE DEF n
      <3> QED
        BY <1>2, <1>3, <2>1, <2>6, <3>1, <3>2, SMT
    <2>7. CASE j < turn
      <3>1. Len(results'[Contenders[j]]) = Len(origins)
        BY <2>1, <2>3, <2>4, <2>7
      <3>2. j < turn'
        BY <1>3, <2>1, <2>7, SMT
      <3>3. turn' \in Int
        BY <1>6
      <3> QED
        BY <2>1, <3>1, <3>2, <3>3, SMT
    <2>8. CASE j > turn
      <3>1. results'[Contenders[j]] = <<>>
        BY <2>1, <2>3, <2>4, <2>8
      <3>2. ~(j < turn')
        BY <1>3, <2>1, <2>8, SMT
      <3> QED
        BY <2>5, <3>1, <3>2, <1>1
    <2> QED
      BY <2>1, <2>6, <2>7, <2>8
  <1>8. ASSUME NEW p \in Procedures, NEW k \in Good(p)'
        PROVE  /\ k \in DOMAIN origins
               /\ SoundFold(p, origins[k], results[p][k])'
    <2>1. k \in DOMAIN results'[p] /\ results'[p][k].status = "OK"
      BY DEF Good
    <2>2. \A end, res : SoundFold(p, end, res) => SoundFold(p, end, res)'
      BY <1>3 DEF SoundFold, Targets, TestWindow
    <2>3. CASE p # c \/ k # n + 1
      <3>1. k \in DOMAIN results[p] /\ results'[p][k] = results[p][k]
        <4>1. CASE p # c
          BY <4>1, <1>4, <2>1
        <4>2. CASE p = c
          <5>1. k \in 1..(n + 1) /\ k # n + 1
            BY <4>2, <1>2, <1>4, <2>1, <2>3
          <5>2. k \in 1..n
            BY <5>1, <1>2, SMT
          <5> QED
            BY <4>2, <5>2, <1>2, <1>4
        <4> QED
          BY <4>1, <4>2
      <3>2. k \in Good(p)
        BY <3>1, <2>1 DEF Good
      <3>3. k \in DOMAIN origins /\ SoundFold(p, origins[k], results[p][k])
        BY <3>2 DEF EvalInv
      <3>4. SoundFold(p, origins[k], results'[p][k])
        BY <3>1, <3>3
      <3> QED
        BY <1>3, <2>2, <3>3, <3>4
    <2>4. CASE p = c /\ k = n + 1
      <3>1. results'[p][k] = r
        BY <2>4, <1>2, <1>4
      <3>2. origins[k] = NextOrigin /\ k \in DOMAIN origins
        BY <2>4, <1>1, <1>2 DEF NextOrigin
      <3>3. SoundFold(p, origins[k], r)
        BY <2>1, <2>4, <3>1, <3>2
      <3>4. SoundFold(p, origins[k], results'[p][k])
        BY <3>1, <3>3
      <3> QED
        BY <1>3, <2>2, <3>2, <3>4
    <2> QED
      BY <2>3, <2>4
  <1>9. /\ winner' \in Procedures \cup {None} /\ cache' \in Seq(Entry) /\ fits' \in Seq(Fit)
        /\ stage' = "backtest"
        /\ (audit # None)' => FALSE
    BY <1>0, <1>3 DEF EvalInv
  <1> QED
    BY <1>3, <1>4, <1>6, <1>7, <1>8, <1>9 DEF EvalInv

LEMMA ScorePreserves ==
    ASSUME DesignInv, EvalInv, ScoreFold \/ SkipFold \/ FailFold
    PROVE  EvalInv'
  <1>1. CASE ScoreFold
    <2>1. Evaluating /\ Fitting /\ stage = "backtest"
      BY <1>1 DEF ScoreFold, Fitting, Evaluating
    <2>2. /\ Current \in Procedures /\ Ahead = cfg.horizon /\ End = NextOrigin
      BY <2>1, CallTypes
    <2>3. Len(PartsOf(Current)) >= 1 /\ Len(fits) = Len(PartsOf(Current)) /\ fits \in Seq(Fit)
      BY <1>1, <2>2, PartsType DEF ScoreFold, EvalInv
    <2>4. fits # <<>>
      BY <2>3
    <2>5. \A i \in DOMAIN fits : fits[i] = Wanted(PartsOf(Current)[i], cfg.horizon, NextOrigin)
      BY <2>2, <2>4 DEF EvalInv
    <2>6. CASE Targets(TestWindow(NextOrigin)) = {}
      <3>1. Report(FoldResult("NOT_ESTIMABLE", <<>>))
        BY <1>1, <2>6 DEF ScoreFold
      <3>2. /\ FoldResult("NOT_ESTIMABLE", <<>>) \in FoldRes
            /\ FoldResult("NOT_ESTIMABLE", <<>>).status # "OK"
        BY DEF FoldRes, FoldResult
      <3> QED
        BY <2>1, <3>1, <3>2, ReportPreserves
    <2>7. CASE Targets(TestWindow(NextOrigin)) # {}
      <3> DEFINE r == FoldResult("OK", fits)
      <3>1. Report(r)
        BY <1>1, <2>7 DEF ScoreFold
      <3>2. r \in FoldRes /\ r.fits = fits
        BY <2>3 DEF FoldRes, FoldResult
      <3>3. SoundFold(Current, NextOrigin, r)
        BY <2>3, <2>5, <2>7, <3>2 DEF SoundFold
      <3> HIDE DEF r
      <3> QED
        BY <2>1, <3>1, <3>2, <3>3, ReportPreserves
    <2> QED
      BY <2>6, <2>7
  <1>2. CASE SkipFold
    <2>1. Evaluating /\ Report(FoldResult("NOT_ESTIMABLE", <<>>))
      BY <1>2 DEF SkipFold
    <2>2. /\ FoldResult("NOT_ESTIMABLE", <<>>) \in FoldRes
          /\ FoldResult("NOT_ESTIMABLE", <<>>).status # "OK"
      BY DEF FoldRes, FoldResult
    <2> QED
      BY <2>1, <2>2, ReportPreserves
  <1>3. CASE FailFold
    <2>1. Evaluating /\ Report(FoldResult("FAILED", <<>>))
      BY <1>3 DEF FailFold
    <2>2. /\ FoldResult("FAILED", <<>>) \in FoldRes
          /\ FoldResult("FAILED", <<>>).status # "OK"
      BY DEF FoldRes, FoldResult
    <2> QED
      BY <2>1, <2>2, ReportPreserves
  <1> QED
    BY <1>1, <1>2, <1>3

LEMMA FitPreserves ==
    ASSUME DesignInv, EvalInv, FitPart
    PROVE  EvalInv'
  <1>1. NextFit \in Fit /\ fits' = Append(fits, NextFit) /\ cache' \in Seq(Entry)
    BY FitPartFacts
  <1>2. UNCHANGED <<stage, input, cfg, origins, turn, results, excluded, winner,
                    calibration, audit, failures>>
    BY DEF FitPart
  <1>3. /\ Fitting' = Fitting /\ Current' = Current /\ Ahead' = Ahead /\ End' = End
        /\ FinalTestSize' = FinalTestSize
    BY <1>2 DEF Fitting, Evaluating, Current, Ahead, End, NextOrigin, FinalTestSize
  <1>4. /\ Fitting /\ fits \in Seq(Fit) /\ Len(fits) < Len(PartsOf(Current))
        /\ NextFit = Wanted(PartsOf(Current)[Len(fits) + 1], Ahead, End)
    BY DEF FitPart, EvalInv, NextFit
  <1>5. PartsOf(Current) \in Seq(Procedures)
    BY <1>4, CallTypes, PartsType
  <1>6. /\ fits' \in Seq(Fit) /\ Len(fits') = Len(fits) + 1
        /\ Len(fits') <= Len(PartsOf(Current))
    BY <1>1, <1>4, <1>5
  <1>7. ASSUME NEW i \in DOMAIN fits'
        PROVE  fits'[i] = Wanted(PartsOf(Current)[i], Ahead, End)
    <2>1. CASE i = Len(fits) + 1
      BY <1>1, <1>4, <2>1
    <2>2. CASE i # Len(fits) + 1
      <3>1. i \in 1..Len(fits)
        BY <1>4, <1>6, <2>2
      <3>2. fits'[i] = fits[i] /\ i \in DOMAIN fits /\ fits # <<>>
        BY <1>1, <1>4, <3>1
      <3> QED
        BY <3>2 DEF EvalInv
    <2> QED
      BY <2>1, <2>2
  <1>8. \A p \in Procedures : \A k \in Good(p)' :
           k \in DOMAIN origins /\ SoundFold(p, origins[k], results[p][k])'
    <2>1. \A p \in Procedures : Good(p)' = Good(p)
      BY <1>2 DEF Good
    <2>2. \A p \in Procedures : \A k \in Good(p) :
             k \in DOMAIN origins /\ SoundFold(p, origins[k], results[p][k])
      BY DEF EvalInv
    <2>3. ASSUME NEW p \in Procedures, NEW k
          PROVE  SoundFold(p, origins[k], results[p][k])' = SoundFold(p, origins[k], results[p][k])
      BY <1>2 DEF SoundFold, Targets, TestWindow
    <2> QED
      BY <2>1, <2>2, <2>3
  <1> QED
    BY <1>1, <1>2, <1>3, <1>4, <1>6, <1>7, <1>8 DEF EvalInv, PartsOf, Wanted

LEMMA EvalPreserved == DesignInv /\ EvalInv /\ [BacktestNext]_backtestVars => EvalInv'
  <1> SUFFICES ASSUME DesignInv, EvalInv, [BacktestNext]_backtestVars PROVE EvalInv'
    OBVIOUS
  \* Steps that leave the results and the cache alone.
  <1>1. ASSUME UNCHANGED <<turn, results, cache>>, fits' = <<>>,
               winner' \in Procedures \cup {None},
               stage' \notin {"configure", "folds"},
               stage' \in {"produce", "audit", "done"} =>
                  winner' \in Procedures /\ (origins = <<>> \/ turn > Len(Contenders)),
               UNCHANGED <<input, cfg, origins>>,
               audit' # None => /\ stage' = "done" /\ FinalTestSize > 0
                                /\ audit' = Window(input.length - FinalTestSize,
                                                   input.length)
        PROVE  EvalInv'
    <2>1. FinalTestSize' = FinalTestSize
      BY <1>1 DEF FinalTestSize
    <2>2. \A p \in Procedures : \A k \in Good(p)' :
             k \in DOMAIN origins /\ SoundFold(p, origins[k], results[p][k])'
      <3> SUFFICES ASSUME NEW p \in Procedures, NEW k \in Good(p)'
                   PROVE  k \in DOMAIN origins /\ SoundFold(p, origins[k], results[p][k])'
        OBVIOUS
      <3>1. k \in Good(p)
        BY <1>1 DEF Good
      <3>2. k \in DOMAIN origins /\ SoundFold(p, origins[k], results[p][k])
        BY <3>1 DEF EvalInv
      <3> QED
        BY <1>1, <3>2 DEF SoundFold, Targets, TestWindow
    <2>3. <<>> \in Seq(Fit)
      OBVIOUS
    <2> QED
      BY <1>1, <2>1, <2>2, <2>3 DEF EvalInv, Window
  \* Steps before the first fit.
  <1>2. ASSUME stage \in {"configure", "folds"}, stage' \in {"folds", "backtest", "error"},
               origins' \in Seq(Int),
               UNCHANGED <<turn, results, fits, cache, winner, audit, input>>
        PROVE  EvalInv'
    <2>1. /\ turn = 1 /\ results = [p \in Procedures |-> <<>>] /\ audit = None
      BY <1>2 DEF EvalInv
    <2>2. fits = <<>>
      BY <1>2 DEF EvalInv, Fitting, Evaluating
    <2>3. ASSUME NEW p \in Procedures PROVE Good(p)' = {}
      BY <1>2, <2>1 DEF Good
    <2>4. ASSUME NEW j \in DOMAIN Contenders
          PROVE  /\ results'[Contenders[j]] = <<>> /\ Len(<<>>) = 0
                 /\ ~(j < turn')
                 /\ Len(origins') \in Nat
                 /\ origins' # <<>> => 0 < Len(origins')
      <3>1. j \in Nat \ {0} /\ Contenders[j] \in Procedures
        BY BacktestingAssumption
      <3> QED
        BY <1>2, <2>1, <3>1
    <2> QED
      BY <1>2, <2>1, <2>2, <2>3, <2>4 DEF EvalInv
  <1>3. CASE Configure
    <2>1. origins = <<>> /\ stage = "configure"
      BY <1>3 DEF Configure, DesignInv
    <2> QED
      BY <1>2, <1>3, <2>1 DEF Configure
  <1>4. CASE GenerateFolds
    <2>1. origins' \in Seq(Int)
      BY <1>4, FoldsAreMade DEF FoldsMade
    <2> QED
      BY <1>2, <1>4, <2>1 DEF GenerateFolds
  <1>5. CASE FitPart
    BY <1>5, FitPreserves
  <1>6. CASE ScoreFold \/ SkipFold \/ FailFold
    BY <1>6, ScorePreserves
  <1>7. CASE Select
    <2>1. fits = <<>> /\ (origins = <<>> \/ turn > Len(Contenders))
      <3>1. stage = "backtest" /\ ~Evaluating
        BY <1>7 DEF Select
      <3>2. fits = <<>>
        BY <3>1 DEF EvalInv, Fitting
      <3>3. turn \in Int /\ Len(Contenders) \in Int
        BY BacktestingAssumption DEF EvalInv
      <3> QED
        BY <3>1, <3>2, <3>3, SMT DEF Evaluating
    <2>2. input.forced \in Procedures \cup {None}
      BY DEF DesignInv, BacktestRequest
    <2>3. audit = None
      BY <1>7 DEF Select, EvalInv
    <2> QED
      BY <1>1, <1>7, <2>1, <2>2, <2>3 DEF Select, Eligibles, EvalInv
  <1>8. CASE Produced
    BY <1>1, <1>8 DEF Produced, EvalInv
  <1>9. CASE ProductionFails
    BY <1>1, <1>9 DEF ProductionFails, EvalInv
  <1>10. CASE Audited
    <2>1. FinalTestSize > 0 \/ audit' = None
      BY <1>10 DEF Audited
    <2>2. /\ audit' # None => audit' = Window(input.length - FinalTestSize, input.length)
      BY <1>10 DEF Audited
    <2> QED
      BY <1>1, <1>10, <2>1, <2>2 DEF Audited, EvalInv
  <1>11. CASE UNCHANGED backtestVars
    <2>1. \A p \in Procedures : \A k \in Good(p)' :
             k \in DOMAIN origins /\ SoundFold(p, origins[k], results[p][k])'
      <3>1. \A p \in Procedures : Good(p)' = Good(p)
        BY <1>11 DEF Good, backtestVars
      <3>2. \A p \in Procedures : \A k \in Good(p) :
               k \in DOMAIN origins /\ SoundFold(p, origins[k], results[p][k])
        BY DEF EvalInv
      <3>3. ASSUME NEW p \in Procedures, NEW k
            PROVE  SoundFold(p, origins[k], results[p][k])' = SoundFold(p, origins[k], results[p][k])
        BY <1>11 DEF SoundFold, Targets, TestWindow, backtestVars
      <3> QED
        BY <3>1, <3>2, <3>3
    <2>2. /\ Fitting' = Fitting /\ Current' = Current /\ Ahead' = Ahead /\ End' = End
          /\ FinalTestSize' = FinalTestSize
      BY <1>11 DEF Fitting, Evaluating, Current, Ahead, End, NextOrigin, FinalTestSize, backtestVars
    <2> QED
      BY <1>11, <2>1, <2>2 DEF EvalInv, backtestVars
  <1> QED
    BY <1>3, <1>4, <1>5, <1>6, <1>7, <1>8, <1>9, <1>10, <1>11 DEF BacktestNext

LEMMA EvalAlways == BacktestSpec => [](DesignInv /\ EvalInv)
  <1>1. BacktestInit => EvalInv
    <2> SUFFICES ASSUME BacktestInit PROVE EvalInv
      OBVIOUS
    <2>1. \A p \in Procedures : Good(p) = {}
      BY DEF BacktestInit, Good
    <2>2. \A j \in DOMAIN Contenders : j \in Nat \ {0} /\ Contenders[j] \in Procedures
      BY BacktestingAssumption
    <2>3. 1 \in 1..(Len(Contenders) + 1)
      BY BacktestingAssumption
    <2>4. Len(<<>>) = 0 /\ <<>> \in Seq(FoldRes) /\ <<>> \in Seq(Entry) /\ <<>> \in Seq(Fit)
      OBVIOUS
    <2> QED
      BY <2>1, <2>2, <2>3, <2>4 DEF BacktestInit, EvalInv
  <1> QED
    BY <1>1, DesignAlways, EvalPreserved, PTL DEF BacktestSpec
-----------------------------------------------------------------------------
\* Nothing that ranks or calibrates reaches the observations of the final test.
THEOREM FinalTestIsUntouched == BacktestSpec => []ReserveUntouched
  <1>1. DesignInv /\ EvalInv => ReserveUntouched
    <2> SUFFICES ASSUME DesignInv, EvalInv, Configured
                 PROVE  LET sealed == input.length - cfg.reserve
                        IN  /\ \A k \in DOMAIN origins : TestWindow(origins[k]).to <= sealed
                            /\ \A p \in Procedures : \A k \in Good(p) :
                                  \A i \in DOMAIN results[p][k].fits :
                                     results[p][k].fits[i].to <= sealed
                            /\ audit # None => /\ audit = Window(sealed, input.length)
                                               /\ sealed < input.length
      BY DEF ReserveUntouched
    <2> DEFINE sealed == input.length - cfg.reserve
    <2>1. Designed
      BY DEF DesignInv, Configured, FoldsMade
    <2>2. /\ FinalTestSize = cfg.reserve /\ Latest \in Int
          /\ cfg.horizon \in Nat \ {0} /\ cfg.reserve \in Nat /\ input.length \in Nat
      BY <2>1, FoldDesign
    <2>3. sealed = EndLimit /\ sealed \in Int /\ Latest = sealed - cfg.horizon
      BY <2>2 DEF EndLimit, Latest
    <2>4. ASSUME NEW k \in DOMAIN origins
          PROVE  origins[k] \in Int /\ origins[k] + cfg.horizon <= sealed
      <3>1. FoldsMade \/ origins = <<>>
        BY DEF DesignInv
      <3>2. FoldsMade
        BY <3>1
      <3>3. origins[k] \in Int /\ origins[k] <= Latest
        BY <3>2 DEF FoldsMade
      <3> QED
        BY <2>2, <2>3, <3>3, SMT
    <2>5. \A k \in DOMAIN origins : TestWindow(origins[k]).to <= sealed
      BY <2>4 DEF TestWindow, Window
    <2>6. ASSUME NEW p \in Procedures, NEW k \in Good(p), NEW i \in DOMAIN results[p][k].fits
          PROVE  results[p][k].fits[i].to <= sealed
      <3>1. k \in DOMAIN origins /\ SoundFold(p, origins[k], results[p][k])
        BY DEF EvalInv
      <3>2. results[p][k].fits[i].to = origins[k]
        <4>1. results[p][k].fits[i] = Wanted(PartsOf(p)[i], cfg.horizon, origins[k])
          BY <3>1 DEF SoundFold
        <4>2. Wanted(PartsOf(p)[i], cfg.horizon, origins[k]).to = origins[k]
          BY DEF Wanted
        <4> QED
          BY <4>1, <4>2
      <3> QED
        BY <2>2, <2>3, <2>4, <3>1, <3>2, SMT
    <2>7. audit # None => /\ audit = Window(sealed, input.length)
                          /\ sealed < input.length
      BY <2>2, SMT DEF EvalInv
    <2> QED
      BY <2>5, <2>6, <2>7
  <1> QED
    BY <1>1, EvalAlways, PTL

\* Every scored prediction comes from a fit on exactly the history before its
\* origin, whether the cache had it or not.
THEOREM FitsBelongToTheirOrigin == BacktestSpec => []FitsOfTheirOrigin
  <1>1. EvalInv => FitsOfTheirOrigin
    BY DEF EvalInv, FitsOfTheirOrigin, SoundFold
  <1> QED
    BY <1>1, EvalAlways, PTL

\* All the candidates that can be ranked were scored on the same observations.
THEOREM RankedOnCommonTargets == BacktestSpec => []CommonTargets
  <1>1. DesignInv /\ EvalInv => CommonTargets
    <2> SUFFICES ASSUME DesignInv, EvalInv, NEW p \in Procedures, NEW q \in Procedures,
                        stage = "produce", Rankable(p), Rankable(q)
                 PROVE  Scored(p) = Scored(q) /\ Scored(p) # {}
      BY DEF CommonTargets
    <2>1. Good(p) # {}
      <3>1. Cardinality({}) = 0
        BY FS_EmptySet
      <3> QED
        BY <3>1 DEF Rankable
    <2>2. PICK k \in Good(p) : k \in DOMAIN origins /\ SoundFold(p, origins[k], results[p][k])
      BY <2>1 DEF EvalInv
    <2>3. turn > Len(Contenders)
      BY <2>2 DEF EvalInv
    <2>4. ASSUME NEW c \in Procedures PROVE DOMAIN results[c] = 1..Len(origins)
      <3>1. PICK j \in DOMAIN Contenders : c = Contenders[j]
        BY DEF Procedures
      <3>2. j < turn
        BY <2>3, BacktestingAssumption DEF EvalInv
      <3>3. Len(results[c]) = Len(origins) /\ results[c] \in Seq(FoldRes)
        BY <3>1, <3>2 DEF EvalInv
      <3> QED
        BY <3>3
    <2>5. Good(p) = Good(q)
      BY <2>4 DEF Rankable
    <2>6. Scored(p) = Scored(q)
      BY <2>5 DEF Scored
    <2>7. Targets(TestWindow(origins[k])) # {}
      BY <2>2 DEF SoundFold
    <2>8. Scored(p) # {}
      BY <2>7 DEF Scored
    <2> QED
      BY <2>6, <2>8
  <1> QED
    BY <1>1, EvalAlways, PTL
-----------------------------------------------------------------------------
(* The budget of the cache *)

\* The horizons asked for never shrink: the evaluated horizon at the origins,
\* then the requested one, which is also the size of a final test.
BudgetInv ==
    /\ stage \in {"configure", "folds"} => cache = <<>>
    /\ \A i \in DOMAIN cache :
          /\ cache[i].fit.horizon \in Nat \ {0}
          /\ stage # "configure" => cache[i].fit.horizon <= input.horizon
          /\ Evaluating => cache[i].fit.horizon <= cfg.horizon
    /\ CacheWithinBudget

LEMMA BudgetDivision ==
    ASSUME NEW n \in Nat, NEW u \in Nat \ {0}, NEW b \in Nat, n <= b \div u
    PROVE  n * u <= b
  <1>1. b \div u \in Nat /\ (b \div u) * u <= b
    BY DivFacts
  <1>2. n * u <= (b \div u) * u /\ n * u \in Nat /\ (b \div u) * u \in Nat
    BY <1>1, ProductOrder
  <1> QED
    BY <1>1, <1>2, SMT

LEMMA StoredWithinBudget ==
    ASSUME DesignInv, EvalInv, BudgetInv, FitPart
    PROVE  BudgetInv'
  <1> DEFINE h == NextFit.horizon
  <1>1. /\ Fitting /\ Current \in Procedures
        /\ UNCHANGED <<stage, input, cfg, origins, turn>>
    BY CallTypes DEF FitPart
  <1>2. Designed /\ stage \in {"backtest", "produce", "audit"}
    BY <1>1 DEF Fitting, Evaluating, DesignInv, FoldsMade
  <1>3. /\ cfg.horizon = Evaluated(input) /\ cfg.horizon \in Nat \ {0}
        /\ cfg.horizon <= input.horizon
        /\ FinalTestSize = cfg.reserve /\ cfg.reserve = Reserve(input)
        /\ cfg.reserve \in Nat /\ input.horizon \in Int
        /\ FinalTestSize > 0 => FinalTestSize = input.horizon
    BY <1>2, FoldDesign, DesignTypes, ReserveMeansFullHorizon DEF Designed, BacktestRequest
  <1>4. h = Ahead
    BY DEF NextFit, Wanted
  <1>5. /\ h \in Nat \ {0} /\ h <= input.horizon
        /\ Evaluating => h = cfg.horizon
        /\ \A i \in DOMAIN cache : cache[i].fit.horizon <= h
    <2>1. CASE stage = "backtest"
      <3>1. Evaluating /\ Ahead = cfg.horizon
        BY <1>1, <2>1 DEF Fitting, Ahead
      <3> QED
        BY <1>3, <1>4, <3>1 DEF BudgetInv
    <2>2. CASE stage = "produce"
      <3>1. ~Evaluating /\ Ahead = input.horizon
        BY <2>2 DEF Evaluating, Ahead
      <3>2. input.horizon \in Nat \ {0}
        BY <1>3, SMT
      <3> QED
        BY <1>3, <1>4, <2>2, <3>1, <3>2 DEF BudgetInv
    <2>3. CASE stage = "audit"
      <3>1. ~Evaluating /\ Ahead = FinalTestSize /\ FinalTestSize > 0
        BY <1>1, <2>3 DEF Evaluating, Ahead, Fitting
      <3>2. Ahead = input.horizon
        BY <1>3, <3>1
      <3>3. input.horizon \in Nat \ {0}
        BY <1>3, SMT
      <3> QED
        BY <1>3, <1>4, <2>3, <3>1, <3>2, <3>3 DEF BudgetInv
    <2> QED
      BY <1>2, <2>1, <2>2, <2>3
  <1>6. Evaluating' = Evaluating
    <2>1. UNCHANGED results
      BY DEF FitPart
    <2> QED
      BY <1>1, <2>1 DEF Evaluating
  <1>7. CASE Hits(NextFit) # {}
    <2>1. cache' = cache
      BY <1>7 DEF FitPart
    <2> QED
      BY <1>1, <1>6, <2>1 DEF BudgetInv, CacheWithinBudget
  <1>8. CASE ~(Hits(NextFit) # {})
    <2> DEFINE cap == Capacity(h)
               excess == Most(0, Len(cache) + 1 - cap)
               e == [key |-> Key(NextFit), fit |-> NextFit]
               unit == Paths * Most(1, h)
    <2>1. cache' = Append(SubSeq(cache, excess + 1, Len(cache)), e)
      BY <1>8 DEF FitPart, Stored
    <2>2. unit \in Nat \ {0} /\ unit = Paths * h
      <3>1. Most(1, h) = h
        BY <1>5, SMT DEF Most
      <3> QED
        BY <1>5, <3>1, BacktestingAssumption, ProductOrder
    <2>3. Floats \div unit \in Nat
      BY <2>2, BacktestingAssumption, DivFacts
    <2>4. /\ cap \in Nat \ {0}
          /\ cap > 1 => cap <= Floats \div unit
      <3> HIDE DEF unit
      <3>1. cap = Most(1, Least(Entries, Floats \div unit))
        BY DEF Capacity, unit
      <3> HIDE DEF cap
      <3> QED
        BY <2>3, <3>1, BacktestingAssumption, SMT DEF Most, Least
    <2> HIDE DEF unit, cap
    <2>5. Len(cache) \in Nat /\ cache \in Seq(Entry)
      BY DEF EvalInv
    <2>6. /\ excess \in Nat /\ excess <= Len(cache)
          /\ Len(cache) + 1 - excess <= cap
      BY <2>4, <2>5, SMT DEF Most
    <2> HIDE DEF excess
    <2>7. /\ Len(cache') = Len(cache) - excess + 1
          /\ \A i \in DOMAIN cache' :
                \/ i = Len(cache') /\ cache'[i] = e
                \/ /\ i + excess \in DOMAIN cache
                   /\ cache'[i] = cache[i + excess]
      <3> DEFINE rest == SubSeq(cache, excess + 1, Len(cache))
      <3>1. /\ rest \in Seq(Entry) /\ Len(rest) = Len(cache) - excess
            /\ \A i \in 1..(Len(cache) - excess) : rest[i] = cache[i + excess]
        BY <2>5, <2>6, SMT
      <3> HIDE DEF rest, e
      <3>2. cache' = Append(rest, e)
        BY <2>1 DEF rest
      <3>3. /\ Len(cache') = Len(rest) + 1 /\ DOMAIN cache' = 1..(Len(rest) + 1)
            /\ cache'[Len(rest) + 1] = e
            /\ \A i \in 1..Len(rest) : cache'[i] = rest[i]
        BY <3>1, <3>2
      <3>4. DOMAIN cache = 1..Len(cache)
        BY <2>5
      <3>5. ASSUME NEW i \in 1..Len(rest)
            PROVE  i + excess \in DOMAIN cache /\ cache'[i] = cache[i + excess]
        <4>1. /\ i \in 1..(Len(cache) - excess)
              /\ cache'[i] = rest[i]
          BY <3>1, <3>3
        <4> QED
          BY <2>5, <2>6, <3>1, <3>4, <4>1, SMT
      <3>6. Len(cache') = Len(cache) - excess + 1 /\ Len(cache') = Len(rest) + 1
        BY <2>5, <2>6, <3>1, <3>2, <3>3, SMT
      <3>7. \A i \in DOMAIN cache' : i = Len(rest) + 1 \/ i \in 1..Len(rest)
        BY <2>5, <2>6, <3>1, <3>3, SMT
      <3> QED
        BY <3>3, <3>5, <3>6, <3>7
    <2>8. ASSUME NEW i \in DOMAIN cache'
          PROVE  cache'[i].fit.horizon \in Nat \ {0} /\ cache'[i].fit.horizon <= h
      <3>1. CASE cache'[i] = e
        BY <1>5, <3>1
      <3>2. CASE i + excess \in DOMAIN cache /\ cache'[i] = cache[i + excess]
        BY <1>5, <3>2 DEF BudgetInv
      <3> QED
        BY <2>7, <3>1, <3>2
    <2>9. Len(cache') \in Nat /\ Len(cache') <= cap
      BY <2>5, <2>6, <2>7, SMT
    <2>10. ASSUME Len(cache') > 1, NEW i \in DOMAIN cache'
           PROVE  Len(cache') * Paths * cache'[i].fit.horizon <= Floats
      <3> DEFINE n == Len(cache')
                 g == cache'[i].fit.horizon
      <3>1. n \in Nat /\ n <= Floats \div unit
        BY <2>3, <2>4, <2>9, <2>10, SMT
      <3>2. n * unit <= Floats
        BY <2>2, <3>1, BacktestingAssumption, BudgetDivision
      <3>3. g \in Nat \ {0} /\ g <= h
        BY <2>8
      <3> HIDE DEF n, g
      <3>4. n * Paths \in Nat /\ Paths \in Nat
        BY <3>1, BacktestingAssumption, SMT
      <3>5. (n * Paths) * g <= (n * Paths) * h
        BY <3>3, <3>4, <1>5, SMT
      <3>6. (n * Paths) * h = n * unit /\ (n * Paths) * h \in Nat /\ (n * Paths) * g \in Nat
        BY <2>2, <3>1, <3>3, <3>4, <1>5, SMT
      <3>7. (n * Paths) * g <= Floats
        BY <3>2, <3>5, <3>6, BacktestingAssumption, SMT
      <3> QED
        BY <3>7 DEF n, g
    <2>11. CacheWithinBudget'
      BY <2>10 DEF CacheWithinBudget
    <2> QED
      BY <1>1, <1>2, <1>3, <1>5, <1>6, <2>8, <2>11, SMT DEF BudgetInv
  <1> QED
    BY <1>7, <1>8

LEMMA BudgetPreserved == DesignInv /\ EvalInv /\ BudgetInv /\ [BacktestNext]_backtestVars => BudgetInv'
  <1> SUFFICES ASSUME DesignInv, EvalInv, BudgetInv, [BacktestNext]_backtestVars PROVE BudgetInv'
    OBVIOUS
  <1>1. CASE FitPart
    BY <1>1, StoredWithinBudget
  \* Every other step leaves the cache alone and starts no evaluation with one.
  <1>2. ASSUME UNCHANGED <<cache, input>>, stage = "configure" => cache = <<>>,
               stage' \in {"configure", "folds"} => cache = <<>>,
               Evaluating' => cache = <<>> \/ (Evaluating /\ cfg' = cfg)
        PROVE  BudgetInv'
    BY <1>2 DEF BudgetInv, CacheWithinBudget
  <1>3. stage \in {"configure", "folds"} => cache = <<>>
    BY DEF BudgetInv
  <1>4. CASE Configure \/ GenerateFolds
    BY <1>2, <1>3, <1>4 DEF Configure, GenerateFolds
  <1>5. CASE ScoreFold \/ SkipFold \/ FailFold
    BY <1>2, <1>3, <1>5 DEF ScoreFold, SkipFold, FailFold, Report, Evaluating
  <1>6. CASE Select \/ Produced \/ Audited
    BY <1>2, <1>3, <1>6 DEF Select, Produced, Audited, Evaluating
  <1>7. CASE ProductionFails
    <2>1. ~Evaluating'
      <3>1. origins = <<>> \/ turn > Len(Contenders)
        BY <1>7 DEF ProductionFails, EvalInv
      <3>2. turn \in Int /\ Len(Contenders) \in Int
        BY BacktestingAssumption DEF EvalInv
      <3>3. UNCHANGED <<origins, turn>>
        BY <1>7 DEF ProductionFails
      <3> QED
        BY <3>1, <3>2, <3>3, SMT DEF Evaluating
    <2> QED
      BY <1>2, <1>3, <1>7, <2>1 DEF ProductionFails
  <1>8. CASE UNCHANGED backtestVars
    BY <1>2, <1>3, <1>8 DEF backtestVars, Evaluating
  <1> QED
    BY <1>1, <1>4, <1>5, <1>6, <1>7, <1>8 DEF BacktestNext

\* The cached sample paths stay within the budget, whatever the horizons.
THEOREM CacheStaysWithinBudget == BacktestSpec => []CacheWithinBudget
  <1>1. BacktestInit => BudgetInv
    BY DEF BacktestInit, BudgetInv, CacheWithinBudget, Evaluating
  <1>2. BudgetInv => CacheWithinBudget
    BY DEF BudgetInv
  <1> QED
    BY <1>1, <1>2, EvalAlways, BudgetPreserved, PTL DEF BacktestSpec

-----------------------------------------------------------------------------
\* The choice of the calibration windows is a recursion over the folds of the
\* winner.  That it has a solution, and what its n-th value satisfies, follows
\* from the least n for which it would not.

\* What Chosen takes after fold k, and a function that satisfies its equation
\* up to fold n.
Last == Len(results[winner])
Grown(k, taken) == IF FreeOf(k, taken) THEN taken \cup {k} ELSE taken
GreedyUpTo(g, n) ==
    \A k \in 0 .. n : g[k] = IF k = 0 THEN {} ELSE Grown(k, g[k - 1])

\* There is such a function for every fold.
LEMMA GreedyExists ==
    ASSUME Last \in Nat, NEW n \in 0 .. Last
    PROVE  \E g \in [0 .. Last -> SUBSET Nat] : GreedyUpTo(g, n)
  <1> DEFINE Bad == {m \in Nat : m <= Last /\ ~ \E g \in [0 .. Last -> SUBSET Nat] : GreedyUpTo(g, m)}
  <1>1. SUFFICES ASSUME Bad # {} PROVE FALSE
    OBVIOUS
  <1>2. PICK m \in Bad : \A k \in Bad : m <= k
    <2>1. Bad \in SUBSET Nat
      OBVIOUS
    <2> HIDE DEF Bad
    <2> QED
      BY <1>1, <2>1, LeastNumber
  <1>3. m # 0
    <2> DEFINE g == [k \in 0 .. Last |-> {}]
    <2>1. g \in [0 .. Last -> SUBSET Nat] /\ GreedyUpTo(g, 0)
      BY DEF GreedyUpTo
    <2> QED
      BY <2>1
  <1>4. PICK g \in [0 .. Last -> SUBSET Nat] : GreedyUpTo(g, m - 1)
    <2>1. m - 1 \in Nat /\ m - 1 \notin Bad
      BY <1>2, <1>3
    <2> QED
      BY <2>1
  <1> DEFINE h == [g EXCEPT ![m] = Grown(m, g[m - 1])]
  <1>5. h \in [0 .. Last -> SUBSET Nat]
    <2>1. m - 1 \in 0 .. Last /\ g[m - 1] \in SUBSET Nat
      BY <1>3
    <2>2. Grown(m, g[m - 1]) \in SUBSET Nat
      BY <2>1 DEF Grown
    <2> QED
      BY <2>2
  <1>6. GreedyUpTo(h, m)
    <2>1. /\ h[m] = Grown(m, g[m - 1])
          /\ \A k \in 0 .. m - 1 : h[k] = g[k]
      OBVIOUS
    <2>2. m - 1 \in 0 .. m - 1
      BY <1>3
    <2> QED
      BY <1>3, <1>4, <2>1, <2>2 DEF GreedyUpTo
  <1> QED
    BY <1>5, <1>6

\* Hence Chosen satisfies its equation.
LEMMA ChosenIs ==
    ASSUME Last \in Nat
    PROVE  /\ Chosen[0] = {}
           /\ \A k \in 1 .. Last : Chosen[k] = Grown(k, Chosen[k - 1])
  <1> DEFINE Equation(g) == g = [k \in 0 .. Last |-> IF k = 0 THEN {} ELSE Grown(k, g[k - 1])]
  <1>1. \E g : Equation(g)
    <2>1. PICK g \in [0 .. Last -> SUBSET Nat] : GreedyUpTo(g, Last)
      BY GreedyExists
    <2>2. Equation(g)
      BY <2>1 DEF GreedyUpTo
    <2> QED
      BY <2>2
  <1>2. Chosen = CHOOSE g : Equation(g)
    BY Zenon DEF Chosen, Grown, Last
  <1>3. Equation(Chosen)
    BY <1>1, <1>2, Zenon
  <1>4. \A k \in 0 .. Last : Chosen[k] = IF k = 0 THEN {} ELSE Grown(k, Chosen[k - 1])
    BY <1>3, Zenon
  <1>5. 0 \in 0 .. Last /\ \A k \in 1 .. Last : k \in 0 .. Last /\ k # 0
    OBVIOUS
  <1> QED
    BY <1>4, <1>5

\* What CalibrationDisjoint says of the first n folds.
Calibrates(taken, n) ==
    /\ taken \subseteq Good(winner) \cap 1 .. n
    /\ \A j, k \in taken : j < k => TestWindow(origins[j]).to <= origins[k]
    /\ \A k \in (Good(winner) \cap 1 .. n) \ taken : \E j \in taken :
          j < k /\ origins[k] < TestWindow(origins[j]).to

\* The folds chosen among the first n are successful, disjoint, and complete.
LEMMA GreedyCalibrates ==
    ASSUME Last \in Nat,
           \A k \in Good(winner) : origins[k] \in Int /\ TestWindow(origins[k]).to \in Int,
           NEW n \in 0 .. Last
    PROVE  Calibrates(Chosen[n], n)
  <1> DEFINE Bad == {m \in Nat : m <= Last /\ ~ Calibrates(Chosen[m], m)}
  <1>1. SUFFICES ASSUME Bad # {} PROVE FALSE
    OBVIOUS
  <1>2. PICK m \in Bad : \A k \in Bad : m <= k
    <2>1. Bad \in SUBSET Nat
      OBVIOUS
    <2> HIDE DEF Bad
    <2> QED
      BY <1>1, <2>1, LeastNumber
  <1>3. m # 0
    <2>1. Calibrates(Chosen[0], 0)
      BY ChosenIs DEF Calibrates
    <2> QED
      BY <2>1
  <1> DEFINE taken == Chosen[m - 1]
  <1>4. Calibrates(taken, m - 1)
    <2>1. m - 1 \in Nat /\ m - 1 \notin Bad
      BY <1>2, <1>3
    <2> QED
      BY <2>1
  <1>5. Chosen[m] = Grown(m, taken)
    BY <1>3, ChosenIs
  <1> HIDE DEF taken
  <1>6. m \in 1 .. Last /\ 1 .. m = (1 .. m - 1) \cup {m}
    BY <1>3
  <1>7. CASE FreeOf(m, taken)
    <2>1. Chosen[m] = taken \cup {m} /\ m \in Good(winner)
      BY <1>5, <1>7 DEF Grown, FreeOf
    <2>2. \A j \in taken : j < m /\ TestWindow(origins[j]).to <= origins[m]
      BY <1>4, <1>7, <2>1 DEF Calibrates, FreeOf
    <2>3. Chosen[m] \subseteq Good(winner) \cap 1 .. m
      BY <1>4, <1>6, <2>1 DEF Calibrates
    <2>4. \A j, k \in Chosen[m] : j < k => TestWindow(origins[j]).to <= origins[k]
      <3> TAKE j, k \in Chosen[m]
      <3>1. j < k => j # m /\ j \in taken
        <4>1. j \in 1 .. m /\ k \in 1 .. m
          BY <2>3
        <4> QED
          BY <2>1, <4>1, <1>6
      <3>2. CASE k = m
        BY <2>2, <3>1, <3>2
      <3>3. CASE k # m
        BY <1>4, <2>1, <3>1, <3>3 DEF Calibrates
      <3> QED
        BY <3>2, <3>3
    <2>5. \A k \in (Good(winner) \cap 1 .. m) \ Chosen[m] : \E j \in Chosen[m] :
             j < k /\ origins[k] < TestWindow(origins[j]).to
      BY <1>4, <1>6, <2>1 DEF Calibrates
    <2>6. Calibrates(Chosen[m], m)
      BY <2>3, <2>4, <2>5 DEF Calibrates
    <2> QED
      BY <2>6
  <1>8. CASE ~ FreeOf(m, taken)
    <2>1. Chosen[m] = taken
      BY <1>5, <1>8 DEF Grown
    <2>2. m \in Good(winner) => \E j \in taken : j < m /\ origins[m] < TestWindow(origins[j]).to
      BY <1>4, <1>8 DEF FreeOf, Calibrates
    <2>3. \A k \in (Good(winner) \cap 1 .. m) \ taken : \E j \in taken :
             j < k /\ origins[k] < TestWindow(origins[j]).to
      <3> TAKE k \in (Good(winner) \cap 1 .. m) \ taken
      <3>1. CASE k = m
        BY <2>2, <3>1
      <3>2. CASE k # m
        <4>1. k \in (Good(winner) \cap 1 .. m - 1) \ taken
          BY <1>6, <3>2
        <4> QED
          BY <1>4, <4>1 DEF Calibrates
      <3> QED
        BY <3>1, <3>2
    <2>4. taken \subseteq Good(winner) \cap 1 .. m
      BY <1>4, <1>6 DEF Calibrates
    <2>5. Calibrates(Chosen[m], m)
      BY <1>4, <2>1, <2>3, <2>4 DEF Calibrates
    <2> QED
      BY <2>5
  <1> QED
    BY <1>7, <1>8

\* The windows of the audited winner are those of all its folds.
CalibrationInv == stage = "done" => Calibrates(calibration, Last)

\* Every step keeps the invariant.
LEMMA CalibrationPreserved ==
    DesignInv /\ EvalInv /\ CalibrationInv /\ [BacktestNext]_backtestVars => CalibrationInv'
  <1> SUFFICES ASSUME DesignInv, EvalInv, CalibrationInv, [BacktestNext]_backtestVars
               PROVE  CalibrationInv'
    OBVIOUS
  <1>1. CASE Audited
    <2>1. winner \in Procedures /\ results \in [Procedures -> Seq(FoldRes)]
      BY <1>1 DEF Audited, EvalInv
    <2>2. Last \in Nat
      BY <2>1 DEF Last
    <2>3. \A k \in Good(winner) : origins[k] \in Int /\ TestWindow(origins[k]).to \in Int
      <3>1. FoldsMade
        BY <1>1 DEF DesignInv, Audited
      <3>2. origins \in Seq(Int) /\ cfg.horizon \in Int
        BY <3>1, FoldDesign DEF FoldsMade
      <3>3. \A k \in Good(winner) : k \in DOMAIN origins
        BY <2>1 DEF EvalInv
      <3> QED
        BY <3>2, <3>3 DEF TestWindow, Window
    <2>4. calibration' = Chosen[Last]
      BY <1>1 DEF Audited, CalibrationFolds, Last
    <2>5. Calibrates(calibration', Last)
      BY <2>2, <2>3, <2>4, GreedyCalibrates
    <2>6. UNCHANGED <<origins, results, winner, cfg>>
      BY <1>1 DEF Audited
    <2> QED
      BY <2>5, <2>6 DEF CalibrationInv, Calibrates, Last, Good, TestWindow
  <1>2. CASE UNCHANGED backtestVars
    BY <1>2 DEF backtestVars, CalibrationInv, Calibrates, Last, Good, TestWindow
  <1>3. CASE BacktestNext /\ ~ Audited
    <2>1. stage' # "done"
      BY <1>3 DEF BacktestNext, Configure, GenerateFolds, FitPart, ScoreFold, SkipFold, FailFold,
         Report, Select, Produced, ProductionFails, Fitting, Evaluating
    <2> QED
      BY <2>1 DEF CalibrationInv
  <1> QED
    BY <1>1, <1>2, <1>3

\* In every reachable state the windows that calibrate the intervals are
\* successful folds that share no observation, and each successful fold left out
\* overlaps an earlier one that was taken.
THEOREM CalibrationWindowsAreDisjoint == BacktestSpec => []CalibrationDisjoint
  <1>1. BacktestInit => CalibrationInv
    BY DEF BacktestInit, CalibrationInv
  <1>2. EvalInv /\ CalibrationInv => CalibrationDisjoint
    <2> SUFFICES ASSUME EvalInv, CalibrationInv, stage = "done" PROVE CalibrationDisjoint
      BY DEF CalibrationDisjoint
    <2>1. winner \in Procedures /\ results \in [Procedures -> Seq(FoldRes)]
      BY DEF EvalInv
    <2>2. Good(winner) \cap 1 .. Last = Good(winner)
      <3>1. DOMAIN results[winner] = 1 .. Last
        BY <2>1 DEF Last
      <3> QED
        BY <3>1 DEF Good
    <2> QED
      BY <2>2 DEF CalibrationInv, Calibrates, CalibrationDisjoint
  <1> QED
    BY <1>1, <1>2, EvalAlways, CalibrationPreserved, PTL DEF BacktestSpec
==============================================================================
