------------------------- MODULE KeyReports_proofs -------------------------
(***************************************************************************)
(* Proofs about KeyReports, for every keymap, every number of keys and     *)
(* layers, every debounce time and every width of the tick counter.        *)
(***************************************************************************)
EXTENDS KeyReports, FiniteSetTheorems, TLAPS

\* the input task still has to report what the host does not hold
Owed ==
  \/ change["input"].at \in {"show", "build", "send"}
  \/ input.changed /\ input.at \in {"look", "sample", "consumer", "scanned"}

\* a report of the input task is built and sent after the scan
InputOrder ==
  /\ change["input"].at # "answer"
  /\ change["input"].at # "none" => input.at \in {"taps", "rest"}

\* while nothing is left of a key held at power-up and the web server's task
\* keeps out of the way, the action the scan goes by is the active layer's, a
\* report is as good as new, and the host holds what is pressed or is going to
InStep ==
  ~behind =>
    /\ change["web"].at \in {"none", "answer"}
    /\ input.at = "sample" => input.layer = layer
    /\ change["input"].at = "send" => change["input"].report = Codes(layer)
    /\ Owed \/ lost \/ host = Codes(layer)

ReportsFit == \A t \in Tasks : Cardinality(change[t].report) <= Rollover

IInv == TypeOK /\ ReportsFit /\ InputOrder /\ InStep

-----------------------------------------------------------------------------
(***************************************************************************)
(* What is in a report.                                                    *)
(***************************************************************************)
LEMMA DownIsFinite ==
  ASSUME NEW l
  PROVE  Down(l) \subseteq Keys /\ IsFiniteSet(Down(l))
  <1>1. IsFiniteSet(Keys)
    BY KeymapAssumption, FS_Interval DEF Keys
  <1> QED
    BY <1>1, FS_Subset DEF Down

\* The number of pressed keys before a pressed key counts it: two keys have
\* different numbers, and they are below the number of pressed keys.
LEMMA RankGrows ==
  ASSUME NEW l, NEW j \in Down(l), NEW k \in Down(l), j < k
  PROVE  Cardinality({i \in Down(l) : i < j}) < Cardinality({i \in Down(l) : i < k})
  <1> DEFINE A == {i \in Down(l) : i < j}
             B == {i \in Down(l) : i < k}
  <1>1. Down(l) \subseteq Nat
    BY DownIsFinite DEF Keys
  <1>2. A \subseteq B /\ j \in B /\ j \notin A
    BY <1>1
  <1>3. IsFiniteSet(B) /\ B \subseteq Down(l)
    BY DownIsFinite, FS_Subset
  <1>4. IsFiniteSet(A) /\ Cardinality(A) <= Cardinality(B)
        /\ (Cardinality(B) = Cardinality(A) => B = A)
    BY <1>2, <1>3, FS_Subset
  <1>5. Cardinality(A) \in Nat /\ Cardinality(B) \in Nat
    BY <1>3, <1>4, FS_CardinalityType
  <1>6. Cardinality(A) # Cardinality(B)
    BY <1>2, <1>4
  <1> HIDE DEF A, B
  <1>7. Cardinality(A) < Cardinality(B)
    BY <1>4, <1>5, <1>6
  <1> QED
    BY <1>7 DEF A, B

LEMMA RankIsLess ==
  ASSUME NEW l, NEW k \in Down(l)
  PROVE  /\ Cardinality({i \in Down(l) : i < k}) \in Nat
         /\ Cardinality({i \in Down(l) : i < k}) < Cardinality(Down(l))
         /\ Cardinality(Down(l)) \in Nat
  <1> DEFINE B == {i \in Down(l) : i < k}
  <1>1. IsFiniteSet(Down(l)) /\ Down(l) \subseteq Nat
    BY DownIsFinite DEF Keys
  <1>2. B \subseteq Down(l) /\ k \notin B
    BY <1>1
  <1>3. IsFiniteSet(B) /\ Cardinality(B) <= Cardinality(Down(l))
        /\ (Cardinality(Down(l)) = Cardinality(B) => Down(l) = B)
    BY <1>1, <1>2, FS_Subset
  <1>4. Cardinality(B) \in Nat /\ Cardinality(Down(l)) \in Nat
    BY <1>1, <1>3, FS_CardinalityType
  <1>5. Cardinality(B) # Cardinality(Down(l))
    BY <1>2, <1>3
  <1> HIDE DEF B
  <1>6. Cardinality(B) < Cardinality(Down(l))
    BY <1>3, <1>4, <1>5
  <1> QED
    BY <1>4, <1>6 DEF B

\* A report has room for its key codes.
LEMMA CodesFit ==
  ASSUME NEW l
  PROVE  Cardinality(Codes(l)) <= Rollover
  <1> DEFINE Rank(k) == Cardinality({i \in Down(l) : i < k})
             rank == [k \in Sent(l) |-> Rank(k)]
             usage == [k \in Sent(l) |-> Keymap[l][k].usage]
  <1>1. Sent(l) \subseteq Down(l) /\ IsFiniteSet(Sent(l)) /\ Down(l) \subseteq Nat
    <2>1. Sent(l) \in SUBSET Down(l)
      BY DEF Sent
    <2>2. IsFiniteSet(Down(l)) /\ Down(l) \subseteq Nat
      BY DownIsFinite DEF Keys
    <2> QED
      BY <2>1, <2>2, FS_Subset
  <1>2. ASSUME NEW k \in Sent(l)
        PROVE  Rank(k) \in 0..(Rollover - 1)
    <2>1. Rank(k) \in Nat
      BY <1>1, RankIsLess
    <2>2. Rank(k) < Rollover
      BY DEF Sent
    <2> HIDE DEF Rank
    <2> QED
      BY <2>1, <2>2, KeymapAssumption
  <1>3. rank \in Injection(Sent(l), 0..(Rollover - 1))
    <2>1. rank \in [Sent(l) -> 0..(Rollover - 1)]
      BY <1>2
    <2>2. ASSUME NEW j \in Sent(l), NEW k \in Sent(l), j # k
          PROVE  Rank(j) # Rank(k)
      <3>1. j < k \/ k < j
        BY <1>1, <2>2
      <3>2. Rank(j) < Rank(k) \/ Rank(k) < Rank(j)
        BY <1>1, <3>1, RankGrows
      <3>3. Rank(j) \in Nat /\ Rank(k) \in Nat
        BY <1>1, RankIsLess
      <3> HIDE DEF Rank
      <3> QED
        BY <3>2, <3>3
    <2> QED
      BY <2>1, <2>2 DEF Injection, IsInjective
  <1>4. IsFiniteSet(0..(Rollover - 1)) /\ Cardinality(0..(Rollover - 1)) = Rollover
    BY KeymapAssumption, FS_Interval
  <1>5. Cardinality(Sent(l)) <= Rollover
    BY <1>3, <1>4, FS_Injection
  <1>6. usage \in Surjection(Sent(l), Codes(l))
    BY DEF Surjection, Codes
  <1>7. IsFiniteSet(Codes(l)) /\ Cardinality(Codes(l)) <= Cardinality(Sent(l))
    BY <1>1, <1>6, FS_Surjection
  <1>8. Cardinality(Codes(l)) \in Nat /\ Cardinality(Sent(l)) \in Nat
    BY <1>1, <1>7, FS_CardinalityType
  <1> QED
    BY <1>5, <1>7, <1>8, KeymapAssumption

\* If all the pressed keys fit they are all in it.
LEMMA AllSentIfTheyFit ==
  ASSUME NEW l, Cardinality(Down(l)) <= Rollover
  PROVE  Sent(l) = Down(l)
  <1>1. ASSUME NEW k \in Down(l)
        PROVE  Cardinality({j \in Down(l) : j < k}) < Rollover
    <2> DEFINE r == Cardinality({j \in Down(l) : j < k})
               d == Cardinality(Down(l))
    <2>1. r \in Nat /\ d \in Nat /\ r < d /\ d <= Rollover
      BY RankIsLess
    <2> HIDE DEF r, d
    <2>2. r < Rollover
      BY <2>1, KeymapAssumption
    <2> QED
      BY <2>2 DEF r
  <1> QED
    BY <1>1 DEF Sent

\* No two keyboard keys of a layer report the same usage.
DistinctUsages ==
  \A l \in Layers : \A j \in Keys : \A k \in Keys :
    j # k /\ Type(l, j) = "keyboard" /\ Type(l, k) = "keyboard"
      => Keymap[l][j].usage # Keymap[l][k].usage

\* If they do not all fit, no room is left: the numbers of the pressed keys are
\* all the numbers below their number, so that exactly Rollover are below it.
LEMMA AsManyAsFit ==
  ASSUME NEW l, ~(Cardinality(Down(l)) <= Rollover)
  PROVE  Cardinality(Sent(l)) = Rollover
  <1> DEFINE Rank(k) == Cardinality({i \in Down(l) : i < k})
             n == Cardinality(Down(l))
             rank == [k \in Down(l) |-> Rank(k)]
             sentRank == [k \in Sent(l) |-> Rank(k)]
  <1>1. Sent(l) \subseteq Down(l) /\ IsFiniteSet(Down(l)) /\ Down(l) \subseteq Nat
    BY DownIsFinite DEF Sent, Keys
  <1>2. n \in Nat /\ Rollover \in Nat /\ Rollover < n
    <2>1. n \in Nat
      BY <1>1, FS_CardinalityType
    <2> HIDE DEF n
    <2> QED
      BY <2>1, KeymapAssumption DEF n
  <1>3. \A k \in Down(l) : Rank(k) \in 0..(n - 1)
    <2> SUFFICES ASSUME NEW k \in Down(l) PROVE Rank(k) \in 0..(n - 1)
      OBVIOUS
    <2>1. Rank(k) \in Nat /\ Rank(k) < n
      BY RankIsLess
    <2> HIDE DEF Rank, n
    <2> QED
      BY <1>2, <2>1
  <1>4. \A j \in Down(l) : \A k \in Down(l) : j # k => Rank(j) # Rank(k)
    <2> SUFFICES ASSUME NEW j \in Down(l), NEW k \in Down(l), j # k
                 PROVE  Rank(j) # Rank(k)
      OBVIOUS
    <2>1. j < k \/ k < j
      BY <1>1
    <2>2. Rank(j) < Rank(k) \/ Rank(k) < Rank(j)
      BY <2>1, RankGrows
    <2>3. Rank(j) \in Nat /\ Rank(k) \in Nat
      BY RankIsLess
    <2> HIDE DEF Rank
    <2> QED
      BY <2>2, <2>3
  <1>5. IsFiniteSet(0..(n - 1)) /\ Cardinality(0..(n - 1)) = n
    <2> HIDE DEF n
    <2> QED
      BY <1>2, FS_Interval
  <1>6. \A m \in 0..(n - 1) : \E k \in Down(l) : Rank(k) = m
    <2>1. rank \in Injection(Down(l), 0..(n - 1))
      <3> HIDE DEF Rank, n
      <3> QED
        BY <1>3, <1>4 DEF Injection, IsInjective
    <2>2. rank \in Surjection(Down(l), 0..(n - 1))
      <3> HIDE DEF rank
      <3> QED
        BY <1>5, <2>1, FS_Injection
    <2> HIDE DEF Rank, n
    <2> QED
      BY <2>2 DEF Surjection
  <1>7. \A k \in Sent(l) : Rank(k) < Rollover
    BY DEF Sent
  <1>8. \A k \in Down(l) : Rank(k) < Rollover => k \in Sent(l)
    BY DEF Sent
  <1> HIDE DEF Rank, n
  <1>9. sentRank \in Injection(Sent(l), 0..(Rollover - 1))
    <2>1. \A k \in Sent(l) : Rank(k) \in 0..(Rollover - 1)
      BY <1>1, <1>2, <1>3, <1>7
    <2> QED
      BY <1>1, <1>4, <2>1 DEF Injection, IsInjective
  <1>10. sentRank \in Surjection(Sent(l), 0..(Rollover - 1))
    <2>1. \A m \in 0..(Rollover - 1) : \E k \in Sent(l) : Rank(k) = m
      <3> SUFFICES ASSUME NEW m \in 0..(Rollover - 1)
                   PROVE  \E k \in Sent(l) : Rank(k) = m
        OBVIOUS
      <3>1. m \in 0..(n - 1) /\ m < Rollover
        BY <1>2
      <3> QED
        BY <1>6, <1>8, <3>1
    <2>2. sentRank \in [Sent(l) -> 0..(Rollover - 1)]
      BY <1>9 DEF Injection
    <2> QED
      BY <2>1, <2>2 DEF Surjection
  <1>11. IsFiniteSet(0..(Rollover - 1)) /\ Cardinality(0..(Rollover - 1)) = Rollover
    <2>1. 0 \in Int /\ Rollover - 1 \in Int /\ (0 > Rollover - 1 <=> Rollover = 0)
      BY <1>2
    <2>2. /\ IsFiniteSet(0..(Rollover - 1))
          /\ Cardinality(0..(Rollover - 1))
               = IF 0 > Rollover - 1 THEN 0 ELSE (Rollover - 1) - 0 + 1
      BY <2>1, FS_Interval, Zenon
    <2> QED
      BY <1>2, <2>2
  <1> HIDE DEF sentRank
  <1> QED
    BY <1>9, <1>10, <1>11, FS_Injection

LEMMA OverfullReportIsFull ==
  ASSUME NEW l \in Layers, DistinctUsages, ~(Cardinality(Down(l)) <= Rollover)
  PROVE  Cardinality(Codes(l)) = Rollover
  <1> DEFINE usage == [k \in Sent(l) |-> Keymap[l][k].usage]
  <1>1. IsFiniteSet(Sent(l)) /\ Sent(l) \subseteq Down(l)
    <2>1. Sent(l) \subseteq Down(l)
      BY DEF Sent
    <2> QED
      BY <2>1, DownIsFinite, FS_Subset
  <1>2. usage \in Surjection(Sent(l), Codes(l))
    BY DEF Surjection, Codes
  <1>3. usage \in Injection(Sent(l), Codes(l))
    <2>1. usage \in [Sent(l) -> Codes(l)]
      BY DEF Codes
    <2>2. \A j \in Sent(l) : \A k \in Sent(l) : j # k => usage[j] # usage[k]
      BY <1>1 DEF DistinctUsages, Down
    <2> QED
      BY <2>1, <2>2 DEF Injection, IsInjective
  <1> HIDE DEF usage
  <1>4. Cardinality(Codes(l)) = Cardinality(Sent(l))
    BY <1>1, <1>2, <1>3, FS_Surjection
  <1> QED
    BY <1>4, AsManyAsFit

\* A report depends on the stable levels of the layer's keyboard keys only.
LEMMA CodesUnchanged ==
  ASSUME \A k \in Keys : Type(layer, k) = "keyboard"
                           => debounce'[k].stable = debounce[k].stable,
         layer' = layer
  PROVE  Codes(layer)' = Codes(layer)
  <1>1. Down(layer)' = Down(layer)
    BY DEF Down, Type
  <1>2. Sent(layer)' = Sent(layer)
    BY <1>1 DEF Sent
  <1> QED
    BY <1>2 DEF Codes

LEMMA CodesType ==
  ASSUME NEW l \in Layers
  PROVE  Codes(l) \subseteq Usages
  <1>1. Sent(l) \subseteq Keys
    BY DownIsFinite DEF Sent
  <1> QED
    BY <1>1 DEF Codes, Usages

-----------------------------------------------------------------------------
(***************************************************************************)
(* The time of a scan.                                                     *)
(***************************************************************************)
\* The time the scan may have spent on consumer keys grows with the keys it has gone through.
LEMMA ConsumersAreFinite ==
  ASSUME NEW k
  PROVE  /\ ConsumersBefore(k) \subseteq Keys /\ IsFiniteSet(ConsumersBefore(k))
         /\ Cardinality(ConsumersBefore(k)) \in Nat
  <1>1. IsFiniteSet(Keys)
    BY KeymapAssumption, FS_Interval DEF Keys
  <1>2. ConsumersBefore(k) \subseteq Keys
    BY DEF ConsumersBefore
  <1> QED
    BY <1>1, <1>2, FS_Subset, FS_CardinalityType

LEMMA ProductGrows ==
  ASSUME NEW m \in Nat, NEW n \in Nat, NEW c \in Nat
  PROVE  /\ m * c \in Nat
         /\ m <= n => m * c <= n * c
         /\ m + 1 <= n => m * c + c <= n * c
  <1>1. m * c \in Nat /\ n * c \in Nat
    OBVIOUS
  <1>2. ASSUME m <= n PROVE m * c <= n * c
    <2>1. n * c = m * c + (n - m) * c /\ (n - m) * c \in Nat
      BY <1>2
    <2> QED
      BY <1>1, <2>1
  <1>3. ASSUME m + 1 <= n PROVE m * c + c <= n * c
    <2>1. n * c = m * c + c + (n - m - 1) * c /\ (n - m - 1) * c \in Nat
      BY <1>3
    <2> QED
      BY <1>1, <2>1
  <1> QED
    BY <1>1, <1>2, <1>3

LEMMA ScanDelayGrows ==
  ASSUME NEW j \in 0..KeyCount, NEW k \in 0..KeyCount, j <= k
  PROVE  /\ ScanDelay(j) \in Nat /\ ScanDelay(k) \in Nat
         /\ ScanDelay(j) <= ScanDelay(k)
         /\ (j < k /\ \E l \in Layers : Keymap[l][j].type = "consumer")
              => ScanDelay(j) + ConsumerTicks <= ScanDelay(k)
  <1> DEFINE A == ConsumersBefore(j)
             B == ConsumersBefore(k)
  <1>1. A \subseteq B
    BY KeymapAssumption DEF ConsumersBefore, Keys
  <1>2. /\ IsFiniteSet(A) /\ Cardinality(A) \in Nat
        /\ IsFiniteSet(B) /\ Cardinality(B) \in Nat
        /\ Cardinality(A) <= Cardinality(B)
    BY <1>1, ConsumersAreFinite, FS_Subset
  <1>3. ASSUME j < k, \E l \in Layers : Keymap[l][j].type = "consumer"
        PROVE  Cardinality(A) + 1 <= Cardinality(B)
    <2>1. j \in B /\ j \notin A
      BY <1>3, KeymapAssumption DEF ConsumersBefore, Keys
    <2>2. A # B
      BY <2>1
    <2>3. Cardinality(A) # Cardinality(B)
      BY <1>1, <1>2, <2>2, FS_Subset
    <2> HIDE DEF A, B
    <2> QED
      BY <1>2, <2>3
  <1> HIDE DEF A, B
  <1>4. ConsumerTicks \in Nat
    BY ClockAssumption
  <1>5. /\ Cardinality(A) * ConsumerTicks \in Nat /\ Cardinality(B) * ConsumerTicks \in Nat
        /\ Cardinality(A) * ConsumerTicks <= Cardinality(B) * ConsumerTicks
        /\ Cardinality(A) + 1 <= Cardinality(B)
             => Cardinality(A) * ConsumerTicks + ConsumerTicks
                  <= Cardinality(B) * ConsumerTicks
    BY <1>2, <1>4, ProductGrows
  <1> QED
    BY <1>3, <1>5 DEF ScanDelay, A, B

LEMMA ScanDelayFits ==
  ASSUME NEW k \in 0..KeyCount
  PROVE  /\ ScanDelay(k) \in Nat /\ ScanDelay(KeyCount) \in Nat
         /\ ScanDelay(k) <= ScanDelay(KeyCount)
         /\ DebounceTicks + ScanDelay(KeyCount) < TickMod
  <1>1. KeyCount \in 0..KeyCount /\ k <= KeyCount
    BY KeymapAssumption
  <1>2. ScanDelay(k) \in Nat /\ ScanDelay(KeyCount) \in Nat
        /\ ScanDelay(k) <= ScanDelay(KeyCount)
    BY <1>1, ScanDelayGrows
  <1>3. DebounceTicks + ScanDelay(KeyCount) + 0 < TickMod
    BY ClockAssumption
  <1> QED
    BY <1>2, <1>3, ClockAssumption

\* The tick counter does not go round within the debounce time.
LEMMA CounterHasRoom == /\ TickMod \in Nat \ {0} /\ DebounceTicks \in Nat \ {0}
                        /\ DebounceTicks < TickMod
  <1>1. KeyCount \in 0..KeyCount
    BY KeymapAssumption
  <1>2. ScanDelay(KeyCount) \in Nat /\ DebounceTicks + ScanDelay(KeyCount) < TickMod
    BY <1>1, ScanDelayFits
  <1> QED
    BY <1>2, ClockAssumption

-----------------------------------------------------------------------------
(***************************************************************************)
(* The invariant holds at the start, and the parts of every step keep it.  *)
(***************************************************************************)
InputType == [at : {"look", "sample", "consumer", "scanned", "taps", "rest"},
              key : Keys, layer : Layers, changed : BOOLEAN]
ChangeType == [at : {"none", "show", "build", "send", "answer"},
               want : Layers, report : SUBSET Usages]

LEMMA StartValues ==
  /\ 0 \in Keys /\ 0 \in Layers
  /\ 0 \in 0..(TickMod - 1) /\ 0 \in 0..DebounceTicks
  /\ PassStart \in InputType /\ NoChange \in ChangeType
  /\ Cardinality({}) = 0 /\ 0 <= Rollover
  <1>1. 0 \in Keys /\ 0 \in Layers
    BY KeymapAssumption DEF Keys
  <1>2. 0 \in 0..(TickMod - 1) /\ 0 \in 0..DebounceTicks
    BY CounterHasRoom
  <1>3. PassStart \in InputType /\ NoChange \in ChangeType
    BY <1>1 DEF PassStart, NoChange, InputType, ChangeType
  <1> QED
    BY <1>1, <1>2, <1>3, FS_EmptySet, KeymapAssumption

LEMMA InitEstablishesInvariant == Init => IInv
  <1> SUFFICES ASSUME Init PROVE IInv
    OBVIOUS
  <1> USE DEF Init
  <1>1. debounce \in [Keys -> [last : BOOLEAN, since : 0..(TickMod - 1), stable : BOOLEAN]]
    BY StartValues
  <1>2. TypeOK
    BY <1>1, StartValues DEF TypeOK, InputType, ChangeType
  <1>3. ReportsFit /\ InputOrder
    BY StartValues DEF ReportsFit, InputOrder, NoChange, Tasks
  <1>4. ~behind => host = Codes(layer)
    OBVIOUS
  <1> HIDE DEF Codes
  <1>5. InStep
    BY <1>4 DEF InStep, NoChange, PassStart, Tasks
  <1> QED
    BY <1>2, <1>3, <1>5 DEF IInv

\* the clock stays within its width
LEMMA ElapseType ==
  ASSUME TypeOK, NEW d \in Nat, Elapse(d)
  PROVE  clock' \in 0..(TickMod - 1) /\ steady' \in [Keys -> 0..DebounceTicks]
  <1>1. TickMod \in Nat \ {0} /\ DebounceTicks \in Nat
    BY CounterHasRoom
  <1>2. clock + d \in Nat
    BY <1>1 DEF TypeOK
  <1>3. (clock + d) % TickMod \in 0..(TickMod - 1)
    BY <1>1, <1>2
  <1>4. \A k \in Keys : (IF steady[k] + d > DebounceTicks THEN DebounceTicks
                                                         ELSE steady[k] + d)
                         \in 0..DebounceTicks
    BY <1>1 DEF TypeOK
  <1> QED
    BY <1>3, <1>4 DEF Elapse

LEMMA NextKeyType ==
  ASSUME TypeOK, NEW b \in BOOLEAN
  PROVE  NextKey(b) \in InputType
  BY DEF TypeOK, InputType, NextKey

LEMMA DebouncedType ==
  ASSUME TypeOK, NEW k \in Keys, NEW raw \in BOOLEAN
  PROVE  Debounced(debounce[k], raw)
           \in [last : BOOLEAN, since : 0..(TickMod - 1), stable : BOOLEAN]
  BY DEF TypeOK, Debounced

-----------------------------------------------------------------------------
(***************************************************************************)
(* The steps of set_active_layer and of a report, in either task.          *)
(***************************************************************************)
LEMMA ShowKeepsInvariant ==
  ASSUME IInv, NEW t \in Tasks, Show(t)
  PROVE  IInv'
  <1> USE DEF IInv
  <1>1. TypeOK'
    BY DEF Show, Step, TypeOK, passVars, hostVars
  <1>2. ReportsFit' /\ InputOrder'
    BY DEF Show, Step, ReportsFit, InputOrder, TypeOK, Tasks, passVars
  <1>3. Codes(layer)' = Codes(layer)
    BY CodesUnchanged DEF Show
  <1>4. InStep'
    BY <1>3 DEF Show, Step, InStep, Owed, TypeOK, Tasks, passVars, hostVars
  <1> QED
    BY <1>1, <1>2, <1>4

LEMMA BuildKeepsInvariant ==
  ASSUME IInv, NEW t \in Tasks, Build(t)
  PROVE  IInv'
  <1> USE DEF IInv
  <1>1. Codes(layer) \subseteq Usages /\ Cardinality(Codes(layer)) <= Rollover
    BY CodesType, CodesFit DEF TypeOK
  <1>2. Codes(layer)' = Codes(layer)
    BY CodesUnchanged DEF Build, layerVars
  <1> HIDE DEF Codes
  <1>3. TypeOK'
    BY <1>1 DEF Build, TypeOK, passVars, layerVars, hostVars
  <1>4. ReportsFit' /\ InputOrder'
    BY <1>1 DEF Build, ReportsFit, InputOrder, TypeOK, Tasks, passVars
  <1>5. InStep'
    BY <1>2 DEF Build, InStep, InputOrder, Owed, TypeOK, Tasks, passVars, layerVars,
                hostVars
  <1> QED
    BY <1>3, <1>4, <1>5

LEMMA SendKeepsInvariant ==
  ASSUME IInv, NEW t \in Tasks, Send(t)
  PROVE  IInv'
  <1> USE DEF IInv
  <1>1. host' \in {host, change[t].report} /\ lost' \in BOOLEAN
        /\ host' \subseteq Usages /\ Cardinality(host') <= Rollover
    BY DEF Send, TypeOK, ReportsFit
  <1>2. TypeOK'
    BY <1>1 DEF Send, AfterReport, TypeOK, passVars, layerVars
  <1>3. ReportsFit' /\ InputOrder'
    BY StartValues DEF Send, AfterReport, ReportsFit, InputOrder, TypeOK, Tasks, passVars
  <1>4. Codes(layer)' = Codes(layer)
    BY CodesUnchanged DEF Send, layerVars
  <1>5. InStep'
    BY <1>4 DEF Send, AfterReport, InStep, InputOrder, Owed, TypeOK, Tasks, passVars,
                layerVars
  <1> QED
    BY <1>2, <1>3, <1>5

-----------------------------------------------------------------------------
(***************************************************************************)
(* The steps of a pass.                                                    *)
(***************************************************************************)
LEMMA LookKeepsInvariant ==
  ASSUME IInv, Look
  PROVE  IInv'
  <1> USE DEF IInv
  <1>1. TypeOK'
    BY DEF Look, TypeOK, layerVars, hostVars
  <1>2. ReportsFit' /\ InputOrder'
    BY DEF Look, InputAt, ReportsFit, InputOrder
  <1>3. Codes(layer)' = Codes(layer)
    BY CodesUnchanged DEF Look, layerVars
  <1>4. InStep'
    BY <1>3 DEF Look, InputAt, InStep, Owed, TypeOK, layerVars, hostVars
  <1> QED
    BY <1>1, <1>2, <1>4

\* The only step that changes what is pressed: an edge of a keyboard key of the
\* active layer is remembered in keyboard_state_changed, any other edge leaves
\* the report as it is.
LEMMA SampleKeepsInvariant ==
  ASSUME IInv, Sample
  PROVE  IInv'
  <1> USE DEF IInv
  <1> DEFINE k == input.key
             type == Type(input.layer, k)
  <1>1. PICK raw \in BOOLEAN :
          LET d == Debounced(debounce[k], raw)
              edge == d.stable # debounce[k].stable
          IN  /\ debounce' = [debounce EXCEPT ![k] = d]
              /\ steady' = [steady EXCEPT ![k] = IF raw = debounce[k].last THEN @ ELSE 0]
              /\ input' = IF edge /\ d.stable /\ type = "consumer"
                            THEN [input EXCEPT !.at = "consumer"]
                            ELSE NextKey(IF edge THEN Changed(type) ELSE input.changed)
    BY DEF Sample
  <1> DEFINE d == Debounced(debounce[k], raw)
             edge == d.stable # debounce[k].stable
  <1>2. k \in Keys /\ input \in InputType /\ input.changed \in BOOLEAN
    BY DEF TypeOK, InputType
  <1>3. d \in [last : BOOLEAN, since : 0..(TickMod - 1), stable : BOOLEAN]
    BY <1>2, DebouncedType
  <1>4. Changed(type) \in BOOLEAN
    BY <1>2 DEF Changed
  <1>5. NextKey(Changed(type)) \in InputType /\ NextKey(input.changed) \in InputType
        /\ [input EXCEPT !.at = "consumer"] \in InputType
    BY <1>2, <1>4, NextKeyType DEF InputType
  <1>6. input' \in InputType
    <2> HIDE DEF d, type
    <2> QED
      BY <1>1, <1>5 DEF d
  <1>7. steady' \in [Keys -> 0..DebounceTicks]
    BY <1>1, <1>2, StartValues DEF TypeOK
  <1>8. debounce' \in [Keys -> [last : BOOLEAN, since : 0..(TickMod - 1),
                                 stable : BOOLEAN]]
    BY <1>1, <1>3 DEF TypeOK
  <1>9. TypeOK'
    BY <1>6, <1>7, <1>8 DEF Sample, TypeOK, InputType, layerVars, hostVars
  <1>10. input.at = "sample" /\ change["input"].at = "none" /\ change' = change
         /\ layer' = layer /\ host' = host /\ lost' = lost /\ behind' = behind
    BY DEF Sample, InputAt, layerVars, hostVars
  <1>11. ReportsFit' /\ InputOrder'
    BY <1>10 DEF ReportsFit, InputOrder
  <1>12. input'.at # "sample"
    <2> HIDE DEF d, type
    <2> QED
      BY <1>1, <1>2 DEF NextKey, InputType, d
  <1>13. input'.at \in {"look", "consumer", "scanned"}
         /\ (input'.changed = input.changed \/ input'.changed = Changed(type))
    <2> HIDE DEF d, type
    <2> QED
      BY <1>1, <1>2 DEF NextKey, InputType, d
  <1>14. CASE behind
    BY <1>9, <1>10, <1>11, <1>14 DEF InStep
  <1>15. CASE ~behind
    <2>1. input.layer = layer
      BY <1>10, <1>15 DEF InStep
    <2>2. CASE edge /\ type = "keyboard"
      <3>1. input'.changed = Changed(type) /\ Changed(type)
        BY <1>1, <1>2, <2>2 DEF NextKey, InputType, Changed
      <3>2. Owed'
        BY <1>13, <3>1 DEF Owed
      <3>3. InStep'
        BY <1>10, <1>12, <3>2, <1>15 DEF InStep
      <3> QED
        BY <1>9, <1>11, <3>3
    <2>3. CASE ~edge \/ type # "keyboard"
      <3>1. \A j \in Keys : Type(layer, j) = "keyboard"
                             => debounce'[j].stable = debounce[j].stable
        BY <1>1, <1>2, <2>1, <2>3 DEF TypeOK
      <3>2. Codes(layer)' = Codes(layer)
        BY <1>10, <3>1, CodesUnchanged
      <3>3. Owed => Owed'
        BY <1>10, <1>13 DEF Owed, Changed
      <3>4. InStep'
        BY <1>10, <1>12, <3>2, <3>3, <1>15 DEF InStep
      <3> QED
        BY <1>9, <1>11, <3>4
    <2> QED
      BY <2>2, <2>3
  <1> QED
    BY <1>14, <1>15

LEMMA SendConsumerKeepsInvariant ==
  ASSUME IInv, SendConsumer
  PROVE  IInv'
  <1> USE DEF IInv
  <1>1. PICK d \in 0..ConsumerTicks : Elapse(d)
    BY DEF SendConsumer
  <1>2. clock' \in 0..(TickMod - 1) /\ steady' \in [Keys -> 0..DebounceTicks]
    BY <1>1, ElapseType, ClockAssumption
  <1>3. input' \in InputType
    BY NextKeyType DEF SendConsumer, TypeOK
  <1>4. TypeOK'
    BY <1>2, <1>3 DEF SendConsumer, TypeOK, InputType, layerVars, hostVars
  <1>5. ReportsFit' /\ InputOrder'
    BY DEF SendConsumer, InputAt, ReportsFit, InputOrder
  <1>6. Codes(layer)' = Codes(layer)
    BY CodesUnchanged DEF SendConsumer, layerVars
  <1>7. InStep'
    BY <1>6 DEF SendConsumer, InputAt, NextKey, InStep, Owed, TypeOK, layerVars, hostVars
  <1> QED
    BY <1>4, <1>5, <1>7

LEMMA ScannedKeepsInvariant ==
  ASSUME IInv, Scanned
  PROVE  IInv'
  <1> USE DEF IInv
  <1>1. TypeOK'
    BY DEF Scanned, TypeOK, Tasks, layerVars, hostVars
  <1>2. ReportsFit' /\ InputOrder'
    BY DEF Scanned, InputAt, ReportsFit, InputOrder, TypeOK, Tasks
  <1>3. Codes(layer)' = Codes(layer)
    BY CodesUnchanged DEF Scanned, layerVars
  <1>4. InStep'
    BY <1>3 DEF Scanned, InputAt, InStep, Owed, TypeOK, Tasks, layerVars, hostVars
  <1> QED
    BY <1>1, <1>2, <1>4

LEMMA TapsKeepsInvariant ==
  ASSUME IInv, Taps
  PROVE  IInv'
  <1> USE DEF IInv
  <1>1. CASE \E l \in Layers : SetLayer("input", l)
    <2>1. PICK l \in Layers : SetLayer("input", l)
      BY <1>1
    <2>2. TypeOK'
      BY <2>1 DEF Taps, SetLayer, TypeOK, Tasks, hostVars
    <2>3. ReportsFit' /\ InputOrder'
      BY <2>1, StartValues DEF Taps, SetLayer, ReportsFit, InputOrder, TypeOK, Tasks
    <2>4. InStep'
      BY <2>1 DEF Taps, SetLayer, InStep, Owed, TypeOK, Tasks
    <2> QED
      BY <2>2, <2>3, <2>4
  <1>2. CASE UNCHANGED <<debounce, layerVars, change, hostVars>>
    <2>1. TypeOK'
      BY <1>2 DEF Taps, TypeOK, layerVars, hostVars
    <2>2. ReportsFit' /\ InputOrder'
      BY <1>2 DEF Taps, InputAt, ReportsFit, InputOrder
    <2>3. Codes(layer)' = Codes(layer)
      BY <1>2, CodesUnchanged DEF layerVars
    <2>4. InStep'
      BY <1>2, <2>3 DEF Taps, InputAt, InStep, Owed, TypeOK, layerVars, hostVars
    <2> QED
      BY <2>1, <2>2, <2>4
  <1> QED
    BY <1>1, <1>2 DEF Taps

LEMMA PassKeepsInvariant ==
  ASSUME IInv, NEW d \in PassTicks, Pass(d)
  PROVE  IInv'
  <1> USE DEF IInv
  <1>1. clock' \in 0..(TickMod - 1) /\ steady' \in [Keys -> 0..DebounceTicks]
    <2>1. d \in Nat
      BY ClockAssumption
    <2> QED
      BY <2>1, ElapseType DEF Pass
  <1>2. TypeOK'
    BY <1>1, StartValues DEF Pass, TypeOK, InputType, layerVars, hostVars
  <1>3. ReportsFit' /\ InputOrder'
    BY DEF Pass, InputAt, ReportsFit, InputOrder
  <1>4. Codes(layer)' = Codes(layer)
    BY CodesUnchanged DEF Pass, layerVars
  <1>5. InStep'
    BY <1>4 DEF Pass, InputAt, PassStart, InStep, Owed, layerVars, hostVars
  <1> QED
    BY <1>2, <1>3, <1>5

-----------------------------------------------------------------------------
(***************************************************************************)
(* The steps of the web server's task.                                     *)
(***************************************************************************)
LEMMA WebLayerKeepsInvariant ==
  ASSUME IInv, NEW l \in Layers, WebLayer(l)
  PROVE  IInv'
  <1> USE DEF IInv
  <1>1. CASE l # layer
    <2>0. SetLayer("web", l) /\ behind' = TRUE
      BY <1>1 DEF WebLayer
    <2>1. TypeOK'
      BY <2>0 DEF WebLayer, SetLayer, TypeOK, Tasks, passVars, hostVars
    <2>2. ReportsFit' /\ InputOrder' /\ InStep'
      BY <2>0, StartValues DEF WebLayer, SetLayer, ReportsFit, InputOrder, InStep, TypeOK,
                               Tasks, passVars
    <2> QED
      BY <2>1, <2>2
  <1>2. CASE l = layer
    <2>1. l = layer /\ behind' = behind
          /\ change' = [change EXCEPT !["web"] = [at |-> "answer", want |-> l, report |-> {}]]
          /\ UNCHANGED <<debounce, layerVars, hostVars, passVars>>
      BY <1>2 DEF WebLayer, SetLayer
    <2>2. TypeOK'
      BY <2>1 DEF TypeOK, Tasks, passVars, layerVars, hostVars
    <2>3. ReportsFit' /\ InputOrder'
      BY <2>1, StartValues DEF ReportsFit, InputOrder, TypeOK, Tasks, passVars
    <2>4. Codes(layer)' = Codes(layer)
      BY <2>1, CodesUnchanged DEF layerVars
    <2>5. InStep'
      BY <2>1, <2>4 DEF InStep, Owed, TypeOK, Tasks, passVars, layerVars, hostVars
    <2> QED
      BY <2>2, <2>3, <2>5
  <1> QED
    BY <1>1, <1>2

LEMMA WebAnswerKeepsInvariant ==
  ASSUME IInv, WebAnswer
  PROVE  IInv'
  <1> USE DEF IInv
  <1>1. TypeOK'
    BY DEF WebAnswer, Step, TypeOK, Tasks, passVars, hostVars
  <1>2. ReportsFit' /\ InputOrder'
    BY DEF WebAnswer, Step, ReportsFit, InputOrder, TypeOK, Tasks, passVars
  <1>3. Codes(layer)' = Codes(layer)
    BY CodesUnchanged DEF WebAnswer
  <1>4. InStep'
    BY <1>3 DEF WebAnswer, Step, InStep, Owed, TypeOK, Tasks, passVars, hostVars
  <1> QED
    BY <1>1, <1>2, <1>4

-----------------------------------------------------------------------------
LEMMA ReportKeepsInvariant ==
  ASSUME IInv, NEW t \in Tasks, Report(t)
  PROVE  IInv'
  BY ShowKeepsInvariant, BuildKeepsInvariant, SendKeepsInvariant DEF Report

LEMMA StepKeepsInvariant == IInv /\ [Next]_vars => IInv'
  <1> SUFFICES ASSUME IInv, [Next]_vars PROVE IInv'
    OBVIOUS
  <1>1. CASE InputTask
    <2>1. CASE Look \/ Sample \/ SendConsumer \/ Scanned \/ Taps
      BY <2>1, LookKeepsInvariant, SampleKeepsInvariant, SendConsumerKeepsInvariant,
         ScannedKeepsInvariant, TapsKeepsInvariant
    <2>2. CASE \E d \in PassTicks : Pass(d)
      BY <2>2, PassKeepsInvariant
    <2>3. CASE Report("input")
      BY <2>3, ReportKeepsInvariant DEF Tasks
    <2> QED
      BY <1>1, <2>1, <2>2, <2>3 DEF InputTask
  <1>2. CASE WebTask
    BY <1>2, WebLayerKeepsInvariant, ReportKeepsInvariant, WebAnswerKeepsInvariant
       DEF WebTask, Tasks
  <1>3. CASE UNCHANGED vars
    <2>1. Codes(layer)' = Codes(layer)
      BY <1>3, CodesUnchanged DEF vars, layerVars
    <2>2. InStep'
      BY <1>3, <2>1 DEF IInv, InStep, Owed, vars, passVars, layerVars, hostVars
    <2> QED
      BY <1>3, <2>2 DEF IInv, TypeOK, ReportsFit, InputOrder, vars, passVars, layerVars,
                        hostVars
  <1> QED
    BY <1>1, <1>2, <1>3 DEF Next

(***************************************************************************)
(* The invariant holds in every behaviour, fair or not.                    *)
(***************************************************************************)
THEOREM InvariantHolds == SafetySpec => []IInv
  BY InitEstablishesInvariant, StepKeepsInvariant, PTL DEF SafetySpec

(***************************************************************************)
(* Every variable has its type, and the host never holds more keys than a  *)
(* report has room for (macropad_hid.c:238-246).                           *)
(***************************************************************************)
THEOREM TypeCorrect == SafetySpec => []TypeOK
  BY InvariantHolds, PTL DEF IInv

LEMMA HostIsRight ==
  ASSUME IInv, Resting, ~lost, ~behind
  PROVE  host = Codes(layer) /\ Follows
  <1>1. host = Codes(layer)
    BY DEF IInv, InStep, Owed, Resting, Tasks
  <1>2. Sent(layer) \subseteq Down(layer)
    BY DEF Sent
  <1>3. host \subseteq Wanted
    BY <1>1, <1>2 DEF Codes, Wanted
  <1>4. Cardinality(Down(layer)) <= Rollover => host = Wanted
    BY <1>1, AllSentIfTheyFit DEF Codes, Wanted
  <1> QED
    BY <1>1, <1>3, <1>4 DEF Follows

LEMMA InvariantFollows == DistinctUsages /\ IInv => HostFollowsKeys
  <1> SUFFICES ASSUME DistinctUsages, IInv, Resting, ~lost, ~behind
               PROVE  Follows /\ (host = Wanted \/ ReportFull)
    BY DEF HostFollowsKeys
  <1>1. host = Codes(layer) /\ Follows
    BY HostIsRight
  <1>2. ~(Cardinality(Down(layer)) <= Rollover) => Cardinality(host) = Rollover
    BY <1>1, OverfullReportIsFull DEF IInv, TypeOK
  <1> QED
    BY <1>1, <1>2 DEF Follows, ReportFull

(***************************************************************************)
(* Between the passes the host holds what is pressed on the active layer,  *)
(* or a full report of it, if the last report got through; whatever the    *)
(* keys are at power-up and however the web server's task changes the      *)
(* layer, but for the time until the input task has next built a report on *)
(* its own (main.c:252-264, :480-487 and :620-676).  The keyboard keys of  *)
(* a layer must report different usages.                                   *)
(***************************************************************************)
THEOREM HostHoldsKeys ==
  ASSUME DistinctUsages
  PROVE  SafetySpec => []HostFollowsKeys
  BY InvariantHolds, InvariantFollows, PTL

\* If nobody asks the web server, the host, once it is right, is not left behind.
LEMMA NobodyInterferes ==
  ASSUME WebLayers = FALSE
  PROVE  ~behind /\ [Next]_vars => ~behind'
  <1> SUFFICES ASSUME ~behind, [Next]_vars PROVE ~behind'
    OBVIOUS
  <1>1. CASE InputTask
    BY <1>1, Zenon DEF InputTask, Look, Sample, SendConsumer, Scanned, Taps, Pass, Report,
       Show, Build, Send
  <1>2. CASE WebTask
    BY <1>2, Zenon DEF WebTask, WebLayer, WebAnswer, Report, Show, Build, Send
  <1>3. CASE UNCHANGED vars
    BY <1>3, Zenon DEF vars
  <1> QED
    BY <1>1, <1>2, <1>3 DEF Next

(***************************************************************************)
(* As long as nobody asks the web server for another layer: if no key that *)
(* reports a code is held at power-up, the host holds what is pressed      *)
(* between any two passes whose report got through, without any other      *)
(* exception.                                                              *)
(***************************************************************************)
THEOREM HostFollowsWithoutWeb ==
  ASSUME WebLayers = FALSE
  PROVE  SafetySpec /\ Codes(0) = {} => [](Resting /\ ~lost => Follows)
  <1>1. Init /\ Codes(0) = {} => ~behind
    <2> HIDE DEF Codes
    <2> QED
      BY DEF Init
  <1>2. IInv /\ ~behind => (Resting /\ ~lost => Follows)
    BY HostIsRight
  <1> QED
    BY <1>1, <1>2, InvariantHolds, NobodyInterferes, PTL DEF SafetySpec

-----------------------------------------------------------------------------
(***************************************************************************)
(* Debouncing.  The scan goes by one reading of the clock, which is Late   *)
(* ticks old by now: no older than the consumer keys scanned since account *)
(* for.  A key that has not read the same for the debounce time was        *)
(* stamped at least that long ago, by a reading that was no older.         *)
(***************************************************************************)
Late == (clock + TickMod - now) % TickMod
Stamped(k) == (clock + TickMod - debounce[k].since) % TickMod

ScannedTo == IF input.at \in {"look", "sample", "consumer"} THEN input.key ELSE KeyCount

ClockIsLate ==
  /\ Late <= ScanDelay(ScannedTo)
  /\ input.at = "consumer" => \E l \in Layers : Keymap[l][input.key].type = "consumer"

AgeIsSteady ==
  \A k \in Keys : steady[k] < DebounceTicks
                    => Late <= Stamped(k) /\ Stamped(k) <= steady[k] + ScanDelay(k)

LEMMA ModWithin ==
  ASSUME NEW M \in Nat, NEW x \in Nat, x < M
  PROVE  x % M = x
  OBVIOUS

LEMMA ModOnce ==
  ASSUME NEW M \in Nat, NEW x \in Nat, M <= x, x < M + M
  PROVE  x % M = x - M
  OBVIOUS

\* The distance from s to the reading c of a clock that wraps at M.
LEMMA Distance ==
  ASSUME NEW M \in Nat, NEW c \in 0..(M - 1), NEW s \in 0..(M - 1)
  PROVE  /\ (c + M - s) % M = IF s <= c THEN c - s ELSE c + M - s
         /\ (c + M - s) % M \in 0..(M - 1)
  <1>1. CASE s <= c
    <2> DEFINE x == c + M - s
    <2>1. x \in Nat /\ M <= x /\ x < M + M /\ x - M = c - s
      BY <1>1
    <2> HIDE DEF x
    <2>2. x % M = x - M
      BY <2>1, ModOnce
    <2> QED
      BY <1>1, <2>1, <2>2 DEF x
  <1>2. CASE ~(s <= c)
    <2> DEFINE x == c + M - s
    <2>1. x \in Nat /\ x < M
      BY <1>2
    <2> HIDE DEF x
    <2>2. x % M = x
      BY <2>1, ModWithin
    <2> QED
      BY <1>2, <2>1, <2>2 DEF x
  <1> QED
    BY <1>1, <1>2

\* It grows with the clock, until the clock has gone round.
LEMMA DistanceGrows ==
  ASSUME NEW M \in Nat, NEW c \in 0..(M - 1), NEW s \in 0..(M - 1), NEW d \in Nat,
         ((c + M - s) % M) + d < M
  PROVE  (((c + d) % M) + M - s) % M = ((c + M - s) % M) + d
  <1>1. /\ (c + M - s) % M = IF s <= c THEN c - s ELSE c + M - s
        /\ (c + M - s) % M \in Nat
    BY Distance
  <1>2. CASE c + d < M
    <2>1. (c + d) % M = c + d /\ c + d \in 0..(M - 1)
      BY <1>2, ModWithin
    <2>2. (c + d + M - s) % M = IF s <= c + d THEN c + d - s ELSE c + d + M - s
      BY <2>1, Distance
    <2> QED
      BY <1>1, <2>1, <2>2
  <1>3. CASE ~(c + d < M)
    <2> DEFINE e == c + d - M
    <2>1. d < M /\ e \in 0..(M - 1) /\ M <= c + d /\ c + d < M + M
      BY <1>1, <1>3
    <2>2. (c + d) % M = e
      <3>1. c + d \in Nat
        OBVIOUS
      <3>2. (c + d) % M = (c + d) - M
        BY <2>1, <3>1, ModOnce
      <3> QED
        BY <3>2
    <2>3. (e + M - s) % M = IF s <= e THEN e - s ELSE e + M - s
      BY <2>1, Distance
    <2> QED
      BY <1>1, <2>1, <2>2, <2>3
  <1> QED
    BY <1>2, <1>3

\* The distance to an earlier reading is the sum of those to and from one between.
LEMMA DistanceSplits ==
  ASSUME NEW M \in Nat, NEW c \in 0..(M - 1), NEW n \in 0..(M - 1), NEW s \in 0..(M - 1),
         (c + M - n) % M <= (c + M - s) % M
  PROVE  (n + M - s) % M = ((c + M - s) % M) - ((c + M - n) % M)
  <1>1. /\ (c + M - n) % M = IF n <= c THEN c - n ELSE c + M - n
        /\ (c + M - s) % M = IF s <= c THEN c - s ELSE c + M - s
        /\ (n + M - s) % M = IF s <= n THEN n - s ELSE n + M - s
    BY Distance
  <1> QED
    BY <1>1

\* clock readings are within the counter's width
LEMMA Readings ==
  ASSUME TypeOK
  PROVE  /\ clock \in 0..(TickMod - 1) /\ now \in 0..(TickMod - 1)
         /\ Late \in 0..(TickMod - 1)
         /\ \A k \in Keys : /\ debounce[k].since \in 0..(TickMod - 1)
                            /\ Stamped(k) \in 0..(TickMod - 1)
                            /\ steady[k] \in 0..DebounceTicks
         /\ TickMod \in Nat /\ DebounceTicks \in Nat \ {0}
  <1>1. TickMod \in Nat /\ DebounceTicks \in Nat \ {0}
    BY ClockAssumption
  <1>2. clock \in 0..(TickMod - 1) /\ now \in 0..(TickMod - 1)
        /\ \A k \in Keys : /\ debounce[k].since \in 0..(TickMod - 1)
                           /\ steady[k] \in 0..DebounceTicks
    BY DEF TypeOK
  <1> QED
    BY <1>1, <1>2, Distance DEF Late, Stamped

LEMMA InitIsSteady == Init => ClockIsLate /\ AgeIsSteady
  <1> SUFFICES ASSUME Init PROVE ClockIsLate /\ AgeIsSteady
    OBVIOUS
  <1>1. (0 + TickMod - 0) % TickMod = 0
    <2>1. 0 \in 0..(TickMod - 1) /\ TickMod \in Nat
      BY CounterHasRoom
    <2>2. (0 + TickMod - 0) % TickMod = IF 0 <= 0 THEN 0 - 0 ELSE 0 + TickMod - 0
      BY <2>1, Distance
    <2> QED
      BY <2>2
  <1>2. Late = 0 /\ \A k \in Keys : Stamped(k) = 0 /\ steady[k] = 0
    BY <1>1 DEF Init, Late, Stamped
  <1>3. \A k \in 0..KeyCount : ScanDelay(k) \in Nat
    BY ScanDelayFits
  <1>4. \A k \in Keys : k \in 0..KeyCount
    BY KeymapAssumption DEF Keys
  <1>5. ClockIsLate
    BY <1>2, <1>3, <1>4, StartValues DEF ClockIsLate, ScannedTo, Init, PassStart
  <1> QED
    BY <1>2, <1>3, <1>4, <1>5 DEF AgeIsSteady

\* A key that has not read the same for the debounce time ages with the clock.
LEMMA StampAges ==
  ASSUME TypeOK, AgeIsSteady, NEW d \in Nat, Elapse(d), UNCHANGED debounce,
         NEW k \in Keys, steady'[k] < DebounceTicks
  PROVE  /\ steady[k] < DebounceTicks /\ steady'[k] = steady[k] + d
         /\ Stamped(k)' = Stamped(k) + d
         /\ Stamped(k)' <= steady'[k] + ScanDelay(k)
  <1>1. steady'[k] = IF steady[k] + d > DebounceTicks THEN DebounceTicks ELSE steady[k] + d
    BY DEF Elapse
  <1>2. k \in 0..KeyCount
    BY KeymapAssumption DEF Keys
  <1>3. /\ steady[k] \in Nat /\ Stamped(k) \in Nat /\ ScanDelay(k) \in Nat
        /\ ScanDelay(KeyCount) \in Nat /\ DebounceTicks \in Nat
    BY <1>2, Readings, ScanDelayFits
  <1>4. steady[k] < DebounceTicks /\ steady'[k] = steady[k] + d
    BY <1>1, <1>3
  <1>5. Stamped(k) <= steady[k] + ScanDelay(k)
    BY <1>4 DEF AgeIsSteady
  <1>6. Stamped(k) + d < TickMod
    <2>1. ScanDelay(k) <= ScanDelay(KeyCount) /\ DebounceTicks + ScanDelay(KeyCount) < TickMod
      BY <1>2, ScanDelayFits
    <2> QED
      BY <1>3, <1>4, <1>5, <2>1, Readings
  <1>7. Stamped(k)' = Stamped(k) + d
    <2>1. clock' = (clock + d) % TickMod /\ debounce'[k].since = debounce[k].since
      BY DEF Elapse
    <2> QED
      BY <1>6, <2>1, Readings, DistanceGrows DEF Stamped
  <1> QED
    BY <1>3, <1>4, <1>5, <1>7

LEMMA SendConsumerKeepsSteady ==
  ASSUME TypeOK, ClockIsLate, AgeIsSteady, SendConsumer
  PROVE  ClockIsLate' /\ AgeIsSteady'
  <1>1. PICK d \in 0..ConsumerTicks : Elapse(d)
    BY DEF SendConsumer
  <1>2. /\ input.at = "consumer" /\ input.key \in Keys
        /\ input' = NextKey(input.changed) /\ UNCHANGED <<now, debounce>>
    BY DEF SendConsumer, InputAt, TypeOK
  <1>3. /\ input.key \in 0..KeyCount /\ input.key + 1 \in 0..KeyCount
        /\ input.key + 1 \notin Keys => input.key + 1 = KeyCount
    BY <1>2, KeymapAssumption DEF Keys
  <1>4. ScannedTo' = input.key + 1 /\ input'.at # "consumer"
    BY <1>2, <1>3 DEF ScannedTo, NextKey, TypeOK
  <1>5. Late <= ScanDelay(input.key) /\ \E l \in Layers : Keymap[l][input.key].type = "consumer"
    BY <1>2 DEF ClockIsLate, ScannedTo
  <1>6. /\ ScanDelay(input.key) \in Nat /\ ScanDelay(input.key + 1) \in Nat
        /\ ScanDelay(input.key) + ConsumerTicks <= ScanDelay(input.key + 1)
        /\ ScanDelay(input.key + 1) < TickMod
    <2>1. input.key <= input.key + 1 /\ input.key < input.key + 1
      BY <1>3
    <2>2. ScanDelay(input.key + 1) <= ScanDelay(KeyCount)
          /\ ScanDelay(KeyCount) \in Nat /\ DebounceTicks + ScanDelay(KeyCount) < TickMod
      BY <1>3, ScanDelayFits
    <2>3. /\ ScanDelay(input.key) \in Nat /\ ScanDelay(input.key + 1) \in Nat
          /\ ScanDelay(input.key) + ConsumerTicks <= ScanDelay(input.key + 1)
      BY <1>3, <1>5, <2>1, ScanDelayGrows
    <2> QED
      BY <2>2, <2>3, ClockAssumption
  <1>7. d \in Nat /\ Late + d <= ScanDelay(input.key + 1) /\ Late + d < TickMod
    BY <1>5, <1>6, Readings, ClockAssumption
  <1>8. Late' = Late + d
    <2>1. clock' = (clock + d) % TickMod /\ now' = now
      BY <1>1, <1>2 DEF Elapse
    <2> QED
      BY <1>7, <2>1, Readings, DistanceGrows DEF Late
  <1>9. ClockIsLate'
    BY <1>4, <1>7, <1>8 DEF ClockIsLate
  <1>10. AgeIsSteady'
    <2> SUFFICES ASSUME NEW k \in Keys, steady'[k] < DebounceTicks
                 PROVE  Late' <= Stamped(k)' /\ Stamped(k)' <= steady'[k] + ScanDelay(k)
      BY DEF AgeIsSteady
    <2>1. /\ steady[k] < DebounceTicks /\ Stamped(k)' = Stamped(k) + d
          /\ Stamped(k)' <= steady'[k] + ScanDelay(k)
      BY <1>1, <1>2, <1>7, StampAges
    <2>2. Late <= Stamped(k)
      BY <2>1 DEF AgeIsSteady
    <2> QED
      BY <1>7, <1>8, <2>1, <2>2, Readings
  <1> QED
    BY <1>9, <1>10

LEMMA PassKeepsSteady ==
  ASSUME TypeOK, AgeIsSteady, NEW d \in PassTicks, Pass(d)
  PROVE  ClockIsLate' /\ AgeIsSteady'
  <1>1. d \in Nat /\ Elapse(d) /\ now' = clock' /\ input' = PassStart /\ UNCHANGED debounce
    BY ClockAssumption DEF Pass
  <1>2. clock' \in 0..(TickMod - 1)
    BY <1>1, ElapseType
  <1>3. Late' = 0
    BY <1>1, <1>2, Readings, Distance DEF Late
  <1>4. 0 \in 0..KeyCount
    BY KeymapAssumption
  <1>5. ClockIsLate'
    BY <1>1, <1>3, <1>4, ScanDelayFits DEF ClockIsLate, ScannedTo, PassStart
  <1>6. AgeIsSteady'
    <2> SUFFICES ASSUME NEW k \in Keys, steady'[k] < DebounceTicks
                 PROVE  Late' <= Stamped(k)' /\ Stamped(k)' <= steady'[k] + ScanDelay(k)
      BY DEF AgeIsSteady
    <2>1. Stamped(k)' = Stamped(k) + d /\ Stamped(k)' <= steady'[k] + ScanDelay(k)
      BY <1>1, StampAges
    <2> QED
      BY <1>1, <1>3, <2>1, Readings
  <1> QED
    BY <1>5, <1>6

\* A key that is sampled anew is stamped with the scan's reading, and changes
\* only when that reading is the debounce time after its stamp.
LEMMA SampleIsDebounced ==
  ASSUME TypeOK, ClockIsLate, AgeIsSteady, Sample
  PROVE  /\ ClockIsLate' /\ AgeIsSteady'
         /\ \A k \in Keys : debounce'[k].stable # debounce[k].stable
                            => steady[k] + ScanDelay(k) >= DebounceTicks
  <1>0. PICK key \in Keys : key = input.key
    BY DEF TypeOK
  <1> DEFINE old == debounce[key]
             type == Type(input.layer, key)
  <1>1. PICK raw \in BOOLEAN :
          LET d == Debounced(old, raw)
              edge == d.stable # old.stable
          IN  /\ debounce' = [debounce EXCEPT ![key] = d]
              /\ steady' = [steady EXCEPT ![key] = IF raw = old.last THEN @ ELSE 0]
              /\ input' = IF edge /\ d.stable /\ type = "consumer"
                            THEN [input EXCEPT !.at = "consumer"]
                            ELSE NextKey(IF edge THEN Changed(type) ELSE input.changed)
    BY <1>0, Zenon DEF Sample
  <1>2. UNCHANGED <<clock, now>>
    BY Zenon DEF Sample
  <1>3. /\ input.key = key /\ input.layer \in Layers /\ input.at = "sample"
        /\ debounce \in [Keys -> [last : BOOLEAN, since : 0..(TickMod - 1), stable : BOOLEAN]]
        /\ steady \in [Keys -> 0..DebounceTicks]
        /\ now \in 0..(TickMod - 1)
    BY <1>0 DEF TypeOK, Sample, InputAt
  <1>4. /\ key \in 0..KeyCount /\ key + 1 \in 0..KeyCount /\ key <= key + 1
        /\ key + 1 \notin Keys => key + 1 = KeyCount
    BY <1>3, KeymapAssumption DEF Keys
  <1>5. \/ input' = [input EXCEPT !.at = "consumer"] /\ type = "consumer"
        \/ \E b : input' = NextKey(b)
    BY <1>1
  <1>6. ScannedTo' \in {key, key + 1}
        /\ (input'.at = "consumer" => input'.key = key /\ type = "consumer")
    BY <1>3, <1>4, <1>5 DEF ScannedTo, NextKey, TypeOK
  <1>7. Late' = Late
    BY <1>2 DEF Late
  <1>8. Late <= ScanDelay(key) /\ ScanDelay(key) \in Nat /\ ScanDelay(key + 1) \in Nat
        /\ ScanDelay(key) <= ScanDelay(key + 1)
    BY <1>3, <1>4, ScanDelayGrows DEF ClockIsLate, ScannedTo
  <1>9. ClockIsLate'
    <2>1. Late' <= ScanDelay(ScannedTo')
      BY <1>6, <1>7, <1>8, Readings
    <2> QED
      BY <1>3, <1>6, <2>1 DEF ClockIsLate, Type
  <1> HIDE DEF type
  <1>10. \A k \in Keys : k # key => debounce'[k] = debounce[k] /\ steady'[k] = steady[k]
    BY <1>1, <1>3
  <1>11. debounce'[key] = Debounced(old, raw)
         /\ steady'[key] = IF raw = old.last THEN steady[key] ELSE 0
    BY <1>1, <1>3
  <1>12. Age(now) = 0
    BY <1>3, ClockAssumption, Distance DEF Age
  <1> DEFINE e == IF raw # old.last THEN [old EXCEPT !.last = raw, !.since = now] ELSE old
  <1>13. /\ e.since = IF raw # old.last THEN now ELSE old.since
         /\ e.stable = old.stable
    BY <1>3
  <1>14. Debounced(old, raw) = IF Age(e.since) >= DebounceTicks THEN [e EXCEPT !.stable = e.last]
                                                                ELSE e
    BY DEF Debounced
  <1>15. debounce'[key].since = e.since
         /\ (~(Age(e.since) >= DebounceTicks) => debounce'[key].stable = old.stable)
    <2>1. e \in [last : BOOLEAN, since : 0..(TickMod - 1), stable : BOOLEAN]
      BY <1>3
    <2> HIDE DEF e
    <2> QED
      BY <1>11, <1>13, <1>14, <2>1
  <1> HIDE DEF e
  <1>16. ASSUME steady'[key] < DebounceTicks
         PROVE  Late' <= Stamped(key)' /\ Stamped(key)' <= steady'[key] + ScanDelay(key)
    <2>1. CASE raw = old.last
      <3>1. Stamped(key)' = Stamped(key) /\ steady'[key] = steady[key]
        BY <1>2, <1>11, <1>13, <1>15, <2>1 DEF Stamped
      <3> QED
        BY <1>3, <1>7, <1>16, <3>1 DEF AgeIsSteady
    <2>2. CASE raw # old.last
      <3>1. Stamped(key)' = Late /\ steady'[key] = 0
        BY <1>2, <1>11, <1>13, <1>15, <2>2 DEF Stamped, Late
      <3> QED
        BY <1>7, <1>8, <3>1, Readings
    <2> QED
      BY <2>1, <2>2
  <1>17. AgeIsSteady'
    <2> SUFFICES ASSUME NEW k \in Keys, steady'[k] < DebounceTicks
                 PROVE  Late' <= Stamped(k)' /\ Stamped(k)' <= steady'[k] + ScanDelay(k)
      BY DEF AgeIsSteady
    <2>1. CASE k = key
      BY <1>16, <2>1
    <2>2. CASE k # key
      <3>1. Stamped(k)' = Stamped(k) /\ steady'[k] = steady[k]
        BY <1>2, <1>10, <2>2 DEF Stamped
      <3> QED
        BY <1>7, <3>1 DEF AgeIsSteady
    <2> QED
      BY <2>1, <2>2
  <1>18. ASSUME debounce'[key].stable # old.stable
         PROVE  steady[key] + ScanDelay(key) >= DebounceTicks
    <2>1. Age(e.since) >= DebounceTicks
      BY <1>15, <1>18
    <2>2. raw = old.last
      <3> SUFFICES ASSUME raw # old.last PROVE FALSE
        OBVIOUS
      <3>1. Age(e.since) = 0
        BY <1>12, <1>13
      <3> QED
        BY <2>1, <3>1, ClockAssumption
    <2>3. Age(old.since) >= DebounceTicks
      BY <1>13, <2>1, <2>2
    <2>4. CASE ~(steady[key] < DebounceTicks)
      BY <1>3, <1>8, <2>4, ClockAssumption
    <2>5. CASE steady[key] < DebounceTicks
      <3>1. Late <= Stamped(key) /\ Stamped(key) <= steady[key] + ScanDelay(key)
        BY <1>3, <2>5 DEF AgeIsSteady
      <3>2. Age(old.since) = Stamped(key) - Late
        BY <1>3, <3>1, Readings, DistanceSplits DEF Age, Stamped, Late
      <3>3. Stamped(key) \in Nat /\ Late \in Nat /\ steady[key] \in Nat /\ DebounceTicks \in Nat
        BY <1>3, Readings
      <3> QED
        BY <1>8, <2>3, <3>1, <3>2, <3>3
    <2> QED
      BY <2>4, <2>5
  <1> QED
    BY <1>9, <1>10, <1>17, <1>18

LEMMA StepIsDebounced ==
  ASSUME TypeOK, ClockIsLate, AgeIsSteady, [Next]_vars
  PROVE  /\ ClockIsLate' /\ AgeIsSteady'
         /\ \A k \in Keys : debounce'[k].stable # debounce[k].stable
                            => steady[k] + ScanDelay(k) >= DebounceTicks
  <1>1. CASE Sample
    BY <1>1, SampleIsDebounced
  <1>2. CASE SendConsumer
    <2>1. UNCHANGED debounce
      BY <1>2 DEF SendConsumer
    <2> QED
      BY <1>2, <2>1, SendConsumerKeepsSteady
  <1>3. ASSUME NEW d \in PassTicks, Pass(d)
        PROVE  ClockIsLate' /\ AgeIsSteady' /\ UNCHANGED debounce
    BY <1>3, PassKeepsSteady, Zenon DEF Pass
  <1>4. ASSUME UNCHANGED <<clock, now, steady, debounce>>,
               ScannedTo' = ScannedTo, input'.at # "consumer" \/ input' = input
        PROVE  ClockIsLate' /\ AgeIsSteady'
    BY <1>4 DEF ClockIsLate, AgeIsSteady, Late, Stamped
  <1>5. ASSUME Look \/ Scanned \/ Taps
        PROVE  /\ UNCHANGED <<clock, now, steady, debounce>>
               /\ ScannedTo' = ScannedTo /\ input'.at # "consumer"
    BY <1>5 DEF Look, Scanned, Taps, SetLayer, InputAt, ScannedTo, TypeOK
  <1>6. ASSUME UNCHANGED passVars, debounce' = debounce
        PROVE  /\ UNCHANGED <<clock, now, steady, debounce>>
               /\ ScannedTo' = ScannedTo /\ input' = input
    BY <1>6 DEF passVars, ScannedTo
  <1>7. \/ Sample \/ SendConsumer \/ (\E d \in PassTicks : Pass(d))
        \/ Look \/ Scanned \/ Taps
        \/ UNCHANGED passVars /\ debounce' = debounce
    BY Zenon DEF Next, InputTask, WebTask, SetLayer, Report, Show, Build, Send, WebLayer,
       WebAnswer, vars
  <1> QED
    BY <1>1, <1>2, <1>3, <1>4, <1>5, <1>6, <1>7

(***************************************************************************)
(* A key changes only after it has read the same for the debounce time     *)
(* less what the scan may have spent on consumer keys before it, however   *)
(* long the passes are and whenever the tick counter wraps (main.c:365-381 *)
(* and :629-669).                                                          *)
(***************************************************************************)
THEOREM KeysAreDebounced == SafetySpec => EdgesAreDebounced
  <1>1. TypeOK /\ ClockIsLate /\ AgeIsSteady /\ [Next]_vars => ClockIsLate' /\ AgeIsSteady'
    BY StepIsDebounced
  <1>2. TypeOK /\ ClockIsLate /\ AgeIsSteady /\ [Next]_vars =>
          [\A k \in Keys : debounce'[k].stable # debounce[k].stable
                             => steady[k] + ScanDelay(k) >= DebounceTicks]_vars
    BY StepIsDebounced
  <1> QED
    BY <1>1, <1>2, InitIsSteady, TypeCorrect, PTL DEF SafetySpec, EdgesAreDebounced
=============================================================================
