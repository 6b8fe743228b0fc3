---------------------------- MODULE DeriveProofs ----------------------------
(***************************************************************************)
(* Proofs about Derive, for any number of streams, any clock and any fault *)
(* its modes allow: what the swap publishes is this run's and came through *)
(* the gates (DInv); a published row summarises what was stored when it    *)
(* was read and stamped before its bucket ended, or within the second that *)
(* ceil_step drops (RInv); what a run published is still served, and holds *)
(* every row its window was to have (SInv); the grid is what a full derive *)
(* would make, but for the OFI after a silent step (WholeInv) and for the  *)
(* depth at the edges of a window (DepthInv).                              *)
(***************************************************************************)
EXTENDS Derive, FiniteSetTheorems, WellFoundedInduction, TLAPS

\* Between the start of a run and its swap the served grid is untouched.
BeforeSwap == pc \in {"read", "reset", "copy", "publish", "clean"}

GridUntouched ==
    (BeforeSwap \/ (pc = "finish" /\ outcome # "published")) => grid = grid_then

\* The crossed gate's verdict on a set of snapshots.
Passes(shots) ==
    \A s \in Streams :
        CrossedOneIn * Cardinality({o \in {o \in shots : o.stream = s} : o.crossed})
          <= Cardinality({o \in shots : o.stream = s})

\* Only a run whose snapshots the crossed gate let through has changed the grid.
GatesHeld ==
    /\ grid = grid_then \/ Passes(snapshots)
    /\ pc = "publish" => Passes(snapshots)

StagingInvariant == (pc = "copy" => staging = {}) /\ (pc = "publish" => staging = Staged)
ReadIsFinite == IsFiniteSet(raw) /\ IsFiniteSet(held) /\ IsFiniteSet(snapshots)

\* The inductive invariant.
DInv == GridUntouched /\ GatesHeld /\ StagingInvariant /\ ReadIsFinite

\* No snapshot at all passes the gate.
LEMMA NothingPasses == Passes({})
<1> SUFFICES ASSUME NEW s \in Streams
             PROVE  CrossedOneIn * Cardinality({o \in {o \in {} : o.stream = s} : o.crossed})
                      <= Cardinality({o \in {} : o.stream = s})
  BY DEF Passes
<1>1. {o \in {o \in {} : o.stream = s} : o.crossed} = {} /\ {o \in {} : o.stream = s} = {}
  OBVIOUS
<1>2. Cardinality({}) = 0 /\ CrossedOneIn * 0 = 0
  BY FS_EmptySet, DeriveAssumption
<1> QED BY <1>1, <1>2

LEMMA GateIsPasses == GatesPass => Passes(snapshots)
BY DEF GatesPass, CrossedGatePasses, Passes

\* What one read of a finite table returns is finite.
LEMMA WindowIsFinite ==
    ASSUME NEW obs, IsFiniteSet(obs), NEW kind, NEW s, NEW start, NEW end
    PROVE  IsFiniteSet(Window(obs, kind, s, start, end))
<1>1. Window(obs, kind, s, start, end) \subseteq obs
  BY DEF Window
<1> QED BY <1>1, FS_Subset

\* Capture touches nothing of a run but the raw layer, which stays finite.
LEMMA CaptureKeeps == DInv /\ CaptureStep => DInv'
<1> SUFFICES ASSUME DInv, CaptureStep PROVE DInv'
  OBVIOUS
<1>1. UNCHANGED <<grid, staging, pc, grid_end, rows, snapshots, outcome, grid_then>>
  BY DEF CaptureStep, Tick, Store, Observe, tables, range, work, history
<1>2. IsFiniteSet(raw') /\ IsFiniteSet(held')
  <2>1. CASE Tick
    BY <2>1 DEF Tick, DInv, ReadIsFinite
  <2>2. CASE Store
    <3>1. PICK o \in held : raw' = raw \cup {o} /\ held' = held \ {o}
      BY <2>2 DEF Store
    <3>2. IsFiniteSet(raw \cup {o})
      BY FS_AddElement DEF DInv, ReadIsFinite
    <3>3. IsFiniteSet(held \ {o})
      BY FS_RemoveElement DEF DInv, ReadIsFinite
    <3> QED BY <3>1, <3>2, <3>3
  <2>3. ASSUME NEW o, Observe(o) PROVE IsFiniteSet(raw') /\ IsFiniteSet(held')
    <3>1. IsFiniteSet(raw \cup {o}) /\ IsFiniteSet(held \cup {o})
      BY FS_AddElement DEF DInv, ReadIsFinite
    <3> QED BY <2>3, <3>1 DEF Observe, DInv, ReadIsFinite
  <2> QED BY <2>1, <2>2, <2>3 DEF CaptureStep
<1>3. GridUntouched' /\ StagingInvariant'
  BY <1>1 DEF DInv, GridUntouched, StagingInvariant, BeforeSwap, Staged
<1>4. GatesHeld'
  BY <1>1 DEF DInv, GatesHeld
<1>5. ReadIsFinite'
  BY <1>1, <1>2 DEF DInv, ReadIsFinite
<1> QED BY <1>3, <1>4, <1>5 DEF DInv

\* A job that returns or raises leaves nothing to be swapped.
LEMMA ReturnKeeps == ASSUME DInv, Return, UNCHANGED capture PROVE DInv'
<1>1. pc' = "idle" /\ snapshots' = {} /\ raw' = raw /\ held' = held
  BY DEF Return, capture
<1>2. ReadIsFinite'
  BY <1>1, FS_EmptySet DEF DInv, ReadIsFinite
<1>3. GridUntouched' /\ StagingInvariant'
  BY <1>1 DEF GridUntouched, StagingInvariant, BeforeSwap
<1>4. GatesHeld'
  BY <1>1, NothingPasses DEF GatesHeld
<1> QED BY <1>2, <1>3, <1>4 DEF DInv

\* Beginning a run takes the grid as it is.
LEMMA BeginKeeps == DInv /\ BeginStep => DInv'
<1> SUFFICES ASSUME DInv, BeginStep PROVE DInv'
  OBVIOUS
<1>1. CASE BeginTail \/ BeginFull \/ FirstCapture
  <2>1. /\ pc \in {"idle", "first"} /\ pc' \in {"start", "first"} /\ raw' = raw
        /\ held' = held /\ snapshots' = snapshots /\ grid' = grid /\ grid_then' = grid_then
    BY <1>1 DEF BeginTail, BeginFull, FirstCapture, capture, work, tables, history
  <2> QED
    BY <2>1 DEF DInv, GridUntouched, GatesHeld, StagingInvariant, ReadIsFinite, BeforeSwap
<1>2. CASE FirstKnown
  <2>1. CASE Return
    BY <1>2, <2>1, ReturnKeeps DEF FirstKnown
  <2>2. CASE ~Return
    <3>1. /\ pc = "first" /\ pc' = "start" /\ raw' = raw /\ held' = held
          /\ snapshots' = snapshots /\ grid' = grid /\ grid_then' = grid_then
      BY <1>2, <2>2 DEF FirstKnown, capture, work, tables, history
    <3> QED
      BY <3>1 DEF DInv, GridUntouched, GatesHeld, StagingInvariant, ReadIsFinite,
         BeforeSwap
  <2> QED BY <2>1, <2>2
<1>3. CASE StartRun
  <2>1. /\ pc = "start" /\ pc' = "read" /\ snapshots' = {}
        /\ raw' = raw /\ held' = held /\ grid_then' = grid /\ grid' = grid
    BY <1>3 DEF StartRun, Statement, capture, tables
  <2> QED
    BY <2>1, FS_EmptySet DEF DInv, GridUntouched, GatesHeld, StagingInvariant, ReadIsFinite,
       BeforeSwap
<1> QED BY <1>1, <1>2, <1>3 DEF BeginStep

\* Reading leaves grid and staging alone.
LEMMA ReadKeeps == DInv /\ ReadStep => DInv'
<1> SUFFICES ASSUME DInv, ReadStep PROVE DInv'
  OBVIOUS
<1>1. ReadNext
  BY DEF ReadStep, ReadBook, ReadTrades, ReadSnapshots
<1>2. /\ pc = "read" /\ pc' \in {"reset", "read"} /\ grid' = grid /\ grid_then' = grid_then
      /\ raw' = raw /\ held' = held
  BY <1>1 DEF ReadNext, tables, history, capture
<1>3. IsFiniteSet(snapshots')
  <2>1. CASE ReadBook \/ ReadTrades
    BY <2>1 DEF ReadBook, ReadTrades, DInv, ReadIsFinite
  <2>2. CASE ReadSnapshots
    <3>1. snapshots' = snapshots \cup Window(raw, "snapshot", Asked, grid_start, grid_end)
      BY <2>2 DEF ReadSnapshots
    <3>2. IsFiniteSet(Window(raw, "snapshot", Asked, grid_start, grid_end))
      BY WindowIsFinite DEF DInv, ReadIsFinite
    <3> QED BY <3>1, <3>2, FS_Union DEF DInv, ReadIsFinite
  <2> QED BY <2>1, <2>2 DEF ReadStep
<1> QED
  BY <1>2, <1>3 DEF DInv, GridUntouched, GatesHeld, StagingInvariant, ReadIsFinite,
     BeforeSwap

\* Staging is emptied, filled, gated and swapped in that order.
LEMMA PublishKeeps == DInv /\ PublishStep => DInv'
<1> SUFFICES ASSUME DInv, PublishStep PROVE DInv'
  OBVIOUS
<1>1. CASE Reset
  <2>1. /\ pc = "reset" /\ pc' = "copy" /\ staging' = {} /\ grid' = grid
        /\ grid_then' = grid_then /\ raw' = raw /\ held' = held /\ snapshots' = snapshots
    BY <1>1 DEF Reset, Statement, ResetStaging, capture, work, history
  <2> QED
    BY <2>1 DEF DInv, GridUntouched, GatesHeld, StagingInvariant, ReadIsFinite, BeforeSwap
<1>2. CASE Stage
  <2>1. /\ pc = "copy" /\ staging' = staging \cup Staged /\ grid' = grid
        /\ pc' = IF GatesPass THEN "publish" ELSE "clean"
        /\ grid_then' = grid_then /\ raw' = raw /\ held' = held /\ snapshots' = snapshots
        /\ rows' = rows /\ grid_end' = grid_end
    BY <1>2 DEF Stage, Statement, capture, work, range, history
  <2>2. staging = {}
    BY <2>1 DEF DInv, StagingInvariant
  <2>3. GatesHeld'
    BY <2>1, GateIsPasses DEF DInv, GatesHeld, GridUntouched, BeforeSwap
  <2>4. StagingInvariant'
    BY <2>1, <2>2 DEF StagingInvariant, Staged
  <2> QED
    BY <2>1, <2>3, <2>4 DEF DInv, GridUntouched, ReadIsFinite, BeforeSwap
<1>3. CASE Abort
  <2>1. /\ pc = "clean" /\ pc' = "finish" /\ outcome' = "aborted" /\ grid' = grid
        /\ grid_then' = grid_then /\ raw' = raw /\ held' = held /\ snapshots' = snapshots
    BY <1>3 DEF Abort, Statement, ResetStaging, capture, history
  <2> QED
    BY <2>1 DEF DInv, GridUntouched, GatesHeld, StagingInvariant, ReadIsFinite, BeforeSwap
<1>4. CASE Publish
  <2>1. /\ pc = "publish" /\ pc' = "finish" /\ outcome' = "published"
        /\ raw' = raw /\ held' = held /\ snapshots' = snapshots
    BY <1>4 DEF Publish, capture
  <2>2. GatesHeld'
    BY <2>1 DEF DInv, GatesHeld
  <2> QED
    BY <2>1, <2>2 DEF DInv, GridUntouched, StagingInvariant, ReadIsFinite, BeforeSwap
<1>5. CASE FinishRun
  BY <1>5, ReturnKeeps DEF FinishRun
<1> QED BY <1>1, <1>2, <1>3, <1>4, <1>5 DEF PublishStep

\* A statement that fails, done or not, ends the run before its swap.
LEMMA RaisedKeeps == DInv /\ (Raised \/ Crash) => DInv'
<1> SUFFICES ASSUME DInv, Raised \/ Crash PROVE DInv'
  OBVIOUS
<1>1. CASE Return
  <2>1. UNCHANGED capture
    BY DEF Raised, Crash
  <2> QED BY <1>1, <2>1, ReturnKeeps
<1>2. CASE ~Return
  <2>1. /\ pc' = "failed" /\ raw' = raw /\ held' = held /\ snapshots' = snapshots
        /\ grid_then' = grid_then /\ (Statement \/ UNCHANGED tables)
    BY <1>2 DEF Raised, Crash, capture, work, history
  <2>2. grid' = grid \/ pc = "publish"
    BY <2>1 DEF Statement, ResetStaging, tables
  <2>3. GatesHeld'
    BY <2>1, <2>2 DEF DInv, GatesHeld
  <2> QED
    BY <2>1, <2>3 DEF DInv, GridUntouched, StagingInvariant, ReadIsFinite, BeforeSwap
<1> QED BY <1>1, <1>2

\* DInv is an invariant of the derive.
THEOREM Inductive == Spec => []DInv
<1>1. Init => DInv
  BY FS_EmptySet DEF Init, DInv, GridUntouched, GatesHeld, StagingInvariant, ReadIsFinite,
     BeforeSwap
<1>2. DInv /\ [Next]_vars => DInv'
  <2> SUFFICES ASSUME DInv, [Next]_vars PROVE DInv'
    OBVIOUS
  <2>1. CASE UNCHANGED vars
    <3>1. UNCHANGED <<raw, held, grid, staging, pc, grid_end, rows, snapshots, outcome, grid_then>>
      BY <2>1 DEF vars, capture, tables, range, work, history
    <3> QED
      BY <3>1 DEF DInv, GridUntouched, GatesHeld, StagingInvariant, ReadIsFinite,
         BeforeSwap, Staged
  <2>2. CASE Rest
    BY <2>1, <2>2 DEF Rest
  <2> QED
    BY <2>1, <2>2, CaptureKeeps, BeginKeeps, ReadKeeps, PublishKeeps, RaisedKeeps DEF Next
<1> QED BY <1>1, <1>2, PTL DEF Spec

\* What is swapped in is this run's work, whatever earlier runs left staged.
THEOREM StagingIsOurs == Spec => []StagingIsThisRun
<1>1. DInv => StagingIsThisRun
  BY DEF DInv, StagingInvariant, StagingIsThisRun
<1> QED BY <1>1, Inductive, PTL

\* Once a run has read that more of a stream's snapshots are crossed than the gate lets
\* through, the served grid stays what it was until the job is over, whichever statements fail.
THEOREM GatesGuardTheGrid == Spec => []CrossedStreamShipsNothing
<1>1. DInv => CrossedStreamShipsNothing
  <2> SUFFICES ASSUME DInv, NEW s \in Streams,
                      Cardinality({o \in snapshots : o.stream = s})
                        < CrossedOneIn * Cardinality({o \in {o \in snapshots : o.stream = s} : o.crossed})
               PROVE  grid = grid_then
    BY DEF CrossedStreamShipsNothing
  <2> DEFINE shots == {o \in snapshots : o.stream = s}
             bad == {o \in shots : o.crossed}
  <2>1. Cardinality(shots) \in Nat /\ Cardinality(bad) \in Nat
    <3>1. shots \subseteq snapshots /\ bad \subseteq snapshots
      OBVIOUS
    <3>2. IsFiniteSet(shots) /\ IsFiniteSet(bad)
      BY <3>1, FS_Subset DEF DInv, ReadIsFinite
    <3> QED BY <3>2, FS_CardinalityType
  <2>2. ~(CrossedOneIn * Cardinality(bad) <= Cardinality(shots))
    <3>1. Cardinality(shots) < CrossedOneIn * Cardinality(bad)
      OBVIOUS
    <3>2. CrossedOneIn * Cardinality(bad) \in Nat
      BY <2>1, DeriveAssumption
    <3> HIDE DEF shots, bad
    <3> QED BY <2>1, <3>1, <3>2
  <2>3. ~Passes(snapshots)
    BY <2>2 DEF Passes
  <2> QED BY <2>3 DEF DInv, GatesHeld
<1> QED BY <1>1, Inductive, PTL
-----------------------------------------------------------------------------
(* Time: the whole second and the grid point below an instant *)

Aligned(t) == \E k \in Int : t = k * StepTicks

LEMMA Positive ==
    /\ NStreams \in Nat \ {0} /\ Fraction \in Nat \ {0} /\ Step \in Nat \ {0}
    /\ TailSteps \in Nat \ {0} /\ StepTicks \in Nat \ {0} /\ Fraction <= StepTicks
<1>1. /\ NStreams \in Nat \ {0} /\ Fraction \in Nat \ {0} /\ Step \in Nat \ {0}
      /\ TailSteps \in Nat \ {0}
  BY DeriveAssumption
<1>2. ASSUME NEW m \in Nat \ {0}, NEW n \in Nat \ {0}
      PROVE  m * n \in Nat \ {0} /\ n <= m * n
  OBVIOUS
<1> QED BY <1>1, <1>2 DEF StepTicks

LEMMA DivMod ==
    ASSUME NEW a \in Int, NEW b \in Nat \ {0}
    PROVE  /\ a \div b \in Int /\ a % b \in 0..(b - 1)
           /\ a = (a \div b) * b + (a % b)
OBVIOUS

LEMMA Products ==
    ASSUME NEW a \in Int, NEW b \in Int, NEW n \in Nat
    PROVE  /\ a * n \in Int
           /\ (a + b) * n = a * n + b * n /\ (a - b) * n = a * n - b * n
           /\ a <= b => a * n <= b * n
           /\ (a < b => a * n + n <= b * n)
OBVIOUS

\* Where an instant lies between grid points and between whole seconds.
LEMMA FloorFacts ==
    ASSUME NEW t \in Int
    PROVE  /\ FloorStep(t) \in Int /\ Aligned(FloorStep(t))
           /\ FloorStep(t) <= t /\ t < FloorStep(t) + StepTicks
           /\ WholeSecond(t) \in Int /\ FloorStep(t) <= WholeSecond(t)
           /\ WholeSecond(t) <= t /\ t < WholeSecond(t) + Fraction
<1> DEFINE second == t \div Fraction
           k == second \div Step
<1>1. /\ second \in Int /\ t % Fraction \in 0..(Fraction - 1)
      /\ t = second * Fraction + (t % Fraction)
  BY Positive, DivMod
<1>2. k \in Int /\ second % Step \in 0..(Step - 1) /\ second = k * Step + (second % Step)
  <2> HIDE DEF second
  <2> QED BY <1>1, Positive, DivMod
<1>3. FloorStep(t) = (k * Step) * Fraction /\ WholeSecond(t) = second * Fraction
  <2>1. FloorStep(t) = (second - (second % Step)) * Fraction
        /\ WholeSecond(t) = second * Fraction
    BY DEF FloorStep, WholeSecond
  <2>2. second - (second % Step) = k * Step
    <3>1. k * Step \in Int
      <4> HIDE DEF k
      <4> QED BY <1>2, Positive
    <3> HIDE DEF second, k
    <3> QED BY <1>1, <1>2, <3>1
  <2> QED BY <2>1, <2>2
<1>4. (k * Step) * Fraction = k * StepTicks
  <2> HIDE DEF k
  <2> QED BY <1>2, Positive DEF StepTicks
<1>5. /\ (k * Step) * Fraction \in Int /\ second * Fraction \in Int
      /\ (k * Step) * Fraction <= second * Fraction
      /\ second * Fraction <= (k * Step) * Fraction + StepTicks - Fraction
  <2>1. k * Step \in Int /\ k * Step <= second /\ second - k * Step <= Step - 1
    <3>1. k * Step \in Int
      <4> HIDE DEF k
      <4> QED BY <1>2, Positive
    <3> HIDE DEF second, k
    <3> QED BY <1>1, <1>2, <3>1, Positive
  <2> DEFINE below == k * Step
  <2>2. /\ below * Fraction \in Int /\ second * Fraction \in Int
        /\ below * Fraction <= second * Fraction
        /\ (second - below) * Fraction = second * Fraction - below * Fraction
        /\ (second - below) * Fraction <= (Step - 1) * Fraction
        /\ (Step - 1) * Fraction = StepTicks - Fraction
    <3>1. below \in Int /\ second \in Int /\ second - below \in Int /\ Step - 1 \in Int
      BY <2>1, <1>1, Positive
    <3>2. (Step - 1) * Fraction = StepTicks - Fraction
      BY Positive DEF StepTicks
    <3>3. below <= second /\ second - below <= Step - 1
      BY <2>1
    <3> HIDE DEF below, second
    <3>4. /\ below * Fraction \in Int /\ second * Fraction \in Int
          /\ below * Fraction <= second * Fraction
          /\ (second - below) * Fraction = second * Fraction - below * Fraction
      BY <3>1, <3>3, Products, Positive
    <3>5. (second - below) * Fraction <= (Step - 1) * Fraction
      BY <3>1, <3>3, Products, Positive
    <3> QED BY <3>2, <3>4, <3>5
  <2> HIDE DEF below, second
  <2>3. below * Fraction <= second * Fraction
        /\ second * Fraction <= below * Fraction + StepTicks - Fraction
    BY <2>2, Positive
  <2> QED BY <2>2, <2>3 DEF below
<1> DEFINE floor == (k * Step) * Fraction
           whole == second * Fraction
<1>6. floor <= t /\ t < floor + StepTicks /\ whole <= t /\ t < whole + Fraction
  <2>1. t = whole + (t % Fraction) /\ floor <= whole /\ whole <= floor + StepTicks - Fraction
        /\ floor \in Int /\ whole \in Int
    BY <1>1, <1>5
  <2> HIDE DEF floor, whole
  <2> QED BY <2>1, <1>1, Positive
<1> QED BY <1>2, <1>3, <1>4, <1>5, <1>6 DEF Aligned

\* Two grid points are a step apart.
LEMMA AlignedGap ==
    ASSUME NEW a \in Int, NEW b \in Int, Aligned(a), Aligned(b), a < b
    PROVE  a + StepTicks <= b
<1>1. PICK i \in Int : a = i * StepTicks
  BY DEF Aligned
<1>2. PICK j \in Int : b = j * StepTicks
  BY DEF Aligned
<1>3. i < j
  <2> SUFFICES ASSUME j <= i PROVE FALSE
    BY <1>1, <1>2
  <2>1. j * StepTicks <= i * StepTicks
    BY Products, Positive
  <2> QED BY <1>1, <1>2, <2>1
<1>4. i * StepTicks + StepTicks <= j * StepTicks
  BY <1>3, Products, Positive
<1> QED BY <1>1, <1>2, <1>4

LEMMA AlignedSteps ==
    ASSUME NEW a \in Int, Aligned(a), NEW n \in Int
    PROVE  Aligned(a + n * StepTicks) /\ Aligned(a - n * StepTicks)
<1>1. PICK i \in Int : a = i * StepTicks
  BY DEF Aligned
<1>2. (i + n) * StepTicks = a + n * StepTicks /\ (i - n) * StepTicks = a - n * StepTicks
  BY <1>1, Products, Positive
<1> QED BY <1>2 DEF Aligned

LEMMA AlignedStep ==
    ASSUME NEW a \in Int, Aligned(a)
    PROVE  Aligned(a + StepTicks) /\ Aligned(a - StepTicks)
<1>1. 1 * StepTicks = StepTicks
  BY Positive
<1> QED BY <1>1, AlignedSteps

\* The bucket of an instant is the one it lies in.
LEMMA FloorIsTheBucket ==
    ASSUME NEW t \in Int, NEW b \in Int, Aligned(b), b <= t, t < b + StepTicks
    PROVE  FloorStep(t) = b
<1>1. FloorStep(t) \in Int /\ Aligned(FloorStep(t)) /\ FloorStep(t) <= t
      /\ t < FloorStep(t) + StepTicks
  BY FloorFacts
<1>2. ~(FloorStep(t) < b)
  BY <1>1, AlignedGap, Positive
<1>3. ~(b < FloorStep(t))
  BY <1>1, AlignedGap, Positive
<1> QED BY <1>1, <1>2, <1>3

\* A snapshot's grid point: never a second late, never beyond the window's end.
LEMMA CeilFacts ==
    ASSUME NEW t \in Int
    PROVE  /\ CeilStep(t) \in Int /\ Aligned(CeilStep(t))
           /\ t < CeilStep(t) + Fraction
           /\ CeilStep(t) <= FloorStep(t) + StepTicks
<1>1. /\ FloorStep(t) \in Int /\ Aligned(FloorStep(t)) /\ t < FloorStep(t) + StepTicks
      /\ WholeSecond(t) \in Int /\ t < WholeSecond(t) + Fraction
  BY FloorFacts
<1>2. Aligned(FloorStep(t) + StepTicks)
  BY <1>1, AlignedStep
<1>3. CASE FloorStep(t) = WholeSecond(t)
  BY <1>1, <1>3, Positive DEF CeilStep
<1>4. CASE FloorStep(t) # WholeSecond(t)
  <2>1. CeilStep(t) = FloorStep(t) + StepTicks
    BY <1>4 DEF CeilStep
  <2> QED BY <1>1, <1>2, <2>1, Positive
<1> QED BY <1>3, <1>4

-----------------------------------------------------------------------------
(* The least and the greatest element of a finite set *)

LEMMA LeastExists ==
    ASSUME NEW S \in SUBSET Int, IsFiniteSet(S), S # {}
    PROVE  \E x \in S : \A y \in S : x <= y
<1> DEFINE Below(x) == {y \in S : y < x}
           T == {Below(x) : x \in S}
<1>1. IsWellFoundedOn(StrictSubsetOrdering(S), SUBSET S)
  BY FS_StrictSubsetOrderingWellFounded, FS_FiniteSubsetsOfFinite
<1>2. T \subseteq SUBSET S /\ T # {}
  OBVIOUS
<1>3. PICK B \in T : \A C \in T : <<C, B>> \notin StrictSubsetOrdering(S)
  <2> HIDE DEF T
  <2> QED BY <1>1, <1>2, WFMin
<1>4. PICK x \in S : B = Below(x)
  OBVIOUS
<1>5. ASSUME NEW y \in S, y < x PROVE FALSE
  <2>1. \A z \in S : z < y => z < x
    BY <1>5
  <2>2. Below(y) \subseteq Below(x)
    BY <2>1
  <2>3. y \in Below(x) /\ y \notin Below(y)
    BY <1>5
  <2>4. <<Below(y), Below(x)>> \in StrictSubsetOrdering(S)
    BY <2>2, <2>3 DEF StrictSubsetOrdering
  <2> QED BY <1>3, <1>4, <2>4
<1> QED BY <1>5

LEMMA GreatestExists ==
    ASSUME NEW S \in SUBSET Int, IsFiniteSet(S), S # {}
    PROVE  \E x \in S : \A y \in S : y <= x
<1> DEFINE Above(x) == {y \in S : x < y}
           T == {Above(x) : x \in S}
<1>1. IsWellFoundedOn(StrictSubsetOrdering(S), SUBSET S)
  BY FS_StrictSubsetOrderingWellFounded, FS_FiniteSubsetsOfFinite
<1>2. T \subseteq SUBSET S /\ T # {}
  OBVIOUS
<1>3. PICK A \in T : \A C \in T : <<C, A>> \notin StrictSubsetOrdering(S)
  <2> HIDE DEF T
  <2> QED BY <1>1, <1>2, WFMin
<1>4. PICK x \in S : A = Above(x)
  OBVIOUS
<1>5. ASSUME NEW y \in S, x < y PROVE FALSE
  <2>1. \A z \in S : y < z => x < z
    BY <1>5
  <2>2. Above(y) \subseteq Above(x)
    BY <2>1
  <2>3. y \in Above(x) /\ y \notin Above(y)
    BY <1>5
  <2>4. <<Above(y), Above(x)>> \in StrictSubsetOrdering(S)
    BY <2>2, <2>3 DEF StrictSubsetOrdering
  <2> QED BY <1>3, <1>4, <2>4
<1> QED BY <1>5
-----------------------------------------------------------------------------
(* The rows one read makes of the raw layer *)

\* No observation of a row is a second or more younger than the row.
Timely(r) == \A v \in r.value : v[2] < r.ts + Fraction

KindOf(metric) == IF metric = "flow" THEN "trade" ELSE "book"

\* Every time a spread or flow row holds is that of an observation of its bucket.
FromRaw(r, obs) ==
    r.metric \in {"spread", "flow"} =>
        \A v \in r.value : \E o \in obs :
            /\ o.kind = KindOf(r.metric) /\ o.stream = r.stream
            /\ v = <<NoTime, o.at>> /\ FloorStep(o.at) + StepTicks = r.ts

\* The row's bucket lies in the window.
Within(r, start, end) == r.ts <= end /\ (r.metric # "depth" => start + StepTicks <= r.ts)

Sound(r, obs) == Aligned(r.ts) /\ Timely(r) /\ FromRaw(r, obs)

\* The row an event or a trade must have.
HasRow(table, o) ==
    \E r \in table : /\ Key(r) = <<FloorStep(o.at) + StepTicks, o.stream,
                                   IF o.kind = "book" THEN "spread" ELSE "flow">>
                     /\ <<NoTime, o.at>> \in r.value

LEMMA RowFields ==
    ASSUME NEW ts, NEW s, NEW metric, NEW value
    PROVE  /\ Row(ts, s, metric, value).ts = ts /\ Row(ts, s, metric, value).stream = s
           /\ Row(ts, s, metric, value).metric = metric
           /\ Row(ts, s, metric, value).value = value
           /\ (ts \in Int /\ s \in Streams /\ metric \in Metrics
                /\ value \subseteq (Nat \cup {NoTime}) \X Nat)
              => Row(ts, s, metric, value) \in GridRow
BY DEF Row, GridRow

LEMMA ObservationFields ==
    ASSUME NEW o \in Observations
    PROVE  o.kind \in Kinds /\ o.stream \in Streams /\ o.at \in Nat /\ o.crossed \in BOOLEAN
BY DEF Observations

\* The observation before another one, among finitely many.
LEMMA LaggedIsATime ==
    ASSUME NEW seen \in SUBSET Observations, IsFiniteSet(seen), NEW o \in Observations
    PROVE  Lagged(seen, o) \in Nat \cup {NoTime}
<1> DEFINE before == {q \in seen : q.at < o.at}
           earlier == {p.at : p \in before}
<1>1. Lagged(seen, o) =
        IF earlier = {} THEN NoTime ELSE CHOOSE t \in earlier : \A u \in earlier : u <= t
  BY DEF Lagged
<1>2. earlier \subseteq Nat
  BY DEF Observations
<1>3. \A u \in earlier : u < o.at
  OBVIOUS
<1>4. IsFiniteSet(earlier)
  <2>1. o.at \in Nat
    BY ObservationFields
  <2>2. \A u \in earlier : u <= o.at
    <3> HIDE DEF earlier
    <3> QED BY <1>2, <1>3, <2>1
  <2> HIDE DEF earlier
  <2> QED BY <1>2, <2>1, <2>2, FS_BoundedSetOfNaturals
<1>5. earlier # {} => \E t \in earlier : \A u \in earlier : u <= t
  <2> HIDE DEF earlier
  <2>1. earlier \in SUBSET Int
    BY <1>2
  <2> QED BY <1>4, <2>1, GreatestExists
<1> HIDE DEF earlier
<1> QED BY <1>1, <1>2, <1>5

\* What a read returns lies in its window.
LEMMA WindowFacts ==
    ASSUME NEW obs \in SUBSET Observations, IsFiniteSet(obs), NEW kind, NEW s,
           NEW start \in Int, NEW end \in Int
    PROVE  /\ Window(obs, kind, s, start, end) \in SUBSET Observations
           /\ IsFiniteSet(Window(obs, kind, s, start, end))
           /\ \A o \in Window(obs, kind, s, start, end) :
                 /\ o \in obs /\ o.kind = kind /\ o.stream = s
                 /\ start <= o.at /\ o.at < end
           /\ \A o \in obs : (o.kind = kind /\ o.stream = s /\ start <= o.at /\ o.at < end)
                 => o \in Window(obs, kind, s, start, end)
<1> DEFINE window == Window(obs, kind, s, start, end)
<1>1. window = {o \in obs : o.kind = kind /\ o.stream = s /\ start <= o.at /\ o.at < end}
  BY DEF Window
<1>2. IsFiniteSet(window)
  BY WindowIsFinite
<1>3. window \in SUBSET Observations
  BY <1>1
<1> HIDE DEF window
<1>4. \A o \in window : o \in obs /\ o.kind = kind /\ o.stream = s /\ start <= o.at /\ o.at < end
  BY <1>1
<1>5. \A o \in obs : (o.kind = kind /\ o.stream = s /\ start <= o.at /\ o.at < end)
        => o \in window
  BY <1>1
<1> QED BY <1>2, <1>3, <1>4, <1>5 DEF window

\* The grid point of an instant inside a window is inside it.
LEMMA BucketIsWithin ==
    ASSUME NEW start \in Int, NEW end \in Int, Aligned(start), Aligned(end),
           NEW t \in Int, start <= t, t < end
    PROVE  /\ FloorStep(t) \in Int /\ start <= FloorStep(t) /\ FloorStep(t) + StepTicks <= end
           /\ Aligned(FloorStep(t) + StepTicks) /\ t < FloorStep(t) + StepTicks
<1>1. /\ FloorStep(t) \in Int /\ Aligned(FloorStep(t)) /\ FloorStep(t) <= t
      /\ t < FloorStep(t) + StepTicks
  BY FloorFacts
<1>2. ~(FloorStep(t) < start)
  BY <1>1, AlignedGap, Positive
<1>3. FloorStep(t) + StepTicks <= end
  BY <1>1, AlignedGap
<1> QED BY <1>1, <1>2, <1>3, AlignedStep

\* A bucket's rows: of its own observations, and dated by its end.
LEMMA BucketTimes ==
    ASSUME NEW obs \in SUBSET Observations, NEW seen \in SUBSET obs, NEW b \in Int,
           NEW s \in Streams, NEW metric \in {"spread", "flow"}, Aligned(b + StepTicks),
           \A o \in seen : o.kind = KindOf(metric) /\ o.stream = s
    PROVE  LET r == Row(b + StepTicks, s, metric, Times(InBucket(seen, b)))
           IN  r \in GridRow /\ Sound(r, obs)
<1> DEFINE value == Times(InBucket(seen, b))
           r == Row(b + StepTicks, s, metric, value)
<1>1. \A v \in value : \E o \in seen : v = <<NoTime, o.at>> /\ FloorStep(o.at) = b
  BY DEF Times, InBucket
<1>2. \A o \in seen : o \in obs /\ o.at \in Nat /\ o.at \in Int
  BY DEF Observations
<1>3. value \subseteq (Nat \cup {NoTime}) \X Nat
  BY <1>1, <1>2
<1>4. b + StepTicks \in Int /\ metric \in Metrics
  BY Positive DEF Metrics
<1>5. /\ r \in GridRow /\ r.ts = b + StepTicks /\ r.stream = s /\ r.metric = metric
      /\ r.value = value
  BY <1>3, <1>4, RowFields
<1>6. Timely(r)
  <2>1. ASSUME NEW v \in value PROVE v[2] < r.ts + Fraction
    <3>1. PICK o \in seen : v = <<NoTime, o.at>> /\ FloorStep(o.at) = b
      BY <1>1
    <3>2. o.at < b + StepTicks /\ v[2] = o.at /\ o.at \in Int
      BY <3>1, <1>2, FloorFacts
    <3> HIDE DEF r, value
    <3> QED BY <3>2, <1>4, <1>5, Positive
  <2> QED BY <1>5, <2>1 DEF Timely
<1>7. FromRaw(r, obs)
  <2> HIDE DEF r, value
  <2> QED BY <1>1, <1>2, <1>5 DEF FromRaw
<1> QED BY <1>4, <1>5, <1>6, <1>7 DEF Sound

LEMMA BookRowFacts ==
    ASSUME NEW obs \in SUBSET Observations, IsFiniteSet(obs), NEW s \in Streams,
           NEW start \in Int, NEW end \in Int, Aligned(start), Aligned(end),
           NEW r \in BookRows(obs, s, start, end)
    PROVE  r \in GridRow /\ Sound(r, obs) /\ Within(r, start, end)
<1> DEFINE seen == Window(obs, "book", s, start - StepTicks, end)
           scored == Window(obs, "book", s, start, end)
<1>1. /\ scored \in SUBSET Observations /\ scored \in SUBSET obs
      /\ \A o \in scored : o.kind = "book" /\ o.stream = s /\ start <= o.at /\ o.at < end
      /\ \A o \in scored : o.at \in Int /\ o.at \in Nat
  BY WindowFacts, ObservationFields
<1>2. \A b \in Buckets(scored) :
         /\ b \in Int /\ start <= b /\ b + StepTicks <= end /\ Aligned(b + StepTicks)
  BY <1>1, BucketIsWithin DEF Buckets
<1>3. CASE r \in {Row(b + StepTicks, s, "spread", Times(InBucket(scored, b))) :
                     b \in Buckets(scored)}
  <2>1. PICK b \in Buckets(scored) :
           r = Row(b + StepTicks, s, "spread", Times(InBucket(scored, b)))
    BY <1>3
  <2>2. r \in GridRow /\ Sound(r, obs)
    <3>1. b \in Int /\ Aligned(b + StepTicks) /\ KindOf("spread") = "book"
      BY <1>2 DEF KindOf
    <3> HIDE DEF scored
    <3> QED BY <1>1, <2>1, <3>1, BucketTimes
  <2>3. r.ts = b + StepTicks /\ r.metric = "spread"
    BY <2>1, RowFields
  <2> QED BY <1>2, <2>2, <2>3, Positive DEF Within
<1>4. CASE r \in {Row(b + StepTicks, s, "ofi",
                      {<<Lagged(seen, o), o.at>> : o \in InBucket(scored, b)}) :
                     b \in Buckets(scored)}
  <2>1. PICK b \in Buckets(scored) :
           r = Row(b + StepTicks, s, "ofi",
                   {<<Lagged(seen, o), o.at>> : o \in InBucket(scored, b)})
    BY <1>4
  <2> DEFINE value == {<<Lagged(seen, o), o.at>> : o \in InBucket(scored, b)}
  <2>2. \A v \in value : \E o \in scored : v = <<Lagged(seen, o), o.at>> /\ FloorStep(o.at) = b
    BY DEF InBucket
  <2>3. \A o \in scored : Lagged(seen, o) \in Nat \cup {NoTime}
    <3>1. seen \in SUBSET Observations /\ IsFiniteSet(seen)
      <4>1. start - StepTicks \in Int
        BY Positive
      <4> QED BY <4>1, WindowFacts
    <3> HIDE DEF seen, scored
    <3> QED BY <1>1, <3>1, LaggedIsATime
  <2>4. value \subseteq (Nat \cup {NoTime}) \X Nat
    <3> HIDE DEF value, scored, seen
    <3> QED BY <1>1, <2>2, <2>3
  <2>5. b + StepTicks \in Int
    BY <1>2, Positive
  <2>6. /\ r \in GridRow /\ r.ts = b + StepTicks /\ r.metric = "ofi" /\ r.value = value
    <3> HIDE DEF value
    <3>1. r = Row(b + StepTicks, s, "ofi", value) /\ "ofi" \in Metrics
      BY <2>1 DEF value, Metrics
    <3> QED BY <2>4, <2>5, <3>1, RowFields
  <2>7. ASSUME NEW v \in value PROVE v[2] < r.ts + Fraction
    <3>1. PICK o \in scored : v = <<Lagged(seen, o), o.at>> /\ FloorStep(o.at) = b
      BY <2>2
    <3>2. o.at < b + StepTicks /\ v[2] = o.at /\ o.at \in Int
      BY <3>1, <1>1, FloorFacts
    <3> HIDE DEF value, scored, seen
    <3> QED BY <3>2, <2>5, <2>6, Positive
  <2>8. Sound(r, obs)
    BY <1>2, <2>6, <2>7 DEF Sound, Timely, FromRaw
  <2> QED BY <1>2, <2>6, <2>8, Positive DEF Within
<1> QED BY <1>3, <1>4 DEF BookRows

LEMMA TradeRowFacts ==
    ASSUME NEW obs \in SUBSET Observations, IsFiniteSet(obs), NEW s \in Streams,
           NEW start \in Int, NEW end \in Int, Aligned(start), Aligned(end),
           NEW r \in TradeRows(obs, s, start, end)
    PROVE  r \in GridRow /\ Sound(r, obs) /\ Within(r, start, end)
<1> DEFINE seen == Window(obs, "trade", s, start, end)
<1>1. /\ seen \in SUBSET Observations /\ seen \in SUBSET obs
      /\ \A o \in seen : o.kind = "trade" /\ o.stream = s /\ start <= o.at /\ o.at < end
      /\ \A o \in seen : o.at \in Int
  BY WindowFacts, ObservationFields
<1>2. \A b \in Buckets(seen) :
         /\ b \in Int /\ start <= b /\ b + StepTicks <= end /\ Aligned(b + StepTicks)
  BY <1>1, BucketIsWithin DEF Buckets
<1>3. PICK b \in Buckets(seen) :
         r = Row(b + StepTicks, s, "flow", Times(InBucket(seen, b)))
  BY DEF TradeRows
<1>4. r \in GridRow /\ Sound(r, obs)
  <2>1. b \in Int /\ Aligned(b + StepTicks) /\ KindOf("flow") = "trade"
    BY <1>2 DEF KindOf
  <2> HIDE DEF seen
  <2> QED BY <1>1, <1>3, <2>1, BucketTimes
<1>5. r.ts = b + StepTicks /\ r.metric = "flow"
  BY <1>3, RowFields
<1> QED BY <1>2, <1>4, <1>5, Positive DEF Within

LEMMA SnapshotRowFacts ==
    ASSUME NEW obs \in SUBSET Observations, IsFiniteSet(obs), NEW s \in Streams,
           NEW start \in Int, NEW end \in Int, Aligned(start), Aligned(end),
           NEW r \in SnapshotRows(Window(obs, "snapshot", s, start, end), s)
    PROVE  r \in GridRow /\ Sound(r, obs) /\ Within(r, start, end)
<1> DEFINE shots == Window(obs, "snapshot", s, start, end)
           good == {o \in shots : o.stream = s /\ ~o.crossed}
<1>1. \A o \in good : o.at \in Int /\ o.at \in Nat /\ start <= o.at /\ o.at < end
  BY WindowFacts, ObservationFields
<1>2. PICK p \in good :
         r = Row(CeilStep(p.at), s, "depth", Times({o \in good : CeilStep(o.at) = CeilStep(p.at)}))
  BY DEF SnapshotRows
<1> DEFINE ts == CeilStep(p.at)
           value == Times({o \in good : CeilStep(o.at) = ts})
<1>3. ts \in Int /\ Aligned(ts) /\ ts <= end
  <2>1. p.at \in Int /\ start <= p.at /\ p.at < end
    BY <1>1
  <2>2. FloorStep(p.at) \in Int /\ FloorStep(p.at) + StepTicks <= end
    BY <2>1, BucketIsWithin
  <2>3. ts \in Int /\ Aligned(ts) /\ ts <= FloorStep(p.at) + StepTicks
    BY <2>1, CeilFacts
  <2> HIDE DEF ts
  <2> QED BY <2>2, <2>3, Positive
<1>4. \A v \in value : \E o \in good : v = <<NoTime, o.at>> /\ CeilStep(o.at) = ts
  BY DEF Times
<1>5. value \subseteq (Nat \cup {NoTime}) \X Nat
  <2> HIDE DEF value, good, ts
  <2> QED BY <1>1, <1>4
<1>6. r \in GridRow /\ r.ts = ts /\ r.metric = "depth" /\ r.value = value
  <2> HIDE DEF value, ts
  <2>1. r = Row(ts, s, "depth", value) /\ "depth" \in Metrics
    BY <1>2 DEF value, ts, Metrics
  <2> QED BY <1>3, <1>5, <2>1, RowFields
<1>7. ASSUME NEW v \in value PROVE v[2] < r.ts + Fraction
  <2>1. PICK o \in good : v = <<NoTime, o.at>> /\ CeilStep(o.at) = ts
    BY <1>4
  <2>2. o.at < ts + Fraction /\ v[2] = o.at
    BY <2>1, <1>1, CeilFacts
  <2> QED BY <2>2, <1>6
<1>8. Sound(r, obs)
  BY <1>3, <1>6, <1>7 DEF Sound, Timely, FromRaw
<1> QED BY <1>3, <1>6, <1>8 DEF Within

\* Every event and every trade of the window has its row.
LEMMA BookRowsCover ==
    ASSUME NEW obs \in SUBSET Observations, IsFiniteSet(obs), NEW s \in Streams,
           NEW start \in Int, NEW end \in Int,
           NEW o \in Window(obs, "book", s, start, end)
    PROVE  HasRow(BookRows(obs, s, start, end), o)
<1> DEFINE scored == Window(obs, "book", s, start, end)
           b == FloorStep(o.at)
           r == Row(b + StepTicks, s, "spread", Times(InBucket(scored, b)))
<1>1. o.kind = "book" /\ o.stream = s
  BY WindowFacts
<1>2. r \in BookRows(obs, s, start, end)
  BY DEF BookRows, Buckets
<1>3. <<NoTime, o.at>> \in Times(InBucket(scored, b))
  BY DEF Times, InBucket
<1>4. /\ r.ts = b + StepTicks /\ r.stream = s /\ r.metric = "spread"
      /\ r.value = Times(InBucket(scored, b))
  BY RowFields
<1> QED BY <1>1, <1>2, <1>3, <1>4 DEF HasRow, Key

LEMMA TradeRowsCover ==
    ASSUME NEW obs \in SUBSET Observations, IsFiniteSet(obs), NEW s \in Streams,
           NEW start \in Int, NEW end \in Int,
           NEW o \in Window(obs, "trade", s, start, end)
    PROVE  HasRow(TradeRows(obs, s, start, end), o)
<1> DEFINE seen == Window(obs, "trade", s, start, end)
           b == FloorStep(o.at)
           r == Row(b + StepTicks, s, "flow", Times(InBucket(seen, b)))
<1>1. o.kind = "trade" /\ o.stream = s
  BY WindowFacts
<1>2. r \in TradeRows(obs, s, start, end)
  BY DEF TradeRows, Buckets
<1>3. <<NoTime, o.at>> \in Times(InBucket(seen, b))
  BY DEF Times, InBucket
<1>4. /\ r.ts = b + StepTicks /\ r.stream = s /\ r.metric = "flow"
      /\ r.value = Times(InBucket(seen, b))
  BY RowFields
<1> QED BY <1>1, <1>2, <1>3, <1>4 DEF HasRow, Key
-----------------------------------------------------------------------------
(* Types, and where the window of a run lies *)

RunRows == [mode : {"tail", "full"}, start : Int, end : Int, failed : BOOLEAN,
            status : {"running", "published", "aborted", "failed"}]
Phases == {"idle", "first", "start", "read", "reset", "copy", "publish", "clean", "finish",
           "failed"}

CaptureOK ==
    /\ now \in Nat /\ raw \subseteq Observations /\ held \subseteq Observations
    /\ \A o \in raw \cup held : o.at <= now
TablesOK == grid \subseteq GridRow /\ staging \subseteq GridRow /\ runs \in Seq(RunRows)
RangeOK ==
    /\ pc \in Phases /\ mode \in {"tail", "full"} /\ grid_start \in Int /\ grid_end \in Int
    /\ pc # "idle" => Aligned(grid_end) /\ grid_end <= now
    /\ pc \notin {"idle", "first"} => Aligned(grid_start)
WorkOK ==
    /\ cursor \in Nat /\ rows \subseteq GridRow /\ snapshots \subseteq Observations
    /\ run \in 0..Len(runs) /\ outcome \in {"running", "published", "aborted"}
    /\ raw_then \subseteq raw /\ grid_then \subseteq GridRow /\ raised \in Nat
    /\ pc = "read" => cursor \in 1..(3 * NStreams)
    /\ pc \in {"reset", "copy", "publish", "clean", "finish"} => cursor = 3 * NStreams + 1

\* The types, with the cursor's place among the reads and the window's on the grid.
TInv == CaptureOK /\ TablesOK /\ RangeOK /\ WorkOK

LEMMA TypesHold == TInv => TypeOK
BY DEF TInv, CaptureOK, TablesOK, RangeOK, WorkOK, TypeOK, RunRows, Phases

\* A run's row, before it is finished and after.
LEMMA FinishedRow ==
    ASSUME runs \in Seq(RunRows), NEW status \in {"published", "aborted", "failed", "running"}
    PROVE  /\ Finished(status) \in Seq(RunRows) /\ Len(Finished(status)) = Len(runs)
           /\ DOMAIN Finished(status) = DOMAIN runs
           /\ \A i \in DOMAIN runs :
                 /\ Finished(status)[i].start = runs[i].start
                 /\ Finished(status)[i].end = runs[i].end
                 /\ Finished(status)[i].status = IF i = run THEN status ELSE runs[i].status
<1>1. DOMAIN Finished(status) = DOMAIN runs /\ DOMAIN runs = 1..Len(runs) /\ Len(runs) \in Nat
  BY DEF Finished
<1>2. ASSUME NEW i \in DOMAIN runs
      PROVE  /\ Finished(status)[i] \in RunRows
             /\ Finished(status)[i].start = runs[i].start
             /\ Finished(status)[i].end = runs[i].end
             /\ Finished(status)[i].status = IF i = run THEN status ELSE runs[i].status
  <2>1. runs[i] \in RunRows
    BY <1>1
  <2>2. CASE i = run
    <3>1. Finished(status)[i] = [mode |-> runs[i].mode, start |-> runs[i].start,
            end |-> runs[i].end, status |-> status, failed |-> status = "aborted"]
      BY <2>2 DEF Finished
    <3>2. (status = "aborted") \in BOOLEAN
      OBVIOUS
    <3>3. runs[i].mode \in {"tail", "full"} /\ runs[i].start \in Int /\ runs[i].end \in Int
      BY <2>1 DEF RunRows
    <3> QED BY <2>2, <3>1, <3>2, <3>3 DEF RunRows
  <2>3. CASE i # run
    BY <2>1, <2>3 DEF Finished
  <2> QED BY <2>2, <2>3
<1>3. Finished(status) = [i \in 1..Len(runs) |-> Finished(status)[i]]
  BY <1>1 DEF Finished
<1>4. Finished(status) \in Seq(RunRows) /\ Len(Finished(status)) = Len(runs)
  <2>1. Finished(status) \in [1..Len(runs) -> RunRows]
    BY <1>1, <1>2, <1>3
  <2> QED BY <1>1, <2>1
<1> QED BY <1>1, <1>2, <1>4

\* A statement, carried out or not, keeps the tables' types and forgets no run.
LEMMA TablesKept ==
    ASSUME TInv, Statement \/ UNCHANGED tables
    PROVE  TablesOK' /\ Len(runs') >= Len(runs) /\ Len(runs) \in Nat /\ Len(runs') \in Nat
<1>1. grid \subseteq GridRow /\ staging \subseteq GridRow /\ runs \in Seq(RunRows)
      /\ rows \subseteq GridRow
  BY DEF TInv, TablesOK, WorkOK
<1>2. Staged \subseteq GridRow /\ Swap \subseteq GridRow
  BY <1>1 DEF Staged, Swap
<1>3. grid' \subseteq GridRow /\ staging' \subseteq GridRow
  BY <1>1, <1>2 DEF Statement, tables, ResetStaging
<1>4. runs' \in Seq(RunRows) /\ Len(runs') >= Len(runs) /\ Len(runs) \in Nat
      /\ Len(runs') \in Nat
  <2>1. CASE UNCHANGED runs
    BY <1>1, <2>1
  <2>2. CASE runs' = Append(runs, NewRun)
    <3>1. NewRun \in RunRows
      BY DEF TInv, RangeOK, NewRun, RunRows
    <3> QED BY <1>1, <2>2, <3>1
  <2>3. ASSUME NEW status \in {"published", "aborted", "failed", "running"},
               runs' = Finished(status)
        PROVE  runs' \in Seq(RunRows) /\ Len(runs') = Len(runs)
    BY <1>1, <2>3, FinishedRow
  <2>4. outcome \in {"published", "aborted", "failed", "running"}
    BY DEF TInv, WorkOK
  <2>5. UNCHANGED runs \/ runs' = Append(runs, NewRun) \/ runs' = Finished(outcome)
        \/ runs' = Finished("failed")
    BY DEF Statement, tables, ResetStaging
  <2> QED BY <1>1, <2>1, <2>2, <2>3, <2>4, <2>5
<1> QED BY <1>3, <1>4 DEF TablesOK

LEMMA ReturnTypes ==
    ASSUME TInv, Return, CaptureOK', TablesOK', raised' \in {raised, raised + 1}
    PROVE  RangeOK' /\ WorkOK'
<1>1. Len(runs') \in Nat /\ raised' \in Nat
  BY DEF TablesOK, TInv, WorkOK
<1>2. RangeOK'
  BY DEF Return, RangeOK, Phases
<1>3. WorkOK'
  BY <1>1 DEF Return, WorkOK
<1> QED BY <1>2, <1>3

LEMMA CaptureTypes == TInv /\ CaptureStep => TInv'
<1> SUFFICES ASSUME TInv, CaptureStep PROVE TInv'
  OBVIOUS
<1>1. UNCHANGED <<tables, pc, range, work, history, raised>>
  BY DEF CaptureStep, Tick, Store, Observe
<1>2. CaptureOK' /\ raw \subseteq raw' /\ now' >= now
  <2>1. CASE Tick
    <3>1. \A o \in raw \cup held : o.at \in Nat
      BY DEF TInv, CaptureOK, Observations
    <3> QED BY <2>1, <3>1 DEF Tick, TInv, CaptureOK
  <2>2. CASE Store
    BY <2>2 DEF Store, TInv, CaptureOK
  <2>3. ASSUME NEW kind \in Kinds, NEW s \in Streams, NEW crossed \in BOOLEAN,
               crossed => kind = "snapshot" \/ (kind = "book" /\ "crossed" \in Faults),
               Observe([kind |-> kind, stream |-> s, at |-> now, crossed |-> crossed])
        PROVE  CaptureOK' /\ raw \subseteq raw' /\ now' >= now
    <3>1. [kind |-> kind, stream |-> s, at |-> now, crossed |-> crossed] \in Observations
      BY <2>3 DEF Observations, TInv, CaptureOK
    <3>2. [kind |-> kind, stream |-> s, at |-> now, crossed |-> crossed].at <= now
      BY DEF TInv, CaptureOK
    <3> QED BY <2>3, <3>1, <3>2 DEF Observe, TInv, CaptureOK
  <2> QED BY <2>1, <2>2, <2>3 DEF CaptureStep
<1>3. TablesOK'
  BY <1>1 DEF TInv, TablesOK, tables
<1>4. RangeOK'
  <2>1. now \in Int /\ now' \in Int /\ grid_end \in Int
    BY <1>2 DEF TInv, CaptureOK, RangeOK
  <2>2. UNCHANGED <<pc, mode, grid_start, grid_end>>
    BY <1>1 DEF range
  <2> QED BY <1>2, <2>1, <2>2 DEF TInv, RangeOK
<1>5. WorkOK'
  <2>1. UNCHANGED <<runs, cursor, rows, snapshots, run, outcome, raw_then, grid_then,
                    raised, pc>>
    BY <1>1 DEF tables, work, history
  <2> QED BY <1>2, <2>1 DEF TInv, WorkOK
<1> QED BY <1>2, <1>3, <1>4, <1>5 DEF TInv

\* The window of a run starts and ends on the grid, and not after the present.
LEMMA BeginTypes == TInv /\ DInv /\ BeginStep => TInv'
<1> SUFFICES ASSUME TInv, DInv, BeginStep PROVE TInv'
  OBVIOUS
<1>0. UNCHANGED capture /\ (Statement \/ UNCHANGED tables)
  BY DEF BeginStep, BeginTail, BeginFull, FirstCapture, FirstKnown, StartRun
<1>1. CaptureOK' /\ raw' = raw /\ now' = now
  BY <1>0 DEF TInv, CaptureOK, capture
<1>2. TablesOK' /\ Len(runs') >= Len(runs) /\ Len(runs) \in Nat /\ Len(runs') \in Nat
  BY <1>0, TablesKept
<1>t. now \in Int /\ FloorStep(now) \in Int /\ Aligned(FloorStep(now)) /\ FloorStep(now) <= now
  BY FloorFacts DEF TInv, CaptureOK
<1>3. CASE BeginTail
  <2>1. /\ mode' = "tail" /\ grid_end' = FloorStep(now) /\ pc' = "start"
        /\ grid_start' = FloorStep(grid_end' - TailSteps * StepTicks)
        /\ UNCHANGED <<runs, cursor, rows, snapshots, run, outcome, raw_then, grid_then, raised>>
    BY <1>3 DEF BeginTail, tables, work, history
  <2>2. grid_start' \in Int /\ Aligned(grid_start')
    <3>1. grid_end' - TailSteps * StepTicks \in Int
      BY <2>1, <1>t, Positive
    <3> QED BY <2>1, <3>1, FloorFacts
  <2>3. RangeOK'
    BY <2>1, <2>2, <1>1, <1>t DEF RangeOK, Phases
  <2>4. WorkOK'
    BY <2>1, <1>1 DEF TInv, WorkOK
  <2> QED BY <1>1, <1>2, <2>3, <2>4 DEF TInv
<1>4. CASE BeginFull
  <2>1. /\ mode' = "full" /\ grid_end' = FloorStep(now) /\ pc' = "first" /\ grid_start' = NoTime
        /\ cursor' = 1
        /\ UNCHANGED <<runs, rows, snapshots, run, outcome, raw_then, grid_then, raised>>
    BY <1>4 DEF BeginFull, tables, history
  <2>2. RangeOK'
    BY <2>1, <1>1, <1>t DEF RangeOK, Phases, NoTime
  <2>3. WorkOK'
    BY <2>1, <1>1 DEF TInv, WorkOK
  <2> QED BY <1>1, <1>2, <2>2, <2>3 DEF TInv
<1>5. CASE FirstCapture
  <2> DEFINE first == {o.at : o \in {p \in raw : p.kind = "book" /\ p.stream = cursor}}
             times == first \cup ({grid_start} \ {NoTime})
  <2>1. /\ pc = "first" /\ cursor' = cursor + 1
        /\ grid_start' = IF times = {} THEN NoTime
                         ELSE CHOOSE t \in times : \A u \in times : t <= u
        /\ UNCHANGED <<pc, mode, grid_end, runs, rows, snapshots, run, outcome, raw_then,
                       grid_then, raised>>
    BY <1>5 DEF FirstCapture, tables, history
  <2>2. times \in SUBSET Int /\ IsFiniteSet(times)
    <3>1. first \subseteq 0..now
      <4>1. \A o \in raw : o.at \in Nat
        BY DEF TInv, CaptureOK, Observations
      <4>2. \A o \in raw : o.at <= now
        BY DEF TInv, CaptureOK
      <4> QED BY <4>1, <4>2, <1>t
    <3>2. IsFiniteSet(first)
      <4>1. IsFiniteSet(0..now)
        BY <1>t, FS_Interval
      <4> HIDE DEF first
      <4> QED BY <3>1, <4>1, FS_Subset
    <3>3. IsFiniteSet(times)
      <4>1. IsFiniteSet(first \cup {grid_start})
        <5> HIDE DEF first
        <5> QED BY <3>2, FS_AddElement
      <4> QED BY <4>1, FS_Subset
    <3> QED BY <3>1, <3>3 DEF TInv, RangeOK
  <2>3. grid_start' \in Int
    <3> HIDE DEF times
    <3>1. times # {} => \E t \in times : \A u \in times : t <= u
      BY <2>2, LeastExists
    <3>2. times # {} => (CHOOSE t \in times : \A u \in times : t <= u) \in times
      BY <3>1
    <3>3. CASE times = {}
      BY <2>1, <3>3 DEF NoTime
    <3>4. CASE times # {}
      <4>1. grid_start' \in times
        BY <2>1, <3>2, <3>4, Zenon
      <4> QED BY <2>2, <4>1
    <3> QED BY <3>3, <3>4
  <2>4. RangeOK'
    BY <2>1, <2>3, <1>1 DEF RangeOK, TInv
  <2>5. WorkOK'
    BY <2>1, <1>1 DEF TInv, WorkOK
  <2> QED BY <1>1, <1>2, <2>4, <2>5 DEF TInv
<1>6. CASE FirstKnown
  <2>1. CASE Return
    BY <1>1, <1>2, <1>6, <2>1, ReturnTypes DEF TInv, FirstKnown
  <2>2. CASE ~Return
    <3>1. /\ pc = "first" /\ pc' = "start" /\ grid_start' = FloorStep(grid_start)
          /\ UNCHANGED <<mode, grid_end, cursor, rows, snapshots, run, outcome, raw_then,
                         grid_then, runs, raised>>
      BY <1>6, <2>2 DEF FirstKnown, work, history, tables
    <3>2. grid_start' \in Int /\ Aligned(grid_start')
      BY <3>1, FloorFacts DEF TInv, RangeOK
    <3>3. RangeOK'
      BY <3>1, <3>2, <1>1 DEF RangeOK, TInv, Phases
    <3>4. WorkOK'
      BY <3>1, <1>1 DEF TInv, WorkOK
    <3> QED BY <1>1, <1>2, <3>3, <3>4 DEF TInv
  <2> QED BY <2>1, <2>2
<1>7. CASE StartRun
  <2>1. /\ pc = "start" /\ pc' = "read" /\ cursor' = 1 /\ rows' = {} /\ snapshots' = {}
        /\ run' = Len(runs) + 1 /\ outcome' = "running" /\ raw_then' = raw /\ grid_then' = grid
        /\ UNCHANGED <<mode, grid_start, grid_end, raised>>
        /\ runs' = Append(runs, NewRun)
    BY <1>7 DEF StartRun, range, Statement
  <2>2. RangeOK'
    BY <2>1, <1>1 DEF RangeOK, TInv, Phases
  <2>3. run' \in 0..Len(runs')
    BY <2>1, <1>2 DEF TInv, TablesOK
  <2>4. cursor' \in 1..(3 * NStreams)
    BY <2>1, Positive
  <2>5. WorkOK'
    BY <2>1, <2>3, <2>4, <1>1 DEF WorkOK, TInv, TablesOK
  <2> QED BY <1>1, <1>2, <2>2, <2>5 DEF TInv
<1> QED BY <1>3, <1>4, <1>5, <1>6, <1>7 DEF BeginStep

\* The stream a read asks.
LEMMA AskedFacts ==
    ASSUME TInv, pc = "read"
    PROVE  /\ cursor \in 1..(3 * NStreams) /\ Asked \in Streams
           /\ cursor = 3 * (Asked - 1) + Part + 1
<1>1. cursor \in 1..(3 * NStreams) /\ NStreams \in Nat
  BY Positive DEF TInv, WorkOK
<1> QED BY <1>1 DEF Asked, Part, Streams

LEMMA ReadRows ==
    ASSUME TInv, DInv, ReadStep
    PROVE  /\ pc = "read" /\ cursor' = cursor + 1 /\ cursor \in 1..(3 * NStreams)
           /\ pc' = IF cursor = 3 * NStreams THEN "reset" ELSE "read"
           /\ UNCHANGED <<capture, tables, range, run, outcome, history, raised>>
           /\ Asked \in Streams /\ cursor = 3 * (Asked - 1) + Part + 1 /\ Part \in 0..2
           /\ rows \subseteq rows' /\ snapshots' \subseteq Observations
           /\ \A r \in rows' \ rows :
                 r \in GridRow /\ Sound(r, raw) /\ Within(r, grid_start, grid_end)
           /\ Part = 0 => rows' = rows \cup BookRows(raw, Asked, grid_start, grid_end)
           /\ Part = 1 => rows' = rows \cup TradeRows(raw, Asked, grid_start, grid_end)
<1>1. /\ pc = "read" /\ cursor' = cursor + 1
      /\ pc' = IF cursor = 3 * NStreams THEN "reset" ELSE "read"
      /\ UNCHANGED <<capture, tables, range, run, outcome, history, raised>>
  BY DEF ReadStep, ReadBook, ReadTrades, ReadSnapshots, ReadNext
<1>2. /\ raw \in SUBSET Observations /\ IsFiniteSet(raw) /\ grid_start \in Int
      /\ grid_end \in Int /\ Aligned(grid_start) /\ Aligned(grid_end) /\ Asked \in Streams
      /\ cursor \in 1..(3 * NStreams) /\ cursor = 3 * (Asked - 1) + Part + 1
      /\ snapshots \subseteq Observations
  BY <1>1, AskedFacts DEF TInv, CaptureOK, RangeOK, WorkOK, DInv, ReadIsFinite
<1>3. CASE ReadBook
  <2>1. Part = 0 /\ rows' = rows \cup BookRows(raw, Asked, grid_start, grid_end)
        /\ snapshots' = snapshots
    BY <1>3 DEF ReadBook
  <2> QED BY <1>1, <1>2, <2>1, BookRowFacts
<1>4. CASE ReadTrades
  <2>1. Part = 1 /\ rows' = rows \cup TradeRows(raw, Asked, grid_start, grid_end)
        /\ snapshots' = snapshots
    BY <1>4 DEF ReadTrades
  <2> QED BY <1>1, <1>2, <2>1, TradeRowFacts
<1>5. CASE ReadSnapshots
  <2> DEFINE shots == Window(raw, "snapshot", Asked, grid_start, grid_end)
  <2>1. /\ Part = 2 /\ rows' = rows \cup SnapshotRows(shots, Asked)
        /\ snapshots' = snapshots \cup shots
    BY <1>5 DEF ReadSnapshots
  <2>2. shots \subseteq Observations
    BY <1>2, WindowFacts
  <2> QED BY <1>1, <1>2, <2>1, <2>2, SnapshotRowFacts
<1> QED BY <1>3, <1>4, <1>5 DEF ReadStep

LEMMA ReadTypes == TInv /\ DInv /\ ReadStep => TInv'
<1> SUFFICES ASSUME TInv, DInv, ReadStep PROVE TInv'
  OBVIOUS
<1>1. /\ pc = "read" /\ cursor' = cursor + 1 /\ cursor \in 1..(3 * NStreams)
      /\ pc' = IF cursor = 3 * NStreams THEN "reset" ELSE "read"
      /\ snapshots' \subseteq Observations
      /\ UNCHANGED <<now, raw, held, grid, staging, runs, mode, grid_start, grid_end, run,
                     outcome, raw_then, grid_then, raised>>
  BY ReadRows DEF capture, tables, range, history
<1>2. rows' \subseteq GridRow
  <2>1. \A r \in rows' : r \in rows \/ r \in GridRow
    BY ReadRows
  <2> QED BY <2>1 DEF TInv, WorkOK
<1>3. CaptureOK' /\ TablesOK'
  BY <1>1 DEF TInv, CaptureOK, TablesOK
<1>4. RangeOK'
  BY <1>1 DEF TInv, RangeOK, Phases
<1>5. cursor' \in Nat /\ (pc' = "read" => cursor' \in 1..(3 * NStreams))
      /\ (pc' # "read" => cursor' = 3 * NStreams + 1)
  BY <1>1, Positive
<1>6. WorkOK'
  BY <1>1, <1>2, <1>5 DEF TInv, WorkOK
<1> QED BY <1>3, <1>4, <1>6 DEF TInv

LEMMA PublishTypes == TInv /\ PublishStep => TInv'
<1> SUFFICES ASSUME TInv, PublishStep PROVE TInv'
  OBVIOUS
<1>0. UNCHANGED capture /\ Statement
  BY DEF PublishStep, Reset, Stage, Abort, Publish, FinishRun
<1>1. CaptureOK' /\ raw' = raw /\ now' = now
  BY <1>0 DEF TInv, CaptureOK, capture
<1>2. TablesOK' /\ Len(runs') >= Len(runs) /\ Len(runs) \in Nat /\ Len(runs') \in Nat
  BY <1>0, TablesKept
<1>3. CASE Reset \/ Stage \/ Abort \/ Publish
  <2>1. /\ pc \in {"reset", "copy", "publish", "clean"}
        /\ pc' \in {"copy", "publish", "clean", "finish"}
        /\ outcome' \in {outcome, "aborted", "published"}
        /\ UNCHANGED <<mode, grid_start, grid_end, cursor, rows, snapshots, run, raw_then,
                       grid_then, raised>>
    BY <1>3 DEF Reset, Stage, Abort, Publish, range, work, history
  <2>2. RangeOK'
    BY <2>1, <1>1 DEF TInv, RangeOK, Phases
  <2>3. WorkOK'
    BY <2>1, <1>1, <1>2 DEF TInv, WorkOK
  <2> QED BY <1>1, <1>2, <2>2, <2>3 DEF TInv
<1>4. CASE FinishRun
  BY <1>1, <1>2, <1>4, ReturnTypes DEF FinishRun, TInv
<1> QED BY <1>3, <1>4 DEF PublishStep

LEMMA RaisedTypes == TInv /\ (Raised \/ Crash) => TInv'
<1> SUFFICES ASSUME TInv, Raised \/ Crash PROVE TInv'
  OBVIOUS
<1>0. UNCHANGED capture /\ (Statement \/ UNCHANGED tables) /\ pc # "idle"
  BY DEF Raised, Crash
<1>1. CaptureOK' /\ raw' = raw /\ now' = now
  BY <1>0 DEF TInv, CaptureOK, capture
<1>2. TablesOK' /\ Len(runs') >= Len(runs) /\ Len(runs) \in Nat /\ Len(runs') \in Nat
  BY <1>0, TablesKept
<1>3. CASE Return
  BY <1>1, <1>2, <1>3, ReturnTypes DEF TInv, Raised, Crash
<1>4. CASE ~Return
  <2>1. /\ pc' = "failed" /\ pc \notin {"idle", "first"}
        /\ UNCHANGED <<mode, grid_start, grid_end, cursor, rows, snapshots, run, outcome,
                       raw_then, grid_then, raised>>
    BY <1>0, <1>4 DEF Raised, Crash, range, work, history
  <2>2. RangeOK'
    BY <2>1, <1>1 DEF TInv, RangeOK, Phases
  <2>3. WorkOK'
    BY <2>1, <1>1, <1>2 DEF TInv, WorkOK
  <2> QED BY <1>1, <1>2, <2>2, <2>3 DEF TInv
<1> QED BY <1>3, <1>4

\* TInv is an invariant of the derive.
THEOREM TypesInductive == Spec => []TInv
<1>1. Init => TInv
  <2> SUFFICES ASSUME Init PROVE TInv
    OBVIOUS
  <2>1. Start \in Nat
    BY Positive DEF Start
  <2>2. CaptureOK /\ TablesOK
    BY <2>1 DEF Init, CaptureOK, TablesOK
  <2>3. RangeOK
    BY DEF Init, RangeOK, Phases
  <2>4. WorkOK
    BY DEF Init, WorkOK
  <2> QED BY <2>2, <2>3, <2>4 DEF TInv
<1>2. TInv /\ DInv /\ [Next]_vars => TInv'
  <2> SUFFICES ASSUME TInv, DInv, [Next]_vars PROVE TInv'
    OBVIOUS
  <2>1. CASE UNCHANGED vars
    <3>1. /\ UNCHANGED <<now, raw, held, grid, staging, runs>>
          /\ UNCHANGED <<pc, mode, grid_start, grid_end, cursor, rows, snapshots, run, outcome,
                         raw_then, grid_then, raised>>
      BY <2>1 DEF vars, capture, tables, range, work, history
    <3>2. CaptureOK' /\ TablesOK' /\ RangeOK'
      BY <3>1 DEF TInv, CaptureOK, TablesOK, RangeOK
    <3>3. WorkOK'
      BY <3>1 DEF TInv, WorkOK
    <3> QED BY <3>2, <3>3 DEF TInv
  <2>2. CASE Rest
    BY <2>1, <2>2 DEF Rest
  <2> QED
    BY <2>1, <2>2, CaptureTypes, BeginTypes, ReadTypes, PublishTypes, RaisedTypes DEF Next
<1> QED BY <1>1, <1>2, Inductive, PTL DEF Spec

\* Every variable of the derive holds a value the code could hold, in every state.
THEOREM Typed == Spec => []TypeOK
BY TypesHold, TypesInductive, PTL
-----------------------------------------------------------------------------
(* What a step of a job does to the tables and to its own rows *)

Working == {"read", "reset", "copy", "publish", "clean", "finish", "failed"}

\* The statement of a step, carried out or not.
LEMMA TableSteps ==
    ASSUME Statement \/ UNCHANGED tables
    PROVE  /\ grid' = grid \/ (pc = "publish" /\ grid' = Swap)
           /\ staging' \subseteq staging \cup rows
           /\ \/ runs' = runs
              \/ pc = "start" /\ runs' = Append(runs, NewRun)
              \/ pc = "finish" /\ runs' = Finished(outcome)
              \/ pc = "failed" /\ runs' = Finished("failed")
<1>1. Staged \subseteq rows
  BY DEF Staged
<1> QED BY <1>1 DEF Statement, tables, ResetStaging

\* Every step of a job but a read: it ends the job, starts its work, or carries it on.
LEMMA JobSteps ==
    ASSUME TInv, BeginStep \/ PublishStep \/ Raised \/ Crash
    PROVE  /\ UNCHANGED capture /\ (Statement \/ UNCHANGED tables)
           /\ \/ pc' \in {"idle", "first", "start"} /\ rows' \subseteq rows
              \/ /\ pc = "start" /\ pc' = "read" /\ rows' = {} /\ raw_then' = raw
                 /\ cursor' = 1 /\ outcome' = "running" /\ run' = Len(runs) + 1
                 /\ runs' = Append(runs, NewRun) /\ UNCHANGED <<grid_start, grid_end>>
              \/ /\ pc \in {"read", "reset", "copy", "publish", "clean"}
                 /\ pc' \in {"copy", "publish", "clean", "finish", "failed"}
                 /\ UNCHANGED <<grid_start, grid_end, cursor, rows, run, raw_then>>
                 /\ pc' = "publish" => GatesPass
                 /\ (pc' = "finish" /\ outcome' = "published") =>
                        pc = "publish" /\ grid' = Swap
<1>1. UNCHANGED capture /\ (Statement \/ UNCHANGED tables)
  BY DEF BeginStep, BeginTail, BeginFull, FirstCapture, FirstKnown, StartRun, PublishStep,
     Reset, Stage, Abort, Publish, FinishRun, Raised, Crash
<1>2. CASE Return
  BY <1>1, <1>2 DEF Return
<1>3. CASE BeginTail \/ BeginFull \/ FirstCapture
  BY <1>1, <1>3 DEF BeginTail, BeginFull, FirstCapture, work
<1>4. CASE FirstKnown /\ ~Return
  BY <1>1, <1>4 DEF FirstKnown, work
<1>5. CASE StartRun
  BY <1>1, <1>5 DEF StartRun, Statement, range
<1>6. CASE Reset \/ Abort
  BY <1>1, <1>6 DEF Reset, Abort, range, work, history
<1>7. CASE Stage
  BY <1>1, <1>7 DEF Stage, range, work, history
<1>8. CASE Publish
  BY <1>1, <1>8 DEF Publish, Statement, range, history
<1>9. CASE (Raised \/ Crash) /\ ~Return
  <2>1. /\ pc # "idle" /\ pc \notin {"first", "start", "finish", "failed"} /\ pc' = "failed"
        /\ UNCHANGED <<range, work, history>>
    BY <1>9 DEF Raised, Crash
  <2>2. pc \in {"read", "reset", "copy", "publish", "clean"}
    BY <2>1 DEF TInv, RangeOK, Phases
  <2> QED BY <1>1, <2>1, <2>2 DEF range, work, history
<1> QED
  BY <1>2, <1>3, <1>4, <1>5, <1>6, <1>7, <1>8, <1>9 DEF BeginStep, PublishStep, FinishRun

-----------------------------------------------------------------------------
(* Rows rest on the raw layer, and the gate's verdict on them stands *)

RowsAreSound == \A r \in grid \cup staging \cup rows : Sound(r, raw)
RowsAreWithin == pc \in Working => \A r \in rows : Within(r, grid_start, grid_end)
KeysAreUnique ==
    \A o, p \in raw \cup held :
        (o.kind = p.kind /\ o.stream = p.stream /\ o.at = p.at) => o = p
GatedRowsAreSane == pc = "publish" => \A r \in rows : ~Insane(r)

\* The inductive invariant.
RInv == RowsAreSound /\ RowsAreWithin /\ KeysAreUnique /\ GatedRowsAreSane /\ ServedIsSane

\* A row stays sound however much is captured.
LEMMA SoundStays ==
    ASSUME NEW obs, NEW more, obs \subseteq more, NEW r, Sound(r, obs)
    PROVE  Sound(r, more)
BY DEF Sound, FromRaw

\* No observation can be added to those a row summarises, so the gate's verdict on
\* it never changes.
LEMMA SaneStays ==
    ASSUME NEW r, Sound(r, raw), raw \subseteq raw', KeysAreUnique', Insane(r)'
    PROVE  Insane(r)
<1> DEFINE tops(obs) == {o \in obs : /\ o.kind = "book" /\ o.stream = r.stream
                                     /\ <<NoTime, o.at>> \in r.value}
<1>1. r.metric = "spread"
  BY DEF Insane
<1>2. tops(raw') \subseteq tops(raw)
  <2> SUFFICES ASSUME NEW o \in raw', o.kind = "book", o.stream = r.stream,
                      <<NoTime, o.at>> \in r.value
               PROVE  o \in raw
    OBVIOUS
  <2>1. PICK p \in raw : /\ p.kind = KindOf(r.metric) /\ p.stream = r.stream
                         /\ <<NoTime, o.at>> = <<NoTime, p.at>>
    BY <1>1 DEF Sound, FromRaw
  <2>2. p.kind = o.kind /\ p.stream = o.stream /\ p.at = o.at /\ p \in raw'
    BY <1>1, <2>1 DEF KindOf
  <2> QED BY <2>1, <2>2 DEF KeysAreUnique
<1>3. tops(raw') = tops(raw)
  BY <1>2
<1>4. 2 * Cardinality({o \in tops(raw') : o.crossed}) > Cardinality(tops(raw'))
  BY DEF Insane
<1> QED BY <1>1, <1>3, <1>4 DEF Insane

LEMMA CaptureSound == RInv /\ CaptureStep => RInv'
<1> SUFFICES ASSUME RInv, CaptureStep PROVE RInv'
  OBVIOUS
<1>1. UNCHANGED <<grid, staging, pc, grid_start, grid_end, rows>>
  BY DEF CaptureStep, Tick, Store, Observe, tables, range, work
<1>2. raw \subseteq raw' /\ KeysAreUnique'
  <2>1. CASE Tick
    BY <2>1 DEF Tick, RInv, KeysAreUnique
  <2>2. CASE Store
    BY <2>2 DEF Store, RInv, KeysAreUnique
  <2>3. ASSUME NEW o, Observe(o) PROVE raw \subseteq raw' /\ KeysAreUnique'
    <3>1. raw' \cup held' = raw \cup held \cup {o} /\ raw \subseteq raw'
      BY <2>3 DEF Observe
    <3>2. ~\E p \in raw \cup held : p.kind = o.kind /\ p.stream = o.stream /\ p.at = o.at
      BY <2>3 DEF Observe
    <3> QED BY <3>1, <3>2 DEF RInv, KeysAreUnique
  <2> QED BY <2>1, <2>2, <2>3 DEF CaptureStep
<1>3. RowsAreSound'
  BY <1>1, <1>2, SoundStays DEF RInv, RowsAreSound
<1>4. RowsAreWithin'
  BY <1>1 DEF RInv, RowsAreWithin
<1>5. \A r \in grid \cup rows : Insane(r)' => Insane(r)
  BY <1>2, SaneStays DEF RInv, RowsAreSound
<1>6. GatedRowsAreSane' /\ ServedIsSane'
  BY <1>1, <1>5 DEF RInv, GatedRowsAreSane, ServedIsSane
<1> QED BY <1>2, <1>3, <1>4, <1>6 DEF RInv

LEMMA ReadSound == RInv /\ TInv /\ DInv /\ ReadStep => RInv'
<1> SUFFICES ASSUME RInv, TInv, DInv, ReadStep PROVE RInv'
  OBVIOUS
<1>1. /\ pc = "read" /\ pc' \in {"reset", "read"}
      /\ UNCHANGED <<raw, held, grid, staging, grid_start, grid_end>>
      /\ \A r \in rows' \ rows : Sound(r, raw) /\ Within(r, grid_start, grid_end)
  BY ReadRows DEF capture, tables, range
<1>2. RowsAreSound' /\ RowsAreWithin'
  BY <1>1 DEF RInv, RowsAreSound, RowsAreWithin, Working
<1>3. KeysAreUnique' /\ GatedRowsAreSane'
  BY <1>1 DEF RInv, KeysAreUnique, GatedRowsAreSane
<1>4. ServedIsSane'
  BY <1>1 DEF RInv, ServedIsSane, Insane
<1> QED BY <1>2, <1>3, <1>4 DEF RInv

LEMMA JobSound ==
    RInv /\ DInv /\ TInv /\ (BeginStep \/ PublishStep \/ Raised \/ Crash) => RInv'
<1> SUFFICES ASSUME RInv, DInv, TInv, BeginStep \/ PublishStep \/ Raised \/ Crash PROVE RInv'
  OBVIOUS
<1>1. raw' = raw /\ held' = held
  BY JobSteps DEF capture
<1>2. /\ grid' = grid \/ (pc = "publish" /\ grid' = Swap)
      /\ staging' \subseteq staging \cup rows
  BY JobSteps, TableSteps
<1>3. grid' \subseteq grid \/ (pc = "publish" /\ grid' \subseteq grid \cup rows)
  <2>1. pc = "publish" => staging \subseteq rows
    BY DEF DInv, StagingInvariant, Staged
  <2> QED BY <1>2, <2>1 DEF Swap
<1>4. rows' \subseteq rows
  BY JobSteps
<1>5. RowsAreSound'
  BY <1>1, <1>2, <1>3, <1>4 DEF RInv, RowsAreSound
<1>6. RowsAreWithin'
  <2>1. pc' \in Working => rows' = {} \/ (pc \in Working /\ rows' = rows
                                          /\ UNCHANGED <<grid_start, grid_end>>)
    BY JobSteps DEF Working
  <2> QED BY <2>1 DEF RInv, RowsAreWithin
<1>7. KeysAreUnique'
  BY <1>1 DEF RInv, KeysAreUnique
<1>8. \A r : Insane(r)' <=> Insane(r)
  BY <1>1 DEF Insane
<1>9. GatedRowsAreSane'
  <2>1. pc' = "publish" => GatesPass /\ rows' = rows
    BY JobSteps
  <2> QED BY <1>8, <2>1 DEF GatesPass, SanityGatePasses, GatedRowsAreSane
<1>10. ServedIsSane'
  BY <1>3, <1>8 DEF RInv, GatedRowsAreSane, ServedIsSane
<1> QED BY <1>5, <1>6, <1>7, <1>9, <1>10 DEF RInv

\* RInv is an invariant of the derive.
THEOREM RowsInductive == Spec => []RInv
<1>1. Init => RInv
  BY DEF Init, RInv, RowsAreSound, RowsAreWithin, Working, KeysAreUnique, GatedRowsAreSane,
     ServedIsSane
<1>2. RInv /\ TInv /\ DInv /\ [Next]_vars => RInv'
  <2> SUFFICES ASSUME RInv, TInv, DInv, [Next]_vars PROVE RInv'
    OBVIOUS
  <2>1. CASE UNCHANGED vars
    <3>1. UNCHANGED <<raw, held, grid, staging, pc, grid_start, grid_end, rows>>
      BY <2>1 DEF vars, capture, tables, range, work
    <3> QED
      BY <3>1 DEF RInv, RowsAreSound, RowsAreWithin, KeysAreUnique, GatedRowsAreSane,
         ServedIsSane, Insane
  <2>2. CASE Rest
    BY <2>1, <2>2 DEF Rest
  <2> QED BY <2>1, <2>2, CaptureSound, ReadSound, JobSound DEF Next
<1> QED BY <1>1, <1>2, Inductive, TypesInductive, PTL DEF Spec

\* "Nothing is published before it could be known", to the second: no row of the
\* served grid rests on an observation a whole second younger than its timestamp.
THEOREM LeakStaysBelowASecond == Spec => []LeakIsSubSecond
<1>1. RInv => LeakIsSubSecond
  BY DEF RInv, RowsAreSound, Sound, Timely, LeakIsSubSecond
<1> QED BY <1>1, RowsInductive, PTL

\* No bucket whose book was crossed for the most part is ever served, however much
\* is captured between the gate and the swap, and after it.
THEOREM GarbageIsNeverServed == Spec => []ServedIsSane
<1>1. RInv => ServedIsSane
  BY DEF RInv
<1> QED BY <1>1, RowsInductive, PTL
-----------------------------------------------------------------------------
(* What a run published stays served *)

Punctual == "late" \notin Faults
NothingHeld == Punctual => held = {}
RunsArePast ==
    \A i \in DOMAIN runs :
        Aligned(runs[i].start) /\ Aligned(runs[i].end) /\ runs[i].end <= now
RunIsOurs ==
    pc \in Working => /\ run \in DOMAIN runs
                      /\ runs[run].start = grid_start /\ runs[run].end = grid_end

\* The read that asks for observations like o has been made.
IsRead(o) == 3 * (o.stream - 1) + (IF o.kind = "book" THEN 1 ELSE 2) < cursor

ReadIsComplete ==
    pc \in Working =>
        \A o \in raw_then :
            (/\ o.kind # "snapshot" /\ grid_start <= o.at /\ o.at < grid_end
             /\ IsRead(o)) => HasRow(rows, o)
NothingIsAdded ==
    (Punctual /\ pc \in Working) => \A o \in raw : o.at < grid_end => o \in raw_then
RowsAreSwappedIn == (pc = "finish" /\ outcome = "published") => rows \subseteq grid

\* The promise to the events and trades of one range.
Served(obs, table, start, end) ==
    \A o \in obs : (o.kind # "snapshot" /\ start <= o.at /\ o.at < end) => HasRow(table, o)
PublishedStayServed ==
    Punctual => \A i \in DOMAIN runs :
        runs[i].status = "published" => Served(raw, grid, runs[i].start, runs[i].end)

\* The inductive invariant.
SInv ==
    /\ NothingHeld /\ RunsArePast /\ RunIsOurs /\ ReadIsComplete /\ NothingIsAdded
    /\ RowsAreSwappedIn /\ PublishedStayServed

LEMMA MoreRows ==
    ASSUME NEW table, NEW larger, table \subseteq larger, NEW o, HasRow(table, o)
    PROVE  HasRow(larger, o)
BY DEF HasRow

LEMMA RunTypes ==
    ASSUME TInv, NEW i \in DOMAIN runs
    PROVE  runs[i].start \in Int /\ runs[i].end \in Int
<1>1. runs[i] \in RunRows
  BY DEF TInv, TablesOK
<1> QED BY <1>1 DEF RunRows

LEMMA ServedMeans == TInv /\ PublishedStayServed => PublishedRunsAreServed
<1> SUFFICES ASSUME TInv, PublishedStayServed, Punctual,
                    NEW i \in DOMAIN runs, runs[i].status = "published",
                    NEW o \in raw, o.kind # "snapshot",
                    o.at \in runs[i].start..(runs[i].end - 1)
             PROVE  HasRow(grid, o)
  BY Zenon DEF PublishedRunsAreServed, Punctual, HasRow
<1>1. o.at \in Int /\ runs[i].start \in Int /\ runs[i].end \in Int
  BY RunTypes DEF TInv, CaptureOK, Observations
<1>2. runs[i].start <= o.at /\ o.at < runs[i].end
  BY <1>1
<1> QED BY <1>2 DEF PublishedStayServed, Served

\* When the reads are done the rows cover what was stored at the start.
LEMMA AllIsRead ==
    ASSUME TInv, SInv, pc \in {"reset", "copy", "publish", "clean", "finish"},
           NEW o \in raw_then, o.kind # "snapshot", grid_start <= o.at, o.at < grid_end
    PROVE  HasRow(rows, o)
<1>1. cursor = 3 * NStreams + 1 /\ o.stream \in 1..NStreams /\ NStreams \in Nat
  BY Positive DEF TInv, WorkOK, CaptureOK, Observations, Streams
<1>2. IsRead(o)
  BY <1>1 DEF IsRead
<1> QED BY <1>2 DEF SInv, ReadIsComplete, Working

\* All of a run's rows are staged when it swaps.
LEMMA AllIsStaged ==
    ASSUME TInv, DInv, RInv, pc = "publish"
    PROVE  staging = rows /\ rows \subseteq Swap
<1>1. \A r \in rows : r.ts <= grid_end
  BY DEF RInv, RowsAreWithin, Within, Working
<1> QED BY <1>1 DEF DInv, StagingInvariant, Staged, Swap

\* A swap takes no event's row away: inside its range it brings one of its own,
\* outside it deletes nothing.
LEMMA SwapServes ==
    ASSUME TInv, DInv, RInv, SInv, Punctual, pc = "publish",
           NEW o \in raw, o.kind # "snapshot", HasRow(grid, o)
    PROVE  HasRow(Swap, o)
<1>1. /\ o.at \in Int /\ grid_start \in Int /\ grid_end \in Int
      /\ Aligned(grid_start) /\ Aligned(grid_end)
  BY DEF TInv, CaptureOK, RangeOK, Observations
<1>2. CASE grid_start <= o.at /\ o.at < grid_end
  <2>1. o \in raw_then
    BY <1>2 DEF SInv, NothingIsAdded, Working
  <2>2. HasRow(rows, o)
    BY <1>2, <2>1, AllIsRead
  <2> QED BY <2>2, AllIsStaged, MoreRows
<1>3. CASE ~(grid_start <= o.at /\ o.at < grid_end)
  <2>1. PICK r \in grid : /\ Key(r) = <<FloorStep(o.at) + StepTicks, o.stream,
                                        IF o.kind = "book" THEN "spread" ELSE "flow">>
                          /\ <<NoTime, o.at>> \in r.value
    BY DEF HasRow
  <2>2. r.ts = FloorStep(o.at) + StepTicks /\ r.metric # "depth" /\ r.ts \in Int
    <3>1. r \in GridRow
      BY DEF TInv, TablesOK
    <3> QED BY <2>1, <3>1 DEF Key, GridRow
  <2>3. /\ FloorStep(o.at) \in Int /\ Aligned(FloorStep(o.at)) /\ FloorStep(o.at) <= o.at
        /\ o.at < FloorStep(o.at) + StepTicks /\ Aligned(FloorStep(o.at) + StepTicks)
    BY <1>1, FloorFacts, AlignedStep
  <2>4. r.ts <= grid_start \/ r.ts > grid_end
    <3>1. CASE o.at < grid_start
      <4>1. FloorStep(o.at) < grid_start
        BY <1>1, <2>3, <3>1
      <4> QED BY <1>1, <2>2, <2>3, <4>1, AlignedGap
    <3>2. CASE grid_end <= o.at
      <4>1. ~(r.ts <= grid_end)
        <5> SUFFICES ASSUME r.ts <= grid_end PROVE FALSE
          OBVIOUS
        <5> QED BY <1>1, <2>2, <2>3, <3>2, Positive
      <4> QED BY <1>1, <2>2, <4>1
    <3> QED BY <1>1, <1>3, <3>1, <3>2
  <2>5. r.ts < grid_start + Fraction \/ r.ts > grid_end
    BY <1>1, <2>2, <2>4, Positive
  <2>6. ASSUME NEW n \in staging, Key(n) = Key(r) PROVE FALSE
    <3>1. n.ts = r.ts /\ n.metric = r.metric
      BY <2>6 DEF Key
    <3>2. n \in rows /\ Within(n, grid_start, grid_end)
      BY <2>6, AllIsStaged DEF RInv, RowsAreWithin, Working
    <3> QED BY <1>1, <2>2, <2>4, <3>1, <3>2, Positive DEF Within
  <2>7. r \in Swap
    BY <2>5, <2>6 DEF Swap
  <2> QED BY <2>1, <2>7 DEF HasRow
<1> QED BY <1>2, <1>3

LEMMA CaptureServes == SInv /\ TInv /\ CaptureStep => SInv'
<1> SUFFICES ASSUME SInv, TInv, CaptureStep PROVE SInv'
  OBVIOUS
<1>1. UNCHANGED <<grid, runs, pc, grid_start, grid_end, cursor, rows, run, outcome, raw_then>>
  BY DEF CaptureStep, Tick, Store, Observe, tables, range, work, history
<1>2. /\ now' >= now /\ now \in Int /\ now' \in Int /\ NothingHeld'
      /\ Punctual => \A o \in raw' : o \in raw \/ o.at = now
  <2>1. CASE Tick
    BY <2>1 DEF Tick, SInv, TInv, CaptureOK, NothingHeld
  <2>2. CASE Store
    BY <2>2 DEF Store, SInv, TInv, CaptureOK, NothingHeld
  <2>3. ASSUME NEW o, o.at = now, Observe(o)
        PROVE  /\ now' = now /\ NothingHeld'
               /\ Punctual => \A p \in raw' : p \in raw \/ p.at = now
    BY <2>3 DEF Observe, SInv, NothingHeld, Punctual
  <2>4. ASSUME NEW kind, NEW s, NEW crossed,
               Observe([kind |-> kind, stream |-> s, at |-> now, crossed |-> crossed])
        PROVE  /\ now' = now /\ NothingHeld'
               /\ Punctual => \A p \in raw' : p \in raw \/ p.at = now
    BY <2>3, <2>4
  <2>5. now \in Int /\ now >= now
    BY DEF TInv, CaptureOK
  <2>6. CASE \E kind \in Kinds, s \in Streams, crossed \in BOOLEAN :
               Observe([kind |-> kind, stream |-> s, at |-> now, crossed |-> crossed])
    BY <2>4, <2>5, <2>6
  <2>7. CaptureStep => Tick \/ Store
           \/ \E kind \in Kinds, s \in Streams, crossed \in BOOLEAN :
                Observe([kind |-> kind, stream |-> s, at |-> now, crossed |-> crossed])
    BY Zenon DEF CaptureStep
  <2> QED BY <2>1, <2>2, <2>6, <2>7
<1>3. RunsArePast'
  <2>1. \A i \in DOMAIN runs : runs[i].end \in Int
    BY RunTypes
  <2> QED BY <1>1, <1>2, <2>1 DEF SInv, RunsArePast
<1>4. RunIsOurs' /\ ReadIsComplete' /\ RowsAreSwappedIn'
  BY <1>1 DEF SInv, RunIsOurs, ReadIsComplete, RowsAreSwappedIn, IsRead
<1>5. NothingIsAdded'
  <2>1. pc \in Working => grid_end <= now /\ grid_end \in Int
    BY DEF Working, TInv, RangeOK
  <2> QED BY <1>1, <1>2, <2>1 DEF SInv, NothingIsAdded
<1>6. PublishedStayServed'
  <2> SUFFICES ASSUME Punctual, NEW i \in DOMAIN runs, runs[i].status = "published",
                      NEW o \in raw', o.kind # "snapshot",
                      runs[i].start <= o.at, o.at < runs[i].end
               PROVE  HasRow(grid, o)
    BY <1>1 DEF PublishedStayServed, Served
  <2>1. runs[i].end <= now /\ runs[i].end \in Int
    BY RunTypes DEF SInv, RunsArePast
  <2>2. o \in raw
    BY <1>2, <2>1
  <2> QED BY <2>2 DEF SInv, PublishedStayServed, Served
<1> QED BY <1>2, <1>3, <1>4, <1>5, <1>6 DEF SInv

\* A read brings the rows of what it asks for.
LEMMA ReadServes == SInv /\ TInv /\ DInv /\ ReadStep => SInv'
<1> SUFFICES ASSUME SInv, TInv, DInv, ReadStep PROVE SInv'
  OBVIOUS
<1>1. /\ pc = "read" /\ pc' \in {"reset", "read"} /\ cursor' = cursor + 1
      /\ cursor \in Int /\ rows \subseteq rows' /\ Asked \in Streams
      /\ cursor = 3 * (Asked - 1) + Part + 1 /\ Part \in 0..2
      /\ UNCHANGED <<now, raw, held, grid, runs, grid_start, grid_end, run, outcome, raw_then>>
  BY ReadRows DEF capture, tables, range, history
<1>2. ReadIsComplete'
  <2> SUFFICES ASSUME NEW o \in raw_then, o.kind # "snapshot", grid_start <= o.at,
                      o.at < grid_end, IsRead(o)'
               PROVE  HasRow(rows', o)
    BY <1>1 DEF ReadIsComplete
  <2>1. o \in raw /\ o.stream \in 1..NStreams /\ o.kind \in {"book", "trade"}
    BY DEF TInv, WorkOK, CaptureOK, Observations, Streams, Kinds
  <2>2. CASE IsRead(o)
    BY <1>1, <2>2, MoreRows DEF SInv, ReadIsComplete, Working
  <2>3. CASE ~IsRead(o)
    <3>1. 3 * (o.stream - 1) + (IF o.kind = "book" THEN 1 ELSE 2) = cursor
      <4> DEFINE place == 3 * (o.stream - 1) + (IF o.kind = "book" THEN 1 ELSE 2)
      <4>1. place \in Int /\ place < cursor + 1 /\ ~(place < cursor)
        BY <1>1, <2>1, <2>3 DEF IsRead
      <4> HIDE DEF place
      <4>2. place = cursor
        BY <1>1, <4>1
      <4> QED BY <4>2 DEF place
    <3>2. o.stream = Asked /\ Part = IF o.kind = "book" THEN 0 ELSE 1
      BY <1>1, <2>1, <3>1 DEF Streams
    <3>3. o \in Window(raw, o.kind, Asked, grid_start, grid_end)
      BY <2>1, <3>2 DEF Window
    <3>4. /\ raw \in SUBSET Observations /\ IsFiniteSet(raw) /\ grid_start \in Int
          /\ grid_end \in Int
      BY DEF TInv, CaptureOK, RangeOK, DInv, ReadIsFinite
    <3>5. CASE o.kind = "book"
      <4>1. HasRow(BookRows(raw, Asked, grid_start, grid_end), o)
        BY <1>1, <3>3, <3>4, <3>5, BookRowsCover
      <4>2. rows' = rows \cup BookRows(raw, Asked, grid_start, grid_end)
        BY <3>2, <3>5, ReadRows
      <4> QED BY <4>1, <4>2, MoreRows
    <3>6. CASE o.kind = "trade"
      <4>1. HasRow(TradeRows(raw, Asked, grid_start, grid_end), o)
        BY <1>1, <3>3, <3>4, <3>6, TradeRowsCover
      <4>2. rows' = rows \cup TradeRows(raw, Asked, grid_start, grid_end)
        BY <3>2, <3>6, ReadRows
      <4> QED BY <4>1, <4>2, MoreRows
    <3> QED BY <2>1, <3>5, <3>6
  <2> QED BY <2>2, <2>3
<1>3. NothingHeld' /\ RunsArePast' /\ RunIsOurs' /\ NothingIsAdded' /\ RowsAreSwappedIn'
  BY <1>1 DEF SInv, NothingHeld, RunsArePast, RunIsOurs, NothingIsAdded, RowsAreSwappedIn,
     Working
<1>4. PublishedStayServed'
  BY <1>1 DEF SInv, PublishedStayServed
<1> QED BY <1>2, <1>3, <1>4 DEF SInv

\* No run's row forgets its range, and only a swap makes one "published".
LEMMA JobKeepsRuns ==
    ASSUME SInv, TInv, BeginStep \/ PublishStep \/ Raised \/ Crash
    PROVE  RunsArePast'
<1>1. now' = now
  BY JobSteps DEF capture
<1>2. \/ runs' = runs
      \/ pc = "start" /\ runs' = Append(runs, NewRun)
      \/ pc = "finish" /\ runs' = Finished(outcome)
      \/ pc = "failed" /\ runs' = Finished("failed")
  BY JobSteps, TableSteps
<1>3. runs \in Seq(RunRows) /\ DOMAIN runs = 1..Len(runs) /\ Len(runs) \in Nat
  BY DEF TInv, TablesOK
<1>4. CASE runs' = runs
  BY <1>1, <1>4 DEF SInv, RunsArePast
<1>5. CASE pc = "start" /\ runs' = Append(runs, NewRun)
  <2>1. /\ NewRun.start = grid_start /\ NewRun.end = grid_end
        /\ Aligned(grid_start) /\ Aligned(grid_end) /\ grid_end <= now
    BY <1>5 DEF NewRun, TInv, RangeOK
  <2>2. \A i \in DOMAIN runs' : (i \in DOMAIN runs /\ runs'[i] = runs[i]) \/ runs'[i] = NewRun
    BY <1>3, <1>5
  <2> QED BY <1>1, <2>1, <2>2 DEF SInv, RunsArePast
<1>6. ASSUME NEW status \in {"published", "aborted", "failed", "running"},
             runs' = Finished(status)
      PROVE  RunsArePast'
  <2>1. DOMAIN runs' = DOMAIN runs
        /\ \A i \in DOMAIN runs : runs'[i].start = runs[i].start /\ runs'[i].end = runs[i].end
    BY <1>3, <1>6, FinishedRow
  <2> QED BY <1>1, <2>1 DEF SInv, RunsArePast
<1>7. outcome \in {"published", "aborted", "failed", "running"}
  BY DEF TInv, WorkOK
<1> QED BY <1>2, <1>4, <1>5, <1>6, <1>7

LEMMA JobServesRuns ==
    ASSUME SInv, TInv, DInv, RInv, BeginStep \/ PublishStep \/ Raised \/ Crash
    PROVE  PublishedStayServed'
<1> SUFFICES ASSUME Punctual, NEW i \in DOMAIN runs', runs'[i].status = "published"
             PROVE  Served(raw, grid', runs'[i].start, runs'[i].end)
  <2>1. raw' = raw
    BY JobSteps DEF capture
  <2> QED BY <2>1 DEF PublishedStayServed
<1>1. grid' = grid \/ (pc = "publish" /\ grid' = Swap)
  BY JobSteps, TableSteps
<1>2. \/ runs' = runs
      \/ pc = "start" /\ runs' = Append(runs, NewRun)
      \/ pc = "finish" /\ runs' = Finished(outcome)
      \/ pc = "failed" /\ runs' = Finished("failed")
  BY JobSteps, TableSteps
<1>3. runs \in Seq(RunRows) /\ DOMAIN runs = 1..Len(runs) /\ Len(runs) \in Nat
  BY DEF TInv, TablesOK
<1>4. CASE \/ i \notin DOMAIN runs \/ runs'[i].start # runs[i].start
           \/ runs'[i].end # runs[i].end \/ runs[i].status # "published"
  <2>1. pc # "start" \/ runs' = runs
    <3>1. ASSUME pc = "start", runs' = Append(runs, NewRun) PROVE FALSE
      <4>1. (i \in DOMAIN runs /\ runs'[i] = runs[i]) \/ runs'[i] = NewRun
        BY <1>3, <3>1
      <4>2. NewRun.status = "running"
        BY DEF NewRun
      <4> QED BY <1>4, <4>1, <4>2
    <3> QED BY <1>2, <3>1
  <2>2. \A status \in {"published", "aborted", "failed", "running"} :
           runs' = Finished(status) =>
                /\ i \in DOMAIN runs /\ runs'[i].start = runs[i].start
                /\ runs'[i].end = runs[i].end
                /\ runs'[i].status = IF i = run THEN status ELSE runs[i].status
    BY <1>3, FinishedRow
  <2>3. pc = "finish" /\ runs' = Finished(outcome) /\ i = run /\ outcome = "published"
        /\ i \in DOMAIN runs /\ runs'[i].start = runs[i].start /\ runs'[i].end = runs[i].end
    <3>1. outcome \in {"published", "aborted", "failed", "running"}
      BY DEF TInv, WorkOK
    <3> QED BY <1>2, <1>4, <2>1, <2>2, <3>1
  <2>4. runs'[i].start = grid_start /\ runs'[i].end = grid_end /\ grid' = grid
    BY <1>1, <2>3 DEF SInv, RunIsOurs, Working
  <2>5. ASSUME NEW o \in raw, o.kind # "snapshot", grid_start <= o.at, o.at < grid_end
        PROVE  HasRow(grid, o)
    <3>1. o \in raw_then
      BY <2>3, <2>5 DEF SInv, NothingIsAdded, Working
    <3>2. HasRow(rows, o)
      BY <2>3, <2>5, <3>1, AllIsRead
    <3> QED BY <2>3, <3>2, MoreRows DEF SInv, RowsAreSwappedIn
  <2> QED BY <2>4, <2>5 DEF Served
<1>5. CASE /\ i \in DOMAIN runs /\ runs'[i].start = runs[i].start
           /\ runs'[i].end = runs[i].end /\ runs[i].status = "published"
  <2>1. Served(raw, grid, runs[i].start, runs[i].end)
    BY <1>5 DEF SInv, PublishedStayServed
  <2>2. CASE grid' = grid
    BY <1>5, <2>1, <2>2
  <2>3. CASE pc = "publish" /\ grid' = Swap
    BY <1>5, <2>1, <2>3, SwapServes DEF Served
  <2> QED BY <1>1, <2>2, <2>3
<1> QED BY <1>4, <1>5

LEMMA JobServes ==
    SInv /\ TInv /\ DInv /\ RInv /\ (BeginStep \/ PublishStep \/ Raised \/ Crash) => SInv'
<1> SUFFICES ASSUME SInv, TInv, DInv, RInv, BeginStep \/ PublishStep \/ Raised \/ Crash
             PROVE  SInv'
  OBVIOUS
<1>1. raw' = raw /\ held' = held
  BY JobSteps DEF capture
<1>2. NothingHeld' /\ RunsArePast' /\ PublishedStayServed'
  BY <1>1, JobKeepsRuns, JobServesRuns DEF SInv, NothingHeld
<1>3. CASE pc' \in {"idle", "first", "start"}
  <2>1. RunIsOurs' /\ ReadIsComplete' /\ NothingIsAdded' /\ RowsAreSwappedIn'
    BY <1>3 DEF RunIsOurs, ReadIsComplete, NothingIsAdded, RowsAreSwappedIn, Working
  <2> QED BY <1>2, <2>1 DEF SInv
<1>4. CASE /\ pc = "start" /\ pc' = "read" /\ raw_then' = raw
           /\ cursor' = 1 /\ run' = Len(runs) + 1
           /\ runs' = Append(runs, NewRun) /\ UNCHANGED <<grid_start, grid_end>>
  <2>1. RunIsOurs'
    <3>1. runs \in Seq(RunRows) /\ Len(runs) \in Nat
      BY DEF TInv, TablesOK
    <3>2. run' \in DOMAIN runs' /\ runs'[run'] = NewRun
      BY <1>4, <3>1
    <3> QED BY <1>4, <3>2 DEF RunIsOurs, NewRun
  <2>2. ReadIsComplete'
    <3>1. ASSUME NEW o \in raw, IsRead(o)' PROVE FALSE
      <4>1. o.stream \in 1..NStreams /\ NStreams \in Nat
        BY Positive DEF TInv, CaptureOK, Observations, Streams
      <4> QED BY <1>4, <3>1, <4>1 DEF IsRead
    <3> QED BY <1>4, <3>1 DEF ReadIsComplete
  <2>3. NothingIsAdded' /\ RowsAreSwappedIn'
    BY <1>1, <1>4 DEF NothingIsAdded, RowsAreSwappedIn
  <2> QED BY <1>2, <2>1, <2>2, <2>3 DEF SInv
<1>5. CASE /\ pc \in {"read", "reset", "copy", "publish", "clean"}
           /\ pc' \in {"copy", "publish", "clean", "finish", "failed"}
           /\ UNCHANGED <<grid_start, grid_end, cursor, rows, run, raw_then>>
           /\ (pc' = "finish" /\ outcome' = "published") => pc = "publish" /\ grid' = Swap
  <2>1. runs' = runs
    BY <1>5, JobSteps, TableSteps
  <2>2. RunIsOurs' /\ ReadIsComplete' /\ NothingIsAdded'
    BY <1>1, <1>5, <2>1 DEF SInv, RunIsOurs, ReadIsComplete, NothingIsAdded, IsRead, Working
  <2>3. RowsAreSwappedIn'
    BY <1>5, AllIsStaged DEF RowsAreSwappedIn
  <2> QED BY <1>2, <2>2, <2>3 DEF SInv
<1> QED BY <1>3, <1>4, <1>5, JobSteps

\* SInv is an invariant of the derive.
THEOREM ServedInductive == Spec => []SInv
<1>1. Init => SInv
  BY DEF Init, SInv, NothingHeld, RunsArePast, RunIsOurs, ReadIsComplete, NothingIsAdded,
     RowsAreSwappedIn, PublishedStayServed, Working
<1>2. SInv /\ RInv /\ TInv /\ DInv /\ [Next]_vars => SInv'
  <2> SUFFICES ASSUME SInv, RInv, TInv, DInv, [Next]_vars PROVE SInv'
    OBVIOUS
  <2>1. CASE UNCHANGED vars
    <3>1. UNCHANGED <<now, raw, held, grid, runs, pc, grid_start, grid_end, rows, cursor, run,
                      outcome, raw_then>>
      BY <2>1 DEF vars, capture, tables, range, work, history
    <3>2. NothingHeld' /\ RunsArePast' /\ RunIsOurs' /\ NothingIsAdded' /\ RowsAreSwappedIn'
      BY <3>1 DEF SInv, NothingHeld, RunsArePast, RunIsOurs, NothingIsAdded, RowsAreSwappedIn
    <3>3. ReadIsComplete' /\ PublishedStayServed'
      BY <3>1 DEF SInv, ReadIsComplete, IsRead, PublishedStayServed
    <3> QED BY <3>2, <3>3 DEF SInv
  <2>2. CASE Rest
    BY <2>1, <2>2 DEF Rest
  <2> QED BY <2>1, <2>2, CaptureServes, ReadServes, JobServes DEF Next
<1> QED BY <1>1, <1>2, Inductive, TypesInductive, RowsInductive, PTL DEF Spec

\* What a run published is still served after any later run, tail or full, published,
\* aborted, cut short or failed, if no row is stored late.
THEOREM PublishedStay == Spec => []PublishedRunsAreServed
<1>1. TInv /\ SInv => PublishedRunsAreServed
  BY ServedMeans DEF SInv
<1> QED BY <1>1, TypesInductive, ServedInductive, PTL

\* A published window holds every event and trade stored when its run started, and
\* none that was not stored when it was read, however late rows arrive.
THEOREM WindowsAreComplete == Spec => []WindowIsComplete
<1>1. TInv /\ RInv /\ SInv => WindowIsComplete
  <2> SUFFICES ASSUME TInv, RInv, SInv, pc = "finish", outcome = "published",
                      NEW s \in Streams, NEW kind, NEW metric,
                      \/ kind = "book" /\ metric = "spread"
                      \/ kind = "trade" /\ metric = "flow"
               PROVE  LET seen(obs) == {o \in obs : /\ o.kind = kind /\ o.stream = s
                                                    /\ o.at \in grid_start..(grid_end - 1)}
                          got == UNION {r.value : r \in {q \in grid :
                                    /\ q.stream = s /\ q.metric = metric
                                    /\ grid_start < q.ts /\ q.ts <= grid_end}}
                      IN  Times(seen(raw_then)) \subseteq got /\ got \subseteq Times(seen(raw))
    BY DEF WindowIsComplete
  <2> DEFINE seen(obs) == {o \in obs : /\ o.kind = kind /\ o.stream = s
                                       /\ o.at \in grid_start..(grid_end - 1)}
             served == {q \in grid : /\ q.stream = s /\ q.metric = metric
                                     /\ grid_start < q.ts /\ q.ts <= grid_end}
             got == UNION {r.value : r \in served}
  <2>1. /\ grid_start \in Int /\ grid_end \in Int /\ Aligned(grid_start) /\ Aligned(grid_end)
    BY DEF TInv, RangeOK
  <2>2. \A o \in raw : o.at \in Int
    BY DEF TInv, CaptureOK, Observations
  <2>3. ASSUME NEW o \in seen(raw_then) PROVE <<NoTime, o.at>> \in got
    <3>1. /\ o \in raw_then /\ o \in raw /\ o.at \in Int /\ grid_start <= o.at
          /\ o.at < grid_end /\ o.kind # "snapshot"
      BY <2>1, <2>2 DEF TInv, WorkOK
    <3>2. HasRow(rows, o)
      BY <3>1, AllIsRead
    <3>3. PICK r \in rows : /\ Key(r) = <<FloorStep(o.at) + StepTicks, o.stream,
                                          IF o.kind = "book" THEN "spread" ELSE "flow">>
                            /\ <<NoTime, o.at>> \in r.value
      BY <3>2 DEF HasRow
    <3>4. r.ts = FloorStep(o.at) + StepTicks /\ r.stream = s /\ r.metric = metric /\ r \in grid
      BY <3>3 DEF Key, SInv, RowsAreSwappedIn
    <3>5. grid_start < r.ts /\ r.ts <= grid_end
      <4>1. /\ FloorStep(o.at) \in Int /\ grid_start <= FloorStep(o.at)
            /\ FloorStep(o.at) + StepTicks <= grid_end
        BY <2>1, <3>1, BucketIsWithin
      <4> QED BY <2>1, <3>4, <4>1, Positive
    <3> QED BY <3>3, <3>4, <3>5
  <2>4. ASSUME NEW v \in got PROVE v \in Times(seen(raw))
    <3>1. PICK r \in served : v \in r.value
      OBVIOUS
    <3>2. PICK o \in raw : /\ o.kind = KindOf(r.metric) /\ o.stream = r.stream
                           /\ v = <<NoTime, o.at>> /\ FloorStep(o.at) + StepTicks = r.ts
      BY <3>1 DEF RInv, RowsAreSound, Sound, FromRaw
    <3>3. o.kind = kind /\ o.stream = s
      BY <3>2 DEF KindOf
    <3>4. grid_start <= o.at /\ o.at < grid_end
      <4>1. /\ FloorStep(o.at) \in Int /\ Aligned(FloorStep(o.at)) /\ FloorStep(o.at) <= o.at
            /\ o.at < FloorStep(o.at) + StepTicks
        BY <2>2, FloorFacts
      <4>2. grid_start <= FloorStep(o.at)
        <5>1. grid_start < FloorStep(o.at) + StepTicks
          BY <3>2
        <5>2. ~(FloorStep(o.at) < grid_start)
          BY <2>1, <4>1, <5>1, AlignedGap, Positive
        <5> QED BY <2>1, <4>1, <5>2
      <4>3. FloorStep(o.at) + StepTicks <= grid_end
        BY <3>2
      <4> QED BY <2>1, <2>2, <4>1, <4>2, <4>3, Positive
    <3>5. o \in seen(raw)
      BY <2>1, <2>2, <3>3, <3>4
    <3> QED BY <3>2, <3>5 DEF Times
  <2>5. Times(seen(raw_then)) \subseteq got
    BY <2>3 DEF Times
  <2> QED BY <2>4, <2>5
<1> QED BY <1>1, TypesInductive, RowsInductive, ServedInductive, PTL
-----------------------------------------------------------------------------
(* A row summarises the whole of its bucket *)

All(obs, kind, s) == {o \in obs : o.kind = kind /\ o.stream = s}
Bucket(obs, kind, s, b) == {o \in obs : o.kind = kind /\ o.stream = s /\ FloorStep(o.at) = b}
Flows(obs, s, b) == {<<Lagged(All(obs, "book", s), o), o.at>> : o \in Bucket(obs, "book", s, b)}
Silent(obs, s, b) == Window(obs, "book", s, b - StepTicks, b) = {}

Whole(r, obs) ==
    r.metric # "depth" =>
        /\ Bucket(obs, KindOf(r.metric), r.stream, r.ts - StepTicks) # {}
        /\ r.metric \in {"spread", "flow"} =>
              r.value = Times(Bucket(obs, KindOf(r.metric), r.stream, r.ts - StepTicks))
        /\ r.metric = "ofi" =>
              \/ r.value = Flows(obs, r.stream, r.ts - StepTicks)
              \/ Silent(obs, r.stream, r.ts - StepTicks)

\* The inductive invariant.
WholeInv ==
    \A r \in grid \cup staging \cup rows : r.ts <= now /\ (Punctual => Whole(r, raw))

\* The bucket of a window's observation lies in the window.
LEMMA BucketOfWindow ==
    ASSUME NEW obs \in SUBSET Observations, IsFiniteSet(obs), NEW kind, NEW s,
           NEW start \in Int, NEW end \in Int, Aligned(start), Aligned(end),
           NEW b \in Buckets(Window(obs, kind, s, start, end))
    PROVE  /\ b \in Int /\ Aligned(b) /\ start <= b /\ b + StepTicks <= end
           /\ InBucket(Window(obs, kind, s, start, end), b) = Bucket(obs, kind, s, b)
           /\ Bucket(obs, kind, s, b) # {}
           /\ \A o \in Bucket(obs, kind, s, b) : b <= o.at /\ o.at < b + StepTicks
<1> DEFINE seen == Window(obs, kind, s, start, end)
<1>1. PICK p \in seen : b = FloorStep(p.at)
  BY DEF Buckets
<1>2. \A o \in obs : o.at \in Int
  BY ObservationFields
<1>3. p \in obs /\ p.kind = kind /\ p.stream = s /\ start <= p.at /\ p.at < end
  BY DEF Window
<1>4. b \in Int /\ Aligned(b) /\ start <= b /\ b + StepTicks <= end
  <2>1. p.at \in Int
    BY <1>2, <1>3
  <2> QED BY <1>1, <1>3, <2>1, BucketIsWithin, FloorFacts
<1>5. \A o \in Bucket(obs, kind, s, b) : b <= o.at /\ o.at < b + StepTicks
  BY <1>2, FloorFacts DEF Bucket
<1>6. ASSUME NEW o \in Bucket(obs, kind, s, b) PROVE o \in seen
  <2>1. b <= o.at /\ o.at < b + StepTicks /\ o.at \in Int /\ o \in obs /\ o.kind = kind
        /\ o.stream = s
    BY <1>2, <1>5 DEF Bucket
  <2>2. start <= o.at /\ o.at < end
    BY <1>4, <2>1, Positive
  <2> QED BY <2>1, <2>2 DEF Window
<1>7. InBucket(seen, b) = Bucket(obs, kind, s, b)
  <2>1. InBucket(seen, b) \subseteq Bucket(obs, kind, s, b)
    BY DEF InBucket, Bucket, Window
  <2>2. Bucket(obs, kind, s, b) \subseteq InBucket(seen, b)
    BY <1>6 DEF InBucket, Bucket
  <2> QED BY <2>1, <2>2
<1>8. p \in Bucket(obs, kind, s, b)
  BY <1>1, <1>3 DEF Bucket
<1> QED BY <1>4, <1>5, <1>7, <1>8

\* The observation before another one, by name.
LEMMA LaggedIs ==
    ASSUME NEW seen \in SUBSET Observations, NEW o, NEW m \in seen, m.at < o.at,
           \A q \in seen : q.at < o.at => q.at <= m.at
    PROVE  Lagged(seen, o) = m.at
<1> DEFINE earlier == {p.at : p \in {q \in seen : q.at < o.at}}
<1>1. earlier \subseteq Nat
  BY DEF Observations
<1>2. m.at \in earlier /\ \A u \in earlier : u <= m.at
  OBVIOUS
<1>3. Lagged(seen, o) =
        IF earlier = {} THEN NoTime ELSE CHOOSE t \in earlier : \A u \in earlier : u <= t
  BY DEF Lagged
<1> DEFINE last == CHOOSE t \in earlier : \A u \in earlier : u <= t
<1>4. last \in earlier /\ \A u \in earlier : u <= last
  <2> HIDE DEF earlier
  <2> QED BY <1>2
<1>5. last = m.at
  <2> HIDE DEF earlier, last
  <2>1. last \in Nat /\ m.at \in Nat /\ last <= m.at /\ m.at <= last
    BY <1>1, <1>2, <1>4
  <2> QED BY <2>1
<1> QED BY <1>2, <1>3, <1>5

\* Of a window that reaches a step further back than a bucket whose predecessor is
\* not empty, LAG finds what it would find in the whole table.
LEMMA LagSeesEnough ==
    ASSUME NEW obs \in SUBSET Observations, IsFiniteSet(obs), NEW s,
           NEW start \in Int, NEW end \in Int, NEW b \in Int, start <= b, ~Silent(obs, s, b),
           NEW o \in Bucket(obs, "book", s, b), b <= o.at, o.at < end
    PROVE  Lagged(Window(obs, "book", s, start - StepTicks, end), o)
             = Lagged(All(obs, "book", s), o)
<1> DEFINE seen == Window(obs, "book", s, start - StepTicks, end)
           all == All(obs, "book", s)
           before == {q \in all : q.at < o.at}
           times == {q.at : q \in before}
<1>1. \A q \in obs : q.at \in Int /\ q.at \in Nat
  BY ObservationFields
<1>2. PICK w \in obs : w.kind = "book" /\ w.stream = s /\ b - StepTicks <= w.at /\ w.at < b
  BY DEF Silent, Window
<1>3. o \in obs /\ o.at \in Nat
  BY <1>1 DEF Bucket
<1>4. w \in before
  BY <1>1, <1>2, <1>3 DEF All
<1>5. PICK m \in before : \A q \in before : q.at <= m.at
  <2>1. times \subseteq 0..o.at
    BY <1>1, <1>3 DEF All
  <2>2. IsFiniteSet(times) /\ times \in SUBSET Int
    <3>1. IsFiniteSet(0..o.at)
      BY <1>3, FS_Interval
    <3> HIDE DEF times
    <3>2. times \in SUBSET (0..o.at)
      BY <2>1
    <3>3. IsFiniteSet(times)
      BY <3>1, <3>2, FS_Subset
    <3>4. 0..o.at \subseteq Int
      OBVIOUS
    <3> QED BY <3>2, <3>3, <3>4
  <2>3. times # {}
    BY <1>4
  <2>4. PICK t \in times : \A u \in times : u <= t
    <3> HIDE DEF times
    <3> QED BY <2>2, <2>3, GreatestExists
  <2> QED BY <2>4
<1>6. m \in all /\ m \in obs /\ m.at < o.at /\ w.at <= m.at /\ m.kind = "book" /\ m.stream = s
  BY <1>4, <1>5 DEF All
<1>7. m \in seen
  <2>1. start - StepTicks <= m.at /\ m.at < end
    <3>1. m.at \in Int /\ w.at \in Int
      BY <1>1, <1>2, <1>6
    <3> QED BY <1>2, <1>3, <1>6, <3>1, Positive
  <2> QED BY <1>6, <2>1 DEF Window
<1>8. seen \subseteq all /\ all \in SUBSET Observations
  BY DEF Window, All
<1>9. Lagged(all, o) = m.at
  <2>1. \A q \in all : q.at < o.at => q.at <= m.at
    BY <1>5
  <2> HIDE DEF all
  <2> QED BY <1>6, <1>8, <2>1, LaggedIs
<1>10. Lagged(seen, o) = m.at
  <2>1. \A q \in seen : q.at < o.at => q.at <= m.at
    BY <1>5, <1>8
  <2> HIDE DEF all, seen
  <2> QED BY <1>6, <1>7, <1>8, <2>1, LaggedIs
<1> QED BY <1>9, <1>10

LEMMA BookRowsWhole ==
    ASSUME NEW obs \in SUBSET Observations, IsFiniteSet(obs), NEW s,
           NEW start \in Int, NEW end \in Int, Aligned(start), Aligned(end),
           NEW r \in BookRows(obs, s, start, end)
    PROVE  Whole(r, obs)
<1> DEFINE seen == Window(obs, "book", s, start - StepTicks, end)
           scored == Window(obs, "book", s, start, end)
<1>1. PICK b \in Buckets(scored) :
         \/ r = Row(b + StepTicks, s, "spread", Times(InBucket(scored, b)))
         \/ r = Row(b + StepTicks, s, "ofi",
                    {<<Lagged(seen, o), o.at>> : o \in InBucket(scored, b)})
  BY DEF BookRows
<1>2. /\ b \in Int /\ start <= b /\ b + StepTicks <= end
      /\ InBucket(scored, b) = Bucket(obs, "book", s, b) /\ Bucket(obs, "book", s, b) # {}
      /\ \A o \in Bucket(obs, "book", s, b) : b <= o.at /\ o.at < b + StepTicks
  BY BucketOfWindow
<1>3. (b + StepTicks) - StepTicks = b
  BY <1>2, Positive
<1>4. CASE r = Row(b + StepTicks, s, "spread", Times(InBucket(scored, b)))
  <2>1. /\ r.ts = b + StepTicks /\ r.stream = s /\ r.metric = "spread"
        /\ r.value = Times(Bucket(obs, "book", s, b))
    BY <1>2, <1>4, RowFields
  <2> QED BY <1>2, <1>3, <2>1 DEF Whole, KindOf
<1>5. CASE r = Row(b + StepTicks, s, "ofi",
                   {<<Lagged(seen, o), o.at>> : o \in InBucket(scored, b)})
  <2>1. /\ r.ts = b + StepTicks /\ r.stream = s /\ r.metric = "ofi"
        /\ r.value = {<<Lagged(seen, o), o.at>> : o \in Bucket(obs, "book", s, b)}
    BY <1>2, <1>5, RowFields
  <2>2. ASSUME ~Silent(obs, s, b), NEW o \in Bucket(obs, "book", s, b)
        PROVE  Lagged(seen, o) = Lagged(All(obs, "book", s), o)
    <3>1. o \in obs /\ o.at \in Int /\ b <= o.at /\ o.at < end
      <4>1. o \in obs /\ o.at \in Int /\ b <= o.at /\ o.at < b + StepTicks
        BY <1>2, ObservationFields DEF Bucket
      <4> QED BY <1>2, <4>1, Positive
    <3> QED BY <1>2, <2>2, <3>1, LagSeesEnough
  <2>3. r.value = Flows(obs, s, b) \/ Silent(obs, s, b)
    BY <2>1, <2>2 DEF Flows
  <2> QED BY <1>2, <1>3, <2>1, <2>3 DEF Whole, KindOf
<1> QED BY <1>1, <1>4, <1>5

LEMMA TradeRowsWhole ==
    ASSUME NEW obs \in SUBSET Observations, IsFiniteSet(obs), NEW s,
           NEW start \in Int, NEW end \in Int, Aligned(start), Aligned(end),
           NEW r \in TradeRows(obs, s, start, end)
    PROVE  Whole(r, obs)
<1> DEFINE seen == Window(obs, "trade", s, start, end)
<1>1. PICK b \in Buckets(seen) : r = Row(b + StepTicks, s, "flow", Times(InBucket(seen, b)))
  BY DEF TradeRows
<1>2. /\ b \in Int /\ InBucket(seen, b) = Bucket(obs, "trade", s, b)
      /\ Bucket(obs, "trade", s, b) # {}
  BY BucketOfWindow
<1>3. (b + StepTicks) - StepTicks = b
  BY <1>2, Positive
<1>4. /\ r.ts = b + StepTicks /\ r.stream = s /\ r.metric = "flow"
      /\ r.value = Times(Bucket(obs, "trade", s, b))
  BY <1>1, <1>2, RowFields
<1> QED BY <1>2, <1>3, <1>4 DEF Whole, KindOf

\* What is captured once a row's bucket is over changes nothing of the row.
LEMMA WholeStays ==
    ASSUME NEW obs \in SUBSET Observations, NEW more \in SUBSET Observations, obs \subseteq more,
           NEW t \in Int, \A o \in more : o \in obs \/ o.at = t,
           NEW r, r.ts \in Int, Aligned(r.ts), r.ts <= t, Whole(r, obs)
    PROVE  Whole(r, more)
<1> DEFINE b == r.ts - StepTicks
<1>1. b \in Int /\ b < r.ts /\ b + StepTicks = r.ts
  BY Positive
<1>2. \A o \in more : o.at \in Int
  BY ObservationFields
<1>3. ASSUME NEW o \in more, FloorStep(o.at) <= b PROVE o \in obs /\ o.at < t
  <2>1. o.at < FloorStep(o.at) + StepTicks /\ FloorStep(o.at) \in Int /\ o.at \in Int
    BY <1>2, FloorFacts
  <2>2. o.at < t
    BY <1>1, <1>3, <2>1, Positive
  <2> QED BY <1>2, <2>2
<1>4. \A kind : Bucket(more, kind, r.stream, b) = Bucket(obs, kind, r.stream, b)
  <2> TAKE kind
  <2>1. Bucket(more, kind, r.stream, b) \subseteq Bucket(obs, kind, r.stream, b)
    BY <1>1, <1>3 DEF Bucket
  <2>2. Bucket(obs, kind, r.stream, b) \subseteq Bucket(more, kind, r.stream, b)
    BY DEF Bucket
  <2> QED BY <2>1, <2>2
<1>5. ASSUME NEW o \in Bucket(more, "book", r.stream, b)
      PROVE  Lagged(All(more, "book", r.stream), o) = Lagged(All(obs, "book", r.stream), o)
  <2>1. o.at < t /\ o.at \in Int
    <3>1. o \in more /\ FloorStep(o.at) <= b
      BY <1>1 DEF Bucket
    <3> QED BY <1>2, <1>3, <3>1
  <2>2. ASSUME NEW q \in All(more, "book", r.stream), q.at < o.at
        PROVE  q \in All(obs, "book", r.stream)
    <3>1. q \in more /\ q.kind = "book" /\ q.stream = r.stream /\ q.at # t
      BY <1>2, <2>1, <2>2 DEF All
    <3> QED BY <3>1 DEF All
  <2>3. {q \in All(more, "book", r.stream) : q.at < o.at}
          = {q \in All(obs, "book", r.stream) : q.at < o.at}
    BY <2>2 DEF All
  <2> DEFINE earlier(obs_s) == {p.at : p \in {q \in obs_s : q.at < o.at}}
             last(times) == IF times = {} THEN NoTime
                            ELSE CHOOSE u \in times : \A v \in times : v <= u
  <2>4. earlier(All(more, "book", r.stream)) = earlier(All(obs, "book", r.stream))
    BY <2>3
  <2>5. /\ Lagged(All(more, "book", r.stream), o) = last(earlier(All(more, "book", r.stream)))
        /\ Lagged(All(obs, "book", r.stream), o) = last(earlier(All(obs, "book", r.stream)))
    BY Zenon DEF Lagged
  <2> HIDE DEF last, earlier
  <2> QED BY <2>4, <2>5
<1>6. Flows(more, r.stream, b) = Flows(obs, r.stream, b)
  BY <1>4, <1>5 DEF Flows
<1>7. Silent(obs, r.stream, b) => Silent(more, r.stream, b)
  <2> SUFFICES ASSUME NEW o \in more, o.kind = "book", o.stream = r.stream,
                      b - StepTicks <= o.at, o.at < b
               PROVE  o \in obs
    BY DEF Silent, Window
  <2>1. o.at < t /\ o.at \in Int
    BY <1>1, <1>2, Positive
  <2> QED BY <2>1
<1> QED BY <1>4, <1>6, <1>7 DEF Whole

\* A full derive of all there is would publish the same row of events or trades.
LEMMA WholeIsFull ==
    ASSUME TInv, NEW r \in GridRow, Whole(r, raw), r.metric # "depth"
    PROVE  \/ r \in DerivedRows(raw, 0, now + 1)
           \/ /\ r.metric = "ofi"
              /\ Window(raw, "book", r.stream, r.ts - 2 * StepTicks, r.ts - StepTicks) = {}
<1> DEFINE b == r.ts - StepTicks
           s == r.stream
<1> SUFFICES ASSUME ~(r.metric = "ofi" /\ Silent(raw, s, b))
             PROVE  r \in DerivedRows(raw, 0, now + 1)
  <2>1. r.ts - 2 * StepTicks = (r.ts - StepTicks) - StepTicks
    BY Positive DEF GridRow
  <2> QED BY <2>1 DEF Silent
<1>1. /\ s \in Streams /\ b + StepTicks = r.ts /\ r.metric \in Metrics
      /\ r = Row(r.ts, s, r.metric, r.value) /\ r.ts \in Int
  <2>1. r.ts \in Int /\ s \in Streams /\ r.metric \in Metrics
        /\ r = [ts |-> r.ts, stream |-> r.stream, metric |-> r.metric, value |-> r.value]
    BY DEF GridRow
  <2> QED BY <2>1, Positive DEF Row
<1>2. \A o \in raw : o.at \in Int /\ 0 <= o.at /\ o.at < now + 1 /\ 0 - StepTicks <= o.at
  <2>1. \A o \in raw : o.at \in Nat /\ o.at <= now
    BY DEF TInv, CaptureOK, Observations
  <2> QED BY <2>1, Positive DEF TInv, CaptureOK
<1>3. \A kind : Window(raw, kind, s, 0, now + 1) = All(raw, kind, s)
  BY <1>2 DEF Window, All
<1>4. Window(raw, "book", s, 0 - StepTicks, now + 1) = All(raw, "book", s)
  BY <1>2 DEF Window, All
<1>5. \A kind : InBucket(All(raw, kind, s), b) = Bucket(raw, kind, s, b)
  BY DEF InBucket, All, Bucket
<1>6. b \in Buckets(All(raw, KindOf(r.metric), s))
  BY DEF Whole, Buckets, All, Bucket
<1>7. CASE r.metric = "spread"
  <2>1. r = Row(b + StepTicks, s, "spread", Times(InBucket(All(raw, "book", s), b)))
    BY <1>1, <1>5, <1>7 DEF Whole, KindOf
  <2>2. r \in BookRows(raw, s, 0, now + 1)
    BY <1>3, <1>6, <1>7, <2>1 DEF BookRows, KindOf
  <2> QED BY <1>1, <2>2 DEF DerivedRows
<1>8. CASE r.metric = "flow"
  <2>1. r = Row(b + StepTicks, s, "flow", Times(InBucket(All(raw, "trade", s), b)))
    BY <1>1, <1>5, <1>8 DEF Whole, KindOf
  <2>2. r \in TradeRows(raw, s, 0, now + 1)
    BY <1>3, <1>6, <1>8, <2>1 DEF TradeRows, KindOf
  <2> QED BY <1>1, <2>2 DEF DerivedRows
<1>9. CASE r.metric = "ofi"
  <2>1. r.value = Flows(raw, s, b)
    BY <1>9 DEF Whole
  <2>2. r = Row(b + StepTicks, s, "ofi",
                {<<Lagged(All(raw, "book", s), o), o.at>> :
                    o \in InBucket(All(raw, "book", s), b)})
    BY <1>1, <1>5, <1>9, <2>1 DEF Flows
  <2>3. r \in BookRows(raw, s, 0, now + 1)
    BY <1>3, <1>4, <1>6, <1>9, <2>2 DEF BookRows, KindOf
  <2> QED BY <1>1, <2>3 DEF DerivedRows
<1> QED BY <1>1, <1>7, <1>8, <1>9 DEF Metrics

\* What capture adds, and when.
LEMMA CaptureAdds ==
    ASSUME TInv, SInv, CaptureStep
    PROVE  /\ UNCHANGED <<grid, staging, rows, runs>>
           /\ raw \subseteq raw' /\ now \in Int /\ now' \in Int /\ now' >= now
           /\ Punctual => \A o \in raw' : o \in raw \/ o.at = now
<1>1. UNCHANGED <<grid, staging, rows, runs>>
  BY DEF CaptureStep, Tick, Store, Observe, tables, work
<1>2. /\ raw \subseteq raw' /\ now \in Int /\ now' \in Int /\ now' >= now
      /\ Punctual => \A o \in raw' : o \in raw \/ o.at = now
  <2>1. CASE Tick
    BY <2>1 DEF Tick, TInv, CaptureOK
  <2>2. CASE Store
    BY <2>2 DEF Store, SInv, TInv, CaptureOK, NothingHeld
  <2>3. ASSUME NEW kind, NEW s, NEW crossed,
               Observe([kind |-> kind, stream |-> s, at |-> now, crossed |-> crossed])
        PROVE  /\ now' = now /\ raw \subseteq raw'
               /\ Punctual => \A p \in raw' : p \in raw \/ p.at = now
    <3> DEFINE o == [kind |-> kind, stream |-> s, at |-> now, crossed |-> crossed]
    <3>1. o.at = now
      OBVIOUS
    <3> HIDE DEF o
    <3> QED BY <2>3, <3>1 DEF Observe, Punctual, o
  <2>5. now \in Int /\ now >= now
    BY DEF TInv, CaptureOK
  <2>6. CASE \E kind \in Kinds, s \in Streams, crossed \in BOOLEAN :
               Observe([kind |-> kind, stream |-> s, at |-> now, crossed |-> crossed])
    BY <2>3, <2>5, <2>6
  <2>7. CaptureStep => Tick \/ Store
           \/ \E kind \in Kinds, s \in Streams, crossed \in BOOLEAN :
                Observe([kind |-> kind, stream |-> s, at |-> now, crossed |-> crossed])
    BY Zenon DEF CaptureStep
  <2> QED BY <2>1, <2>2, <2>6, <2>7
<1> QED BY <1>1, <1>2

LEMMA CaptureWhole == WholeInv /\ RInv /\ TInv /\ TInv' /\ SInv /\ CaptureStep => WholeInv'
<1> SUFFICES ASSUME WholeInv, RInv, TInv, TInv', SInv, CaptureStep PROVE WholeInv'
  OBVIOUS
<1>1. UNCHANGED <<grid, staging, rows>>
  BY CaptureAdds
<1>2. /\ raw \subseteq raw' /\ now \in Int /\ now' \in Int /\ now' >= now
      /\ Punctual => \A o \in raw' : o \in raw \/ o.at = now
  BY CaptureAdds
<1>3. ASSUME NEW r \in grid \cup staging \cup rows
      PROVE  r.ts <= now' /\ (Punctual => Whole(r, raw'))
  <2>1. r.ts \in Int /\ Aligned(r.ts) /\ r.ts <= now
    BY DEF TInv, TablesOK, WorkOK, GridRow, RInv, RowsAreSound, Sound, WholeInv
  <2>2. raw \in SUBSET Observations /\ raw' \in SUBSET Observations
    BY DEF TInv, CaptureOK
  <2>3. ASSUME Punctual PROVE Whole(r, raw')
    <3>1. Whole(r, raw)
      BY <2>3 DEF WholeInv
    <3> QED BY <1>2, <2>1, <2>2, <2>3, <3>1, WholeStays
  <2> QED BY <1>2, <2>1, <2>3
<1> QED BY <1>1, <1>3 DEF WholeInv

LEMMA ReadWhole == WholeInv /\ TInv /\ DInv /\ ReadStep => WholeInv'
<1> SUFFICES ASSUME WholeInv, TInv, DInv, ReadStep PROVE WholeInv'
  OBVIOUS
<1>1. /\ pc = "read" /\ UNCHANGED <<now, raw, grid, staging>>
      /\ \A r \in rows' \ rows : r \in GridRow /\ Within(r, grid_start, grid_end)
  BY ReadRows DEF capture, tables
<1>2. /\ raw \in SUBSET Observations /\ IsFiniteSet(raw) /\ grid_start \in Int
      /\ grid_end \in Int /\ Aligned(grid_start) /\ Aligned(grid_end)
      /\ grid_end <= now /\ now \in Int /\ Asked \in Streams
  BY <1>1, AskedFacts DEF TInv, CaptureOK, RangeOK, DInv, ReadIsFinite
<1>3. ASSUME NEW r \in rows' \ rows PROVE r.ts <= now /\ Whole(r, raw)
  <2>1. r.ts <= now
    <3>1. r.ts \in Int /\ r.ts <= grid_end
      BY <1>1, <1>3 DEF GridRow, Within
    <3> QED BY <1>2, <3>1
  <2>2. CASE ReadBook
    <3>1. r \in BookRows(raw, Asked, grid_start, grid_end)
      BY <1>3, <2>2 DEF ReadBook
    <3>2. Whole(r, raw)
      BY <1>2, <3>1, BookRowsWhole
    <3> QED BY <2>1, <3>2
  <2>3. CASE ReadTrades
    <3>1. r \in TradeRows(raw, Asked, grid_start, grid_end)
      BY <1>3, <2>3 DEF ReadTrades
    <3>2. Whole(r, raw)
      BY <1>2, <3>1, TradeRowsWhole
    <3> QED BY <2>1, <3>2
  <2>4. CASE ReadSnapshots
    <3>1. r \in SnapshotRows(Window(raw, "snapshot", Asked, grid_start, grid_end), Asked)
      BY <1>3, <2>4 DEF ReadSnapshots
    <3>2. PICK ts, value : r = Row(ts, Asked, "depth", value)
      BY <3>1 DEF SnapshotRows
    <3>3. r.metric = "depth"
      BY <3>2, RowFields
    <3>4. Whole(r, raw)
      BY <3>3 DEF Whole
    <3> QED BY <2>1, <3>4
  <2> QED BY <2>1, <2>2, <2>3, <2>4 DEF ReadStep
<1> QED BY <1>1, <1>3 DEF WholeInv

LEMMA JobWhole ==
    WholeInv /\ TInv /\ (BeginStep \/ PublishStep \/ Raised \/ Crash) => WholeInv'
<1> SUFFICES ASSUME WholeInv, TInv, BeginStep \/ PublishStep \/ Raised \/ Crash
             PROVE  WholeInv'
  OBVIOUS
<1>1. raw' = raw /\ now' = now /\ rows' \subseteq rows
  BY JobSteps DEF capture
<1>2. grid' \subseteq grid \cup staging /\ staging' \subseteq staging \cup rows
  BY JobSteps, TableSteps DEF Swap
<1> QED BY <1>1, <1>2 DEF WholeInv

-----------------------------------------------------------------------------
(* A depth row averages every snapshot of its grid point, off the edges of the windows *)

IsEdge(table, t) == \E i \in DOMAIN table : t = table[i].start \/ t = table[i].end
Shots(obs, s, ts) ==
    {o \in obs : o.kind = "snapshot" /\ o.stream = s /\ ~o.crossed /\ CeilStep(o.at) = ts}

\* Off the edges the row is whole, and the second after its grid point is over.
Averaged(r, obs, table, t) ==
    r.metric = "depth" =>
        \/ IsEdge(table, r.ts)
        \/ /\ r.ts + Fraction <= t
           /\ Shots(obs, r.stream, r.ts) # {}
           /\ r.value = Times(Shots(obs, r.stream, r.ts))

\* The inductive invariant.
DepthInv == Punctual => \A r \in grid \cup staging \cup rows : Averaged(r, raw, runs, now)

\* A window holds every snapshot of a grid point strictly inside it.
LEMMA SnapshotRowsWhole ==
    ASSUME NEW obs \in SUBSET Observations, IsFiniteSet(obs), NEW s,
           NEW start \in Int, NEW end \in Int, Aligned(start), Aligned(end),
           NEW r \in SnapshotRows(Window(obs, "snapshot", s, start, end), s),
           r.ts # start, r.ts # end
    PROVE  /\ r.stream = s /\ r.ts + StepTicks <= end
           /\ Shots(obs, s, r.ts) # {} /\ r.value = Times(Shots(obs, s, r.ts))
<1> DEFINE shots == Window(obs, "snapshot", s, start, end)
           good == {o \in shots : o.stream = s /\ ~o.crossed}
<1>1. \A o \in obs : o.at \in Int
  BY ObservationFields
<1>2. /\ \A o \in good : /\ o \in obs /\ o.kind = "snapshot" /\ o.stream = s /\ ~o.crossed
                          /\ start <= o.at /\ o.at < end
      /\ \A o \in obs : (/\ o.kind = "snapshot" /\ o.stream = s /\ ~o.crossed
                          /\ start <= o.at /\ o.at < end) => o \in good
  BY DEF Window
<1>3. PICK p \in good :
         r = Row(CeilStep(p.at), s, "depth", Times({o \in good : CeilStep(o.at) = CeilStep(p.at)}))
  BY DEF SnapshotRows
<1> DEFINE ts == CeilStep(p.at)
<1>4. /\ r.ts = ts /\ r.stream = s
      /\ r.value = Times({o \in good : CeilStep(o.at) = ts})
  BY <1>3, RowFields
<1> HIDE DEF good
<1>5. p \in obs /\ p.at \in Int /\ start <= p.at /\ p.at < end
  BY <1>1, <1>2
<1>6. ts \in Int /\ Aligned(ts) /\ start + StepTicks <= ts /\ ts + StepTicks <= end
  <2>1. /\ FloorStep(p.at) \in Int /\ start <= FloorStep(p.at)
        /\ FloorStep(p.at) + StepTicks <= end
    BY <1>5, BucketIsWithin
  <2>2. ts \in Int /\ Aligned(ts) /\ ts <= FloorStep(p.at) + StepTicks
    BY <1>5, CeilFacts
  <2>3. FloorStep(p.at) <= ts
    BY <2>1, Positive DEF CeilStep
  <2>4. start < ts /\ ts < end
    <3>1. start # ts /\ ts # end
      BY <1>4
    <3> HIDE DEF ts
    <3> QED BY <2>1, <2>2, <2>3, <3>1, Positive
  <2> HIDE DEF ts
  <2> QED BY <2>2, <2>4, AlignedGap
<1> HIDE DEF ts
<1>7. ASSUME NEW o \in obs, CeilStep(o.at) = ts
      PROVE  start <= o.at /\ o.at < end
  <2>1. /\ o.at \in Int /\ o.at < ts + Fraction /\ ts <= FloorStep(o.at) + StepTicks
        /\ FloorStep(o.at) \in Int /\ FloorStep(o.at) <= o.at
    BY <1>1, <1>7, CeilFacts, FloorFacts
  <2> QED BY <1>6, <2>1, Positive
<1>8. {o \in good : CeilStep(o.at) = ts} = Shots(obs, s, ts)
  BY <1>2, <1>7 DEF Shots
<1>9. p \in Shots(obs, s, ts)
  BY <1>2, <1>5, <1>8 DEF ts
<1> QED BY <1>4, <1>6, <1>8, <1>9

\* No run's row forgets its window.
LEMMA EdgesStay ==
    ASSUME TInv, BeginStep \/ PublishStep \/ Raised \/ Crash, NEW t, IsEdge(runs, t)
    PROVE  IsEdge(runs', t)
<1>1. \/ runs' = runs
      \/ pc = "start" /\ runs' = Append(runs, NewRun)
      \/ pc = "finish" /\ runs' = Finished(outcome)
      \/ pc = "failed" /\ runs' = Finished("failed")
  BY JobSteps, TableSteps
<1>2. runs \in Seq(RunRows) /\ DOMAIN runs = 1..Len(runs) /\ Len(runs) \in Nat
  BY DEF TInv, TablesOK
<1>3. PICK i \in DOMAIN runs : t = runs[i].start \/ t = runs[i].end
  BY DEF IsEdge
<1>4. CASE runs' = runs
  BY <1>4
<1>5. CASE runs' = Append(runs, NewRun)
  <2>1. i \in DOMAIN runs' /\ runs'[i] = runs[i]
    BY <1>2, <1>5
  <2> QED BY <1>3, <2>1 DEF IsEdge
<1>6. ASSUME NEW status, runs' = Finished(status) PROVE IsEdge(runs', t)
  <2>1. /\ i \in DOMAIN runs'
        /\ runs'[i].start = runs[i].start /\ runs'[i].end = runs[i].end
    BY <1>2, <1>6 DEF Finished
  <2> QED BY <1>3, <2>1 DEF IsEdge
<1> QED BY <1>1, <1>4, <1>5, <1>6

\* What is captured from now on lies beyond the second after the row's grid point.
LEMMA AveragedStays ==
    ASSUME NEW obs \in SUBSET Observations, NEW more \in SUBSET Observations, obs \subseteq more,
           NEW t \in Int, NEW later \in Int, t <= later, \A o \in more : o \in obs \/ o.at = t,
           NEW table, NEW r, r.ts \in Int, Averaged(r, obs, table, t)
    PROVE  Averaged(r, more, table, later)
<1> SUFFICES ASSUME r.metric = "depth", ~IsEdge(table, r.ts)
             PROVE  /\ r.ts + Fraction <= later
                    /\ Shots(more, r.stream, r.ts) # {}
                    /\ r.value = Times(Shots(more, r.stream, r.ts))
  BY DEF Averaged
<1>1. /\ r.ts + Fraction <= t /\ Shots(obs, r.stream, r.ts) # {}
      /\ r.value = Times(Shots(obs, r.stream, r.ts))
  BY DEF Averaged
<1>2. ASSUME NEW o \in more, CeilStep(o.at) = r.ts PROVE o \in obs
  <2>1. o.at \in Int /\ o.at < r.ts + Fraction
    BY <1>2, ObservationFields, CeilFacts
  <2>2. o.at # t
    BY <1>1, <2>1, Positive
  <2> QED BY <2>2
<1>3. Shots(more, r.stream, r.ts) = Shots(obs, r.stream, r.ts)
  BY <1>2 DEF Shots
<1>4. r.ts + Fraction <= later
  BY <1>1, Positive
<1> QED BY <1>1, <1>3, <1>4

\* Off the edges a full derive of all there is would publish the same depth row.
LEMMA AveragedIsFull ==
    ASSUME TInv, NEW r \in GridRow, r.metric = "depth", Averaged(r, raw, runs, now)
    PROVE  r \in DerivedRows(raw, 0, now + 1) \/ r.ts \in RunEdges
<1> DEFINE s == r.stream
           shots == Window(raw, "snapshot", s, 0, now + 1)
           good == {o \in shots : o.stream = s /\ ~o.crossed}
<1> SUFFICES ASSUME ~IsEdge(runs, r.ts) PROVE r \in DerivedRows(raw, 0, now + 1)
  BY DEF IsEdge, RunEdges
<1>1. s \in Streams /\ r = Row(r.ts, s, "depth", r.value)
  BY DEF GridRow, Row
<1>2. Shots(raw, s, r.ts) # {} /\ r.value = Times(Shots(raw, s, r.ts))
  BY DEF Averaged
<1>3. \A o \in raw : 0 <= o.at /\ o.at < now + 1
  <2>1. \A o \in raw : o.at \in Nat /\ o.at <= now
    BY DEF TInv, CaptureOK, Observations
  <2> QED BY <2>1 DEF TInv, CaptureOK
<1>4. {o \in good : CeilStep(o.at) = r.ts} = Shots(raw, s, r.ts)
  BY <1>3 DEF Window, Shots
<1>5. PICK o \in good : CeilStep(o.at) = r.ts
  BY <1>2, <1>4
<1>6. r \in SnapshotRows(shots, s)
  <2>1. r.ts \in {CeilStep(p.at) : p \in good}
    BY <1>5
  <2>2. r = Row(r.ts, s, "depth", Times({p \in good : CeilStep(p.at) = r.ts}))
    BY <1>1, <1>2, <1>4
  <2> QED BY <2>1, <2>2 DEF SnapshotRows
<1> QED BY <1>1, <1>6 DEF DerivedRows

LEMMA DepthStays ==
    DepthInv /\ TInv /\ TInv' /\ SInv /\ DInv /\ [Next]_vars => DepthInv'
<1> SUFFICES ASSUME DepthInv, TInv, TInv', SInv, DInv, [Next]_vars, Punctual
             PROVE  \A r \in grid' \cup staging' \cup rows' : Averaged(r, raw', runs', now')
  BY DEF DepthInv, Punctual
<1>1. CASE UNCHANGED vars \/ Rest
  BY <1>1 DEF Rest, vars, capture, tables, work, DepthInv
<1>2. CASE CaptureStep
  <2> SUFFICES ASSUME NEW r \in grid \cup staging \cup rows PROVE Averaged(r, raw', runs, now')
    BY <1>2, CaptureAdds
  <2>1. r.ts \in Int /\ Averaged(r, raw, runs, now)
    BY DEF TInv, TablesOK, WorkOK, GridRow, DepthInv
  <2>2. raw \in SUBSET Observations /\ raw' \in SUBSET Observations
    BY DEF TInv, CaptureOK
  <2> QED BY <1>2, <2>1, <2>2, CaptureAdds, AveragedStays
<1>3. CASE ReadStep
  <2>1. /\ pc = "read" /\ UNCHANGED <<now, raw, grid, staging, runs>>
        /\ \A r \in rows' \ rows : r \in GridRow
    BY <1>3, ReadRows DEF capture, tables
  <2>2. /\ raw \in SUBSET Observations /\ IsFiniteSet(raw) /\ grid_start \in Int
        /\ grid_end \in Int /\ Aligned(grid_start) /\ Aligned(grid_end)
        /\ grid_end <= now /\ now \in Int /\ Asked \in Streams
    BY <2>1, AskedFacts DEF TInv, CaptureOK, RangeOK, DInv, ReadIsFinite
  <2>3. /\ run \in DOMAIN runs
        /\ runs[run].start = grid_start /\ runs[run].end = grid_end
    BY <2>1 DEF SInv, RunIsOurs, Working
  <2>4. ASSUME NEW r \in rows' \ rows, r.metric = "depth", ~IsEdge(runs, r.ts)
        PROVE  /\ r.ts + Fraction <= now
               /\ Shots(raw, r.stream, r.ts) # {}
               /\ r.value = Times(Shots(raw, r.stream, r.ts))
    <3>1. r.ts # grid_start /\ r.ts # grid_end
      BY <2>3, <2>4 DEF IsEdge
    <3>2. r \in SnapshotRows(Window(raw, "snapshot", Asked, grid_start, grid_end), Asked)
      <4>1. CASE ReadSnapshots
        BY <2>4, <4>1 DEF ReadSnapshots
      <4>2. CASE ReadBook
        <5>1. r \in BookRows(raw, Asked, grid_start, grid_end)
          BY <2>4, <4>2 DEF ReadBook
        <5>2. PICK b, value : \/ r = Row(b, Asked, "spread", value)
                              \/ r = Row(b, Asked, "ofi", value)
          BY <5>1 DEF BookRows
        <5>3. r.metric \in {"spread", "ofi"}
          BY <5>2, RowFields
        <5> QED BY <2>4, <5>3
      <4>3. CASE ReadTrades
        <5>1. r \in TradeRows(raw, Asked, grid_start, grid_end)
          BY <2>4, <4>3 DEF ReadTrades
        <5>2. PICK b, value : r = Row(b, Asked, "flow", value)
          BY <5>1 DEF TradeRows
        <5>3. r.metric = "flow"
          BY <5>2, RowFields
        <5> QED BY <2>4, <5>3
      <4> QED BY <1>3, <4>1, <4>2, <4>3 DEF ReadStep
    <3>3. /\ r.stream = Asked /\ r.ts + StepTicks <= grid_end
          /\ Shots(raw, Asked, r.ts) # {} /\ r.value = Times(Shots(raw, Asked, r.ts))
      BY <2>2, <3>1, <3>2, SnapshotRowsWhole
    <3>4. r.ts + Fraction <= now
      <4>1. r.ts \in Int
        BY <2>1, <2>4 DEF GridRow
      <4> QED BY <2>2, <3>3, <4>1, Positive
    <3> QED BY <3>3, <3>4
  <2>5. ASSUME NEW r \in grid \cup staging \cup rows' PROVE Averaged(r, raw, runs, now)
    <3>1. CASE r \in rows' \ rows
      BY <2>4, <3>1 DEF Averaged
    <3>2. CASE r \in grid \cup staging \cup rows
      BY <3>2 DEF DepthInv
    <3> QED BY <3>1, <3>2
  <2> QED BY <2>1, <2>5
<1>4. CASE BeginStep \/ PublishStep \/ Raised \/ Crash
  <2>1. raw' = raw /\ now' = now /\ rows' \subseteq rows
    BY <1>4, JobSteps DEF capture
  <2>2. grid' \subseteq grid \cup staging /\ staging' \subseteq staging \cup rows
    BY <1>4, JobSteps, TableSteps DEF Swap
  <2>3. ASSUME NEW r \in grid \cup staging \cup rows PROVE Averaged(r, raw, runs', now)
    <3>1. Averaged(r, raw, runs, now)
      BY DEF DepthInv
    <3>2. IsEdge(runs, r.ts) => IsEdge(runs', r.ts)
      BY <1>4, EdgesStay
    <3> QED BY <3>1, <3>2 DEF Averaged
  <2> QED BY <2>1, <2>2, <2>3
<1> QED BY <1>1, <1>2, <1>3, <1>4 DEF Next

\* Without late rows the grid holds what one full derive of everything captured would
\* make of it, but for the OFI after a step without events and for the depth at the
\* first and the last instant of a run's window.
THEOREM TailsAreFull == Spec => []TailIsFull
<1>1. Init => WholeInv
  BY DEF Init, WholeInv
<1>2. WholeInv /\ SInv /\ RInv /\ TInv /\ TInv' /\ DInv /\ [Next]_vars => WholeInv'
  <2> SUFFICES ASSUME WholeInv, SInv, RInv, TInv, TInv', DInv, [Next]_vars PROVE WholeInv'
    OBVIOUS
  <2>1. CASE UNCHANGED vars
    <3>1. UNCHANGED <<now, raw, grid, staging, rows>>
      BY <2>1 DEF vars, capture, tables, work
    <3> QED BY <3>1 DEF WholeInv
  <2>2. CASE Rest
    BY <2>1, <2>2 DEF Rest
  <2> QED BY <2>1, <2>2, CaptureWhole, ReadWhole, JobWhole DEF Next
<1>3. Init => DepthInv
  BY DEF Init, DepthInv
<1>4. WholeInv /\ DepthInv /\ TInv => TailIsFull
  <2> SUFFICES ASSUME WholeInv, DepthInv, TInv, Punctual, NEW r \in grid
               PROVE  \/ r \in DerivedRows(raw, 0, now + 1)
                      \/ r.metric = "depth" /\ r.ts \in RunEdges
                      \/ /\ r.metric = "ofi"
                         /\ Window(raw, "book", r.stream, r.ts - 2 * StepTicks,
                                   r.ts - StepTicks) = {}
    BY Zenon DEF TailIsFull, Punctual
  <2>1. r \in GridRow /\ Whole(r, raw)
    BY DEF TInv, TablesOK, WholeInv
  <2>2. CASE r.metric # "depth"
    BY <2>1, <2>2, WholeIsFull
  <2>3. CASE r.metric = "depth"
    <3>1. Averaged(r, raw, runs, now)
      BY DEF DepthInv
    <3> QED BY <2>1, <2>3, <3>1, AveragedIsFull
  <2> QED BY <2>2, <2>3
<1> QED
  BY <1>1, <1>2, <1>3, <1>4, DepthStays, Inductive, TypesInductive, RowsInductive,
     ServedInductive, PTL DEF Spec

=============================================================================
