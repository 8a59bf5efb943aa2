----------------------------- MODULE Difficulty -----------------------------
(***************************************************************************)
(* The difficulty rule of blockchain.go: the target a header must have,    *)
(* from the total work and the timestamps of two of the headers before it. *)
(*                                                                         *)
(* A header is [time, totalWork]; a chain is a sequence of them, oldest    *)
(* first.  The lookups of the earlier headers and their errors are in      *)
(* module Blockchain.  The numbers of the code are constants here, so that *)
(* small ones can be checked.                                              *)
(***************************************************************************)
EXTENDS Integers, Sequences, Argument

CONSTANTS
    Depth,        \* 144: blocks the work is measured over; 288 and 72 are
                  \* twice and half of it
    Spacing,      \* targetSpacing, in seconds
    Full,         \* 2^256
    PowLimit,     \* the easiest target
    Units,        \* the powers of 256
    Targets,      \* targets of the headers of a chain
    Times,        \* their timestamps
    OutlierTimes  \* wrong timestamps

ASSUME DifficultyAssumption ==
    /\ {Depth, Spacing, Full, PowLimit} \subseteq Nat \ {0}
    /\ Depth % 2 = 0 /\ Depth >= 4
    /\ Times \subseteq Int /\ OutlierTimes \subseteq Int

(* A target is a number of at least two bits, and its work is not lost in  *)
(* the division by the time.                                               *)
ASSUME TargetsAssumption ==
    \A t \in Targets : t \in 2..PowLimit /\ 2 * Depth * (t + 1) <= Full

Mantissa == 8388608   \* 2^23: the bits of a compact number

ASSUME UnitsAssumption ==
    /\ Units \subseteq Nat \ {0} /\ 1 \in Units
    /\ \A u, v \in Units : u < v => 256 * u <= v
    /\ \A u \in Units : u = 1 \/ \E v \in Units : u = 256 * v
    /\ \E u \in Units : PowLimit \div u < Mantissa

(* sort.Sort inserts the elements of a short slice one by one, the newest  *)
(* header first; Less is true of equal timestamps, so an equal one moves   *)
(* in front.                                                               *)
Less(chain, i, j) ==
    chain[i].time < chain[j].time \/ (chain[i].time = chain[j].time /\ i < j)

(* Mutant: the newest of the three is taken.                               *)
SuitableUnsorted(chain, n) == chain[n]

(* The middle one of header n and the two before it.                       *)
GetSuitableBlock(chain, n) ==
    chain[CHOOSE i \in (n - 2)..n :
              \E j, k \in (n - 2)..n : Less(chain, j, i) /\ Less(chain, i, k)]

GetEpoch(chain, n) == GetSuitableBlock(chain, n - Depth)

(* Mutant: a long duration is not cut.                                     *)
BoundedBelow(duration) ==
    IF 2 * duration < Depth * Spacing THEN (Depth * Spacing) \div 2 ELSE duration

(* "In order to avoid difficulty cliffs, we bound the amplitude".          *)
Bounded(duration) ==
    IF duration > 2 * Depth * Spacing THEN 2 * Depth * Spacing
    ELSE IF 2 * duration < Depth * Spacing THEN (Depth * Spacing) \div 2
    ELSE duration

(* BigToCompact (external), as the number the bits stand for: 23 bits and  *)
(* as few zero bytes as it takes.                                          *)
Fits(n, unit) == n \div unit < Mantissa

BigToCompact(n) ==
    LET unit == CHOOSE u \in Units : Fits(n, u) /\ \A v \in Units : Fits(n, v) => u <= v
    IN  (n \div unit) * unit

TargetFor(work) ==
    LET newTarget == (Full - work) \div work
    IN  BigToCompact(IF newTarget > PowLimit THEN PowLimit ELSE newTarget)

calcDiffAdjust(start, end) ==
    TargetFor(((end.totalWork - start.totalWork) * Spacing) \div Bounded(end.time - start.time))

(* The special rule of the test networks adds twice the spacing as         *)
(* nanoseconds: every header later than its parent is exempt.              *)
calcRequiredWork(time, chain, reduceMinDifficulty) ==
    LET n == Len(chain)
    IN  IF reduceMinDifficulty /\ time > chain[n].time THEN PowLimit
        ELSE calcDiffAdjust(GetEpoch(chain, n), GetSuitableBlock(chain, n))

(* CalcWork (external): the work of a header with this target.             *)
CalcWork(target) == Full \div (target + 1)

----------------------------------------------------------------------------
ChainInputs == [kind : {"chain"}, target : Targets, times : [1..(Depth + 3) -> Times]]

(* Header k of a chain with one block per Spacing has another timestamp.   *)
OutlierInputs ==
    [kind : {"outlier"}, target : Targets, k : 1..(Depth + 3), time : OutlierTimes]

(* A chain of one target from given timestamps, and the targets that       *)
(* measuring `blocks' of it over the time of `spacings' gives.             *)
Chain(target, times) ==
    [i \in 1..(Depth + 3) |-> [time |-> times[i], totalWork |-> i * CalcWork(target)]]

Measured(target, blocks, spacings) == TargetFor((CalcWork(target) * blocks) \div spacings)

(* Whatever timestamps the headers have, in order or not, and whichever of *)
(* them the two medians pick, the next target is bounded: the work is that *)
(* of at least Depth - 2 and at most Depth + 2 blocks, and it is never     *)
(* spread over more than twice or less than half the time it should take.  *)
DifficultyDamped ==
    input.kind = "chain" =>
        LET target == calcRequiredWork(0, Chain(input.target, input.times), FALSE)
        IN  /\ target >= Measured(input.target, Depth + 2, Depth \div 2)
            /\ target <= Measured(input.target, Depth - 2, 2 * Depth)

(* One wrong clock does no harm: on a chain that keeps the spacing, a      *)
(* single header with any timestamp, wherever it stands, moves the next    *)
(* target no further than two blocks more or less in the measured time.    *)
OutlierHarmless ==
    input.kind = "outlier" =>
        LET times == [[i \in 1..(Depth + 3) |-> i * Spacing] EXCEPT ![input.k] = input.time]
            target == calcRequiredWork(0, Chain(input.target, times), FALSE)
        IN  /\ target >= Measured(input.target, Depth + 1, Depth - 1)
            /\ target <= Measured(input.target, Depth - 1, Depth + 1)
=============================================================================
