---------------------------- MODULE HeaderRules ----------------------------
(***************************************************************************)
(* What AcceptBlock asks of a block header in view of the blocks before    *)
(* it: the target of GetNextWorkRequired, a time after the median of the   *)
(* last blocks, and the version rules with IsSuperMajority.  One chain     *)
(* grows from the genesis block; the i-th entry of every sequence is that  *)
(* of the block at height i - 1.  BlockChain has the verdict of these      *)
(* rules as the constant BadContext, and that of ComputeMinWork as         *)
(* BelowMinWork.                                                           *)
(***************************************************************************)
EXTENDS Integers, Sequences, FiniteSets, FiniteSetsExt

CONSTANTS
  nInterval,            \* blocks between two retargets; 2016 in the code
  nTargetSpacing,       \* the time a block should take; ten minutes
  bnProofOfWorkLimit,   \* the largest target, that is the least work
  Compact(_),           \* a target after GetCompact and SetCompact: leading digits
  nMedianTimeSpan,      \* the blocks the median time is taken of; 11
  nToCheck,             \* IsSuperMajority: the blocks looked at, per network,
  nReject, nEnforce,    \* how many of version 2 make version 1 and heights matter
  BlockTime,            \* the times blocks can have in this instance
  MaxBlocks             \* bound on the blocks of the chain

nTargetTimespan == nInterval * nTargetSpacing

ASSUME HeaderAssumption ==
  /\ nInterval \in Nat \ {0, 1} /\ nTargetSpacing \in Nat \ {0}
  /\ nTargetTimespan % 4 = 0
  /\ bnProofOfWorkLimit \in Nat \ {0} /\ BlockTime \subseteq Nat
  /\ nMedianTimeSpan \in Nat \ {0} /\ MaxBlocks \in Nat
  /\ \A x \in 0..bnProofOfWorkLimit : Compact(x) \in 0..x

\* Dropping digits keeps the order of targets, and leaves no more to drop.
ASSUME CompactAssumption ==
  /\ \A x, y \in 0..bnProofOfWorkLimit : x <= y => Compact(x) <= Compact(y)
  /\ \A x \in 0..bnProofOfWorkLimit : Compact(Compact(x)) = Compact(x)

ASSUME MajorityAssumption ==
  /\ nToCheck \in [BOOLEAN -> Nat] /\ nReject \in [BOOLEAN -> Nat]
  /\ nEnforce \in [BOOLEAN -> Nat]
  /\ \A net \in BOOLEAN : nEnforce[net] <= nReject[net]

VARIABLES
  fTestNet,
  nTime, nBits, nVersion,
  fHeight               \* whether the coinbase starts with the height

headerVars == <<fTestNet, nTime, nBits, nVersion, fHeight>>

\* The number of blocks, and the height of the next one.
nBlocks == Len(nTime)

HeadersTypeOK ==
  /\ fTestNet \in BOOLEAN
  /\ nTime \in Seq(BlockTime) /\ nTime # <<>>
  /\ nBits \in Seq(0..bnProofOfWorkLimit) /\ Len(nBits) = nBlocks
  /\ nVersion \in Seq({1, 2}) /\ Len(nVersion) = nBlocks
  /\ fHeight \in Seq(BOOLEAN) /\ Len(fHeight) = nBlocks

HeadersInit ==
  /\ fTestNet \in BOOLEAN
  /\ nTime \in {<<t>> : t \in BlockTime}
  /\ nBits = <<Compact(bnProofOfWorkLimit)>>
  /\ nVersion = <<1>>
  /\ fHeight = <<FALSE>>

-----------------------------------------------------------------------------
MutantFirstTime(n) == nTime[Max({1, n - nMedianTimeSpan + 1})]

\* GetMedianTimePast of the n-th block: the upper median of the last times.
GetMedianTimePast(n) ==
  LET last == {i \in 1..n : i > n - nMedianTimeSpan} IN
  CHOOSE t \in {nTime[i] : i \in last} :
    /\ Cardinality({i \in last : nTime[i] < t}) <= Cardinality(last) \div 2
    /\ Cardinality({i \in last : nTime[i] <= t}) > Cardinality(last) \div 2

MutantNoLimit(n) == nTime[n] - nTime[n - nInterval + 1]

\* The time the last nInterval blocks took, within bounds.  It is that of the
\* nInterval - 1 gaps between them.
nActualTimespan(n) ==
  Max({nTargetTimespan \div 4,
       Min({nTargetTimespan * 4, nTime[n] - nTime[n - nInterval + 1]})})

MutantNoCap(n) == Compact((nBits[n] * nActualTimespan(n)) \div nTargetTimespan)

Retarget(n) ==
  Compact(Min({bnProofOfWorkLimit, (nBits[n] * nActualTimespan(n)) \div nTargetTimespan}))

MutantLastBits(n) == nBits[n]

\* On the test network: the bits of the last block of the interval that was not one
\* of the least work.
LastRegularBits(n) ==
  nBits[Max({i \in 1..n :
               \/ i = 1
               \/ (i - 1) % nInterval = 0
               \/ nBits[i] # Compact(bnProofOfWorkLimit)})]

IsLate(n, t) == t > nTime[n] + nTargetSpacing * 2

\* The bits that the block after the n-th must have if its time is t.
GetNextWorkRequired(n, t) ==
  IF n % nInterval = 0 THEN Retarget(n)
  ELSE IF ~fTestNet THEN nBits[n]
  ELSE IF IsLate(n, t) THEN Compact(bnProofOfWorkLimit)
  ELSE LastRegularBits(n)

MutantWindowRestarts(n) ==
  Cardinality({i \in 1..n : i > n - (n % nToCheck[fTestNet]) /\ nVersion[i] >= 2})

\* How many of the last blocks up to the n-th are of the new version.
nFound(n) == Cardinality({i \in 1..n : i > n - nToCheck[fTestNet] /\ nVersion[i] >= 2})

IsSuperMajority(nRequired, n) == nFound(n) >= nRequired

VersionAllowed(v, height) ==
  /\ v < 2 => ~IsSuperMajority(nReject[fTestNet], nBlocks)
  /\ v >= 2 /\ IsSuperMajority(nEnforce[fTestNet], nBlocks) => height

\* A target made four times as large in some rounds.
Loosened(nBase, rounds) ==
  LET bnResult[k \in 0..rounds] == IF k = 0 THEN nBase ELSE 4 * bnResult[k - 1]
  IN bnResult[rounds]

MutantFullRounds(nBase, time) ==
  IF fTestNet /\ time > nTargetSpacing * 2 THEN Compact(bnProofOfWorkLimit)
  ELSE LET rounds == IF time <= 0 THEN 0 ELSE time \div (nTargetTimespan * 4)
       IN Compact(Min({bnProofOfWorkLimit, Loosened(nBase, rounds)}))

\* ComputeMinWork, the largest target nTime after a target of nBase: four times as
\* much for every begun four timespans.
ComputeMinWork(nBase, time) ==
  IF fTestNet /\ time > nTargetSpacing * 2 THEN Compact(bnProofOfWorkLimit)
  ELSE LET rounds == IF time <= 0 THEN 0 ELSE (time - 1) \div (nTargetTimespan * 4) + 1
       IN Compact(Min({bnProofOfWorkLimit, Loosened(nBase, rounds)}))

-----------------------------------------------------------------------------
\* A block whose header says t, the bits required, v, and whether its coinbase starts
\* with the height.
AcceptBlock(t, v, height) ==
  /\ nBlocks < MaxBlocks
  /\ t > GetMedianTimePast(nBlocks)
  /\ VersionAllowed(v, height)
  /\ nTime' = Append(nTime, t)
  /\ nBits' = Append(nBits, GetNextWorkRequired(nBlocks, t))
  /\ nVersion' = Append(nVersion, v)
  /\ fHeight' = Append(fHeight, height)
  /\ UNCHANGED fTestNet

HeadersNext ==
  \E t \in BlockTime, v \in {1, 2}, height \in BOOLEAN : AcceptBlock(t, v, height)

HeadersSpec == HeadersInit /\ [][HeadersNext]_headerVars

-----------------------------------------------------------------------------
(* Although blocks may come with a time before that of their parent, the   *)
(* median time never goes back: what was late enough for a lock time or    *)
(* the median rule stays so, whatever times leave the window.              *)
MedianTimeNeverFalls ==
  \A n \in 2..nBlocks : GetMedianTimePast(n) >= GetMedianTimePast(n - 1)

(* "Limit adjustment step" (main.cpp:933): on the main network the target  *)
(* of a block is at most four times that of any block of the interval      *)
(* before and, but for the digits GetCompact drops, at least a quarter.    *)
TargetMovesSlowly ==
  ~fTestNet =>
    \A m, n \in 1..nBlocks :
      m < n /\ n - m <= nInterval =>
        /\ nBits[n] <= 4 * nBits[m]
        /\ nBits[n] >= Compact(Min({bnProofOfWorkLimit, nBits[m] \div 4}))

(* Blocks of least work, which the test network takes after a pause, do    *)
(* not change what the other blocks of the interval must show: within an   *)
(* interval every block has the bits of its first one or came late.        *)
LeastWorkIsForgotten ==
  fTestNet =>
    \A n \in 2..nBlocks :
      LET first == n - ((n - 1) % nInterval) IN
      nBits[n] = nBits[first] \/ IsLate(n - 1, nTime[n])

(* Once version 1 blocks are rejected they are so for good, and every      *)
(* later block has its height in the coinbase, although the blocks that    *)
(* made the majority leave the window one by one.                          *)
UpgradeIsFinal ==
  \A m, n \in 1..nBlocks :
    m < n /\ IsSuperMajority(nReject[fTestNet], m) => nVersion[n] = 2 /\ fHeight[n]

(* ComputeMinWork, with which ProcessBlock drops a block that has less     *)
(* work than could be asked a time after the last checkpoint, drops no     *)
(* valid block as long as the times go up and at most one retarget lies    *)
(* between.  The first of two retargets can raise the target for time from *)
(* before the checkpoint, which ComputeMinWork does not count.             *)
NoValidBlockIsTooEasy ==
  \A m, n \in 1..nBlocks :
    /\ m < n /\ \A i \in m + 1..n : nTime[i - 1] < nTime[i]
    /\ (n - 1) \div nInterval - (m - 1) \div nInterval <= 1
    => nBits[n] <= ComputeMinWork(nBits[m], nTime[n] - nTime[m])

=============================================================================
