------------------------- MODULE HeaderRules_proofs -------------------------
(***************************************************************************)
(* What holds of the headers of every chain, for every choice of the       *)
(* constants.                                                              *)
(*                                                                         *)
(* The upgrade to version 2 is final.  The invariant adds that the         *)
(* majority, once there, is there for the next block too: the window loses *)
(* at most one block of version 2 when it gains one.                       *)
(*                                                                         *)
(* Targets move slowly, and on the test network blocks of least work are   *)
(* forgotten.  The invariant says that the bits of a block are those of    *)
(* the first one of its interval, but for late ones, and how that of one   *)
(* interval follows from the last block of the one before.                 *)
(*                                                                         *)
(* The bound of ComputeMinWork follows from the same invariant: with at    *)
(* most one retarget between, the target of a later block is at most four  *)
(* times that of the checkpoint, or it came late, and then no bound holds  *)
(* on the test network.                                                    *)
(*                                                                         *)
(* The median time does not fall.  The facts about numbers that this takes *)
(* (division, counting) come first.                                        *)
(***************************************************************************)
EXTENDS HeaderRules, Sums

-----------------------------------------------------------------------------
(* Numbers.                                                                *)

\* Quotient and remainder are determined by the number.
LEMMA DivisionIsUnique ==
  ASSUME NEW K \in Nat \ {0}, NEW q \in Int, NEW r \in 0..K - 1,
         NEW p \in Int, NEW s \in 0..K - 1, K * q + r = K * p + s
  PROVE  q = p /\ r = s
<1>1. K * (q - p) = s - r /\ s - r < K /\ r - s < K
  OBVIOUS
<1>2. ASSUME NEW d \in Int, d > 0 PROVE K * d >= K
  BY <1>2
<1>3. ~(q > p)
  BY <1>1, <1>2
<1>4. ~(p > q)
  <2>1. K * (p - q) = r - s
    BY <1>1
  <2> QED
    BY <1>1, <1>2, <2>1
<1>5. q = p
  BY <1>3, <1>4
<1> QED
  BY <1>1, <1>5

\* The remainder counts up to K - 1 and starts again.
LEMMA ModNext ==
  ASSUME NEW n \in Nat \ {0}, NEW K \in Nat \ {0}
  PROVE  /\ n % K # 0 => n % K = ((n - 1) % K) + 1
         /\ n % K = 0 => (n - 1) % K = K - 1
         /\ (n - 1) % K \in 0..K - 1 /\ (n - 1) % K <= n - 1
<1> DEFINE q == (n - 1) \div K
           r == (n - 1) % K
           p == n \div K
           s == n % K
<1>1. /\ q \in Nat /\ r \in 0..K - 1 /\ n - 1 = K * q + r
      /\ p \in Nat /\ s \in 0..K - 1 /\ n = K * p + s
  OBVIOUS
<1> HIDE DEF q, r, p, s
<1>2. CASE r = K - 1
  <2>1. K * (q + 1) + 0 = K * p + s
    BY <1>1, <1>2
  <2>2. s = 0
    BY <1>1, <2>1, DivisionIsUnique
  <2> QED
    BY <1>1, <1>2, <2>2 DEF r, s
<1>3. CASE r < K - 1
  <2>1. K * q + (r + 1) = K * p + s /\ r + 1 \in 0..K - 1
    BY <1>1, <1>3
  <2>2. s = r + 1
    BY <1>1, <2>1, DivisionIsUnique
  <2> QED
    BY <1>1, <2>2 DEF r, s
<1> QED
  BY <1>1, <1>2, <1>3

-----------------------------------------------------------------------------
(* Counting.                                                               *)

LEMMA CountIsNat ==
  ASSUME NEW n \in Nat, NEW S, S \subseteq 1..n
  PROVE  IsFiniteSet(S) /\ Cardinality(S) \in Nat
<1>1. IsFiniteSet(1..n)
  BY FS_Interval
<1> QED
  BY <1>1, FS_Subset, FS_CardinalityType

\* A window of K blocks that moves on to a block that counts.
LEMMA WindowMoves ==
  ASSUME NEW n \in Nat, NEW K \in Nat, NEW S, NEW T,
         S \in SUBSET {i \in 1..n : i > n - K},
         T = IF K = 0 THEN {} ELSE (S \ {n + 1 - K}) \cup {n + 1}
  PROVE  Cardinality(T) \in Nat /\ Cardinality(T) >= Cardinality(S)
<1>1. IsFiniteSet(S) /\ Cardinality(S) \in Nat
  <2>1. S \subseteq 1..n
    OBVIOUS
  <2> QED
    BY <2>1, CountIsNat
<1>2. CASE K = 0
  <2>1. S = {} /\ T = {}
    BY <1>2
  <2>2. Cardinality({}) = 0
    BY FS_EmptySet
  <2> QED
    BY <2>1, <2>2
<1>3. CASE K # 0
  <2> DEFINE R == S \ {n + 1 - K}
  <2>1. IsFiniteSet(R) /\ Cardinality(R) \in Nat /\ Cardinality(R) >= Cardinality(S) - 1
    BY <1>1, FS_RemoveElement, FS_CardinalityType
  <2>2. T = R \cup {n + 1} /\ n + 1 \notin R
    BY <1>3
  <2>3. Cardinality(T) = Cardinality(R) + 1
    BY <2>1, <2>2, FS_AddElement
  <2> QED
    BY <1>1, <2>1, <2>3
<1> QED
  BY <1>2, <1>3

-----------------------------------------------------------------------------
(* Intervals.                                                              *)

FirstOf(n) == n - ((n - 1) % nInterval)

LEMMA FirstNext ==
  ASSUME NEW n \in Nat \ {0}
  PROVE  /\ FirstOf(n) \in 1..n
         /\ n - FirstOf(n) < nInterval
         /\ n % nInterval # 0 => FirstOf(n + 1) = FirstOf(n)
         /\ n % nInterval = 0 => FirstOf(n + 1) = n + 1 /\ FirstOf(n) = n - nInterval + 1
<1>1. nInterval \in Nat \ {0}
  BY HeaderAssumption
<1>2. PICK r, s : r = (n - 1) % nInterval /\ s = n % nInterval
  OBVIOUS
<1>3. /\ r \in 0..nInterval - 1 /\ r <= n - 1 /\ s \in Nat
      /\ s # 0 => s = r + 1
      /\ s = 0 => r = nInterval - 1
  <2>1. \A K \in Nat \ {0} :
          /\ n % K # 0 => n % K = ((n - 1) % K) + 1
          /\ n % K = 0 => (n - 1) % K = K - 1
          /\ (n - 1) % K \in 0..K - 1 /\ (n - 1) % K <= n - 1
    BY ModNext
  <2>2. s \in Nat
    BY <1>1, <1>2
  <2> QED
    BY <1>1, <1>2, <2>1, <2>2
<1>4. FirstOf(n) = n - r
  BY <1>2 DEF FirstOf
<1>5. FirstOf(n + 1) = (n + 1) - s
  <2>1. (n + 1) - 1 = n
    OBVIOUS
  <2>2. FirstOf(n + 1) = (n + 1) - (((n + 1) - 1) % nInterval)
    BY DEF FirstOf
  <2> QED
    BY <1>2, <2>1, <2>2
<1> QED
  BY <1>1, <1>2, <1>3, <1>4, <1>5

\* The blocks from the first one of an interval on have the same first one.  A least
\* counterexample would have one before it.
LEMMA SameFirst ==
  ASSUME NEW n \in Nat \ {0}, NEW i \in FirstOf(n)..n
  PROVE  FirstOf(i) = FirstOf(n)
<1> DEFINE T == {k \in Nat \ {0} : \E j \in FirstOf(k)..k : FirstOf(j) # FirstOf(k)}
<1>1. ASSUME NEW m \in T, \A k \in T : m <= k PROVE FALSE
  <2>1. PICK j \in FirstOf(m)..m : FirstOf(j) # FirstOf(m)
    OBVIOUS
  <2>2. m \in Nat \ {0} /\ FirstOf(m) \in 1..m
    BY FirstNext
  <2>3. j # m /\ j \in 1..m - 1 /\ m - 1 \in Nat \ {0}
    BY <2>1, <2>2
  <2>4. PICK k : k = m - 1
    OBVIOUS
  <2>5. k \in Nat \ {0} /\ m = k + 1
    BY <2>2, <2>3, <2>4
  <2>6. k % nInterval # 0
    BY <2>1, <2>3, <2>5, FirstNext
  <2>7. FirstOf(m) = FirstOf(k)
    BY <2>5, <2>6, FirstNext
  <2>8. k \in T
    BY <2>1, <2>3, <2>4, <2>5, <2>7
  <2> QED
    BY <1>1, <2>5, <2>8
<1>2. T \subseteq Nat
  OBVIOUS
<1>3. T = {}
  <2> HIDE DEF T
  <2> QED
    BY <1>1, <1>2, LeastExists
<1> QED
  BY <1>3

\* A place whose number is that of the first of some interval is the first of its own.
LEMMA FirstOfItself ==
  ASSUME NEW i \in Nat \ {0}
  PROVE  (i - 1) % nInterval = 0 <=> FirstOf(i) = i
<1>1. nInterval \in Nat \ {0}
  BY HeaderAssumption
<1>2. (i - 1) % nInterval \in 0..nInterval - 1
  BY <1>1
<1> QED
  BY <1>2 DEF FirstOf

-----------------------------------------------------------------------------
(* Targets.                                                                *)

LeastWork == Compact(bnProofOfWorkLimit)

\* b is a target that one retarget can make of a.
Near(a, b) == b <= 4 * a /\ b >= Compact(Min({bnProofOfWorkLimit, a \div 4}))

\* The n-th block has the bits of its interval, or came late.
Regular(n) ==
  \/ nBits[n] = nBits[FirstOf(n)]
  \/ fTestNet /\ n > 1 /\ IsLate(n - 1, nTime[n]) /\ nBits[n] = LeastWork

TargetsInv ==
  /\ HeadersTypeOK
  /\ \A n \in 1..nBlocks : Regular(n)
  /\ \A n \in 1..nBlocks : Compact(nBits[n]) = nBits[n]
  /\ \A n \in 2..nBlocks : FirstOf(n) = n => Near(nBits[n - 1], nBits[n])

LEMMA MinOfTwo ==
  ASSUME NEW x \in Int, NEW y \in Int
  PROVE  Min({x, y}) = IF x <= y THEN x ELSE y
  BY DEF Min

LEMMA MaxOfTwo ==
  ASSUME NEW x \in Int, NEW y \in Int
  PROVE  Max({x, y}) = IF x >= y THEN x ELSE y
  BY DEF Max

LEMMA LimitIsTarget ==
  /\ bnProofOfWorkLimit \in Nat
  /\ LeastWork \in 0..bnProofOfWorkLimit /\ Compact(LeastWork) = LeastWork
<1>1. bnProofOfWorkLimit \in Nat /\ bnProofOfWorkLimit \in 0..bnProofOfWorkLimit
  BY HeaderAssumption
<1>2. Compact(bnProofOfWorkLimit) \in 0..bnProofOfWorkLimit
  BY <1>1, HeaderAssumption
<1>3. Compact(Compact(bnProofOfWorkLimit)) = Compact(bnProofOfWorkLimit)
  BY <1>1, CompactAssumption
<1> QED
  BY <1>1, <1>2, <1>3 DEF LeastWork

\* A number between two multiples has its quotient between the factors.
LEMMA QuotientBetween ==
  ASSUME NEW x \in Nat, NEW K \in Nat \ {0}, NEW low \in Nat, NEW high \in Nat,
         low * K <= x, x <= high * K
  PROVE  x \div K \in low..high
<1> DEFINE q == x \div K
           r == x % K
<1>1. q \in Nat /\ r \in 0..K - 1 /\ x = K * q + r
  OBVIOUS
<1> HIDE DEF q, r
<1>2. ASSUME NEW d \in Int, d > 0 PROVE K * d >= K
  BY <1>2
<1>3. ~(q > high)
  <2>1. q > high => K * (q - high) >= K
    BY <1>1, <1>2
  <2>2. K * (q - high) = K * q - high * K
    BY <1>1
  <2> QED
    BY <1>1, <2>1, <2>2
<1>4. ~(low > q)
  <2>1. low > q => K * (low - q) >= K
    BY <1>1, <1>2
  <2>2. K * (low - q) = low * K - K * q
    BY <1>1
  <2> QED
    BY <1>1, <2>1, <2>2
<1>5. q \in low..high
  BY <1>1, <1>3, <1>4
<1> QED
  BY <1>5 DEF q

\* The timespan is kept within a factor of four.
LEMMA TimespanBounded ==
  ASSUME HeadersTypeOK, NEW n \in 1..nBlocks, n % nInterval = 0
  PROVE  /\ nTargetTimespan \in Nat \ {0}
         /\ nTargetTimespan = 4 * (nTargetTimespan \div 4)
         /\ nActualTimespan(n) \in (nTargetTimespan \div 4)..(4 * nTargetTimespan)
<1>1. nTargetTimespan \in Nat \ {0} /\ nTargetTimespan % 4 = 0
  BY HeaderAssumption DEF nTargetTimespan
<1>2. nTargetTimespan = 4 * (nTargetTimespan \div 4) /\ nTargetTimespan \div 4 \in Nat
  BY <1>1
<1>3. PICK T, Q, first :
        /\ T = nTargetTimespan /\ Q = nTargetTimespan \div 4
        /\ first = n - nInterval + 1
  OBVIOUS
<1>4. first \in 1..n
  BY <1>3, FirstNext
<1>5. PICK span \in Int : span = nTime[n] - nTime[first]
  <2>1. nTime[n] \in BlockTime /\ nTime[first] \in BlockTime
    BY <1>4 DEF HeadersTypeOK, nBlocks
  <2>2. nTime[n] \in Nat /\ nTime[first] \in Nat
    BY <2>1, HeaderAssumption
  <2> QED
    BY <2>2
<1>6. nActualTimespan(n) = Max({Q, Min({T * 4, span})})
  BY <1>3, <1>5 DEF nActualTimespan
<1>7. PICK capped \in Int :
        capped = Min({T * 4, span}) /\ capped <= 4 * T
  <2>1. T * 4 \in Int
    BY <1>1, <1>3
  <2> QED
    BY <1>1, <1>3, <2>1, MinOfTwo
<1>8. Max({Q, capped}) \in Q..(4 * T)
  <2>1. T \in Nat /\ Q \in Nat /\ T = 4 * Q
    BY <1>1, <1>2, <1>3
  <2>2. Max({Q, capped}) = IF Q >= capped THEN Q ELSE capped
    BY <1>7, <2>1, MaxOfTwo
  <2> QED
    BY <1>7, <2>1, <2>2
<1> QED
  BY <1>1, <1>2, <1>3, <1>6, <1>7, <1>8

\* A retarget makes a target, and one near the last.
LEMMA RetargetIsNear ==
  ASSUME HeadersTypeOK, NEW n \in 1..nBlocks, n % nInterval = 0
  PROVE  /\ Retarget(n) \in 0..bnProofOfWorkLimit /\ Near(nBits[n], Retarget(n))
         /\ Compact(Retarget(n)) = Retarget(n)
<1>1. PICK T, Q, span, a, lim :
        /\ T = nTargetTimespan /\ Q = nTargetTimespan \div 4
        /\ span = nActualTimespan(n) /\ a = nBits[n] /\ lim = bnProofOfWorkLimit
  OBVIOUS
<1>2. T \in Nat \ {0} /\ Q \in Nat /\ T = 4 * Q /\ span \in Q..(4 * T)
  BY <1>1, TimespanBounded
<1>3. lim \in Nat /\ a \in 0..lim
  BY <1>1, LimitIsTarget DEF HeadersTypeOK, nBlocks
<1>4. PICK d : d = (a * span) \div T
  OBVIOUS
<1>5. d \in (a \div 4)..(4 * a)
  <2>1. a \div 4 \in Nat /\ 4 * (a \div 4) <= a
    BY <1>3
  <2>2. PICK q \in Nat : q = a \div 4 /\ 4 * q <= a
    BY <2>1
  <2>3. a * span \in Nat
    BY <1>2, <1>3
  <2>4. q * T <= a * span
    <3>1. q * T = (4 * q) * Q
      BY <1>2, <2>2
    <3>2. (4 * q) * Q <= a * Q
      BY <1>2, <1>3, <2>2
    <3>3. a * Q <= a * span
      BY <1>2, <1>3
    <3>4. (4 * q) * Q \in Int /\ a * Q \in Int /\ q * T \in Int
      BY <1>2, <1>3, <2>2
    <3> QED
      BY <2>3, <3>1, <3>2, <3>3, <3>4
  <2>5. a * span <= (4 * a) * T
    <3>1. a * span <= a * (4 * T)
      BY <1>2, <1>3
    <3>2. a * (4 * T) = (4 * a) * T
      BY <1>2, <1>3
    <3> QED
      BY <3>1, <3>2
  <2>6. 4 * a \in Nat
    BY <1>3
  <2>7. d \in q..(4 * a)
    BY <1>2, <1>4, <2>2, <2>3, <2>4, <2>5, <2>6, QuotientBetween
  <2> QED
    BY <2>2, <2>7
<1>6. PICK least, new :
        /\ least = Min({lim, a \div 4}) /\ new = Min({lim, d})
  OBVIOUS
<1>7. least \in 0..lim /\ new \in 0..lim /\ least <= new /\ new <= 4 * a
  <2>1. a \div 4 \in Nat /\ d \in Nat
    BY <1>3, <1>5
  <2>2. least = (IF lim <= a \div 4 THEN lim ELSE a \div 4) /\ new = (IF lim <= d THEN lim ELSE d)
    BY <1>3, <1>6, <2>1, MinOfTwo
  <2> QED
    BY <1>3, <1>5, <2>1, <2>2
<1>8. /\ Compact(new) \in 0..new /\ Compact(least) <= Compact(new)
      /\ Compact(Compact(new)) = Compact(new)
  BY <1>1, <1>7, HeaderAssumption, CompactAssumption
<1>9. Retarget(n) = Compact(new)
  BY <1>1, <1>4, <1>6 DEF Retarget
<1>10. Retarget(n) \in 0..lim /\ Retarget(n) <= 4 * a
  BY <1>3, <1>7, <1>8, <1>9
<1> QED
  BY <1>1, <1>6, <1>8, <1>9, <1>10 DEF Near

\* The last regular block is one of the interval.
LEMMA LastRegularIsRegular ==
  ASSUME TargetsInv, NEW n \in 1..nBlocks
  PROVE  LastRegularBits(n) \in 0..bnProofOfWorkLimit /\ LastRegularBits(n) = nBits[FirstOf(n)]
<1> DEFINE S == {i \in 1..n : \/ i = 1
                              \/ (i - 1) % nInterval = 0
                              \/ nBits[i] # LeastWork}
<1>1. n \in Nat \ {0} /\ FirstOf(n) \in 1..n
  BY FirstNext DEF nBlocks, TargetsInv, HeadersTypeOK
<1>2. FirstOf(n) \in S
  <2>1. FirstOf(FirstOf(n)) = FirstOf(n)
    BY <1>1, SameFirst
  <2>2. (FirstOf(n) - 1) % nInterval = 0
    BY <1>1, <2>1, FirstOfItself
  <2> QED
    BY <1>1, <2>2
<1>3. PICK m \in S : \A k \in S : k <= m
  <2>1. S \subseteq 0..n /\ S # {}
    BY <1>1, <1>2
  <2> HIDE DEF S
  <2> QED
    BY <1>1, <2>1, GreatestExists
<1>4. Max(S) = m
  BY <1>3 DEF Max
<1>5. LastRegularBits(n) = nBits[m]
  BY <1>4 DEF LastRegularBits, LeastWork
<1>6. m \in FirstOf(n)..n /\ m \in 1..nBlocks
  BY <1>1, <1>2, <1>3 DEF nBlocks, TargetsInv, HeadersTypeOK
<1>7. FirstOf(m) = FirstOf(n) /\ nBits[m] \in 0..bnProofOfWorkLimit
  <2>1. PICK k, Target : k = m /\ Target = 0..bnProofOfWorkLimit
    OBVIOUS
  <2>2. nBits \in Seq(Target) /\ k \in 1..Len(nBits)
    BY <1>6, <2>1 DEF TargetsInv, HeadersTypeOK
  <2>3. nBits[k] \in Target
    BY <2>2
  <2>4. FirstOf(m) = FirstOf(n)
    BY <1>1, <1>6, SameFirst
  <2> QED
    BY <2>1, <2>3, <2>4
<1>8. CASE m = 1 \/ (m - 1) % nInterval = 0
  <2>1. m = 1 => FirstOf(m) = m
    <3>1. m = 1 => FirstOf(m) \in 1..1
      BY FirstNext
    <3> QED
      BY <3>1
  <2>2. FirstOf(m) = m
    BY <1>6, <1>8, <2>1, FirstOfItself
  <2> QED
    BY <1>5, <1>7, <2>2
<1>9. CASE nBits[m] # LeastWork
  <2>1. nBits[m] = nBits[FirstOf(m)]
    BY <1>6, <1>9 DEF TargetsInv, Regular
  <2> QED
    BY <1>5, <1>7, <2>1
<1> QED
  BY <1>3, <1>8, <1>9

LEMMA TargetsInitOK == HeadersInit => TargetsInv
<1> SUFFICES ASSUME HeadersInit PROVE TargetsInv
  OBVIOUS
<1>1. PICK t \in BlockTime : nTime = <<t>>
  BY DEF HeadersInit
<1>2. nBits = <<LeastWork>> /\ nVersion = <<1>> /\ fHeight = <<FALSE>> /\ fTestNet \in BOOLEAN
  BY DEF HeadersInit, LeastWork
<1>3. HeadersTypeOK /\ nBlocks = 1
  BY <1>1, <1>2, LimitIsTarget DEF HeadersTypeOK, nBlocks
<1>4. FirstOf(1) = 1
  <2>1. FirstOf(1) \in 1..1
    BY FirstNext
  <2> QED
    BY <2>1
<1> QED
  BY <1>2, <1>3, <1>4, LimitIsTarget DEF TargetsInv, Regular

\* What AcceptBlock leaves of the blocks before, and that it keeps the types.
LEMMA TargetsStep ==
  ASSUME TargetsInv, NEW t \in BlockTime, NEW v \in {1, 2}, NEW height \in BOOLEAN,
         AcceptBlock(t, v, height)
  PROVE  TargetsInv'
<1>0. PICK n, b : n = nBlocks /\ b = GetNextWorkRequired(nBlocks, t)
  OBVIOUS
<1>1. n \in Nat \ {0} /\ n \in 1..nBlocks
  BY <1>0 DEF TargetsInv, HeadersTypeOK, nBlocks
<1>2. FirstOf(n) \in 1..n
  BY <1>1, FirstNext
<1>3. b \in 0..bnProofOfWorkLimit /\ Compact(b) = b
  <2>1. CASE n % nInterval = 0
    BY <1>0, <1>1, <2>1, RetargetIsNear DEF GetNextWorkRequired, TargetsInv
  <2>2. CASE n % nInterval # 0
    BY <1>0, <1>1, <1>2, <2>2, LastRegularIsRegular, LimitIsTarget, SMTT(30)
       DEF GetNextWorkRequired, TargetsInv, HeadersTypeOK, nBlocks, LeastWork
  <2> QED
    BY <2>1, <2>2
<1>4. /\ HeadersTypeOK' /\ nBlocks' = n + 1 /\ fTestNet' = fTestNet
      /\ \A i \in 1..n : nTime'[i] = nTime[i] /\ nBits'[i] = nBits[i]
      /\ nTime'[n + 1] = t /\ nBits'[n + 1] = b
  BY <1>0, <1>3, SMTT(30) DEF AcceptBlock, TargetsInv, HeadersTypeOK, nBlocks
<1>5. ASSUME NEW i \in 1..n PROVE Regular(i)'
  <2>1. Regular(i) /\ FirstOf(i) \in 1..n /\ (i > 1 => i - 1 \in 1..n)
    <3>1. FirstOf(i) \in 1..i
      BY <1>1, FirstNext
    <3> QED
      BY <1>0, <1>1, <3>1 DEF TargetsInv
  <2> QED
    BY <1>4, <2>1 DEF Regular, IsLate
<1>6. Regular(n + 1)'
  <2>1. CASE n % nInterval = 0
    <3>1. FirstOf(n + 1) = n + 1
      BY <1>1, <2>1, FirstNext
    <3> QED
      BY <3>1 DEF Regular
  <2>2. CASE n % nInterval # 0
    <3>1. FirstOf(n + 1) = FirstOf(n)
      BY <1>1, <2>2, FirstNext
    <3>2. CASE ~fTestNet
      <4>1. nBits[n] = nBits[FirstOf(n)]
        BY <1>1, <3>2 DEF TargetsInv, Regular
      <4>2. b = nBits[n]
        BY <1>0, <2>2, <3>2 DEF GetNextWorkRequired
      <4> QED
        BY <1>2, <1>4, <3>1, <4>1, <4>2 DEF Regular
    <3>3. CASE fTestNet /\ IsLate(n, t)
      <4>1. b = LeastWork
        BY <1>0, <2>2, <3>3 DEF GetNextWorkRequired, LeastWork
      <4>2. PICK next : next = n + 1
        OBVIOUS
      <4>3. next > 1 /\ next - 1 = n
        BY <1>1, <4>2
      <4>4. IsLate(next - 1, nTime[next])'
        BY <1>1, <1>4, <3>3, <4>2, <4>3 DEF IsLate
      <4>5. Regular(next)'
        BY <1>4, <3>3, <4>1, <4>2, <4>3, <4>4 DEF Regular
      <4> QED
        BY <4>2, <4>5
    <3>4. CASE fTestNet /\ ~IsLate(n, t)
      <4>1. b = LastRegularBits(n)
        BY <1>0, <2>2, <3>4 DEF GetNextWorkRequired
      <4>2. b = nBits[FirstOf(n)]
        BY <1>1, <4>1, LastRegularIsRegular
      <4> QED
        BY <1>2, <1>4, <3>1, <4>2 DEF Regular
    <3> QED
      BY <3>2, <3>3, <3>4
  <2> QED
    BY <2>1, <2>2
<1>7. ASSUME NEW i \in 2..n + 1, FirstOf(i) = i PROVE Near(nBits[i - 1], nBits[i])'
  <2>1. CASE i \in 2..n
    <3>1. Near(nBits[i - 1], nBits[i])
      BY <1>0, <1>7, <2>1 DEF TargetsInv
    <3>2. i - 1 \in 1..n /\ i \in 1..n
      BY <1>1, <2>1
    <3> QED
      BY <1>4, <3>1, <3>2 DEF Near
  <2>2. CASE i = n + 1
    <3>1. n % nInterval = 0
      <4>1. FirstOf(n + 1) = FirstOf(n) => FALSE
        BY <1>1, <1>2, <1>7, <2>2
      <4> QED
        BY <1>1, <4>1, FirstNext
    <3>2. Near(nBits[n], b)
      BY <1>0, <1>1, <3>1, RetargetIsNear DEF GetNextWorkRequired, TargetsInv
    <3>3. i - 1 = n
      BY <1>1, <2>2
    <3> QED
      <4>1. nBits'[i - 1] = nBits[n] /\ nBits'[i] = b
        BY <1>1, <1>4, <2>2, <3>3
      <4> QED
        BY <3>2, <4>1 DEF Near
  <2> QED
    BY <1>1, <2>1, <2>2
<1>8. \A i \in 1..n + 1 : Regular(i)'
  BY <1>1, <1>5, <1>6
<1>9. \A i \in 1..n + 1 : Compact(nBits'[i]) = nBits'[i]
  <2>1. \A i \in 1..n : Compact(nBits[i]) = nBits[i]
    BY <1>0 DEF TargetsInv
  <2>2. \A i \in 1..n + 1 : i \in 1..n \/ i = n + 1
    BY <1>1
  <2> QED
    BY <1>3, <1>4, <2>1, <2>2
<1> QED
  BY <1>4, <1>7, <1>8, <1>9 DEF TargetsInv

LEMMA TargetsInvariant == HeadersSpec => []TargetsInv
<1>1. TargetsInv /\ [HeadersNext]_headerVars => TargetsInv'
  <2> SUFFICES ASSUME TargetsInv, [HeadersNext]_headerVars PROVE TargetsInv'
    OBVIOUS
  <2>1. CASE HeadersNext
    BY <2>1, TargetsStep DEF HeadersNext
  <2>2. CASE UNCHANGED headerVars
    BY <2>2 DEF headerVars, TargetsInv, HeadersTypeOK, Regular, Near, IsLate, nBlocks
  <2> QED
    BY <2>1, <2>2
<1> QED
  BY <1>1, TargetsInitOK, PTL DEF HeadersSpec

(* The columns of headers keep their types and lengths: in particular the  *)
(* target that a block must have, which on the test network is looked up   *)
(* in an earlier block, is always a target within the limit.               *)
THEOREM HeadersTyped == HeadersSpec => []HeadersTypeOK
<1>1. TargetsInv => HeadersTypeOK
  BY DEF TargetsInv
<1> QED
  BY <1>1, TargetsInvariant, PTL

(* On the test network every block of an interval has the bits of the      *)
(* first one or came late, however many blocks of least work lie between.  *)
THEOREM LeastWorkAlwaysForgotten == HeadersSpec => []LeastWorkIsForgotten
<1>1. TargetsInv => LeastWorkIsForgotten
  <2> SUFFICES ASSUME TargetsInv, fTestNet, NEW n \in 2..nBlocks
               PROVE  nBits[n] = nBits[FirstOf(n)] \/ IsLate(n - 1, nTime[n])
    BY DEF LeastWorkIsForgotten, FirstOf
  <2> QED
    BY DEF TargetsInv, Regular
<1> QED
  BY <1>1, TargetsInvariant, PTL

(* On the main network the target of a block is at most four times, and    *)
(* but for dropped digits at least a quarter of, that of any block at most *)
(* an interval before, for every length of the interval and all times.     *)
THEOREM TargetAlwaysMovesSlowly == HeadersSpec => []TargetMovesSlowly
<1>1. TargetsInv => TargetMovesSlowly
  <2> SUFFICES ASSUME TargetsInv, ~fTestNet, NEW m \in 1..nBlocks, NEW n \in 1..nBlocks,
                      m < n, n - m <= nInterval
               PROVE  Near(nBits[m], nBits[n])
    BY DEF TargetMovesSlowly, Near
  <2>1. PICK f : f = FirstOf(n)
    OBVIOUS
  <2>2. nBlocks \in Nat /\ nInterval \in Nat \ {0}
    BY HeaderAssumption DEF TargetsInv, HeadersTypeOK, nBlocks
  <2>3. f \in 1..n /\ n - f < nInterval /\ FirstOf(f) = f
    <3>1. f \in 1..n /\ n - f < nInterval
      BY <2>1, <2>2, FirstNext
    <3> QED
      BY <2>1, <2>2, <3>1, SameFirst
  <2>4. nBits[n] = nBits[f] /\ nBits[m] = nBits[FirstOf(m)]
    BY <2>1 DEF TargetsInv, Regular
  <2>5. CASE m >= f
    <3>1. FirstOf(m) = f
      BY <2>1, <2>2, <2>3, <2>5, SameFirst
    <3>2. PICK a, q, lim : a = nBits[m] /\ q = a \div 4 /\ lim = bnProofOfWorkLimit
      OBVIOUS
    <3>3. lim \in Nat /\ a \in 0..lim /\ nBits[n] = a
      BY <2>4, <3>1, <3>2, LimitIsTarget, SMTT(30) DEF TargetsInv, HeadersTypeOK
    <3>4. q \in 0..lim /\ q <= a /\ a <= 4 * a
      BY <3>2, <3>3
    <3>5. Min({lim, q}) \in 0..lim /\ Min({lim, q}) <= q
      BY <3>3, <3>4, MinOfTwo
    <3>6. Compact(Min({lim, q})) <= a
      <4>1. PICK x : x = Min({lim, q})
        OBVIOUS
      <4>2. Compact(x) \in 0..x
        BY <3>2, <3>5, <4>1, HeaderAssumption
      <4> QED
        BY <3>3, <3>4, <3>5, <4>1, <4>2
    <3> QED
      BY <3>2, <3>3, <3>4, <3>6 DEF Near
  <2>6. CASE m < f
    <3>1. PICK p : p = f - 1
      OBVIOUS
    <3>2. p \in 1..nBlocks /\ p \in Nat \ {0} /\ f = p + 1 /\ f \in 2..nBlocks /\ m <= p
      BY <2>2, <2>3, <2>6, <3>1
    <3>3. FirstOf(p) = p - nInterval + 1
      <4>1. (f - 1) % nInterval = 0
        BY <2>3, FirstOfItself
      <4> QED
        BY <3>1, <3>2, <4>1, FirstNext
    <3>4. m \in FirstOf(p)..p
      BY <2>2, <2>3, <3>2, <3>3
    <3>5. FirstOf(m) = FirstOf(p)
      BY <3>2, <3>4, SameFirst
    <3>6. nBits[p] = nBits[FirstOf(p)]
      BY <3>2 DEF TargetsInv, Regular
    <3>7. Near(nBits[p], nBits[f])
      BY <2>3, <3>1, <3>2 DEF TargetsInv
    <3> QED
      BY <2>4, <3>5, <3>6, <3>7
  <2> QED
    BY <2>2, <2>3, <2>5, <2>6
<1> QED
  BY <1>1, TargetsInvariant, PTL

-----------------------------------------------------------------------------
(* The least work a checkpoint leaves.                                     *)

\* One round or more makes a target four times as large, or larger.
LEMMA LoosenedIs ==
  ASSUME NEW a \in Nat, NEW n \in Nat \ {0}
  PROVE  Loosened(a, n) \in Nat /\ Loosened(a, n) >= 4 * a
<1>1. PICK step : step = [k \in 1..n |-> [x \in Nat |-> 4 * x]]
  OBVIOUS
<1>2. step \in [1..n -> [Nat -> Nat]] /\ \A k \in 1..n : \A x \in Nat : step[k][x] = 4 * x
  BY <1>1
<1>3. PICK g : Loop(g, Nat, a, step, n)
  BY <1>2, LoopExists
<1>4. g = [k \in 0..n |-> IF k = 0 THEN a ELSE 4 * g[k - 1]]
  <2>1. g = [k \in 0..n |-> g[k]] /\ g[0] = a
    BY <1>3 DEF Loop
  <2>2. ASSUME NEW k \in 0..n PROVE g[k] = IF k = 0 THEN a ELSE 4 * g[k - 1]
    <3>1. k # 0 => k \in 1..n /\ k - 1 \in 0..n
      OBVIOUS
    <3>2. k # 0 => g[k] = step[k][g[k - 1]] /\ g[k - 1] \in Nat
      BY <1>3, <3>1 DEF Loop
    <3> QED
      BY <1>2, <2>1, <3>1, <3>2
  <2> QED
    BY <2>1, <2>2, Zenon
<1>5. PICK f : f = CHOOSE h : h = [k \in 0..n |-> IF k = 0 THEN a ELSE 4 * h[k - 1]]
  OBVIOUS
<1>6. f = [k \in 0..n |-> IF k = 0 THEN a ELSE 4 * f[k - 1]]
  BY <1>4, <1>5
<1>7. f[0] = a /\ f = [k \in 0..n |-> f[k]] /\ \A k \in 1..n : f[k] = 4 * f[k - 1]
  <2>1. 0 \in 0..n /\ \A k \in 1..n : k \in 0..n /\ k # 0
    OBVIOUS
  <2> QED
    BY <1>6, <2>1
<1>8. PICK T : T = {x \in Nat : x >= a}
  OBVIOUS
<1>9. f \in [0..n -> T]
  <2>1. a \in T /\ \A x \in T : 4 * x \in T
    BY <1>8
  <2>2. f = [k \in 0..n |-> f[k]] /\ f[0] \in T
    BY <1>7, <2>1
  <2>3. \A k \in 1..n : f[k - 1] \in T => f[k] \in T
    BY <1>7, <2>1
  <2> QED
    BY <2>2, <2>3, LoopInvariant
<1>10. n \in 1..n /\ n - 1 \in 0..n
  OBVIOUS
<1>11. PICK x : x = f[n - 1]
  OBVIOUS
<1>12. x \in Nat /\ x >= a /\ f[n] = 4 * x
  BY <1>7, <1>8, <1>9, <1>10, <1>11
<1>13. Loosened(a, n) = f[n]
  BY <1>5 DEF Loosened
<1> QED
  BY <1>12, <1>13

\* Some time after a block, a target four times as large is not too easy.
LEMMA MinWorkIs ==
  ASSUME NEW a \in 0..bnProofOfWorkLimit, NEW time \in Nat \ {0},
         NEW b \in 0..bnProofOfWorkLimit, Compact(b) = b, b <= 4 * a
  PROVE  b <= ComputeMinWork(a, time)
<1>1. PICK lim : lim = bnProofOfWorkLimit
  OBVIOUS
<1>2. lim \in Nat /\ lim \in 0..lim /\ a \in 0..lim /\ b \in 0..lim
  BY <1>1, HeaderAssumption
<1>3. \A x \in 0..lim : b <= x => b <= Compact(x)
  BY <1>1, <1>2, CompactAssumption
<1>4. CASE fTestNet /\ time > nTargetSpacing * 2
  BY <1>1, <1>2, <1>3, <1>4 DEF ComputeMinWork
<1>5. CASE ~(fTestNet /\ time > nTargetSpacing * 2)
  <2>1. PICK span : span = nTargetTimespan * 4
    OBVIOUS
  <2>2. span \in Nat \ {0}
    BY <2>1, HeaderAssumption DEF nTargetTimespan
  <2>3. PICK q : q = (time - 1) \div span
    OBVIOUS
  <2>4. q \in Nat
    BY <2>2, <2>3
  <2>5. PICK r, y : r = q + 1 /\ y = Loosened(a, r)
    OBVIOUS
  <2>6. r \in Nat \ {0}
    BY <2>4, <2>5
  <2>7. y \in Nat /\ y >= 4 * a
    BY <1>2, <2>5, <2>6, LoosenedIs
  <2>8. PICK x : x = Min({lim, y})
    OBVIOUS
  <2>9. x = IF lim <= y THEN lim ELSE y
    BY <1>2, <2>7, <2>8, MinOfTwo
  <2>10. x \in 0..lim /\ b <= x
    BY <1>2, <2>7, <2>9
  <2>11. ~(time <= 0)
    OBVIOUS
  <2>12. ComputeMinWork(a, time) = Compact(x)
    BY <1>1, <1>5, <2>1, <2>3, <2>5, <2>8, <2>11 DEF ComputeMinWork
  <2> QED
    BY <1>3, <2>10, <2>12
<1> QED
  BY <1>4, <1>5

\* With at most one retarget between, an interval is that of the earlier block or
\* the one after it.
LEMMA NextInterval ==
  ASSUME NEW m \in Nat \ {0}, NEW n \in Nat \ {0}, m < FirstOf(n),
         (n - 1) \div nInterval - (m - 1) \div nInterval <= 1
  PROVE  FirstOf(n) - 1 \in Nat \ {0} /\ FirstOf(FirstOf(n) - 1) = FirstOf(m)
<1>1. PICK K, p, q, r, s :
        /\ K = nInterval /\ p = (m - 1) \div K /\ r = (m - 1) % K
        /\ q = (n - 1) \div K /\ s = (n - 1) % K
  OBVIOUS
<1>2. K \in Nat \ {0}
  BY <1>1, HeaderAssumption
<1>3. p \in Nat /\ r \in 0..K - 1 /\ m - 1 = K * p + r
  BY <1>1, <1>2
<1>4. q \in Nat /\ s \in 0..K - 1 /\ n - 1 = K * q + s
  BY <1>1, <1>2
<1>5. PICK f, g : f = FirstOf(n) /\ g = FirstOf(m)
  OBVIOUS
<1>6. f = n - s /\ g = m - r
  BY <1>1, <1>5 DEF FirstOf
<1>7. K * q \in Nat /\ K * p \in Nat /\ f = K * q + 1 /\ g = K * p + 1 /\ m < f /\ q - p <= 1
  BY <1>1, <1>2, <1>3, <1>4, <1>5, <1>6
<1>8. ~(q <= p)
  <2>1. q <= p => K * q <= K * p
    BY <1>2, <1>3, <1>4
  <2> QED
    BY <1>2, <1>3, <1>7, <2>1
<1>9. q = p + 1
  BY <1>3, <1>4, <1>7, <1>8
<1>10. K * q = K * p + K
  BY <1>2, <1>3, <1>9
<1>11. PICK e : e = f - 1
  OBVIOUS
<1>12. e \in Nat \ {0} /\ f = e + 1 /\ e - K + 1 = g
  BY <1>2, <1>3, <1>7, <1>10, <1>11
<1>13. f \in Nat \ {0} /\ f \in f..n /\ FirstOf(f) = f
  <2>1. f \in 1..n
    BY <1>5, FirstNext
  <2>2. f \in f..n
    BY <2>1
  <2> QED
    BY <1>5, <2>1, <2>2, SameFirst
<1>14. e % nInterval = 0
  BY <1>11, <1>13, FirstOfItself
<1>15. FirstOf(e) = e - nInterval + 1
  BY <1>12, <1>14, FirstNext
<1> QED
  BY <1>1, <1>5, <1>11, <1>12, <1>15

\* What a time and a target are.
LEMMA HeaderTypes ==
  ASSUME TargetsInv
  PROVE  /\ nBlocks \in Nat
         /\ \A i \in 1..nBlocks :
              /\ nTime[i] \in Nat
              /\ nBits[i] \in 0..bnProofOfWorkLimit /\ Compact(nBits[i]) = nBits[i]
<1>1. nBlocks \in Nat /\ \A i \in 1..nBlocks : nTime[i] \in BlockTime
  BY DEF TargetsInv, HeadersTypeOK, nBlocks
<1>2. \A i \in 1..nBlocks : nTime[i] \in Nat
  BY <1>1, HeaderAssumption
<1>3. \A i \in 1..nBlocks : nBits[i] \in 0..bnProofOfWorkLimit
  <2>1. PICK T : T = 0..bnProofOfWorkLimit
    OBVIOUS
  <2>2. nBits \in Seq(T) /\ Len(nBits) = nBlocks
    BY <2>1 DEF TargetsInv, HeadersTypeOK
  <2>3. \A i \in 1..nBlocks : nBits[i] \in T
    BY <2>2
  <2> QED
    BY <2>1, <2>3
<1> QED
  BY <1>1, <1>2, <1>3 DEF TargetsInv

\* The target of a block that is not far behind another.
LEMMA TargetNotFar ==
  ASSUME TargetsInv, NEW m \in 1..nBlocks, NEW n \in 1..nBlocks, m < n,
         \A k \in m + 1..n : nTime[k - 1] < nTime[k],
         (n - 1) \div nInterval - (m - 1) \div nInterval <= 1,
         ~(fTestNet /\ nTime[n] - nTime[m] > nTargetSpacing * 2)
  PROVE  nBits[n] <= 4 * nBits[m]
<1>1. PICK a, b, f, g : a = nBits[m] /\ b = nBits[n] /\ f = FirstOf(n) /\ g = FirstOf(m)
  OBVIOUS
<1>2. nBlocks \in Nat /\ m \in Nat \ {0} /\ n \in Nat \ {0}
  BY DEF TargetsInv, HeadersTypeOK, nBlocks
<1>3. PICK lim, w : lim = bnProofOfWorkLimit /\ w = LeastWork
  OBVIOUS
<1>4. lim \in Nat /\ w \in 0..lim /\ a \in 0..lim /\ b \in 0..lim /\ Compact(b) = b
  BY <1>1, <1>2, <1>3, LimitIsTarget, HeaderTypes
<1>5. b <= w
  <2>1. b \in 0..lim /\ lim \in 0..lim /\ b <= lim
    BY <1>4
  <2>2. Compact(b) <= Compact(lim)
    BY <1>3, <2>1, CompactAssumption
  <2> QED
    BY <1>3, <1>4, <2>2 DEF LeastWork
<1>6. ASSUME NEW k \in m + 1..n PROVE nBits[k] = nBits[FirstOf(k)]
  <2>1. /\ k \in 1..nBlocks /\ k - 1 \in m..n
        /\ k \in k..n /\ k \in m..n /\ m \in m..n /\ n \in k..n
    BY <1>2
  <2>2. \A i \in m..n : nTime[i] \in Nat
    BY <1>2, HeaderTypes
  <2>0. \A i \in m + 1..n : nTime[i - 1] <= nTime[i]
    BY <1>2, <2>2
  <2>3. nTime[m] <= nTime[k - 1] /\ nTime[k] <= nTime[n]
    BY <1>2, <2>1, <2>2, <2>0, StepsUp
  <2>4. PICK s, t, u, v, sp :
          /\ s = nTime[m] /\ t = nTime[k - 1] /\ u = nTime[k] /\ v = nTime[n]
          /\ sp = nTargetSpacing
    OBVIOUS
  <2>5. s \in Nat /\ t \in Nat /\ u \in Nat /\ v \in Nat /\ s <= t /\ u <= v /\ sp \in Nat
    BY <1>2, <2>1, <2>2, <2>3, <2>4, HeaderAssumption
  <2>6. u > t + sp * 2 => v - s > sp * 2
    BY <2>5
  <2>7. ~(fTestNet /\ IsLate(k - 1, nTime[k]))
    BY <2>4, <2>6 DEF IsLate
  <2>8. Regular(k)
    BY <2>1 DEF TargetsInv
  <2> QED
    BY <2>7, <2>8 DEF Regular
<1>7. b = nBits[f]
  BY <1>1, <1>2, <1>6
<1>8. CASE a = w
  BY <1>1, <1>4, <1>5, <1>8
<1>9. CASE a # w
  <2>1. a = nBits[g]
    BY <1>1, <1>3, <1>9 DEF TargetsInv, Regular
  <2>2. f \in 1..n
    BY <1>1, <1>2, FirstNext
  <2>3. CASE f <= m
    <3>1. m \in f..n
      BY <1>2, <2>2, <2>3
    <3>2. g = f
      BY <1>1, <1>2, <3>1, SameFirst
    <3> QED
      BY <1>1, <1>4, <1>7, <2>1, <3>2
  <2>4. CASE m < f
    <3>1. PICK e : e = f - 1
      OBVIOUS
    <3>2. e \in Nat \ {0} /\ FirstOf(e) = g
      BY <1>1, <1>2, <2>4, <3>1, NextInterval
    <3>3. e \in m..n /\ f \in 2..nBlocks /\ (e = m \/ e \in m + 1..n)
      BY <1>2, <2>2, <2>4, <3>1
    <3>4. nBits[e] = a
      BY <1>1, <1>6, <2>1, <3>2, <3>3
    <3>5. FirstOf(f) = f
      <4>1. f \in f..n
        BY <2>2
      <4> QED
        BY <1>1, <1>2, <4>1, SameFirst
    <3>6. Near(nBits[e], nBits[f])
      BY <3>1, <3>3, <3>5 DEF TargetsInv
    <3> QED
      BY <1>1, <1>7, <3>4, <3>6 DEF Near
  <2> QED
    BY <1>2, <2>2, <2>3, <2>4
<1> QED
  BY <1>8, <1>9

(* The bound of ComputeMinWork is never too strict: whatever the network,  *)
(* the length of the interval and the times, no block that AcceptBlock     *)
(* takes soon after a checkpoint has a target above it.                    *)
THEOREM MinWorkNeverTooStrict == HeadersSpec => []NoValidBlockIsTooEasy
<1>1. TargetsInv => NoValidBlockIsTooEasy
  <2> SUFFICES ASSUME TargetsInv, NEW m \in 1..nBlocks, NEW n \in 1..nBlocks, m < n,
                      \A k \in m + 1..n : nTime[k - 1] < nTime[k],
                      (n - 1) \div nInterval - (m - 1) \div nInterval <= 1
               PROVE  nBits[n] <= ComputeMinWork(nBits[m], nTime[n] - nTime[m])
    BY DEF NoValidBlockIsTooEasy
  <2>1. PICK a, b, time : a = nBits[m] /\ b = nBits[n] /\ time = nTime[n] - nTime[m]
    OBVIOUS
  <2>2. nBlocks \in Nat
    BY DEF TargetsInv, HeadersTypeOK, nBlocks
  <2>3. \A i \in m..n : nTime[i] \in Nat
    BY <2>2, HeaderTypes
  <2>4. time \in Nat \ {0}
    <3>1. /\ m + 1 \in m..n /\ m \in m..n /\ (m + 1) - 1 = m
          /\ n \in m + 1..n /\ m + 1 \in m + 1..n
      BY <2>2
    <3>2. nTime[m + 1] <= nTime[n]
      <4>1. m \in Nat /\ n \in Nat /\ m + 1 \in m..n /\ n \in (m + 1)..n
        BY <2>2, <3>1
      <4>2. PICK times : times = nTime
        OBVIOUS
      <4>3. /\ \A k \in m..n : times[k] \in Nat
            /\ \A k \in m + 1..n : times[k - 1] <= times[k]
        BY <2>2, <2>3, <4>2
      <4>4. times[m + 1] <= times[n]
        BY <4>1, <4>3, StepsUp
      <4> QED
        BY <4>2, <4>4
    <3>3. nTime[m] < nTime[m + 1]
      BY <3>1
    <3>4. PICK s, t, u : s = nTime[m] /\ t = nTime[m + 1] /\ u = nTime[n]
      OBVIOUS
    <3>5. s \in Nat /\ t \in Nat /\ u \in Nat /\ s < t /\ t <= u
      BY <2>2, <2>3, <3>1, <3>2, <3>3, <3>4
    <3> QED
      BY <2>1, <3>4, <3>5
  <2>5. a \in 0..bnProofOfWorkLimit /\ b \in 0..bnProofOfWorkLimit /\ Compact(b) = b
    BY <2>1, <2>2, HeaderTypes
  <2>6. CASE fTestNet /\ time > nTargetSpacing * 2
    <3>1. ComputeMinWork(a, time) = Compact(bnProofOfWorkLimit)
      BY <2>6 DEF ComputeMinWork
    <3>2. bnProofOfWorkLimit \in Nat /\ bnProofOfWorkLimit \in 0..bnProofOfWorkLimit
      BY LimitIsTarget
    <3>3. Compact(b) <= Compact(bnProofOfWorkLimit)
      BY <2>5, <3>2, CompactAssumption
    <3> QED
      BY <2>1, <2>5, <3>1, <3>3
  <2>7. CASE ~(fTestNet /\ time > nTargetSpacing * 2)
    <3>1. b <= 4 * a
      BY <2>1, <2>7, TargetNotFar
    <3> QED
      BY <2>1, <2>4, <2>5, <3>1, MinWorkIs
  <2> QED
    BY <2>6, <2>7
<1> QED
  BY <1>1, TargetsInvariant, PTL

-----------------------------------------------------------------------------
(* Median times, for any sequence of times.                                *)

Window(n) == {i \in 1..n : i > n - nMedianTimeSpan}
Before(time, n, t) == {i \in Window(n) : time[i] < t}
NotAfter(time, n, t) == {i \in Window(n) : time[i] <= t}

IsMedian(time, n, t) ==
  /\ t \in {time[i] : i \in Window(n)}
  /\ Cardinality(Before(time, n, t)) <= Cardinality(Window(n)) \div 2
  /\ Cardinality(NotAfter(time, n, t)) > Cardinality(Window(n)) \div 2

MedianOf(time, n) ==
  CHOOSE t \in {time[i] : i \in Window(n)} :
    /\ Cardinality(Before(time, n, t)) <= Cardinality(Window(n)) \div 2
    /\ Cardinality(NotAfter(time, n, t)) > Cardinality(Window(n)) \div 2

\* One of finitely many blocks is the latest: one that most blocks are not after.
LEMMA LatestExists ==
  ASSUME NEW n \in Nat, NEW S, S \subseteq 1..n, S # {}, NEW f, \A i \in S : f[i] \in Nat
  PROVE  \E i \in S : \A j \in S : f[j] <= f[i]
<1> DEFINE upTo(i) == {j \in S : f[j] <= f[i]}
           Counts == {Cardinality(upTo(i)) : i \in S}
<1>1. ASSUME NEW T, T \subseteq 1..n
      PROVE  IsFiniteSet(T) /\ Cardinality(T) \in 0..n
  <2>1. IsFiniteSet(1..n) /\ Cardinality(1..n) = n
    BY FS_Interval
  <2>2. IsFiniteSet(T) /\ Cardinality(T) <= Cardinality(1..n)
    BY <1>1, <2>1, FS_Subset
  <2>3. Cardinality(T) \in Nat
    BY <2>2, FS_CardinalityType
  <2> QED
    BY <2>1, <2>2, <2>3
<1>2. Counts \subseteq 0..n /\ Counts # {}
  <2>1. ASSUME NEW i \in S PROVE Cardinality(upTo(i)) \in 0..n
    <3>1. upTo(i) \subseteq 1..n
      OBVIOUS
    <3> HIDE DEF upTo
    <3> QED
      BY <1>1, <3>1
  <2> QED
    BY <2>1
<1>3. PICK c \in Counts : \A k \in Counts : k <= c
  <2> HIDE DEF Counts
  <2> QED
    BY <1>2, GreatestExists
<1>4. PICK i \in S : c = Cardinality(upTo(i))
  BY <1>3
<1>5. ASSUME NEW j \in S, f[j] > f[i] PROVE FALSE
  <2>1. \A k \in S : f[k] \in Nat
    OBVIOUS
  <2>2. upTo(i) \subseteq upTo(j) /\ j \in upTo(j) /\ j \notin upTo(i)
    <3>1. PICK a \in Nat, b \in Nat : a = f[i] /\ b = f[j] /\ b > a
      BY <1>5, <2>1
    <3>2. \A x \in Nat : x <= a => x <= b
      BY <3>1
    <3>3. upTo(i) \subseteq upTo(j)
      BY <2>1, <3>1, <3>2
    <3>4. b <= b /\ ~(b <= a)
      BY <3>1
    <3> QED
      BY <3>1, <3>3, <3>4
  <2>3. upTo(i) \subseteq 1..n /\ upTo(j) \subseteq 1..n /\ Cardinality(upTo(j)) \in Counts
    OBVIOUS
  <2>4. PICK A, B : A = upTo(i) /\ B = upTo(j)
    OBVIOUS
  <2> HIDE DEF upTo, Counts
  <2>5. Cardinality(A) <= Cardinality(B) /\ Cardinality(A) # Cardinality(B)
    <3>1. IsFiniteSet(B) /\ A \in SUBSET B /\ A # B
      BY <1>1, <2>2, <2>3, <2>4
    <3> QED
      BY <3>1, FS_Subset
  <2>6. Cardinality(A) \in 0..n /\ Cardinality(B) \in 0..n
    BY <1>1, <2>3, <2>4
  <2>7. Cardinality(B) <= Cardinality(A)
    BY <1>3, <1>4, <2>3, <2>4
  <2> QED
    BY <2>5, <2>6, <2>7
<1>6. \A j \in S : f[j] <= f[i]
  <2>1. \A k \in S : f[k] \in Nat
    OBVIOUS
  <2> QED
    BY <1>5, <2>1
<1> QED
  BY <1>6

\* What the counts of a window are.
LEMMA WindowCounts ==
  ASSUME NEW n \in Nat \ {0}, NEW time, NEW t
  PROVE  /\ Window(n) \subseteq 1..n /\ n \in Window(n)
         /\ IsFiniteSet(Window(n)) /\ Cardinality(Window(n)) \in Nat \ {0}
         /\ IsFiniteSet(Before(time, n, t)) /\ Cardinality(Before(time, n, t)) \in Nat
         /\ IsFiniteSet(NotAfter(time, n, t)) /\ Cardinality(NotAfter(time, n, t)) \in Nat
<1>1. Window(n) \subseteq 1..n /\ n \in Window(n)
  BY HeaderAssumption DEF Window
<1>2. Before(time, n, t) \subseteq 1..n /\ NotAfter(time, n, t) \subseteq 1..n
  BY <1>1 DEF Before, NotAfter
<1>3. IsFiniteSet(Window(n)) /\ Cardinality(Window(n)) \in Nat
  BY <1>1, CountIsNat
<1>4. Cardinality(Window(n)) # 0
  BY <1>1, <1>3, FS_EmptySet
<1> QED
  BY <1>1, <1>2, <1>3, <1>4, CountIsNat

\* There is a median: the least time that more than half of the blocks are not after.
LEMMA MedianExists ==
  ASSUME NEW time, NEW n \in Nat \ {0}, \A i \in 1..n : time[i] \in Nat
  PROVE  IsMedian(time, n, MedianOf(time, n))
<1> DEFINE V == {time[i] : i \in Window(n)}
           h == Cardinality(Window(n)) \div 2
           U == {t \in V : Cardinality(NotAfter(time, n, t)) > h}
<1>1. /\ Window(n) \subseteq 1..n /\ n \in Window(n)
      /\ IsFiniteSet(Window(n)) /\ Cardinality(Window(n)) \in Nat \ {0}
  BY WindowCounts
<1>2. V \subseteq Nat
  BY <1>1
<1>3. U # {}
  <2>1. PICK i \in Window(n) : \A j \in Window(n) : time[j] <= time[i]
    <3>1. \A j \in Window(n) : time[j] \in Nat
      BY <1>1
    <3>2. Window(n) # {}
      BY <1>1
    <3> QED
      BY <1>1, <3>1, <3>2, LatestExists
  <2>2. NotAfter(time, n, time[i]) = Window(n)
    BY <2>1 DEF NotAfter
  <2>3. Cardinality(Window(n)) > h
    BY <1>1
  <2>4. time[i] \in V
    BY <2>1
  <2> QED
    BY <2>2, <2>3, <2>4
<1>4. PICK m \in U : \A k \in U : m <= k
  <2>1. U \subseteq Nat
    BY <1>2
  <2> HIDE DEF U
  <2> QED
    BY <1>3, <2>1, LeastExists
<1>5. ASSUME Cardinality(Before(time, n, m)) > h PROVE FALSE
  <2>1. h \in Nat
    BY <1>1
  <2>2. Before(time, n, m) # {}
    <3>1. Before(time, n, m) = {} => Cardinality(Before(time, n, m)) = 0
      BY FS_EmptySet
    <3> HIDE DEF h
    <3> QED
      BY <1>5, <2>1, <3>1
  <2>3. PICK i \in Before(time, n, m) : \A j \in Before(time, n, m) : time[j] <= time[i]
    <3>1. Before(time, n, m) \subseteq 1..n
      BY <1>1 DEF Before
    <3>2. \A j \in Before(time, n, m) : time[j] \in Nat
      BY <3>1
    <3> QED
      BY <2>2, <3>1, <3>2, LatestExists
  <2>4. time[i] < m /\ i \in Window(n) /\ time[i] \in V
    BY <2>3 DEF Before
  <2>5. Before(time, n, m) \subseteq NotAfter(time, n, time[i])
    BY <2>3 DEF Before, NotAfter
  <2>6. Cardinality(Before(time, n, m)) <= Cardinality(NotAfter(time, n, time[i]))
    BY <2>5, WindowCounts, FS_Subset
  <2>7. Cardinality(NotAfter(time, n, time[i])) > h
    <3>1. /\ Cardinality(Before(time, n, m)) \in Nat
          /\ Cardinality(NotAfter(time, n, time[i])) \in Nat
      BY WindowCounts
    <3> HIDE DEF h
    <3> QED
      BY <1>5, <2>1, <2>6, <3>1
  <2>8. time[i] \in U
    BY <2>4, <2>7
  <2>9. time[i] \in Nat /\ m \in Nat
    BY <1>2, <1>4, <2>4
  <2> HIDE DEF U
  <2> QED
    BY <1>4, <2>4, <2>8, <2>9
<1>6. m \in V /\ Cardinality(NotAfter(time, n, m)) > h
  BY <1>4
<1>7. Cardinality(Before(time, n, m)) <= h
  <2>1. Cardinality(Before(time, n, m)) \in Nat /\ h \in Nat
    BY <1>1, WindowCounts
  <2> HIDE DEF h
  <2> QED
    BY <1>5, <2>1
<1> QED
  BY <1>6, <1>7 DEF MedianOf, IsMedian

\* Of two times with more than half of the blocks not after the one, and at most half
\* before the other, the other is not later.
LEMMA MedianIsUnique ==
  ASSUME NEW time, NEW n \in Nat \ {0}, \A i \in 1..n : time[i] \in Nat,
         NEW t, NEW u, IsMedian(time, n, t), IsMedian(time, n, u)
  PROVE  t = u
<1>1. t \in Nat /\ u \in Nat
  BY WindowCounts DEF IsMedian
<1>2. ASSUME NEW a \in Nat, NEW b \in Nat, IsMedian(time, n, a), IsMedian(time, n, b), a < b
      PROVE  FALSE
  <2>1. NotAfter(time, n, a) \subseteq Before(time, n, b)
    <3>1. \A i \in Window(n) : time[i] \in Nat
      BY WindowCounts
    <3> QED
      BY <1>2, <3>1 DEF NotAfter, Before
  <2>2. Cardinality(NotAfter(time, n, a)) <= Cardinality(Before(time, n, b))
    BY <2>1, WindowCounts, FS_Subset
  <2>3. /\ Cardinality(NotAfter(time, n, a)) \in Nat /\ Cardinality(Before(time, n, b)) \in Nat
        /\ Cardinality(Window(n)) \in Nat
    BY WindowCounts
  <2>4. PICK half \in Nat : half = Cardinality(Window(n)) \div 2
    BY <2>3
  <2> QED
    BY <1>2, <2>2, <2>3, <2>4 DEF IsMedian
<1> QED
  BY <1>1, <1>2

\* The median is that of the times up to the block.
LEMMA MedianOfPrefix ==
  ASSUME NEW time, NEW more, NEW n \in Nat \ {0},
         \A i \in 1..n : time[i] \in Nat /\ more[i] = time[i]
  PROVE  MedianOf(more, n) = MedianOf(time, n)
<1>1. \A i \in Window(n) : more[i] = time[i]
  BY WindowCounts
<1>2. /\ {more[i] : i \in Window(n)} = {time[i] : i \in Window(n)}
      /\ \A t : Before(more, n, t) = Before(time, n, t)
      /\ \A t : NotAfter(more, n, t) = NotAfter(time, n, t)
  BY <1>1 DEF Before, NotAfter
<1>3. IsMedian(more, n, MedianOf(more, n)) /\ IsMedian(time, n, MedianOf(time, n))
  BY MedianExists
<1>4. IsMedian(time, n, MedianOf(more, n))
  BY <1>2, <1>3 DEF IsMedian
<1> QED
  BY <1>3, <1>4, MedianIsUnique

\* A block with a time after the median moves the window, and not the median down.
LEMMA MedianMovesUp ==
  ASSUME NEW time, NEW n \in Nat \ {0}, \A i \in 1..n + 1 : time[i] \in Nat,
         time[n + 1] > MedianOf(time, n)
  PROVE  MedianOf(time, n + 1) >= MedianOf(time, n)
<1>1. PICK next, m, u :
        next = n + 1 /\ m = MedianOf(time, n) /\ u = MedianOf(time, next)
  OBVIOUS
<1>2. next \in Nat \ {0} /\ IsMedian(time, n, m) /\ IsMedian(time, next, u)
  BY <1>1, MedianExists
<1>3. m \in Nat /\ u \in Nat
  BY <1>1, <1>2, WindowCounts DEF IsMedian
<1>4. ASSUME u < m PROVE FALSE
  <2>1. NotAfter(time, next, u) \subseteq Before(time, n, m)
    <3> SUFFICES ASSUME NEW i \in NotAfter(time, next, u) PROVE i \in Before(time, n, m)
      OBVIOUS
    <3>1. i \in 1..next /\ i > next - nMedianTimeSpan /\ time[i] <= u
      BY DEF NotAfter, Window
    <3>2. i # next /\ time[i] \in Nat
      BY <1>1, <1>3, <1>4, <3>1
    <3>3. i \in Window(n)
      BY <1>1, <3>1, <3>2, HeaderAssumption DEF Window
    <3>4. time[i] < m
      BY <1>3, <1>4, <3>1, <3>2
    <3> QED
      BY <3>3, <3>4 DEF Before
  <2>2. Cardinality(NotAfter(time, next, u)) <= Cardinality(Before(time, n, m))
    BY <1>2, <2>1, WindowCounts, FS_Subset
  <2>3. Cardinality(Window(next)) >= Cardinality(Window(n))
    <3>1. PICK K \in Nat \ {0} : K = nMedianTimeSpan
      BY HeaderAssumption
    <3>2. PICK old, new : old = Window(n) /\ new = Window(next)
      OBVIOUS
    <3>3. old \in SUBSET {i \in 1..n : i > n - K}
      BY <3>1, <3>2 DEF Window
    <3>4. new = (old \ {n + 1 - K}) \cup {n + 1}
      BY <1>1, <3>1, <3>2 DEF Window
    <3>5. Cardinality(new) >= Cardinality(old)
      BY <3>1, <3>3, <3>4, WindowMoves
    <3> QED
      BY <3>2, <3>5
  <2>4. PICK a, b, c, d :
          /\ a = Cardinality(NotAfter(time, next, u)) /\ b = Cardinality(Before(time, n, m))
          /\ c = Cardinality(Window(next)) /\ d = Cardinality(Window(n))
    OBVIOUS
  <2>5. a \in Nat /\ b \in Nat /\ c \in Nat /\ d \in Nat
    BY <1>2, <2>4, WindowCounts
  <2>6. a > c \div 2 /\ b <= d \div 2
    BY <1>2, <2>4 DEF IsMedian
  <2> QED
    BY <2>2, <2>3, <2>4, <2>5, <2>6
<1> QED
  BY <1>1, <1>3, <1>4

MediansInv ==
  /\ nTime \in Seq(Nat) /\ nBlocks > 0
  /\ MedianTimeNeverFalls

LEMMA MediansStep ==
  ASSUME MediansInv, NEW t \in BlockTime, NEW v \in {1, 2}, NEW height \in BOOLEAN,
         AcceptBlock(t, v, height)
  PROVE  MediansInv'
<1>1. PICK n, old, new : n = nBlocks /\ old = nTime /\ new = nTime'
  OBVIOUS
<1>2. /\ n \in Nat \ {0} /\ new \in Seq(Nat) /\ Len(new) = n + 1
      /\ \A i \in 1..n : old[i] \in Nat /\ new[i] = old[i]
      /\ \A i \in 1..n + 1 : new[i] \in Nat
      /\ new[n + 1] = t
  <2>1. t \in Nat
    BY HeaderAssumption
  <2>2. old \in Seq(Nat) /\ n = Len(old) /\ n > 0 /\ new = Append(old, t)
    BY <1>1 DEF AcceptBlock, MediansInv, nBlocks
  <2> QED
    BY <2>1, <2>2
<1>3. /\ \A i : GetMedianTimePast(i) = MedianOf(old, i)
      /\ \A i : GetMedianTimePast(i)' = MedianOf(new, i)
  BY <1>1 DEF GetMedianTimePast, MedianOf, Before, NotAfter, Window
<1>4. ASSUME NEW i \in 1..n PROVE MedianOf(new, i) = MedianOf(old, i)
  <2>1. i \in Nat \ {0} /\ \A j \in 1..i : old[j] \in Nat /\ new[j] = old[j]
    BY <1>2
  <2> QED
    BY <2>1, MedianOfPrefix
<1>5. MedianOf(new, n + 1) >= MedianOf(new, n)
  <2>1. t > MedianOf(old, n)
    BY <1>1, <1>3 DEF AcceptBlock
  <2>2. new[n + 1] > MedianOf(new, n)
    BY <1>2, <1>4, <2>1
  <2> QED
    BY <1>2, <2>2, MedianMovesUp
<1>6. ASSUME NEW i \in 2..n + 1 PROVE MedianOf(new, i) >= MedianOf(new, i - 1)
  <2>1. CASE i = n + 1
    <3>1. i - 1 = n
      BY <1>2, <2>1
    <3> QED
      BY <1>5, <2>1, <3>1
  <2>2. CASE i # n + 1
    <3>1. i \in 2..n /\ i \in 1..n /\ i - 1 \in 1..n
      BY <1>2, <2>2
    <3>2. MedianOf(old, i) >= MedianOf(old, i - 1)
      BY <1>1, <1>3, <3>1 DEF MediansInv, MedianTimeNeverFalls
    <3> QED
      BY <1>4, <3>1, <3>2
  <2> QED
    BY <2>1, <2>2
<1>7. nBlocks' = n + 1
  BY <1>1, <1>2 DEF nBlocks
<1>8. MedianTimeNeverFalls'
  BY <1>3, <1>6, <1>7 DEF MedianTimeNeverFalls
<1> QED
  BY <1>1, <1>2, <1>7, <1>8 DEF MediansInv

(* A block may come with a time before that of its parent, but not before  *)
(* the median of the last ones: whatever times leave the window, the       *)
(* median never falls, for every length of the window.                     *)
THEOREM MedianTimeNeverFell == HeadersSpec => []MedianTimeNeverFalls
<1>1. HeadersInit => MediansInv
  <2> SUFFICES ASSUME HeadersInit PROVE MediansInv
    OBVIOUS
  <2>1. PICK t \in BlockTime : nTime = <<t>>
    BY DEF HeadersInit
  <2>2. t \in Nat
    BY HeaderAssumption
  <2>3. nTime \in Seq(Nat) /\ nBlocks = 1
    BY <2>1, <2>2 DEF nBlocks
  <2> QED
    BY <2>3 DEF MediansInv, MedianTimeNeverFalls
<1>2. MediansInv /\ [HeadersNext]_headerVars => MediansInv'
  <2> SUFFICES ASSUME MediansInv, [HeadersNext]_headerVars PROVE MediansInv'
    OBVIOUS
  <2>1. CASE HeadersNext
    BY <2>1, MediansStep DEF HeadersNext
  <2>2. CASE UNCHANGED headerVars
    <3>1. nTime' = nTime /\ nBlocks' = nBlocks
      BY <2>2 DEF headerVars, nBlocks
    <3>2. ASSUME NEW n PROVE GetMedianTimePast(n)' = GetMedianTimePast(n)
      <4>1. PICK new : new = nTime'
        OBVIOUS
      <4>2. GetMedianTimePast(n)' = MedianOf(new, n)
        BY <4>1 DEF GetMedianTimePast, MedianOf, Before, NotAfter, Window
      <4>3. GetMedianTimePast(n) = MedianOf(nTime, n)
        BY DEF GetMedianTimePast, MedianOf, Before, NotAfter, Window
      <4> QED
        BY <3>1, <4>1, <4>2, <4>3
    <3> QED
      BY <3>1, <3>2 DEF MediansInv, MedianTimeNeverFalls
  <2> QED
    BY <2>1, <2>2
<1>3. MediansInv => MedianTimeNeverFalls
  BY DEF MediansInv
<1> QED
  BY <1>1, <1>2, <1>3, PTL DEF HeadersSpec

-----------------------------------------------------------------------------
(* The upgrade.                                                            *)

VersionsOK ==
  /\ fTestNet \in BOOLEAN
  /\ nTime \in Seq(BlockTime) /\ nBlocks > 0
  /\ nVersion \in Seq({1, 2}) /\ Len(nVersion) = nBlocks
  /\ fHeight \in Seq(BOOLEAN) /\ Len(fHeight) = nBlocks

Majority(n) == IsSuperMajority(nReject[fTestNet], n)

MajorityLasts == \A m \in 1..nBlocks : Majority(m) => Majority(nBlocks)

UpgradeInv == VersionsOK /\ MajorityLasts /\ UpgradeIsFinal

LEMMA UpgradeInitOK == HeadersInit => UpgradeInv
<1> SUFFICES ASSUME HeadersInit PROVE UpgradeInv
  OBVIOUS
<1>1. PICK t \in BlockTime : nTime = <<t>>
  BY DEF HeadersInit
<1>2. fTestNet \in BOOLEAN /\ nVersion = <<1>> /\ fHeight = <<FALSE>>
  BY DEF HeadersInit
<1>3. VersionsOK /\ nBlocks = 1
  BY <1>1, <1>2 DEF VersionsOK, nBlocks
<1> QED
  BY <1>3 DEF UpgradeInv, MajorityLasts, UpgradeIsFinal

LEMMA UpgradeStep ==
  ASSUME UpgradeInv, NEW t \in BlockTime, NEW v \in {1, 2}, NEW height \in BOOLEAN,
         AcceptBlock(t, v, height)
  PROVE  UpgradeInv'
<1>0. PICK n : n = nBlocks
  OBVIOUS
<1> DEFINE K == nToCheck[fTestNet]
           counted(m) == {i \in 1..m : i > m - K /\ nVersion[i] >= 2}
<1>1. /\ n \in Nat \ {0} /\ K \in Nat /\ nReject[fTestNet] \in Nat
      /\ nEnforce[fTestNet] \in Nat /\ nEnforce[fTestNet] <= nReject[fTestNet]
  BY <1>0, MajorityAssumption DEF UpgradeInv, VersionsOK, nBlocks
<1>2. /\ VersionsOK' /\ nBlocks' = n + 1 /\ fTestNet' = fTestNet
      /\ \A i \in 1..n : nVersion'[i] = nVersion[i] /\ fHeight'[i] = fHeight[i]
      /\ nVersion'[n + 1] = v /\ fHeight'[n + 1] = height
  BY <1>0 DEF AcceptBlock, UpgradeInv, VersionsOK, nBlocks
<1>3. ASSUME NEW m \in 1..n PROVE nFound(m) = Cardinality(counted(m)) /\ nFound(m)' = nFound(m)
  <2>1. {i \in 1..m : i > m - K /\ nVersion'[i] >= 2} = counted(m)
    BY <1>1, <1>2
  <2> QED
    BY <1>2, <2>1 DEF nFound
<1>4. ASSUME Majority(n) PROVE v = 2 /\ height
  <2>1. n \in 1..n /\ nFound(n) \in Nat
    <3>1. counted(n) \subseteq 1..n
      OBVIOUS
    <3>2. PICK S : S = counted(n)
      OBVIOUS
    <3>3. Cardinality(S) \in Nat
      BY <1>1, <3>1, <3>2, CountIsNat
    <3> QED
      BY <1>1, <1>3, <3>2, <3>3
  <2>2. IsSuperMajority(nEnforce[fTestNet], n)
    BY <1>1, <1>4, <2>1 DEF Majority, IsSuperMajority
  <2> QED
    BY <1>0, <1>4, <2>2 DEF AcceptBlock, VersionAllowed, Majority
<1>5. ASSUME Majority(n) PROVE Majority(n + 1)'
  <2> DEFINE T == {i \in 1..n + 1 : i > n + 1 - K /\ nVersion'[i] >= 2}
  <2>1. T = IF K = 0 THEN {} ELSE (counted(n) \ {n + 1 - K}) \cup {n + 1}
    BY <1>1, <1>2, <1>4, <1>5
  <2>2. Cardinality(T) \in Nat /\ Cardinality(T) >= Cardinality(counted(n))
    <3>1. PICK old, new, k, last :
            old = counted(n) /\ new = T /\ k = K /\ last = n
      OBVIOUS
    <3>2. /\ old \in SUBSET {i \in 1..last : i > last - k} /\ last \in Nat /\ k \in Nat
          /\ new = IF k = 0 THEN {} ELSE (old \ {last + 1 - k}) \cup {last + 1}
      BY <1>1, <2>1, <3>1
    <3>3. Cardinality(new) \in Nat /\ Cardinality(new) >= Cardinality(old)
      BY <3>2, WindowMoves, ZenonT(60)
    <3> QED
      BY <3>1, <3>3
  <2>3. Cardinality(counted(n)) \in Nat /\ Cardinality(counted(n)) >= nReject[fTestNet]
    <3>1. counted(n) \subseteq 1..n /\ n \in 1..n
      BY <1>1
    <3>2. nFound(n) >= nReject[fTestNet]
      BY <1>5 DEF Majority, IsSuperMajority
    <3>3. PICK S : S = counted(n)
      OBVIOUS
    <3>4. Cardinality(S) \in Nat
      BY <1>1, <3>1, <3>3, CountIsNat
    <3> QED
      BY <1>1, <1>3, <3>1, <3>2, <3>3, <3>4
  <2>4. PICK next : next = n + 1
    OBVIOUS
  <2>5. nFound(next)' = Cardinality(T)
    <3>1. {i \in 1..next : i > next - K /\ nVersion'[i] >= 2} = T
      BY <1>1, <2>4
    <3> QED
      BY <1>2, <3>1 DEF nFound
  <2>6. nFound(next)' >= nReject[fTestNet]
    BY <1>1, <2>2, <2>3, <2>5
  <2> QED
    BY <1>2, <2>4, <2>6 DEF Majority, IsSuperMajority
<1>6. ASSUME NEW m \in 1..n, Majority(m)' PROVE Majority(n)
  <2>1. Majority(m)
    BY <1>2, <1>3, <1>6 DEF Majority, IsSuperMajority
  <2> QED
    BY <1>0, <2>1 DEF UpgradeInv, MajorityLasts
<1>7. MajorityLasts'
  BY <1>1, <1>2, <1>5, <1>6 DEF MajorityLasts
<1>8. UpgradeIsFinal'
  <2> SUFFICES ASSUME NEW m \in 1..n + 1, NEW k \in 1..n + 1, m < k, Majority(m)'
               PROVE  nVersion'[k] = 2 /\ fHeight'[k]
    BY <1>2 DEF UpgradeIsFinal, Majority
  <2>1. m \in 1..n
    BY <1>1
  <2>2. CASE k = n + 1
    BY <1>2, <1>4, <1>6, <2>1, <2>2
  <2>3. CASE k \in 1..n
    <3>1. Majority(m)
      BY <1>2, <1>3, <2>1 DEF Majority, IsSuperMajority
    <3> QED
      BY <1>0, <1>2, <2>1, <2>3, <3>1 DEF UpgradeInv, UpgradeIsFinal, Majority
  <2> QED
    BY <1>1, <2>2, <2>3
<1> QED
  BY <1>2, <1>7, <1>8 DEF UpgradeInv

(* Once version 1 blocks are rejected they are so for good, and every      *)
(* later block has its height in the coinbase, whatever majorities are     *)
(* asked for and over however many blocks AcceptBlock counts them.         *)
THEOREM UpgradeStaysFinal == HeadersSpec => []UpgradeIsFinal
<1>1. UpgradeInv /\ [HeadersNext]_headerVars => UpgradeInv'
  <2> SUFFICES ASSUME UpgradeInv, [HeadersNext]_headerVars PROVE UpgradeInv'
    OBVIOUS
  <2>1. CASE HeadersNext
    BY <2>1, UpgradeStep DEF HeadersNext
  <2>2. CASE UNCHANGED headerVars
    BY <2>2 DEF headerVars, UpgradeInv, VersionsOK, MajorityLasts, UpgradeIsFinal, Majority,
                IsSuperMajority, nFound, nBlocks
  <2> QED
    BY <2>1, <2>2
<1>2. UpgradeInv => UpgradeIsFinal
  BY DEF UpgradeInv
<1> QED
  BY <1>1, <1>2, UpgradeInitOK, PTL DEF HeadersSpec

=============================================================================
