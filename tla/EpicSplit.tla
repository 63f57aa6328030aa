------------------------------ MODULE EpicSplit ------------------------------
(***************************************************************************)
(* How set_pools_config of ePIC (asic-rs-firmwares/epic, v1) splits the    *)
(* hashrate among two or three groups of pools, in hundredths.             *)
(***************************************************************************)
EXTENDS Integers, Sequences, Functions

CONSTANTS
  Quotas,   \* the quotas considered
  U32       \* how many values a u32 has: 2^32

ASSUME QuotaAssumption == U32 \in Nat \ {0} /\ Quotas \subseteq 0..(U32 - 1)

(* A quota of zero counts as one. *)
Weights(quotas) ==
  [g \in DOMAIN quotas |-> IF quotas[g] = 0 THEN 1 ELSE quotas[g]]

(* The sum is a u32 and wraps around in a release build (a debug build     *)
(* panics there).                                                          *)
TotalQuota(quotas) == SumFunction(Weights(quotas)) % U32

(* A share in hundredths, rounded half up.  The code computes it in f64,   *)
(* where an exact half may fall on either side: what is said below of the  *)
(* shares leaves room for that.  Of a total of zero the share is infinite, *)
(* and as a u32 the largest there is.                                      *)
Rounded(weight, total) ==
  IF total = 0 THEN U32 - 1 ELSE (200 * weight + total) \div (2 * total)

(* The last group is rounded like the others. *)
EpicRatiosRounded(quotas) ==
  LET total == TotalQuota(quotas)
  IN  [g \in DOMAIN quotas |-> Rounded(Weights(quotas)[g], total)]

(* The share of each group is rounded, never more than what is left, and   *)
(* the last one takes the rest.                                            *)
EpicRatios(quotas) ==
  LET total == TotalQuota(quotas)
      Ratios[g \in 0..Len(quotas)] ==
        IF g = 0 THEN << >>
        ELSE LET left == 100 - SumFunction(Ratios[g - 1])
                 share == Rounded(Weights(quotas)[g], total)
             IN  Append(Ratios[g - 1],
                        IF g = Len(quotas) \/ share > left THEN left ELSE share)
  IN  Ratios[Len(quotas)]

-----------------------------------------------------------------------------
(* Each ratio is the share of its weight to within one hundredth: a group  *)
(* gets nothing only if that is all it should have.                        *)
AreShares(ratios, weights) ==
  LET total == SumFunction(weights)
  IN  \A g \in DOMAIN weights :
        ratios[g] * total \in (100 * weights[g] - total)..(100 * weights[g] + total)

(* The ratios that are sent are hundredths and add up to a hundred, also   *)
(* when the sum of the quotas has wrapped around; when it has not they are *)
(* the shares of the quotas.                                               *)
SplitsByQuota ==
  \A n \in 2..3 : \A quotas \in [1..n -> Quotas] :
    /\ EpicRatios(quotas) \in [1..n -> 0..100]
    /\ SumFunction(EpicRatios(quotas)) = 100
    /\ SumFunction(Weights(quotas)) < U32 => AreShares(EpicRatios(quotas), Weights(quotas))
=============================================================================
