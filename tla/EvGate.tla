------------------------------- MODULE EvGate -------------------------------
(***************************************************************************)
(* The gate a candidate trade has to pass (ev_gate.cpp): a pure function   *)
(* of the candidate's declared inputs, its market regime and the lifecycle *)
(* state of its strategy.  Probabilities are counted in parts of Unit and  *)
(* the expected values below are Unit times the code's.                    *)
(***************************************************************************)
EXTENDS Integers

CONSTANTS Unit,           \* parts that make probability 1
          MinConfidence,  \* config min_confidence, in parts of Unit
          Threshold,      \* regime -> min_ev_bps_threshold times its multiplier
          AllowedRegimes  \* regimes in config allowed_regimes_mask

ASSUME GateAssumption ==
  /\ Unit \in Nat \ {0}
  /\ MinConfidence \in 0 .. Unit
  /\ \A r \in DOMAIN Threshold : Threshold[r] \in Int
  /\ AllowedRegimes \subseteq DOMAIN Threshold

States == {"active", "under_observation", "quarantined", "disabled"}
Blocking == {"quarantined", "disabled"}

\* The inputs that a candidate declares, and its CostModel.
Costing == [fee : Int, makerFee : Int, halfSpread : Int, slippage : Int, impact : Int,
            funding : Int, hours : Int]
EvInputs == [pWin : Int, avgWin : Int, avgLoss : Int, confidence : Int, notional : Int,
             costs : Costing]

\* Costs of a round trip, in the fields of CostModel.
TotalCost(c) == 2 * c.fee + 2 * c.halfSpread + c.slippage + c.impact + c.funding * c.hours

GrossEv(i) == i.pWin * i.avgWin + (Unit - i.pWin) * i.avgLoss

NetEv(i) == GrossEv(i) - Unit * TotalCost(i.costs)

InputsValid(i) ==
  /\ i.pWin \in 0 .. Unit
  /\ i.confidence \in 0 .. Unit
  /\ i.avgWin >= 0 /\ i.avgLoss <= 0
  /\ i.notional > 0
  /\ \A f \in DOMAIN i.costs : i.costs[f] >= 0

\* Deviation: a disabled strategy is not blocked.
VerdictQuarantineOnly(i, regime, state) ==
  IF ~ InputsValid(i) \/ regime \notin DOMAIN Threshold THEN "invalid_inputs"
  ELSE IF state = "quarantined" THEN "lifecycle_blocked"
  ELSE IF regime \notin AllowedRegimes THEN "regime_blocked"
  ELSE IF i.confidence < MinConfidence THEN "confidence_below_min"
  ELSE IF NetEv(i) < Unit * Threshold[regime] THEN "ev_below_threshold"
  ELSE "none"

\* The reject reason, "none" when the candidate is accepted.
Verdict(i, regime, state) ==
  IF ~ InputsValid(i) \/ regime \notin DOMAIN Threshold THEN "invalid_inputs"
  ELSE IF state \in Blocking THEN "lifecycle_blocked"
  ELSE IF regime \notin AllowedRegimes THEN "regime_blocked"
  ELSE IF i.confidence < MinConfidence THEN "confidence_below_min"
  ELSE IF NetEv(i) < Unit * Threshold[regime] THEN "ev_below_threshold"
  ELSE "none"

Reasons == {"invalid_inputs", "lifecycle_blocked", "regime_blocked",
            "confidence_below_min", "ev_below_threshold"}
=============================================================================
