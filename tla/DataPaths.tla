------------------------------ MODULE DataPaths ------------------------------
(***************************************************************************)
(* What the stages compute on data: the splits of the flows, the           *)
(* comparison of models, the thresholds of classes, the gate of anchoring, *)
(* the way of an alert to its event, the Merkle tree of a batch.  They     *)
(* share no variable, so a behaviour has one of them.                      *)
(***************************************************************************)
EXTENDS DataSplits, Comparison, ClassThresholds, AnchoringGate, AlertPath, Merkle

VARIABLE kind

vars == <<dvars, cmvars, tvars, gvars, pvars, mvars, kind>>

NoFile ==
    /\ file = <<>> /\ chunk = 1 /\ at = "none" /\ offset = 0 /\ hashes = <<>> /\ cells = {}
    /\ plan = <<>> /\ parts = <<>> /\ median = None /\ out = <<>>

NoComparison ==
    /\ run = MaxRuns /\ left = <<>> /\ doing = "none" /\ open = FALSE /\ fitted = NotThere
    /\ results = <<>>
    /\ scores = [n \in Names |-> NotThere] /\ rows = [n \in Names |-> NotThere]

NoSearch ==
    /\ flows = <<>> /\ tau = <<>> /\ best = 0 /\ original = One /\ improved = FALSE
    /\ class = 1 /\ candidate = 1 /\ round = 1 /\ search = "none"

NoPoints ==
    /\ test_rows = <<>> /\ calibrator = "none" /\ tau_grid = {} /\ target = 1 /\ ops = <<>>
    /\ gate = NoGate /\ threshold = Fallback /\ stage = "none"

NoAlert ==
    /\ user = "none" /\ detection = <<>> /\ lines = <<>> /\ edited = "none"
    /\ phase = "none" /\ event = NoEvent /\ edited2 = "none" /\ decision = "none"

NoBatch == batch = <<>> /\ level = <<>> /\ leaf = 0 /\ idx = 0 /\ siblings = <<>>

Init ==
    \/ kind = "splits" /\ DataInit /\ NoComparison /\ NoSearch /\ NoPoints /\ NoAlert /\ NoBatch
    \/ kind = "comparison" /\ NoFile /\ CompareInit /\ NoSearch /\ NoPoints /\ NoAlert /\ NoBatch
    \/ kind = "thresholds" /\ NoFile /\ NoComparison /\ ThresholdInit /\ NoPoints /\ NoAlert /\ NoBatch
    \/ kind = "gate" /\ NoFile /\ NoComparison /\ NoSearch /\ GateInit /\ NoAlert /\ NoBatch
    \/ kind = "alerts" /\ NoFile /\ NoComparison /\ NoSearch /\ NoPoints /\ PathInit /\ NoBatch
    \/ kind = "merkle" /\ NoFile /\ NoComparison /\ NoSearch /\ NoPoints /\ NoAlert /\ MerkleInit

Next ==
    \/ kind = "splits" /\ DataStep /\ UNCHANGED <<cmvars, tvars, gvars, pvars, mvars, kind>>
    \/ kind = "comparison" /\ CompareStep /\ UNCHANGED <<dvars, tvars, gvars, pvars, mvars, kind>>
    \/ kind = "thresholds" /\ ThresholdStep /\ UNCHANGED <<dvars, cmvars, gvars, pvars, mvars, kind>>
    \/ kind = "gate" /\ GateStep /\ UNCHANGED <<dvars, cmvars, tvars, pvars, mvars, kind>>
    \/ kind = "alerts" /\ PathStep /\ UNCHANGED <<dvars, cmvars, tvars, gvars, mvars, kind>>
    \/ kind = "merkle" /\ Climb /\ UNCHANGED <<dvars, cmvars, tvars, gvars, pvars, kind>>

Spec == Init /\ [][Next]_vars
=============================================================================
