------------------------------ MODULE AlertPath ------------------------------
(***************************************************************************)
(* The way of an alert: 10_alert_contract.py writes it, phase1_contract.py *)
(* verifies it, alert_builder.py makes an event of it, the pipeline checks *)
(* the event and a policy decides whether it is anchored.  The alert goes  *)
(* through a file, and on the way of run_stage.py the event goes through   *)
(* another; load_generator.py makes new events of the alerts it reads.     *)
(* Without a file of alerts, the smoke run, the load generator and the     *)
(* demonstration of Phase 2 make up alerts in the form of 10's.            *)
(*                                                                         *)
(* Numbers are counted in fractions of the sixth decimal, Unit of them to  *)
(* one.  A digest is the tuple of what is hashed.                          *)
(***************************************************************************)
EXTENDS Integers, Sequences

CONSTANTS Unit, MaxNumber,  \* a unit of the sixth decimal; probability 1
          Taus, Values,     \* gates, and values of the feature
          FeatureStats,     \* rows of feature_stats.csv
          NaN

(* A probability is a whole number of decimals away from 0 and from 1.     *)
ASSUME PathAssumption ==
    /\ Unit \in Nat \ {0} /\ MaxNumber \in Nat \ {0} /\ MaxNumber % Unit = 0
    /\ Taus \subseteq Nat
    /\ NaN \notin Int /\ Values \subseteq Int \cup {NaN}
    /\ \A row \in FeatureStats :
          "median" \in DOMAIN row /\ \A key \in DOMAIN row : row[key] \in Int

VARIABLES
    user,       \* who handles the alert
    detection,  \* what the detector computed, or what is made up
    lines,      \* alerts in the file
    edited,     \* the field of the alert that was edited on the way, or "none"
    phase,      \* "detected", "written", "read", "adapted", "validated", "decided", "refused"
    event,      \* the evidence event
    edited2,    \* the field of the event that was edited on the way
    decision

pvars == <<user, detection, lines, edited, phase, event, edited2, decision>>

Classes == {"Benign", "DoS", "Infiltration"}
SEVERITY == [Benign |-> "NONE", DoS |-> "HIGH", Infiltration |-> "CRITICAL"]
SEVERITY_TRANSLATION ==
    [NONE |-> "informational", LOW |-> "low", MEDIUM |-> "medium", HIGH |-> "high", CRITICAL |-> "critical"]
VERDICT(class) == IF class = "Benign" THEN "NORMAL" ELSE "ANOMALY"

(* round(x, 6), to even.                                                   *)
Round6(x) ==
    IF x = NaN THEN NaN
    ELSE LET down == x \div Unit  rest == 2 * (x % Unit)
         IN  Unit * (IF rest < Unit \/ (rest = Unit /\ down % 2 = 0) THEN down ELSE down + 1)

(* fmt, render: a number is written with six decimals.                     *)
Fmt(x) == Round6(x)

DigestFields == {"event_id", "schema_version", "verdict", "threat_class", "confidence",
                 "model_version", "cloud_resource_id", "feature_digest"}

FeatureDigest(value) == <<Fmt(value)>>
EventHash(a) ==
    <<a.event_id, a.schema_version, a.verdict, a.threat_class, Fmt(a.confidence),
      a.model_version, a.cloud_resource_id, a.feature_digest>>

NoEvent == [threat_category |-> "none"]

(* run_stage.py and load_generator.py with 10's alerts, and without (smoke *)
(* and synthetic); run_phase2_demo.py without.                             *)
FromFile == {"stage", "load"}
MadeUp == {"smoke", "synthetic", "demo"}

(* A percentile that is not a number is the median.                        *)
Percentile(row, key) == IF key \in DOMAIN row THEN row[key] ELSE row.median

(* A feature drawn between its percentiles, of any size without statistics.*)
Drawn ==
    LET between(low, high) == IF high < low THEN high .. low ELSE low .. high
        values(row) == IF Percentile(row, "p05") = Percentile(row, "p95") THEN {row.median}
                       ELSE between(Percentile(row, "p05"), Percentile(row, "p95"))
    IN  (0 .. MaxNumber) \cup UNION {values(row) : row \in FeatureStats}

(* 0.1 and 0.99 in the smoke run; around a mean, and so beyond 0 and 1, in *)
(* the load generator.                                                     *)
Detections(u) ==
    CASE u \in FromFile ->
            [class : Classes, confidence : 0..MaxNumber, tau : Taus, feature : Values]
      [] u = "smoke" ->
            {[class |-> c, confidence |-> IF c = "Benign" THEN 0 ELSE MaxNumber - Unit,
              tau |-> t, feature |-> 0] : c \in Classes, t \in Taus}
      [] u = "synthetic" ->
            [class : Classes, confidence : -Unit .. MaxNumber + Unit, tau : {0}, feature : Drawn]
      [] u = "demo" ->
            [class : Classes, confidence : 0..MaxNumber, tau : Taus, feature : {0}]

PathInit ==
    /\ user \in FromFile \cup MadeUp
    /\ detection \in Detections(user)
    /\ lines = <<>> /\ edited = "none"
    /\ phase = "detected" /\ event = NoEvent /\ edited2 = "none" /\ decision = "none"

-----------------------------------------------------------------------------
(* An alert, with the number whose digest is that of its features.         *)
Alert(class, confidence, version, feature, digested, anchor) ==
    LET a == [event_id |-> "cloud-ids/0", schema_version |-> "1.0.0",
              verdict |-> VERDICT(class), threat_class |-> class,
              severity |-> SEVERITY[class], confidence |-> confidence,
              model_version |-> version, cloud_resource_id |-> "host",
              features |-> feature, feature_digest |-> FeatureDigest(digested),
              anchor |-> anchor, event_hash |-> <<>>]
    IN  [a EXCEPT !.event_hash = EventHash(a)]

(* Stage 10: the digest of the features is of the numbers as they are, the *)
(* anchoring decision too; what the alert carries is rounded.              *)
Detected(d) ==
    Alert(d.class, Round6(d.confidence), "model", Round6(d.feature), d.feature,
          d.confidence >= d.tau)

Clamped(x) == IF x < 0 THEN 0 ELSE IF x > MaxNumber THEN MaxNumber ELSE x

Fixture(d) == Alert(d.class, d.confidence, "synthetic", d.feature, d.feature, d.class # "Benign")
SyntheticAlert(d) ==
    LET drawn == Round6(d.feature)
    IN  Alert(d.class, Round6(Clamped(d.confidence)), "synthetic", drawn, drawn, d.class # "Benign")
synthetic_alert(d) ==
    Alert(d.class, Round6(d.confidence), "synthetic", d.feature, d.feature,
          d.class # "Benign" /\ d.confidence >= d.tau)

Produced(u, d) ==
    CASE u \in FromFile -> Detected(d)
      [] u = "smoke" -> Fixture(d)
      [] u = "synthetic" -> SyntheticAlert(d)
      [] u = "demo" -> synthetic_alert(d)

Emit ==
    /\ phase = "detected"
    /\ phase' = IF user \in FromFile THEN "written" ELSE "read"
    /\ lines' = <<Produced(user, detection)>>
    /\ UNCHANGED <<user, detection, edited, event, edited2, decision>>

(* What an edit may put into a field of the line.                          *)
NewValues ==
    [event_id |-> {"other"}, schema_version |-> {"2.0.0"}, verdict |-> {"NORMAL", "ANOMALY"},
     threat_class |-> Classes, severity |-> {"NONE", "CRITICAL", "SEVERE"},
     confidence |-> 0..MaxNumber, model_version |-> {"other"}, cloud_resource_id |-> {"other"},
     features |-> Values, feature_digest |-> {<<>>}, anchor |-> BOOLEAN, event_hash |-> {<<>>}]

(* One field of the line is edited in the file, or the line is repeated.   *)
EditLine ==
    /\ phase = "written" /\ edited = "none"
    /\ \/ \E field \in DOMAIN NewValues : \E value \in NewValues[field] \ {lines[1][field]} :
             lines' = <<[lines[1] EXCEPT ![field] = value]>> /\ edited' = field
       \/ lines' = lines \o lines /\ edited' = "line"
    /\ UNCHANGED <<user, detection, phase, event, edited2, decision>>

-----------------------------------------------------------------------------
(* The reader.                                                             *)

verify_alert(a) ==
    /\ a.schema_version = "1.0.0"
    /\ FeatureDigest(a.features) = a.feature_digest
    /\ EventHash(a) = a.event_hash
    /\ (a.verdict = "NORMAL") = (a.threat_class = "Benign")
    /\ a.confidence \in 0..MaxNumber

(* Phase 1's schema, which only the stages check.                          *)
ValidAgainstSchema(a) == a.severity \in DOMAIN SEVERITY_TRANSLATION

(* read_alerts and validate_alert, or load_alerts: a repeated id and a line*)
(* that does not verify refuse the file.                                   *)
ReadAlerts ==
    /\ phase = "written"
    /\ phase' = IF /\ Len(lines) = 1 /\ verify_alert(lines[1])
                   /\ user = "stage" => ValidAgainstSchema(lines[1])
                THEN "read" ELSE "refused"
    /\ UNCHANGED <<user, detection, lines, edited, event, edited2, decision>>

(* The load generator makes a new alert of each it draws: with an id and a *)
(* resource of its own, and their hash.                                    *)
Retagged(a) ==
    LET b == [a EXCEPT !.event_id = "phase3-replay/1", !.cloud_resource_id = "i-load-1"]
    IN  [b EXCEPT !.event_hash = EventHash(b)]

(* canonicalise refuses a number that is none.                             *)
PayloadDigest(e) ==
    <<e.event_id, e.verdict, e.threat_category, e.severity, e.calibrated_confidence, e.features,
      e.version_label, e.resource_id, e.event_hash, e.producer_anchor_decision, e.producer>>

(* build_alert_from_phase1_alert: carries through what the alert says.     *)
EventOf(a, producer) ==
    LET e == [event_id |-> a.event_id,
              verdict |-> IF a.threat_class = "Benign" THEN "BENIGN" ELSE "ATTACK",
              threat_category |-> a.threat_class, severity |-> SEVERITY_TRANSLATION[a.severity],
              calibrated_confidence |-> a.confidence, features |-> a.features,
              version_label |-> a.model_version, resource_id |-> a.cloud_resource_id,
              event_hash |-> a.event_hash, producer_anchor_decision |-> a.anchor,
              producer |-> producer, payload_digest |-> <<>>]
    IN  [e EXCEPT !.payload_digest = PayloadDigest(e)]

LoadGenerator == {"load", "synthetic"}

(* next_event stamps itself as the producer and computes the digest anew.  *)
Stamped(e) ==
    LET f == [e EXCEPT !.producer = "load_generator.py"]
    IN  [f EXCEPT !.payload_digest = PayloadDigest(f)]

Adapt ==
    LET a == IF user = "load" THEN Retagged(lines[1]) ELSE lines[1]
    IN  /\ phase = "read"
        /\ IF verify_alert(a) /\ a.severity \in DOMAIN SEVERITY_TRANSLATION /\ a.features # NaN
           THEN /\ event' = IF user \in LoadGenerator THEN Stamped(EventOf(a, "10_alert_contract.py"))
                            ELSE EventOf(a, "10_alert_contract.py")
                /\ phase' = "adapted"
           ELSE phase' = "refused" /\ UNCHANGED event
        /\ UNCHANGED <<user, detection, lines, edited, edited2, decision>>

(* What an edit may put into a field of the event.                         *)
NewEventValues ==
    [event_id |-> {"other"}, threat_category |-> Classes, severity |-> {"low", "critical", "severe"},
     calibrated_confidence |-> 0..MaxNumber, features |-> Values \ {NaN},
     producer_anchor_decision |-> BOOLEAN, payload_digest |-> {<<>>}]

(* One field of the event is edited in events.jsonl.                       *)
EditEvent ==
    /\ phase = "adapted" /\ user \in {"stage", "smoke"} /\ edited2 = "none"
    /\ \E field \in DOMAIN NewEventValues : \E value \in NewEventValues[field] \ {event[field]} :
          event' = [event EXCEPT ![field] = value] /\ edited2' = field
    /\ UNCHANGED <<user, detection, lines, edited, phase, decision>>

(* Phase 2's schema: jsonschema.validate checks no format, and NaN is a    *)
(* number.                                                                 *)
ValidAgainstContract(e) ==
    /\ e.verdict \in {"ATTACK", "BENIGN"} /\ e.threat_category \in Classes
    /\ \E s \in DOMAIN SEVERITY_TRANSLATION : e.severity = SEVERITY_TRANSLATION[s]
    /\ e.calibrated_confidence \in 0..MaxNumber

(* Phase2Pipeline.validate_contract *)
ValidateContract ==
    /\ phase = "adapted"
    /\ phase' = IF ValidAgainstContract(event) /\ PayloadDigest(event) = event.payload_digest
                THEN "validated" ELSE "refused"
    /\ UNCHANGED <<user, detection, lines, edited, event, edited2, decision>>

-----------------------------------------------------------------------------
(* The policies.  The stages ask the producer's alert; Phase 3's load test *)
(* has AnchoringPolicy anchor everything at once; the demonstration gates  *)
(* at the detector's threshold, with a lower one for the hardest class.    *)

(* Mutation of SourceDecision: the gate is applied to the event.           *)
GateOnEvent(e) ==
    IF e.calibrated_confidence < Round6(detection.tau) THEN "off_chain_only"
    ELSE IF e.severity = "critical" THEN "immediate" ELSE "batch"

SourceDecision(e) ==
    IF ~lines[1].anchor THEN "off_chain_only"
    ELSE IF e.severity = "critical" THEN "immediate" ELSE "batch"

gate_for(policy, class) ==
    IF class \in DOMAIN policy.category_thresholds THEN policy.category_thresholds[class]
    ELSE policy.confidence_threshold

PolicyDecision(policy, e) ==
    IF policy.anchor_attack_only /\ e.verdict # "ATTACK" THEN "off_chain_only"
    ELSE IF e.calibrated_confidence < gate_for(policy, e.threat_category) THEN "off_chain_only"
    ELSE IF e.calibrated_confidence >= policy.immediate_confidence_threshold THEN "immediate"
    ELSE "batch"

Everything == [anchor_attack_only |-> FALSE, confidence_threshold |-> 0,
               category_thresholds |-> <<>>, immediate_confidence_threshold |-> 0]
Floored == [anchor_attack_only |-> TRUE, confidence_threshold |-> detection.tau,
            category_thresholds |-> [Infiltration |-> Unit], immediate_confidence_threshold |-> Unit]

Decide ==
    /\ phase = "validated" /\ phase' = "decided"
    /\ decision' = IF user \in LoadGenerator THEN PolicyDecision(Everything, event)
                   ELSE IF user = "demo" THEN PolicyDecision(Floored, event)
                   ELSE SourceDecision(event)
    /\ UNCHANGED <<user, detection, lines, edited, event, edited2>>

PathStep == Emit \/ EditLine \/ ReadAlerts \/ Adapt \/ EditEvent \/ ValidateContract \/ Decide

-----------------------------------------------------------------------------
(* Properties.                                                             *)

(* An alert that nobody edits is admitted, although the producer hashes    *)
(* what it has and the consumer what it reads; unless a feature is NaN.  An*)
(* event that is admitted says what the detector computed, to the sixth    *)
(* decimal, whichever one field of its alert or of itself was edited on the*)
(* way, and one that no detector computed says so; and it is anchored      *)
(* exactly when the detector's confidence reached the gate, which rounding *)
(* does not change.  (Where AnchoringPolicy gates the event, rounding      *)
(* moves the gate by half a decimal at most, and so does no floor.)        *)
(* The decision and the severity of an alert are in no digest: when these  *)
(* were edited they are believed.                                          *)
(* Code: 10_alert_contract.py:80-113 and 283-315, phase1_contract.py:76-   *)
(* 219, alert_builder.py:151-239, run_stage.py:72-150, load_generator.py.  *)
AdmittedAsProduced ==
    /\ phase = "refused" => edited # "none" \/ edited2 # "none" \/ detection.feature = NaN
    /\ phase = "decided" =>
          /\ event.threat_category = detection.class
          /\ event.verdict = IF detection.class = "Benign" THEN "BENIGN" ELSE "ATTACK"
          /\ Round6(event.calibrated_confidence) = Round6(Clamped(detection.confidence))
          /\ Round6(event.features) = Round6(detection.feature)
          /\ event.version_label = IF user \in MadeUp THEN "synthetic" ELSE "model"
          /\ edited # "severity" =>
                event.severity = SEVERITY_TRANSLATION[SEVERITY[detection.class]]
          /\ user = "stage" /\ edited # "anchor" =>
                (decision # "off_chain_only" <=> detection.confidence >= detection.tau)
          /\ user = "smoke" => (decision # "off_chain_only" <=> detection.class # "Benign")
          /\ user = "demo" /\ detection.class # "Benign" =>
                LET gate == IF detection.class = "Infiltration" THEN Unit ELSE detection.tau
                IN  /\ 2 * detection.confidence > 2 * gate + Unit => decision # "off_chain_only"
                    /\ 2 * detection.confidence < 2 * gate - Unit => decision = "off_chain_only"
=============================================================================
