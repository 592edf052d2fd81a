--------------------------- MODULE BaselineProbes ---------------------------
(***************************************************************************)
(* The four probes of a service scan's first phase: what latency, cost,    *)
(* concurrency and contract make of the replies they got, and when they    *)
(* say that nothing was measured (probes/latency.py, cost.py,              *)
(* concurrency.py, contract.py, base.py).                                  *)
(*                                                                         *)
(* A reading is [applicable, metrics, evidence] as Policy takes it.  Rates *)
(* are in percent and times in milliseconds; preflight is what setup saw   *)
(* of the probe payload: "ok", "refused" or "none" for no answer.          *)
(***************************************************************************)
EXTENDS BehaviorProbe, ToolSurface

Reading(applicable, metrics) ==
    [applicable |-> applicable, metrics |-> metrics, evidence |-> NoEvidence]

-----------------------------------------------------------------------------
(* A sample maps the requests that gave a number to that number.  Nearest  *)
(* rank, so a percentile is always a value some request saw.               *)
Percentile(sample, pct) ==
    IF DOMAIN sample = {} THEN Missing
    ELSE Ranked(sample, (Cardinality(DOMAIN sample) * pct + 99) \div 100)

Successes(replies) == {i \in DOMAIN replies : replies[i].ok}

ErrorRate(replies) ==
    IF replies = <<>> THEN 100
    ELSE (100 * (Len(replies) - Cardinality(Successes(replies)))) \div Len(replies)

Latencies(replies) == [i \in Successes(replies) |-> replies[i].ms]

P99MinSample == 100

(* Every request failed and the payload had already been refused when it   *)
(* was asked directly: a rejection was timed.  No answer is no evidence.   *)
BaselineUnusable(replies, preflight) ==
    ErrorRate(replies) = 100 /\ preflight = "refused"

(* The 99th percentile over the median, in percent; it is reported from a  *)
(* sample of any size.                                                     *)
TailRatio(sample) ==
    IF Percentile(sample, 50) <= 0 THEN Missing
    ELSE (100 * Percentile(sample, 99)) \div Percentile(sample, 50)

LatencyReading(replies, preflight) ==
    Reading(~BaselineUnusable(replies, preflight),
            [error_rate |-> ErrorRate(replies),
             p95_s |-> Percentile(Latencies(replies), 95),
             p99_s |-> IF Cardinality(Successes(replies)) < P99MinSample THEN Missing
                       ELSE Percentile(Latencies(replies), 99),
             tail_ratio |-> TailRatio(Latencies(replies))])

-----------------------------------------------------------------------------
(* Powers of two below the ceiling, then the ceiling.                      *)
Ladder(ceiling) ==
    LET below == Cardinality({i \in 0..6 : 2 ^ i < ceiling})
    IN  [i \in 1..(below + 1) |-> IF i <= below THEN 2 ^ (i - 1) ELSE ceiling]

SaturationErrorRate == 5

(* The ramp: errors[i] is the error rate at the ladder's i-th level, and   *)
(* the levels after the first at which half the requests fail are never    *)
(* run.                                                                    *)
LevelsTested(errors) ==
    {i \in DOMAIN errors : \A j \in 1..(i - 1) : errors[j] < 50}

Saturation(ladder, errors) ==
    LET over == {ladder[i] : i \in {j \in LevelsTested(errors) : errors[j] > SaturationErrorRate}}
    IN  IF over = {} THEN Missing ELSE Min(over)

MaxSustained(ladder, errors) ==
    Max({0} \cup
        {ladder[i] : i \in {j \in LevelsTested(errors) : errors[j] <= SaturationErrorRate}})

(* A single request at a time already failed, and was refused before.      *)
RampUnusable(ladder, errors, preflight) ==
    MaxSustained(ladder, errors) = 0 /\ preflight = "refused"

ConcurrencyReading(ceiling, errors, preflight) ==
    LET sustained == MaxSustained(Ladder(ceiling), errors)
    IN  Reading(~RampUnusable(Ladder(ceiling), errors, preflight),
                [max_sustained_concurrency |-> sustained,
                 saturation_point |-> Saturation(Ladder(ceiling), errors)])

-----------------------------------------------------------------------------
(* Prices given on the command line win, both or neither; otherwise the    *)
(* table's, for a model it knows.                                          *)
PricingFor(flags, table, model) ==
    IF flags.price_in # Missing /\ flags.price_out # Missing
    THEN {<<flags.price_in, flags.price_out>>}
    ELSE IF model \in DOMAIN table THEN {table[model]} ELSE {}

Reported(replies, side) ==
    [i \in {i \in Successes(replies) : replies[i][side] # Missing} |-> replies[i][side]]

MeanOf(sample) ==
    IF DOMAIN sample = {} THEN 0
    ELSE SumFunction(sample) \div Cardinality(DOMAIN sample)

BloatShare == 50
BloatMinTokens == 1024

BloatDetected(inputs) ==
    /\ DOMAIN inputs # {} /\ MeanOf(inputs) > 0
    /\ LET static == Min({inputs[i] : i \in DOMAIN inputs})
       IN  (100 * static) \div MeanOf(inputs) >= BloatShare /\ static >= BloatMinTokens

(* A target that reports no tokens is not asked; one that does is priced   *)
(* at the mean of its successful requests, and a cost nobody can price is  *)
(* not applicable.                                                         *)
TokensSeen(replies) ==
    \E side \in {"tokens_in", "tokens_out"} : DOMAIN Reported(replies, side) # {}

CostReading(reports, replies, pricing) ==
    LET inputs  == Reported(replies, "tokens_in")
        outputs == Reported(replies, "tokens_out")
        used    == reports /\ TokensSeen(replies)
        cost    == IF ~used \/ pricing = {} THEN Missing
                   ELSE LET price == CHOOSE p \in pricing : TRUE
                        IN  MeanOf(inputs) * price[1] + MeanOf(outputs) * price[2]
    IN  Reading(cost # Missing,
                [cost_per_request |-> cost, bloat_detected |-> used /\ BloatDetected(inputs)])

(* The fault probe's own number, which no threshold reads.                 *)
FaultReading(ops) == Reading(TRUE, [recovery_rate |-> RecoveryRate(ops)])

-----------------------------------------------------------------------------
(* The contract probe.  Its record is a sequence of                        *)
(* [tool, case, carries, control, outcome]: the ordinary call that went    *)
(* out first and the malformed one, each accepted, rejected or crashed.    *)

(* The ordinary call of a tool: the real arguments when they were given    *)
(* for it, its required fields otherwise.                                  *)
BaselinePayload(tool, real) ==
    IF tool.name \in DOMAIN real THEN real[tool.name] ELSE tool.required

Questions(tools, real) ==
    FlattenSeq([i \in DOMAIN tools |->
        [k \in DOMAIN BuildCases(tools[i]) |->
            [tool |-> tools[i].name, required |-> tools[i].required # {},
             case |-> BuildCases(tools[i])[k],
             carries |-> CarriesBaseline(BuildCases(tools[i])[k],
                                         BaselinePayload(tools[i], real))]]])

Where(record, test(_)) == {i \in DOMAIN record : test(record[i])}

Crashed(record) == Where(record, LAMBDA r : r.outcome = "crashed")

Undelivered(record) == Where(record, LAMBDA r : r.control = "crashed")

(* Every ordinary call came back, so a call that did not is a fact about   *)
(* that call.                                                              *)
ControlClean(record) == record # <<>> /\ Undelivered(record) = {}

(* The ordinary call of a tool was refused the last time it came back.     *)
RejectsBaseline(record, tool) ==
    LET back == Where(record, LAMBDA r : r.tool = tool /\ r.control # "crashed")
    IN  back # {} /\ record[Max(back)].control = "rejected"

(* Refused, but for the ordinary part it carries along.                    *)
Unattributable(record) ==
    Where(record, LAMBDA r :
        RejectsBaseline(record, r.tool) /\ r.carries /\ r.case.should_reject)

Scoreable(record) ==
    Where(record, LAMBDA r : r.case.should_reject) \ Unattributable(record)

(* A tool that requires nothing cannot have accepted wrongly.              *)
WronglyAccepted(record) ==
    {i \in Scoreable(record) : record[i].outcome = "accepted" /\ record[i].required}

(* More than half of what was asked has no readable answer.                *)
EvidenceThin(record) ==
    LET discarded == Cardinality(Unattributable(record))
                        + IF ControlClean(record) THEN 0 ELSE Cardinality(Crashed(record))
    IN  record # <<>> /\ ~ControlClean(record) /\ 2 * discarded > Len(record)

CrashRate_NoControl(record) ==                                   \* mutant
    IF record = <<>> THEN Missing ELSE (100 * Cardinality(Crashed(record))) \div Len(record)

CrashRate(record) ==
    IF ~ControlClean(record) THEN Missing
    ELSE (100 * Cardinality(Crashed(record))) \div Len(record)

AcceptedInvalid(record) ==
    IF Scoreable(record) = {} \/ EvidenceThin(record) THEN Missing
    ELSE Cardinality(WronglyAccepted(record))

ContractReading(listed, record) ==
    IF listed = <<>> THEN Inapplicable(NoEvidence)
    ELSE Reading(TRUE, [crash_rate |-> CrashRate(record),
                        accepted_invalid |-> AcceptedInvalid(record),
                        crashes |-> Cardinality(Crashed(record))])
=============================================================================
