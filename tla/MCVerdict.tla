----------------------------- MODULE MCVerdict -----------------------------
(***************************************************************************)
(* Verdict on small instances: whole scans of a few servers, the contract  *)
(* probe alone against every server whose session may end at any call, and *)
(* agent scans with every state of the oracle; the shipped policy's        *)
(* weights and caps over thresholds small enough to be missed.             *)
(***************************************************************************)
EXTENDS Verdict

Command(command, target, asked, json) ==
    [command |-> command, target |-> target, json |-> json, wellformed |-> TRUE,
     agent_only |-> target = "agent", verify_tool |-> asked, verify_command |-> FALSE,
     verify_args |-> FALSE, tool_args |-> FALSE, allow_mutating |-> asked, repeats |-> 1,
     scan_timeout |-> 0, timeout |-> 1, tasks |-> 2,
     probes |-> <<>>, phases |-> {"baseline", "chaos", "behavior"}]

Whole ==
    {[Command("ci", "mcp", a, TRUE) EXCEPT !.tool_args = u] : a, u \in BOOLEAN}
        \cup {Command("ci", "agent", a, TRUE) : a \in BOOLEAN}
        \cup {Command("scan", "agent", TRUE, TRUE)}

ContractOnly == [Command("ci", "mcp", FALSE, FALSE) EXCEPT !.probes = <<"contract">>]

(* Two probes, a probe no active phase runs, and the refused ones.         *)
Others ==
    {[Command("scan", "mcp", FALSE, FALSE) EXCEPT !.probes = <<"concurrency", "latency">>],
     [Command("scan", "mcp", FALSE, FALSE) EXCEPT !.probes = <<"fault">>,
                                                  !.phases = {"baseline"}],
     [Command("scan", "mcp", FALSE, FALSE) EXCEPT !.probes = <<"agent_baseline">>],
     [Command("ci", "mcp", FALSE, FALSE) EXCEPT !.probes = <<"throughput">>],
     [Command("ci", "mcp", FALSE, FALSE) EXCEPT !.agent_only = TRUE],
     [Command("ci", "agent", TRUE, FALSE) EXCEPT !.verify_command = TRUE],
     [Command("ci", "agent", FALSE, FALSE) EXCEPT !.repeats = 2, !.scan_timeout = 5],
     [Command("ci", "agent", FALSE, FALSE) EXCEPT !.repeats = 2, !.scan_timeout = 6]}

MCOptions == Whole \cup {ContractOnly} \cup Others

Field(types) ==
    [types |-> types, ruled |-> FALSE, short |-> FALSE, low |-> FALSE, high |-> FALSE,
     default |-> "none"]

(* One field: leaving it out is a call that carries nothing of the         *)
(* ordinary one.  Two: every single fault carries the other field along.   *)
OneField ==
    [name |-> "put", hint |-> "none", words |-> {"read_only"}, required |-> {"x"},
     closed |-> FALSE, fields |-> [x |-> [Field({"integer"}) EXCEPT !.high = TRUE]]]

TwoFields ==
    [OneField EXCEPT !.closed = TRUE, !.required = {"x", "y"},
        !.fields = [x |-> Field({"boolean"}), y |-> Field({"boolean", "null"})]]

Unclassified == [OneField EXCEPT !.words = {}]

Optional == [OneField EXCEPT !.required = {}]

Reply(ok, ms) == [ok |-> ok, ms |-> ms, tokens_in |-> 2, tokens_out |-> 1]

Replies ==
    {[i \in 1..2 |-> Reply(TRUE, 2)], <<Reply(TRUE, 1), Reply(TRUE, 3)>>,
     [i \in 1..2 |-> Reply(FALSE, 1)]}

Attempt(ok) == [ok |-> ok, injected |-> ~ok]

(* Two operations: recovered and doubled, recovered, or not; three tries   *)
(* that all failed; nothing injected, with and without a failure.          *)
Chaos ==
    {<<[attempts |-> <<Attempt(FALSE), Attempt(b)>>, effects |-> IF b THEN e ELSE 2],
       [attempts |-> <<Attempt(c)>>, effects |-> 0]>> : b, c \in BOOLEAN, e \in {0, 2}} \cup
    {<<[attempts |-> [i \in 1..3 |-> Attempt(FALSE)], effects |-> 0]>>} \cup
    {<<[attempts |-> <<[ok |-> b, injected |-> FALSE]>>, effects |-> 1]>> : b \in BOOLEAN}

Server(preflight, rejects, tools, lax, fragile, dies, oracle) ==
    [preflight |-> preflight, rejects |-> rejects, tools |-> tools, real |-> <<>>,
     lax |-> lax, fragile |-> fragile, dies |-> dies, oracle |-> oracle,
     banner |-> FALSE,
     replies |-> Replies, ramps |-> {<<0, 0, 10>>, <<100>>},
     tokens |-> FALSE, pricing |-> {}, chaos |-> Chaos]

WholeServers ==
    {Server(p, r, <<OneField>>, lax, {}, 0, o) :
        p \in {"ok", "refused", "none"}, r \in BOOLEAN, lax \in {{}, {"missing_required"}},
        o \in {"ok", "stale", "failed", "unattributed"}} \cup
    {[Server("ok", FALSE, <<TwoFields>>, {}, {}, 6, "ok") EXCEPT
        !.tokens = TRUE, !.pricing = {<<1, c>>}] : c \in {1, 4}}

ContractServers ==
    {Server(p, p = "refused", <<t, Unclassified>>, lax, fragile, d, "absent") :
        p \in {"ok", "refused"}, t \in {OneField, TwoFields, Optional}, d \in 0..13,
        lax \in {{}, {"missing_required"}, {"wrong_type", "extra_param"}},
        fragile \in {{}, {"null_required"}}}

(* A verify tool is only accepted beside a profiled tool that writes.      *)
Writing(s, asked) ==
    IF asked THEN [s EXCEPT !.tools[1].words = {"mutating"}] ELSE s

MCServers(o) ==
    LET fit(s) == s.rejects => s.preflight # "ok"
    IN  IF o = ContractOnly THEN {s \in ContractServers : fit(s)}
        ELSE IF o \in Whole /\ o.target = "mcp"
             THEN {Writing(s, o.verify_tool) :
                     s \in {s \in WholeServers :
                               /\ fit(s) /\ (s.oracle = "ok" \/ o.verify_tool)
                               /\ o.tool_args => s.preflight # "ok"}}
        ELSE {[Server("ok", FALSE, <<OneField>>, {}, {}, 0, "absent") EXCEPT
                  !.banner = TRUE, !.replies = @ \cup {[i \in 1..100 |-> Reply(TRUE, i)]}]}

(* What the agent path says, one task or two; duplicates are withheld      *)
(* exactly when some window was not read, what reads the clock against a   *)
(* model.                                                                  *)
Says(amp, duplicates, evidence) ==
    [applicable |-> TRUE, evidence |-> evidence,
     metrics |-> [retry_amplification |-> amp, duplicate_mutations |-> duplicates,
                  recovery_rate |-> Missing, caller_strategy_applicable |-> TRUE,
                  backoff_growth |-> IF amp = 300 THEN 120 ELSE Missing,
                  retry_after_retries |-> IF amp = 300 THEN 1 ELSE 0,
                  retry_after_honored |-> IF amp = 300 THEN 100 ELSE Missing,
                  max_recovery_latency |-> IF amp = Missing THEN Missing ELSE 3]]

MCReadings ==
    {Says(amp, d, [oracle |-> "none", taskStatus |-> {"ok"}, uncertain |-> u,
                   appliedNothing |-> n, undeclared |-> w, unreadable |-> r,
                   unreconciled |-> c, carried |-> {}]) :
        amp \in {Missing, 200, 300}, d \in {0, 2}, r \in {{}, {"t2"}},
        u \in {0, 1}, n \in {0, 1}, w \in {{}, {"t1"}}, c \in {0, 1}} \cup
    {Says(amp, Missing, [NoEvidence EXCEPT !.taskStatus = s, !.uncertain = 1]) :
        amp \in {Missing, 200}, s \in {{}, {"ok", "failed"}, {"failed"}}}

(* A model's ratio of calls is withheld.                                   *)
MCAgentReadings ==
    {[reading |-> r, kind |-> "scripted"] : r \in MCReadings} \cup
    {[reading |-> r, kind |-> "llm"] :
        r \in {r \in MCReadings : r.metrics.retry_amplification = Missing}}

Thresholds ==
    [p95_latency_ms |-> 2, error_rate_max |-> 5, cost_per_request_max |-> 4,
     contract_crash_rate_max |-> 0, contract_invalid_accepted_max |-> 0,
     recovery_rate_min |-> 90, retry_amplification_max |-> 200,
     duplicate_mutation_max |-> 0, concurrency_min |-> 5]

MCPolicies ==
    {[thresholds |-> Thresholds,
      weights |-> [latency |-> 20, cost |-> 15, concurrency |-> 15, contract |-> 15,
                   behavior |-> 35],
      pass_score |-> 75, fail_cap |-> 89, absolute_fail_cap |-> 49]}
=============================================================================
