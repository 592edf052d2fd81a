----------------------------- MODULE MCAgentRun -----------------------------
(***************************************************************************)
(* AgentRun on kinds of scan that are each small where another is big: two *)
(* tasks in one run and in two, a keyed task repeated, and two in one run, *)
(* on an upstream that honours keys, calls that never ran, net counts,     *)
(* waits, and a model as the agent.                                        *)
(***************************************************************************)
EXTENDS AgentRun

Task(wanted, declared, calls) ==
    [expected |-> SumFunction(wanted),
     wanted |-> wanted, declared |-> declared, calls |-> calls]

Shape(file, repeats, ops) ==
    [file |-> file, repeats |-> repeats, ops |-> ops,
     keys |-> {NoKey}, faults |-> {"response_lost"}, waits |-> {0},
     oracle |-> "list", flaky |-> FALSE, dedups |-> FALSE, kind |-> "scripted"]

Two == [a |-> 1, b |-> 1]
One == [a |-> 1]

MCShapes ==
    {Shape(<<Task(Two, TRUE, 3), Task(One, FALSE, 2)>>, 1, {"a", "b", Stray}),
     [Shape(<<Task(One, TRUE, 2)>>, 2, {"a"}) EXCEPT
        !.keys = {NoKey, "k"}, !.dedups = TRUE, !.flaky = TRUE],
     [Shape(<<Task(One, TRUE, 2), Task([b |-> 1], TRUE, 2)>>, 1, {"a", "b"}) EXCEPT
        !.keys = {"k", "l"}, !.dedups = TRUE],
     Shape(<<Task(Two, TRUE, 3)>>, 1, {"a", "b", Joint}),
     [Shape(<<Task(One, TRUE, 2), Task([b |-> 1], TRUE, 1)>>, 2, {"a", "b"}) EXCEPT
        !.flaky = TRUE],
     [Shape(<<Task(Two, FALSE, 2)>>, 2, {"a", "b"}) EXCEPT !.faults = {"malformed", "timeout"}],
     [Shape(<<Task(Two, TRUE, 2)>>, 1, {"a", "b"}) EXCEPT !.faults = {"timeout"}],
     [Shape(<<Task(Two, TRUE, 3)>>, 1, {"a", "b"}) EXCEPT !.oracle = "count"],
     [Shape(<<Task(One, TRUE, 4)>>, 1, {"a"}) EXCEPT
        !.faults = {"server_error", "rate_limit", "response_lost"}, !.waits = {1, 4},
        !.oracle = "absent"],
     [Shape(<<Task(One, FALSE, 2)>>, 2, {"a", Stray}) EXCEPT !.kind = "llm"]}

MCGrading ==
    [thresholds |-> [recovery_rate_min |-> 90, retry_amplification_max |-> 200,
                     duplicate_mutation_max |-> 0],
     weights |-> [behavior |-> 35],
     pass_score |-> 75, fail_cap |-> 89, absolute_fail_cap |-> 49]
=============================================================================
