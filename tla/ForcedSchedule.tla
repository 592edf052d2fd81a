--------------------------- MODULE ForcedSchedule ---------------------------
(***************************************************************************)
(* What a forced fault schedule promises, with no processes in it          *)
(* (fault_proxy.FaultConfig.schedule): a task's calls to one tool are      *)
(* numbered 1, 2, 3, ... however they are spread over sessions, and the    *)
(* n-th draws the table's entry for n, or no fault when there is none.     *)
(* Two agents that do the same task meet the same faults.                  *)
(***************************************************************************)
EXTENDS FaultKinds, Naturals

CONSTANTS Tools, Schedules, MaxDepth

VARIABLES
    table,  \* the schedule of the pass
    used,   \* calls of each tool that have drawn
    drawn   \* what they drew

Entry(t, n) == IF n \in 1..MaxDepth THEN table[<<t, n>>] ELSE NoFault

Init ==
    /\ table \in Schedules
    /\ used = [t \in Tools |-> 0]
    /\ drawn = {}

Draw(t) ==
    LET n == used[t] + 1
    IN  /\ used' = [used EXCEPT ![t] = n]
        /\ drawn' = drawn \cup
               {[tool |-> t, ordinal |-> n, fault |-> Entry(t, n)]}
        /\ UNCHANGED table

Next == \E t \in Tools : Draw(t)

Spec == Init /\ [][Next]_<<table, used, drawn>>
=============================================================================
