---------------------------- MODULE ToolSurface ----------------------------
(***************************************************************************)
(* What a scan may send to a server, decided from the tools it lists:      *)
(* which tool is safe to call (targets/mutability.py), which one is        *)
(* profiled and with what arguments (targets/mcp.py), and the malformed    *)
(* calls its schema gives rise to (probes/contract.py).                    *)
(*                                                                         *)
(* A tool is [name, hint, words, fields, required, closed]: its readOnly   *)
(* hint, the word classes found in its name, its declared fields, which of *)
(* them are required, and whether extra fields are excluded.  A field is   *)
(* [types, ruled, short, low, high, default].                              *)
(***************************************************************************)
EXTENDS Naturals, Sequences, FiniteSets, SequencesExt

(* A declared hint wins; otherwise the name decides, and a word that       *)
(* changes state wins over one that reads.                                 *)
ClassifyByName(tool) ==
    IF "mutating" \in tool.words THEN "mutating"
    ELSE IF "read_only" \in tool.words THEN "read_only" ELSE "unknown"

Classify(tool) ==
    CASE tool.hint = "read"  -> "read_only"
      [] tool.hint = "write" -> "mutating"
      [] tool.hint = "none"  -> ClassifyByName(tool)

ReadOnlyTools(tools) ==
    FlattenSeq([i \in DOMAIN tools |->
        IF Classify(tools[i]) = "read_only" THEN <<tools[i]>> ELSE <<>>])

Named(tools, name) == {i \in DOMAIN tools : tools[i].name = name}

-----------------------------------------------------------------------------
(* Arguments synthesized from a schema: every required field gets its      *)
(* declared default, or a placeholder of its type.  Only a list or a       *)
(* string can come out empty.                                              *)
DefaultFor(field) ==
    IF field.default # "none" THEN field.default
    ELSE IF field.types \ {"null"} = {"array"} THEN "empty" ELSE "placeholder"

SynthesizedArgs(tool) == [f \in tool.required |-> DefaultFor(tool.fields[f])]

VacuousFields(tool) == {f \in tool.required : SynthesizedArgs(tool)[f] = "empty"}

(* The tool to profile, and why there is none: an explicit choice is       *)
(* honoured unless it is known to change state, no choice takes the first  *)
(* tool known to be read-only.                                             *)
ProbeTool(tools, flags) ==
    IF flags.tool # "" THEN Named(tools, flags.tool)
    ELSE {i \in DOMAIN tools :
            /\ Classify(tools[i]) = "read_only"
            /\ \A j \in 1..(i - 1) : Classify(tools[j]) # "read_only"}

ChoiceRefused(tools, flags) ==
    \/ ProbeTool(tools, flags) = {}
    \/ /\ flags.tool # "" /\ ~flags.allow_mutating
       /\ \E i \in ProbeTool(tools, flags) : Classify(tools[i]) = "mutating"

(* The verify tool reads, the profiled tool writes, and writing was        *)
(* allowed.                                                                *)
VerifyRefused(tools, flags) ==
    /\ flags.verify # ""
    /\ \/ Named(tools, flags.verify) = {}
       \/ \E i \in Named(tools, flags.verify) : Classify(tools[i]) # "read_only"
       \/ \E i \in ProbeTool(tools, flags) : Classify(tools[i]) # "mutating"
       \/ ~flags.allow_mutating

(* _select_probe_tool: nothing has been called when it refuses.            *)
SelectionRefused(tools, flags) ==
    \/ ChoiceRefused(tools, flags)
    \/ /\ ~flags.tool_args
       /\ \E i \in ProbeTool(tools, flags) : VacuousFields(tools[i]) # {}
    \/ VerifyRefused(tools, flags)

-----------------------------------------------------------------------------
(* The malformed calls of one tool.                                        *)

PermitsNull(field) == field.types = {} \/ "null" \in field.types

Concrete(field) == field.types \ {"null"}

Case(kind, touched, forbidden) ==
    [kind |-> kind, touched |-> touched, should_reject |-> forbidden]

(* A value of the wrong type exists only where one type is declared; where *)
(* none is, an integer is sent and nothing is excluded by it.              *)
WrongType(f, field) ==
    IF Cardinality(Concrete(field)) = 1 THEN <<Case("wrong_type", {f}, TRUE)>>
    ELSE IF field.types = {} THEN <<Case("wrong_type", {f}, FALSE)>> ELSE <<>>

Strings(f, field) ==
    IF "string" \in field.types \/ field.types = {}
    THEN <<Case("empty_string", {f}, field.ruled), Case("very_long_string", {f}, field.short)>>
    ELSE <<>>

OutOfRange(f, field) ==
    IF field.types \cap {"integer", "number"} # {} /\ (field.low \/ field.high)
    THEN <<Case("out_of_range", {f}, TRUE)>> ELSE <<>>

FieldCases(tool, f) ==
    LET field == tool.fields[f]
    IN  <<Case("null_required", {f}, ~PermitsNull(field))>>
            \o WrongType(f, field) \o Strings(f, field) \o OutOfRange(f, field)
            \o IF f \in tool.required THEN <<Case("missing_required", {f}, TRUE)>> ELSE <<>>

(* Required fields first, then the others, then the whole call.            *)
BuildCases(tool) ==
    LET listed(fields) == FlattenSeq([i \in DOMAIN SetToSeq(fields) |->
                                         FieldCases(tool, SetToSeq(fields)[i])])
    IN  listed(tool.required) \o listed(DOMAIN tool.fields \ tool.required)
        \o (IF Cardinality(tool.required) >= 2
            THEN <<Case("missing_all_required", tool.required, TRUE)>> ELSE <<>>)
        \o (IF tool.closed THEN <<Case("extra_param", {}, TRUE)>> ELSE <<>>)

(* A case that leaves some field of the ordinary call as it was.           *)
CarriesBaseline(case, baseline) == baseline \ case.touched # {}

(* Which tools may be sent garbage: with --allow-mutating all of them,     *)
(* otherwise those known to be read-only; the first few either way.        *)
Covered(tools, limit, allowMutating) ==
    LET eligible == IF allowMutating THEN tools ELSE ReadOnlyTools(tools)
    IN  SubSeq(eligible, 1, IF Len(eligible) < limit THEN Len(eligible) ELSE limit)
=============================================================================
