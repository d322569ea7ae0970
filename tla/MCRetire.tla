------------------------------ MODULE MCRetire ------------------------------
(* Small instances of Retire for TLC. *)
EXTENDS Retire

CONSTANTS A, B, C, O, sub1, sub2, o1, o2

Part(call, at) == [call |-> call, at |-> at, done |-> FALSE]
End(call, at) == [call |-> call, at |-> at, done |-> TRUE]

\* A call older than the look-back, and one that goes on in the third file; a
\* call of another subagent in the same minute; the end and a next call.
Files3 == <<
    <<End(O, 1), Part(A, 4)>>,
    <<End(B, 4), Part(Prompt, 4)>>,
    <<Part(Result, 4), End(A, 4), End(C, 5)>> >>
TwoSubagents == <<sub1, sub2, sub1>>
OneSource == [s \in {sub1, sub2} |-> "subagent"]
=============================================================================
