----------------------------- MODULE LandedLog -----------------------------
(***************************************************************************)
(* What a reader of a session relies on: one log of landed files, numbered *)
(* without a hole, in which every source's lines appear in order from its  *)
(* first.  A source has a position, the lines of it that will not be read  *)
(* again, and it moves only to the end of a file that is in the log.  What *)
(* is past a position may be in the log already and land again.  A source  *)
(* that is halted stays so: it lands nothing more.                         *)
(***************************************************************************)
EXTENDS Integers, Sequences

CONSTANTS
    Sources,
    Appended   \* the sources that only grow; the others are replaced whole

VARIABLES
    log,       \* the landed files, in order
    position,  \* the lines of each source that need not be read again
    halted     \* the sources a person must look at

vars == <<log, position, halted>>

Init ==
    /\ log = <<>>
    /\ position = [s \in Sources |-> 0]
    /\ halted = {}

\* A file follows the last, and continues its source where its position is.
\* What text it holds is the source's business.
Publish(s) ==
    /\ s \notin halted
    /\ log' # <<>>
    /\ LET f == log'[Len(log')]
       IN  /\ log' = Append(log, f)
           /\ f.seq = Len(log) + 1
           /\ f.src = s /\ f.from = position[s]
           /\ f.recs # <<>>
    /\ UNCHANGED <<position, halted>>

\* The position moves over the last file, once it is there.
Advance(s) ==
    /\ s \in Appended \ halted
    /\ log # <<>>
    /\ LET f == log[Len(log)]
       IN  /\ f.src = s /\ f.from = position[s]
           /\ position' = [position EXCEPT ![s] = @ + Len(f.recs)]
    /\ UNCHANGED <<log, halted>>

Halt(s) ==
    /\ s \in Appended
    /\ halted' = halted \cup {s}
    /\ UNCHANGED <<log, position>>

Next == \E s \in Sources : Publish(s) \/ Advance(s) \/ Halt(s)

Spec == Init /\ [][Next]_vars
=============================================================================
