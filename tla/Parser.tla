------------------------------- MODULE Parser -------------------------------
(***************************************************************************)
(* Assembling one session into its conversation's chain of rounds          *)
(* (internal/parse, over pkg/sessionflow).                                 *)
(*                                                                         *)
(* Landed files arrive, numbered 1, 2, 3 ...  A parser takes the chain's   *)
(* lock, folds the rounds that are there, assembles the session from the   *)
(* files the index covers, and publishes what differs as the next round;   *)
(* then it saves the head.  Rounds are immutable files; the head is a      *)
(* cache.  A round over the byte budget covers fewer files, or carries     *)
(* part of what an upgraded assembler says anew.                           *)
(*                                                                         *)
(* Abstractions.  A file says some things of some entities, and the        *)
(* assembly through a file is the last thing said of each: a function of   *)
(* the files alone and of the assembler's build, which is all that the     *)
(* parser relies on.  Every frame of a round has one size, and so has its  *)
(* header.  The digest a round names its predecessor by is that round's    *)
(* place in the order of publication, and an input digest is what was      *)
(* hashed into it: the set of files of each round in turn.  The index is   *)
(* what the collector's IndexExact leaves and caughtUp completes: it covers*)
(* every file landed when it is read.  No session is retired, no file is   *)
(* removed, and the parser's name and policy stay those of the chain.      *)
(***************************************************************************)
EXTENDS Integers, Sequences, FiniteSets

CONSTANTS
    Parsers,    \* processes that may parse the session
    Nodes,      \* nodes and relations: what the assembly stops producing is removed
    Gaps,       \* unresolved entries: what it stops producing is resolved
    Values,     \* what a file may say of an entity
    Dropped,    \* what a file says of an entity the assembly no longer produces
    Tombstone,  \* the frame that removes a node
    NoProc,
    Budget,     \* MaxRoundBytes, the header counting one and each frame one
    MaxFiles,   \* bound: files that land
    MaxBuild,   \* bound: builds of the assembler
    MaxFaults   \* bound: crashes and failed writes

Entities == Nodes \cup Gaps

\* What the conversation says of an entity.
Entry == [build : 1 .. MaxBuild, value : Values, open : BOOLEAN]

ASSUME ParserAssumption ==
    /\ Nodes \cap Gaps = {}
    /\ IsFiniteSet(Nodes) /\ IsFiniteSet(Gaps)
    /\ NoProc \notin Parsers
    /\ Dropped \notin Values
    /\ Tombstone \notin Entry
    /\ Budget \in Nat \ {0}
    /\ MaxFiles \in Nat
    /\ MaxBuild \in Nat \ {0}
    /\ MaxFaults \in Nat

VARIABLES
    files,      \* what each landed file says, by sequence
    rounds,     \* the round files, in the order they were published
    headState,  \* conversation.state
    lock,       \* the holder of the chain's .lock
    pc,         \* where each parser is in parse.Session
    pass,       \* what each parser holds in memory
    build,      \* the assembler that runs
    faults

vars == <<files, rounds, headState, lock, pc, pass, build, faults>>

Said == Values \cup {Dropped}
File == UNION {[E -> Said] : E \in SUBSET Entities}

NoRound == [round |-> 0, prev |-> 0, from |-> 1, through |-> 0, input |-> <<>>, frames |-> <<>>]
NoPass == [r |-> NoRound, indexed |-> 0, more |-> FALSE]

Init ==
    /\ files = <<>>
    /\ rounds = <<>>
    /\ headState = [head |-> 0, through |-> 0, input |-> <<>>]
    /\ lock = NoProc
    /\ pc = [p \in Parsers |-> "idle"]
    /\ pass = [p \in Parsers |-> NoPass]
    /\ build = 1
    /\ faults = 0

-----------------------------------------------------------------------------
(* Assembly, and what a round must write. *)

\* The last file through q that says anything of e, 0 when there is none.
LastSaying(e, q) ==
    CHOOSE i \in 0 .. q :
        /\ i > 0 => e \in DOMAIN files[i]
        /\ \A j \in i + 1 .. q : e \notin DOMAIN files[j]

Alive(e, q) == LastSaying(e, q) > 0 /\ files[LastSaying(e, q)][e] # Dropped

\* The session as build b assembles it from the files through q.
Assembly(b, q) ==
    [e \in {e \in Entities : Alive(e, q)} |->
        [build |-> b, value |-> files[LastSaying(e, q)][e], open |-> TRUE]]

\* What changed is written again whole.  A node the assembly stopped producing
\* gets a tombstone; an open gap it stopped producing is written as resolved.
Diff(view, assembled) ==
    LET changed == {e \in DOMAIN assembled :
                        e \notin DOMAIN view \/ view[e] # assembled[e]}
        removed == (DOMAIN view \cap Nodes) \ DOMAIN assembled
        closed == {g \in (DOMAIN view \cap Gaps) \ DOMAIN assembled : view[g].open}
    IN  [e \in changed \cup removed \cup closed |->
            IF e \in changed THEN assembled[e]
            ELSE IF e \in removed THEN Tombstone
            ELSE [view[e] EXCEPT !.open = FALSE]]

\* A later frame replaces an earlier one whole; a tombstone removes; what a
\* round does not mention is unchanged.
Apply(view, frames) ==
    LET dead == {e \in DOMAIN frames : frames[e] = Tombstone}
    IN  [e \in (DOMAIN view \cup DOMAIN frames) \ dead |->
            IF e \in DOMAIN frames THEN frames[e] ELSE view[e]]

\* The conversation as of each round.
Fold[n \in Nat] ==
    IF n = 0 THEN <<>> ELSE Apply(Fold[n - 1], rounds[n].frames)

View == Fold[Len(rounds)]

Frames(d) == Cardinality(DOMAIN d)
Size(d) == 1 + Frames(d)

-----------------------------------------------------------------------------
(* Cutting a round to the budget. *)

\* The window, halved until its round fits or it holds at most one file: there
\* is one.
Windows(view, b, through, indexed) ==
    LET from == through + 1
        Stops(t) == t <= from \/ Size(Diff(view, Assembly(b, t))) <= Budget
        Halved(i) == from + (indexed - from) \div 2^i
    IN  {t \in through .. indexed :
            \E i \in 0 .. indexed :
                t = Halved(i) /\ Stops(t) /\ \A j \in 0 .. i - 1 : ~Stops(Halved(j))}

\* As many frames of a delta as fit the budget, and one at least; nodes go
\* before gaps, and which nodes are first is left open.
Fitting(d) ==
    LET most == IF Budget > 1 THEN Budget - 1 ELSE 1
        n == IF Frames(d) < most THEN Frames(d) ELSE most
    IN  {[e \in E |-> d[e]] : E \in {E \in SUBSET DOMAIN d :
            /\ Cardinality(E) = n
            /\ E \cap Gaps # {} => DOMAIN d \cap Nodes \subseteq E}}

\* Mutant: a round is written only when the structure changed.
NothingChanged(d, indexed, through) == d = <<>>

\* No round is written when nothing differs and no evidence arrived: evidence
\* that changes no entity still moves the chain's watermark.
NothingNew(d, indexed, through) == d = <<>> /\ indexed <= through

\* Mutant: revisions left over are not waited for.
MoreEvidence(through, indexed, frames, d) == through < indexed

More(through, indexed, frames, d) == through < indexed \/ Frames(frames) < Frames(d)

\* Mutant: the round of one file is cut by its frames too.
DraftsCut(view, b, through, indexed, first) ==
    UNION {LET d == Diff(view, Assembly(b, t))
           IN  {[through |-> t, frames |-> f, more |-> More(t, indexed, f, d)] :
                    f \in Fitting(d)} : t \in Windows(view, b, through, indexed)}

\* The rounds that may follow a view.  A window of one file that is over the
\* budget waits until what differs without it is published; revisions over no
\* new file are cut by their frames; one file alone is not cut.
Drafts(view, b, through, indexed, first) ==
    LET old == Diff(view, Assembly(b, through))
        Revisions == {[through |-> through, frames |-> f,
                       more |-> More(through, indexed, f, old)] : f \in Fitting(old)}
        Draft(t, d) ==
            IF Size(d) <= Budget \/ (t > through /\ (first \/ old = <<>>))
            THEN {[through |-> t, frames |-> d, more |-> More(t, indexed, d, d)]}
            ELSE Revisions
    IN  UNION {Draft(t, Diff(view, Assembly(b, t))) : t \in Windows(view, b, through, indexed)}

-----------------------------------------------------------------------------
(* The collector, and upgrades. *)

\* A file lands, whatever any parser is doing.
Collect ==
    /\ Len(files) < MaxFiles
    /\ \E f \in File : files' = Append(files, f)
    /\ UNCHANGED <<rounds, headState, lock, pc, pass, build, faults>>

\* The program is replaced by one that assembles otherwise.  A call runs the
\* build it began with, and holds the chain to its end, so the build changes
\* between calls.
Upgrade ==
    /\ lock = NoProc /\ build < MaxBuild
    /\ build' = build + 1
    /\ UNCHANGED <<files, rounds, headState, lock, pc, pass, faults>>

-----------------------------------------------------------------------------
(* One call of parse.Session. *)

\* Mutant: the lock is not exclusive.
LockShared(p) == lock' = p

LockChain(p) == lock = NoProc /\ lock' = p

\* A session with nothing landed is not parsed.  A held chain is left alone.
Begin(p) ==
    /\ pc[p] = "idle" /\ files # <<>>
    /\ LockChain(p)
    /\ pc' = [pc EXCEPT ![p] = "index"]
    /\ UNCHANGED <<files, rounds, headState, pass, build, faults>>

\* The index is brought up to the newest file.  The watermark is fixed here,
\* before assembly: what lands from now on is not in this round.
CaughtUp(p) ==
    /\ pc[p] = "index"
    /\ pass' = [pass EXCEPT ![p].indexed = Len(files)]
    /\ pc' = [pc EXCEPT ![p] = "assemble"]
    /\ UNCHANGED <<files, rounds, headState, lock, build, faults>>

Last == IF rounds = <<>> THEN NoRound ELSE rounds[Len(rounds)]

\* Mutant: the digest is chained from the saved head.
SavedInput == headState.input

\* The input digest is chained from the last round's own header.
PreviousInput == Last.input

\* What the fold of the chain and the assembly differ in is decided to be the
\* next round, or nothing is.  The fold is of the rounds the lock keeps as they
\* are, so it is taken here.
Assemble(p) ==
    LET indexed == pass[p].indexed
        d == Diff(View, Assembly(build, indexed))
    IN
    /\ pc[p] = "assemble"
    /\ IF NothingNew(d, indexed, Last.through)
       THEN /\ pc' = [pc EXCEPT ![p] = "idle"] /\ lock' = NoProc
            /\ pass' = [pass EXCEPT ![p] = NoPass]
       ELSE /\ \E x \in Drafts(View, build, Last.through, indexed, rounds = <<>>) :
                  pass' = [pass EXCEPT ![p].more = x.more, ![p].r =
                      [round |-> Last.round + 1, prev |-> Len(rounds),
                       from |-> Last.through + 1, through |-> x.through,
                       input |-> Append(PreviousInput, Last.through + 1 .. x.through),
                       frames |-> x.frames]]
            /\ pc' = [pc EXCEPT ![p] = "publish"]
            /\ UNCHANGED lock
    /\ UNCHANGED <<files, rounds, headState, build, faults>>

\* The highest round on disk.
HeadOnDisk == CHOOSE m \in {0} \cup {rounds[i].round : i \in DOMAIN rounds} :
            \A i \in DOMAIN rounds : rounds[i].round <= m

SavedHead(p) == [head |-> pass[p].r.round, through |-> pass[p].r.through,
                 input |-> pass[p].r.input]

\* Publish reads the head again and refuses a round that does not follow it.
CheckHead(p) ==
    /\ pc[p] = "publish"
    /\ IF HeadOnDisk + 1 = pass[p].r.round
       THEN pc' = [pc EXCEPT ![p] = "write"] /\ UNCHANGED lock
       ELSE pc' = [pc EXCEPT ![p] = "idle"] /\ lock' = NoProc
    /\ UNCHANGED <<files, rounds, headState, pass, build, faults>>

\* The round is installed under its own name, whole or not at all.
WriteRound(p) ==
    /\ pc[p] = "write"
    /\ rounds' = Append(rounds, pass[p].r)
    /\ pc' = [pc EXCEPT ![p] = "state"]
    /\ UNCHANGED <<files, headState, lock, pass, build, faults>>

\* The head is saved after the round, and the chain let go.
SaveState(p) ==
    /\ pc[p] = "state"
    /\ headState' = SavedHead(p)
    /\ pc' = [pc EXCEPT ![p] = "idle"]
    /\ pass' = [pass EXCEPT ![p] = NoPass]
    /\ lock' = NoProc
    /\ UNCHANGED <<files, rounds, build, faults>>

\* The process stops, or a read or a write of its fails.
Crash(p) ==
    /\ pc[p] # "idle" /\ faults < MaxFaults
    /\ faults' = faults + 1
    /\ pc' = [pc EXCEPT ![p] = "idle"]
    /\ pass' = [pass EXCEPT ![p] = NoPass]
    /\ lock' = IF lock = p THEN NoProc ELSE lock
    /\ UNCHANGED <<files, rounds, headState, build>>

Step(p) == Begin(p) \/ CaughtUp(p) \/ Assemble(p) \/ CheckHead(p) \/ WriteRound(p) \/ SaveState(p)

Next == Collect \/ Upgrade \/ \E p \in Parsers : Step(p) \/ Crash(p)

Spec == Init /\ [][Next]_vars

\* A watching pipeline parses after every pass, and a call waits for nothing.
FairSpec == Spec /\ \A p \in Parsers : WF_vars(Step(p))

-----------------------------------------------------------------------------
(* What the parser promises. *)

Deltas == UNION {[E -> Entry \cup {Tombstone}] : E \in SUBSET Entities}
Round == [round : Nat, prev : Nat, from : Nat \ {0}, through : Nat,
          input : Seq(SUBSET (1 .. MaxFiles)), frames : Deltas]

\* Every variable keeps its type.
TypeOK ==
    /\ files \in Seq(File)
    /\ rounds \in Seq(Round)
    /\ headState \in [head : Nat, through : Nat, input : Seq(SUBSET (1 .. MaxFiles))]
    /\ lock \in Parsers \cup {NoProc}
    /\ pc \in [Parsers -> {"idle", "index", "assemble", "publish", "write", "state"}]
    /\ pass \in [Parsers -> [r : Round, indexed : Nat, more : BOOLEAN]]
    /\ build \in 1 .. MaxBuild
    /\ faults \in Nat

\* The rounds are one chain: numbered 1, 2, 3 ..., each naming the one before
\* it, each beginning where that one ended, none past what has landed.  No two
\* parsers fork it and no stop breaks it (chain.go Lock, Publish, Verify).
ChainLinked ==
    \A i \in DOMAIN rounds :
        /\ rounds[i].round = i
        /\ rounds[i].prev = i - 1
        /\ rounds[i].from = (IF i = 1 THEN 1 ELSE rounds[i - 1].through + 1)
        /\ rounds[i].through \in rounds[i].from - 1 .. Len(files)

\* A round's input digest binds the files each round through it consumed, also
\* when the saved head was behind (parse.go inputDigestFor).
InputBound ==
    \A i \in DOMAIN rounds :
        rounds[i].input = [j \in 1 .. i |-> rounds[j].from .. rounds[j].through]

\* The saved head is a round that is on disk: never one that is not.
StateBehindChain ==
    headState.head > 0 =>
        \E i \in DOMAIN rounds :
            /\ rounds[i].round = headState.head
            /\ rounds[i].through = headState.through
            /\ rounds[i].input = headState.input

\* The conversation says what the assembly says: the same nodes, and the same
\* gaps open.
Says(view, assembled) ==
    /\ DOMAIN assembled \subseteq DOMAIN view
    /\ \A e \in DOMAIN assembled : view[e] = assembled[e]
    /\ \A e \in DOMAIN view \ DOMAIN assembled : e \in Gaps /\ ~view[e].open

Returns(p) == pc[p] \in {"assemble", "state"} /\ pc'[p] = "idle" /\ faults' = faults

\* A call that returns with nothing more to do leaves a chain whose fold is
\* what the session assembles to, through every file indexed when it began:
\* "the fold of every round; there is no other state" (storage-root.md), in
\* however many rounds a budget or an upgrade cut it.
DoneMeansWhole ==
    [][\A p \in Parsers :
        Returns(p) /\ (pc[p] = "assemble" \/ ~pass[p].more) =>
            Says(View, Assembly(build, pass[p].indexed))]_vars

\* A round that brings evidence leaves the conversation whole at its watermark,
\* so a reader of any head but one over no new file sees one interpretation of
\* one body of evidence.
EvidenceIsWhole ==
    \A p \in Parsers :
        pc[p] = "state" /\ pass[p].r.through >= pass[p].r.from =>
            Says(View, Assembly(build, pass[p].r.through))

\* Once files and upgrades stop, the chain reaches the newest file and says
\* what the session assembles to (parseToIndex).
ReachesIndex ==
    <>[](/\ files # <<>> => Last.through = Len(files)
         /\ \E b \in 1 .. MaxBuild : Says(View, Assembly(b, Len(files))))
=============================================================================
