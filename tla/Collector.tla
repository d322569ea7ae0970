----------------------------- MODULE Collector -----------------------------
(***************************************************************************)
(* The Claude Code collector landing one session into the storage root     *)
(* (internal/adapters/claudecode, over internal/storage and internal/index)*)
(*                                                                         *)
(* A source file grows, is rewritten, is pruned, is restored.  A collector *)
(* reads it behind a cursor, lands what is new as an immutable numbered    *)
(* file, commits the cursor, and at the end of the pass writes the index   *)
(* and then the session's counter.  Each of those is a separate write, and *)
(* a process may stop between any two.  Two collectors may run; the        *)
(* session's lock is all that keeps them apart.                            *)
(*                                                                         *)
(* Abstractions.  A line is a member of Lines and every line is as long as *)
(* any other, so a position in a file is a count of lines: half a line     *)
(* being written is "partial".  A digest is the text it is taken of, so no *)
(* two texts collide.  An index entry is the file and row it came from.    *)
(* Stat, verification and read of one window (TailAppend) are one step;    *)
(* what the source does between that step and the digest taken after       *)
(* landing is modelled.  The session's directory is there from the start,  *)
(* no session is retired or filtered out, and no directory is unreadable.  *)
(***************************************************************************)
EXTENDS Integers, Sequences, FiniteSets

CONSTANTS
    Collectors,       \* processes that may collect the session
    AppendSources,    \* transcripts and journals, tracked by position
    SnapshotSources,  \* sidecars, manifests and scripts, tracked by digest
    Lines,            \* what a line, or a whole snapshot, may say
    Inodes,           \* identities a file may have
    NoProc, NoFile, NoIno, NoDigest, NoLine,
    TailWindow,       \* lines the tail digest covers (1 MiB in the code)
    MaxDelta,         \* lines one window lands at most (max_delta_bytes)
    MaxRounds,        \* maxDrainRounds
    MaxLines,         \* bound: lines a source grows to
    MaxRewrites,      \* bound: times a source is rewritten or restored
    RewritesRace,     \* may a source be rewritten while its window is landing?
    MaxFaults         \* bound: crashes and failed writes

Sources == AppendSources \cup SnapshotSources

ASSUME CollectorAssumption ==
    /\ AppendSources \cap SnapshotSources = {}
    /\ NoProc \notin Collectors
    /\ NoIno \notin Inodes
    /\ NoLine \notin Lines
    /\ TailWindow \in Nat \ {0}
    /\ MaxDelta \in Nat \ {0}
    /\ MaxRounds \in Nat
    /\ MaxLines \in Nat
    /\ MaxRewrites \in Nat
    /\ RewritesRace \in BOOLEAN
    /\ MaxFaults \in Nat

File == [ino : Inodes, lines : Seq(Lines), partial : BOOLEAN]

ASSUME NoFileAssumption == NoFile \notin File

VARIABLES
    src,       \* the runtime's files, by source
    cursor,    \* <kind>.cursor of each source
    landed,    \* the landed files, in the order they appeared
    nextSeq,   \* next_seq of session.state
    index,     \* index/entries.bin: the file and row of each entry
    ixState,   \* index/index.state
    lock,      \* the holder of the session's .lock
    pc,        \* where each collector is in collectSession
    pass,      \* what each collector holds in memory for the pass
    checked,   \* collectors whose memory says the lost session was checked
    rewrites, faults

vars == <<src, cursor, landed, nextSeq, index, ixState, lock, pc, pass,
          checked, rewrites, faults>>

disk == <<cursor, landed, nextSeq, index, ixState>>
environment == <<src, rewrites>>

-----------------------------------------------------------------------------
(* The shape of the state. *)

\* ord counts the lines consumed: offset is always at the end of line ord.
NewCursor == [saved |-> FALSE, state |-> "active", ino |-> NoIno, ord |-> 0,
              tail |-> NoDigest, lastSeq |-> 0]

NoChunk == [ino |-> NoIno, from |-> 0, lines |-> <<>>, more |-> FALSE]

\* found: what discovery listed.  todo: the sources not visited yet.
\* unlisted: the cursors not looked at yet for a file that is gone.
\* seen: the size each source had when it was last read, -1 when not read.
NewPass == [found |-> {}, todo |-> {}, unlisted |-> {}, source |-> NoFile, chunk |-> NoChunk,
            rounds |-> 0, next |-> 1, ix |-> <<>>, ixTo |-> 0,
            dirty |-> FALSE, left |-> FALSE, seen |-> [s \in Sources |-> -1]]

Init ==
    /\ src \in [Sources -> {NoFile} \cup
                    {[ino |-> i, lines |-> <<>>, partial |-> FALSE] : i \in Inodes}]
    /\ cursor = [s \in Sources |-> NewCursor]
    /\ landed = <<>>
    /\ nextSeq = 1
    /\ index = <<>>
    /\ ixState = [schema |-> FALSE, seq |-> 0, entries |-> 0]
    /\ lock = NoProc
    /\ pc = [p \in Collectors |-> "idle"]
    /\ pass = [p \in Collectors |-> NewPass]
    /\ checked = {}
    /\ rewrites = 0
    /\ faults = 0

-----------------------------------------------------------------------------
(* The runtime and its user, who write the sources. *)

\* A snapshot is one line, replaced whole.
Room(s) == IF s \in SnapshotSources THEN 1 ELSE MaxLines

\* The runtime appends a line, and may have begun the next.
Grow(s) ==
    /\ src[s] # NoFile
    /\ Len(src[s].lines) < Room(s)
    /\ \E l \in Lines, half \in BOOLEAN :
        /\ s \in SnapshotSources => ~half
        /\ src' = [src EXCEPT ![s].lines = Append(@, l), ![s].partial = half]
    /\ UNCHANGED <<disk, lock, pc, pass, checked, rewrites, faults>>

\* The source is cut short, rewritten in place, rotated, moved to another file
\* system, or restored from a backup, as any file at its path.
Rewrite(s) ==
    /\ rewrites < MaxRewrites
    /\ RewritesRace \/ \A p \in Collectors : pc[p] \notin {"land", "commit"}
    /\ \E n \in 0 .. Room(s), i \in Inodes, half \in BOOLEAN :
        /\ s \in SnapshotSources => ~half
        /\ \E text \in [1 .. n -> Lines] :
            src' = [src EXCEPT ![s] = [ino |-> i, lines |-> text, partial |-> half]]
    /\ rewrites' = rewrites + 1
    /\ UNCHANGED <<disk, lock, pc, pass, checked, faults>>

\* The runtime prunes a file.
Prune(s) ==
    /\ src[s] # NoFile
    /\ src' = [src EXCEPT ![s] = NoFile]
    /\ UNCHANGED <<disk, lock, pc, pass, checked, rewrites, faults>>

-----------------------------------------------------------------------------
(* Reading a source behind its cursor. *)

Smaller(m, n) == IF m < n THEN m ELSE n

\* Sizes are in half lines, so a line being written is one more than none.
Size(f) == 2 * Len(f.lines) + (IF f.partial THEN 1 ELSE 0)
Offset(c) == 2 * c.ord

\* The text of the window before line n: a file cut short reads as zeros.
Digest(f, n) ==
    LET width == Smaller(n, TailWindow)
        line(k) == IF k <= Len(f.lines) THEN f.lines[k] ELSE NoLine
    IN  [k \in 1 .. width |-> line(n - width + k)]

Fresh(c) == c.ino = NoIno /\ c.ord = 0
Moved(c, f) == ~Fresh(c) /\ c.ino # NoIno /\ c.ino # f.ino

\* Mutant: the text before the cursor is not compared.
ConflictsUnread(c, f) == ~Fresh(c) /\ Size(f) < Offset(c)

\* TailAppend's three conflicts: cut short, a new identity that cannot be
\* verified, and text before the cursor that is not what it was.  The text is
\* not compared when nothing suggests there is anything to read.
Conflicts(c, f) ==
    /\ ~Fresh(c)
    /\ \/ Size(f) < Offset(c)
       \/ Moved(c, f) /\ c.tail = NoDigest
       \/ /\ Size(f) # Offset(c) \/ Moved(c, f)
          /\ c.tail # NoDigest
          /\ Digest(f, c.ord) # c.tail

\* A window of whole lines: at most MaxDelta, fewer when the converted records
\* reach the budget first, and at least one.
Windows(c, f) ==
    {[ino |-> f.ino, from |-> c.ord, lines |-> SubSeq(f.lines, c.ord + 1, c.ord + n),
      more |-> 2 * (c.ord + n) < Size(f)] :
        n \in 1 .. Smaller(MaxDelta, Len(f.lines) - c.ord)}

-----------------------------------------------------------------------------
(* One pass over the session. *)

\* Where a collector is when it holds the session's lock for a pass.
InSession == {"reindex", "sources", "tail", "land", "commit", "index",
              "ixstate", "state"}

\* Mutant: the lock is not exclusive.
LockShared(p) == lock' = p

LockSession(p) == lock = NoProc /\ lock' = p

\* A collector that runs a pass first discovers what is on disk.
Discover(p) ==
    /\ pc[p] = "idle"
    /\ LET found == {s \in Sources : src[s] # NoFile} IN
        IF found # {}
        THEN /\ checked' = checked \ {p}
             /\ pass' = [pass EXCEPT ![p] = [NewPass EXCEPT !.found = found]]
             /\ pc' = [pc EXCEPT ![p] = "found"]
        ELSE /\ pc' = [pc EXCEPT ![p] = IF p \in checked THEN "idle" ELSE "lost"]
             /\ pass' = [pass EXCEPT ![p] = NewPass]
             /\ UNCHANGED checked
    /\ UNCHANGED <<environment, disk, lock, faults>>

MarkGone(s) ==
    cursor' = [cursor EXCEPT ![s].state = "source_gone", ![s].saved = TRUE]

\* Mutant: markPruned is left out.
NoneUnlisted(found) == {}

\* The cursors whose files discovery did not list.
Unlisted(found) == Sources \ found

\* A session discovery did not find is checked under its lock, as soon as no
\* other collector holds it.
CheckLost(p) ==
    /\ pc[p] = "lost"
    /\ \/ /\ LockSession(p)
          /\ pass' = [pass EXCEPT ![p].unlisted = Unlisted({})]
          /\ pc' = [pc EXCEPT ![p] = "marking"]
       \/ /\ lock # NoProc
          /\ pc' = [pc EXCEPT ![p] = "idle"]
          /\ UNCHANGED <<lock, pass>>
    /\ UNCHANGED <<environment, disk, checked, faults>>

\* Another collector holds the session: the pass leaves it for a later one.
Busy(p) ==
    /\ pc[p] = "found" /\ lock # NoProc
    /\ pc' = [pc EXCEPT ![p] = "idle"]
    /\ pass' = [pass EXCEPT ![p] = NewPass]
    /\ UNCHANGED <<environment, disk, lock, checked, faults>>

Highest ==
    CHOOSE m \in {0} \cup {landed[i].seq : i \in DOMAIN landed} :
        \A i \in DOMAIN landed : landed[i].seq <= m

\* Mutant: the saved counter is trusted.
RecoverNothing == nextSeq

\* The counter is raised above every file on disk.
RecoverNextSeq == IF Highest + 1 > nextSeq THEN Highest + 1 ELSE nextSeq

IndexAgrees == ixState.schema /\ Len(index) = ixState.entries

\* Mutant: the entry count is not compared.
LoadAny == ixState.schema

\* The index is taken only when it agrees with its saved state.
LoadFor == IndexAgrees

\* The lock is taken, the counter is raised above every file on disk, and the
\* index is loaded or begun again.
Open(p) ==
    /\ pc[p] = "found" /\ LockSession(p)
    /\ pass' = [pass EXCEPT ![p].todo = pass[p].found,
                            ![p].unlisted = Unlisted(pass[p].found),
                            ![p].next = RecoverNextSeq,
                            ![p].ix = IF LoadFor THEN index ELSE <<>>,
                            ![p].ixTo = IF LoadFor THEN ixState.seq ELSE 0]
    /\ pc' = [pc EXCEPT ![p] = "reindex"]
    /\ UNCHANGED <<environment, disk, checked, faults>>

Rows(f) == [r \in 1 .. Len(f.recs) |-> [seq |-> f.seq, row |-> r]]

\* The next landed file the index does not cover, in sequence order.
NextUnindexed(q, i) ==
    /\ landed[i].seq > q
    /\ \A j \in DOMAIN landed : landed[j].seq > q => landed[i].seq <= landed[j].seq

\* Mutant: an index brought up to date is not saved for its own sake.
ReindexUnsaved(p) ==
    /\ pc[p] = "reindex"
    /\ IF pass[p].ixTo < pass[p].next - 1
       THEN \E i \in DOMAIN landed :
                /\ NextUnindexed(pass[p].ixTo, i)
                /\ pass' = [pass EXCEPT ![p].ix = @ \o Rows(landed[i]),
                                        ![p].ixTo = landed[i].seq]
                /\ UNCHANGED pc
       ELSE pc' = [pc EXCEPT ![p] = "sources"] /\ UNCHANGED pass
    /\ UNCHANGED <<environment, disk, lock, checked, faults>>

\* The gap between what landed and what the index covers is closed file by
\* file.  An index that was behind is saved even when nothing lands.
Reindex(p) ==
    /\ pc[p] = "reindex"
    /\ IF pass[p].ixTo < pass[p].next - 1
       THEN \E i \in DOMAIN landed :
                /\ NextUnindexed(pass[p].ixTo, i)
                /\ pass' = [pass EXCEPT ![p].ix = @ \o Rows(landed[i]),
                                        ![p].ixTo = landed[i].seq,
                                        ![p].dirty = TRUE]
                /\ UNCHANGED pc
       ELSE pc' = [pc EXCEPT ![p] = "sources"] /\ UNCHANGED pass
    /\ UNCHANGED <<environment, disk, lock, checked, faults>>

Skipped(s) == cursor[s].state = "conflict"

\* A source in conflict is passed over for good.  One found again after it was
\* gone is active again before it is read.
Visit(p, s) ==
    /\ pc[p] = "sources" /\ s \in pass[p].todo
    /\ IF Skipped(s)
       THEN /\ pass' = [pass EXCEPT ![p].todo = @ \ {s}, ![p].left = TRUE]
            /\ UNCHANGED <<pc, cursor>>
       ELSE /\ pass' = [pass EXCEPT ![p].todo = @ \ {s}, ![p].source = s, ![p].rounds = 0]
            /\ pc' = [pc EXCEPT ![p] = "tail"]
            /\ cursor' = [cursor EXCEPT ![s].state = "active"]
    /\ UNCHANGED <<environment, landed, nextSeq, index, ixState, lock, checked, faults>>

\* The cursor of a source cannot be read, or cannot be made active again.
VisitFails(p, s) ==
    /\ pc[p] = "sources" /\ s \in pass[p].todo /\ faults < MaxFaults
    /\ faults' = faults + 1
    /\ pass' = [pass EXCEPT ![p].todo = @ \ {s}, ![p].left = TRUE]
    /\ UNCHANGED <<environment, disk, lock, pc, checked>>

\* The file went between discovery and now.
FoundGone(p) ==
    LET s == pass[p].source IN
    /\ pc[p] = "tail" /\ src[s] = NoFile
    /\ MarkGone(s)
    /\ pc' = [pc EXCEPT ![p] = "sources"]
    /\ UNCHANGED <<environment, landed, nextSeq, index, ixState, lock, pass, checked, faults>>

FindConflict(p) ==
    LET s == pass[p].source IN
    /\ pc[p] = "tail" /\ s \in AppendSources /\ src[s] # NoFile
    /\ Conflicts(cursor[s], src[s])
    /\ cursor' = [cursor EXCEPT ![s].state = "conflict", ![s].saved = TRUE]
    /\ pass' = [pass EXCEPT ![p].left = TRUE]
    /\ pc' = [pc EXCEPT ![p] = "sources"]
    /\ UNCHANGED <<environment, landed, nextSeq, index, ixState, lock, checked, faults>>

\* Mutant: a line still being written is not noticed.
NeverUnfinished(f) == FALSE

Unfinished(f) == f.partial

\* No whole line past the cursor.  The same bytes under a new identity are
\* recorded, so that a later pass does not verify them again.
NothingNew(p) ==
    LET s == pass[p].source
        c == cursor[s]
        f == src[s]
    IN
    /\ pc[p] = "tail" /\ s \in AppendSources /\ f # NoFile
    /\ ~Conflicts(c, f) /\ Windows(c, f) = {}
    /\ cursor' = IF Moved(c, f) THEN [cursor EXCEPT ![s].ino = f.ino, ![s].saved = TRUE]
                                ELSE cursor
    /\ pass' = [pass EXCEPT ![p].left = @ \/ Unfinished(f), ![p].seen[s] = Size(f)]
    /\ pc' = [pc EXCEPT ![p] = "sources"]
    /\ UNCHANGED <<environment, landed, nextSeq, index, ixState, lock, checked, faults>>

ReadWindow(p) ==
    LET s == pass[p].source
        c == cursor[s]
        f == src[s]
    IN
    /\ pc[p] = "tail" /\ s \in AppendSources /\ f # NoFile
    /\ ~Conflicts(c, f)
    /\ \E w \in Windows(c, f) :
        pass' = [pass EXCEPT ![p].chunk = w, ![p].seen[s] = Size(f)]
    /\ pc' = [pc EXCEPT ![p] = "land"]
    /\ UNCHANGED <<environment, disk, lock, checked, faults>>

Unchanged(s, f) == f.lines = cursor[s].tail

\* A snapshot is read whole.  An empty one, and one that is what the cursor
\* says, lands nothing.
ReadSnapshot(p) ==
    LET s == pass[p].source
        f == src[s]
    IN
    /\ pc[p] = "tail" /\ s \in SnapshotSources /\ f # NoFile
    /\ IF f.lines = <<>> \/ Unchanged(s, f)
       THEN pc' = [pc EXCEPT ![p] = "sources"] /\ UNCHANGED pass
       ELSE /\ pass' = [pass EXCEPT ![p].chunk =
                    [ino |-> f.ino, from |-> 0, lines |-> f.lines, more |-> FALSE]]
            /\ pc' = [pc EXCEPT ![p] = "land"]
    /\ UNCHANGED <<environment, disk, lock, checked, faults>>

\* The window lands as an immutable file under the next number, and its
\* entries join the index in memory.
Land(p) ==
    /\ pc[p] = "land"
    /\ LET f == [seq |-> pass[p].next, src |-> pass[p].source,
                 from |-> pass[p].chunk.from, recs |-> pass[p].chunk.lines]
       IN  /\ landed' = Append(landed, f)
           /\ pass' = [pass EXCEPT ![p].next = @ + 1, ![p].ix = @ \o Rows(f)]
    /\ pc' = [pc EXCEPT ![p] = "commit"]
    /\ UNCHANGED <<environment, cursor, nextSeq, index, ixState, lock, checked, faults>>

\* A source cannot be read, its window cannot be written, its digest cannot be
\* taken, or its cursor cannot be saved.  A number taken for a file that did not
\* land is given back; a file that did land stays, and is not counted as a
\* change.  The pass goes on with the next source.
SourceFails(p) ==
    /\ pc[p] \in {"tail", "land", "commit"} /\ faults < MaxFaults
    /\ faults' = faults + 1
    /\ pass' = [pass EXCEPT ![p].left = TRUE, ![p].chunk = NoChunk]
    /\ pc' = [pc EXCEPT ![p] = "sources"]
    /\ UNCHANGED <<environment, disk, lock, checked>>

\* The last line of a window.
Through(w) == w.from + Len(w.lines)

\* The cursor a landed window moves its source to.  An append source's digest
\* is taken from the file as it is now, not from the bytes that landed.
Committed(p, s) ==
    LET c == cursor[s]
        w == pass[p].chunk
        to == Through(w)
    IN  IF s \in SnapshotSources
        THEN [c EXCEPT !.saved = TRUE, !.state = "active", !.tail = w.lines,
                       !.lastSeq = pass[p].next - 1]
        ELSE [saved |-> TRUE, state |-> "active", ino |-> w.ino, ord |-> to,
              tail |-> IF src[s] = NoFile THEN NoDigest ELSE Digest(src[s], to),
              lastSeq |-> pass[p].next - 1]

\* The cursor is saved after the file landed.  A source with more to read is
\* read again, up to the drain limit, and past it is left pending.
Commit(p) ==
    LET s == pass[p].source
        again == pass[p].chunk.more /\ pass[p].rounds < MaxRounds
    IN
    /\ pc[p] = "commit"
    /\ cursor' = [cursor EXCEPT ![s] = Committed(p, s)]
    /\ pass' = [pass EXCEPT ![p].dirty = TRUE, ![p].chunk = NoChunk,
                            ![p].rounds = IF again THEN @ + 1 ELSE @,
                            ![p].left = @ \/ (pass[p].chunk.more /\ ~again)]
    /\ pc' = [pc EXCEPT ![p] = IF again THEN "tail" ELSE "sources"]
    /\ UNCHANGED <<environment, landed, nextSeq, index, ixState, lock, checked, faults>>

Marking(p) == pc[p] = "marking" \/ (pc[p] = "sources" /\ pass[p].todo = {})

\* Of the cursors of sources discovery did not list, one that is active and
\* names a file that is not there says so from now on.
MarkIfGone(p, s) ==
    /\ Marking(p) /\ s \in pass[p].unlisted
    /\ IF cursor[s].saved /\ cursor[s].state = "active" /\ src[s] = NoFile
       THEN MarkGone(s)
       ELSE UNCHANGED cursor
    /\ pass' = [pass EXCEPT ![p].unlisted = @ \ {s}]
    /\ UNCHANGED <<environment, landed, nextSeq, index, ixState, lock, pc, checked, faults>>

\* A cursor cannot be saved: the cursors after it are not looked at.
MarkFails(p) ==
    /\ pc[p] = "sources" /\ pass[p].todo = {} /\ pass[p].unlisted # {}
    /\ faults < MaxFaults
    /\ faults' = faults + 1
    /\ pass' = [pass EXCEPT ![p].left = TRUE, ![p].unlisted = {}]
    /\ UNCHANGED <<environment, disk, lock, pc, checked>>

\* A lost session that was checked is not checked again before discovery has
\* found it.
Checked(p) ==
    /\ pc[p] = "marking" /\ pass[p].unlisted = {}
    /\ checked' = checked \cup {p}
    /\ lock' = NoProc
    /\ pc' = [pc EXCEPT ![p] = "idle"]
    /\ pass' = [pass EXCEPT ![p] = NewPass]
    /\ UNCHANGED <<environment, disk, faults>>

\* Every source was visited.  The index is written when something landed, or
\* when it was behind.
Visited(p) ==
    /\ pc[p] = "sources" /\ pass[p].todo = {} /\ pass[p].unlisted = {}
    /\ pc' = [pc EXCEPT ![p] = IF pass[p].dirty THEN "index" ELSE "state"]
    /\ UNCHANGED <<environment, disk, lock, pass, checked, faults>>

WriteIndex(p) ==
    /\ pc[p] = "index"
    /\ index' = pass[p].ix
    /\ pc' = [pc EXCEPT ![p] = "ixstate"]
    /\ UNCHANGED <<environment, cursor, landed, nextSeq, ixState, lock, pass, checked, faults>>

SaveIndexState(p) ==
    /\ pc[p] = "ixstate"
    /\ ixState' = [schema |-> TRUE, seq |-> pass[p].next - 1, entries |-> Len(pass[p].ix)]
    /\ pc' = [pc EXCEPT ![p] = "state"]
    /\ UNCHANGED <<environment, cursor, landed, nextSeq, index, lock, pass, checked, faults>>

Close(p) ==
    /\ pc[p] = "state"
    /\ nextSeq' = pass[p].next
    /\ lock' = NoProc
    /\ pc' = [pc EXCEPT ![p] = "idle"]
    /\ pass' = [pass EXCEPT ![p] = NewPass]
    /\ UNCHANGED <<environment, cursor, landed, index, ixState, checked, faults>>

\* The process stops, or a write the pass cannot go on without fails.  What it
\* wrote stays, what it held in memory is gone, and the lock is released.
Crash(p) ==
    /\ pc[p] # "idle" /\ faults < MaxFaults
    /\ faults' = faults + 1
    /\ pc' = [pc EXCEPT ![p] = "idle"]
    /\ pass' = [pass EXCEPT ![p] = NewPass]
    /\ lock' = IF lock = p THEN NoProc ELSE lock
    /\ checked' = checked \ {p}
    /\ UNCHANGED <<environment, disk>>

Step(p) ==
    \/ Discover(p) \/ CheckLost(p) \/ Busy(p) \/ Open(p) \/ Reindex(p)
    \/ \E s \in Sources : Visit(p, s)
    \/ FoundGone(p) \/ FindConflict(p) \/ NothingNew(p)
    \/ ReadWindow(p) \/ ReadSnapshot(p) \/ Land(p) \/ Commit(p)
    \/ \E s \in Sources : MarkIfGone(p, s)
    \/ Checked(p) \/ Visited(p) \/ WriteIndex(p) \/ SaveIndexState(p) \/ Close(p)

Next ==
    \/ \E s \in Sources : Grow(s) \/ Rewrite(s) \/ Prune(s)
    \/ \E p \in Collectors :
        Step(p) \/ (\E s \in Sources : VisitFails(p, s)) \/ SourceFails(p) \/ MarkFails(p) \/ Crash(p)

Spec == Init /\ [][Next]_vars

\* A watching pipeline runs pass after pass, and nothing inside a pass waits.
Fairness == \A p \in Collectors : WF_vars(Step(p))
FairSpec == Spec /\ Fairness

-----------------------------------------------------------------------------
(* What the collector promises. *)

Texts == Seq(Lines \cup {NoLine})

Cursors == [saved : BOOLEAN, state : {"active", "source_gone", "conflict"},
            ino : Inodes \cup {NoIno}, ord : Nat, tail : Texts \cup {NoDigest},
            lastSeq : Nat]

LandedFiles == [seq : Nat \ {0}, src : Sources, from : Nat, recs : Seq(Lines)]

Entries == Seq([seq : Nat, row : Nat])

Chunks == [ino : Inodes \cup {NoIno}, from : Nat, lines : Seq(Lines), more : BOOLEAN]

Passes == [found : SUBSET Sources, todo : SUBSET Sources, unlisted : SUBSET Sources,
           source : Sources \cup {NoFile},
           chunk : Chunks,
           rounds : Nat, next : Nat \ {0}, ix : Entries, ixTo : Nat,
           dirty : BOOLEAN, left : BOOLEAN, seen : [Sources -> Int]]

\* Every variable keeps its type.
TypeOK ==
    /\ src \in [Sources -> File \cup {NoFile}]
    /\ cursor \in [Sources -> Cursors]
    /\ landed \in Seq(LandedFiles)
    /\ nextSeq \in Nat \ {0}
    /\ index \in Entries
    /\ ixState \in [schema : BOOLEAN, seq : Nat, entries : Nat]
    /\ lock \in Collectors \cup {NoProc}
    /\ pc \in [Collectors -> InSession \cup {"idle", "found", "lost", "marking"}]
    /\ pass \in [Collectors -> Passes]
    /\ checked \in SUBSET Collectors
    /\ rewrites \in Nat
    /\ faults \in Nat

\* The landed files are numbered 1, 2, 3 ... with no number used twice and
\* none skipped, whatever stopped or failed in between: assembly keeps one
\* watermark, so a number used again is never read, and every round reports
\* one skipped as a missing file (state.go RecoverNextSeq, GiveBack).
SeqsDense == \A i \in DOMAIN landed : landed[i].seq = i

Holds(f, s, k) == f.src = s /\ k \in f.from + 1 .. f.from + Len(f.recs)

\* A file lands before its cursor is committed, so a cursor never points past
\* a line that is in no landed file, and a snapshot's names a file that holds
\* its text: no crash or failed write loses a line (collect.go landAppend).
CursorBehindFiles ==
    /\ \A s \in AppendSources : \A k \in 1 .. cursor[s].ord :
        \E i \in DOMAIN landed : Holds(landed[i], s, k)
    /\ \A s \in SnapshotSources : cursor[s].tail # NoDigest =>
        \E i \in DOMAIN landed :
            /\ landed[i].src = s /\ landed[i].seq = cursor[s].lastSeq
            /\ landed[i].recs = cursor[s].tail

\* With no crash and no failed write, no line lands twice: only a stop between
\* landing and the cursor makes a pass land the same lines again.
OnceWithoutFaults ==
    faults = 0 =>
        \A i, j \in DOMAIN landed :
            i # j /\ landed[i].src = landed[j].src /\ landed[i].src \in AppendSources =>
                \/ landed[i].from + Len(landed[i].recs) <= landed[j].from
                \/ landed[j].from + Len(landed[j].recs) <= landed[i].from

\* An index that agrees with its saved state holds every record of the files
\* up to the state's watermark, each once, and nothing else: a crash between
\* the index and its state neither doubles nor drops a record (codec.go LoadFor).
IndexExact ==
    IndexAgrees =>
        /\ {index[k] : k \in DOMAIN index} =
               UNION {{Rows(landed[i])[r] : r \in DOMAIN landed[i].recs} :
                        i \in {j \in DOMAIN landed : landed[j].seq <= ixState.seq}}
        /\ \A k, m \in DOMAIN index : index[k] = index[m] => k = m

\* A pass that reports a session complete read every append source it found to
\* its last byte: nothing pending, half written, failed or in conflict was left
\* unsaid.  The judge acts on this outcome (outcome.go).
CompleteMeansDrained ==
    \A p \in Collectors :
        pc[p] \in {"index", "ixstate", "state"} /\ ~pass[p].left =>
            \A s \in pass[p].found \cap AppendSources :
                cursor[s].state = "active" => pass[p].seen[s] = Offset(cursor[s])

\* The lines up to line n that file g holds, as many as the digest covers, are
\* the lines of f at the same places.
SameText(g, f, n) ==
    \A k \in g.from + 1 .. n :
        k > n - TailWindow => k <= Len(f.lines) /\ f.lines[k] = g.recs[k - g.from]

\* A window is read only behind the text its source's last window landed: the
\* collector "stops that source with a conflict rather than read from a position
\* that no longer means what it did" (claude-code.md).  A cursor left without a
\* digest, when its source went between landing and the digest, cannot be
\* checked; and the digest after it vouches for what was read since, never for
\* the text the unchecked window was read behind.
ResumesOnWhatItRead ==
    [][\A p \in Collectors :
        LET s == pass[p].source IN
        pc[p] = "tail" /\ pc'[p] = "land" /\ s \in AppendSources
            /\ cursor[s].tail # NoDigest =>
                \A i \in DOMAIN landed : landed[i].seq = cursor[s].lastSeq =>
                    SameText(landed[i], src[s], cursor[s].ord)]_vars

\* A cursor never goes back over lines it consumed, and a conflict is never
\* cleared: nothing in the code reads an append source again from its start.
CursorOnlyAdvances ==
    [][\A s \in Sources :
        /\ cursor'[s].ord >= cursor[s].ord
        /\ cursor'[s].lastSeq >= cursor[s].lastSeq
        /\ cursor[s].state = "conflict" => cursor'[s] = cursor[s]]_vars

Settled(s) ==
    \/ src[s] = NoFile
    \/ cursor[s].state = "conflict"
    \/ s \in AppendSources /\ cursor[s].ord = Len(src[s].lines)
    \/ s \in SnapshotSources /\ src[s].lines \in {<<>>, cursor[s].tail}

\* Once the sources are quiet, every source is read to its end or in conflict
\* for good, and the index covers every landed file.  A session nothing is left
\* of is not opened again: its index stays behind until it is parsed, which
\* closes the gap in the same way (parse.go caughtUp).
CatchesUp ==
    <>[](/\ \A s \in Sources : Settled(s)
         /\ landed # <<>> /\ (\E s \in Sources : src[s] # NoFile) =>
                IndexAgrees /\ ixState.seq = Len(landed))

\* Once a pruned file stays gone, its cursor says so, or says conflict,
\* whether or not discovery still finds the session.  Not so for a file that
\* came back between discovery and the check of a lost session, and went again:
\* markLostSessions names this as what one check per session costs.
GoneIsNoted ==
    \A s \in Sources :
        <>[](src[s] = NoFile /\ cursor[s].saved /\ rewrites = 0 =>
                cursor[s].state # "active")

\* What the readers of a session rely on: LandedLog.  A conflict halts a source.
Log == INSTANCE LandedLog WITH
           Appended <- AppendSources,
           log <- landed,
           position <- [s \in Sources |-> cursor[s].ord],
           halted <- {s \in Sources : cursor[s].state = "conflict"}

\* Whatever stops, fails or is rewritten between two steps, each step of a
\* collector is a step of LandedLog, or changes nothing a reader relies on: a
\* file continues its source exactly where the source's cursor is, the cursor
\* moves over the file landed last, and nothing lands of a source in conflict
\* (collect.go landAppend, landSnapshot).
ImplementsLog == Log!Spec
=============================================================================
