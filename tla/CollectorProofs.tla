-------------------------- MODULE CollectorProofs --------------------------
(***************************************************************************)
(* What holds of Collector for every number of collectors and sources, and *)
(* for every bound.  The invariants are proved together: the type of a     *)
(* landed file rests on the window a collector holds, the numbering of the *)
(* files on the counter it holds, and both on the session's lock.          *)
(***************************************************************************)
EXTENDS Collector, SequenceTheorems, FiniteSetTheorems, FunctionTheorems, TLAPS

(* What a collector between two steps of a pass may rely on. *)

\* A collector inside the session holds its lock, so there is one at most.
LockHeld ==
    \A p \in Collectors : pc[p] \in InSession \cup {"marking"} => lock = p

\* The counter in memory is the next free number; the saved one is not past it.
CounterExact ==
    /\ nextSeq <= Len(landed) + 1
    /\ \A p \in Collectors : pc[p] \in InSession => pass[p].next = Len(landed) + 1

\* The source being read is one of the session's, in no conflict; its window
\* begins at its cursor; between landing and commit it is the newest file.
WindowHeld ==
    \A p \in Collectors :
        LET s == pass[p].source
            w == pass[p].chunk
        IN  /\ pc[p] \in {"tail", "land", "commit"} =>
                s \in Sources /\ cursor[s].state # "conflict"
            /\ pc[p] \in {"land", "commit"} /\ s \in AppendSources =>
                w.from = cursor[s].ord
            /\ pc[p] = "commit" =>
                /\ landed # <<>>
                /\ landed[Len(landed)].src = s
                /\ landed[Len(landed)].from = w.from
                /\ landed[Len(landed)].recs = w.lines

\* No cursor names a file that has not landed.
LastSeqLanded == \A s \in Sources : cursor[s].lastSeq <= Len(landed)

Inv == TypeOK /\ LockHeld /\ CounterExact /\ SeqsDense /\ WindowHeld
       /\ LastSeqLanded /\ CursorBehindFiles

-----------------------------------------------------------------------------
(* The operators the actions are built from. *)

LEMMA NoChunkType == NoChunk \in Chunks
  BY DEF NoChunk, Chunks

\* A pass that begins is a pass.
LEMMA NewPassType == NewPass \in Passes
  BY NoChunkType DEF NewPass, Passes, Entries

\* A digest is a text.
LEMMA DigestType ==
    ASSUME NEW f \in File, NEW n \in Nat
    PROVE  Digest(f, n) \in Texts
  <1> DEFINE width == Smaller(n, TailWindow)
             line(k) == IF k <= Len(f.lines) THEN f.lines[k] ELSE NoLine
  <1>1. width \in Nat /\ width <= n
    BY CollectorAssumption DEF Smaller
  <1>2. ASSUME NEW k \in 1 .. width PROVE line(n - width + k) \in Lines \cup {NoLine}
    <2>1. f.lines \in Seq(Lines) /\ n - width + k \in Nat \ {0}
      BY <1>1 DEF File
    <2> QED BY <2>1, ElementOfSeq
  <1> HIDE DEF width, line
  <1>3. [k \in 1 .. width |-> line(n - width + k)] \in Seq(Lines \cup {NoLine})
    BY <1>1, <1>2, IsASeq
  <1> QED BY <1>3 DEF Digest, Texts, width, line

\* A size is a number.
LEMMA SizeType ==
    ASSUME NEW f \in File
    PROVE  Size(f) \in Nat
  <1> DEFINE n == Len(f.lines)
             x == IF f.partial THEN 1 ELSE 0
  <1>1. n \in Nat
    BY LenProperties DEF File
  <1>2. x \in Nat
    OBVIOUS
  <1> HIDE DEF n, x
  <1>3. 2 * n + x \in Nat
    BY <1>1, <1>2
  <1> QED BY <1>3 DEF Size, n, x

\* A window begins at the cursor, holds a line at least, and only lines.
LEMMA WindowType ==
    ASSUME NEW c \in Cursors, NEW f \in File, NEW w \in Windows(c, f)
    PROVE  /\ w \in Chunks
           /\ w.from = c.ord
  <1>1. PICK n \in 1 .. Smaller(MaxDelta, Len(f.lines) - c.ord) :
            w = [ino |-> f.ino, from |-> c.ord,
                 lines |-> SubSeq(f.lines, c.ord + 1, c.ord + n),
                 more |-> 2 * (c.ord + n) < Size(f)]
    BY DEF Windows
  <1>2. f.lines \in Seq(Lines) /\ c.ord \in Nat /\ f.ino \in Inodes
    BY DEF File, Cursors
  <1>3. n \in Nat /\ c.ord + n <= Len(f.lines)
    BY <1>2, CollectorAssumption, LenProperties DEF Smaller
  <1>4. \A i \in c.ord + 1 .. c.ord + n : f.lines[i] \in Lines
    BY <1>2, <1>3, ElementOfSeq
  <1>5. SubSeq(f.lines, c.ord + 1, c.ord + n) \in Seq(Lines)
    BY <1>2, <1>3, <1>4, SubSeqProperties
  <1> DEFINE text == SubSeq(f.lines, c.ord + 1, c.ord + n)
             more == 2 * (c.ord + n) < Size(f)
  <1>6. more \in BOOLEAN
    BY SizeType, <1>2, <1>3
  <1>7. w = [ino |-> f.ino, from |-> c.ord, lines |-> text, more |-> more]
    BY <1>1
  <1>8. text \in Seq(Lines)
    BY <1>5
  <1> HIDE DEF text, more
  <1> QED BY <1>2, <1>6, <1>7, <1>8 DEF Chunks

\* The rows of a landed file are index entries.
LEMMA RowsType ==
    ASSUME NEW f \in LandedFiles
    PROVE  Rows(f) \in Entries
  BY LenProperties, IsASeq DEF Rows, LandedFiles, Entries

\* With dense numbers the highest is the number of files.
LEMMA HighestIsLen ==
    ASSUME landed \in Seq(LandedFiles), SeqsDense
    PROVE  Highest = Len(landed)
  <1> DEFINE n == Len(landed)
             S == {0} \cup {landed[i].seq : i \in DOMAIN landed}
             Top(m) == \A i \in DOMAIN landed : landed[i].seq <= m
  <1>1. n \in Nat
    BY LenProperties
  <1>2. \A i \in DOMAIN landed : landed[i].seq = i
    BY DEF SeqsDense
  <1>3. DOMAIN landed = 1 .. n
    BY LenProperties
  <1> HIDE DEF n
  <1>4. S = 0 .. n
    BY <1>1, <1>2, <1>3
  <1>5. \A m : Top(m) <=> \A i \in 1 .. n : i <= m
    BY <1>2, <1>3
  <1>6. \A m \in 0 .. n : (\A i \in 1 .. n : i <= m) <=> m = n
    BY <1>1
  <1>7. Highest = CHOOSE m \in S : Top(m)
    BY DEF Highest
  <1> HIDE DEF S, Top
  <1>8. \A m \in S : Top(m) <=> m = n
    BY <1>4, <1>5, <1>6
  <1> QED BY <1>1, <1>4, <1>7, <1>8 DEF n

-----------------------------------------------------------------------------
(* Types. *)

\* What the environment does keeps the types.
LEMMA EnvironmentType ==
    ASSUME TypeOK, NEW s \in Sources, Grow(s) \/ Rewrite(s) \/ Prune(s)
    PROVE  TypeOK'
  <1>1. src' \in [Sources -> File \cup {NoFile}]
    <2>1. CASE Grow(s)
      <3>1. src[s] \in File
        BY <2>1 DEF Grow, TypeOK
      <3>2. PICK l \in Lines, half \in BOOLEAN :
                src' = [src EXCEPT ![s].lines = Append(@, l), ![s].partial = half]
        BY <2>1 DEF Grow
      <3>3. Append(src[s].lines, l) \in Seq(Lines)
        BY <3>1 DEF File
      <3>4. [src[s] EXCEPT !.lines = Append(@, l), !.partial = half] \in File
        BY <3>1, <3>3 DEF File
      <3> QED BY <3>2, <3>4 DEF TypeOK
    <2>2. CASE Rewrite(s)
      <3>1. PICK n \in 0 .. Room(s), i \in Inodes, half \in BOOLEAN :
                \E text \in [1 .. n -> Lines] :
                    src' = [src EXCEPT ![s] = [ino |-> i, lines |-> text, partial |-> half]]
        BY <2>2 DEF Rewrite
      <3>2. n \in Nat
        BY CollectorAssumption DEF Room
      <3>3. PICK text \in [1 .. n -> Lines] :
                src' = [src EXCEPT ![s] = [ino |-> i, lines |-> text, partial |-> half]]
        BY <3>1
      <3>4. text \in Seq(Lines)
        BY <3>2, SeqDef
      <3> QED BY <3>3, <3>4 DEF TypeOK, File
    <2>3. CASE Prune(s)
      BY <2>3 DEF Prune, TypeOK
    <2> QED BY <2>1, <2>2, <2>3
  <1>2. rewrites' \in Nat
    BY DEF TypeOK, Grow, Rewrite, Prune
  <1>3. UNCHANGED <<disk, lock, pc, pass, checked, faults>>
    BY DEF Grow, Rewrite, Prune
  <1> QED BY <1>1, <1>2, <1>3 DEF TypeOK, disk

\* A cursor whose state changes is a cursor.
LEMMA StateType ==
    ASSUME NEW s \in Sources, cursor \in [Sources -> Cursors],
           NEW x \in {"active", "source_gone", "conflict"}
    PROVE  /\ [cursor EXCEPT ![s].state = x] \in [Sources -> Cursors]
           /\ [cursor EXCEPT ![s].state = x, ![s].saved = TRUE] \in [Sources -> Cursors]
  <1>1. cursor[s] \in Cursors
    OBVIOUS
  <1> DEFINE d == [cursor[s] EXCEPT !.state = x]
             e == [cursor[s] EXCEPT !.state = x, !.saved = TRUE]
  <1>2. d \in Cursors
    BY <1>1 DEF Cursors
  <1>3. e \in Cursors
    BY <1>1 DEF Cursors
  <1>4. [cursor EXCEPT ![s].state = x] = [cursor EXCEPT ![s] = d]
    OBVIOUS
  <1>5. [cursor EXCEPT ![s].state = x, ![s].saved = TRUE] = [cursor EXCEPT ![s] = e]
    OBVIOUS
  <1> HIDE DEF d, e
  <1> QED BY <1>2, <1>3, <1>4, <1>5

LEMMA MarkGoneType ==
    ASSUME TypeOK, NEW s \in Sources, MarkGone(s)
    PROVE  cursor' \in [Sources -> Cursors]
  BY StateType DEF TypeOK, MarkGone

\* The types of what a pass changes while it looks for gone files.
LEMMA MarkingType ==
    ASSUME TypeOK, NEW p \in Collectors,
           \/ \E s \in Sources : MarkIfGone(p, s) \/ VisitFails(p, s)
           \/ MarkFails(p) \/ Checked(p) \/ Visited(p)
    PROVE  TypeOK'
  <1>1. pass[p] \in Passes
    BY DEF TypeOK
  <1>2. ASSUME NEW s \in Sources, MarkIfGone(p, s) PROVE TypeOK'
    <2>1. cursor' \in [Sources -> Cursors]
      BY <1>2, MarkGoneType DEF MarkIfGone, TypeOK
    <2>2. [pass[p] EXCEPT !.unlisted = @ \ {s}] \in Passes
      BY <1>1 DEF Passes
    <2>3. pass' \in [Collectors -> Passes]
      BY <1>2, <2>2 DEF MarkIfGone, TypeOK
    <2> QED BY <1>2, <2>1, <2>3 DEF MarkIfGone, TypeOK, environment
  <1>3. ASSUME NEW s \in Sources, VisitFails(p, s) PROVE TypeOK'
    <2>1. [pass[p] EXCEPT !.todo = @ \ {s}, !.left = TRUE] \in Passes
      BY <1>1 DEF Passes
    <2>2. pass' \in [Collectors -> Passes]
      BY <1>3, <2>1 DEF VisitFails, TypeOK
    <2>3. UNCHANGED <<environment, disk, lock, pc, checked>> /\ faults' = faults + 1
      BY <1>3 DEF VisitFails
    <2> QED BY <2>2, <2>3 DEF TypeOK, environment, disk
  <1>4. CASE MarkFails(p)
    <2>1. [pass[p] EXCEPT !.left = TRUE, !.unlisted = {}] \in Passes
      BY <1>1 DEF Passes
    <2>2. pass' \in [Collectors -> Passes]
      BY <1>4, <2>1 DEF MarkFails, TypeOK
    <2> QED BY <1>4, <2>2 DEF MarkFails, TypeOK, environment, disk
  <1>5. CASE Checked(p)
    <2>1. pass' \in [Collectors -> Passes]
      BY <1>5, NewPassType DEF Checked, TypeOK
    <2>2. pc' \in [Collectors -> InSession \cup {"idle", "found", "lost", "marking"}]
      BY <1>5 DEF Checked, TypeOK
    <2> QED BY <1>5, <2>1, <2>2 DEF Checked, TypeOK, environment, disk
  <1>6. CASE Visited(p)
    <2>1. pc' \in [Collectors -> InSession \cup {"idle", "found", "lost", "marking"}]
      BY <1>6 DEF Visited, TypeOK, InSession
    <2> QED BY <1>6, <2>1 DEF Visited, TypeOK, environment, disk
  <1> QED BY <1>2, <1>3, <1>4, <1>5, <1>6

PCs == InSession \cup {"idle", "found", "lost", "marking"}

\* Beginning a pass, and what is done before the first source is visited.
LEMMA OpeningType ==
    ASSUME TypeOK, SeqsDense, NEW p \in Collectors,
           Discover(p) \/ CheckLost(p) \/ Busy(p) \/ Open(p) \/ Reindex(p)
    PROVE  TypeOK'
  <1>1. pass[p] \in Passes
    BY DEF TypeOK
  <1>2. CASE Discover(p)
    <2> DEFINE found == {s \in Sources : src[s] # NoFile}
    <2>1. found \in SUBSET Sources
      OBVIOUS
    <2> HIDE DEF found
    <2>2. [NewPass EXCEPT !.found = found] \in Passes
      BY <2>1, NewPassType DEF Passes
    <2>3. \E x \in Passes : pass' = [pass EXCEPT ![p] = x]
      BY <1>2, <2>2, NewPassType DEF Discover, found
    <2>4. pass' \in [Collectors -> Passes]
      BY <2>3 DEF TypeOK
    <2>5. pc' \in [Collectors -> PCs] /\ checked' \in SUBSET Collectors
      BY <1>2 DEF Discover, TypeOK, PCs
    <2> QED BY <1>2, <2>4, <2>5 DEF Discover, TypeOK, PCs, environment, disk
  <1>3. CASE CheckLost(p)
    <2>1. Unlisted({}) \in SUBSET Sources
      BY DEF Unlisted
    <2> HIDE DEF Unlisted
    <2>2. [pass[p] EXCEPT !.unlisted = Unlisted({})] \in Passes
      BY <1>1, <2>1 DEF Passes
    <2>3. pass' \in [Collectors -> Passes]
      BY <1>3, <2>2 DEF CheckLost, TypeOK
    <2>4. pc' \in [Collectors -> PCs] /\ lock' \in Collectors \cup {NoProc}
      BY <1>3 DEF CheckLost, LockSession, TypeOK, PCs
    <2> QED BY <1>3, <2>3, <2>4 DEF CheckLost, TypeOK, PCs, environment, disk
  <1>4. CASE Busy(p)
    <2>1. pass' \in [Collectors -> Passes] /\ pc' \in [Collectors -> PCs]
      BY <1>4, NewPassType DEF Busy, TypeOK, PCs
    <2> QED BY <1>4, <2>1 DEF Busy, TypeOK, PCs, environment, disk
  <1>5. CASE Open(p)
    <2> DEFINE x == IF LoadFor THEN index ELSE <<>>
               to == IF LoadFor THEN ixState.seq ELSE 0
               found == pass[p].found
               un == Unlisted(found)
    <2>1. x \in Entries /\ to \in Nat
      BY DEF TypeOK, Entries
    <2>2. RecoverNextSeq \in Nat \ {0}
      <3>1. Highest \in Nat
        BY HighestIsLen, LenProperties DEF TypeOK
      <3> QED BY <3>1 DEF RecoverNextSeq, TypeOK
    <2>3. found \in SUBSET Sources /\ un \in SUBSET Sources
      BY <1>1 DEF Passes, Unlisted
    <2>4. pass' = [pass EXCEPT ![p].todo = found, ![p].unlisted = un,
                               ![p].next = RecoverNextSeq, ![p].ix = x, ![p].ixTo = to]
      BY <1>5 DEF Open
    <2> HIDE DEF x, to, found, un
    <2>5. [pass[p] EXCEPT !.todo = found, !.unlisted = un, !.next = RecoverNextSeq,
                          !.ix = x, !.ixTo = to] \in Passes
      BY <1>1, <2>1, <2>2, <2>3 DEF Passes
    <2>6. pass' \in [Collectors -> Passes]
      BY <2>4, <2>5 DEF TypeOK
    <2>7. pc' \in [Collectors -> PCs] /\ lock' \in Collectors \cup {NoProc}
      BY <1>5 DEF Open, LockSession, TypeOK, PCs, InSession
    <2> QED BY <1>5, <2>6, <2>7 DEF Open, TypeOK, PCs, environment, disk
  <1>6. CASE Reindex(p)
    <2>1. pc' \in [Collectors -> PCs]
      BY <1>6 DEF Reindex, TypeOK, PCs, InSession
    <2>2. pass' \in [Collectors -> Passes]
      <3>1. CASE pass' = pass
        BY <3>1 DEF TypeOK
      <3>2. CASE pass' # pass
        <4>1. PICK i \in DOMAIN landed :
                 pass' = [pass EXCEPT ![p].ix = @ \o Rows(landed[i]),
                                      ![p].ixTo = landed[i].seq, ![p].dirty = TRUE]
          BY <1>6, <3>2 DEF Reindex
        <4>2. landed[i] \in LandedFiles
          BY DEF TypeOK
        <4>3. pass[p].ix \o Rows(landed[i]) \in Entries
          BY <1>1, <4>2, RowsType DEF Passes, Entries
        <4>4. landed[i].seq \in Nat
          BY <4>2 DEF LandedFiles
        <4>5. [pass[p] EXCEPT !.ix = @ \o Rows(landed[i]), !.ixTo = landed[i].seq,
                              !.dirty = TRUE] \in Passes
          BY <1>1, <4>3, <4>4 DEF Passes
        <4> QED BY <4>1, <4>5 DEF TypeOK
      <3> QED BY <3>1, <3>2
    <2> QED BY <1>6, <2>1, <2>2 DEF Reindex, TypeOK, PCs, environment, disk
  <1> QED BY <1>2, <1>3, <1>4, <1>5, <1>6

\* Reading a window and landing it, and what a failure leaves.
LEMMA LandingType ==
    ASSUME TypeOK, WindowHeld, NEW p \in Collectors,
           ReadWindow(p) \/ ReadSnapshot(p) \/ Land(p) \/ SourceFails(p)
    PROVE  TypeOK'
  <1> DEFINE s == pass[p].source
  <1>1. pass[p] \in Passes
    BY DEF TypeOK
  <1>2. pc[p] \in {"tail", "land"} => s \in Sources
    BY DEF WindowHeld
  <1>3. pc' \in [Collectors -> PCs]
    BY DEF ReadWindow, ReadSnapshot, Land, SourceFails, TypeOK, PCs, InSession
  <1>4. CASE ReadWindow(p)
    <2>1. s \in Sources /\ src[s] \in File /\ cursor[s] \in Cursors
      BY <1>2, <1>4 DEF ReadWindow, TypeOK
    <2>2. PICK w \in Windows(cursor[s], src[s]) :
              pass' = [pass EXCEPT ![p].chunk = w, ![p].seen[s] = Size(src[s])]
      BY <1>4 DEF ReadWindow
    <2>3. w \in Chunks
      BY <2>1, WindowType
    <2>4. Size(src[s]) \in Int
      BY <2>1, SizeType
    <2>5. [pass[p].seen EXCEPT ![s] = Size(src[s])] \in [Sources -> Int]
      BY <1>1, <2>4 DEF Passes
    <2> HIDE DEF s
    <2>6. [pass[p] EXCEPT !.chunk = w, !.seen[s] = Size(src[s])] \in Passes
      BY <1>1, <2>3, <2>5 DEF Passes
    <2>7. pass' \in [Collectors -> Passes]
      BY <2>2, <2>6 DEF TypeOK
    <2> QED BY <1>3, <1>4, <2>7 DEF ReadWindow, TypeOK, PCs, environment, disk
  <1>5. CASE ReadSnapshot(p)
    <2>1. s \in Sources /\ src[s] \in File
      BY <1>2, <1>5 DEF ReadSnapshot, TypeOK
    <2> DEFINE w == [ino |-> src[s].ino, from |-> 0, lines |-> src[s].lines, more |-> FALSE]
    <2>2. w \in Chunks
      BY <2>1 DEF File, Chunks
    <2>3. pass' = pass \/ pass' = [pass EXCEPT ![p].chunk = w]
      BY <1>5 DEF ReadSnapshot
    <2> HIDE DEF w
    <2>4. [pass[p] EXCEPT !.chunk = w] \in Passes
      BY <1>1, <2>2 DEF Passes
    <2>5. pass' \in [Collectors -> Passes]
      BY <2>3, <2>4 DEF TypeOK
    <2> QED BY <1>3, <1>5, <2>5 DEF ReadSnapshot, TypeOK, PCs, environment, disk
  <1>6. CASE Land(p)
    <2> DEFINE f == [seq |-> pass[p].next, src |-> s, from |-> pass[p].chunk.from,
                     recs |-> pass[p].chunk.lines]
    <2>1. s \in Sources
      BY <1>2, <1>6 DEF Land
    <2>2. pass[p].next \in Nat \ {0} /\ pass[p].chunk \in Chunks /\ pass[p].ix \in Entries
      BY <1>1 DEF Passes
    <2>3. f \in LandedFiles
      BY <2>1, <2>2 DEF LandedFiles, Chunks
    <2>4. /\ landed' = Append(landed, f)
          /\ pass' = [pass EXCEPT ![p].next = @ + 1, ![p].ix = @ \o Rows(f)]
      BY <1>6 DEF Land
    <2> HIDE DEF f
    <2>5. landed' \in Seq(LandedFiles)
      BY <2>3, <2>4 DEF TypeOK
    <2>6. pass[p].ix \o Rows(f) \in Entries
      BY <2>2, <2>3, RowsType DEF Entries
    <2> DEFINE next == pass[p].next + 1
               ix == pass[p].ix \o Rows(f)
    <2>7. next \in Nat \ {0} /\ pass' = [pass EXCEPT ![p].next = next, ![p].ix = ix]
      BY <2>2, <2>4
    <2> HIDE DEF next, ix
    <2>8. [pass[p] EXCEPT !.next = next, !.ix = ix] \in Passes
      BY <1>1, <2>6, <2>7 DEF Passes, ix
    <2>9. pass' \in [Collectors -> Passes]
      BY <2>7, <2>8 DEF TypeOK
    <2> QED BY <1>3, <1>6, <2>5, <2>9 DEF Land, TypeOK, PCs, environment
  <1>7. CASE SourceFails(p)
    <2>1. [pass[p] EXCEPT !.left = TRUE, !.chunk = NoChunk] \in Passes
      BY <1>1, NoChunkType DEF Passes
    <2>2. pass' \in [Collectors -> Passes]
      BY <1>7, <2>1 DEF SourceFails, TypeOK
    <2> QED BY <1>3, <1>7, <2>2 DEF SourceFails, TypeOK, PCs, environment, disk
  <1> QED BY <1>4, <1>5, <1>6, <1>7

\* The writes a pass ends with, and a crash.
LEMMA ClosingType ==
    ASSUME TypeOK, NEW p \in Collectors,
           WriteIndex(p) \/ SaveIndexState(p) \/ Close(p) \/ Crash(p)
    PROVE  TypeOK'
  <1>1. pass[p].ix \in Entries /\ pass[p].next \in Nat \ {0}
    BY DEF TypeOK, Passes
  <1>2. pc' \in [Collectors -> PCs]
    BY DEF WriteIndex, SaveIndexState, Close, Crash, TypeOK, PCs, InSession
  <1>3. CASE WriteIndex(p)
    BY <1>1, <1>2, <1>3 DEF WriteIndex, TypeOK, PCs, environment
  <1>4. CASE SaveIndexState(p)
    <2>1. pass[p].next - 1 \in Nat /\ Len(pass[p].ix) \in Nat
      BY <1>1, LenProperties DEF Entries
    <2> QED BY <1>2, <1>4, <2>1 DEF SaveIndexState, TypeOK, PCs, environment
  <1>5. CASE Close(p)
    <2>1. pass' \in [Collectors -> Passes]
      BY <1>5, NewPassType DEF Close, TypeOK
    <2> QED BY <1>1, <1>2, <1>5, <2>1 DEF Close, TypeOK, PCs, environment
  <1>6. CASE Crash(p)
    <2>1. pass' \in [Collectors -> Passes]
      BY <1>6, NewPassType DEF Crash, TypeOK
    <2> QED BY <1>2, <1>6, <2>1 DEF Crash, TypeOK, PCs, environment, disk
  <1> QED BY <1>3, <1>4, <1>5, <1>6

\* The cursor a window is committed to.
LEMMA CommittedType ==
    ASSUME TypeOK, NEW p \in Collectors, NEW s \in Sources
    PROVE  /\ Committed(p, s) \in Cursors
           /\ Committed(p, s).state = "active"
           /\ Committed(p, s).lastSeq = pass[p].next - 1
           /\ s \in SnapshotSources =>
                /\ Committed(p, s).ord = cursor[s].ord
                /\ Committed(p, s).tail = pass[p].chunk.lines
           /\ s \notin SnapshotSources => Committed(p, s).ord = Through(pass[p].chunk)
  <1> DEFINE c == cursor[s]
             w == pass[p].chunk
             last == pass[p].next - 1
             to == Through(w)
             tail == IF src[s] = NoFile THEN NoDigest ELSE Digest(src[s], to)
  <1>1. pass[p] \in Passes /\ c \in Cursors
    BY DEF TypeOK
  <1>2. w \in Chunks /\ last \in Nat
    BY <1>1 DEF Passes
  <1>3. w.ino \in Inodes \cup {NoIno} /\ w.from \in Nat /\ w.lines \in Seq(Lines)
    BY <1>2 DEF Chunks
  <1>4. to \in Nat
    BY <1>3, LenProperties DEF Through
  <1>5. CASE s \in SnapshotSources
    <2>1. Committed(p, s) = [c EXCEPT !.saved = TRUE, !.state = "active",
                                      !.tail = w.lines, !.lastSeq = last]
      BY <1>5 DEF Committed
    <2>2. w.lines \in Texts \cup {NoDigest}
      BY <1>3, SeqDef DEF Texts
    <2> HIDE DEF c, w, last
    <2>3. Committed(p, s) \in Cursors
      BY <1>1, <1>2, <2>1, <2>2 DEF Cursors
    <2>4. /\ Committed(p, s).state = "active" /\ Committed(p, s).lastSeq = last
          /\ Committed(p, s).ord = c.ord /\ Committed(p, s).tail = w.lines
      BY <1>1, <2>1 DEF Cursors
    <2> QED BY <1>5, <2>3, <2>4 DEF c, w, last
  <1>6. CASE s \notin SnapshotSources
    <2>1. Committed(p, s) = [saved |-> TRUE, state |-> "active", ino |-> w.ino,
                             ord |-> to, tail |-> tail, lastSeq |-> last]
      BY <1>6 DEF Committed
    <2>2. tail \in Texts \cup {NoDigest}
      BY <1>4, DigestType DEF TypeOK
    <2> HIDE DEF c, w, last, to, tail
    <2>3. Committed(p, s) \in Cursors
      BY <1>2, <1>3, <1>4, <2>1, <2>2 DEF Cursors
    <2> QED BY <1>6, <2>1, <2>3 DEF w, last, to
  <1> QED BY <1>5, <1>6

\* The steps of a source that change its cursor.
LEMMA CursorType ==
    ASSUME TypeOK, WindowHeld, NEW p \in Collectors,
           \/ \E s \in Sources : Visit(p, s)
           \/ FoundGone(p) \/ FindConflict(p) \/ NothingNew(p) \/ Commit(p)
    PROVE  TypeOK'
  <1>1. pass[p] \in Passes /\ cursor \in [Sources -> Cursors]
    BY DEF TypeOK
  <1>2. pc[p] \in {"tail", "commit"} => pass[p].source \in Sources
    BY DEF WindowHeld
  <1>3. pc' \in [Collectors -> PCs]
    BY DEF Visit, FoundGone, FindConflict, NothingNew, Commit, TypeOK, PCs, InSession
  <1>4. ASSUME NEW s \in Sources, Visit(p, s) PROVE TypeOK'
    <2>1. [pass[p] EXCEPT !.todo = @ \ {s}, !.left = TRUE] \in Passes
      BY <1>1 DEF Passes
    <2>2. [pass[p] EXCEPT !.todo = @ \ {s}, !.source = s, !.rounds = 0] \in Passes
      BY <1>1 DEF Passes
    <2>3. pass' \in [Collectors -> Passes]
      BY <1>4, <2>1, <2>2 DEF Visit, TypeOK
    <2>4. cursor' \in [Sources -> Cursors]
      BY <1>1, <1>4, StateType DEF Visit
    <2> QED BY <1>3, <1>4, <2>3, <2>4 DEF Visit, TypeOK, PCs, environment
  <1>5. CASE FoundGone(p)
    <2>1. cursor' \in [Sources -> Cursors]
      BY <1>2, <1>5, MarkGoneType DEF FoundGone
    <2> QED BY <1>3, <1>5, <2>1 DEF FoundGone, TypeOK, PCs, environment
  <1>6. CASE FindConflict(p)
    <2>1. cursor' \in [Sources -> Cursors]
      BY <1>1, <1>2, <1>6, StateType DEF FindConflict
    <2>2. [pass[p] EXCEPT !.left = TRUE] \in Passes
      BY <1>1 DEF Passes
    <2>3. pass' \in [Collectors -> Passes]
      BY <1>6, <2>2 DEF FindConflict, TypeOK
    <2> QED BY <1>3, <1>6, <2>1, <2>3 DEF FindConflict, TypeOK, PCs, environment
  <1>7. CASE NothingNew(p)
    <2> DEFINE s == pass[p].source
               f == src[s]
               size == Size(f)
               left == pass[p].left \/ Unfinished(f)
    <2>1. s \in Sources /\ f \in File
      BY <1>2, <1>7 DEF NothingNew, TypeOK
    <2>2. size \in Int /\ left \in BOOLEAN
      BY <1>1, <2>1, SizeType DEF Passes, File, Unfinished
    <2>3. \/ cursor' = cursor
          \/ cursor' = [cursor EXCEPT ![s].ino = f.ino, ![s].saved = TRUE]
      BY <1>7 DEF NothingNew
    <2>4. pass' = [pass EXCEPT ![p].left = left, ![p].seen[s] = size]
      BY <1>7 DEF NothingNew
    <2>5. cursor[s] \in Cursors /\ f.ino \in Inodes
      BY <1>1, <2>1 DEF File
    <2> HIDE DEF s, f, size, left
    <2>6. [cursor[s] EXCEPT !.ino = f.ino, !.saved = TRUE] \in Cursors
      BY <2>5 DEF Cursors
    <2>7. cursor' \in [Sources -> Cursors]
      BY <1>1, <2>1, <2>3, <2>6
    <2>8. [pass[p].seen EXCEPT ![s] = size] \in [Sources -> Int]
      BY <1>1, <2>2 DEF Passes
    <2>9. [pass[p] EXCEPT !.left = left, !.seen[s] = size] \in Passes
      BY <1>1, <2>2, <2>8 DEF Passes
    <2>10. pass' \in [Collectors -> Passes]
      BY <2>4, <2>9 DEF TypeOK
    <2> QED BY <1>3, <1>7, <2>7, <2>10 DEF NothingNew, TypeOK, PCs, environment
  <1>8. CASE Commit(p)
    <2> DEFINE s == pass[p].source
               again == pass[p].chunk.more /\ pass[p].rounds < MaxRounds
               rounds == IF again THEN pass[p].rounds + 1 ELSE pass[p].rounds
               left == pass[p].left \/ (pass[p].chunk.more /\ ~again)
    <2>1. s \in Sources
      BY <1>2, <1>8 DEF Commit
    <2>2. cursor' \in [Sources -> Cursors]
      BY <1>1, <1>8, <2>1, CommittedType DEF Commit
    <2>3. rounds \in Nat /\ left \in BOOLEAN
      BY <1>1 DEF Passes, Chunks
    <2>4. pass' = [pass EXCEPT ![p].dirty = TRUE, ![p].chunk = NoChunk,
                               ![p].rounds = rounds, ![p].left = left]
      BY <1>8 DEF Commit
    <2> HIDE DEF s, again, rounds, left
    <2>5. [pass[p] EXCEPT !.dirty = TRUE, !.chunk = NoChunk, !.rounds = rounds,
                          !.left = left] \in Passes
      BY <1>1, <2>3, NoChunkType DEF Passes
    <2>6. pass' \in [Collectors -> Passes]
      BY <2>4, <2>5 DEF TypeOK
    <2> QED BY <1>3, <1>8, <2>2, <2>6 DEF Commit, TypeOK, PCs, environment
  <1> QED BY <1>4, <1>5, <1>6, <1>7, <1>8

\* What one process does, or what befalls it.
Act(p) == Step(p) \/ (\E s \in Sources : VisitFails(p, s))
          \/ SourceFails(p) \/ MarkFails(p) \/ Crash(p)

\* What the sources do.
Environment == \E s \in Sources : Grow(s) \/ Rewrite(s) \/ Prune(s)

LEMMA NextIsActs == Next <=> Environment \/ \E p \in Collectors : Act(p)
  BY DEF Next, Environment, Act

LEMMA TypeStep ==
    ASSUME Inv, Next
    PROVE  TypeOK'
  <1>1. CASE Environment
    BY <1>1, EnvironmentType DEF Inv, Environment
  <1>2. ASSUME NEW p \in Collectors, Act(p) PROVE TypeOK'
    <2>1. TypeOK /\ SeqsDense /\ WindowHeld
      BY DEF Inv
    <2>2. CASE Discover(p) \/ CheckLost(p) \/ Busy(p) \/ Open(p) \/ Reindex(p)
      BY <2>1, <2>2, OpeningType
    <2>3. CASE ReadWindow(p) \/ ReadSnapshot(p) \/ Land(p) \/ SourceFails(p)
      BY <2>1, <2>3, LandingType
    <2>4. CASE WriteIndex(p) \/ SaveIndexState(p) \/ Close(p) \/ Crash(p)
      BY <2>1, <2>4, ClosingType
    <2>5. CASE \/ \E s \in Sources : Visit(p, s)
               \/ FoundGone(p) \/ FindConflict(p) \/ NothingNew(p) \/ Commit(p)
      BY <2>1, <2>5, CursorType
    <2>6. CASE \/ \E s \in Sources : MarkIfGone(p, s) \/ VisitFails(p, s)
               \/ MarkFails(p) \/ Checked(p) \/ Visited(p)
      BY <2>1, <2>6, MarkingType
    <2> QED BY <1>2, <2>2, <2>3, <2>4, <2>5, <2>6 DEF Act, Step
  <1> QED BY <1>1, <1>2, NextIsActs

-----------------------------------------------------------------------------
(* The lock, and what it protects. *)

\* A process changes nothing another holds in memory.
LEMMA OthersUntouched ==
    ASSUME TypeOK, NEW p \in Collectors, Act(p), NEW q \in Collectors, q # p
    PROVE  pc'[q] = pc[q] /\ pass'[q] = pass[q]
  <1>1. pc \in [Collectors -> PCs] /\ pass \in [Collectors -> Passes]
    BY DEF TypeOK, PCs
  <1> HIDE DEF TypeOK
  <1>2. CASE Discover(p) \/ CheckLost(p) \/ Busy(p) \/ Open(p) \/ Reindex(p)
    BY <1>1, <1>2 DEF Discover, CheckLost, Busy, Open, Reindex
  <1>3. CASE ReadWindow(p) \/ ReadSnapshot(p) \/ Land(p) \/ SourceFails(p)
    BY <1>1, <1>3 DEF ReadWindow, ReadSnapshot, Land, SourceFails
  <1>4. CASE WriteIndex(p) \/ SaveIndexState(p) \/ Close(p) \/ Crash(p)
    BY <1>1, <1>4 DEF WriteIndex, SaveIndexState, Close, Crash
  <1>5. CASE FoundGone(p) \/ FindConflict(p) \/ NothingNew(p) \/ Commit(p)
    BY <1>1, <1>5 DEF FoundGone, FindConflict, NothingNew, Commit
  <1>6. ASSUME NEW s \in Sources, Visit(p, s) \/ MarkIfGone(p, s) \/ VisitFails(p, s)
        PROVE  pc'[q] = pc[q] /\ pass'[q] = pass[q]
    BY <1>1, <1>6 DEF Visit, MarkIfGone, VisitFails
  <1>7. CASE MarkFails(p) \/ Checked(p) \/ Visited(p)
    BY <1>1, <1>7 DEF MarkFails, Checked, Visited
  <1> QED BY <1>2, <1>3, <1>4, <1>5, <1>6, <1>7 DEF Act, Step

Held == InSession \cup {"marking"}

\* A process in the session holds the lock after its step, and only a free
\* lock or its own changes hands.
LEMMA LockOfActor ==
    ASSUME TypeOK, LockHeld, NEW p \in Collectors, Act(p)
    PROVE  /\ pc'[p] \in Held => lock' = p
           /\ lock' # lock => lock \in {NoProc, p}
  <1>1. pc \in [Collectors -> PCs] /\ (pc[p] \in Held => lock = p)
    BY DEF TypeOK, PCs, LockHeld, Held
  <1>2. CASE Discover(p) \/ CheckLost(p) \/ Busy(p) \/ Open(p) \/ Reindex(p)
    BY <1>1, <1>2 DEF Discover, CheckLost, Busy, Open, Reindex, LockSession, disk, Held, InSession
  <1>3. CASE ReadWindow(p) \/ ReadSnapshot(p) \/ Land(p) \/ SourceFails(p)
    BY <1>1, <1>3 DEF ReadWindow, ReadSnapshot, Land, SourceFails, disk, Held, InSession
  <1>4. CASE WriteIndex(p) \/ SaveIndexState(p) \/ Close(p) \/ Crash(p)
    BY <1>1, <1>4 DEF WriteIndex, SaveIndexState, Close, Crash, disk, Held, InSession
  <1>5. CASE FoundGone(p) \/ FindConflict(p) \/ NothingNew(p) \/ Commit(p)
    BY <1>1, <1>5 DEF FoundGone, FindConflict, NothingNew, Commit, Held, InSession
  <1>6. ASSUME NEW s \in Sources, Visit(p, s) \/ MarkIfGone(p, s) \/ VisitFails(p, s)
        PROVE  /\ pc'[p] \in Held => lock' = p
               /\ lock' # lock => lock \in {NoProc, p}
    BY <1>1, <1>6 DEF Visit, MarkIfGone, VisitFails, Marking, Held, InSession
  <1>7. CASE MarkFails(p) \/ Checked(p) \/ Visited(p)
    BY <1>1, <1>7 DEF MarkFails, Checked, Visited, Held, InSession
  <1> QED BY <1>2, <1>3, <1>4, <1>5, <1>6, <1>7 DEF Act, Step

LEMMA LockStep ==
    ASSUME Inv, Next
    PROVE  LockHeld'
  <1>1. CASE Environment
    <2>1. UNCHANGED <<lock, pc>>
      BY <1>1 DEF Environment, Grow, Rewrite, Prune
    <2> QED BY <2>1 DEF Inv, LockHeld
  <1>2. ASSUME NEW p \in Collectors, Act(p), NEW q \in Collectors, pc'[q] \in Held
        PROVE  lock' = q
    <2>1. CASE q = p
      BY <1>2, <2>1, LockOfActor DEF Inv
    <2>2. CASE q # p
      <3>1. pc[q] \in Held
        BY <1>2, <2>2, OthersUntouched DEF Inv
      <3>2. lock = q
        BY <3>1 DEF Inv, LockHeld, Held
      <3>3. lock \notin {NoProc, p}
        BY <2>2, <3>2, CollectorAssumption
      <3> QED BY <1>2, <3>2, <3>3, LockOfActor DEF Inv
    <2> QED BY <2>1, <2>2
  <1> QED BY <1>1, <1>2, NextIsActs DEF LockHeld, Held

-----------------------------------------------------------------------------
(* The counter and the numbers of the files. *)

\* Only a collector inside the session, or checking it while lost, changes what
\* the session keeps on disk; only one landing a window adds a file.
LEMMA DiskOfActor ==
    ASSUME NEW p \in Collectors, Act(p)
    PROVE  /\ disk' # disk => pc[p] \in Held
           /\ landed' # landed => Land(p)
           /\ nextSeq' # nextSeq => Close(p)
  <1> DEFINE G == /\ disk' # disk => pc[p] \in Held
                  /\ landed' # landed => Land(p)
                  /\ nextSeq' # nextSeq => Close(p)
  <1>1. CASE Discover(p) \/ CheckLost(p) \/ Busy(p) \/ Open(p) \/ Reindex(p)
    BY <1>1 DEF Discover, CheckLost, Busy, Open, Reindex, disk
  <1>2. CASE ReadWindow(p) \/ ReadSnapshot(p) \/ Land(p) \/ SourceFails(p)
    <2>1. CASE Land(p)
      BY <2>1 DEF Land, Held, InSession
    <2> QED BY <1>2, <2>1 DEF ReadWindow, ReadSnapshot, SourceFails, disk
  <1>3. CASE WriteIndex(p) \/ SaveIndexState(p) \/ Close(p) \/ Crash(p)
    <2>1. CASE Close(p)
      BY <2>1 DEF Close, Held, InSession
    <2> QED BY <1>3, <2>1 DEF WriteIndex, SaveIndexState, Crash, disk, Held, InSession
  <1>4. CASE FoundGone(p) \/ FindConflict(p) \/ NothingNew(p) \/ Commit(p)
    BY <1>4 DEF FoundGone, FindConflict, NothingNew, Commit, Held, InSession
  <1>5. ASSUME NEW s \in Sources, Visit(p, s) \/ MarkIfGone(p, s) \/ VisitFails(p, s)
        PROVE  G
    BY <1>5 DEF Visit, MarkIfGone, VisitFails, Marking, disk, Held, InSession
  <1>6. CASE MarkFails(p) \/ Checked(p) \/ Visited(p)
    BY <1>6 DEF MarkFails, Checked, Visited, disk
  <1> QED BY <1>1, <1>2, <1>3, <1>4, <1>5, <1>6 DEF Act, Step

\* While one holds the lock, no other changes anything on disk.
LEMMA OthersWait ==
    ASSUME Inv, NEW p \in Collectors, Act(p),
           NEW q \in Collectors, q # p, pc[q] \in Held
    PROVE  UNCHANGED disk
  <1>1. lock = q
    BY DEF Inv, LockHeld, Held
  <1>2. pc[p] \notin Held
    BY <1>1 DEF Inv, LockHeld, Held
  <1> QED BY <1>2, DiskOfActor

\* A file is added at the end, with the next number, and no other changes.
LEMMA LandedGrows ==
    ASSUME Inv, NEW p \in Collectors, Act(p)
    PROVE  /\ Len(landed') >= Len(landed)
           /\ \A i \in 1 .. Len(landed) : landed'[i] = landed[i]
           /\ SeqsDense'
           /\ Land(p) => Len(landed') = Len(landed) + 1
  <1> DEFINE n == Len(landed)
  <1>1. landed \in Seq(LandedFiles) /\ n \in Nat
    BY LenProperties DEF Inv, TypeOK
  <1>2. \A i \in 1 .. n : landed[i].seq = i
    BY <1>1, LenProperties DEF Inv, SeqsDense
  <1>3. CASE landed' = landed
    <2>1. ~Land(p)
      <3>1. Land(p) => Len(landed') = n + 1
        BY <1>1, AppendProperties DEF Land
      <3> QED BY <1>1, <1>3, <3>1
    <2>2. SeqsDense'
      BY <1>3 DEF Inv, SeqsDense
    <2>3. Len(landed') = n /\ (\A i \in 1 .. n : landed'[i] = landed[i])
      BY <1>3
    <2> HIDE DEF n
    <2> QED BY <1>1, <2>1, <2>2, <2>3 DEF n
  <1>4. CASE landed' # landed
    <2>1. Land(p)
      BY <1>4, DiskOfActor
    <2> DEFINE f == [seq |-> pass[p].next, src |-> pass[p].source,
                     from |-> pass[p].chunk.from, recs |-> pass[p].chunk.lines]
    <2>2. landed' = Append(landed, f)
      BY <2>1 DEF Land
    <2>3. f.seq = n + 1
      BY <2>1 DEF Land, Inv, CounterExact, InSession
    <2>4. landed \in Seq(LandedFiles \cup {f})
      BY <1>1
    <2> HIDE DEF f, n
    <2>5. Len(landed') = n + 1 /\ landed'[n + 1] = f
      BY <2>2, <2>4, AppendProperties DEF n
    <2>6. \A i \in 1 .. n : landed'[i] = landed[i]
      BY <2>2, <2>4, AppendProperties DEF n
    <2>7. DOMAIN landed' = 1 .. n + 1
      BY <2>2, <2>4, AppendProperties, LenProperties DEF n
    <2>8. \A i \in 1 .. n + 1 : landed'[i].seq = i
      BY <1>1, <1>2, <2>3, <2>5, <2>6
    <2>9. SeqsDense'
      BY <2>7, <2>8 DEF SeqsDense
    <2> QED BY <1>1, <2>1, <2>5, <2>6, <2>9 DEF n
  <1> QED BY <1>3, <1>4

\* What the sources do leaves every process and the disk alone.
LEMMA EnvironmentQuiet ==
    ASSUME Environment
    PROVE  UNCHANGED <<disk, lock, pc, pass, checked, faults>>
  BY DEF Environment, Grow, Rewrite, Prune

LEMMA CounterStep ==
    ASSUME Inv, Next
    PROVE  CounterExact'
  <1>1. CASE Environment
    BY <1>1, EnvironmentQuiet DEF Inv, CounterExact, disk
  <1> DEFINE n == Len(landed)
             m == Len(landed')
  <1>2. ASSUME NEW p \in Collectors, Act(p) PROVE CounterExact'
    <2>1. n \in Nat /\ m \in Nat /\ m >= n /\ (Land(p) => m = n + 1)
          /\ (~Land(p) => m = n)
      <3>1. m \in Nat
        BY TypeStep, LenProperties DEF TypeOK
      <3>2. ~Land(p) => m = n
        BY <1>2, DiskOfActor
      <3> QED BY <1>2, <3>1, <3>2, LandedGrows, LenProperties DEF Inv, TypeOK
    <2>2. pass \in [Collectors -> Passes] /\ pc \in [Collectors -> PCs]
          /\ nextSeq \in Nat /\ nextSeq <= n + 1
          /\ \A q \in Collectors : pc[q] \in InSession => pass[q].next = n + 1
      BY DEF Inv, TypeOK, PCs, CounterExact
    <2>3. pass[p].next \in Nat
      BY <2>2 DEF Passes
    <2>4. RecoverNextSeq = n + 1
      BY <2>1, <2>2, HighestIsLen DEF RecoverNextSeq, Inv, TypeOK
    <2> HIDE DEF n, m
    <2>5. nextSeq' <= m + 1
      <3>1. CASE Close(p)
        BY <2>1, <2>2, <3>1 DEF Close, InSession
      <3>2. CASE ~Close(p)
        BY <1>2, <2>1, <2>2, <3>2, DiskOfActor
      <3> QED BY <3>1, <3>2
    <2>6. ASSUME pc'[p] \in InSession PROVE pass'[p].next = m + 1
      <3>1. pass[p] \in Passes
        BY <2>2
      <3>2. CASE Land(p)
        <4>1. pass[p].next = n + 1
          BY <2>2, <3>2 DEF Land, InSession
        <4>2. pass'[p].next = pass[p].next + 1
          BY <2>2, <3>1, <3>2 DEF Land, Passes
        <4> QED BY <2>1, <3>2, <4>1, <4>2
      <3>3. CASE Open(p)
        <4>1. pass'[p].next = RecoverNextSeq
          BY <2>2, <3>1, <3>3 DEF Open, Passes
        <4>2. ~Land(p)
          BY <3>3 DEF Open, Land
        <4> QED BY <2>1, <2>4, <4>1, <4>2
      <3>4. CASE ~Land(p) /\ ~Open(p)
        <4>1. pc[p] \in InSession /\ pass'[p].next = pass[p].next
          <5>1. CASE Discover(p) \/ CheckLost(p) \/ Busy(p) \/ Reindex(p)
            <6>1. CASE Discover(p) \/ CheckLost(p) \/ Busy(p)
              <7>1. pc'[p] \in {"found", "idle", "lost", "marking"}
                BY <2>2, <6>1 DEF Discover, CheckLost, Busy
              <7> QED BY <2>6, <7>1 DEF InSession
            <6>2. CASE Reindex(p)
              <7>1. \/ pass' = pass
                    \/ \E x, y : pass' = [pass EXCEPT ![p].ix = x, ![p].ixTo = y, ![p].dirty = TRUE]
                BY <6>2 DEF Reindex
              <7>2. pc[p] \in InSession
                BY <6>2 DEF Reindex, InSession
              <7>3. ASSUME NEW x, NEW y,
                           pass' = [pass EXCEPT ![p].ix = x, ![p].ixTo = y, ![p].dirty = TRUE]
                    PROVE  pass'[p].next = pass[p].next
                <8>1. pass'[p] = [pass[p] EXCEPT !.ix = x, !.ixTo = y, !.dirty = TRUE]
                  BY <2>2, <7>3
                <8> QED BY <3>1, <8>1 DEF Passes
              <7> QED BY <7>1, <7>2, <7>3
            <6> QED BY <5>1, <6>1, <6>2
          <5>2. CASE ReadWindow(p) \/ ReadSnapshot(p) \/ SourceFails(p)
            <6>1. pc[p] \in InSession
              BY <5>2 DEF ReadWindow, ReadSnapshot, SourceFails, InSession
            <6>2. \/ pass' = pass
                  \/ \E x : pass' = [pass EXCEPT ![p].chunk = x]
                  \/ \E x, y, s : pass' = [pass EXCEPT ![p].chunk = x, ![p].seen[s] = y]
                  \/ \E x : pass' = [pass EXCEPT ![p].left = TRUE, ![p].chunk = x]
              BY <5>2 DEF ReadWindow, ReadSnapshot, SourceFails
            <6> QED BY <2>2, <3>1, <6>1, <6>2 DEF Passes
          <5>3. CASE WriteIndex(p) \/ SaveIndexState(p) \/ Close(p) \/ Crash(p)
            BY <2>2, <2>6, <3>1, <5>3 DEF WriteIndex, SaveIndexState, Close, Crash, InSession
          <5>4. CASE FoundGone(p) \/ FindConflict(p) \/ NothingNew(p) \/ Commit(p)
            BY <2>2, <2>6, <3>1, <5>4
               DEF FoundGone, FindConflict, NothingNew, Commit, InSession, Passes
          <5>5. ASSUME NEW s \in Sources, Visit(p, s) \/ MarkIfGone(p, s) \/ VisitFails(p, s)
                PROVE  pc[p] \in InSession /\ pass'[p].next = pass[p].next
            BY <2>2, <2>6, <3>1, <5>5
               DEF Visit, MarkIfGone, VisitFails, Marking, InSession, Passes
          <5>6. CASE MarkFails(p) \/ Checked(p) \/ Visited(p)
            BY <2>2, <2>6, <3>1, <5>6 DEF MarkFails, Checked, Visited, InSession, Passes
          <5> QED BY <1>2, <3>4, <5>1, <5>2, <5>3, <5>4, <5>5, <5>6 DEF Act, Step
        <4> QED BY <2>1, <2>2, <3>4, <4>1
      <3> QED BY <3>2, <3>3, <3>4
    <2>7. ASSUME NEW q \in Collectors, q # p, pc'[q] \in InSession
          PROVE  pass'[q].next = m + 1
      <3>1. pc[q] = pc'[q] /\ pass'[q] = pass[q]
        BY <1>2, <2>7, OthersUntouched DEF Inv
      <3>2. landed' = landed
        BY <1>2, <2>7, <3>1, OthersWait DEF Held, disk
      <3> QED BY <2>2, <2>7, <3>1, <3>2 DEF m, n
    <2> QED BY <2>5, <2>6, <2>7 DEF CounterExact, m
  <1> QED BY <1>1, <1>2, NextIsActs

-----------------------------------------------------------------------------
(* Cursors. *)

\* Only a commit moves a cursor, and it moves the one of the source it landed.
\* A conflict stays.
LEMMA CursorFrame ==
    ASSUME Inv, NEW p \in Collectors, Act(p), NEW s \in Sources,
           ~(Commit(p) /\ s = pass[p].source)
    PROVE  /\ cursor'[s].ord = cursor[s].ord
           /\ cursor'[s].tail = cursor[s].tail
           /\ cursor'[s].lastSeq = cursor[s].lastSeq
           /\ cursor[s].state = "conflict" => cursor'[s] = cursor[s]
  <1> DEFINE Kept == /\ cursor'[s].ord = cursor[s].ord
                     /\ cursor'[s].tail = cursor[s].tail
                     /\ cursor'[s].lastSeq = cursor[s].lastSeq
                     /\ cursor[s].state = "conflict" => cursor'[s] = cursor[s]
             src0 == pass[p].source
  <1>1. cursor \in [Sources -> Cursors] /\ cursor[s] \in Cursors
    BY DEF Inv, TypeOK
  <1>2. pc[p] \in {"tail", "commit"} => src0 \in Sources /\ cursor[src0].state # "conflict"
    BY DEF Inv, WindowHeld
  <1>3. CASE Discover(p) \/ CheckLost(p) \/ Busy(p) \/ Open(p) \/ Reindex(p)
    BY <1>3 DEF Discover, CheckLost, Busy, Open, Reindex, disk
  <1>4. CASE ReadWindow(p) \/ ReadSnapshot(p) \/ Land(p) \/ SourceFails(p)
    BY <1>4 DEF ReadWindow, ReadSnapshot, Land, SourceFails, disk
  <1>5. CASE WriteIndex(p) \/ SaveIndexState(p) \/ Close(p) \/ Crash(p)
    BY <1>5 DEF WriteIndex, SaveIndexState, Close, Crash, disk
  <1>6. CASE FoundGone(p)
    BY <1>1, <1>2, <1>6 DEF FoundGone, MarkGone, Cursors
  <1>7. CASE FindConflict(p)
    BY <1>1, <1>2, <1>7 DEF FindConflict, Cursors
  <1>8. CASE NothingNew(p)
    <2>1. \/ cursor' = cursor
          \/ cursor' = [cursor EXCEPT ![src0].ino = src[src0].ino, ![src0].saved = TRUE]
      BY <1>8 DEF NothingNew
    <2>2. src0 \in Sources /\ cursor[src0].state # "conflict"
      BY <1>2, <1>8 DEF NothingNew
    <2> HIDE DEF src0
    <2> QED BY <1>1, <2>1, <2>2 DEF Cursors
  <1>9. CASE Commit(p)
    BY <1>1, <1>2, <1>9 DEF Commit
  <1>10. ASSUME NEW t \in Sources, Visit(p, t) \/ MarkIfGone(p, t) \/ VisitFails(p, t)
         PROVE  Kept
    <2>1. \/ cursor' = cursor
          \/ cursor[t].state # "conflict" /\ cursor' = [cursor EXCEPT ![t].state = "active"]
          \/ cursor[t].state # "conflict" /\ MarkGone(t)
      BY <1>10 DEF Visit, Skipped, MarkIfGone, VisitFails, disk
    <2> QED BY <1>1, <2>1 DEF MarkGone, Cursors
  <1>11. CASE MarkFails(p) \/ Checked(p) \/ Visited(p)
    BY <1>11 DEF MarkFails, Checked, Visited, disk
  <1> QED BY <1>3, <1>4, <1>5, <1>6, <1>7, <1>8, <1>9, <1>10, <1>11 DEF Act, Step

\* What a commit leaves in the cursor of its source.
LEMMA CommitFacts ==
    ASSUME Inv, NEW p \in Collectors, Commit(p)
    PROVE  LET s == pass[p].source IN
           /\ s \in Sources
           /\ cursor[s].state # "conflict"
           /\ landed' = landed
           /\ cursor'[s] = Committed(p, s)
           /\ cursor'[s].lastSeq = Len(landed)
  <1> DEFINE s == pass[p].source
  <1>1. s \in Sources /\ cursor[s].state # "conflict"
    BY DEF Commit, Inv, WindowHeld
  <1>2. cursor'[s] = Committed(p, s)
    BY <1>1 DEF Commit, Inv, TypeOK
  <1>3. pass[p].next = Len(landed) + 1
    BY DEF Commit, Inv, CounterExact, InSession
  <1>4. Committed(p, s).lastSeq = pass[p].next - 1
    BY <1>1, CommittedType DEF Inv
  <1>5. Len(landed) \in Nat
    BY LenProperties DEF Inv, TypeOK
  <1> QED BY <1>1, <1>2, <1>3, <1>4, <1>5 DEF Commit

LEMMA LastSeqStep ==
    ASSUME Inv, Next
    PROVE  LastSeqLanded'
  <1>1. CASE Environment
    BY <1>1, EnvironmentQuiet DEF Inv, LastSeqLanded, disk
  <1>2. ASSUME NEW p \in Collectors, Act(p), NEW s \in Sources
        PROVE  cursor'[s].lastSeq <= Len(landed')
    <2>1. /\ cursor[s].lastSeq \in Nat /\ cursor[s].lastSeq <= Len(landed)
          /\ Len(landed) \in Nat
      BY LenProperties DEF Inv, TypeOK, LastSeqLanded, Cursors
    <2>2. Len(landed') \in Nat
      BY TypeStep, LenProperties DEF TypeOK
    <2>3. Len(landed') >= Len(landed)
      BY <1>2, LandedGrows
    <2>4. CASE Commit(p) /\ s = pass[p].source
      BY <2>1, <2>4, CommitFacts
    <2>5. CASE ~(Commit(p) /\ s = pass[p].source)
      BY <1>2, <2>1, <2>2, <2>3, <2>5, CursorFrame
    <2> QED BY <2>4, <2>5
  <1> QED BY <1>1, <1>2, NextIsActs DEF LastSeqLanded

\* What WindowHeld says of one collector.
WindowOf(p) ==
    LET s == pass[p].source
        w == pass[p].chunk
    IN  /\ pc[p] \in {"tail", "land", "commit"} =>
            s \in Sources /\ cursor[s].state # "conflict"
        /\ pc[p] \in {"land", "commit"} /\ s \in AppendSources =>
            w.from = cursor[s].ord
        /\ pc[p] = "commit" =>
            /\ landed # <<>>
            /\ landed[Len(landed)].src = s
            /\ landed[Len(landed)].from = w.from
            /\ landed[Len(landed)].recs = w.lines

LEMMA WindowStep ==
    ASSUME Inv, Next
    PROVE  WindowHeld'
  <1>1. CASE Environment
    BY <1>1, EnvironmentQuiet DEF Inv, WindowHeld, disk
  <1>2. ASSUME NEW p \in Collectors, Act(p), NEW q \in Collectors
        PROVE  WindowOf(q)'
    <2>1. pass \in [Collectors -> Passes] /\ pc \in [Collectors -> PCs]
          /\ cursor \in [Sources -> Cursors] /\ pass[p] \in Passes
          /\ landed \in Seq(LandedFiles)
      BY DEF Inv, TypeOK, PCs
    <2>2. WindowOf(p) /\ WindowOf(q)
      BY DEF Inv, WindowHeld, WindowOf
    <2>3. CASE q # p
      <3>1. pc'[q] = pc[q] /\ pass'[q] = pass[q]
        BY <1>2, <2>3, OthersUntouched DEF Inv
      <3>2. CASE pc[q] \in Held
        <4>1. UNCHANGED disk
          BY <1>2, <2>3, <3>2, OthersWait
        <4> QED BY <2>2, <3>1, <4>1 DEF WindowOf, disk
      <3>3. CASE pc[q] \notin Held
        BY <3>1, <3>3 DEF WindowOf, Held, InSession
      <3> QED BY <3>2, <3>3
    <2>4. WindowOf(p)'
      <3>1. CASE pc'[p] \notin {"tail", "land", "commit"}
        BY <3>1 DEF WindowOf
      <3>2. ASSUME NEW s \in Sources, Visit(p, s), pc'[p] \in {"tail", "land", "commit"}
            PROVE  WindowOf(p)'
        <4>1. /\ pass' = [pass EXCEPT ![p].todo = @ \ {s}, ![p].source = s, ![p].rounds = 0]
              /\ pc'[p] = "tail"
              /\ cursor' = [cursor EXCEPT ![s].state = "active"]
          <5>1. ~Skipped(s)
            BY <2>1, <3>2 DEF Visit
          <5> QED BY <2>1, <3>2, <5>1 DEF Visit
        <4>2. pass'[p].source = s
          BY <2>1, <4>1 DEF Passes
        <4>3. cursor'[s].state = "active"
          BY <2>1, <4>1 DEF Cursors
        <4> QED BY <4>1, <4>2, <4>3 DEF WindowOf
      <3>3. CASE ReadWindow(p)
        <4> DEFINE s == pass[p].source
        <4>1. s \in Sources /\ cursor[s].state # "conflict" /\ src[s] \in File
          BY <2>2, <3>3 DEF ReadWindow, WindowOf, Inv, TypeOK
        <4>2. PICK w \in Windows(cursor[s], src[s]) :
                 pass' = [pass EXCEPT ![p].chunk = w, ![p].seen[s] = Size(src[s])]
          BY <3>3 DEF ReadWindow
        <4>3. w.from = cursor[s].ord
          BY <2>1, <4>1, WindowType
        <4>4. pc'[p] = "land" /\ cursor' = cursor
          BY <2>1, <3>3 DEF ReadWindow, disk
        <4>5. pass'[p].source = s /\ pass'[p].chunk = w
          BY <2>1, <4>2 DEF Passes
        <4> HIDE DEF s
        <4> QED BY <4>1, <4>3, <4>4, <4>5 DEF WindowOf
      <3>4. CASE ReadSnapshot(p) /\ pc'[p] \in {"tail", "land", "commit"}
        <4> DEFINE s == pass[p].source
        <4>1. s \in Sources /\ cursor[s].state # "conflict" /\ s \notin AppendSources
          BY <2>2, <3>4, CollectorAssumption DEF ReadSnapshot, WindowOf
        <4>2. pc'[p] = "land" /\ cursor' = cursor
              /\ \E w : pass' = [pass EXCEPT ![p].chunk = w]
          BY <2>1, <3>4 DEF ReadSnapshot, disk
        <4>3. pass'[p].source = s
          BY <2>1, <4>2 DEF Passes
        <4> HIDE DEF s
        <4> QED BY <4>1, <4>2, <4>3 DEF WindowOf
      <3>5. CASE Land(p)
        <4> DEFINE s == pass[p].source
                   w == pass[p].chunk
                   f == [seq |-> pass[p].next, src |-> s, from |-> w.from, recs |-> w.lines]
                   n == Len(landed)
        <4>1. s \in Sources /\ cursor[s].state # "conflict"
              /\ (s \in AppendSources => w.from = cursor[s].ord)
          BY <2>2, <3>5 DEF Land, WindowOf
        <4>2. landed' = Append(landed, f) /\ pc'[p] = "commit" /\ cursor' = cursor
              /\ \E x, y : pass' = [pass EXCEPT ![p].next = x, ![p].ix = y]
          BY <2>1, <3>5 DEF Land
        <4>3. pass'[p].source = s /\ pass'[p].chunk = w
          BY <2>1, <4>2 DEF Passes
        <4>4. landed \in Seq(LandedFiles \cup {f})
          BY <2>1
        <4>5. f.src = s /\ f.from = w.from /\ f.recs = w.lines
          OBVIOUS
        <4> HIDE DEF f, s, w
        <4>6. n \in Nat /\ Len(landed') = n + 1 /\ landed'[n + 1] = f
          BY <4>2, <4>4, AppendProperties, LenProperties
        <4> HIDE DEF n
        <4>7. landed' # <<>> /\ landed'[Len(landed')] = f
          BY <4>6
        <4> QED BY <4>1, <4>2, <4>3, <4>5, <4>7 DEF WindowOf
      <3>6. CASE Commit(p)
        <4> DEFINE s == pass[p].source
        <4>1. s \in Sources /\ cursor'[s].state # "conflict"
          BY <3>6, CommitFacts, CommittedType DEF Inv
        <4>2. pc'[p] \in {"tail", "sources"}
              /\ \E x, y, z : pass' = [pass EXCEPT ![p].dirty = TRUE, ![p].chunk = x,
                                                  ![p].rounds = y, ![p].left = z]
          BY <2>1, <3>6 DEF Commit
        <4>3. pass'[p].source = s
          BY <2>1, <4>2 DEF Passes
        <4> HIDE DEF s
        <4> QED BY <4>1, <4>2, <4>3 DEF WindowOf
      <3>7. CASE \E s \in Sources : MarkIfGone(p, s) \/ VisitFails(p, s)
        <4>1. pc'[p] = pc[p] /\ pc[p] \notin {"tail", "land", "commit"}
          BY <3>7 DEF MarkIfGone, VisitFails, Marking
        <4> QED BY <3>1, <4>1
      <3>8. CASE Discover(p) \/ CheckLost(p) \/ Busy(p) \/ Open(p) \/ Reindex(p)
        BY <2>1, <3>1, <3>8 DEF Discover, CheckLost, Busy, Open, Reindex
      <3>9. CASE SourceFails(p) \/ FoundGone(p) \/ FindConflict(p) \/ NothingNew(p)
        BY <2>1, <3>1, <3>9 DEF SourceFails, FoundGone, FindConflict, NothingNew
      <3>10. CASE MarkFails(p) \/ Checked(p) \/ Visited(p)
        BY <2>1, <3>1, <3>10 DEF MarkFails, Checked, Visited
      <3>11. CASE WriteIndex(p) \/ SaveIndexState(p) \/ Close(p) \/ Crash(p)
        BY <2>1, <3>1, <3>11 DEF WriteIndex, SaveIndexState, Close, Crash
      <3> QED
        BY <1>2, <3>1, <3>2, <3>3, <3>4, <3>5, <3>6, <3>7, <3>8, <3>9, <3>10, <3>11
           DEF Act, Step
    <2> QED BY <2>3, <2>4
  <1> QED BY <1>1, <1>2, NextIsActs DEF WindowHeld, WindowOf

-----------------------------------------------------------------------------
(* The cursors stay behind the files. *)

\* What CursorBehindFiles says of one source.
Behind(s) ==
    /\ s \in AppendSources => \A k \in 1 .. cursor[s].ord :
        \E i \in DOMAIN landed : Holds(landed[i], s, k)
    /\ s \in SnapshotSources /\ cursor[s].tail # NoDigest =>
        \E i \in DOMAIN landed :
            /\ landed[i].src = s /\ landed[i].seq = cursor[s].lastSeq
            /\ landed[i].recs = cursor[s].tail

LEMMA BehindStep ==
    ASSUME Inv, Next
    PROVE  CursorBehindFiles'
  <1>1. CASE Environment
    BY <1>1, EnvironmentQuiet DEF Inv, CursorBehindFiles, Holds, disk
  <1>2. ASSUME NEW p \in Collectors, Act(p), NEW s \in Sources
        PROVE  Behind(s)'
    <2> DEFINE n == Len(landed)
               m == Len(landed')
    <2>1. landed \in Seq(LandedFiles) /\ n \in Nat /\ DOMAIN landed = 1 .. n
      BY LenProperties DEF Inv, TypeOK
    <2>2. m \in Nat /\ DOMAIN landed' = 1 .. m
      BY TypeStep, LenProperties DEF TypeOK
    <2>3. m >= n /\ \A i \in 1 .. n : landed'[i] = landed[i]
      BY <1>2, LandedGrows
    <2>4. Behind(s)
      BY DEF Inv, CursorBehindFiles, Behind, Sources
    <2>5. cursor \in [Sources -> Cursors] /\ pass[p] \in Passes
      BY DEF Inv, TypeOK
    <2>6. CASE ~(Commit(p) /\ s = pass[p].source)
      <3>1. /\ cursor'[s].ord = cursor[s].ord /\ cursor'[s].tail = cursor[s].tail
            /\ cursor'[s].lastSeq = cursor[s].lastSeq
        BY <1>2, <2>6, CursorFrame
      <3> HIDE DEF n, m
      <3>2. \A i \in DOMAIN landed : i \in DOMAIN landed' /\ landed'[i] = landed[i]
        BY <2>1, <2>2, <2>3
      <3> QED BY <2>4, <3>1, <3>2 DEF Behind, Holds
    <2>7. CASE Commit(p) /\ s = pass[p].source
      <3> DEFINE w == pass[p].chunk
      <3>1. landed' = landed /\ cursor'[s] = Committed(p, s) /\ cursor'[s].lastSeq = n
        BY <2>7, CommitFacts
      <3>2. /\ landed # <<>> /\ landed[n].src = s
            /\ landed[n].from = w.from /\ landed[n].recs = w.lines
            /\ (s \in AppendSources => w.from = cursor[s].ord)
        BY <2>7 DEF Commit, Inv, WindowHeld
      <3>3. n \in DOMAIN landed
        BY <2>1, <3>2, EmptySeq
      <3>4. landed[n].seq = n
        BY <3>3 DEF Inv, SeqsDense
      <3>5. w \in Chunks /\ w.from \in Nat /\ Len(w.lines) \in Nat
        BY <2>5, LenProperties DEF Passes, Chunks
      <3>6. CASE s \in SnapshotSources
        <4>1. s \notin AppendSources
          BY <3>6, CollectorAssumption
        <4>2. cursor'[s].tail = w.lines
          BY <3>1, <3>6, CommittedType DEF Inv
        <4> HIDE DEF n, w
        <4> QED BY <3>1, <3>2, <3>3, <3>4, <4>1, <4>2 DEF Behind
      <3>7. CASE s \notin SnapshotSources
        <4>1. s \in AppendSources
          BY <3>7 DEF Sources
        <4>2. cursor'[s].ord = w.from + Len(w.lines)
          BY <3>1, <3>7, CommittedType DEF Inv, Through
        <4> HIDE DEF n, w
        <4>3. ASSUME NEW k \in 1 .. cursor'[s].ord
              PROVE  \E i \in DOMAIN landed : Holds(landed[i], s, k)
          <5>1. k \in 1 .. w.from \/ k \in w.from + 1 .. w.from + Len(w.lines)
            BY <3>5, <4>2
          <5>2. CASE k \in 1 .. w.from
            <6>1. k \in 1 .. cursor[s].ord
              BY <3>2, <4>1, <5>2
            <6> QED BY <2>4, <4>1, <6>1 DEF Behind
          <5>3. CASE k \in w.from + 1 .. w.from + Len(w.lines)
            BY <3>2, <3>3, <5>3 DEF Holds
          <5> QED BY <5>1, <5>2, <5>3
        <4> QED BY <3>1, <3>7, <4>3 DEF Behind, Holds
      <3> QED BY <3>6, <3>7
    <2> QED BY <2>6, <2>7
  <1>3. (\A s \in Sources : Behind(s)') => CursorBehindFiles'
    BY DEF CursorBehindFiles, Behind, Sources
  <1> QED BY <1>1, <1>2, <1>3, NextIsActs

-----------------------------------------------------------------------------
(* The theorems. *)

LEMMA InitInv ==
    ASSUME Init
    PROVE  Inv
  <1>1. NewCursor \in Cursors /\ NewCursor.ord = 0 /\ NewCursor.lastSeq = 0
        /\ NewCursor.tail = NoDigest
    BY DEF NewCursor, Cursors
  <1>2. \A s \in Sources : cursor[s] = NewCursor
    BY DEF Init
  <1>3. landed = <<>> /\ landed \in Seq(LandedFiles) /\ Len(landed) = 0
    BY EmptySeq DEF Init
  <1>4. TypeOK
    <2>1. ASSUME NEW i \in Inodes
          PROVE  [ino |-> i, lines |-> <<>>, partial |-> FALSE] \in File
      BY EmptySeq DEF File
    <2>2. src \in [Sources -> File \cup {NoFile}]
      BY <2>1 DEF Init
    <2>3. cursor \in [Sources -> Cursors]
      BY <1>1 DEF Init
    <2>4. pass \in [Collectors -> Passes]
      BY NewPassType DEF Init
    <2>5. index \in Entries
      BY EmptySeq DEF Init, Entries
    <2> QED BY <1>3, <2>2, <2>3, <2>4, <2>5 DEF Init, TypeOK
  <1>5. \A p \in Collectors : pc[p] = "idle"
    BY DEF Init
  <1>6. LockHeld /\ CounterExact /\ WindowHeld
    BY <1>3, <1>5 DEF LockHeld, CounterExact, WindowHeld, InSession, Init
  <1>7. SeqsDense
    BY <1>3 DEF SeqsDense
  <1>8. LastSeqLanded /\ CursorBehindFiles
    BY <1>1, <1>2, <1>3 DEF LastSeqLanded, CursorBehindFiles, Sources
  <1> QED BY <1>4, <1>6, <1>7, <1>8 DEF Inv

LEMMA InvStep ==
    ASSUME Inv, [Next]_vars
    PROVE  Inv'
  <1>1. CASE Next
    <2>1. TypeOK' /\ LockHeld' /\ CounterExact' /\ WindowHeld' /\ LastSeqLanded'
          /\ CursorBehindFiles'
      BY <1>1, TypeStep, LockStep, CounterStep, WindowStep, LastSeqStep, BehindStep
    <2>2. SeqsDense'
      <3>1. CASE Environment
        BY <3>1, EnvironmentQuiet DEF Inv, SeqsDense, disk
      <3>2. CASE \E p \in Collectors : Act(p)
        BY <3>2, LandedGrows
      <3> QED BY <1>1, <3>1, <3>2, NextIsActs
    <2> QED BY <2>1, <2>2 DEF Inv
  <1>2. CASE UNCHANGED vars
    BY <1>2 DEF vars, Inv, TypeOK, LockHeld, CounterExact, SeqsDense, WindowHeld,
                LastSeqLanded, CursorBehindFiles, Holds
  <1> QED BY <1>1, <1>2

THEOREM Invariance == Spec => []Inv
  BY InitInv, InvStep, PTL DEF Spec

\* Every variable keeps its type, in every instance of the collector.
THEOREM TypeCorrect == Spec => []TypeOK
  <1>1. Inv => TypeOK
    BY DEF Inv
  <1> QED BY <1>1, Invariance, PTL

\* The landed files are numbered 1, 2, 3 ... whatever collectors run, whatever
\* stops or fails and whatever the sources do (state.go RecoverNextSeq).
THEOREM Dense == Spec => []SeqsDense
  <1>1. Inv => SeqsDense
    BY DEF Inv
  <1> QED BY <1>1, Invariance, PTL

\* No crash or failed write loses a line: what a cursor consumed is in a landed
\* file (collect.go landAppend, landSnapshot).
THEOREM NothingLost == Spec => []CursorBehindFiles
  <1>1. Inv => CursorBehindFiles
    BY DEF Inv
  <1> QED BY <1>1, Invariance, PTL

LEMMA AdvanceStep ==
    ASSUME Inv, [Next]_vars, NEW s \in Sources
    PROVE  /\ cursor'[s].ord >= cursor[s].ord
           /\ cursor'[s].lastSeq >= cursor[s].lastSeq
           /\ cursor[s].state = "conflict" => cursor'[s] = cursor[s]
  <1>1. cursor[s].ord \in Nat /\ cursor[s].lastSeq \in Nat
        /\ cursor[s].lastSeq <= Len(landed)
    BY DEF Inv, TypeOK, Cursors, LastSeqLanded
  <1>2. CASE Environment \/ UNCHANGED vars
    <2>1. cursor' = cursor
      BY <1>2, EnvironmentQuiet DEF disk, vars
    <2> QED BY <1>1, <2>1
  <1>3. ASSUME NEW p \in Collectors, Act(p), ~(Commit(p) /\ s = pass[p].source)
        PROVE  /\ cursor'[s].ord = cursor[s].ord
               /\ cursor'[s].lastSeq = cursor[s].lastSeq
               /\ cursor[s].state = "conflict" => cursor'[s] = cursor[s]
    BY <1>3, CursorFrame
  <1>4. ASSUME NEW p \in Collectors, Commit(p), s = pass[p].source
        PROVE  /\ cursor'[s].ord >= cursor[s].ord
               /\ cursor'[s].lastSeq >= cursor[s].lastSeq
               /\ cursor[s].state # "conflict"
    <2>1. cursor'[s] = Committed(p, s) /\ cursor'[s].lastSeq = Len(landed)
          /\ cursor[s].state # "conflict"
      BY <1>4, CommitFacts
    <2>2. CASE s \in SnapshotSources
      <3>1. cursor'[s].ord = cursor[s].ord
        BY <2>1, <2>2, CommittedType DEF Inv
      <3> QED BY <1>1, <2>1, <3>1
    <2>3. CASE s \notin SnapshotSources
      <3> DEFINE w == pass[p].chunk
                 len == Len(w.lines)
      <3>1. cursor'[s].ord = w.from + len
        BY <2>1, <2>3, CommittedType DEF Inv, Through
      <3>2. w.from = cursor[s].ord
        BY <1>4, <2>3 DEF Commit, Inv, WindowHeld, Sources
      <3>3. len \in Nat
        BY LenProperties DEF Inv, TypeOK, Passes, Chunks
      <3> HIDE DEF w, len
      <3> QED BY <1>1, <2>1, <3>1, <3>2, <3>3
    <2> QED BY <2>2, <2>3
  <1> QED BY <1>1, <1>2, <1>3, <1>4, NextIsActs

\* No cursor goes back, and no conflict is cleared, in any instance
\* (collect.go collectSource, landAppend).
THEOREM Advances == Spec => CursorOnlyAdvances
  <1>1. Inv /\ [Next]_vars =>
            [\A s \in Sources :
                /\ cursor'[s].ord >= cursor[s].ord
                /\ cursor'[s].lastSeq >= cursor[s].lastSeq
                /\ cursor[s].state = "conflict" => cursor'[s] = cursor[s]]_vars
    BY AdvanceStep
  <1> QED BY <1>1, Invariance, PTL DEF Spec, CursorOnlyAdvances

-----------------------------------------------------------------------------
(* Collector implements LandedLog. *)

\* A window that is about to land, or has, holds a line, and a snapshot is read
\* from its start: its cursor has no position.
WindowFilled ==
    /\ \A s \in SnapshotSources : cursor[s].ord = 0
    /\ \A p \in Collectors : pc[p] \in {"land", "commit"} =>
        /\ pass[p].chunk.lines # <<>>
        /\ pass[p].source \in SnapshotSources => pass[p].chunk.from = 0

\* A window is never empty.
LEMMA WindowHasLines ==
    ASSUME NEW c \in Cursors, NEW f \in File, NEW w \in Windows(c, f)
    PROVE  w.lines # <<>>
  <1>1. PICK n \in 1 .. Smaller(MaxDelta, Len(f.lines) - c.ord) :
            w = [ino |-> f.ino, from |-> c.ord,
                 lines |-> SubSeq(f.lines, c.ord + 1, c.ord + n),
                 more |-> 2 * (c.ord + n) < Size(f)]
    BY DEF Windows
  <1>2. f.lines \in Seq(Lines) /\ c.ord \in Nat
    BY DEF File, Cursors
  <1>3. n \in Nat \ {0} /\ c.ord + n <= Len(f.lines)
    BY <1>2, CollectorAssumption, LenProperties DEF Smaller
  <1>4. \A i \in c.ord + 1 .. c.ord + n : f.lines[i] \in Lines
    BY <1>2, <1>3, ElementOfSeq
  <1>5. Len(SubSeq(f.lines, c.ord + 1, c.ord + n)) = n
    BY <1>2, <1>3, <1>4, SubSeqProperties
  <1>6. w.lines = SubSeq(f.lines, c.ord + 1, c.ord + n)
    BY <1>1
  <1> QED BY <1>3, <1>5, <1>6, EmptySeq

\* What WindowFilled says of one collector.
FilledOf(p) ==
    pc[p] \in {"land", "commit"} =>
        /\ pass[p].chunk.lines # <<>>
        /\ pass[p].source \in SnapshotSources => pass[p].chunk.from = 0

LEMMA FilledStep ==
    ASSUME Inv, WindowFilled, Next
    PROVE  WindowFilled'
  <1>1. CASE Environment
    BY <1>1, EnvironmentQuiet DEF WindowFilled, disk
  <1>2. ASSUME NEW p \in Collectors, Act(p), NEW s \in SnapshotSources
        PROVE  cursor'[s].ord = 0
    <2>1. s \in Sources /\ cursor[s].ord = 0
      BY DEF WindowFilled, Sources
    <2>2. CASE Commit(p) /\ s = pass[p].source
      <3>1. cursor'[s] = Committed(p, s) /\ Committed(p, s).ord = cursor[s].ord
        BY <2>1, <2>2, CommitFacts, CommittedType DEF Inv
      <3> QED BY <2>1, <3>1
    <2>3. CASE ~(Commit(p) /\ s = pass[p].source)
      BY <1>2, <2>1, <2>3, CursorFrame
    <2> QED BY <2>2, <2>3
  <1>3. ASSUME NEW p \in Collectors, Act(p), NEW q \in Collectors
        PROVE  FilledOf(q)'
    <2>1. pass \in [Collectors -> Passes] /\ pc \in [Collectors -> PCs]
          /\ cursor \in [Sources -> Cursors] /\ pass[p] \in Passes
      BY DEF Inv, TypeOK, PCs
    <2>2. FilledOf(p) /\ FilledOf(q)
      BY DEF WindowFilled, FilledOf
    <2>3. CASE q # p
      <3>1. pc'[q] = pc[q] /\ pass'[q] = pass[q]
        BY <1>3, <2>3, OthersUntouched DEF Inv
      <3> QED BY <2>2, <3>1 DEF FilledOf
    <2>4. FilledOf(p)'
      <3>1. CASE pc'[p] \notin {"land", "commit"}
        BY <3>1 DEF FilledOf
      <3>2. CASE ReadWindow(p)
        <4> DEFINE s == pass[p].source
        <4>1. s \in Sources /\ s \in AppendSources /\ src[s] \in File
          BY <3>2 DEF ReadWindow, Inv, TypeOK, Sources
        <4>2. PICK w \in Windows(cursor[s], src[s]) :
                 pass' = [pass EXCEPT ![p].chunk = w, ![p].seen[s] = Size(src[s])]
          BY <3>2 DEF ReadWindow
        <4>3. w.lines # <<>>
          BY <2>1, <4>1, WindowHasLines
        <4>4. pass'[p].source = s /\ pass'[p].chunk = w
          BY <2>1, <4>2 DEF Passes
        <4> HIDE DEF s
        <4> QED BY <4>1, <4>3, <4>4, CollectorAssumption DEF FilledOf
      <3>3. CASE ReadSnapshot(p) /\ pc'[p] \in {"land", "commit"}
        <4> DEFINE s == pass[p].source
                   w == [ino |-> src[s].ino, from |-> 0, lines |-> src[s].lines, more |-> FALSE]
        <4>1. src[s].lines # <<>> /\ pass' = [pass EXCEPT ![p].chunk = w]
          BY <2>1, <3>3 DEF ReadSnapshot
        <4>2. w.lines # <<>> /\ w.from = 0
          BY <4>1
        <4> HIDE DEF w
        <4>3. pass'[p].chunk = w
          BY <2>1, <4>1 DEF Passes
        <4> QED BY <4>2, <4>3 DEF FilledOf
      <3>4. CASE Land(p)
        <4>1. pc[p] = "land"
          BY <3>4 DEF Land
        <4>0. \E x, y : pass' = [pass EXCEPT ![p].next = x, ![p].ix = y]
          BY <2>1, <3>4 DEF Land
        <4>2. pass'[p].source = pass[p].source /\ pass'[p].chunk = pass[p].chunk
          BY <2>1, <4>0 DEF Passes
        <4> QED BY <2>2, <4>1, <4>2 DEF FilledOf
      <3>5. CASE \E s \in Sources : Visit(p, s)
        <4>1. pc'[p] \notin {"land", "commit"}
          BY <2>1, <3>5 DEF Visit
        <4> QED BY <3>1, <4>1
      <3>6. CASE \E s \in Sources : MarkIfGone(p, s) \/ VisitFails(p, s)
        <4>1. pc'[p] \notin {"land", "commit"}
          BY <2>1, <3>6 DEF MarkIfGone, VisitFails, Marking
        <4> QED BY <3>1, <4>1
      <3>7. CASE Discover(p) \/ CheckLost(p) \/ Busy(p) \/ Open(p) \/ Reindex(p)
        <4>1. pc'[p] \notin {"land", "commit"}
          BY <2>1, <3>7 DEF Discover, CheckLost, Busy, Open, Reindex
        <4> QED BY <3>1, <4>1
      <3>8. CASE SourceFails(p) \/ FoundGone(p) \/ FindConflict(p) \/ NothingNew(p) \/ Commit(p)
        <4>1. pc'[p] \notin {"land", "commit"}
          BY <2>1, <3>8 DEF SourceFails, FoundGone, FindConflict, NothingNew, Commit
        <4> QED BY <3>1, <4>1
      <3>9. CASE MarkFails(p) \/ Checked(p) \/ Visited(p)
        <4>1. pc'[p] \notin {"land", "commit"}
          BY <2>1, <3>9 DEF MarkFails, Checked, Visited
        <4> QED BY <3>1, <4>1
      <3>10. CASE WriteIndex(p) \/ SaveIndexState(p) \/ Close(p) \/ Crash(p)
        <4>1. pc'[p] \notin {"land", "commit"}
          BY <2>1, <3>10 DEF WriteIndex, SaveIndexState, Close, Crash
        <4> QED BY <3>1, <4>1
      <3> QED
        BY <1>3, <3>1, <3>2, <3>3, <3>4, <3>5, <3>6, <3>7, <3>8, <3>9, <3>10
           DEF Act, Step
    <2> QED BY <2>3, <2>4
  <1> QED BY <1>1, <1>2, <1>3, NextIsActs DEF WindowFilled, FilledOf

\* Only FindConflict puts a source in conflict.
LEMMA ConflictFrame ==
    ASSUME Inv, NEW p \in Collectors, Act(p), ~FindConflict(p), NEW s \in Sources
    PROVE  cursor'[s].state = "conflict" <=> cursor[s].state = "conflict"
  <1> DEFINE Same == cursor'[s].state = "conflict" => cursor[s].state = "conflict"
             src0 == pass[p].source
  <1>1. cursor \in [Sources -> Cursors] /\ cursor[s] \in Cursors
    BY DEF Inv, TypeOK
  <1>0. pc[p] \in {"tail", "commit"} => src0 \in Sources /\ cursor[src0].state # "conflict"
    BY DEF Inv, WindowHeld
  <1>2. CASE Discover(p) \/ CheckLost(p) \/ Busy(p) \/ Open(p) \/ Reindex(p)
    BY <1>2 DEF Discover, CheckLost, Busy, Open, Reindex, disk
  <1>3. CASE ReadWindow(p) \/ ReadSnapshot(p) \/ Land(p) \/ SourceFails(p)
    BY <1>3 DEF ReadWindow, ReadSnapshot, Land, SourceFails, disk
  <1>4. CASE WriteIndex(p) \/ SaveIndexState(p) \/ Close(p) \/ Crash(p)
    BY <1>4 DEF WriteIndex, SaveIndexState, Close, Crash, disk
  <1>5. CASE FoundGone(p)
    <2>1. src0 \in Sources /\ MarkGone(src0) /\ cursor[src0].state # "conflict"
      BY <1>0, <1>5 DEF FoundGone
    <2> HIDE DEF src0
    <2> QED BY <1>1, <2>1 DEF MarkGone, Cursors
  <1>6. CASE NothingNew(p)
    <2>1. \/ cursor' = cursor
          \/ cursor' = [cursor EXCEPT ![src0].ino = src[src0].ino, ![src0].saved = TRUE]
      BY <1>6 DEF NothingNew
    <2> HIDE DEF src0
    <2> QED BY <1>1, <2>1 DEF Cursors
  <1>7. CASE Commit(p)
    <2>1. s = src0 => cursor'[s] = Committed(p, s) /\ cursor[s].state # "conflict"
      BY <1>7, CommitFacts
    <2>2. s = src0 => Committed(p, s).state = "active"
      BY <1>1, <1>7 DEF Committed, Cursors
    <2>3. s # src0 => cursor'[s] = cursor[s]
      BY <1>1, <1>7 DEF Commit
    <2> QED BY <2>1, <2>2, <2>3
  <1>8. ASSUME NEW t \in Sources, Visit(p, t) \/ MarkIfGone(p, t) \/ VisitFails(p, t)
        PROVE  Same
    <2>1. \/ cursor' = cursor
          \/ cursor' = [cursor EXCEPT ![t].state = "active"]
          \/ MarkGone(t)
      BY <1>8 DEF Visit, MarkIfGone, VisitFails, disk
    <2> QED BY <1>1, <2>1 DEF MarkGone, Cursors
  <1>9. CASE MarkFails(p) \/ Checked(p) \/ Visited(p)
    BY <1>9 DEF MarkFails, Checked, Visited, disk
  <1>10. Same
    BY <1>2, <1>3, <1>4, <1>5, <1>6, <1>7, <1>8, <1>9 DEF Act, Step
  <1>11. cursor[s].state = "conflict" => cursor'[s].state = "conflict"
    <2>1. CASE Commit(p) /\ s = pass[p].source
      BY <2>1, CommitFacts
    <2>2. CASE ~(Commit(p) /\ s = pass[p].source)
      BY <2>2, CursorFrame
    <2> QED BY <2>1, <2>2
  <1> QED BY <1>10, <1>11

\* What LandedLog calls its variables.
Position == [s \in Sources |-> cursor[s].ord]
Halted == {s \in Sources : cursor[s].state = "conflict"}

LEMMA CommitIsNoConflict ==
    ASSUME NEW p \in Collectors, TypeOK, Commit(p)
    PROVE  ~FindConflict(p)
  BY DEF Commit, FindConflict

\* The files land as LandedLog publishes.
LEMMA LandPublishes ==
    ASSUME Inv, WindowFilled, NEW p \in Collectors, Land(p)
    PROVE  Log!Publish(pass[p].source)
  <1> DEFINE s == pass[p].source
             w == pass[p].chunk
             f == [seq |-> pass[p].next, src |-> s, from |-> w.from, recs |-> w.lines]
             n == Len(landed)
  <1>1. s \in Sources /\ cursor[s].state # "conflict" /\ w.lines # <<>>
    BY DEF Land, Inv, WindowHeld, WindowFilled
  <1>2. w.from = cursor[s].ord
    <2>1. CASE s \in AppendSources
      BY <2>1 DEF Land, Inv, WindowHeld
    <2>2. CASE s \in SnapshotSources
      BY <2>2 DEF Land, WindowFilled
    <2> QED BY <1>1, <2>1, <2>2 DEF Sources
  <1>3. landed' = Append(landed, f) /\ cursor' = cursor
    BY DEF Land
  <1>4. f.seq = n + 1 /\ f.src = s /\ f.from = w.from /\ f.recs = w.lines
    BY DEF Land, Inv, CounterExact, InSession
  <1>5. landed \in Seq(LandedFiles \cup {f})
    BY DEF Inv, TypeOK
  <1> HIDE DEF f, w, s
  <1>6. n \in Nat /\ Len(landed') = n + 1 /\ landed'[n + 1] = f
    BY <1>3, <1>5, AppendProperties, LenProperties
  <1> HIDE DEF n
  <1>7. landed' # <<>> /\ landed'[Len(landed')] = f
    BY <1>6
  <1>8. s \notin Halted /\ Position[s] = cursor[s].ord
    BY <1>1 DEF Halted, Position
  <1>9. Position' = Position /\ Halted' = Halted
    BY <1>3 DEF Position, Halted
  <1> QED BY <1>1, <1>2, <1>3, <1>4, <1>7, <1>8, <1>9 DEF Log!Publish, Position, Halted, n, s

\* A cursor is saved as LandedLog moves a position.
LEMMA CommitAdvances ==
    ASSUME Inv, WindowFilled, NEW p \in Collectors, Commit(p),
           pass[p].source \in AppendSources
    PROVE  Log!Advance(pass[p].source)
  <1> DEFINE s == pass[p].source
             w == pass[p].chunk
  <1>1. s \in Sources /\ cursor[s].state # "conflict" /\ landed' = landed
        /\ cursor'[s] = Committed(p, s)
    BY CommitFacts
  <1>2. /\ landed # <<>>
        /\ landed[Len(landed)].src = s
        /\ landed[Len(landed)].from = w.from
        /\ landed[Len(landed)].recs = w.lines
        /\ w.from = cursor[s].ord
    BY DEF Commit, Inv, WindowHeld
  <1>3. Committed(p, s).ord = w.from + Len(w.lines)
    BY <1>1, CollectorAssumption DEF Committed, Through
  <1>0. Act(p) /\ ~FindConflict(p)
    BY CommitIsNoConflict DEF Act, Step, Inv
  <1>4. \A t \in Sources : t # s => cursor'[t].ord = cursor[t].ord
    BY <1>0, CursorFrame
  <1>5. Halted' = Halted
    BY <1>0, ConflictFrame DEF Halted
  <1> HIDE DEF w, s
  <1>6. Position' = [Position EXCEPT ![s] = @ + Len(landed[Len(landed)].recs)]
    BY <1>1, <1>2, <1>3, <1>4 DEF Position
  <1> QED BY <1>1, <1>2, <1>5, <1>6 DEF Log!Advance, Position, Halted, s

LEMMA LogStep ==
    ASSUME Inv, WindowFilled, [Next]_vars
    PROVE  [Log!Next]_(Log!vars)
  <1>1. CASE Environment \/ UNCHANGED vars
    <2>1. landed' = landed /\ cursor' = cursor
      BY <1>1, EnvironmentQuiet DEF disk, vars
    <2> QED BY <2>1 DEF Log!vars
  <1>2. ASSUME NEW p \in Collectors, Act(p)
        PROVE  [Log!Next]_(Log!vars)
    <2> DEFINE s == pass[p].source
    <2>1. CASE Land(p)
      <3>1. s \in Sources
        BY <2>1 DEF Land, Inv, WindowHeld
      <3> QED BY <2>1, <3>1, LandPublishes DEF Log!Next
    <2>2. CASE Commit(p) /\ s \in AppendSources
      <3>1. s \in Sources
        BY <2>2 DEF Sources
      <3>2. Log!Advance(s)
        BY <2>2, CommitAdvances
      <3> HIDE DEF s
      <3>3. Log!Next
        BY <3>1, <3>2 DEF Log!Next, Log!Advance
      <3> QED BY <3>3
    <2>3. CASE Commit(p) /\ s \notin AppendSources
      <3>1. s \in SnapshotSources /\ landed' = landed /\ cursor'[s] = Committed(p, s)
        BY <2>3, CommitFacts DEF Sources
      <3>2. Committed(p, s).ord = cursor[s].ord
        BY <3>1, CommittedType DEF Inv, Sources
      <3>3. ~FindConflict(p)
        BY <2>3, CommitIsNoConflict DEF Inv
      <3>4. Position' = Position
        <4>1. \A t \in Sources : t # s => cursor'[t].ord = cursor[t].ord
          BY <1>2, CursorFrame
        <4> HIDE DEF s
        <4> QED BY <3>1, <3>2, <4>1 DEF Position
      <3>5. Halted' = Halted
        BY <1>2, <3>3, ConflictFrame DEF Halted
      <3> QED BY <3>1, <3>4, <3>5 DEF Log!vars, Position, Halted
    <2>4. CASE FindConflict(p)
      <3>1. s \in Sources /\ s \in AppendSources
        BY <2>4 DEF FindConflict, Sources
      <3>2. landed' = landed
            /\ cursor' = [cursor EXCEPT ![s].state = "conflict", ![s].saved = TRUE]
        BY <2>4 DEF FindConflict
      <3>3. cursor \in [Sources -> Cursors]
        BY DEF Inv, TypeOK
      <3> HIDE DEF s
      <3>4. Position' = Position
        BY <3>1, <3>2, <3>3 DEF Position, Cursors
      <3>5. Halted' = Halted \cup {s}
        BY <3>1, <3>2, <3>3 DEF Halted, Cursors
      <3>6. Log!Halt(s)
        BY <3>1, <3>2, <3>4, <3>5 DEF Log!Halt, Position, Halted
      <3>7. Log!Next
        BY <3>1, <3>6 DEF Log!Next, Log!Halt
      <3> QED BY <3>7
    <2>5. CASE ~Land(p) /\ ~Commit(p) /\ ~FindConflict(p)
      <3>1. landed' = landed
        BY <1>2, <2>5, DiskOfActor
      <3>2. Position' = Position
        BY <1>2, <2>5, CursorFrame DEF Position
      <3>3. Halted' = Halted
        BY <1>2, <2>5, ConflictFrame DEF Halted
      <3> QED BY <3>1, <3>2, <3>3 DEF Log!vars, Position, Halted
    <2> QED BY <2>1, <2>2, <2>3, <2>4, <2>5
  <1> QED BY <1>1, <1>2, NextIsActs

LEMMA InitFilled ==
    ASSUME Init
    PROVE  WindowFilled /\ Log!Init
  <1>1. NewCursor.ord = 0 /\ NewCursor.state = "active"
    BY DEF NewCursor
  <1>2. \A s \in Sources : cursor[s] = NewCursor
    BY DEF Init
  <1>3. \A p \in Collectors : pc[p] = "idle"
    BY DEF Init
  <1>4. WindowFilled
    BY <1>1, <1>2, <1>3 DEF WindowFilled, Sources
  <1>5. Log!Init
    BY <1>1, <1>2 DEF Log!Init, Init
  <1> QED BY <1>4, <1>5

\* Every step of any number of collectors, with their crashes and failures and
\* whatever the sources do, is a step of LandedLog or changes nothing its
\* readers see (collect.go landAppend, landSnapshot, state.go RecoverNextSeq).
THEOREM Refinement == Spec => ImplementsLog
  <1>1. Inv /\ WindowFilled /\ [Next]_vars => WindowFilled'
    <2>1. CASE UNCHANGED vars
      BY <2>1 DEF vars, WindowFilled
    <2> QED BY <2>1, FilledStep
  <1>2. Spec => []WindowFilled
    BY <1>1, InitFilled, Invariance, PTL DEF Spec
  <1>3. Inv /\ WindowFilled /\ [Next]_vars => [Log!Next]_(Log!vars)
    BY LogStep
  <1> QED BY <1>2, <1>3, InitFilled, Invariance, PTL DEF Spec, ImplementsLog, Log!Spec

-----------------------------------------------------------------------------
(* No line lands twice without a fault. *)

\* Where the source stands after a landed file.
Ends(f) == f.from + Len(f.recs)

\* While nothing has failed, the files of a source follow one another, and its
\* cursor is past all of them, but for the newest while it is being committed.
Apart ==
    faults = 0 =>
        /\ \A i, j \in DOMAIN landed :
            i < j /\ landed[i].src = landed[j].src /\ landed[i].src \in AppendSources =>
                Ends(landed[i]) <= landed[j].from
        /\ \A i \in DOMAIN landed : landed[i].src \in AppendSources =>
            \/ Ends(landed[i]) <= cursor[landed[i].src].ord
            \/ i = Len(landed) /\ \E p \in Collectors : pc[p] = "commit"

\* A fault is never forgotten, and one that landed a window leaves it only by
\* committing its cursor, unless something fails.
LEMMA FaultFrame ==
    ASSUME TypeOK, NEW p \in Collectors, Act(p), faults' = 0
    PROVE  /\ faults = 0
           /\ pc[p] = "commit" => Commit(p)
  <1>0. faults \in Nat
    BY DEF TypeOK
  <1>1. CASE Discover(p) \/ CheckLost(p) \/ Busy(p) \/ Open(p) \/ Reindex(p)
    BY <1>1 DEF Discover, CheckLost, Busy, Open, Reindex
  <1>2. CASE ReadWindow(p) \/ ReadSnapshot(p) \/ Land(p) \/ SourceFails(p)
    BY <1>0, <1>2 DEF ReadWindow, ReadSnapshot, Land, SourceFails
  <1>3. CASE WriteIndex(p) \/ SaveIndexState(p) \/ Close(p) \/ Crash(p)
    BY <1>0, <1>3 DEF WriteIndex, SaveIndexState, Close, Crash
  <1>4. CASE FoundGone(p) \/ FindConflict(p) \/ NothingNew(p) \/ Commit(p)
    BY <1>4 DEF FoundGone, FindConflict, NothingNew, Commit
  <1>5. ASSUME NEW s \in Sources, Visit(p, s) \/ MarkIfGone(p, s) \/ VisitFails(p, s)
        PROVE  faults = 0 /\ (pc[p] = "commit" => Commit(p))
    BY <1>0, <1>5 DEF Visit, MarkIfGone, VisitFails, Marking
  <1>6. CASE MarkFails(p) \/ Checked(p) \/ Visited(p)
    BY <1>0, <1>6 DEF MarkFails, Checked, Visited
  <1> QED BY <1>1, <1>2, <1>3, <1>4, <1>5, <1>6 DEF Act, Step

\* The numbers of a landed file.
LEMMA FileNumbers ==
    ASSUME NEW f \in LandedFiles
    PROVE  f.from \in Nat /\ Len(f.recs) \in Nat /\ f.src \in Sources /\ Ends(f) \in Nat
  BY LenProperties DEF LandedFiles, Ends

\* A window lands behind every file of its source.
LEMMA ApartLand ==
    ASSUME Inv, Apart, NEW p \in Collectors, Land(p)
    PROVE  Apart'
  <1> DEFINE n == Len(landed)
             s == pass[p].source
             f == landed'[n + 1]
  <1>1. landed \in Seq(LandedFiles) /\ landed' \in Seq(LandedFiles)
    BY TypeStep, NextIsActs DEF Act, Step, Inv, TypeOK
  <1>2. Act(p)
    BY DEF Act, Step
  <1>3. n \in Nat /\ Len(landed') = n + 1 /\ DOMAIN landed = 1 .. n /\ DOMAIN landed' = 1 .. n + 1
        /\ \A i \in 1 .. n : landed'[i] = landed[i]
    BY <1>1, <1>2, LandedGrows, LenProperties
  <1>4. f.src = s /\ f.from = pass[p].chunk.from
    BY <1>1, AppendProperties DEF Land
  <1>5. pc[p] = "land" /\ pc'[p] = "commit" /\ cursor' = cursor /\ faults' = faults
    BY DEF Land, Inv, TypeOK
  <1>6. \A q \in Collectors : pc[q] # "commit"
    <2>1. lock = p
      BY <1>5 DEF Inv, LockHeld, InSession
    <2> QED BY <1>5, <2>1 DEF Inv, LockHeld, InSession
  <1>7. s \in AppendSources => f.from = cursor[s].ord
    BY <1>4, <1>5 DEF Inv, WindowHeld
  <1>8. \A i \in 1 .. n : landed[i] \in LandedFiles
    BY <1>1, <1>3
  <1> SUFFICES ASSUME faults = 0 PROVE Apart'
    BY <1>5 DEF Apart
  <1>9. \A i \in 1 .. n : landed[i].src \in AppendSources =>
            Ends(landed[i]) <= cursor[landed[i].src].ord
    BY <1>3, <1>6 DEF Apart
  <1>10. \A i, j \in 1 .. n : i < j /\ landed[i].src = landed[j].src
            /\ landed[i].src \in AppendSources => Ends(landed[i]) <= landed[j].from
    BY <1>3 DEF Apart
  <1> HIDE DEF n, f, s
  <1>11. ASSUME NEW i \in 1 .. n + 1, NEW j \in 1 .. n + 1, i < j,
                landed'[i].src = landed'[j].src, landed'[i].src \in AppendSources
         PROVE  Ends(landed'[i]) <= landed'[j].from
    <2>1. i \in 1 .. n /\ landed'[i] = landed[i]
      BY <1>3, <1>11
    <2>2. CASE j \in 1 .. n
      BY <1>3, <1>10, <1>11, <2>1, <2>2
    <2>3. CASE j = n + 1
      BY <1>4, <1>7, <1>9, <1>11, <2>1, <2>3 DEF f
    <2> QED BY <1>3, <2>2, <2>3
  <1>12. ASSUME NEW i \in 1 .. n + 1, landed'[i].src \in AppendSources
         PROVE  \/ Ends(landed'[i]) <= cursor[landed'[i].src].ord
                \/ i = n + 1 /\ \E q \in Collectors : pc'[q] = "commit"
    <2>1. CASE i = n + 1
      BY <1>5, <2>1
    <2>2. CASE i \in 1 .. n
      BY <1>3, <1>9, <1>12, <2>2
    <2> QED BY <1>3, <2>1, <2>2
  <1> QED BY <1>3, <1>5, <1>11, <1>12 DEF Apart, Ends

\* The cursor moves past the file that landed.
LEMMA ApartCommit ==
    ASSUME Inv, Apart, NEW p \in Collectors, Commit(p)
    PROVE  Apart'
  <1> DEFINE n == Len(landed)
             s == pass[p].source
             w == pass[p].chunk
  <1>1. landed \in Seq(LandedFiles) /\ n \in Nat /\ DOMAIN landed = 1 .. n
    BY LenProperties DEF Inv, TypeOK
  <1>2. landed' = landed /\ s \in Sources /\ cursor'[s] = Committed(p, s)
    BY CommitFacts
  <1>3. \A t \in Sources : t # s => cursor'[t].ord = cursor[t].ord
    BY CursorFrame DEF Act, Step
  <1>4. pc[p] = "commit" /\ faults' = faults
    BY DEF Commit
  <1>5. /\ landed # <<>> /\ landed[n].src = s
        /\ landed[n].from = w.from /\ landed[n].recs = w.lines
        /\ (s \in AppendSources => w.from = cursor[s].ord)
    BY <1>4 DEF Inv, WindowHeld
  <1>6. n \in 1 .. n
    BY <1>1, <1>5, EmptySeq
  <1>7. \A i \in 1 .. n : /\ landed[i].from \in Nat /\ Len(landed[i].recs) \in Nat
                          /\ landed[i].src \in Sources /\ Ends(landed[i]) \in Nat
    BY <1>1, FileNumbers
  <1>8. s \in AppendSources => cursor'[s].ord = Ends(landed[n])
    BY <1>2, <1>5, CommittedType, CollectorAssumption DEF Inv, Through, Ends
  <1> SUFFICES ASSUME faults = 0 PROVE Apart'
    BY <1>4 DEF Apart
  <1> HIDE DEF n, s, w
  <1>9. ASSUME NEW i \in 1 .. n, landed[i].src \in AppendSources
        PROVE  Ends(landed[i]) <= cursor'[landed[i].src].ord
    <2>1. CASE i = n
      BY <1>5, <1>7, <1>8, <1>9, <2>1
    <2>2. CASE i # n
      <3>1. Ends(landed[i]) <= cursor[landed[i].src].ord
        BY <1>1, <1>9, <2>2 DEF Apart, n
      <3>2. CASE landed[i].src # s
        BY <1>3, <1>7, <3>1, <3>2
      <3>3. CASE landed[i].src = s
        <4>1. Ends(landed[i]) <= landed[n].from
          BY <1>5, <1>9, <3>1, <3>3
        <4>2. Ends(landed[n]) = landed[n].from + Len(landed[n].recs)
          BY DEF Ends
        <4> QED BY <1>6, <1>7, <1>8, <1>9, <3>3, <4>1, <4>2
      <3> QED BY <3>2, <3>3
    <2> QED BY <2>1, <2>2
  <1>10. \A i, j \in DOMAIN landed : i < j /\ landed[i].src = landed[j].src
            /\ landed[i].src \in AppendSources => Ends(landed[i]) <= landed[j].from
    BY DEF Apart
  <1> QED BY <1>1, <1>2, <1>9, <1>10 DEF Apart, Ends

LEMMA ApartStep ==
    ASSUME Inv, Apart, [Next]_vars
    PROVE  Apart'
  <1>1. CASE Environment \/ UNCHANGED vars
    <2>1. UNCHANGED <<landed, cursor, pc, faults>>
      BY <1>1, EnvironmentQuiet DEF disk, vars
    <2> QED BY <2>1 DEF Apart, Ends
  <1>2. ASSUME NEW p \in Collectors, Act(p), ~Land(p), ~Commit(p)
        PROVE  Apart'
    <2> SUFFICES ASSUME faults' = 0 PROVE Apart'
      BY DEF Apart
    <2>1. faults = 0 /\ pc[p] # "commit"
      BY <1>2, FaultFrame DEF Inv
    <2>2. landed' = landed
      BY <1>2, DiskOfActor
    <2>3. \A s \in Sources : cursor'[s].ord = cursor[s].ord
      BY <1>2, CursorFrame
    <2>4. \A q \in Collectors : pc[q] = "commit" => pc'[q] = "commit"
      BY <1>2, <2>1, OthersUntouched DEF Inv
    <2>5. \A i \in DOMAIN landed : landed[i].src \in Sources
      BY FileNumbers DEF Inv, TypeOK
    <2> QED BY <2>1, <2>2, <2>3, <2>4, <2>5 DEF Apart, Ends
  <1> QED BY <1>1, <1>2, ApartLand, ApartCommit, NextIsActs

\* With no crash and no failed write no line of a transcript or a journal lands
\* twice, however many collectors run and whatever the sources do
\* (collect.go landAppend, lock.go LockSession).
THEOREM LandsOnce == Spec => []OnceWithoutFaults
  <1>1. Init => Apart
    <2>1. Init => landed = <<>>
      BY DEF Init
    <2> QED BY <2>1 DEF Apart
  <1>2. Inv /\ Apart => OnceWithoutFaults
    <2> SUFFICES ASSUME Inv, Apart, faults = 0,
                        NEW i \in DOMAIN landed, NEW j \in DOMAIN landed, i # j,
                        landed[i].src = landed[j].src, landed[i].src \in AppendSources
                 PROVE  \/ Ends(landed[i]) <= landed[j].from
                        \/ Ends(landed[j]) <= landed[i].from
      BY DEF OnceWithoutFaults, Ends
    <2>1. DOMAIN landed = 1 .. Len(landed) /\ Len(landed) \in Nat
      BY LenProperties DEF Inv, TypeOK
    <2>2. i < j \/ j < i
      BY <2>1
    <2> QED BY <2>2 DEF Apart
  <1>3. Inv /\ Apart /\ [Next]_vars => Apart'
    BY ApartStep
  <1> QED BY <1>1, <1>2, <1>3, Invariance, PTL DEF Spec

-----------------------------------------------------------------------------
(* The index. *)

\* The entries of the first n files of a log.
Covered(log, n) ==
    {e \in [seq : Nat, row : Nat] :
        e.seq \in 1 .. n /\ e.row \in 1 .. Len(log[e.seq].recs)}

\* An index that holds the entries of the first n files, each once.
Exact(log, ix, n) ==
    /\ {ix[k] : k \in DOMAIN ix} = Covered(log, n)
    /\ \A k, m \in DOMAIN ix : ix[k] = ix[m] => k = m

\* What a collector holds of the index: the files it closed the gap to, and
\* from then on every landed file.
IndexOf(p) ==
    pc[p] \in InSession =>
        /\ pc[p] = "reindex" =>
            pass[p].ixTo <= Len(landed) /\ Exact(landed, pass[p].ix, pass[p].ixTo)
        /\ pc[p] # "reindex" => Exact(landed, pass[p].ix, Len(landed))

\* The index on disk is of some number of the first files, whichever write of
\* it came last; its saved state counts the entries of those it names.
IndexHeld ==
    /\ ixState.seq <= Len(landed)
    /\ \E n \in 0 .. Len(landed) : Exact(landed, index, n)
    /\ ixState.schema =>
        \E e \in Entries : Exact(landed, e, ixState.seq) /\ Len(e) = ixState.entries
    /\ \A p \in Collectors : IndexOf(p)

\* An empty index is of no file.
LEMMA ExactEmpty ==
    ASSUME NEW log
    PROVE  Exact(log, <<>>, 0)
  BY DEF Exact, Covered

\* The rows of the next file extend an index by that file.
LEMMA ExactExtend ==
    ASSUME NEW log \in Seq(LandedFiles), NEW ix \in Entries, NEW n \in Nat,
           n + 1 \in DOMAIN log, log[n + 1].seq = n + 1, Exact(log, ix, n)
    PROVE  Exact(log, ix \o Rows(log[n + 1]), n + 1)
  <1> DEFINE f == log[n + 1]
             len == Len(f.recs)
             rows == Rows(f)
             a == Len(ix)
             cat == ix \o rows
             Row(r) == [seq |-> n + 1, row |-> r]
  <1>1. f \in LandedFiles /\ len \in Nat
    <2>1. f \in LandedFiles
      BY ElementOfSeq, LenProperties
    <2>2. f.recs \in Seq(Lines)
      BY <2>1 DEF LandedFiles
    <2> QED BY <2>1, <2>2, LenProperties
  <1>2. rows \in Entries /\ rows = [r \in 1 .. len |-> Row(r)]
    BY <1>1, RowsType DEF Rows
  <1>3. Len(rows) = len
    <2>1. rows \in Seq([seq : Nat, row : Nat])
      BY <1>2 DEF Entries
    <2> HIDE DEF rows, len
    <2>2. DOMAIN rows = 1 .. len /\ DOMAIN rows = 1 .. Len(rows) /\ Len(rows) \in Nat
      BY <1>2, <2>1, LenProperties
    <2> QED BY <1>1, <2>2
  <1>4. a \in Nat /\ DOMAIN ix = 1 .. a
    BY LenProperties DEF Entries
  <1>5. /\ DOMAIN cat = 1 .. a + len
        /\ \A k \in 1 .. a : cat[k] = ix[k]
        /\ \A k \in 1 .. len : cat[a + k] = Row(k)
    <2>1. ix \in Seq([seq : Nat, row : Nat]) /\ rows \in Seq([seq : Nat, row : Nat])
      BY <1>2 DEF Entries
    <2> HIDE DEF rows, len, a
    <2>2. /\ cat \in Seq([seq : Nat, row : Nat]) /\ Len(cat) = a + len
          /\ \A k \in 1 .. a + len : cat[k] = IF k <= a THEN ix[k] ELSE rows[k - a]
      BY <1>3, <2>1, ConcatProperties DEF a
    <2>3. DOMAIN cat = 1 .. a + len
      BY <2>2, LenProperties
    <2>4. ASSUME NEW k \in 1 .. len PROVE cat[a + k] = Row(k)
      <3>1. a + k \in 1 .. a + len /\ ~(a + k <= a) /\ (a + k) - a = k
        BY <1>1, <1>4
      <3>2. cat[a + k] = rows[k]
        BY <2>2, <3>1
      <3> QED BY <1>2, <3>2
    <2>5. ASSUME NEW k \in 1 .. a PROVE cat[k] = ix[k]
      <3>1. k \in 1 .. a + len /\ k <= a
        BY <1>1, <1>4
      <3> QED BY <2>2, <3>1
    <2> QED BY <2>3, <2>4, <2>5
  <1>6. \A k \in 1 .. a : ix[k] \in Covered(log, n)
    BY <1>4 DEF Exact
  <1>7. \A e \in Covered(log, n) : \E k \in 1 .. a : ix[k] = e
    BY <1>4 DEF Exact
  <1>8. \A k, m \in 1 .. a : ix[k] = ix[m] => k = m
    BY <1>4 DEF Exact
  <1>9. Covered(log, n + 1) = Covered(log, n) \cup {Row(r) : r \in 1 .. len}
    <2>1. \A e \in [seq : Nat, row : Nat] : e = [seq |-> e.seq, row |-> e.row]
      OBVIOUS
    <2>2. \A r \in 1 .. len : Row(r) \in [seq : Nat, row : Nat]
      BY <1>1
    <2> QED BY <1>1, <2>1, <2>2 DEF Covered
  <1>10. \A e \in Covered(log, n) : e.seq # n + 1
    BY DEF Covered
  <1> HIDE DEF f, len, rows, a, cat
  <1>11. {cat[k] : k \in 1 .. a + len} = Covered(log, n + 1)
    <2>1. ASSUME NEW k \in 1 .. a + len PROVE cat[k] \in Covered(log, n + 1)
      <3>1. CASE k \in 1 .. a
        BY <1>5, <1>6, <1>9, <3>1
      <3>2. CASE k \notin 1 .. a
        <4>1. k - a \in 1 .. len /\ a + (k - a) = k
          BY <1>1, <1>4, <3>2
        <4>2. cat[k] = Row(k - a)
          BY <1>5, <4>1
        <4> QED BY <1>9, <4>1, <4>2
      <3> QED BY <3>1, <3>2
    <2>2. ASSUME NEW e \in Covered(log, n + 1) PROVE \E k \in 1 .. a + len : cat[k] = e
      <3>1. CASE e \in Covered(log, n)
        <4>1. PICK k \in 1 .. a : ix[k] = e
          BY <1>7, <3>1
        <4>2. k \in 1 .. a + len /\ cat[k] = e
          BY <1>1, <1>4, <1>5, <4>1
        <4> QED BY <4>2
      <3>2. CASE e \notin Covered(log, n)
        <4>1. PICK r \in 1 .. len : e = Row(r)
          BY <1>9, <3>2
        <4>2. a + r \in 1 .. a + len /\ cat[a + r] = e
          BY <1>1, <1>4, <1>5, <4>1
        <4> QED BY <4>2
      <3> QED BY <3>1, <3>2
    <2> QED BY <2>1, <2>2
  <1>12. ASSUME NEW k \in 1 .. a + len, NEW m \in 1 .. a + len, cat[k] = cat[m]
         PROVE  k = m
    <2>1. ASSUME NEW i \in 1 .. a + len, i \notin 1 .. a
          PROVE  i - a \in 1 .. len /\ cat[i] = Row(i - a)
      <3>1. i - a \in 1 .. len /\ a + (i - a) = i
        BY <1>1, <1>4, <2>1
      <3> QED BY <1>5, <3>1
    <2>2. \A i \in 1 .. a : cat[i].seq # n + 1
      BY <1>5, <1>6, <1>10
    <2>3. CASE k \in 1 .. a /\ m \in 1 .. a
      BY <1>5, <1>8, <1>12, <2>3
    <2>4. CASE k \notin 1 .. a /\ m \notin 1 .. a
      <3>1. cat[k] = Row(k - a) /\ cat[m] = Row(m - a)
        BY <2>1, <2>4
      <3>2. Row(k - a) = Row(m - a)
        BY <1>12, <3>1
      <3>3. k - a = m - a
        BY <3>2
      <3> QED BY <1>1, <1>4, <3>3
    <2>5. CASE k \in 1 .. a /\ m \notin 1 .. a
      <3>1. cat[m] = Row(m - a) /\ cat[k].seq # n + 1
        BY <2>1, <2>2, <2>5
      <3> QED BY <1>12, <3>1
    <2>6. CASE k \notin 1 .. a /\ m \in 1 .. a
      <3>1. cat[k] = Row(k - a) /\ cat[m].seq # n + 1
        BY <2>1, <2>2, <2>6
      <3> QED BY <1>12, <3>1
    <2> QED BY <2>3, <2>4, <2>5, <2>6
  <1>13. Exact(log, cat, n + 1)
    BY <1>5, <1>11, <1>12 DEF Exact
  <1> QED BY <1>13 DEF cat, rows, f

\* Files that land later do not change what an index of the earlier ones is.
LEMMA ExactKept ==
    ASSUME NEW log, NEW later, NEW ix, NEW n \in Nat, Exact(log, ix, n),
           \A i \in 1 .. n : later[i] = log[i]
    PROVE  Exact(later, ix, n)
  <1>1. Covered(later, n) = Covered(log, n)
    BY DEF Covered
  <1> QED BY <1>1 DEF Exact

\* Of two lists of one length without repetition, one within the other is all of it.
LEMMA SameLength ==
    ASSUME NEW a \in Entries, NEW b \in Entries, Len(a) = Len(b),
           \A k, m \in DOMAIN a : a[k] = a[m] => k = m,
           \A k, m \in DOMAIN b : b[k] = b[m] => k = m,
           {a[k] : k \in DOMAIN a} \subseteq {b[k] : k \in DOMAIN b}
    PROVE  {a[k] : k \in DOMAIN a} = {b[k] : k \in DOMAIN b}
  <1> DEFINE n == Len(a)
             T == {b[k] : k \in DOMAIN b}
             E == [seq : Nat, row : Nat]
  <1>0. a \in Seq(E) /\ b \in Seq(E)
    BY DEF Entries
  <1>1. n \in Nat /\ DOMAIN a = 1 .. n /\ DOMAIN b = 1 .. n
        /\ a \in [1 .. n -> E] /\ b \in [1 .. n -> E]
    <2> HIDE DEF E
    <2> QED BY <1>0, LenProperties
  <1>2. a \in [1 .. n -> T] /\ b \in [1 .. n -> T]
    BY <1>1
  <1>3. \A x \in T : \E k \in 1 .. n : b[k] = x
    BY <1>1
  <1>4. \A k, m \in 1 .. n : (a[k] = a[m] => k = m) /\ (b[k] = b[m] => k = m)
    BY <1>1
  <1>5. {a[k] : k \in DOMAIN a} = {a[k] : k \in 1 .. n}
    BY <1>1
  <1> HIDE DEF n, T
  <1>6. b \in Bijection(1 .. n, T)
    BY <1>2, <1>3, <1>4, Fun_IsBij
  <1>7. IsFiniteSet(1 .. n) /\ Cardinality(1 .. n) = n
    <2>0. 1 \in Int /\ n \in Int
      BY <1>1
    <2>1. /\ IsFiniteSet(1 .. n)
          /\ Cardinality(1 .. n) = IF 1 > n THEN 0 ELSE n - 1 + 1
      BY <2>0, FS_Interval, Zenon
    <2> QED BY <1>1, <2>1
  <1>8. IsFiniteSet(T) /\ Cardinality(T) = n
    BY <1>6, <1>7, FS_Bijection DEF ExistsBijection
  <1>9. a \in Injection(1 .. n, T)
    BY <1>2, <1>4, Fun_IsInj
  <1>10. a \in Surjection(1 .. n, T)
    <2>1. Cardinality(1 .. n) = Cardinality(T) <=> a \in Surjection(1 .. n, T)
      BY <1>8, <1>9, FS_Injection, Zenon
    <2> QED BY <1>7, <1>8, <2>1
  <1>11. \A x \in T : \E k \in 1 .. n : a[k] = x
    BY <1>10 DEF Surjection
  <1>12. {a[k] : k \in 1 .. n} = T
    BY <1>2, <1>11
  <1> QED BY <1>5, <1>12 DEF T

\* Two exact indexes of one length are of the same entries.
LEMMA ExactCounts ==
    ASSUME NEW log, NEW a \in Entries, NEW b \in Entries, Len(a) = Len(b),
           NEW m \in Nat, NEW n \in Nat, Exact(log, a, m), Exact(log, b, n)
    PROVE  Exact(log, a, n)
  <1>1. Covered(log, m) \subseteq Covered(log, n) \/ Covered(log, n) \subseteq Covered(log, m)
    BY DEF Covered
  <1>2. {a[k] : k \in DOMAIN a} = {b[k] : k \in DOMAIN b}
    BY <1>1, SameLength DEF Exact
  <1> QED BY <1>2 DEF Exact

\* An index that is loaded is of the files its state names.
LEMMA LoadedIsExact ==
    ASSUME Inv, IndexHeld, IndexAgrees
    PROVE  Exact(landed, index, ixState.seq)
  <1>1. PICK n \in 0 .. Len(landed) : Exact(landed, index, n)
    BY DEF IndexHeld
  <1>2. PICK e \in Entries : Exact(landed, e, ixState.seq) /\ Len(e) = ixState.entries
    BY DEF IndexHeld, IndexAgrees
  <1>3. index \in Entries /\ ixState.seq \in Nat /\ n \in Nat /\ Len(index) = Len(e)
    BY <1>2, LenProperties DEF Inv, TypeOK, IndexAgrees
  <1> QED BY <1>1, <1>2, <1>3, ExactCounts

\* A collector closing the gap takes the file after the last it covers.
LEMMA NextIsNext ==
    ASSUME landed \in Seq(LandedFiles), SeqsDense, NEW q \in Nat,
           NEW i \in DOMAIN landed, q < Len(landed), NextUnindexed(q, i)
    PROVE  i = q + 1 /\ landed[i].seq = q + 1
  <1>1. Len(landed) \in Nat /\ DOMAIN landed = 1 .. Len(landed)
    BY LenProperties
  <1>2. \A j \in 1 .. Len(landed) : landed[j].seq = j
    BY <1>1 DEF SeqsDense
  <1>3. q + 1 \in 1 .. Len(landed) /\ i \in 1 .. Len(landed)
    BY <1>1
  <1>4. i > q /\ \A j \in 1 .. Len(landed) : j > q => i <= j
    BY <1>1, <1>2, <1>3 DEF NextUnindexed
  <1> QED BY <1>1, <1>2, <1>3, <1>4

\* Closing the gap by one file.
LEMMA ReindexOne ==
    ASSUME Inv, IndexHeld, NEW p \in Collectors, Reindex(p)
    PROVE  IndexOf(p)'
  <1> DEFINE n == Len(landed)
             q == pass[p].ixTo
  <1>1. /\ landed \in Seq(LandedFiles) /\ n \in Nat /\ pass[p] \in Passes
        /\ pass \in [Collectors -> Passes] /\ pc \in [Collectors -> PCs]
    BY LenProperties DEF Inv, TypeOK, PCs
  <1>2. pc[p] = "reindex" /\ landed' = landed /\ pass[p].next = n + 1
    BY DEF Reindex, Inv, CounterExact, InSession, disk
  <1>3. q \in Nat /\ q <= n /\ Exact(landed, pass[p].ix, q) /\ pass[p].ix \in Entries
    BY <1>1, <1>2 DEF IndexHeld, IndexOf, InSession, Passes
  <1>4. CASE q < pass[p].next - 1
    <2>1. PICK i \in DOMAIN landed :
            /\ NextUnindexed(q, i)
            /\ pass' = [pass EXCEPT ![p].ix = @ \o Rows(landed[i]),
                                    ![p].ixTo = landed[i].seq, ![p].dirty = TRUE]
      BY <1>4 DEF Reindex
    <2>2. pc' = pc
      BY <1>4 DEF Reindex
    <2>3. q < n
      BY <1>1, <1>2, <1>3, <1>4
    <2>4. i = q + 1 /\ landed[i].seq = q + 1
      BY <1>1, <1>3, <2>1, <2>3, NextIsNext DEF Inv
    <2>5. Exact(landed, pass[p].ix \o Rows(landed[i]), q + 1)
      BY <1>1, <1>3, <2>4, ExactExtend
    <2> DEFINE ix == pass[p].ix \o Rows(landed[i])
               to == landed[i].seq
    <2>6. pass' = [pass EXCEPT ![p].ix = ix, ![p].ixTo = to, ![p].dirty = TRUE]
      BY <2>1
    <2> HIDE DEF ix, to
    <2>7. pass'[p].ix = ix /\ pass'[p].ixTo = to
      BY <1>1, <2>6 DEF Passes
    <2>8. Exact(landed', pass'[p].ix, pass'[p].ixTo) /\ pass'[p].ixTo <= n
      BY <1>1, <1>2, <1>3, <2>3, <2>4, <2>5, <2>7 DEF ix, to
    <2> QED BY <1>2, <2>2, <2>8 DEF IndexOf
  <1>5. CASE ~(q < pass[p].next - 1)
    <2>1. pass' = pass /\ pc'[p] = "sources"
      BY <1>1, <1>5 DEF Reindex
    <2>2. q = n
      BY <1>1, <1>2, <1>3, <1>5
    <2> QED BY <1>2, <1>3, <2>1, <2>2 DEF IndexOf
  <1> QED BY <1>4, <1>5

\* The index loaded, or begun again.
LEMMA OpenLoads ==
    ASSUME Inv, IndexHeld, NEW p \in Collectors, Open(p)
    PROVE  IndexOf(p)'
  <1> DEFINE ix == IF LoadFor THEN index ELSE <<>>
             to == IF LoadFor THEN ixState.seq ELSE 0
             found == pass[p].found
             un == Unlisted(found)
             next == RecoverNextSeq
  <1>1. /\ pass[p] \in Passes /\ pass \in [Collectors -> Passes] /\ pc \in [Collectors -> PCs]
        /\ Len(landed) \in Nat
    BY LenProperties DEF Inv, TypeOK, PCs
  <1>2. Exact(landed, ix, to) /\ to <= Len(landed)
    BY <1>1, ExactEmpty, LoadedIsExact DEF LoadFor, IndexHeld
  <1>3. pass' = [pass EXCEPT ![p].todo = found, ![p].unlisted = un, ![p].next = next,
                             ![p].ix = ix, ![p].ixTo = to]
        /\ pc'[p] = "reindex" /\ landed' = landed
    BY <1>1 DEF Open, disk
  <1> HIDE DEF ix, to, found, un, next
  <1>4. pass'[p].ix = ix /\ pass'[p].ixTo = to
    BY <1>1, <1>3 DEF Passes
  <1> QED BY <1>2, <1>3, <1>4 DEF IndexOf

\* The rows of a window join the index with the file.
LEMMA LandExtends ==
    ASSUME Inv, IndexHeld, NEW p \in Collectors, Land(p)
    PROVE  IndexOf(p)'
  <1> DEFINE n == Len(landed)
             f == [seq |-> pass[p].next, src |-> pass[p].source,
                   from |-> pass[p].chunk.from, recs |-> pass[p].chunk.lines]
             ix == pass[p].ix \o Rows(f)
             next == pass[p].next + 1
  <1>0. Act(p)
    BY DEF Act, Step
  <1>1. /\ landed \in Seq(LandedFiles) /\ n \in Nat /\ pass[p] \in Passes
        /\ pass \in [Collectors -> Passes] /\ pc \in [Collectors -> PCs]
        /\ pass[p].ix \in Entries
    BY LenProperties DEF Inv, TypeOK, PCs, Passes
  <1>2. landed' \in Seq(LandedFiles)
    BY <1>0, TypeStep, NextIsActs DEF TypeOK
  <1>3. /\ Len(landed') = n + 1 /\ \A i \in 1 .. n : landed'[i] = landed[i]
        /\ SeqsDense'
    BY <1>0, LandedGrows
  <1>4. /\ landed' = Append(landed, f) /\ pc'[p] = "commit"
        /\ pass' = [pass EXCEPT ![p].next = next, ![p].ix = ix]
    BY <1>1 DEF Land
  <1>5. landed'[n + 1] = f
    <2>1. landed \in Seq(LandedFiles \cup {f})
      BY <1>1
    <2> HIDE DEF f
    <2> QED BY <1>4, <2>1, AppendProperties
  <1>6. n + 1 \in DOMAIN landed'
    BY <1>1, <1>2, <1>3, LenProperties
  <1>7. landed'[n + 1].seq = n + 1
    BY <1>3, <1>6 DEF SeqsDense
  <1>8. Exact(landed, pass[p].ix, n)
    BY DEF Land, IndexHeld, IndexOf, InSession
  <1>9. Exact(landed', pass[p].ix, n)
    BY <1>1, <1>3, <1>8, ExactKept
  <1>10. Exact(landed', ix, n + 1)
    BY <1>1, <1>2, <1>5, <1>6, <1>7, <1>9, ExactExtend
  <1> HIDE DEF ix, next, f, n
  <1>11. pass'[p].ix = ix
    BY <1>1, <1>4 DEF Passes
  <1> QED BY <1>3, <1>4, <1>10, <1>11 DEF IndexOf

\* No other step changes the index a collector holds.
LEMMA HeldIndexFrame ==
    ASSUME Inv, NEW p \in Collectors, Act(p), ~Open(p), ~Reindex(p), ~Land(p),
           pc'[p] \in InSession
    PROVE  /\ pc[p] \in InSession /\ pc[p] # "reindex" /\ pc'[p] # "reindex"
           /\ pass'[p].ix = pass[p].ix
  <1> DEFINE Same == /\ pc[p] \in InSession /\ pc[p] # "reindex" /\ pc'[p] # "reindex"
                     /\ pass'[p].ix = pass[p].ix
  <1>1. pass \in [Collectors -> Passes] /\ pc \in [Collectors -> PCs] /\ pass[p] \in Passes
    BY DEF Inv, TypeOK, PCs
  <1>2. CASE Discover(p) \/ CheckLost(p) \/ Busy(p)
    <2>1. pc'[p] \in {"found", "idle", "lost", "marking"}
      BY <1>1, <1>2 DEF Discover, CheckLost, Busy
    <2> QED BY <2>1 DEF InSession
  <1>3. CASE ReadWindow(p) \/ ReadSnapshot(p) \/ SourceFails(p)
    <2>1. pc[p] \in {"tail", "land", "commit"} /\ pc'[p] \in {"land", "sources"}
      BY <1>1, <1>3 DEF ReadWindow, ReadSnapshot, SourceFails
    <2>2. \/ pass' = pass
          \/ \E x : pass' = [pass EXCEPT ![p].chunk = x]
          \/ \E x, y, s : pass' = [pass EXCEPT ![p].chunk = x, ![p].seen[s] = y]
          \/ \E x : pass' = [pass EXCEPT ![p].left = TRUE, ![p].chunk = x]
      BY <1>3 DEF ReadWindow, ReadSnapshot, SourceFails
    <2>3. pass'[p].ix = pass[p].ix
      BY <1>1, <2>2 DEF Passes
    <2> QED BY <2>1, <2>3 DEF InSession
  <1>4. CASE WriteIndex(p) \/ SaveIndexState(p)
    BY <1>1, <1>4 DEF WriteIndex, SaveIndexState, InSession
  <1>5. CASE Close(p) \/ Crash(p)
    <2>1. pc'[p] = "idle"
      BY <1>1, <1>5 DEF Close, Crash
    <2> QED BY <2>1 DEF InSession
  <1>6. CASE FoundGone(p) \/ FindConflict(p) \/ NothingNew(p) \/ Commit(p)
    <2>1. pc[p] \in {"tail", "commit"} /\ pc'[p] \in {"tail", "sources"}
      BY <1>1, <1>6 DEF FoundGone, FindConflict, NothingNew, Commit
    <2>2. pass'[p].ix = pass[p].ix
      BY <1>1, <1>6 DEF FoundGone, FindConflict, NothingNew, Commit, Passes
    <2> QED BY <2>1, <2>2 DEF InSession
  <1>7. ASSUME NEW s \in Sources, Visit(p, s)
        PROVE  Same
    <2>1. pc[p] = "sources" /\ pc'[p] \in {"sources", "tail"}
      BY <1>1, <1>7 DEF Visit
    <2>2. pass'[p].ix = pass[p].ix
      BY <1>1, <1>7 DEF Visit, Passes
    <2> QED BY <2>1, <2>2 DEF InSession
  <1>8. ASSUME NEW s \in Sources, MarkIfGone(p, s) \/ VisitFails(p, s)
        PROVE  Same
    <2>1. pc[p] \in {"sources", "marking"} /\ pc' = pc
      BY <1>8 DEF MarkIfGone, VisitFails, Marking
    <2>2. pass'[p].ix = pass[p].ix
      BY <1>1, <1>8 DEF MarkIfGone, VisitFails, Passes
    <2> QED BY <2>1, <2>2 DEF InSession
  <1>9. CASE MarkFails(p) \/ Checked(p) \/ Visited(p)
    <2>1. CASE Checked(p)
      BY <1>1, <2>1 DEF Checked, InSession
    <2>2. CASE MarkFails(p) \/ Visited(p)
      <3>1. pc[p] = "sources" /\ pc'[p] \in {"sources", "index", "state"}
        BY <1>1, <2>2 DEF MarkFails, Visited
      <3>2. pass'[p].ix = pass[p].ix
        BY <1>1, <2>2 DEF MarkFails, Visited, Passes
      <3> QED BY <3>1, <3>2 DEF InSession
    <2> QED BY <1>9, <2>1, <2>2
  <1> QED BY <1>2, <1>3, <1>4, <1>5, <1>6, <1>7, <1>8, <1>9 DEF Act, Step

\* Only the collector whose pass it is writes the index and its state.
LEMMA IndexOfActor ==
    ASSUME NEW p \in Collectors, Act(p)
    PROVE  /\ index' # index => WriteIndex(p)
           /\ ixState' # ixState => SaveIndexState(p)
  <1>1. CASE Discover(p) \/ CheckLost(p) \/ Busy(p) \/ Open(p) \/ Reindex(p)
    BY <1>1 DEF Discover, CheckLost, Busy, Open, Reindex, disk
  <1>2. CASE ReadWindow(p) \/ ReadSnapshot(p) \/ Land(p) \/ SourceFails(p)
    BY <1>2 DEF ReadWindow, ReadSnapshot, Land, SourceFails, disk
  <1>3. CASE WriteIndex(p) \/ SaveIndexState(p) \/ Close(p) \/ Crash(p)
    BY <1>3 DEF WriteIndex, SaveIndexState, Close, Crash, disk
  <1>4. CASE FoundGone(p) \/ FindConflict(p) \/ NothingNew(p) \/ Commit(p)
    BY <1>4 DEF FoundGone, FindConflict, NothingNew, Commit
  <1>5. ASSUME NEW s \in Sources, Visit(p, s) \/ MarkIfGone(p, s) \/ VisitFails(p, s)
        PROVE  index' = index /\ ixState' = ixState
    BY <1>5 DEF Visit, MarkIfGone, VisitFails, disk
  <1>6. CASE MarkFails(p) \/ Checked(p) \/ Visited(p)
    BY <1>6 DEF MarkFails, Checked, Visited, disk
  <1> QED BY <1>1, <1>2, <1>3, <1>4, <1>5, <1>6 DEF Act, Step

\* What every collector holds of the index stays exact.
LEMMA HeldIndexStep ==
    ASSUME Inv, IndexHeld, NEW p \in Collectors, Act(p), NEW q \in Collectors
    PROVE  IndexOf(q)'
  <1>1. CASE q # p
    <2>1. pc'[q] = pc[q] /\ pass'[q] = pass[q]
      BY <1>1, OthersUntouched DEF Inv
    <2>2. pc[q] \in InSession => landed' = landed
      BY <1>1, OthersWait DEF Held, disk
    <2> QED BY <2>1, <2>2 DEF IndexHeld, IndexOf
  <1>2. CASE Open(p) \/ Reindex(p) \/ Land(p)
    BY <1>1, <1>2, OpenLoads, ReindexOne, LandExtends
  <1>3. CASE q = p /\ ~Open(p) /\ ~Reindex(p) /\ ~Land(p)
    <2>1. landed' = landed
      BY <1>3, DiskOfActor
    <2> QED BY <1>3, <2>1, HeldIndexFrame DEF IndexHeld, IndexOf
  <1> QED BY <1>1, <1>2, <1>3

\* The writes of the index and of its state, and files that land between them.
LEMMA SavedIndexStep ==
    ASSUME Inv, IndexHeld, NEW p \in Collectors, Act(p)
    PROVE  /\ ixState'.seq <= Len(landed')
           /\ \E n \in 0 .. Len(landed') : Exact(landed', index', n)
           /\ ixState'.schema =>
               \E e \in Entries :
                   Exact(landed', e, ixState'.seq) /\ Len(e) = ixState'.entries
  <1> DEFINE n == Len(landed)
             m == Len(landed')
  <1>1. n \in Nat /\ m \in Nat /\ ixState.seq \in Nat /\ pass[p].ix \in Entries
    BY TypeStep, NextIsActs, LenProperties DEF Inv, TypeOK, Passes
  <1>2. m >= n /\ \A i \in 1 .. n : landed'[i] = landed[i]
    BY LandedGrows
  <1>3. ASSUME NEW ix, NEW k \in 0 .. n, Exact(landed, ix, k)
        PROVE  Exact(landed', ix, k)
    <2>1. k \in Nat /\ \A i \in 1 .. k : landed'[i] = landed[i]
      BY <1>1, <1>2
    <2> QED BY <1>3, <2>1, ExactKept
  <1>4. WriteIndex(p) \/ SaveIndexState(p) =>
            landed' = landed /\ Exact(landed, pass[p].ix, n)
    BY DEF WriteIndex, SaveIndexState, IndexHeld, IndexOf, InSession
  <1>5. \E k \in 0 .. m : Exact(landed', index', k)
    <2>1. CASE index' = index
      <3>1. PICK k \in 0 .. n : Exact(landed, index, k)
        BY DEF IndexHeld
      <3>2. Exact(landed', index', k)
        BY <1>3, <2>1, <3>1
      <3>3. k \in 0 .. m
        BY <1>1, <1>2
      <3> QED BY <3>2, <3>3
    <2>2. CASE index' # index
      <3>1. index' = pass[p].ix /\ landed' = landed
        BY <1>4, <2>2, IndexOfActor DEF WriteIndex
      <3>2. Exact(landed', index', n) /\ n \in 0 .. m
        BY <1>1, <1>2, <1>4, <2>2, <3>1, IndexOfActor
      <3> QED BY <3>2
    <2> QED BY <2>1, <2>2
  <1>6. CASE ixState' = ixState
    <2>1. ixState.seq \in 0 .. n
      BY <1>1 DEF IndexHeld
    <2>2. ixState.schema =>
            \E e \in Entries : Exact(landed', e, ixState.seq) /\ Len(e) = ixState.entries
      BY <1>3, <2>1 DEF IndexHeld
    <2>3. ixState.seq <= m
      BY <1>1, <1>2, <2>1
    <2> QED BY <1>5, <1>6, <2>2, <2>3
  <1>7. CASE ixState' # ixState
    <2>1. SaveIndexState(p)
      BY <1>7, IndexOfActor
    <2>2. pass[p].next = n + 1
      BY <2>1 DEF SaveIndexState, Inv, CounterExact, InSession
    <2>3. ixState' = [schema |-> TRUE, seq |-> pass[p].next - 1, entries |-> Len(pass[p].ix)]
      BY <2>1 DEF SaveIndexState
    <2>4. ixState'.seq = n /\ ixState'.entries = Len(pass[p].ix)
      BY <1>1, <2>2, <2>3
    <2>5. Exact(landed', pass[p].ix, n) /\ landed' = landed
      BY <1>4, <2>1
    <2> QED BY <1>1, <1>5, <2>4, <2>5
  <1> QED BY <1>6, <1>7

LEMMA IndexStep ==
    ASSUME Inv, IndexHeld, [Next]_vars
    PROVE  IndexHeld'
  <1>1. CASE Environment \/ UNCHANGED vars
    <2>1. UNCHANGED <<disk, pc, pass>>
      BY <1>1, EnvironmentQuiet DEF disk, vars
    <2> QED BY <2>1 DEF IndexHeld, IndexOf, disk
  <1>2. ASSUME NEW p \in Collectors, Act(p) PROVE IndexHeld'
    <2>1. \A q \in Collectors : IndexOf(q)'
      BY <1>2, HeldIndexStep
    <2> QED BY <1>2, <2>1, SavedIndexStep DEF IndexHeld
  <1> QED BY <1>1, <1>2, NextIsActs

LEMMA InitIndex ==
    ASSUME Init
    PROVE  IndexHeld
  <1>1. landed = <<>> /\ index = <<>> /\ Len(landed) = 0
        /\ ixState = [schema |-> FALSE, seq |-> 0, entries |-> 0]
    BY EmptySeq DEF Init
  <1>2. Exact(landed, index, 0) /\ 0 \in 0 .. Len(landed)
    BY <1>1, ExactEmpty
  <1>3. \A p \in Collectors : pc[p] \notin InSession
    BY DEF Init, InSession
  <1> QED BY <1>1, <1>2, <1>3 DEF IndexHeld, IndexOf

\* An index that agrees with its saved state is exactly of the files the state
\* names, whatever stopped between the two writes and however often the index
\* was begun again (codec.go LoadFor, collect.go collectSession).
THEOREM IndexIsExact == Spec => []IndexExact
  <1>1. Spec => []IndexHeld
    BY InitIndex, IndexStep, Invariance, PTL DEF Spec
  <1>2. Inv /\ IndexHeld => IndexExact
    <2> SUFFICES ASSUME Inv, IndexHeld, IndexAgrees
                 PROVE  /\ {index[k] : k \in DOMAIN index} =
                             UNION {{Rows(landed[i])[r] : r \in DOMAIN landed[i].recs} :
                                i \in {j \in DOMAIN landed : landed[j].seq <= ixState.seq}}
                        /\ \A k, m \in DOMAIN index : index[k] = index[m] => k = m
      BY DEF IndexExact
    <2> DEFINE n == Len(landed)
               q == ixState.seq
               Files == {j \in DOMAIN landed : landed[j].seq <= q}
               Of(i) == {Rows(landed[i])[r] : r \in DOMAIN landed[i].recs}
               Row(i, r) == [seq |-> i, row |-> r]
    <2>1. landed \in Seq(LandedFiles) /\ n \in Nat /\ DOMAIN landed = 1 .. n
          /\ q \in Nat /\ q <= n
      BY LenProperties DEF Inv, TypeOK, IndexHeld
    <2>2. Files = 1 .. q
      BY <2>1 DEF Inv, SeqsDense
    <2>3. ASSUME NEW i \in 1 .. n
          PROVE  /\ Len(landed[i].recs) \in Nat
                 /\ Of(i) = {Row(i, r) : r \in 1 .. Len(landed[i].recs)}
      <3>1. landed[i] \in LandedFiles
        BY <2>1
      <3>2. landed[i].recs \in Seq(Lines)
        BY <3>1 DEF LandedFiles
      <3>3. landed[i].seq = i
        BY <2>1 DEF Inv, SeqsDense
      <3>4. Len(landed[i].recs) \in Nat /\ DOMAIN landed[i].recs = 1 .. Len(landed[i].recs)
        BY <3>2, LenProperties
      <3>5. \A r \in 1 .. Len(landed[i].recs) : Rows(landed[i])[r] = Row(i, r)
        BY <3>3 DEF Rows
      <3>6. Of(i) = {Rows(landed[i])[r] : r \in 1 .. Len(landed[i].recs)}
        BY <3>4
      <3> HIDE DEF Of, Row
      <3> QED BY <3>4, <3>5, <3>6
    <2>4. UNION {Of(i) : i \in 1 .. q} = Covered(landed, q)
      <3>1. \A e \in [seq : Nat, row : Nat] : e = Row(e.seq, e.row)
        OBVIOUS
      <3>2. ASSUME NEW i \in 1 .. q, NEW e \in Of(i) PROVE e \in Covered(landed, q)
        <4>1. i \in 1 .. n
          BY <2>1
        <4>2. PICK r \in 1 .. Len(landed[i].recs) : e = Row(i, r)
          BY <2>3, <3>2, <4>1
        <4>3. e.seq = i /\ e.row = r /\ e \in [seq : Nat, row : Nat]
          BY <2>1, <2>3, <4>1, <4>2
        <4> QED BY <4>3 DEF Covered
      <3>3. ASSUME NEW e \in Covered(landed, q) PROVE \E i \in 1 .. q : e \in Of(i)
        <4>1. e \in [seq : Nat, row : Nat] /\ e.seq \in 1 .. q
              /\ e.row \in 1 .. Len(landed[e.seq].recs)
          BY DEF Covered
        <4>2. e.seq \in 1 .. n /\ e = Row(e.seq, e.row)
          BY <2>1, <3>1, <4>1
        <4>3. e \in {Row(e.seq, r) : r \in 1 .. Len(landed[e.seq].recs)}
          BY <4>1, <4>2
        <4>4. e \in Of(e.seq)
          BY <2>3, <4>2, <4>3
        <4> QED BY <4>1, <4>4
      <3> HIDE DEF Of, q
      <3> QED BY <3>2, <3>3
    <2> HIDE DEF n, Row
    <2>5. Exact(landed, index, q)
      BY LoadedIsExact
    <2> QED BY <2>2, <2>4, <2>5 DEF Exact
  <1> QED BY <1>1, <1>2, Invariance, PTL

-----------------------------------------------------------------------------
(* What a pass says it read. *)

\* The source a collector is at is not read to its end yet.
AtSource(p, s) == pc[p] \in {"tail", "land", "commit"} /\ pass[p].source = s

\* A pass that has nothing to say against a source it is done with saw no more
\* of it than its cursor consumed.  A window with nothing after it reaches the
\* end that was seen.
DrainedOf(p) ==
    /\ pc[p] \in InSession /\ ~pass[p].left =>
        \A s \in pass[p].found \cap AppendSources :
            s \notin pass[p].todo /\ ~AtSource(p, s) /\ cursor[s].state = "active" =>
                pass[p].seen[s] = Offset(cursor[s])
    /\ pc[p] \in {"index", "ixstate", "state"} => pass[p].todo = {}
    /\ pc[p] \in {"land", "commit"} /\ pass[p].source \in AppendSources
            /\ ~pass[p].chunk.more =>
        pass[p].seen[pass[p].source] = 2 * Through(pass[p].chunk)

Drained == \A p \in Collectors : DrainedOf(p)

\* The number of whole lines, and of half lines, in a file.
LEMMA SizeIs ==
    ASSUME NEW f \in File
    PROVE  /\ Len(f.lines) \in Nat /\ Size(f) \in Nat
           /\ Size(f) >= 2 * Len(f.lines)
           /\ ~f.partial => Size(f) = 2 * Len(f.lines)
  <1> DEFINE n == Len(f.lines)
             x == IF f.partial THEN 1 ELSE 0
  <1>1. n \in Nat
    BY LenProperties DEF File
  <1>2. x \in Nat /\ (~f.partial => x = 0)
    OBVIOUS
  <1>3. Size(f) = 2 * n + x
    BY DEF Size
  <1> HIDE DEF n, x
  <1>4. n \in Nat /\ Size(f) \in Nat /\ Size(f) >= 2 * n /\ (~f.partial => Size(f) = 2 * n)
    BY <1>1, <1>2, <1>3
  <1> QED BY <1>4 DEF n

\* With no window to read, no conflict and no half line, the cursor is at the
\* end of the file.
LEMMA NothingIsDrained ==
    ASSUME NEW c \in Cursors, NEW f \in File, ~Conflicts(c, f), Windows(c, f) = {},
           ~f.partial
    PROVE  Size(f) = Offset(c)
  <1> DEFINE n == Len(f.lines)
  <1>1. n \in Nat /\ Size(f) = 2 * n /\ c.ord \in Nat
    BY SizeIs DEF Cursors
  <1>2. Offset(c) = 2 * c.ord
    BY DEF Offset
  <1>3. c.ord <= n
    <2>1. CASE Fresh(c)
      BY <1>1, <2>1 DEF Fresh
    <2>2. CASE ~Fresh(c)
      <3>1. ~(Size(f) < Offset(c))
        BY <2>2 DEF Conflicts
      <3> HIDE DEF n
      <3> QED BY <1>1, <1>2, <3>1
    <2> QED BY <2>1, <2>2
  <1>4. n <= c.ord
    <2> SUFFICES ASSUME c.ord < n PROVE FALSE
      BY <1>1
    <2>1. 1 \in 1 .. Smaller(MaxDelta, n - c.ord)
      BY <1>1, CollectorAssumption DEF Smaller
    <2>2. Windows(c, f) # {}
      BY <2>1 DEF Windows
    <2> QED BY <2>2
  <1> HIDE DEF n
  <1> QED BY <1>1, <1>2, <1>3, <1>4

\* A window with nothing after it ends where the file does.
LEMMA LastWindow ==
    ASSUME NEW c \in Cursors, NEW f \in File, NEW w \in Windows(c, f), ~w.more
    PROVE  Size(f) = 2 * Through(w)
  <1> DEFINE n == Len(f.lines)
  <1>1. PICK k \in 1 .. Smaller(MaxDelta, n - c.ord) :
            w = [ino |-> f.ino, from |-> c.ord,
                 lines |-> SubSeq(f.lines, c.ord + 1, c.ord + k),
                 more |-> 2 * (c.ord + k) < Size(f)]
    BY DEF Windows
  <1>2. f.lines \in Seq(Lines) /\ c.ord \in Nat /\ n \in Nat
        /\ Size(f) \in Nat /\ Size(f) >= 2 * n
    BY SizeIs DEF File, Cursors
  <1>3. k \in Nat \ {0} /\ c.ord + k <= n
    BY <1>2, CollectorAssumption DEF Smaller
  <1>4. \A i \in c.ord + 1 .. c.ord + k : f.lines[i] \in Lines
    BY <1>2, <1>3, ElementOfSeq
  <1>5. Len(SubSeq(f.lines, c.ord + 1, c.ord + k)) = k
    BY <1>2, <1>3, <1>4, SubSeqProperties
  <1>6. Through(w) = c.ord + k
    BY <1>1, <1>5 DEF Through
  <1>7. ~(2 * (c.ord + k) < Size(f))
    BY <1>1
  <1> HIDE DEF n
  <1> QED BY <1>2, <1>3, <1>6, <1>7

\* The steps that begin a pass, and those that end it.
LEMMA DrainedOpening ==
    ASSUME Inv, Drained, NEW p \in Collectors,
           \/ Discover(p) \/ CheckLost(p) \/ Busy(p) \/ Open(p) \/ Reindex(p)
           \/ Checked(p) \/ Visited(p) \/ WriteIndex(p) \/ SaveIndexState(p)
           \/ Close(p) \/ Crash(p)
    PROVE  DrainedOf(p)'
  <1>1. pass \in [Collectors -> Passes] /\ pc \in [Collectors -> PCs] /\ pass[p] \in Passes
    BY DEF Inv, TypeOK, PCs
  <1>2. DrainedOf(p)
    BY DEF Drained
  <1>3. CASE pc'[p] \notin InSession
    BY <1>3 DEF DrainedOf, InSession
  <1>4. CASE Open(p)
    <2> DEFINE found == pass[p].found
               un == Unlisted(found)
               next == RecoverNextSeq
               ix == IF LoadFor THEN index ELSE <<>>
               to == IF LoadFor THEN ixState.seq ELSE 0
    <2>1. pass' = [pass EXCEPT ![p].todo = found, ![p].unlisted = un, ![p].next = next,
                               ![p].ix = ix, ![p].ixTo = to]
          /\ pc'[p] = "reindex"
      BY <1>1, <1>4 DEF Open
    <2>2. found = pass[p].found
      OBVIOUS
    <2> HIDE DEF found, un, next, ix, to
    <2>3. pass'[p].todo = found /\ pass'[p].found = found
      BY <1>1, <2>1, <2>2 DEF Passes
    <2> QED BY <2>1, <2>3 DEF DrainedOf
  <1>5. CASE Reindex(p)
    <2>1. \/ pass' = pass
          \/ \E x, y : pass' = [pass EXCEPT ![p].ix = x, ![p].ixTo = y, ![p].dirty = TRUE]
      BY <1>5 DEF Reindex
    <2>2. /\ pass'[p].found = pass[p].found /\ pass'[p].todo = pass[p].todo
          /\ pass'[p].left = pass[p].left /\ pass'[p].seen = pass[p].seen
      <3>1. ASSUME NEW x, NEW y,
                   pass' = [pass EXCEPT ![p].ix = x, ![p].ixTo = y, ![p].dirty = TRUE]
            PROVE  /\ pass'[p].found = pass[p].found /\ pass'[p].todo = pass[p].todo
                   /\ pass'[p].left = pass[p].left /\ pass'[p].seen = pass[p].seen
        <4>1. pass'[p] = [pass[p] EXCEPT !.ix = x, !.ixTo = y, !.dirty = TRUE]
          BY <1>1, <3>1
        <4> QED BY <1>1, <4>1 DEF Passes
      <3> QED BY <2>1, <3>1
    <2>3. pc[p] = "reindex" /\ pc'[p] \in {"reindex", "sources"} /\ cursor' = cursor
      BY <1>1, <1>5 DEF Reindex, disk
    <2> QED BY <1>2, <2>2, <2>3 DEF DrainedOf, AtSource, InSession
  <1>6. CASE Visited(p) \/ WriteIndex(p) \/ SaveIndexState(p)
    <2>1. pass' = pass /\ cursor' = cursor
      BY <1>6 DEF Visited, WriteIndex, SaveIndexState, disk
    <2>2. /\ pc[p] \in {"sources", "index", "ixstate"}
          /\ pc'[p] \in {"index", "ixstate", "state"}
          /\ pc[p] = "sources" => pass[p].todo = {}
      BY <1>1, <1>6 DEF Visited, WriteIndex, SaveIndexState
    <2> QED BY <1>2, <2>1, <2>2 DEF DrainedOf, AtSource, InSession
  <1>7. CASE Discover(p) \/ CheckLost(p) \/ Busy(p) \/ Checked(p) \/ Close(p) \/ Crash(p)
    <2>1. pc'[p] \in {"found", "idle", "lost", "marking"}
      BY <1>1, <1>7 DEF Discover, CheckLost, Busy, Checked, Close, Crash
    <2> QED BY <1>3, <2>1 DEF InSession
  <1> QED BY <1>4, <1>5, <1>6, <1>7

\* The steps after which a pass says that it left something.
LEMMA DrainedLeft ==
    ASSUME Inv, Drained, NEW p \in Collectors,
           \/ \E s \in Sources : VisitFails(p, s)
           \/ SourceFails(p) \/ MarkFails(p) \/ FindConflict(p)
    PROVE  DrainedOf(p)'
  <1>1. pass \in [Collectors -> Passes] /\ pc \in [Collectors -> PCs] /\ pass[p] \in Passes
    BY DEF Inv, TypeOK, PCs
  <1>2. ASSUME NEW s \in Sources, VisitFails(p, s)
        PROVE  pc'[p] = "sources" /\ pass'[p].left
    BY <1>1, <1>2 DEF VisitFails, Passes
  <1>3. ASSUME SourceFails(p) \/ MarkFails(p) \/ FindConflict(p)
        PROVE  pc'[p] = "sources" /\ pass'[p].left
    BY <1>1, <1>3 DEF SourceFails, MarkFails, FindConflict, Passes
  <1>4. pc'[p] = "sources" /\ pass'[p].left
    BY <1>2, <1>3
  <1> QED BY <1>4 DEF DrainedOf

\* A cursor one step of another source leaves alone, but for saying it is gone.
LEMMA DrainedMarked ==
    ASSUME Inv, Drained, NEW p \in Collectors,
           (\E s \in Sources : MarkIfGone(p, s)) \/ FoundGone(p)
    PROVE  DrainedOf(p)'
  <1>1. pass \in [Collectors -> Passes] /\ pc \in [Collectors -> PCs] /\ pass[p] \in Passes
        /\ cursor \in [Sources -> Cursors]
    BY DEF Inv, TypeOK, PCs
  <1>2. DrainedOf(p) /\ AppendSources \subseteq Sources
    BY DEF Drained, Sources
  <1>3. ASSUME NEW s \in Sources, MarkIfGone(p, s)
        PROVE  DrainedOf(p)'
    <2>1. /\ pass'[p].found = pass[p].found /\ pass'[p].todo = pass[p].todo
          /\ pass'[p].left = pass[p].left /\ pass'[p].seen = pass[p].seen
      BY <1>1, <1>3 DEF MarkIfGone, Passes
    <2>2. pc[p] \in {"sources", "marking"} /\ pc' = pc
      BY <1>3 DEF MarkIfGone, Marking
    <2>3. cursor' = cursor \/ cursor' = [cursor EXCEPT ![s].state = "source_gone", ![s].saved = TRUE]
      BY <1>3 DEF MarkIfGone, MarkGone
    <2>4. \A t \in Sources : cursor'[t].state = "active" =>
              cursor'[t].ord = cursor[t].ord /\ cursor[t].state = "active"
      BY <1>1, <2>3 DEF Cursors
    <2> QED BY <1>2, <2>1, <2>2, <2>4 DEF DrainedOf, AtSource, Offset, InSession
  <1>4. CASE FoundGone(p)
    <2> DEFINE s == pass[p].source
    <2>1. s \in Sources /\ pass' = pass /\ pc[p] = "tail" /\ pc'[p] = "sources"
      BY <1>1, <1>4 DEF FoundGone, Inv, WindowHeld
    <2>2. cursor' = [cursor EXCEPT ![s].state = "source_gone", ![s].saved = TRUE]
      BY <1>4 DEF FoundGone, MarkGone
    <2>3. \A t \in Sources : cursor'[t].state = "active" =>
              t # s /\ cursor'[t].ord = cursor[t].ord /\ cursor[t].state = "active"
      <3> HIDE DEF s
      <3> QED BY <1>1, <2>1, <2>2 DEF Cursors
    <2> QED BY <1>2, <2>1, <2>3 DEF DrainedOf, AtSource, Offset, InSession
  <1> QED BY <1>3, <1>4

\* Taking up a source.
LEMMA DrainedVisit ==
    ASSUME Inv, Drained, NEW p \in Collectors, NEW s \in Sources, Visit(p, s)
    PROVE  DrainedOf(p)'
  <1>1. pass \in [Collectors -> Passes] /\ pc \in [Collectors -> PCs] /\ pass[p] \in Passes
        /\ cursor \in [Sources -> Cursors]
    BY DEF Inv, TypeOK, PCs
  <1>2. DrainedOf(p) /\ AppendSources \subseteq Sources
    BY DEF Drained, Sources
  <1>3. CASE Skipped(s)
    <2>1. pc'[p] = "sources" /\ pass'[p].left
      BY <1>1, <1>3 DEF Visit, Passes
    <2> QED BY <2>1 DEF DrainedOf
  <1>4. CASE ~Skipped(s)
    <2>1. pc[p] = "sources" /\ pc'[p] = "tail"
          /\ pass' = [pass EXCEPT ![p].todo = @ \ {s}, ![p].source = s, ![p].rounds = 0]
          /\ cursor' = [cursor EXCEPT ![s].state = "active"]
      BY <1>1, <1>4 DEF Visit
    <2>2. /\ pass'[p].found = pass[p].found /\ pass'[p].todo = pass[p].todo \ {s}
          /\ pass'[p].left = pass[p].left /\ pass'[p].seen = pass[p].seen
          /\ pass'[p].source = s
      BY <1>1, <2>1 DEF Passes
    <2>3. \A t \in Sources : t # s => cursor'[t] = cursor[t]
      BY <1>1, <2>1
    <2> QED BY <1>2, <2>1, <2>2, <2>3 DEF DrainedOf, AtSource, Offset, InSession
  <1> QED BY <1>3, <1>4

\* Reading a source, and finding nothing in it.
LEMMA DrainedRead ==
    ASSUME Inv, Drained, NEW p \in Collectors,
           ReadWindow(p) \/ ReadSnapshot(p) \/ NothingNew(p) \/ Land(p)
    PROVE  DrainedOf(p)'
  <1> DEFINE s == pass[p].source
  <1>1. pass \in [Collectors -> Passes] /\ pc \in [Collectors -> PCs] /\ pass[p] \in Passes
        /\ cursor \in [Sources -> Cursors]
    BY DEF Inv, TypeOK, PCs
  <1>2. DrainedOf(p) /\ AppendSources \subseteq Sources
    BY DEF Drained, Sources
  <1>3. pass[p].seen \in [Sources -> Int] /\ pass[p].left \in BOOLEAN
    BY <1>1 DEF Passes
  <1>4. CASE ReadWindow(p)
    <2>1. pc[p] = "tail" /\ pc'[p] = "land" /\ cursor' = cursor /\ s \in Sources
          /\ src[s] \in File /\ cursor[s] \in Cursors
      BY <1>1, <1>2, <1>4 DEF ReadWindow, Inv, TypeOK, disk
    <2> DEFINE size == Size(src[s])
    <2>2. PICK w \in Windows(cursor[s], src[s]) :
              pass' = [pass EXCEPT ![p].chunk = w, ![p].seen[s] = size]
      BY <1>4 DEF ReadWindow
    <2>3. ~w.more => size = 2 * Through(w)
      BY <2>1, LastWindow
    <2> HIDE DEF s, size
    <2>4. /\ pass'[p].found = pass[p].found /\ pass'[p].todo = pass[p].todo
          /\ pass'[p].left = pass[p].left /\ pass'[p].source = pass[p].source
          /\ pass'[p].chunk = w /\ pass'[p].seen = [pass[p].seen EXCEPT ![s] = size]
      BY <1>1, <2>2 DEF Passes
    <2>5. pass'[p].seen[s] = size /\ \A t \in Sources : t # s => pass'[p].seen[t] = pass[p].seen[t]
      BY <1>3, <2>1, <2>4
    <2> QED BY <1>2, <2>1, <2>3, <2>4, <2>5 DEF DrainedOf, AtSource, Offset, InSession, s
  <1>5. CASE ReadSnapshot(p)
    <2>1. pc[p] = "tail" /\ pc'[p] \in {"land", "sources"} /\ cursor' = cursor
          /\ s \notin AppendSources
      BY <1>1, <1>5, CollectorAssumption DEF ReadSnapshot, disk
    <2>2. pass' = pass \/ \E w : pass' = [pass EXCEPT ![p].chunk = w]
      BY <1>5 DEF ReadSnapshot
    <2>3. /\ pass'[p].found = pass[p].found /\ pass'[p].todo = pass[p].todo
          /\ pass'[p].left = pass[p].left /\ pass'[p].source = pass[p].source
          /\ pass'[p].seen = pass[p].seen
      BY <1>1, <2>2 DEF Passes
    <2> QED BY <1>2, <2>1, <2>3 DEF DrainedOf, AtSource, Offset, InSession
  <1>6. CASE NothingNew(p)
    <2> DEFINE c == cursor[s]
               f == src[s]
               size == Size(f)
               left == pass[p].left \/ Unfinished(f)
    <2>1. pc[p] = "tail" /\ pc'[p] = "sources" /\ s \in Sources /\ f \in File /\ c \in Cursors
      BY <1>1, <1>2, <1>6 DEF NothingNew, Inv, TypeOK
    <2>2. ~left => size = Offset(c)
      BY <1>6, <2>1, NothingIsDrained DEF NothingNew, Unfinished
    <2>3. pass' = [pass EXCEPT ![p].left = left, ![p].seen[s] = size]
      BY <1>6 DEF NothingNew
    <2>4. \/ cursor' = cursor
          \/ cursor' = [cursor EXCEPT ![s].ino = f.ino, ![s].saved = TRUE]
      BY <1>6 DEF NothingNew
    <2>5. left => pass'[p].left
      <3> HIDE DEF left, size, s
      <3> QED BY <1>1, <2>3 DEF Passes
    <2>6. pass[p].left => left
      OBVIOUS
    <2> HIDE DEF s, c, f, size, left
    <2>7. /\ pass'[p].found = pass[p].found /\ pass'[p].todo = pass[p].todo
          /\ pass'[p].seen = [pass[p].seen EXCEPT ![s] = size]
      BY <1>1, <2>3 DEF Passes
    <2>8. pass'[p].seen[s] = size /\ \A t \in Sources : t # s => pass'[p].seen[t] = pass[p].seen[t]
      BY <1>3, <2>1, <2>7
    <2>9. \A t \in Sources : cursor'[t].ord = cursor[t].ord /\ cursor'[t].state = cursor[t].state
      BY <1>1, <2>4 DEF Cursors
    <2> QED BY <1>2, <2>1, <2>2, <2>5, <2>6, <2>7, <2>8, <2>9
            DEF DrainedOf, AtSource, Offset, InSession, s, c
  <1>7. CASE Land(p)
    <2>1. pc[p] = "land" /\ pc'[p] = "commit" /\ cursor' = cursor
      BY <1>1, <1>7 DEF Land
    <2>2. \E x, y : pass' = [pass EXCEPT ![p].next = x, ![p].ix = y]
      BY <1>7 DEF Land
    <2>3. /\ pass'[p].found = pass[p].found /\ pass'[p].todo = pass[p].todo
          /\ pass'[p].left = pass[p].left /\ pass'[p].source = pass[p].source
          /\ pass'[p].seen = pass[p].seen /\ pass'[p].chunk = pass[p].chunk
      BY <1>1, <2>2 DEF Passes
    <2> QED BY <1>2, <2>1, <2>3 DEF DrainedOf, AtSource, Offset, InSession
  <1> QED BY <1>4, <1>5, <1>6, <1>7

\* A commit with nothing after its window leaves the cursor at what was seen.
LEMMA DrainedCommit ==
    ASSUME Inv, Drained, NEW p \in Collectors, Commit(p)
    PROVE  DrainedOf(p)'
  <1> DEFINE s == pass[p].source
             w == pass[p].chunk
             again == w.more /\ pass[p].rounds < MaxRounds
             rounds == IF again THEN pass[p].rounds + 1 ELSE pass[p].rounds
             left == pass[p].left \/ (w.more /\ ~again)
  <1>1. pass \in [Collectors -> Passes] /\ pc \in [Collectors -> PCs] /\ pass[p] \in Passes
        /\ cursor \in [Sources -> Cursors]
    BY DEF Inv, TypeOK, PCs
  <1>2. DrainedOf(p) /\ AppendSources \subseteq Sources
    BY DEF Drained, Sources
  <1>3. s \in Sources /\ cursor'[s] = Committed(p, s)
    BY CommitFacts
  <1>4. \A t \in Sources : t # s => cursor'[t] = cursor[t]
    BY <1>1, <1>3 DEF Commit
  <1>5. s \in AppendSources => cursor'[s].ord = Through(w)
    BY <1>3, CommittedType, CollectorAssumption DEF Inv
  <1>6. pc[p] = "commit" /\ pc'[p] = IF again THEN "tail" ELSE "sources"
    BY <1>1 DEF Commit
  <1>7. pass' = [pass EXCEPT ![p].dirty = TRUE, ![p].chunk = NoChunk,
                             ![p].rounds = rounds, ![p].left = left]
    BY DEF Commit
  <1>8. (w.more => again \/ left) /\ (pass[p].left => left)
    OBVIOUS
  <1>9. s \in AppendSources /\ ~w.more => pass[p].seen[s] = 2 * Through(w)
    BY <1>2, <1>6 DEF DrainedOf
  <1>10. left => pass'[p].left
    <2> HIDE DEF left, rounds, again
    <2> QED BY <1>1, <1>7 DEF Passes
  <1> HIDE DEF s, w, again, rounds, left
  <1>11. /\ pass'[p].found = pass[p].found /\ pass'[p].todo = pass[p].todo
         /\ pass'[p].seen = pass[p].seen /\ pass'[p].source = s
    BY <1>1, <1>7 DEF Passes, s
  <1>12. ASSUME pc'[p] \in InSession, ~pass'[p].left,
                NEW t \in pass'[p].found \cap AppendSources,
                t \notin pass'[p].todo, ~(AtSource(p, t)'), cursor'[t].state = "active"
         PROVE  pass'[p].seen[t] = Offset(cursor'[t])
    <2>1. t \in Sources /\ ~left /\ ~pass[p].left
      BY <1>2, <1>8, <1>10, <1>12
    <2>2. CASE t = s
      <3>1. ~again
        BY <1>6, <1>11, <1>12, <2>2 DEF AtSource
      <3>2. ~w.more
        BY <1>8, <2>1, <3>1
      <3> QED BY <1>5, <1>9, <1>11, <1>12, <2>2, <3>2 DEF Offset
    <2>3. CASE t # s
      <3>1. cursor'[t] = cursor[t] /\ ~AtSource(p, t)
        BY <1>4, <2>1, <2>3 DEF AtSource, s
      <3> QED BY <1>2, <1>6, <1>11, <1>12, <2>1, <3>1 DEF DrainedOf, InSession
    <2> QED BY <2>2, <2>3
  <1>13. pc'[p] \in {"tail", "sources"}
    BY <1>6
  <1> QED BY <1>12, <1>13 DEF DrainedOf

LEMMA DrainedStep ==
    ASSUME Inv, Drained, [Next]_vars
    PROVE  Drained'
  <1>1. CASE Environment \/ UNCHANGED vars
    <2>1. UNCHANGED <<disk, pc, pass>>
      BY <1>1, EnvironmentQuiet DEF disk, vars
    <2> QED BY <2>1 DEF Drained, DrainedOf, AtSource, disk
  <1>2. ASSUME NEW p \in Collectors, Act(p), NEW q \in Collectors, q # p
        PROVE  DrainedOf(q)'
    <2>1. pc'[q] = pc[q] /\ pass'[q] = pass[q]
      BY <1>2, OthersUntouched DEF Inv
    <2>2. pc[q] \in InSession => cursor' = cursor
      BY <1>2, OthersWait DEF Held, disk
    <2> QED BY <2>1, <2>2 DEF Drained, DrainedOf, AtSource, InSession
  <1>3. ASSUME NEW p \in Collectors, Act(p)
        PROVE  DrainedOf(p)'
    BY <1>3, DrainedOpening, DrainedLeft, DrainedMarked, DrainedVisit, DrainedRead,
       DrainedCommit DEF Act, Step
  <1> QED BY <1>1, <1>2, <1>3, NextIsActs DEF Drained

\* A pass that reports its session complete read every source it found to the
\* last byte it saw, in every instance (collect.go landAppend, outcome.go).
THEOREM CompleteIsDrained == Spec => []CompleteMeansDrained
  <1>1. Init => Drained
    <2>1. Init => \A p \in Collectors : pc[p] = "idle"
      BY DEF Init
    <2> QED BY <2>1 DEF Drained, DrainedOf, InSession
  <1>2. Drained => CompleteMeansDrained
    BY DEF Drained, DrainedOf, AtSource, CompleteMeansDrained, InSession
  <1>3. Inv /\ Drained /\ [Next]_vars => Drained'
    BY DrainedStep
  <1> QED BY <1>1, <1>2, <1>3, Invariance, PTL DEF Spec

-----------------------------------------------------------------------------
(* The text a window is read behind. *)

\* Where a digest over n lines has line k.
Place(n, k) == k - n + Smaller(n, TailWindow)

\* The digest of a cursor vouches for the file its source landed last.
TailVouches(s) ==
    LET c == cursor[s]
        g == landed[c.lastSeq]
    IN  c.tail # NoDigest /\ c.lastSeq # 0 =>
            \A k \in g.from + 1 .. c.ord : k > c.ord - TailWindow =>
                c.tail[Place(c.ord, k)] = g.recs[k - g.from]

\* A source that is not rewritten while its window lands still has the window's
\* lines where they were read, if it is there at all.
WindowStands(p) ==
    LET s == pass[p].source
        w == pass[p].chunk
    IN  pc[p] \in {"land", "commit"} /\ s \in AppendSources /\ src[s] # NoFile =>
            \A k \in 1 .. Len(w.lines) :
                /\ w.from + k <= Len(src[s].lines)
                /\ src[s].lines[w.from + k] = w.lines[k]

Vouched == /\ \A s \in AppendSources : TailVouches(s)
           /\ \A p \in Collectors : WindowStands(p)

\* What a digest holds at a line's place.
LEMMA DigestAt ==
    ASSUME NEW f \in File, NEW n \in Nat, NEW k \in 1 .. n, k > n - TailWindow,
           k <= Len(f.lines)
    PROVE  Digest(f, n)[Place(n, k)] = f.lines[k]
  <1> DEFINE width == Smaller(n, TailWindow)
             line(i) == IF i <= Len(f.lines) THEN f.lines[i] ELSE NoLine
  <1>1. width \in Nat /\ (width = n \/ width = TailWindow)
    BY CollectorAssumption DEF Smaller
  <1>2. Place(n, k) = k - n + width
    BY DEF Place
  <1>3. Digest(f, n) = [i \in 1 .. width |-> line(n - width + i)]
    BY DEF Digest
  <1>4. line(k) = f.lines[k]
    OBVIOUS
  <1> HIDE DEF width, line
  <1>5. k - n + width \in 1 .. width /\ n - width + (k - n + width) = k
    BY <1>1, CollectorAssumption
  <1> QED BY <1>2, <1>3, <1>4, <1>5

\* An element of a part of a sequence.
LEMMA SliceAt ==
    ASSUME NEW S, NEW s \in Seq(S), NEW m \in Nat, NEW n \in Nat, m + n <= Len(s),
           NEW i \in 1 .. n
    PROVE  SubSeq(s, m + 1, m + n)[i] = s[m + i]
  <1> DEFINE lo == m + 1
             hi == m + n
  <1>1. lo \in Int /\ hi \in Int /\ hi - lo + 1 = n /\ lo + i - 1 = m + i
    OBVIOUS
  <1>2. \A j \in lo .. hi : s[j] \in S
    BY ElementOfSeq
  <1> HIDE DEF lo, hi
  <1>3. \A j \in 1 .. hi - lo + 1 : SubSeq(s, lo, hi)[j] = s[lo + j - 1]
    BY <1>1, <1>2, SubSeqProperties
  <1>4. SubSeq(s, lo, hi)[i] = s[m + i]
    BY <1>1, <1>3
  <1> QED BY <1>4 DEF lo, hi

\* The lines of a window are the file's, behind the cursor.
LEMMA WindowText ==
    ASSUME NEW c \in Cursors, NEW f \in File, NEW w \in Windows(c, f)
    PROVE  /\ c.ord < Len(f.lines) /\ Size(f) # Offset(c)
           /\ \A k \in 1 .. Len(w.lines) :
                w.from + k <= Len(f.lines) /\ f.lines[w.from + k] = w.lines[k]
  <1> DEFINE n == Len(f.lines)
  <1>1. PICK m \in 1 .. Smaller(MaxDelta, n - c.ord) :
            w = [ino |-> f.ino, from |-> c.ord,
                 lines |-> SubSeq(f.lines, c.ord + 1, c.ord + m),
                 more |-> 2 * (c.ord + m) < Size(f)]
    BY DEF Windows
  <1>2. f.lines \in Seq(Lines) /\ c.ord \in Nat /\ n \in Nat
        /\ Size(f) \in Nat /\ Size(f) >= 2 * n
    BY SizeIs DEF File, Cursors
  <1>3. m \in Nat \ {0} /\ c.ord + m <= n
    BY <1>2, CollectorAssumption DEF Smaller
  <1>4. \A i \in c.ord + 1 .. c.ord + m : f.lines[i] \in Lines
    BY <1>2, <1>3, ElementOfSeq
  <1> DEFINE text == SubSeq(f.lines, c.ord + 1, c.ord + m)
  <1>5. Len(text) = m /\ \A i \in 1 .. m : text[i] = f.lines[c.ord + i]
    <2>1. Len(SubSeq(f.lines, c.ord + 1, c.ord + m)) = m
      BY <1>2, <1>3, <1>4, SubSeqProperties
    <2>2. ASSUME NEW i \in 1 .. m
          PROVE  SubSeq(f.lines, c.ord + 1, c.ord + m)[i] = f.lines[c.ord + i]
      BY <1>2, <1>3, SliceAt
    <2> QED BY <2>1, <2>2
  <1>6. w.from = c.ord /\ w.lines = text
    BY <1>1
  <1>7. Size(f) # Offset(c) /\ c.ord < n
    <2> HIDE DEF n
    <2> QED BY <1>2, <1>3 DEF Offset
  <1> HIDE DEF text, n
  <1>8. \A k \in 1 .. Len(w.lines) : w.from + k <= n /\ f.lines[w.from + k] = w.lines[k]
    BY <1>2, <1>3, <1>5, <1>6
  <1> QED BY <1>7, <1>8 DEF n

\* What lands or is committed was read, and is held from then on.
LEMMA WindowFrame ==
    ASSUME Inv, NEW p \in Collectors, Act(p), ~ReadWindow(p), ~ReadSnapshot(p),
           pc'[p] \in {"land", "commit"}
    PROVE  /\ pc[p] = "land"
           /\ pass'[p].source = pass[p].source /\ pass'[p].chunk = pass[p].chunk
  <1>1. pass \in [Collectors -> Passes] /\ pc \in [Collectors -> PCs] /\ pass[p] \in Passes
    BY DEF Inv, TypeOK, PCs
  <1>2. Land(p)
    <2>1. CASE Discover(p) \/ CheckLost(p) \/ Busy(p) \/ Open(p) \/ Reindex(p)
      BY <1>1, <2>1 DEF Discover, CheckLost, Busy, Open, Reindex
    <2>2. CASE SourceFails(p) \/ FoundGone(p) \/ FindConflict(p) \/ NothingNew(p) \/ Commit(p)
      BY <1>1, <2>2 DEF SourceFails, FoundGone, FindConflict, NothingNew, Commit
    <2>3. CASE MarkFails(p) \/ Checked(p) \/ Visited(p)
      BY <1>1, <2>3 DEF MarkFails, Checked, Visited
    <2>4. CASE WriteIndex(p) \/ SaveIndexState(p) \/ Close(p) \/ Crash(p)
      BY <1>1, <2>4 DEF WriteIndex, SaveIndexState, Close, Crash
    <2>5. ASSUME NEW s \in Sources, Visit(p, s) \/ MarkIfGone(p, s) \/ VisitFails(p, s)
          PROVE  FALSE
      BY <1>1, <2>5 DEF Visit, MarkIfGone, VisitFails, Marking
    <2> QED BY <2>1, <2>2, <2>3, <2>4, <2>5 DEF Act, Step
  <1>3. \E x, y : pass' = [pass EXCEPT ![p].next = x, ![p].ix = y]
    BY <1>2 DEF Land
  <1> QED BY <1>1, <1>2, <1>3 DEF Land, Passes

\* A process changes no source.
LEMMA SourcesUntouched ==
    ASSUME NEW p \in Collectors, Act(p)
    PROVE  src' = src
  <1>1. CASE Discover(p) \/ CheckLost(p) \/ Busy(p) \/ Open(p) \/ Reindex(p)
    BY <1>1 DEF Discover, CheckLost, Busy, Open, Reindex, environment
  <1>2. CASE ReadWindow(p) \/ ReadSnapshot(p) \/ Land(p) \/ SourceFails(p)
    BY <1>2 DEF ReadWindow, ReadSnapshot, Land, SourceFails, environment
  <1>3. CASE WriteIndex(p) \/ SaveIndexState(p) \/ Close(p) \/ Crash(p)
    BY <1>3 DEF WriteIndex, SaveIndexState, Close, Crash, environment
  <1>4. CASE FoundGone(p) \/ FindConflict(p) \/ NothingNew(p) \/ Commit(p)
    BY <1>4 DEF FoundGone, FindConflict, NothingNew, Commit, environment
  <1>5. ASSUME NEW s \in Sources, Visit(p, s) \/ MarkIfGone(p, s) \/ VisitFails(p, s)
        PROVE  src' = src
    BY <1>5 DEF Visit, MarkIfGone, VisitFails, environment
  <1>6. CASE MarkFails(p) \/ Checked(p) \/ Visited(p)
    BY <1>6 DEF MarkFails, Checked, Visited, environment
  <1> QED BY <1>1, <1>2, <1>3, <1>4, <1>5, <1>6 DEF Act, Step

\* What the sources do leaves a window they may not be rewritten under.
LEMMA StandsQuiet ==
    ASSUME Inv, ~RewritesRace, Environment, NEW p \in Collectors, WindowStands(p)
    PROVE  WindowStands(p)'
  <1> DEFINE s == pass[p].source
             w == pass[p].chunk
  <1>1. pc' = pc /\ pass' = pass
    BY EnvironmentQuiet
  <1>2. SUFFICES ASSUME pc[p] \in {"land", "commit"}, s \in AppendSources,
                        src'[s] # NoFile, NEW k \in 1 .. Len(w.lines)
                 PROVE  /\ w.from + k <= Len(src'[s].lines)
                        /\ src'[s].lines[w.from + k] = w.lines[k]
    BY <1>1 DEF WindowStands
  <1>3. src \in [Sources -> File \cup {NoFile}] /\ s \in Sources
        /\ w.from \in Nat /\ w.lines \in Seq(Lines)
    BY <1>2 DEF Inv, TypeOK, Passes, Chunks, Sources
  <1>4. src[s] # NoFile =>
            w.from + k <= Len(src[s].lines) /\ src[s].lines[w.from + k] = w.lines[k]
    BY <1>2 DEF WindowStands
  <1> HIDE DEF s, w
  <1>5. CASE src'[s] = src[s]
    BY <1>2, <1>4, <1>5
  <1>6. ASSUME NEW t \in Sources, Grow(t), t = s
        PROVE  /\ w.from + k <= Len(src'[s].lines)
               /\ src'[s].lines[w.from + k] = w.lines[k]
    <2>1. src[s] \in File /\ src[s] # NoFile
      BY <1>3, <1>6 DEF Grow
    <2>2. PICK l \in Lines : src'[s].lines = Append(src[s].lines, l)
      BY <1>3, <1>6, <2>1 DEF Grow, File
    <2>3. src[s].lines \in Seq(Lines) /\ Len(w.lines) \in Nat
      BY <1>3, <2>1, LenProperties DEF File
    <2>4. /\ Len(src'[s].lines) = Len(src[s].lines) + 1
          /\ \A i \in 1 .. Len(src[s].lines) : src'[s].lines[i] = src[s].lines[i]
          /\ Len(src[s].lines) \in Nat
      BY <2>2, <2>3, AppendProperties, LenProperties
    <2> QED BY <1>3, <1>4, <2>1, <2>3, <2>4
  <1>7. ASSUME NEW t \in Sources, Grow(t) \/ Prune(t), t # s
        PROVE  src'[s] = src[s]
    BY <1>3, <1>7 DEF Grow, Prune
  <1>8. ASSUME NEW t \in Sources, Prune(t), t = s
        PROVE  FALSE
    BY <1>2, <1>3, <1>8 DEF Prune
  <1>9. ASSUME NEW t \in Sources, Rewrite(t)
        PROVE  FALSE
    BY <1>2, <1>9 DEF Rewrite
  <1> QED BY <1>5, <1>6, <1>7, <1>8, <1>9 DEF Environment

LEMMA StandsStep ==
    ASSUME Inv, NEW p \in Collectors, Act(p), WindowStands(p)
    PROVE  WindowStands(p)'
  <1> DEFINE s == pass[p].source
  <1>1. src' = src /\ src \in [Sources -> File \cup {NoFile}]
        /\ pass \in [Collectors -> Passes] /\ pc \in [Collectors -> PCs]
        /\ pass[p] \in Passes /\ cursor \in [Sources -> Cursors]
    BY SourcesUntouched DEF Inv, TypeOK, PCs
  <1>2. CASE ReadWindow(p)
    <2>1. s \in AppendSources /\ src[s] \in File /\ cursor[s] \in Cursors
      BY <1>1, <1>2 DEF ReadWindow, Sources
    <2>2. PICK w \in Windows(cursor[s], src[s]) :
              pass' = [pass EXCEPT ![p].chunk = w, ![p].seen[s] = Size(src[s])]
      BY <1>2 DEF ReadWindow
    <2>3. pass'[p].source = s /\ pass'[p].chunk = w
      <3> DEFINE size == Size(src[s])
      <3>1. pass' = [pass EXCEPT ![p].chunk = w, ![p].seen[s] = size]
        BY <2>2
      <3> HIDE DEF size
      <3> QED BY <1>1, <3>1 DEF Passes
    <2>4. \A k \in 1 .. Len(w.lines) :
            /\ w.from + k <= Len(src[s].lines) /\ src[s].lines[w.from + k] = w.lines[k]
      BY <2>1, WindowText
    <2> HIDE DEF s
    <2> QED BY <1>1, <2>3, <2>4 DEF WindowStands
  <1>3. CASE ReadSnapshot(p)
    <2>1. s \in SnapshotSources /\ pass'[p].source = s
      BY <1>1, <1>3 DEF ReadSnapshot, Passes
    <2> QED BY <2>1, CollectorAssumption DEF WindowStands
  <1>4. CASE ~ReadWindow(p) /\ ~ReadSnapshot(p)
    <2>1. pc'[p] \in {"land", "commit"} =>
            /\ pc[p] = "land"
            /\ pass'[p].source = pass[p].source /\ pass'[p].chunk = pass[p].chunk
      BY <1>4, WindowFrame
    <2> QED BY <1>1, <2>1 DEF WindowStands
  <1> QED BY <1>2, <1>3, <1>4

\* A digest goes on vouching for the file it was taken behind.
LEMMA TailKept ==
    ASSUME Inv, NEW p \in Collectors, Act(p), NEW s \in AppendSources, TailVouches(s),
           ~(Commit(p) /\ s = pass[p].source)
    PROVE  TailVouches(s)'
  <1> DEFINE n == cursor[s].lastSeq
  <1>1. s \in Sources /\ n \in Nat /\ n <= Len(landed) /\ Len(landed) \in Nat
    BY LenProperties DEF Inv, TypeOK, LastSeqLanded, Cursors, Sources
  <1>2. /\ cursor'[s].ord = cursor[s].ord /\ cursor'[s].tail = cursor[s].tail
        /\ cursor'[s].lastSeq = n
    BY <1>1, CursorFrame
  <1>3. n # 0 => landed'[n] = landed[n]
    <2> HIDE DEF n
    <2> QED BY <1>1, LandedGrows
  <1> QED BY <1>2, <1>3 DEF TailVouches

\* The digest taken after a window landed vouches for that window.
LEMMA TailCommitted ==
    ASSUME Inv, NEW p \in Collectors, Commit(p), WindowStands(p),
           NEW s \in AppendSources, s = pass[p].source
    PROVE  TailVouches(s)'
  <1> DEFINE w == pass[p].chunk
             n == Through(w)
             g == landed[Len(landed)]
  <1>1. /\ landed' = landed /\ cursor'[s] = Committed(p, s)
        /\ cursor'[s].lastSeq = Len(landed)
    BY CommitFacts
  <1>2. pc[p] = "commit" /\ g.from = w.from /\ g.recs = w.lines
    BY DEF Commit, Inv, WindowHeld
  <1>3. w.from \in Nat /\ Len(w.lines) \in Nat /\ n \in Nat
        /\ n = w.from + Len(w.lines)
    BY LenProperties DEF Inv, TypeOK, Passes, Chunks, Through
  <1>4. /\ cursor'[s].ord = n
        /\ cursor'[s].tail # NoDigest =>
                src[s] # NoFile /\ cursor'[s].tail = Digest(src[s], n)
    BY <1>1, CollectorAssumption DEF Committed
  <1>5. src[s] # NoFile => src[s] \in File
    BY DEF Inv, TypeOK, Sources
  <1>6. src[s] # NoFile => \A k \in 1 .. Len(w.lines) :
            w.from + k <= Len(src[s].lines) /\ src[s].lines[w.from + k] = w.lines[k]
    BY <1>2 DEF WindowStands
  <1> HIDE DEF w, n, g
  <1>7. ASSUME cursor'[s].tail # NoDigest, NEW k \in g.from + 1 .. n, k > n - TailWindow
        PROVE  cursor'[s].tail[Place(n, k)] = g.recs[k - g.from]
    <2>1. k - w.from \in 1 .. Len(w.lines) /\ k \in 1 .. n /\ w.from + (k - w.from) = k
      BY <1>2, <1>3, <1>7
    <2>2. k <= Len(src[s].lines) /\ src[s].lines[k] = w.lines[k - w.from]
      BY <1>4, <1>6, <1>7, <2>1
    <2>3. Digest(src[s], n)[Place(n, k)] = src[s].lines[k]
      BY <1>3, <1>4, <1>5, <1>7, <2>1, <2>2, DigestAt
    <2> QED BY <1>2, <1>4, <1>7, <2>2, <2>3
  <1> QED BY <1>1, <1>4, <1>7 DEF TailVouches, g

LEMMA VouchedStep ==
    ASSUME Inv, ~RewritesRace, Vouched, [Next]_vars
    PROVE  Vouched'
  <1>1. CASE UNCHANGED vars
    BY <1>1 DEF vars, Vouched, TailVouches, WindowStands
  <1>2. CASE Environment
    <2>1. ASSUME NEW s \in AppendSources PROVE TailVouches(s)'
      BY <1>2, EnvironmentQuiet DEF Vouched, TailVouches, disk
    <2>2. ASSUME NEW p \in Collectors PROVE WindowStands(p)'
      BY <1>2, StandsQuiet DEF Vouched
    <2> QED BY <2>1, <2>2 DEF Vouched
  <1>3. ASSUME NEW p \in Collectors, Act(p) PROVE Vouched'
    <2>1. ASSUME NEW s \in AppendSources PROVE TailVouches(s)'
      <3>1. TailVouches(s) /\ WindowStands(p)
        BY DEF Vouched
      <3>2. CASE Commit(p) /\ s = pass[p].source
        BY <3>1, <3>2, TailCommitted
      <3>3. CASE ~(Commit(p) /\ s = pass[p].source)
        BY <1>3, <3>1, <3>3, TailKept
      <3> QED BY <3>2, <3>3
    <2>2. ASSUME NEW q \in Collectors PROVE WindowStands(q)'
      <3>1. WindowStands(q)
        BY DEF Vouched
      <3>2. CASE q = p
        BY <1>3, <3>1, <3>2, StandsStep
      <3>3. CASE q # p
        <4>1. pc'[q] = pc[q] /\ pass'[q] = pass[q] /\ src' = src
          BY <1>3, <3>3, OthersUntouched, SourcesUntouched DEF Inv
        <4> QED BY <3>1, <4>1 DEF WindowStands
      <3> QED BY <3>2, <3>3
    <2> QED BY <2>1, <2>2 DEF Vouched
  <1> QED BY <1>1, <1>2, <1>3, NextIsActs

\* A window is read only where nothing contradicts the cursor's digest.
LEMMA ReadBehind ==
    ASSUME Inv, Vouched, NEW p \in Collectors, ReadWindow(p),
           cursor[pass[p].source].tail # NoDigest,
           NEW i \in DOMAIN landed, landed[i].seq = cursor[pass[p].source].lastSeq
    PROVE  SameText(landed[i], src[pass[p].source], cursor[pass[p].source].ord)
  <1> DEFINE s == pass[p].source
             c == cursor[s]
             f == src[s]
             g == landed[i]
  <1>1. s \in AppendSources /\ f \in File /\ c \in Cursors /\ ~Conflicts(c, f)
    BY DEF ReadWindow, Inv, TypeOK, Sources
  <1>2. PICK w \in Windows(c, f) : TRUE
    BY DEF ReadWindow
  <1>3. i = c.lastSeq /\ i # 0
    BY DEF Inv, TypeOK, SeqsDense
  <1>4. g \in LandedFiles
    BY ElementOfSeq DEF Inv, TypeOK
  <1>5. TailVouches(s)
    BY <1>1 DEF Vouched
  <1>6. c.ord < Len(f.lines) /\ Size(f) # Offset(c)
    BY <1>1, <1>2, WindowText
  <1>7. c.tail # NoDigest /\ c.ord \in Nat /\ Len(f.lines) \in Nat /\ g.from \in Nat
    BY <1>1, <1>4, LenProperties DEF File, Cursors, LandedFiles
  <1>8. \A k \in g.from + 1 .. c.ord : k > c.ord - TailWindow =>
            c.tail[Place(c.ord, k)] = g.recs[k - g.from]
    BY <1>3, <1>5, <1>7 DEF TailVouches
  <1> HIDE DEF s, c, f, g
  <1>9. c.ord = 0 \/ Digest(f, c.ord) = c.tail
    BY <1>1, <1>6, <1>7 DEF Conflicts, Fresh
  <1>10. ASSUME NEW k \in g.from + 1 .. c.ord, k > c.ord - TailWindow
         PROVE  k <= Len(f.lines) /\ f.lines[k] = g.recs[k - g.from]
    <2>1. k \in 1 .. c.ord /\ k <= Len(f.lines)
      BY <1>6, <1>7, <1>10
    <2>2. Digest(f, c.ord)[Place(c.ord, k)] = f.lines[k]
      BY <1>1, <1>7, <1>10, <2>1, DigestAt
    <2> QED BY <1>8, <1>9, <1>10, <2>1, <2>2
  <1> QED BY <1>10 DEF SameText, s, c, f, g

\* Nothing but a read takes a collector from its source to landing.
LEMMA OnlyReads ==
    ASSUME Inv, [Next]_vars, NEW p \in Collectors, pc[p] = "tail", pc'[p] = "land",
           pass[p].source \in AppendSources
    PROVE  ReadWindow(p)
  <1>1. PICK q \in Collectors : Act(q)
    BY EnvironmentQuiet, NextIsActs DEF vars
  <1>2. q = p
    BY <1>1, OthersUntouched DEF Inv
  <1>3. ~ReadSnapshot(p)
    BY CollectorAssumption DEF ReadSnapshot
  <1> QED BY <1>1, <1>2, <1>3, WindowFrame

\* A window is read only behind the text its source's last window landed, for
\* every width of the digest and of a window, whatever collectors run, stop or
\* fail (collect.go landAppend, cursor.go TailAppend).  The one thing assumed is
\* that a source is not rewritten between the read of a window and the digest
\* taken after it landed: the digest is of the file as it then is
\* (collect.go:497), and would vouch for text that was never landed.
THEOREM Resumes ==
    ASSUME ~RewritesRace
    PROVE  Spec => ResumesOnWhatItRead
  <1>1. Init => Vouched
    <2>1. Init => \A s \in AppendSources : cursor[s].tail = NoDigest
      BY DEF Init, NewCursor, Sources
    <2>2. Init => \A p \in Collectors : pc[p] = "idle"
      BY DEF Init
    <2> QED BY <2>1, <2>2 DEF Vouched, TailVouches, WindowStands
  <1>2. Inv /\ Vouched /\ [Next]_vars => Vouched'
    BY VouchedStep
  <1>3. Inv /\ Vouched /\ [Next]_vars =>
            [\A p \in Collectors :
                LET s == pass[p].source IN
                pc[p] = "tail" /\ pc'[p] = "land" /\ s \in AppendSources
                    /\ cursor[s].tail # NoDigest =>
                        \A i \in DOMAIN landed : landed[i].seq = cursor[s].lastSeq =>
                            SameText(landed[i], src[s], cursor[s].ord)]_vars
    BY OnlyReads, ReadBehind
  <1> QED BY <1>1, <1>2, <1>3, Invariance, PTL DEF Spec, ResumesOnWhatItRead
=============================================================================
