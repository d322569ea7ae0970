------------------------------ MODULE Metrics ------------------------------
(***************************************************************************)
(* The derivation of metrics (internal/metrics) from the landed files of a *)
(* session.  A pass derives every file that metrics.state does not name:   *)
(* it publishes a receipt of what the file counts, puts the request in the *)
(* spool under the file's own name, and saves its state once, at the end.  *)
(* Between two passes a file may land that goes on with a call an earlier  *)
(* file began, and a pass may stop anywhere.                               *)
(*                                                                         *)
(* The session's directory, its retired marker and the spool are also what *)
(* Retire changes, so the module has them and their losses of power.       *)
(*                                                                         *)
(* Abstractions.  One session of transcripts; a record is the call it is a *)
(* fragment of, or what it is else, with its minute; every fragment of a   *)
(* call carries usage.  A file's points are of one series, named by its    *)
(* query source, and a point is the calls it sums.  Receipts and state     *)
(* files are durable once written.  The execution files of the MCP family  *)
(* are left out: they read nothing ahead and wait for nothing.             *)
(***************************************************************************)
EXTENDS Integers, Sequences, FiniteSets, FiniteSetsExt

CONSTANTS
    Content,      \* the records of each file that may land, in order
    Stream,       \* the stream of each file
    Source,       \* the query source of each stream
    Prompt,       \* stands for a record that ends a call
    Result,       \* stands for a tool's result
    None,         \* no file, no call, no owner
    Since,        \* the minute the first pass looks back to
    MaxFaults     \* bound: stops, losses of power, lost answers and failures, together

Files == 1 .. Len(Content)
Sources == {Source[Stream[f]] : f \in Files}
Minute == 4   \* a minute, in the units windows are cut to

VARIABLES
    landed,    \* how many files have landed, the first of Content first
    aged,      \* the files whose grace is over
    receipt,   \* <session>/metrics/<seq>.json
    spool,     \* _metrics/metrics-<session>-<seq>-local.pb, a name on disk;
               \* without the file, no points
    saved,     \* metrics.state
    pass,      \* what Deriver.Pass holds in memory
    dir,       \* where the session's directory is, a name on disk
    marker,    \* _retired/<session>, a name on disk
    faults,    \* stops, losses, lost answers and failures so far
    named      \* every request a spool file ever held: history

-----------------------------------------------------------------------------
(* A name on disk: what a process sees, what a loss of power may leave, and  *)
(* whether a sync of it failed, after which a later one proves nothing.      *)

Settled(v) == [now |-> v, may |-> {v}, stuck |-> FALSE]
Written(e, v) == [now |-> v, may |-> e.may \cup {v}, stuck |-> FALSE]
Flushed(e) == IF e.stuck THEN e ELSE Settled(e.now)
Failed(e) == [e EXCEPT !.stuck = e.may # {e.now}]

InSpool(f) == spool[f].now # {}
Here == dir.now = "session"
Retired == marker.now

Fault == faults < MaxFaults /\ faults' = faults + 1

-----------------------------------------------------------------------------
(* Reading a file's calls.                                                   *)

Records == UNION {{Content[f][i] : i \in DOMAIN Content[f]} : f \in Files}
Calls == {r.call : r \in Records} \ {Prompt, Result}

IsFragment(r) == r.call \notin {Prompt, Result}
CallsIn(f) == {Content[f][i].call : i \in {j \in DOMAIN Content[f] : IsFragment(Content[f][j])}}

\* The fragments of a call among the first n records of a file, each by its file
\* and its place in it.
Fragments(f, n, c) == {<<f, i>> : i \in {j \in DOMAIN Content[f] : j <= n /\ Content[f][j].call = c}}

\* The last fragment of a file, and whether nothing but results follows it.
LastFragment(f) == CHOOSE i \in DOMAIN Content[f] :
    /\ IsFragment(Content[f][i])
    /\ \A j \in DOMAIN Content[f] : j > i => ~IsFragment(Content[f][j])
LastCall(f) == IF CallsIn(f) = {} THEN None ELSE Content[f][LastFragment(f)].call
Open(f) == \A j \in DOMAIN Content[f] : j > LastFragment(f) => Content[f][j].call = Result

\* continueIn: the leading records of a file that belong to call c, and
\* whether they are all of it.
Leading(f, c) == CHOOSE n \in 0 .. Len(Content[f]) :
    /\ \A i \in 1 .. n : Content[f][i].call \in {c, Result}
    /\ n < Len(Content[f]) => Content[f][n + 1].call \notin {c, Result}
More(f, c) == Leading(f, c) = Len(Content[f])
FragmentsAhead(f, c) == Fragments(f, Leading(f, c), c)

\* The files after f, up to the n-th, that are read ahead for its last call,
\* and those among them that hold a fragment of it.
ReadAhead(f, n) ==
    LET after == {g \in f + 1 .. n : Stream[g] = Stream[f]}
    IN  {g \in after : \A h \in after : h < g => More(h, LastCall(f))}
Matched(f, n) == {g \in ReadAhead(f, n) : FragmentsAhead(g, LastCall(f)) # {}}

\* What is known of a call when file f is derived, the n-th the last listed:
\* the file's own fragments, and for its last call those read ahead.
Known(f, n, c) ==
    Fragments(f, Len(Content[f]), c) \cup
        UNION {FragmentsAhead(g, c) : g \in {h \in ReadAhead(f, n) : c = LastCall(f)}}
Record(place) == Content[place[1]][place[2]]
Finished(known) == \E place \in known : Record(place).done

\* The minute of the last one.
At(known) ==
    LET f == Max({place[1] : place \in known})
    IN  Content[f][Max({i \in DOMAIN Content[f] : <<f, i>> \in known})].at

\* openTail: the last file that holds a call that may go on.
OpenTail(f, n, calls) ==
    IF LastCall(f) \in calls \cup {None} \/ \E g \in ReadAhead(f, n) : ~More(g, LastCall(f)) THEN None
    ELSE IF Matched(f, n) # {} THEN Max(Matched(f, n))
    ELSE IF Open(f) THEN f ELSE None

-----------------------------------------------------------------------------
(* What a file counts, its points and their windows.                         *)

SourceOf(f) == Source[Stream[f]]
CountedIn(f, n, calls) == {c \in CallsIn(f) \ calls : Finished(Known(f, n, c))}
MinuteOf(f, n, c) == At(Known(f, n, c))

\* A call older than the first pass looks back is counted and makes no point.
Old(minute) == minute + 1 < Since

\* Fragments as old as that had landed when the first pass ran: "files that land
\* later hold newer records" (metrics.go:247).
ASSUME MetricsAssumption ==
    /\ Content \in Seq(Seq(Records)) /\ Len(Content) > 0
    /\ \A r \in Records : r.at \in Nat
    /\ \A f \in Files \ {1} : \A i \in DOMAIN Content[f] :
           IsFragment(Content[f][i]) => ~Old(Content[f][i].at)

Exported(f, n, calls, since) ==
    {c \in CountedIn(f, n, calls) : ~(since /\ Old(MinuteOf(f, n, c)))}

\* The points of a file, one for each minute. A window is its minute; a series
\* that has a window at or past the minute's start goes on from there, and for a
\* unit at least. So a series that ended at last ends, once the windows of some
\* minutes follow, at the end of one of them and a unit for each after it.
EndAfter(last, minutes) ==
    Max({last + Cardinality(minutes)} \cup
        {(m + 1) * Minute + Cardinality({k \in minutes : k > m}) : m \in minutes})
Point(f, calls, last, minutes, m) ==
    [source |-> SourceOf(f), calls |-> calls,
     start |-> Max({m * Minute, EndAfter(last, {k \in minutes : k < m})}),
     end |-> EndAfter(last, {k \in minutes : k <= m})]

\* The receipt of a file: what it counts, its request and its series' end.
Receipt(f, n, p) ==
    LET exported == Exported(f, n, p.calls, p.since)
        at == [c \in exported |-> MinuteOf(f, n, c)]
        minutes == {at[c] : c \in exported}
        last == p.ends[SourceOf(f)]
    IN  [counted |-> CountedIn(f, n, p.calls),
         request |-> {Point(f, {c \in exported : at[c] = m}, last, minutes, m) : m \in minutes},
         end |-> IF minutes = {} THEN last ELSE EndAfter(last, minutes)]

NoReceipt == [counted |-> {}, request |-> {}, end |-> -1]
Receipts(f) == receipt[f] # NoReceipt

\* receipt.commit for the receipts of a set of files.
Committed(p, fs) ==
    [p EXCEPT !.calls = @ \cup UNION {receipt[f].counted : f \in fs},
              !.ends = [s \in Sources |->
                  Max({@[s]} \cup {receipt[f].end : f \in {g \in fs : SourceOf(g) = s}})]]

-----------------------------------------------------------------------------
(* Initially the first file has landed: what is older than the first pass    *)
(* looks back was there when it ran.                                         *)

NoPass == [step |-> "idle", at |-> 1, derived |-> {}, calls |-> {},
           ends |-> [s \in Sources |-> 0], since |-> FALSE, pending |-> FALSE]
NothingSaved == [there |-> FALSE, derived |-> {}, calls |-> {}, ends |-> [s \in Sources |-> 0], since |-> FALSE]

MetricsInit ==
    /\ landed = 1
    /\ aged = {}
    /\ receipt = [f \in Files |-> NoReceipt]
    /\ spool = [f \in Files |-> Settled({})]
    /\ saved = NothingSaved
    /\ pass = NoPass
    /\ dir = Settled("session")
    /\ marker = Settled(FALSE)
    /\ faults = 0
    /\ named = [f \in Files |-> {}]

\* A collector lands the next file of a session that is not retired.
Land ==
    /\ ~Retired /\ Here /\ landed < Len(Content)
    /\ landed' = landed + 1
    /\ UNCHANGED <<aged, receipt, spool, saved, pass, dir, marker, faults, named>>

\* The grace of a file that may be a call's tail is over.
Age(f) ==
    /\ f \in 1 .. landed \ aged /\ CallsIn(f) # {} /\ Open(f)
    /\ aged' = aged \cup {f}
    /\ UNCHANGED <<landed, receipt, spool, saved, pass, dir, marker, faults, named>>

\* Mutant: a waiting file's later receipts are not committed first.
BeginPassBare ==
    /\ pass.step = "idle" /\ Here /\ ~Retired
    /\ pass' = [NoPass EXCEPT !.step = "file", !.derived = saved.derived, !.calls = saved.calls,
                              !.ends = saved.ends, !.since = saved.since \/ ~saved.there]
    /\ UNCHANGED <<landed, aged, receipt, spool, saved, dir, marker, faults, named>>

\* Pass takes the metrics lock, loads the state and lists the files.  The
\* receipts of files no saved pass derived are committed before any file is.
BeginPass ==
    /\ pass.step = "idle" /\ Here /\ ~Retired
    /\ pass' = Committed(
           [NoPass EXCEPT !.step = "file", !.derived = saved.derived,
                          !.calls = saved.calls, !.ends = saved.ends,
                          !.since = saved.since \/ ~saved.there],
           {f \in 1 .. landed \ saved.derived : Receipts(f)})
    /\ UNCHANGED <<landed, aged, receipt, spool, saved, dir, marker, faults, named>>

AtFile == pass.step = "file" /\ pass.at <= landed
Passed(p) == [p EXCEPT !.step = "file", !.at = @ + 1]
Broken(p) == [p EXCEPT !.step = "file", !.at = landed + 1, !.pending = TRUE]

\* Mutant: a file waits for its call as long as that may go on.
WaitsOn(f) == OpenTail(f, landed, pass.calls) # None

Waits(f) == OpenTail(f, landed, pass.calls) \notin aged \cup {None}

\* A file the state names is passed over.
PassOver ==
    /\ AtFile /\ pass.at \in pass.derived
    /\ pass' = Passed(pass)
    /\ UNCHANGED <<landed, aged, receipt, spool, saved, dir, marker, faults, named>>

\* A file whose call may go on in one that did not land waits for its grace.
Defer ==
    /\ AtFile /\ pass.at \notin pass.derived /\ ~Receipts(pass.at) /\ Waits(pass.at)
    /\ pass' = [Passed(pass) EXCEPT !.pending = TRUE]
    /\ UNCHANGED <<landed, aged, receipt, spool, saved, dir, marker, faults, named>>

\* Mutant: a file is derived anew beside the request a stopped pass left.
DeriveAnew ==
    /\ AtFile /\ pass.at \notin pass.derived /\ ~Waits(pass.at)
    /\ receipt' = [receipt EXCEPT ![pass.at] = Receipt(pass.at, landed, pass)]
    /\ pass' = [pass EXCEPT !.step = "put"]
    /\ UNCHANGED <<landed, aged, spool, saved, dir, marker, faults, named>>

\* A receipt that is there decides; without one, one is published.
DeriveReceipt ==
    /\ AtFile /\ pass.at \notin pass.derived
    /\ IF Receipts(pass.at) THEN UNCHANGED receipt
       ELSE /\ ~Waits(pass.at)
            /\ receipt' = [receipt EXCEPT ![pass.at] = Receipt(pass.at, landed, pass)]
    /\ pass' = [pass EXCEPT !.step = "put"]
    /\ UNCHANGED <<landed, aged, spool, saved, dir, marker, faults, named>>

\* A file that cannot be read, or a request that cannot be written, ends the
\* session's part of the pass: what later files count depends on this one.
Break ==
    /\ \/ AtFile /\ pass.at \notin pass.derived
       \/ pass.step = "put" /\ receipt[pass.at].request # {} /\ ~InSpool(pass.at)
    /\ Fault
    /\ pass' = Broken(pass)
    /\ UNCHANGED <<landed, aged, receipt, spool, saved, dir, marker, named>>

\* PutNamed keeps a request that is there. A new one is renamed into place, and
\* a sync of its directory that fails is only reported.
PutNamed(f, request) ==
    IF request = {} \/ InSpool(f) THEN UNCHANGED <<spool, faults, named>>
    ELSE /\ named' = [named EXCEPT ![f] = @ \cup {request}]
         /\ \/ spool' = [spool EXCEPT ![f] = Flushed(Written(@, request))] /\ UNCHANGED faults
            \/ /\ Fault
               /\ spool' = [spool EXCEPT ![f] = Failed(Written(@, request))]

\* The request is put, and only then is the receipt committed to the pass.
Put ==
    /\ pass.step = "put"
    /\ PutNamed(pass.at, receipt[pass.at].request)
    /\ pass' = [Passed(Committed(pass, {pass.at})) EXCEPT !.derived = @ \cup {pass.at}]
    /\ UNCHANGED <<landed, aged, receipt, saved, dir, marker>>

\* Mutant: the look-back is of the first pass alone.
SaveForgetting ==
    /\ pass.step = "file" /\ pass.at > landed
    /\ saved' = [there |-> TRUE, derived |-> pass.derived, calls |-> pass.calls, ends |-> pass.ends,
                 since |-> FALSE]
    /\ pass' = NoPass
    /\ UNCHANGED <<landed, aged, receipt, spool, dir, marker, faults, named>>

\* The state is saved once, at the end. The look-back is kept for a session
\* the pass did not finish.
Save ==
    /\ pass.step = "file" /\ pass.at > landed
    /\ saved' = [there |-> TRUE, derived |-> pass.derived, calls |-> pass.calls, ends |-> pass.ends,
                 since |-> pass.since /\ pass.pending]
    /\ pass' = NoPass
    /\ UNCHANGED <<landed, aged, receipt, spool, dir, marker, faults, named>>

PassSteps == PassOver \/ Defer \/ DeriveReceipt \/ Put \/ Save

-----------------------------------------------------------------------------
(* Properties of the derivation.                                             *)

\* The points of every request ever put in the spool.
Points == UNION {UNION named[f] : f \in Files}
OldCalls == {c \in CallsIn(1) : \A f \in Files : \A i \in DOMAIN Content[f] :
                Content[f][i].call = c => Old(Content[f][i].at)}

\* A call counted in metrics.state is in a request, or in one a receipt still
\* owes, or has a fragment older than the first pass looks back; no call is in
\* two, and a spool file never holds another request than its first. A pass that
\* stopped between its receipts, its requests and its state is derived again
\* beside what it left, when a file that goes on with its calls may have landed
\* (receipt.go:37-41, 66-72).
CountedOnce ==
    /\ \A f \in Files : \A a, b \in named[f] : a = b
    /\ \A p, q \in Points : p.calls \cap q.calls # {} => p = q
    /\ \A c \in saved.calls :
           \/ \E r \in Records : r.call = c /\ Old(r.at)
           \/ \E p \in Points \cup UNION {receipt[f].request : f \in Files \ saved.derived} : c \in p.calls

\* Two windows of one series never overlap, so a receiver throws no point away:
\* also those of a file that waited for its grace while a pass that stopped
\* derived later ones (metrics.go:270-283, 586-618).
WindowsApart ==
    \A p, q \in Points : p # q /\ p.source = q.source => p.end <= q.start \/ q.end <= p.start

\* What the first pass was asked to leave out is never exported, also when a
\* later pass derives a file the first could not (metrics.go:240-249).
LookbackKept == \A p \in Points : p.calls \cap OldCalls = {}
=============================================================================
