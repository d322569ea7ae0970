-------------------------------- MODULE Push --------------------------------
(***************************************************************************)
(* Sending a storage root to a receiver (internal/export/otlp, as asz push *)
(* and the pipeline run it).                                               *)
(*                                                                         *)
(* A pass reads push.state, goes over what the root holds, session by      *)
(* session, and sends what is not recorded yet: files in batches, metrics  *)
(* requests one by one.  Before a request goes, the owner of every session *)
(* in it is saved; once the receiver took it, its files are.  A request    *)
(* may be taken and its answer lost, an answer may name records that were  *)
(* rejected, a save may fail, and the process may stop anywhere.           *)
(*                                                                         *)
(* Abstractions.  A landed file and a round are both a "file": each is     *)
(* written once, sent whole, and told apart by its place in its session.   *)
(* A file's digest is the file; every file has one size and the budget     *)
(* counts them.  A session's rounds are in its own conversation, as in     *)
(* every root asz builds, and it has at most one judge run.  Passes, and   *)
(* the commands that write to the root, hold the root's lock, so nothing   *)
(* is written to it during a pass and the export lock is free.  Logs,      *)
(* metrics and judgments are all sent.  A save is durable: what a loss of  *)
(* power does to push.state is left out, and so are the rate limit and the *)
(* records' attributes.                                                    *)
(***************************************************************************)
EXTENDS Integers, FiniteSets

CONSTANTS
    Sessions,
    Owners,        \* what OwnerOf names: an endpoint, a service and an instance
    Configured,    \* the owner the configuration names first
    Endpoint,      \* the receiver of each owner
    NoOwner,
    Unknown,       \* the receiver of files recorded with none (unknownEndpoint)
    Items,         \* bound: what may ever be written to the root
    Retirable,     \* bound: the sessions that may be retired
    Unsendable,    \* files no request can carry: proto.Marshal refuses them
    BatchBytes,    \* the budget of a request, in files
    MaxReconfigs,  \* bound: changes of the configured owner
    MaxFaults      \* bound: stops, lost answers, refusals, failed reads and saves,
                   \* and saves by an older asz

Kinds == {"file", "stage", "close", "request"}

ASSUME PushAssumption ==
    /\ IsFiniteSet(Sessions)
    /\ Items \subseteq [kind : Kinds, session : Sessions, n : Nat]
    /\ Configured \in Owners /\ NoOwner \notin Owners
    /\ Endpoint \in [Owners -> {Endpoint[o] : o \in Owners} \ {Unknown}]
    /\ Retirable \subseteq Sessions /\ Unsendable \subseteq Items
    /\ BatchBytes \in Nat \ {0}
    /\ MaxReconfigs \in Nat /\ MaxFaults \in Nat

VARIABLES
    root,      \* what the root holds: files, judge runs, the metrics spool
    born,      \* when the first file of each session landed, 0 before
    retired,   \* the sessions with a retired marker
    state,     \* push.state
    config,    \* the owner the configuration names
    pc, mem, left, batch, tried,   \* the pass: where it is, push.state as it knows it,
                                   \* what it has yet to look at, the request it makes,
                                   \* and whether it tried a stage of the run at hand
    taken,     \* the receivers: what each owner was sent and took
    kept,      \* of that, what it did not reject
    times,     \* how often each was taken
    older,     \* whether an older asz saved push.state
    reconfigs, faults

disk == <<root, born, retired>>
pass == <<pc, mem, left, batch, tried>>
receivers == <<taken, kept, times>>
bounds == <<older, reconfigs, faults>>
vars == <<disk, state, config, pass, receivers, bounds>>

Endpoints == {Endpoint[o] : o \in Owners}
NothingSent == [files |-> {}, rejected |-> {}, endpoints |-> {},
                owners |-> [s \in Sessions |-> NoOwner]]

Init ==
    /\ root = {} /\ born = [s \in Sessions |-> 0] /\ retired = {}
    /\ state = NothingSent
    /\ config = Configured
    /\ pc = "idle" /\ mem = NothingSent /\ left = {} /\ batch = {} /\ tried = FALSE
    /\ taken = {} /\ kept = {} /\ times = [i \in Items |-> 0]
    /\ older = FALSE /\ reconfigs = 0 /\ faults = 0

Fault == faults < MaxFaults /\ faults' = faults + 1

-----------------------------------------------------------------------------
(* push.state. *)

\* Mutant: files recorded with no receiver are taken to be at the next one.
LoadStateTrusting(s) == s

\* A file with pushed lines and no endpoint names the receiver unknown.
LoadState(s) ==
    IF s.files # {} /\ s.endpoints = {} THEN [s EXCEPT !.endpoints = {Unknown}] ELSE s

Mark(s, sent, rejecting) ==
    [s EXCEPT !.files = @ \cup sent,
              !.endpoints = @ \cup {Endpoint[config]},
              !.rejected = IF rejecting THEN @ \cup sent ELSE @]

\* What retention and the scenarios' removal ask of push.state.
SentTo(s, endpoint, i) ==
    /\ s.endpoints = {endpoint}
    /\ endpoint # Unknown
    /\ i \in s.files \ s.rejected

-----------------------------------------------------------------------------
(* The order of a pass, and what it sends. *)

Stages(s) == {i \in root : i.kind = "stage" /\ i.session = s}
Closed(s) == \E i \in root : i.kind = "close" /\ i.session = s

Rank(kind) == CASE kind = "file" -> 1 [] kind = "stage" -> 2 [] OTHER -> 3

\* Sessions go in the order they first landed, each with its files, then its
\* run; the spool goes last, by sequence.
Precedes(i, j) ==
    CASE i.kind = "request" -> j.kind = "request" /\ i.n < j.n
      [] j.kind = "request" -> TRUE
      [] i.session # j.session -> born[i.session] < born[j.session]
      [] i.kind # j.kind -> Rank(i.kind) < Rank(j.kind)
      [] OTHER -> i.n < j.n

Upcoming == {i \in left : \A j \in left : ~Precedes(j, i)}

Claim(s) == mem.owners[s] \in {NoOwner, config}

\* Mutant: the close does not wait for its stages to be recorded.
WantedAnyClose(i) ==
    /\ i.kind = "request" \/ i.session \notin retired
    /\ Claim(i.session)

\* A retired session's metrics still go; a close goes once its stages are recorded.
Wanted(i) ==
    /\ i.kind = "request" \/ i.session \notin retired
    /\ Claim(i.session)
    /\ i.kind = "close" => Stages(i.session) \subseteq mem.files

\* The stages tried so far go before their close is looked at.
StagesFirst(i) == i.kind = "close" /\ tried /\ batch # {}

-----------------------------------------------------------------------------
(* A pass. *)

Start ==
    /\ pc = "idle"
    /\ pc' = "walk"
    /\ mem' = LoadState(state)
    /\ left' = {i \in root : i.kind = "stage" => Closed(i.session)} \ mem'.files
    /\ UNCHANGED <<disk, state, config, batch, tried, receivers, bounds>>

\* A file of a held or retired session, a close whose stages did not all go,
\* and what no request can carry.
PassOver(i) ==
    /\ pc = "walk" /\ i \in Upcoming
    /\ ~StagesFirst(i)
    /\ ~Wanted(i) \/ i \in Unsendable
    /\ left' = left \ {i}
    /\ tried' = CASE i.kind = "close" -> FALSE
                  [] i.kind = "stage" /\ Wanted(i) -> TRUE
                  [] OTHER -> tried
    /\ UNCHANGED <<disk, state, config, pc, mem, batch, receivers, bounds>>

\* Mutant: a record is not tried before it joins the batch.
AddUntried(i) ==
    /\ pc = "walk" /\ i \in Upcoming /\ i.kind # "request"
    /\ ~StagesFirst(i)
    /\ Wanted(i)
    /\ Cardinality(batch) < BatchBytes
    /\ batch' = batch \cup {i}
    /\ left' = left \ {i}
    /\ tried' = CASE i.kind = "close" -> FALSE
                  [] i.kind = "stage" -> TRUE
                  [] OTHER -> tried
    /\ UNCHANGED <<disk, state, config, pc, mem, receivers, bounds>>

Add(i) ==
    /\ pc = "walk" /\ i \in Upcoming /\ i.kind # "request"
    /\ ~StagesFirst(i)
    /\ Wanted(i) /\ i \notin Unsendable
    /\ Cardinality(batch) < BatchBytes
    /\ batch' = batch \cup {i}
    /\ left' = left \ {i}
    /\ tried' = CASE i.kind = "close" -> FALSE
                  [] i.kind = "stage" -> TRUE
                  [] OTHER -> tried
    /\ UNCHANGED <<disk, state, config, pc, mem, receivers, bounds>>

\* The batch goes before a file that does not fit, before the close of a run
\* whose stages it holds, before the spool, and at the end.
Flush ==
    /\ pc = "walk" /\ batch # {}
    /\ \A i \in Upcoming :
        \/ StagesFirst(i)
        \/ i.kind = "request"
        \/ Wanted(i) /\ i \notin Unsendable /\ Cardinality(batch) >= BatchBytes
    /\ pc' = "pin"
    /\ UNCHANGED <<disk, state, config, mem, left, batch, tried, receivers, bounds>>

TakeRequest(i) ==
    /\ pc = "walk" /\ batch = {} /\ i \in Upcoming /\ i.kind = "request"
    /\ Wanted(i) /\ i \notin Unsendable
    /\ pc' = "pin"
    /\ batch' = {i}
    /\ left' = left \ {i}
    /\ UNCHANGED <<disk, state, config, mem, tried, receivers, bounds>>

\* A file, a request or a judge run does not read: it waits for the next
\* pass.  A run is read whole before any of it is added.
ReadFails ==
    /\ pc = "walk"
    /\ \E i \in Upcoming :
        \/ /\ i.kind \in {"file", "request"}
           /\ left' = left \ {i}
        \/ /\ i.kind \in {"stage", "close"} /\ ~tried
           /\ left' = {j \in left : j.session # i.session \/ j.kind \in {"file", "request"}}
    /\ Fault
    /\ UNCHANGED <<disk, state, config, pc, mem, batch, tried, receivers, older, reconfigs>>

-----------------------------------------------------------------------------
(* A request. *)

InBatch == {i.session : i \in batch}
Unpinned == {s \in InBatch : mem.owners[s] = NoOwner}

\* Mutant: the owner is saved with the answer.
PinUnsaved ==
    /\ pc = "pin"
    /\ mem' = [mem EXCEPT !.owners = [s \in Sessions |-> IF s \in Unpinned THEN config ELSE @[s]]]
    /\ pc' = "send"
    /\ UNCHANGED <<disk, state, config, left, batch, tried, receivers, bounds>>

\* The attempt is saved before it goes out.
Pin ==
    /\ pc = "pin"
    /\ mem' = [mem EXCEPT !.owners = [s \in Sessions |-> IF s \in Unpinned THEN config ELSE @[s]]]
    /\ state' = IF Unpinned = {} THEN state ELSE mem'
    /\ pc' = "send"
    /\ UNCHANGED <<disk, config, left, batch, tried, receivers, bounds>>

\* Nothing goes, and no owner stays.  Among the files the next batch is tried;
\* in the spool the pass ends.
PinFails ==
    /\ pc = "pin" /\ Unpinned # {}
    /\ pc' = "walk"
    /\ left' = IF \E i \in batch : i.kind = "request" THEN {} ELSE left
    /\ batch' = {}
    /\ Fault
    /\ UNCHANGED <<disk, state, config, mem, tried, receivers, older, reconfigs>>

Receive(rejects) ==
    /\ taken' = taken \cup ({config} \X batch)
    /\ kept' = kept \cup ({config} \X (batch \ rejects))
    /\ times' = [i \in Items |-> IF i \in batch THEN times[i] + 1 ELSE times[i]]

\* The receiver took it, and rejected some of it or nothing.  A request with a
\* record that does not encode never gets there.
Answered ==
    /\ pc = "send" /\ batch \cap Unsendable = {}
    /\ \E rejects \in SUBSET batch :
        /\ Receive(rejects)
        /\ mem' = Mark(mem, batch, rejects # {})
    /\ pc' = "save"
    /\ UNCHANGED <<disk, state, config, left, batch, tried, bounds>>

\* The receiver took it and the answer is an error or never comes.
Unanswered ==
    /\ pc = "send" /\ batch \cap Unsendable = {}
    /\ \E rejects \in SUBSET batch : Receive(rejects)
    /\ pc' = "walk" /\ batch' = {}
    /\ Fault
    /\ UNCHANGED <<disk, state, config, mem, left, tried, older, reconfigs>>

\* The receiver refuses it.  A request that does not encode fails every time,
\* and costs no fault: Add lets none be made.
Refused ==
    /\ pc = "send"
    /\ pc' = "walk" /\ batch' = {}
    /\ IF batch \cap Unsendable = {} THEN Fault ELSE UNCHANGED faults
    /\ UNCHANGED <<disk, state, config, mem, left, tried, receivers, older, reconfigs>>

\* The receiver asks to slow down: nothing more goes in this pass.
Throttled ==
    /\ pc = "send"
    /\ pc' = "walk" /\ batch' = {} /\ left' = {}
    /\ Fault
    /\ UNCHANGED <<disk, state, config, mem, tried, receivers, older, reconfigs>>

Save ==
    /\ pc = "save"
    /\ state' = mem
    /\ pc' = "walk" /\ batch' = {}
    /\ UNCHANGED <<disk, config, mem, left, tried, receivers, bounds>>

\* What was marked stays marked until the pass ends.
SaveFails ==
    /\ pc = "save"
    /\ pc' = "walk" /\ batch' = {}
    /\ Fault
    /\ UNCHANGED <<disk, state, config, mem, left, tried, receivers, older, reconfigs>>

Forget == mem' = NothingSent /\ left' = {} /\ batch' = {} /\ tried' = FALSE

Finish ==
    /\ pc = "walk" /\ left = {} /\ batch = {}
    /\ pc' = "idle" /\ Forget
    /\ UNCHANGED <<disk, state, config, receivers, bounds>>

\* The process stops, or an error ends the pass.
Stop ==
    /\ pc # "idle"
    /\ pc' = "idle" /\ Forget
    /\ Fault
    /\ UNCHANGED <<disk, state, config, receivers, older, reconfigs>>

-----------------------------------------------------------------------------
(* The rest of the program, between two passes. *)

\* A file follows the session's others; a judge run writes its stages, then
\* its close; a metrics request is derived from a file.  Nothing is written
\* for a retired session.
MayWrite(i) ==
    /\ i.session \notin retired
    /\ \A j \in Items : j.kind = i.kind /\ j.session = i.session /\ j.n < i.n => j \in root
    /\ CASE i.kind = "file" -> TRUE
         [] i.kind = "stage" -> born[i.session] > 0 /\ ~Closed(i.session)
         [] i.kind = "close" -> Stages(i.session) # {}
         [] OTHER -> [i EXCEPT !.kind = "file"] \in root

Write(i) ==
    /\ pc = "idle" /\ i \notin root
    /\ MayWrite(i)
    /\ root' = root \cup {i}
    /\ born' = [born EXCEPT ![i.session] =
                  IF @ = 0 THEN 1 + Cardinality({s \in Sessions : born[s] > 0}) ELSE @]
    /\ UNCHANGED <<retired, state, config, pass, receivers, bounds>>

Retire(s) ==
    /\ pc = "idle" /\ s \in Retirable \ retired /\ born[s] > 0
    /\ retired' = retired \cup {s}
    /\ UNCHANGED <<root, born, state, config, pass, receivers, bounds>>

Reconfigure(o) ==
    /\ pc = "idle" /\ o # config
    /\ reconfigs < MaxReconfigs /\ reconfigs' = reconfigs + 1
    /\ config' = o
    /\ UNCHANGED <<disk, state, pass, receivers, older, faults>>

\* An older asz saves push.state, and knows of pushed lines only.
OlderSaves ==
    /\ pc = "idle"
    /\ older' = TRUE
    /\ state' = [NothingSent EXCEPT !.files = state.files]
    /\ Fault
    /\ UNCHANGED <<disk, config, pass, receivers, reconfigs>>

PassStep ==
    \/ Start \/ Finish \/ Flush \/ Pin \/ Answered \/ Save
    \/ \E i \in Items : PassOver(i) \/ Add(i) \/ TakeRequest(i)

FaultStep == ReadFails \/ PinFails \/ Unanswered \/ Refused \/ Throttled \/ SaveFails \/ Stop

Next ==
    \/ PassStep
    \/ FaultStep
    \/ \E i \in Items : Write(i)
    \/ \E s \in Sessions : Retire(s)
    \/ \E o \in Owners : Reconfigure(o)
    \/ OlderSaves

Spec == Init /\ [][Next]_vars

\* A watching pipeline comes round again, and no step of a pass waits for
\* anything but the receiver, which answers in the end.
FairSpec == Spec /\ WF_vars(PassStep \/ (Refused /\ UNCHANGED faults))

-----------------------------------------------------------------------------
(* Properties. *)

\* The type of every variable (Sent, pushState and batch in the code).
PushState ==
    [files : SUBSET Items, rejected : SUBSET Items, endpoints : SUBSET (Endpoints \cup {Unknown}),
     owners : [Sessions -> Owners \cup {NoOwner}]]

TypeOK ==
    /\ root \in SUBSET Items /\ born \in [Sessions -> Nat] /\ retired \in SUBSET Sessions
    /\ state \in PushState /\ mem \in PushState
    /\ config \in Owners
    /\ pc \in {"idle", "walk", "pin", "send", "save"}
    /\ left \in SUBSET root /\ batch \in SUBSET root /\ tried \in BOOLEAN
    /\ taken \in SUBSET (Owners \X Items) /\ kept \in SUBSET taken
    /\ times \in [Items -> Nat]
    /\ older \in BOOLEAN /\ reconfigs \in Nat /\ faults \in Nat

\* What push.state records was taken by a receiver, whatever was lost, saved
\* or stopped between a request and its record (flush, "recorded as pushed
\* only after the request carrying it succeeded").
RecordedWasTaken == \A i \in state.files : \E o \in Owners : <<o, i>> \in taken

\* Everything of a session goes to one owner, though the configuration
\* changes, a request goes unanswered or the process stops: the owner is on
\* disk before the first request (pin, claim).  An older asz drops it.
OneReceiver ==
    ~older => \A p, q \in taken : p[2].session = q[2].session => p[1] = q[1]

\* A file is taken again only for a fault of its own: an answer, a save or a
\* process that was lost (pushed, mark, and the save after each request).
OnceUnlessFaults == \A i \in Items : times[i] <= 1 + faults

\* No receiver took a run's close and not every stage of it (addJudgments).
CloseAfterStages ==
    ~older =>
        \A p \in taken : p[2].kind = "close" => {p[1]} \X Stages(p[2].session) \subseteq taken

\* A file that push.state says was sent to a receiver is there whole: not
\* rejected, not at another receiver, and not recorded by an older asz that
\* keeps neither (SentTo, loadState, mark, reject).
SentMeansKept ==
    \A e \in Endpoints, i \in Items :
        SentTo(LoadState(state), e, i) => \E o \in Owners : Endpoint[o] = e /\ <<o, i>> \in kept

\* What will not go: a retired session's files, a held session, a run that is
\* not closed, what no request can carry and the close over it.
Stays(i) ==
    \/ i \in Unsendable
    \/ i.kind # "request" /\ i.session \in retired
    \/ state.owners[i.session] \notin {NoOwner, config}
    \/ i.kind = "stage" /\ ~Closed(i.session)
    \/ i.kind = "close" /\ Stages(i.session) \cap Unsendable # {}

\* Again and again everything else that was written is recorded as sent,
\* whatever failed beside it: no file starves behind another (Pass, flush,
\* pushSpool).
EverySent == []<>(\A i \in root : i \in state.files \/ Stays(i))

\* push.go:592 and docs/en/formats/otlp.md:161: "a receiver never holds a
\* run's close without what it closes".
CloseIsWhole ==
    ~older =>
        \A p \in kept : p[2].kind = "close" => {p[1]} \X Stages(p[2].session) \subseteq kept
=============================================================================
