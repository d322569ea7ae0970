----------------------------- MODULE PullFetch -----------------------------
(***************************************************************************)
(* How a pull fetches the files its copy lacks: clients that ask a server  *)
(* for one archive of one snapshot, wait for it, restart it by number when *)
(* its build fails, and download it in ranges (internal/pull/client,       *)
(* fetch.go), and the server's archive jobs (internal/pull/server,         *)
(* archive.go).  A snapshot may go away; its clients then ask for the one  *)
(* that followed.  Requests and answers are lost; a request its client has *)
(* given up may still be handled; the server stops, and power fails.       *)
(*                                                                         *)
(* Abstracted: the snapshot and its leases (module PullServer) are a       *)
(* counter, of which the last value is served; an archive's bytes are a    *)
(* digest the builder chooses; a refreshed manifest, of the same files or  *)
(* not, is the next snapshot; a list of names is part of the acceptance    *)
(* that follows its installation.  Places for builders do not run out.     *)
(***************************************************************************)
EXTENDS Naturals, FiniteSets

CONSTANTS
    Clients, None,
    Failures,       \* failures (remote.go:49)
    RefreshLimit,   \* refreshLimit (remote.go:52)
    RecoveryLimit,  \* recoveryLimit (freeze.go:40)
    Pieces,         \* ranges of an archive
    Digests,        \* what builds of one archive may give
    MaxSnapshots,   \* bound: snapshots that follow one another
    MaxStops,       \* bound: stops of the server
    MaxFaults       \* bound: builds and writes of the server that fail

ASSUME FetchBounds ==
    /\ {Failures, RefreshLimit, RecoveryLimit, Pieces, MaxSnapshots} \subseteq Nat \ {0}
    /\ {MaxStops, MaxFaults} \subseteq Nat /\ Digests \subseteq Nat \ {0}

JobStates == {"building", "ready", "failed"}
Jobs == [attempt : Nat, started : BOOLEAN, state : JobStates, digest : Nat]

ASSUME FetchNames == None \notin Clients \cup Jobs /\ "builder" \notin Clients \cup {None}

Snapshots == 1 .. MaxSnapshots
Attempts == 1 .. 2 * (MaxStops + MaxFaults) + 2

VARIABLES
    served,     \* the snapshot that is served
    job,        \* each snapshot's archive job, seen and on the disk
    kept,       \* the failures kept for restarts
    output,     \* the installed archive
    owner,      \* who holds the job's owner lock
    builder,
    client,
    refused,    \* restarts refused though no write failed
    faults, stops,
    undone      \* snapshots of which a loss of power took back an attempt: history

server == <<served, job, kept, output, owner, builder, refused, faults, stops, undone>>
vars == <<server, client>>

----------------------------------------------------------------------------
Rec(v) == [seen |-> v, disk |-> v]
Idle == [pc |-> "idle", attempt |-> 0, digest |-> 0]

(* A write that fails (k = 1) is perhaps seen, and not on the disk.        *)
Write(k, shown, old, v) ==
    IF k = 0 THEN Rec(v) ELSE IF shown THEN [old EXCEPT !.seen = v] ELSE old

Fails(k) == IF k = 0 THEN UNCHANGED faults
            ELSE faults < MaxFaults /\ faults' = faults + 1

Job(g) == job[g].seen
Building(n) == [attempt |-> n, started |-> FALSE, state |-> "building", digest |-> 0]

----------------------------------------------------------------------------
(* The client                                                              *)

At(c, pc) == client[c].pc = pc
Asking(c) == client[c].pc \in {"post", "state", "range"}

(* A failure is charged to the acquisition; the last one ends it.          *)
Charged(r, pc) ==
    IF r.left = 1 THEN [r EXCEPT !.left = 0, !.pc = "failed"]
    ELSE [r EXCEPT !.left = @ - 1, !.pc = pc]

Lost(r, pc) == [Charged(r, pc) EXCEPT !.lost = @ + 1]

\* Mutant: a failure seen again is charged again.
FailureAlways(r, n, pc) ==
    [Charged(r, pc) EXCEPT !.restart = n, !.met = @ \cup {<<r.snap, n>>}]

(* A failed attempt is charged once; its successor is asked for by number. *)
Failure(r, n, pc) ==
    IF n = r.restart THEN [r EXCEPT !.pc = pc]
    ELSE [Charged(r, pc) EXCEPT !.restart = n, !.met = @ \cup {<<r.snap, n>>}]

\* Mutant: a changed archive's bytes go on from where the old ones stopped.
DescribedKeeping(r, d) == [r EXCEPT !.pc = "range", !.st = d]

(* A ready archive's descriptor: one that changed starts again from byte 0. *)
Described(r, d) ==
    IF r.st = d THEN [r EXCEPT !.pc = "range"]
    ELSE [r EXCEPT !.pc = "range", !.st = d, !.have = 0, !.bytes = {}]

(* What the client does with a job's state.                                *)
Told(r, j) ==
    CASE j.state = "ready" -> Described(r, j.digest)
      [] j.state = "building" -> [r EXCEPT !.pc = "state"]
      [] OTHER -> Failure(r, j.attempt, "post")

(* 410: a fresh manifest is asked for, RefreshLimit times.                 *)
Stale(r) == IF r.refreshes = RefreshLimit THEN [r EXCEPT !.pc = "failed"]
            ELSE [r EXCEPT !.pc = "manifest", !.refreshes = @ + 1]
Gone(c) ==
    /\ Asking(c) /\ client[c].snap # served /\ client[c].have < Pieces
    /\ client' = [client EXCEPT ![c] = Stale(client[c])]
    /\ UNCHANGED server

(* The fresh manifest's snapshot: what came of the old one is dropped.     *)
Refresh(c) ==
    /\ At(c, "manifest")
    /\ client' = [client EXCEPT ![c] = [@ EXCEPT !.pc = "post", !.snap = served,
                                        !.restart = 0, !.st = 0, !.have = 0, !.bytes = {}]]
    /\ UNCHANGED server

(* A request or its answer is lost, or the answer is one to try again.     *)
Lose(c) ==
    /\ (Asking(c) /\ client[c].have < Pieces) \/ At(c, "manifest")
    /\ client' = [client EXCEPT ![c] = Lost(@, @.pc)]
    /\ UNCHANGED server

Poll(c) ==
    LET g == client[c].snap
    IN  /\ At(c, "state") /\ g = served
        /\ client' = [client EXCEPT ![c] = IF Job(g) = None THEN [@ EXCEPT !.pc = "failed"] ELSE Told(@, Job(g))]
        /\ UNCHANGED server

Received(r, piece) == [r EXCEPT !.have = @ + 1, !.bytes = @ \cup {piece}]

(* One range.  A ready archive of another digest is 412, charged; one      *)
(* being built again, or failed, sends the client back to its state.       *)
RangeOf(c) ==
    LET g == client[c].snap
        r == client[c]
        j == Job(g)
    IN  /\ At(c, "range") /\ g = served /\ r.have < Pieces
        /\ client' = [client EXCEPT ![c] =
              CASE j = None -> [r EXCEPT !.pc = "failed"]
                [] j # None /\ j.state = "building" -> [r EXCEPT !.pc = "state"]
                [] j # None /\ j.state = "failed" -> Failure(r, j.attempt, "state")
                [] j # None /\ j.state = "ready" /\ j.digest # r.st -> Lost(r, "state")
                [] OTHER -> Received(r, output[g].seen)]
        /\ UNCHANGED server

(* The whole archive: its digest is checked, and its files extracted.      *)
Extract(c) ==
    /\ At(c, "range") /\ client[c].have = Pieces
    /\ client' = [client EXCEPT ![c].pc = IF client[c].bytes = {client[c].st} THEN "done" ELSE "failed"]
    /\ UNCHANGED server

----------------------------------------------------------------------------
(* The server's archive requests                                           *)

(* A client asks for an archive no job is saved for: under the lock it     *)
(* takes the owner's lock, which whoever else asks finds taken (503), and  *)
(* outside it installs the list of names.  A restart of no job is 400.     *)
Accept(c) ==
    LET g == client[c].snap
    IN  /\ At(c, "post") /\ g = served /\ Job(g) = None
        /\ \/ /\ client[c].restart # 0
              /\ client' = [client EXCEPT ![c].pc = "failed"] /\ UNCHANGED owner
           \/ /\ client[c].restart = 0 /\ owner[g] = None
              /\ owner' = [owner EXCEPT ![g] = c]
              /\ client' = [client EXCEPT ![c].pc = "installing"]
        /\ UNCHANGED <<served, job, kept, output, builder, refused, faults, stops, undone>>

(* With the snapshot still served, and still no job, the job is saved at   *)
(* attempt 1, not started.                                                 *)
SaveJob(c) ==
    LET g == client[c].snap
    IN  /\ At(c, "installing")
        /\ owner' = [owner EXCEPT ![g] = None]
        /\ \/ /\ g # served
              /\ client' = [client EXCEPT ![c].pc = "post"] /\ UNCHANGED <<job, faults>>
           \/ /\ g = served
              /\ \E k \in {0, 1}, shown \in BOOLEAN :
                  /\ Fails(k)
                  /\ job' = [job EXCEPT ![g] = Write(k, shown, @, Building(1))]
                  /\ client' = [client EXCEPT ![c].pc = IF k = 0 THEN "state" ELSE "failed"]
        /\ UNCHANGED <<served, kept, output, builder, refused, stops, undone>>

(* A POST of a job there is, with no restart, answers its state.           *)
Join(c) ==
    LET g == client[c].snap
    IN  /\ At(c, "post") /\ g = served /\ Job(g) # None /\ client[c].restart = 0
        /\ client' = [client EXCEPT ![c] = Told(@, Job(g))]
        /\ UNCHANGED server

(* The failure is kept before its successor is saved: made anew, durably,  *)
(* or, when it is there, written again.  A failed making may leave part of *)
(* the record.                                                             *)
KeepFailure(g, n, k, shown) ==
    \/ /\ k # 1 /\ kept' = [kept EXCEPT ![g][n] = Rec("whole")]
    \/ /\ k = 1 /\ kept[g][n].seen = "none"
       /\ \E left \in IF shown THEN {[seen |-> "torn", disk |-> "none"], [seen |-> "torn", disk |-> "torn"],
                                     [seen |-> "whole", disk |-> "none"], [seen |-> "whole", disk |-> "torn"]}
                      ELSE {kept[g][n]} :
              kept' = [kept EXCEPT ![g][n] = left]
    \/ k = 1 /\ kept[g][n].seen = "whole" /\ kept' = kept

(* A restart numbered n: a failure at n is kept and its successor saved; a *)
(* job past n whose failure n was kept is answered as it is; anything else *)
(* is refused.                                                             *)
RestartFails(g, n) ==
    \/ Job(g).attempt = n /\ (Job(g).state # "failed" \/ kept[g][n].seen = "torn")
    \/ Job(g).attempt > n /\ kept[g][n].seen # "whole"
    \/ Job(g).attempt < n

Applies(g, n) == Job(g).attempt = n /\ Job(g).state = "failed"

(* The effects of a restart that is not refused; k is the write that fails. *)
Restarted(g, n, k, shown) ==
    IF Applies(g, n)
    THEN /\ Fails(k) /\ KeepFailure(g, n, k, shown)
         /\ job' = IF k = 1 THEN job ELSE [job EXCEPT ![g] = Write(IF k = 2 THEN 1 ELSE 0, shown, @, Building(n + 1))]
    ELSE k = 0 /\ UNCHANGED <<kept, job, faults>>

Restart(c) ==
    LET g == client[c].snap
        n == client[c].restart
    IN  /\ At(c, "post") /\ g = served /\ Job(g) # None /\ n # 0
        /\ \/ /\ RestartFails(g, n)
              /\ refused' = refused \cup {<<g, n>>}
              /\ client' = [client EXCEPT ![c].pc = "failed"]
              /\ UNCHANGED <<job, kept, faults>>
           \/ /\ ~RestartFails(g, n) /\ refused' = refused
              /\ \E k \in 0 .. 2, shown \in BOOLEAN :
                  /\ Restarted(g, n, k, shown)
                  /\ client' = [client EXCEPT ![c] = IF k = 0 THEN Told(@, job'[g].seen)
                                                     ELSE [@ EXCEPT !.pc = "failed"]]
        /\ UNCHANGED <<served, output, owner, builder, stops, undone>>

(* A POST its client gave up, or forgot, is handled all the same: of any   *)
(* snapshot, and restarting any attempt that a client saw failed.          *)
LatePost(g, n) ==
    /\ g = served
    /\ \/ /\ Job(g) = None /\ n = 0 /\ owner[g] = None
          /\ \E k \in {0, 1}, shown \in BOOLEAN :
              Fails(k) /\ job' = [job EXCEPT ![g] = Write(k, shown, @, Building(1))]
          /\ UNCHANGED kept
       \/ /\ Job(g) # None /\ n # 0 /\ ~RestartFails(g, n)
          /\ \E k \in 0 .. 2, shown \in BOOLEAN : Restarted(g, n, k, shown)
    /\ UNCHANGED <<served, output, owner, builder, refused, stops, undone, client>>

----------------------------------------------------------------------------
(* The server's builders                                                   *)

\* Mutant: a job a builder started, and left, is never taken up again.
ClaimableOnce(j) == j # None /\ j.state = "building" /\ ~j.started

Claimable(j) == j # None /\ j.state = "building"

(* A claim, by a request or the scheduler: a job not started is marked     *)
(* started; a started one with no owner was abandoned, and takes its next  *)
(* attempt, or fails at the recovery limit.                                *)
ClaimArchive(g) ==
    LET j == Job(g)
        next == IF ~j.started THEN [j EXCEPT !.started = TRUE]
                ELSE IF j.attempt + 1 >= RecoveryLimit
                     THEN [j EXCEPT !.attempt = @ + 1, !.started = FALSE, !.state = "failed"]
                ELSE [j EXCEPT !.attempt = @ + 1]
    IN  /\ g = served /\ owner[g] = None /\ Claimable(j)
        /\ \E k \in {0, 1}, shown \in BOOLEAN :
            /\ Fails(k)
            /\ job' = [job EXCEPT ![g] = Write(k, shown, @, next)]
            /\ IF k = 0 /\ next.state = "building"
               THEN /\ owner' = [owner EXCEPT ![g] = "builder"]
                    /\ builder' = [builder EXCEPT ![g] = [pc |-> "discard", attempt |-> next.attempt, digest |-> 0]]
               ELSE UNCHANGED <<owner, builder>>
        /\ UNCHANGED <<served, kept, output, refused, stops, undone, client>>

NoOutput(g) == [output[g] EXCEPT !.seen = 0]

(* What an earlier attempt left is removed.                                *)
DiscardOutput(g) ==
    /\ builder[g].pc = "discard"
    /\ builder' = [builder EXCEPT ![g].pc = "build"]
    /\ output' = [output EXCEPT ![g] = NoOutput(g)]
    /\ UNCHANGED <<served, job, kept, owner, refused, faults, stops, undone, client>>

(* The archive is written aside, checked as a client will, and installed,  *)
(* over nothing.                                                           *)
BuildArchive(g) ==
    /\ builder[g].pc = "build"
    /\ \E d \in Digests, k \in {0, 1}, shown \in BOOLEAN :
        /\ Fails(k)
        /\ output' = IF output[g].seen # 0 THEN output ELSE [output EXCEPT ![g] = Write(k, shown, @, d)]
        /\ builder' = [builder EXCEPT ![g].pc = IF k = 0 THEN "ready" ELSE "failed", ![g].digest = IF k = 0 THEN d ELSE 0]
    /\ UNCHANGED <<served, job, kept, owner, refused, stops, undone, client>>

(* The result is saved while the job is still the attempt built; one that  *)
(* cannot be saved is left for the next claim.                             *)
FinishArchive(g) ==
    LET b == builder[g]
        j == Job(g)
    IN  /\ b.pc \in {"ready", "failed"}
        /\ IF j.state = "building" /\ j.attempt = b.attempt
           THEN \E k \in {0, 1}, shown \in BOOLEAN :
                   /\ Fails(k)
                   /\ job' = [job EXCEPT ![g] = Write(k, shown, @, [j EXCEPT !.state = b.pc, !.digest = b.digest])]
           ELSE UNCHANGED <<job, faults>>
        /\ builder' = [builder EXCEPT ![g] = Idle]
        /\ owner' = [owner EXCEPT ![g] = None]
        /\ UNCHANGED <<served, kept, output, refused, stops, undone, client>>

----------------------------------------------------------------------------
(* The world                                                               *)

(* The snapshot expires or is removed; its conversation is frozen again.   *)
SnapshotGoes ==
    /\ served < MaxSnapshots /\ served' = served + 1
    /\ UNCHANGED <<job, kept, output, owner, builder, refused, faults, stops, undone, client>>

(* A job's writes that failed may be seen, and its number go back with them. *)
TakenBack(g) == Job(g) # None /\ (job[g].disk = None \/ job[g].disk.attempt < Job(g).attempt)

(* The server stops and starts again, with or without a loss of power.     *)
Stop(power) ==
    /\ stops < MaxStops /\ stops' = stops + 1
    /\ owner' = [g \in Snapshots |-> None] /\ builder' = [g \in Snapshots |-> Idle]
    /\ client' = [c \in Clients |-> IF At(c, "installing") THEN Lost(client[c], "post") ELSE client[c]]
    /\ IF power
       THEN /\ job' = [g \in Snapshots |-> Rec(job[g].disk)]
            /\ kept' = [g \in Snapshots |-> [n \in Attempts |-> Rec(kept[g][n].disk)]]
            /\ output' = [g \in Snapshots |-> Rec(output[g].disk)]
            /\ undone' = undone \cup {g \in Snapshots : TakenBack(g)}
       ELSE UNCHANGED <<job, kept, output, undone>>
    /\ UNCHANGED <<served, refused, faults>>

Init ==
    /\ served = 1
    /\ job = [g \in Snapshots |-> Rec(None)]
    /\ kept = [g \in Snapshots |-> [n \in Attempts |-> Rec("none")]]
    /\ output = [g \in Snapshots |-> Rec(0)]
    /\ owner = [g \in Snapshots |-> None] /\ builder = [g \in Snapshots |-> Idle]
    /\ client = [c \in Clients |-> [pc |-> "post", snap |-> 1, restart |-> 0, left |-> Failures, refreshes |-> 0,
                                     have |-> 0, st |-> 0, bytes |-> {}, lost |-> 0, met |-> {}]]
    /\ refused = {} /\ faults = 0 /\ stops = 0 /\ undone = {}

ClientNext(c) ==
    \/ Gone(c) \/ Refresh(c) \/ Poll(c) \/ RangeOf(c) \/ Extract(c)
    \/ Accept(c) \/ SaveJob(c) \/ Join(c) \/ Restart(c)

BuilderNext(g) == ClaimArchive(g) \/ DiscardOutput(g) \/ BuildArchive(g) \/ FinishArchive(g)

Next ==
    \/ \E c \in Clients : ClientNext(c) \/ Lose(c)
    \/ \E g \in Snapshots : BuilderNext(g) \/ \E n \in {0} \cup Attempts : LatePost(g, n)
    \/ SnapshotGoes \/ \E power \in BOOLEAN : Stop(power)

Spec == Init /\ [][Next]_vars

(* A client's next request is sent, and the server claims and builds what  *)
(* it accepted (schedule and its sweep ticks, routes.go:713-774).          *)
FairSpec ==
    /\ Spec
    /\ \A c \in Clients : WF_vars(ClientNext(c))
    /\ \A g \in Snapshots : WF_vars(BuilderNext(g))

----------------------------------------------------------------------------
(* What a client has of an archive is a prefix of the one its descriptor   *)
(* names, though the archive was built again while it arrived              *)
(* (fetch.go:305-379).                                                     *)
OneArchive == \A c \in Clients : client[c].have > 0 => client[c].bytes = {client[c].st}

(* The budget is spent on lost requests and on distinct failed attempts:   *)
(* a failure that is seen again, in whatever answer, costs nothing. A      *)
(* client knows the last one it saw: of a snapshot whose attempts a loss   *)
(* of power took back it may see one twice (fetch.go:260-272, 524-536).    *)
ChargedOnce ==
    \A c \in Clients : (\A m \in client[c].met : m[1] \notin undone)
        => client[c].left + client[c].lost + Cardinality(client[c].met) = Failures

(* "When the current attempt N failed, keeps that failure, starts attempt  *)
(* N + 1 and answers 202 ... the same restart can be sent again"           *)
(* (docs/en/formats/asz-pull.md:363-366): no restart a client was told to  *)
(* ask for is refused, unless a write failed while it was handled.         *)
RestartIsTaken == refused = {}

(* A fetch ends: the polls and restarts of one acquisition do not go on    *)
(* for ever (fetch.go:82-130).                                             *)
FetchEnds == <>(\A c \in Clients : client[c].pc \in {"done", "failed"})

=============================================================================
