-------------------------- MODULE PullFetchProofs ---------------------------
(* Theorems of PullFetch: that a client has bytes of one archive, and is    *)
(* charged for a failure once, for any clients, builds, failed writes,      *)
(* stops and losses of power.                                               *)
EXTENDS PullFetch, Integers, FiniteSetTheorems, TLAPS

PCs == {"post", "installing", "state", "range", "manifest", "done", "failed"}
Acquisitions ==
    [pc : PCs, snap : Snapshots, restart : Nat, left : Int, refreshes : Nat, have : Nat, st : Nat,
     bytes : SUBSET Nat, lost : Nat, met : SUBSET (Snapshots \X Nat)]
Builders == [pc : {"idle", "discard", "build", "ready", "failed"}, attempt : Nat, digest : Nat]
MaybeJobs == Jobs \cup {None}

\* The kinds of values the argument is about.
Shape ==
    /\ served \in Snapshots
    /\ job \in [Snapshots -> [seen : MaybeJobs, disk : MaybeJobs]]
    /\ output \in [Snapshots -> [seen : Nat, disk : Nat]]
    /\ owner \in [Snapshots -> Clients \cup {None, "builder"}]
    /\ builder \in [Snapshots -> Builders]
    /\ client \in [Clients -> Acquisitions]
    /\ undone \subseteq Snapshots

Ready(j) == j # None /\ j.state = "ready"

\* What a snapshot's job, its archive on disk and its builder have to do with
\* each other. A job that is ready, on the disk or in memory, stays as it is.
Finished(g) ==
    /\ Ready(job[g].disk) => job[g].seen = job[g].disk
    /\ Ready(Job(g)) => output[g] = Rec(Job(g).digest)
AtWork(g) ==
    builder[g].pc # "idle" =>
        /\ owner[g] = "builder" /\ Job(g) # None
        /\ Job(g).state = "building" /\ Job(g).attempt = builder[g].attempt
Built(g) ==
    /\ builder[g].pc = "build" => output[g].seen = 0
    /\ builder[g].pc = "ready" => output[g] = Rec(builder[g].digest)
Server == \A g \in Snapshots : Finished(g) /\ AtWork(g) /\ Built(g)

\* A client that installs a list of names has the job's owner lock.
Installs == \A c \in Clients :
    At(c, "installing") => owner[client[c].snap] = c /\ Job(client[c].snap) = None

\* An acquisition, of a snapshot whose job is j, when s is served and the
\* snapshots in u had attempts taken back: what it has of the archive, the last
\* failure it saw, which no failure it met is past, and what it was charged.
Prefix(r) == r.bytes = IF r.have = 0 THEN {} ELSE {r.st}
Reached(r, j, u) == r.restart # 0 => r.snap \in u \/ (j # None /\ r.restart <= j.attempt)
Latest(r, s, u) ==
    /\ r.snap <= s /\ (r.pc = "manifest" => r.snap < s)
    /\ \A m \in r.met : m[1] <= r.snap /\ (m[1] = r.snap => m[2] <= r.restart \/ m[1] \in u)
Paid(r, u) ==
    /\ IsFiniteSet(r.met)
    /\ (\A m \in r.met : m[1] \notin u) => r.left + r.lost + Cardinality(r.met) = Failures
Fine(r, j, s, u) ==
    r \in Acquisitions /\ Prefix(r) /\ Reached(r, j, u) /\ Latest(r, s, u) /\ Paid(r, u)

Acquired == \A c \in Clients : Fine(client[c], Job(client[c].snap), served, undone)

IInv == Shape /\ Server /\ Installs /\ Acquired

-----------------------------------------------------------------------------
(* What a client does with an answer.                                        *)

LEMMA PcFields ==
    ASSUME NEW r \in Acquisitions, NEW pc \in PCs
    PROVE  LET n == [r EXCEPT !.pc = pc]
           IN  /\ n \in Acquisitions /\ n.pc = pc /\ n.snap = r.snap /\ n.restart = r.restart
               /\ n.left = r.left /\ n.have = r.have /\ n.st = r.st /\ n.bytes = r.bytes
               /\ n.lost = r.lost /\ n.met = r.met
    BY DEF Acquisitions

LEMMA PcFine ==
    ASSUME NEW r, NEW j, NEW s, NEW u, Fine(r, j, s, u), NEW pc \in PCs \ {"manifest"}
    PROVE  Fine([r EXCEPT !.pc = pc], j, s, u) /\ [r EXCEPT !.pc = pc].snap = r.snap
    BY PcFields DEF Fine, Prefix, Reached, Latest, Paid

LEMMA ChargedFields ==
    ASSUME NEW r \in Acquisitions, NEW pc \in PCs
    PROVE  LET n == Charged(r, pc)
           IN  /\ n \in Acquisitions /\ n.pc \in {pc, "failed"} /\ n.snap = r.snap /\ n.restart = r.restart
               /\ n.left = r.left - 1 /\ n.have = r.have /\ n.st = r.st /\ n.bytes = r.bytes
               /\ n.lost = r.lost /\ n.met = r.met
    <1>1. r.left \in Int /\ 0 \in Int /\ "failed" \in PCs /\ r.left - 1 \in Int
        BY DEF Acquisitions, PCs
    <1>2. CASE r.left = 1
        <2> DEFINE n == [r EXCEPT !.left = 0, !.pc = "failed"]
        <2>1. Charged(r, pc) = n /\ r.left - 1 = 0
            BY <1>2 DEF Charged
        <2>2. /\ n \in Acquisitions /\ n.pc = "failed" /\ n.snap = r.snap /\ n.restart = r.restart
              /\ n.left = 0 /\ n.have = r.have /\ n.st = r.st /\ n.bytes = r.bytes
              /\ n.lost = r.lost /\ n.met = r.met
            BY <1>1 DEF Acquisitions
        <2> HIDE DEF n
        <2>3. QED
            BY <2>1, <2>2
    <1>3. CASE r.left # 1
        <2> DEFINE n == [r EXCEPT !.left = r.left - 1, !.pc = pc]
        <2>1. Charged(r, pc) = n
            BY <1>3 DEF Charged
        <2>2. /\ n \in Acquisitions /\ n.pc = pc /\ n.snap = r.snap /\ n.restart = r.restart
              /\ n.left = r.left - 1 /\ n.have = r.have /\ n.st = r.st /\ n.bytes = r.bytes
              /\ n.lost = r.lost /\ n.met = r.met
            BY <1>1 DEF Acquisitions
        <2> HIDE DEF n
        <2>3. QED
            BY <2>1, <2>2
    <1>4. QED
        BY <1>2, <1>3

LEMMA LostFields ==
    ASSUME NEW r \in Acquisitions, NEW lost \in Nat
    PROVE  LET n == [r EXCEPT !.lost = lost]
           IN  /\ n \in Acquisitions /\ n.pc = r.pc /\ n.snap = r.snap /\ n.restart = r.restart
               /\ n.left = r.left /\ n.have = r.have /\ n.st = r.st /\ n.bytes = r.bytes
               /\ n.lost = lost /\ n.met = r.met
    BY DEF Acquisitions

\* A request that is lost, or an answer to try again, is paid for.
LEMMA LostFine ==
    ASSUME NEW r, NEW j, NEW s, NEW u, Fine(r, j, s, u), NEW pc \in PCs,
           pc = "manifest" => r.pc = "manifest"
    PROVE  LET n == Lost(r, pc)
           IN  Fine(n, j, s, u) /\ n.snap = r.snap /\ n.pc \in {pc, "failed"}
    <1> DEFINE p == Charged(r, pc)
               n == [p EXCEPT !.lost = @ + 1]
    <1>1. r \in Acquisitions /\ r.lost \in Nat /\ r.left \in Int
        BY DEF Fine, Acquisitions
    <1>2. /\ p \in Acquisitions /\ p.pc \in {pc, "failed"} /\ p.snap = r.snap /\ p.restart = r.restart
          /\ p.left = r.left - 1 /\ p.have = r.have /\ p.st = r.st /\ p.bytes = r.bytes
          /\ p.lost = r.lost /\ p.met = r.met
        BY <1>1, ChargedFields
    <1> HIDE DEF p
    <1>3. /\ n \in Acquisitions /\ n.pc = p.pc /\ n.snap = r.snap /\ n.restart = r.restart
          /\ n.left = r.left - 1 /\ n.have = r.have /\ n.st = r.st /\ n.bytes = r.bytes
          /\ n.lost = r.lost + 1 /\ n.met = r.met
        BY <1>1, <1>2, LostFields
    <1> HIDE DEF n
    <1>4. Prefix(n) /\ Reached(n, j, u) /\ Latest(n, s, u)
        BY <1>2, <1>3 DEF Fine, Prefix, Reached, Latest
    <1>5. Paid(n, u)
        <2>1. IsFiniteSet(n.met) /\ Cardinality(n.met) \in Nat
            BY <1>3, FS_CardinalityType DEF Fine, Paid
        <2>2. QED
            BY <1>1, <1>3, <2>1 DEF Fine, Paid
    <1>6. Fine(n, j, s, u)
        BY <1>3, <1>4, <1>5 DEF Fine
    <1>7. QED
        BY <1>2, <1>3, <1>6 DEF p, n, Lost

\* A failure of the job's last attempt is charged unless it was the last one
\* seen, and if it is, then it is new.
LEMMA FailureFine ==
    ASSUME NEW r, NEW j \in Jobs, NEW s, NEW u, Fine(r, j, s, u), j # None, NEW pc \in PCs \ {"manifest"}
    PROVE  LET f == Failure(r, j.attempt, pc)
           IN  Fine(f, j, s, u) /\ f.snap = r.snap /\ f.pc \in {pc, "failed"}
    <1> DEFINE n == j.attempt
    <1>1. /\ r \in Acquisitions /\ r.restart \in Nat /\ r.left \in Int /\ r.lost \in Nat
          /\ r.snap \in Snapshots /\ r.met \in SUBSET (Snapshots \X Nat) /\ n \in Nat
        BY DEF Fine, Acquisitions, Jobs
    <1> HIDE DEF n
    <1>2. CASE n = r.restart
        <2>1. Failure(r, n, pc) = [r EXCEPT !.pc = pc]
            BY <1>2 DEF Failure
        <2>2. QED
            BY <1>1, <2>1, PcFine, PcFields DEF n
    <1>3. CASE n # r.restart
        <2> DEFINE p == Charged(r, pc)
                   met == r.met \cup {<<r.snap, n>>}
                   f == [p EXCEPT !.restart = n, !.met = met]
        <2>1. /\ p \in Acquisitions /\ p.pc \in {pc, "failed"} /\ p.snap = r.snap
              /\ p.left = r.left - 1 /\ p.have = r.have /\ p.st = r.st /\ p.bytes = r.bytes
              /\ p.lost = r.lost /\ p.met = r.met
            BY <1>1, ChargedFields
        <2>2. Failure(r, n, pc) = [p EXCEPT !.restart = n, !.met = @ \cup {<<r.snap, n>>}]
            BY <1>3 DEF Failure
        <2> HIDE DEF p
        <2>3. Failure(r, n, pc) = f
            BY <2>1, <2>2
        <2>4. met \in SUBSET (Snapshots \X Nat)
            BY <1>1
        <2> HIDE DEF met
        <2>5. /\ f \in Acquisitions /\ f.pc \in {pc, "failed"} /\ f.snap = r.snap /\ f.restart = n
              /\ f.left = r.left - 1 /\ f.have = r.have /\ f.st = r.st /\ f.bytes = r.bytes
              /\ f.lost = r.lost /\ f.met = met
            BY <1>1, <2>1, <2>4 DEF Acquisitions
        <2> HIDE DEF f
        <2>6. Prefix(f) /\ Reached(f, j, u)
            BY <1>1, <2>5 DEF Fine, Prefix, Reached, n
        <2>7. r.snap \in u \/ r.restart = 0 \/ r.restart < n
            BY <1>1, <1>3 DEF Fine, Reached, n
        <2>8. Latest(f, s, u)
            <3>1. \A m \in met : m[1] <= r.snap /\ (m[1] = r.snap => m[2] <= n \/ m[1] \in u)
                <4> TAKE m \in met
                <4>1. CASE m = <<r.snap, n>>
                    BY <1>1, <4>1 DEF Snapshots
                <4>2. CASE m \in r.met
                    <5>1. m[1] <= r.snap /\ (m[1] = r.snap => m[2] <= r.restart \/ m[1] \in u)
                        BY <4>2 DEF Fine, Latest
                    <5>2. m[2] \in Nat
                        BY <1>1, <4>2
                    <5>3. QED
                        BY <1>1, <2>7, <5>1, <5>2
                <4>3. QED
                    BY <4>1, <4>2 DEF met
            <3>2. QED
                BY <2>5, <3>1 DEF Fine, Latest
        <2>9. Paid(f, u)
            <3>1. IsFiniteSet(r.met) /\ Cardinality(r.met) \in Nat
                BY FS_CardinalityType DEF Fine, Paid
            <3>2. /\ IsFiniteSet(met)
                  /\ <<r.snap, n>> \notin r.met => Cardinality(met) = Cardinality(r.met) + 1
                BY <3>1, FS_AddElement DEF met
            <3>3. r.snap \notin u => <<r.snap, n>> \notin r.met
                <4> SUFFICES ASSUME r.snap \notin u, <<r.snap, n>> \in r.met PROVE FALSE
                    OBVIOUS
                <4>1. n <= r.restart
                    BY DEF Fine, Latest
                <4>2. QED
                    BY <1>1, <1>3, <2>7, <4>1
            <3>4. \A m \in r.met : m \in met
                BY DEF met
            <3>5. <<r.snap, n>> \in met
                BY DEF met
            <3>6. (\A m \in met : m[1] \notin u) => r.snap \notin u /\ \A m \in r.met : m[1] \notin u
                BY <3>4, <3>5
            <3>7. (\A m \in met : m[1] \notin u) => r.left - 1 + r.lost + Cardinality(met) = Failures
                BY <1>1, <3>1, <3>2, <3>3, <3>6 DEF Fine, Paid
            <3>8. QED
                BY <2>5, <3>2, <3>7 DEF Paid
        <2>10. Fine(f, j, s, u)
            BY <2>5, <2>6, <2>8, <2>9 DEF Fine
        <2>11. QED
            BY <2>3, <2>5, <2>10 DEF n
    <1>4. QED
        BY <1>2, <1>3

LEMMA DescribedFine ==
    ASSUME NEW r, NEW j, NEW s, NEW u, Fine(r, j, s, u), NEW d \in Nat
    PROVE  LET n == Described(r, d)
           IN  Fine(n, j, s, u) /\ n.snap = r.snap /\ n.pc = "range"
    <1>1. r \in Acquisitions /\ "range" \in PCs
        BY DEF Fine, PCs
    <1>2. CASE r.st = d
        <2>1. Described(r, d) = [r EXCEPT !.pc = "range"]
            BY <1>2 DEF Described
        <2>2. QED
            BY <1>1, <2>1, PcFine, PcFields
    <1>3. CASE r.st # d
        <2> DEFINE n == [r EXCEPT !.pc = "range", !.st = d, !.have = 0, !.bytes = {}]
        <2>1. Described(r, d) = n
            BY <1>3 DEF Described
        <2>2. /\ n \in Acquisitions /\ n.pc = "range" /\ n.snap = r.snap /\ n.restart = r.restart
              /\ n.left = r.left /\ n.have = 0 /\ n.bytes = {}
              /\ n.lost = r.lost /\ n.met = r.met
            BY <1>1 DEF Acquisitions
        <2> HIDE DEF n
        <2>3. Fine(n, j, s, u)
            BY <2>2 DEF Fine, Prefix, Reached, Latest, Paid
        <2>4. QED
            BY <2>1, <2>2, <2>3
    <1>4. QED
        BY <1>2, <1>3

LEMMA ToldFine ==
    ASSUME NEW r, NEW j \in Jobs, NEW s, NEW u, Fine(r, j, s, u), j # None
    PROVE  LET n == Told(r, j)
           IN  Fine(n, j, s, u) /\ n.snap = r.snap /\ n.pc \notin {"installing", "manifest"}
    <1>1. r \in Acquisitions /\ j.digest \in Nat
        BY DEF Fine, Jobs
    <1>2. CASE j.state = "ready"
        <2>1. Told(r, j) = Described(r, j.digest)
            BY <1>2 DEF Told
        <2>2. QED
            BY <1>1, <2>1, DescribedFine
    <1>3. CASE j.state = "building"
        <2>1. Told(r, j) = [r EXCEPT !.pc = "state"] /\ "state" \in PCs \ {"manifest"}
            BY <1>3 DEF Told, PCs
        <2>2. QED
            BY <1>1, <2>1, PcFine, PcFields
    <1>4. CASE j.state \notin {"ready", "building"}
        <2>1. Told(r, j) = Failure(r, j.attempt, "post") /\ "post" \in PCs \ {"manifest"}
            BY <1>4 DEF Told, PCs
        <2>2. QED
            BY <2>1, FailureFine
    <1>5. QED
        BY <1>2, <1>3, <1>4

-----------------------------------------------------------------------------
(* Initially.                                                                *)

LEMMA FetchInit == Init => IInv
    <1> SUFFICES ASSUME Init PROVE IInv
        OBVIOUS
    <1> USE DEF Init
    <1>1. 1 \in Snapshots /\ Failures \in Nat
        BY FetchBounds DEF Snapshots
    <1>2. Shape
        <2>1. \A c \in Clients : client[c] \in Acquisitions
            BY <1>1 DEF Acquisitions, PCs
        <2>2. Idle \in Builders
            BY DEF Idle, Builders
        <2>3. client \in [Clients -> Acquisitions]
            BY <2>1
        <2>4. QED
            BY <1>1, <2>2, <2>3 DEF Shape, Rec, MaybeJobs
    <1>3. Server
        BY DEF Server, Finished, AtWork, Built, Ready, Rec, Job, Idle
    <1>4. Installs
        BY DEF Installs, At
    <1>5. Acquired
        <2> SUFFICES ASSUME NEW c \in Clients
                     PROVE  Fine(client[c], Job(client[c].snap), served, undone)
            BY DEF Acquired
        <2>1. client[c] \in Acquisitions
            BY <1>2 DEF Shape
        <2>2. IsFiniteSet({}) /\ Cardinality({}) = 0
            BY FS_EmptySet
        <2>3. /\ client[c].snap = 1 /\ client[c].restart = 0 /\ client[c].pc = "post"
              /\ client[c].left = Failures /\ client[c].have = 0
              /\ client[c].bytes = {} /\ client[c].lost = 0 /\ client[c].met = {}
            OBVIOUS
        <2>4. Prefix(client[c]) /\ Reached(client[c], Job(client[c].snap), undone)
            BY <2>3 DEF Prefix, Reached
        <2>5. Latest(client[c], served, undone)
            BY <2>3 DEF Latest
        <2>6. Paid(client[c], undone)
            <3>1. IsFiniteSet(client[c].met) /\ Cardinality(client[c].met) = 0
                BY <2>2, <2>3
            <3>2. client[c].left + client[c].lost + Cardinality(client[c].met) = Failures + 0 + 0
                BY <2>3, <3>1, Zenon
            <3>3. QED
                BY <1>1, <3>1, <3>2 DEF Paid
        <2>7. QED
            BY <2>1, <2>4, <2>5, <2>6 DEF Fine
    <1>6. QED
        BY <1>2, <1>3, <1>4, <1>5 DEF IInv

-----------------------------------------------------------------------------
(* A client's steps that the server takes no part in.                        *)

\* One client moves on, and does not begin to install.
LEMMA ClientMoves ==
    ASSUME IInv, NEW c \in Clients, UNCHANGED <<served, job, output, owner, builder, undone>>, NEW r,
           client' = [client EXCEPT ![c] = r],
           Fine(r, Job(r.snap), served, undone), r.pc # "installing"
    PROVE  IInv'
    <1>1. r \in Acquisitions
        BY DEF Fine
    <1>2. Shape'
        BY <1>1 DEF IInv, Shape
    <1>3. Server'
        BY DEF IInv, Server, Finished, AtWork, Built, Ready, Job
    <1>4. client'[c] = r /\ \A d \in Clients : d # c => client'[d] = client[d]
        BY DEF IInv, Shape
    <1>5. Installs'
        BY <1>4 DEF IInv, Installs, At, Job
    <1>6. Acquired'
        <2> SUFFICES ASSUME NEW d \in Clients
                     PROVE  Fine(client'[d], job'[client'[d].snap].seen, served', undone')
            BY DEF Acquired, Job
        <2>1. CASE d = c
            BY <1>4, <2>1 DEF Job
        <2>2. CASE d # c
            BY <1>4, <2>2 DEF IInv, Acquired, Job
        <2>3. QED
            BY <2>1, <2>2
    <1>7. QED
        BY <1>2, <1>3, <1>5, <1>6 DEF IInv

LEMMA ClientStep ==
    ASSUME IInv, NEW c \in Clients, UNCHANGED server, NEW r,
           client' = [client EXCEPT ![c] = r],
           Fine(r, Job(r.snap), served, undone), r.pc # "installing"
    PROVE  IInv'
    BY ClientMoves DEF server

LEMMA GoneStep == ASSUME IInv, NEW c \in Clients, Gone(c) PROVE IInv'
    <1> DEFINE r == client[c]
    <1>1. Fine(r, Job(r.snap), served, undone) /\ r \in Acquisitions
        BY DEF IInv, Acquired, Fine
    <1>2. r.snap \in Nat /\ served \in Nat /\ r.snap <= served /\ r.snap # served
        BY <1>1 DEF Gone, IInv, Shape, Snapshots, Acquisitions, Fine, Latest
    <1>3. UNCHANGED server
        BY DEF Gone
    <1> HIDE DEF r
    <1>4. client' = [client EXCEPT ![c] = Stale(r)]
        BY DEF Gone, r
    <1>5. CASE r.refreshes = RefreshLimit
        <2> DEFINE n == [r EXCEPT !.pc = "failed"]
        <2>1. "failed" \in PCs \ {"manifest"}
            BY DEF PCs
        <2>2. Fine(n, Job(r.snap), served, undone) /\ n.snap = r.snap
            BY <1>1, <2>1, PcFine
        <2>3. n.pc # "installing"
            BY <1>1, <2>1, PcFields
        <2>4. client' = [client EXCEPT ![c] = n]
            BY <1>4, <1>5 DEF Stale
        <2> HIDE DEF n
        <2>5. QED
            BY <1>3, <2>2, <2>3, <2>4, ClientStep
    <1>6. CASE r.refreshes # RefreshLimit
        <2> DEFINE n == [r EXCEPT !.pc = "manifest", !.refreshes = @ + 1]
        <2>1. client' = [client EXCEPT ![c] = n]
            BY <1>4, <1>6 DEF Stale
        <2>2. r.refreshes + 1 \in Nat /\ "manifest" \in PCs
            BY <1>1 DEF Acquisitions, PCs
        <2>3. ASSUME NEW k \in Nat PROVE [r EXCEPT !.pc = "manifest", !.refreshes = k] \in Acquisitions
            BY <1>1, <2>2 DEF Acquisitions
        <2>4. n \in Acquisitions
            BY <2>2, <2>3
        <2>5. /\ n.pc = "manifest" /\ n.snap = r.snap /\ n.restart = r.restart
              /\ n.left = r.left /\ n.have = r.have /\ n.st = r.st /\ n.bytes = r.bytes
              /\ n.lost = r.lost /\ n.met = r.met
            BY <1>1 DEF Acquisitions
        <2> HIDE DEF n
        <2>6. Fine(n, Job(n.snap), served, undone)
            BY <1>1, <1>2, <2>4, <2>5 DEF Fine, Prefix, Reached, Latest, Paid
        <2>7. QED
            BY <1>3, <2>1, <2>5, <2>6, ClientStep
    <1>7. QED
        BY <1>5, <1>6

LEMMA RefreshStep == ASSUME IInv, NEW c \in Clients, Refresh(c) PROVE IInv'
    <1> DEFINE r == client[c]
               n == [r EXCEPT !.pc = "post", !.snap = served, !.restart = 0, !.st = 0, !.have = 0, !.bytes = {}]
    <1>1. Fine(r, Job(r.snap), served, undone) /\ r \in Acquisitions /\ r.pc = "manifest"
        BY DEF IInv, Acquired, Fine, Refresh, At
    <1>2. r.snap \in Nat /\ served \in Snapshots /\ served \in Nat
        BY <1>1 DEF IInv, Shape, Snapshots, Acquisitions
    <1>3. UNCHANGED server /\ client' = [client EXCEPT ![c] = n]
        BY DEF Refresh
    <1> HIDE DEF r
    <1>4. /\ n \in Acquisitions /\ n.pc = "post" /\ n.snap = served /\ n.restart = 0
          /\ n.left = r.left /\ n.have = 0 /\ n.bytes = {} /\ n.lost = r.lost /\ n.met = r.met
        BY <1>1, <1>2 DEF Acquisitions, PCs
    <1> HIDE DEF n
    <1>5. Latest(n, served, undone)
        <2>1. \A m \in n.met : m[1] <= r.snap /\ m[1] \in Nat
            BY <1>1, <1>4 DEF Fine, Latest, Acquisitions, Snapshots
        <2>2. r.snap < served
            BY <1>1 DEF Fine, Latest
        <2>3. QED
            BY <1>2, <1>4, <2>1, <2>2 DEF Latest
    <1>6. Fine(n, Job(n.snap), served, undone)
        BY <1>1, <1>4, <1>5 DEF Fine, Prefix, Reached, Paid
    <1>7. QED
        BY <1>3, <1>4, <1>6, ClientStep

LEMMA LoseStep == ASSUME IInv, NEW c \in Clients, Lose(c) PROVE IInv'
    <1> DEFINE r == client[c]
    <1>1. Fine(r, Job(r.snap), served, undone) /\ r \in Acquisitions /\ r.pc # "installing"
        BY DEF IInv, Acquired, Fine, Lose, At, Asking
    <1>2. UNCHANGED server /\ client' = [client EXCEPT ![c] = Lost(r, r.pc)]
        BY DEF Lose
    <1> HIDE DEF r
    <1>3. r.pc \in PCs
        BY <1>1 DEF Acquisitions
    <1>4. Fine(Lost(r, r.pc), Job(r.snap), served, undone) /\ Lost(r, r.pc).snap = r.snap
          /\ Lost(r, r.pc).pc # "installing"
        BY <1>1, <1>3, LostFine
    <1>5. QED
        BY <1>2, <1>4, ClientStep

\* A job that is saved is one of the jobs there are.
LEMMA JobKinds == ASSUME IInv, NEW g \in Snapshots PROVE Job(g) # None => Job(g) \in Jobs
    BY DEF IInv, Shape, Job, MaybeJobs

LEMMA PollStep == ASSUME IInv, NEW c \in Clients, Poll(c) PROVE IInv'
    <1> DEFINE r == client[c]
               j == Job(r.snap)
    <1>1. Fine(r, j, served, undone) /\ r \in Acquisitions /\ "failed" \in PCs \ {"manifest"}
        BY DEF IInv, Acquired, Fine, PCs
    <1>2. UNCHANGED server /\ client' = [client EXCEPT ![c] = IF j = None THEN [r EXCEPT !.pc = "failed"] ELSE Told(r, j)]
        BY DEF Poll
    <1>3. j # None => j \in Jobs
        BY <1>1, JobKinds DEF Acquisitions
    <1> HIDE DEF r
    <1>4. CASE j = None
        <2> DEFINE n == [r EXCEPT !.pc = "failed"]
        <2>1. Fine(n, j, served, undone) /\ n.snap = r.snap
            BY <1>1, PcFine
        <2>2. n.pc # "installing"
            BY <1>1, PcFields
        <2>3. client' = [client EXCEPT ![c] = n]
            BY <1>2, <1>4
        <2> HIDE DEF n
        <2>4. QED
            BY <1>2, <2>1, <2>2, <2>3, ClientStep
    <1>5. CASE j # None
        <2>1. Fine(Told(r, j), j, served, undone) /\ Told(r, j).snap = r.snap /\ Told(r, j).pc # "installing"
            BY <1>1, <1>3, <1>5, ToldFine
        <2>2. client' = [client EXCEPT ![c] = Told(r, j)]
            BY <1>2, <1>5
        <2>3. QED
            BY <1>2, <2>1, <2>2, ClientStep
    <1>6. QED
        BY <1>4, <1>5

LEMMA ReceivedFine ==
    ASSUME NEW r, NEW j, NEW s, NEW u, Fine(r, j, s, u)
    PROVE  LET n == Received(r, r.st)
           IN  Fine(n, j, s, u) /\ n.snap = r.snap /\ n.pc = r.pc
    <1> DEFINE n == [r EXCEPT !.have = @ + 1, !.bytes = @ \cup {r.st}]
    <1>1. r \in Acquisitions /\ r.have + 1 \in Nat /\ r.have + 1 # 0 /\ r.bytes \cup {r.st} \in SUBSET Nat
        BY DEF Fine, Acquisitions
    <1>2. ASSUME NEW k \in Nat, NEW b \in SUBSET Nat PROVE [r EXCEPT !.have = k, !.bytes = b] \in Acquisitions
        BY <1>1 DEF Acquisitions
    <1>3. n \in Acquisitions
        BY <1>1, <1>2
    <1>4. /\ n.pc = r.pc /\ n.snap = r.snap /\ n.restart = r.restart
          /\ n.left = r.left /\ n.have = r.have + 1 /\ n.st = r.st /\ n.bytes = r.bytes \cup {r.st}
          /\ n.lost = r.lost /\ n.met = r.met
        BY <1>1 DEF Acquisitions
    <1>5. Received(r, r.st) = n
        BY DEF Received
    <1> HIDE DEF n
    <1>6. Prefix(n)
        <2>1. n.bytes = {n.st}
            BY <1>4 DEF Fine, Prefix
        <2>2. n.have # 0
            BY <1>1, <1>4
        <2>3. QED
            BY <2>1, <2>2 DEF Prefix
    <1>7. Fine(n, j, s, u)
        BY <1>3, <1>4, <1>6 DEF Fine, Reached, Latest, Paid
    <1>8. QED
        BY <1>4, <1>5, <1>7

\* What is taken of a range is of the archive the client's descriptor names.
LEMMA RangeStep == ASSUME IInv, NEW c \in Clients, RangeOf(c) PROVE IInv'
    <1> DEFINE r == client[c]
               j == Job(r.snap)
    <1>1. /\ Fine(r, j, served, undone) /\ r \in Acquisitions /\ r.snap \in Snapshots
          /\ r.pc = "range" /\ r.pc \in PCs /\ "failed" \in PCs \ {"manifest"}
          /\ "state" \in PCs \ {"manifest"}
        BY DEF IInv, Acquired, Fine, PCs, RangeOf, At, Acquisitions
    <1>2. UNCHANGED server
        BY DEF RangeOf
    <1>3. \/ j = None /\ client' = [client EXCEPT ![c] = [r EXCEPT !.pc = "failed"]]
          \/ client' = [client EXCEPT ![c] = [r EXCEPT !.pc = "state"]]
          \/ j # None /\ client' = [client EXCEPT ![c] = Failure(r, j.attempt, "state")]
          \/ client' = [client EXCEPT ![c] = Lost(r, "state")]
          \/ /\ j # None /\ j.state \notin {"building", "failed"} /\ ~(j.state = "ready" /\ j.digest # r.st)
             /\ client' = [client EXCEPT ![c] = Received(r, output[r.snap].seen)]
        BY DEF RangeOf
    <1>4. j # None => j \in Jobs
        BY <1>1, JobKinds
    <1>5. j # None /\ j.state = "ready" => output[r.snap].seen = j.digest
        <2>1. ASSUME NEW g \in Snapshots, Job(g) # None, Job(g).state = "ready"
              PROVE  output[g].seen = Job(g).digest
            <3>1. Finished(g)
                BY DEF IInv, Server
            <3>2. output[g] = Rec(Job(g).digest)
                BY <2>1, <3>1 DEF Finished, Ready
            <3>3. QED
                BY <3>2 DEF Rec
        <2> HIDE DEF r
        <2>2. QED
            BY <1>1, <2>1
    <1> HIDE DEF r, j
    <1> DEFINE Goes(n) == n.snap = r.snap /\ n.pc # "installing" /\ Fine(n, j, served, undone)
    <1>6. \A pc \in PCs \ {"manifest", "installing"} : Goes([r EXCEPT !.pc = pc])
        BY <1>1, PcFine, PcFields
    <1>7. "failed" \in PCs \ {"manifest", "installing"} /\ "state" \in PCs \ {"manifest", "installing"}
        BY DEF PCs
    <1>8. j # None => Goes(Failure(r, j.attempt, "state"))
        BY <1>1, <1>4, FailureFine
    <1>9. Goes(Lost(r, "state"))
        BY <1>1, LostFine
    <1>10. Goes(Received(r, r.st))
        BY <1>1, ReceivedFine
    <1>11. j # None /\ j.state \notin {"building", "failed"} /\ ~(j.state = "ready" /\ j.digest # r.st)
               => output[r.snap].seen = r.st
        BY <1>4, <1>5 DEF Jobs, JobStates
    <1>12. PICK n : client' = [client EXCEPT ![c] = n] /\ Goes(n)
        <2> HIDE DEF Goes
        <2>1. QED
            BY <1>3, <1>6, <1>7, <1>8, <1>9, <1>10, <1>11
    <1>13. QED
        BY <1>2, <1>12, ClientStep DEF j

LEMMA ExtractStep == ASSUME IInv, NEW c \in Clients, Extract(c) PROVE IInv'
    <1> DEFINE r == client[c]
    <1>1. /\ Fine(r, Job(r.snap), served, undone) /\ r \in Acquisitions
          /\ UNCHANGED server
        BY DEF IInv, Acquired, Fine, Extract
    <1>2. PICK pc \in {"done", "failed"} : client' = [client EXCEPT ![c] = [r EXCEPT !.pc = pc]]
        BY DEF Extract
    <1> HIDE DEF r
    <1>3. pc \in PCs \ {"manifest"} /\ pc # "installing"
        BY DEF PCs
    <1> DEFINE n == [r EXCEPT !.pc = pc]
    <1>4. Fine(n, Job(r.snap), served, undone) /\ n.snap = r.snap /\ n.pc # "installing"
        BY <1>1, <1>3, PcFine, PcFields
    <1>5. client' = [client EXCEPT ![c] = n]
        BY <1>2
    <1> HIDE DEF n
    <1>6. QED
        BY <1>1, <1>4, <1>5, ClientStep

LEMMA JoinStep == ASSUME IInv, NEW c \in Clients, Join(c) PROVE IInv'
    <1> DEFINE r == client[c]
               j == Job(r.snap)
    <1>1. Fine(r, j, served, undone) /\ r \in Acquisitions /\ j # None
        BY DEF IInv, Acquired, Fine, Join
    <1>2. UNCHANGED server /\ client' = [client EXCEPT ![c] = Told(r, j)]
        BY DEF Join
    <1>3. j \in Jobs
        BY <1>1, JobKinds DEF Acquisitions
    <1> HIDE DEF r
    <1>4. Fine(Told(r, j), j, served, undone) /\ Told(r, j).snap = r.snap /\ Told(r, j).pc # "installing"
        BY <1>1, <1>3, ToldFine
    <1>5. QED
        BY <1>2, <1>4, ClientStep

-----------------------------------------------------------------------------
(* The server's writes.                                                      *)

LEMMA WriteFacts ==
    ASSUME NEW S, NEW old \in [seen : S, disk : S], NEW v \in S, NEW k, NEW shown
    PROVE  LET w == Write(k, shown, old, v)
           IN  /\ w \in [seen : S, disk : S]
               /\ w = Rec(v) \/ (w.disk = old.disk /\ w.seen \in {v, old.seen})
               /\ k = 0 => w = Rec(v)
    <1>1. Rec(v) \in [seen : S, disk : S]
        BY DEF Rec
    <1>2. /\ [old EXCEPT !.seen = v] \in [seen : S, disk : S]
          /\ [old EXCEPT !.seen = v].disk = old.disk /\ [old EXCEPT !.seen = v].seen = v
        OBVIOUS
    <1>3. CASE k = 0
        BY <1>1, <1>3 DEF Write
    <1>4. CASE k # 0 /\ shown
        <2>1. Write(k, shown, old, v) = [old EXCEPT !.seen = v]
            BY <1>4 DEF Write
        <2>2. QED
            BY <1>2, <1>4, <2>1
    <1>5. CASE k # 0 /\ ~shown
        BY <1>5 DEF Write
    <1>6. QED
        BY <1>3, <1>4, <1>5

LEMMA RecFields == ASSUME NEW v PROVE Rec(v).seen = v /\ Rec(v).disk = v
    BY DEF Rec

\* An acquisition loses nothing while the attempts of its snapshot only go up.
LEMMA FineKept ==
    ASSUME NEW r, NEW j, NEW s, NEW u, Fine(r, j, s, u), NEW j2, NEW s2 \in Nat, NEW u2,
           s \in Nat, s <= s2, u \subseteq u2,
           j # None => r.snap \in u2 \/ (j2 # None /\ j.attempt <= j2.attempt),
           j # None => j.attempt \in Nat, j2 # None => j2.attempt \in Nat
    PROVE  Fine(r, j2, s2, u2)
    <1>1. r \in Acquisitions /\ r.restart \in Nat /\ r.snap \in Nat
        BY DEF Fine, Acquisitions, Snapshots
    <1>2. Reached(r, j2, u2)
        BY <1>1 DEF Fine, Reached
    <1>3. Latest(r, s2, u2)
        BY <1>1 DEF Fine, Latest
    <1>4. Paid(r, u2)
        BY DEF Fine, Paid
    <1>5. QED
        BY <1>1, <1>2, <1>3, <1>4 DEF Fine

\* What a job that is not ready is saved as: its number does not go back, and
\* if it is ready then its archive is installed.
JobWrite(g, v) ==
    /\ v \in Jobs /\ ~Ready(Job(g))
    /\ Ready(v) => output[g] = Rec(v.digest)
    /\ Job(g) # None => Job(g).attempt <= v.attempt
    /\ \E k, shown : job' = [job EXCEPT ![g] = Write(k, shown, @, v)]

LEMMA JobWritten ==
    ASSUME IInv, NEW g \in Snapshots, NEW v, JobWrite(g, v), UNCHANGED <<served, output, undone>>
    PROVE  /\ job' \in [Snapshots -> [seen : MaybeJobs, disk : MaybeJobs]]
           /\ \A h \in Snapshots : h # g => job'[h] = job[h]
           /\ job'[g].seen \in {v, Job(g)}
           /\ \A h \in Snapshots : Finished(h)'
           /\ \A c \in Clients : Fine(client[c], job'[client[c].snap].seen, served', undone')
    <1>1. /\ job[g] \in [seen : MaybeJobs, disk : MaybeJobs] /\ v \in Jobs /\ v \in MaybeJobs
          /\ job \in [Snapshots -> [seen : MaybeJobs, disk : MaybeJobs]]
        BY DEF IInv, Shape, JobWrite, MaybeJobs
    <1>2. PICK k, shown : job' = [job EXCEPT ![g] = Write(k, shown, @, v)]
        BY DEF JobWrite
    <1> DEFINE w == Write(k, shown, job[g], v)
    <1>3. w \in [seen : MaybeJobs, disk : MaybeJobs] /\ (w = Rec(v) \/ (w.disk = job[g].disk /\ w.seen \in {v, job[g].seen}))
        BY <1>1, WriteFacts
    <1>4. job' = [job EXCEPT ![g] = w]
        BY <1>2
    <1> HIDE DEF w
    <1>5. job'[g] = w /\ \A h \in Snapshots : h # g => job'[h] = job[h]
        BY <1>1, <1>4
    <1>6. job' \in [Snapshots -> [seen : MaybeJobs, disk : MaybeJobs]]
        BY <1>1, <1>3, <1>4
    <1>7. w.seen \in {v, job[g].seen} /\ w.disk \in {v, job[g].disk}
        BY <1>3, RecFields
    <1>8. ~Ready(job[g].seen) /\ ~Ready(job[g].disk) /\ (Ready(v) => output[g] = Rec(v.digest))
        <2>1. ~Ready(job[g].seen) /\ (Ready(v) => output[g] = Rec(v.digest))
            BY DEF JobWrite, Job
        <2>2. Ready(job[g].disk) => job[g].seen = job[g].disk
            BY DEF IInv, Server, Finished
        <2>3. QED
            BY <2>1, <2>2
    <1>9. \A h \in Snapshots : Finished(h)'
        <2> TAKE h \in Snapshots
        <2>1. CASE h = g
            <3>1. Ready(w.disk) => w.seen = w.disk
                BY <1>3, <1>8, RecFields
            <3>2. Ready(w.seen) => output[g] = Rec(w.seen.digest)
                BY <1>7, <1>8
            <3>3. QED
                BY <1>5, <2>1, <3>1, <3>2 DEF Finished, Job
        <2>2. CASE h # g
            BY <1>5, <2>2 DEF Finished, Job, IInv, Server
        <2>3. QED
            BY <2>1, <2>2
    <1>10. ASSUME NEW c \in Clients PROVE Fine(client[c], job'[client[c].snap].seen, served', undone')
        <2> DEFINE r == client[c]
                   h == client[c].snap
        <2>1. Fine(r, job[h].seen, served, undone) /\ h \in Snapshots /\ served \in Nat
            BY DEF IInv, Acquired, Job, Shape, Acquisitions, Snapshots
        <2>2. job[h].seen # None => job'[h].seen # None /\ job[h].seen.attempt <= job'[h].seen.attempt
            <3>1. CASE h = g
                <4>1. v # None /\ v.attempt \in Nat
                    BY <1>1, FetchNames DEF Jobs
                <4>2. job[g].seen # None => job[g].seen.attempt <= v.attempt /\ job[g].seen.attempt \in Nat
                    BY <1>1 DEF JobWrite, Job, MaybeJobs, Jobs
                <4>3. QED
                    BY <1>5, <1>7, <3>1, <4>1, <4>2
            <3>2. CASE h # g
                <4>1. job'[h] = job[h]
                    BY <1>5, <2>1, <3>2
                <4>2. job[h].seen # None => job[h].seen.attempt \in Nat
                    BY <1>1, <2>1 DEF MaybeJobs, Jobs
                <4>3. QED
                    BY <4>1, <4>2
            <3>3. QED
                BY <3>1, <3>2
        <2>3. /\ job[h].seen # None => job[h].seen.attempt \in Nat
              /\ job'[h].seen # None => job'[h].seen.attempt \in Nat
            BY <1>1, <1>6, <2>1 DEF MaybeJobs, Jobs
        <2>4. r.snap = h
            OBVIOUS
        <2> HIDE DEF r, h
        <2>5. Fine(r, job'[h].seen, served, undone)
            BY <2>1, <2>2, <2>3, <2>4, FineKept
        <2>6. QED
            BY <2>5 DEF r, h
    <1>11. job'[g].seen \in {v, Job(g)}
        BY <1>5, <1>7 DEF Job
    <1>12. QED
        BY <1>5, <1>6, <1>9, <1>10, <1>11

\* A step that saves a job, after which no client begins to install.
LEMMA WriteStep ==
    ASSUME IInv, NEW g \in Snapshots, NEW v, JobWrite(g, v), UNCHANGED <<served, output, undone>>,
           owner' \in [Snapshots -> Clients \cup {None, "builder"}],
           builder' \in [Snapshots -> Builders],
           \A h \in Snapshots : h # g => owner'[h] = owner[h] /\ builder'[h] = builder[h],
           AtWork(g)', Built(g)',
           client' \in [Clients -> Acquisitions],
           \A c \in Clients :
               \/ client'[c] = client[c] /\ (At(c, "installing") => client[c].snap # g)
               \/ client'[c].pc # "installing" /\ Fine(client'[c], job'[client'[c].snap].seen, served, undone)
    PROVE  IInv'
    <1>1. /\ job' \in [Snapshots -> [seen : MaybeJobs, disk : MaybeJobs]]
          /\ \A h \in Snapshots : h # g => job'[h] = job[h]
          /\ \A h \in Snapshots : Finished(h)'
          /\ \A c \in Clients : Fine(client[c], job'[client[c].snap].seen, served', undone')
        BY JobWritten
    <1>2. Shape'
        BY <1>1 DEF IInv, Shape
    <1>3. Server'
        <2> SUFFICES ASSUME NEW h \in Snapshots PROVE (Finished(h) /\ AtWork(h) /\ Built(h))'
            BY DEF Server
        <2>1. CASE h = g
            BY <1>1, <2>1
        <2>2. CASE h # g
            BY <1>1, <2>2 DEF IInv, Server, AtWork, Built, Job
        <2>3. QED
            BY <2>1, <2>2
    <1>4. Installs'
        <2> SUFFICES ASSUME NEW c \in Clients, client'[c].pc = "installing"
                     PROVE  owner'[client'[c].snap] = c /\ job'[client'[c].snap].seen = None
            BY DEF Installs, At, Job
        <2>1. client'[c] = client[c] /\ client[c].pc = "installing" /\ client[c].snap # g
            BY DEF At
        <2>2. client[c].snap \in Snapshots
            BY DEF IInv, Shape, Acquisitions
        <2>3. QED
            BY <1>1, <2>1, <2>2 DEF IInv, Installs, At, Job
    <1>5. Acquired'
        <2> SUFFICES ASSUME NEW c \in Clients
                     PROVE  Fine(client'[c], job'[client'[c].snap].seen, served', undone')
            BY DEF Acquired, Job
        <2>1. QED
            BY <1>1
    <1>6. QED
        BY <1>2, <1>3, <1>4, <1>5 DEF IInv

\* Whoever builds is not to be seen while there is no job, or it has ended.
LEMMA NoBuilder ==
    ASSUME IInv, NEW g \in Snapshots, Job(g) = None \/ Job(g).state # "building" \/ owner[g] # "builder"
    PROVE  builder[g].pc = "idle"
    BY DEF IInv, Server, AtWork

\* A client that installs keeps everyone else from the job.
LEMMA NobodyInstalls ==
    ASSUME IInv, NEW c \in Clients, NEW g \in Snapshots,
           Job(g) # None \/ owner[g] # c, At(c, "installing")
    PROVE  client[c].snap # g
    BY DEF IInv, Installs

LEMMA AcceptStep == ASSUME IInv, NEW c \in Clients, Accept(c) PROVE IInv'
    <1> DEFINE r == client[c]
               g == r.snap
    <1>1. /\ Fine(r, Job(r.snap), served, undone) /\ r \in Acquisitions /\ g \in Snapshots
          /\ At(c, "post") /\ Job(g) = None
          /\ UNCHANGED <<served, job, kept, output, builder, refused, faults, stops, undone>>
        BY DEF IInv, Acquired, Fine, Accept, Acquisitions
    <1>2. CASE client' = [client EXCEPT ![c].pc = "failed"] /\ UNCHANGED owner
        <2> DEFINE n == [r EXCEPT !.pc = "failed"]
        <2>1. client' = [client EXCEPT ![c] = n]
            BY <1>2
        <2> HIDE DEF r
        <2>2. "failed" \in PCs \ {"manifest"}
            BY DEF PCs
        <2>3. Fine(n, Job(n.snap), served, undone) /\ n.pc # "installing"
            BY <1>1, <2>2, PcFine, PcFields
        <2> HIDE DEF n
        <2>4. QED
            BY <1>1, <1>2, <2>1, <2>3, ClientStep DEF server
    <1>3. CASE /\ owner[g] = None /\ owner' = [owner EXCEPT ![g] = c]
               /\ client' = [client EXCEPT ![c].pc = "installing"]
        <2> DEFINE n == [r EXCEPT !.pc = "installing"]
        <2>1. client' = [client EXCEPT ![c] = n]
            BY <1>3
        <2>2. owner' = [owner EXCEPT ![g] = c] /\ owner[g] = None
            BY <1>3
        <2> HIDE DEF r
        <2>3. "installing" \in PCs \ {"manifest"}
            BY DEF PCs
        <2>4. Fine(n, Job(g), served, undone) /\ n \in Acquisitions /\ n.snap = g
            BY <1>1, <2>3, PcFine, PcFields
        <2> HIDE DEF n, g
        <2>5. client'[c] = n /\ \A d \in Clients : d # c => client'[d] = client[d]
            BY <2>1 DEF IInv, Shape
        <2>6. owner'[g] = c /\ \A h \in Snapshots : h # g => owner'[h] = owner[h]
            BY <1>1, <2>2 DEF IInv, Shape
        <2>7. Shape'
            BY <1>1, <2>1, <2>2, <2>4 DEF IInv, Shape
        <2>8. Server'
            <3> SUFFICES ASSUME NEW h \in Snapshots PROVE (Finished(h) /\ AtWork(h) /\ Built(h))'
                BY DEF Server
            <3>1. (Finished(h) /\ Built(h))'
                BY <1>1 DEF IInv, Server, Finished, Built, Ready, Job
            <3>2. builder[g].pc = "idle"
                BY <1>1, NoBuilder
            <3>3. AtWork(h)'
                BY <1>1, <2>6, <3>2 DEF IInv, Server, AtWork, Job
            <3>4. QED
                BY <3>1, <3>3
        <2>9. Installs'
            <3> SUFFICES ASSUME NEW d \in Clients, client'[d].pc = "installing"
                         PROVE  owner'[client'[d].snap] = d /\ job'[client'[d].snap].seen = None
                BY DEF Installs, At, Job
            <3>1. CASE d = c
                BY <1>1, <2>4, <2>5, <2>6, <3>1 DEF Job
            <3>2. CASE d # c
                <4>1. /\ client'[d] = client[d] /\ client[d].snap \in Snapshots
                      /\ owner[client[d].snap] = d /\ Job(client[d].snap) = None
                    BY <2>5, <3>2 DEF IInv, Installs, At, Shape, Acquisitions
                <4>2. client[d].snap # g
                    BY <2>2, <4>1, FetchNames
                <4>3. QED
                    BY <1>1, <2>6, <4>1, <4>2 DEF Job
            <3>3. QED
                BY <3>1, <3>2
        <2>10. Acquired'
            <3> SUFFICES ASSUME NEW d \in Clients
                         PROVE  Fine(client'[d], job'[client'[d].snap].seen, served', undone')
                BY DEF Acquired, Job
            <3>1. CASE d = c
                BY <1>1, <2>4, <2>5, <3>1 DEF Job
            <3>2. CASE d # c
                BY <1>1, <2>5, <3>2 DEF IInv, Acquired, Job
            <3>3. QED
                BY <3>1, <3>2
        <2>11. QED
            BY <2>7, <2>8, <2>9, <2>10 DEF IInv
    <1>4. QED
        BY <1>2, <1>3 DEF Accept

\* A client that leaves the installation of a list of names gives the job's lock
\* back. The job it saves is the first.
LEMMA SaveJobStep == ASSUME IInv, NEW c \in Clients, SaveJob(c) PROVE IInv'
    <1> DEFINE r == client[c]
               v == Building(1)
    <1>0. PICK g \in Snapshots : g = r.snap
        BY DEF IInv, Shape, Acquisitions
    <1>1. /\ Fine(r, Job(r.snap), served, undone) /\ r \in Acquisitions /\ g \in Snapshots
          /\ owner[g] = c /\ Job(g) = None /\ served \in Nat
          /\ owner' = [owner EXCEPT ![g] = None]
          /\ UNCHANGED <<served, output, builder, undone>>
        BY <1>0 DEF IInv, Acquired, Installs, Fine, SaveJob, Acquisitions, Shape, Snapshots
    <1>2. builder[g].pc = "idle"
        BY <1>1, NoBuilder
    <1>3. v \in Jobs /\ ~Ready(v) /\ v.attempt = 1
        BY DEF Building, Jobs, JobStates, Ready
    <1>4. PICK pc \in {"post", "state", "failed"} :
              /\ client' = [client EXCEPT ![c].pc = pc]
              /\ \/ UNCHANGED job
                 \/ \E k, shown : job' = [job EXCEPT ![g] = Write(k, shown, @, v)]
        BY <1>0 DEF SaveJob
    <1> DEFINE n == [r EXCEPT !.pc = pc]
    <1>5. client' = [client EXCEPT ![c] = n]
        BY <1>4
    <1>6. pc \in PCs \ {"manifest", "installing"}
        BY DEF PCs
    <1>7. /\ owner' \in [Snapshots -> Clients \cup {None, "builder"}]
          /\ \A h \in Snapshots : h # g => owner'[h] = owner[h] /\ builder'[h] = builder[h]
        BY <1>1 DEF IInv, Shape
    <1>8. \A d \in Clients \ {c} : At(d, "installing") => client[d].snap # g
        BY <1>1, NobodyInstalls
    <1> HIDE DEF r
    <1>9. n \in Acquisitions /\ n.pc = pc /\ n.snap = g
        BY <1>0, <1>1, <1>6, PcFields
    <1>10. ASSUME NEW j, Fine(r, j, served, undone) PROVE Fine(n, j, served, undone)
        BY <1>6, <1>10, PcFine
    <1> HIDE DEF n, v
    <1>11. client'[c] = n /\ \A d \in Clients : d # c => client'[d] = client[d]
        BY <1>5 DEF IInv, Shape
    <1>12. client' \in [Clients -> Acquisitions]
        BY <1>5, <1>9 DEF IInv, Shape
    <1>13. AtWork(g)' /\ Built(g)'
        BY <1>1, <1>2 DEF AtWork, Built
    <1>14. CASE UNCHANGED job
        <2>1. Shape'
            BY <1>1, <1>7, <1>12, <1>14 DEF IInv, Shape
        <2>2. Server'
            <3> SUFFICES ASSUME NEW h \in Snapshots PROVE (Finished(h) /\ AtWork(h) /\ Built(h))'
                BY DEF Server
            <3>1. (Finished(h) /\ Built(h))'
                BY <1>1, <1>14 DEF IInv, Server, Finished, Built, Ready, Job
            <3>2. AtWork(h)'
                BY <1>1, <1>7, <1>13, <1>14 DEF IInv, Server, AtWork, Job
            <3>3. QED
                BY <3>1, <3>2
        <2>3. Installs'
            <3> SUFFICES ASSUME NEW d \in Clients, client'[d].pc = "installing"
                         PROVE  owner'[client'[d].snap] = d /\ job'[client'[d].snap].seen = None
                BY DEF Installs, At, Job
            <3>1. d # c
                BY <1>6, <1>9, <1>11
            <3>2. /\ client'[d] = client[d] /\ client[d].snap \in Snapshots
                  /\ owner[client[d].snap] = d /\ Job(client[d].snap) = None
                BY <1>11, <3>1 DEF IInv, Installs, At, Shape, Acquisitions
            <3>3. client[d].snap # g
                BY <1>1, <3>1, <3>2
            <3>4. QED
                BY <1>7, <1>14, <3>2, <3>3 DEF Job
        <2>4. Acquired'
            <3> SUFFICES ASSUME NEW d \in Clients
                         PROVE  Fine(client'[d], job'[client'[d].snap].seen, served', undone')
                BY DEF Acquired, Job
            <3>1. CASE d = c
                BY <1>1, <1>9, <1>10, <1>11, <1>14, <3>1, <1>0 DEF Job, r
            <3>2. CASE d # c
                BY <1>1, <1>11, <1>14, <3>2 DEF IInv, Acquired, Job
            <3>3. QED
                BY <3>1, <3>2
        <2>5. QED
            BY <2>1, <2>2, <2>3, <2>4 DEF IInv
    <1>15. CASE \E k, shown : job' = [job EXCEPT ![g] = Write(k, shown, @, v)]
        <2>1. JobWrite(g, v)
            BY <1>1, <1>3, <1>15 DEF JobWrite, Ready
        <2>2. Fine(client[c], job'[client[c].snap].seen, served', undone')
            BY <1>1, <2>1, JobWritten
        <2>3. Fine(n, job'[n.snap].seen, served, undone)
            BY <1>0, <1>1, <1>9, <1>10, <2>2 DEF r
        <2>4. \A d \in Clients :
                  \/ client'[d] = client[d] /\ (At(d, "installing") => client[d].snap # g)
                  \/ client'[d].pc # "installing" /\ Fine(client'[d], job'[client'[d].snap].seen, served, undone)
            BY <1>6, <1>8, <1>9, <1>11, <2>3
        <2>5. builder' \in [Snapshots -> Builders]
            BY <1>1 DEF IInv, Shape
        <2>6. UNCHANGED <<served, output, undone>> /\ g \in Snapshots
            BY <1>1
        <2>7. QED
            BY <1>7, <1>12, <1>13, <2>1, <2>4, <2>5, <2>6, WriteStep
    <1>16. QED
        BY <1>4, <1>14, <1>15

\* What a restart that is not refused does to the job.
LEMMA RestartedJob ==
    ASSUME IInv, NEW g \in Snapshots, NEW n \in Nat, NEW k, NEW shown, Job(g) # None,
           Restarted(g, n, k, shown)
    PROVE  UNCHANGED job \/ (JobWrite(g, Building(n + 1)) /\ builder[g].pc = "idle")
    <1>1. CASE Applies(g, n)
        <2>1. UNCHANGED job \/ \E i, s : job' = [job EXCEPT ![g] = Write(i, s, @, Building(n + 1))]
            BY <1>1 DEF Restarted
        <2>2. Building(n + 1) \in Jobs /\ ~Ready(Building(n + 1)) /\ Building(n + 1).attempt = n + 1
            BY DEF Building, Jobs, JobStates, Ready
        <2>3. ~Ready(Job(g)) /\ Job(g).attempt = n /\ builder[g].pc = "idle"
            BY <1>1, NoBuilder DEF Applies, Ready
        <2>4. QED
            BY <2>1, <2>2, <2>3 DEF JobWrite
    <1>2. CASE ~Applies(g, n)
        BY <1>2 DEF Restarted
    <1>3. QED
        BY <1>1, <1>2

\* The client that asked for a restart is told what the job is after it.
LEMMA RestartStep == ASSUME IInv, NEW c \in Clients, Restart(c) PROVE IInv'
    <1> DEFINE r == client[c]
    <1>1. PICK g \in Snapshots : g = r.snap
        BY DEF IInv, Shape, Acquisitions
    <1>2. /\ Fine(r, Job(r.snap), served, undone) /\ r \in Acquisitions /\ r.restart \in Nat
          /\ Job(g) # None /\ Job(g) \in Jobs
          /\ UNCHANGED <<served, output, owner, builder, undone>>
        BY <1>1, JobKinds DEF IInv, Acquired, Fine, Restart, Acquisitions
    <1>3. PICK n : /\ client' = [client EXCEPT ![c] = n]
                   /\ n = [r EXCEPT !.pc = "failed"] \/ n = Told(r, job'[g].seen)
        BY <1>1 DEF Restart
    <1>4. UNCHANGED job \/ (JobWrite(g, Building(r.restart + 1)) /\ builder[g].pc = "idle")
        BY <1>1, <1>2, RestartedJob DEF Restart
    <1>5. Fine(r, job'[g].seen, served, undone) /\ job'[g].seen \in Jobs /\ job'[g].seen # None
        <2>1. CASE UNCHANGED job
            BY <1>1, <1>2, <2>1 DEF Job
        <2>2. CASE JobWrite(g, Building(r.restart + 1))
            <3>1. /\ job'[g].seen \in {Building(r.restart + 1), Job(g)}
                  /\ Fine(client[c], job'[client[c].snap].seen, served', undone')
                BY <1>2, <2>2, JobWritten
            <3>2. Building(r.restart + 1) \in Jobs
                BY <2>2 DEF JobWrite
            <3>3. job'[g].seen \in Jobs
                BY <1>2, <3>1, <3>2
            <3>4. QED
                BY <1>1, <1>2, <3>1, <3>3, FetchNames
        <2>3. QED
            BY <1>4, <2>1, <2>2
    <1>6. \A d \in Clients : At(d, "installing") => client[d].snap # g
        BY <1>2, NobodyInstalls
    <1> DEFINE j == job'[g].seen
    <1> HIDE DEF r, j
    <1>7. n \in Acquisitions /\ n.snap = g /\ n.pc # "installing" /\ Fine(n, j, served, undone)
        <2>1. CASE n = [r EXCEPT !.pc = "failed"]
            <3>1. "failed" \in PCs \ {"manifest"}
                BY DEF PCs
            <3>2. Fine(r, j, served, undone)
                BY <1>5 DEF j
            <3>3. QED
                BY <1>1, <1>2, <2>1, <3>1, <3>2, PcFine, PcFields
        <2>2. CASE n = Told(r, j)
            <3>1. Fine(r, j, served, undone) /\ j \in Jobs /\ j # None
                BY <1>5 DEF j
            <3>2. Fine(Told(r, j), j, served, undone) /\ Told(r, j).snap = r.snap
                  /\ Told(r, j).pc # "installing"
                BY <3>1, ToldFine
            <3>3. QED
                BY <1>1, <2>2, <3>2 DEF Fine
        <2>3. QED
            BY <1>3, <2>1, <2>2 DEF j
    <1>8. CASE UNCHANGED job
        <2>1. Fine(n, Job(n.snap), served, undone)
            BY <1>7, <1>8 DEF j, Job
        <2>2. QED
            BY <1>2, <1>3, <1>7, <1>8, <2>1, ClientMoves
    <1>9. CASE JobWrite(g, Building(r.restart + 1)) /\ builder[g].pc = "idle"
        <2>1. client'[c] = n /\ (\A d \in Clients : d # c => client'[d] = client[d])
              /\ client' \in [Clients -> Acquisitions]
            BY <1>3, <1>7 DEF IInv, Shape
        <2>2. \A d \in Clients :
                  \/ client'[d] = client[d] /\ (At(d, "installing") => client[d].snap # g)
                  \/ client'[d].pc # "installing" /\ Fine(client'[d], job'[client'[d].snap].seen, served, undone)
            BY <1>6, <1>7, <2>1 DEF j
        <2>3. builder[g].pc = "idle"
            BY <1>9
        <2>4. AtWork(g)' /\ Built(g)'
            BY <1>2, <2>3 DEF AtWork, Built
        <2>5. /\ owner' \in [Snapshots -> Clients \cup {None, "builder"}] /\ builder' \in [Snapshots -> Builders]
              /\ \A h \in Snapshots : h # g => owner'[h] = owner[h] /\ builder'[h] = builder[h]
            BY <1>2 DEF IInv, Shape
        <2>6. UNCHANGED <<served, output, undone>>
            BY <1>2
        <2>7. QED
            BY <1>9, <2>1, <2>2, <2>4, <2>5, <2>6, WriteStep
    <1>10. QED
        BY <1>4, <1>8, <1>9

\* A request nobody waits for saves a job as well.
LEMMA LatePostStep == ASSUME IInv, NEW g \in Snapshots, NEW n \in Nat, LatePost(g, n) PROVE IInv'
    <1>1. UNCHANGED <<served, output, owner, builder, undone, client>>
        BY DEF LatePost
    <1>2. \/ UNCHANGED job
          \/ \E v : JobWrite(g, v) /\ builder[g].pc = "idle" /\ \A c \in Clients : At(c, "installing") => client[c].snap # g
        <2>1. CASE /\ Job(g) = None /\ owner[g] = None
                   /\ \E k \in {0, 1}, shown \in BOOLEAN : job' = [job EXCEPT ![g] = Write(k, shown, @, Building(1))]
            <3>1. Building(1) \in Jobs /\ ~Ready(Building(1)) /\ Building(1).attempt = 1
                BY DEF Building, Jobs, JobStates, Ready
            <3>2. JobWrite(g, Building(1))
                BY <2>1, <3>1 DEF JobWrite, Ready
            <3>3. builder[g].pc = "idle"
                BY <2>1, NoBuilder
            <3>4. \A c \in Clients : owner[g] # c
                BY <2>1, FetchNames
            <3>5. QED
                BY <3>2, <3>3, <3>4, NobodyInstalls
        <2>2. CASE Job(g) # None /\ \E k \in 0 .. 2, shown \in BOOLEAN : Restarted(g, n, k, shown)
            <3>1. UNCHANGED job \/ (JobWrite(g, Building(n + 1)) /\ builder[g].pc = "idle")
                BY <2>2, RestartedJob
            <3>2. QED
                BY <2>2, <3>1, NobodyInstalls
        <2>3. QED
            BY <2>1, <2>2 DEF LatePost
    <1>3. CASE UNCHANGED job
        BY <1>1, <1>3 DEF IInv, Shape, Server, Finished, AtWork, Built, Installs, Acquired, At, Job
    <1>4. ASSUME NEW v, JobWrite(g, v), builder[g].pc = "idle",
                 \A c \in Clients : At(c, "installing") => client[c].snap # g
          PROVE  IInv'
        <2>1. AtWork(g)' /\ Built(g)'
            BY <1>1, <1>4 DEF AtWork, Built
        <2>2. /\ owner' \in [Snapshots -> Clients \cup {None, "builder"}] /\ builder' \in [Snapshots -> Builders]
              /\ \A h \in Snapshots : h # g => owner'[h] = owner[h] /\ builder'[h] = builder[h]
              /\ client' \in [Clients -> Acquisitions]
            BY <1>1 DEF IInv, Shape
        <2>3. UNCHANGED <<served, output, undone>>
            BY <1>1
        <2>4. \A c \in Clients : client'[c] = client[c] /\ (At(c, "installing") => client[c].snap # g)
            BY <1>1, <1>4
        <2>5. QED
            BY <1>4, <2>1, <2>2, <2>3, <2>4, WriteStep
    <1>5. QED
        BY <1>2, <1>3, <1>4

-----------------------------------------------------------------------------
(* The server's builders.                                                    *)

\* The job a claim leaves.
Claimed(j) ==
    IF ~j.started THEN [j EXCEPT !.started = TRUE]
    ELSE IF j.attempt + 1 >= RecoveryLimit
         THEN [j EXCEPT !.attempt = @ + 1, !.started = FALSE, !.state = "failed"]
    ELSE [j EXCEPT !.attempt = @ + 1]

LEMMA ClaimedJob ==
    ASSUME NEW j \in Jobs, j.state = "building"
    PROVE  /\ Claimed(j) \in Jobs /\ Claimed(j).attempt \in Nat /\ j.attempt <= Claimed(j).attempt
           /\ Claimed(j).state # "ready"
    <1>1. j.attempt \in Nat /\ j.attempt + 1 \in Nat
        BY DEF Jobs
    <1>2. CASE ~j.started
        <2>1. [j EXCEPT !.started = TRUE] \in Jobs
            BY DEF Jobs
        <2>2. [j EXCEPT !.started = TRUE].attempt = j.attempt /\ [j EXCEPT !.started = TRUE].state = j.state
            BY DEF Jobs
        <2>3. Claimed(j) = [j EXCEPT !.started = TRUE]
            BY <1>2 DEF Claimed
        <2>4. QED
            BY <1>1, <2>1, <2>2, <2>3
    <1>3. ASSUME NEW n \in Nat
          PROVE  /\ [j EXCEPT !.attempt = n] \in Jobs /\ [j EXCEPT !.attempt = n].attempt = n
                 /\ [j EXCEPT !.attempt = n].state = j.state
                 /\ [j EXCEPT !.attempt = n, !.started = FALSE, !.state = "failed"] \in Jobs
                 /\ [j EXCEPT !.attempt = n, !.started = FALSE, !.state = "failed"].attempt = n
                 /\ [j EXCEPT !.attempt = n, !.started = FALSE, !.state = "failed"].state = "failed"
        BY DEF Jobs, JobStates
    <1>4. CASE j.started
        <2> DEFINE k == j.attempt + 1
                   a == [j EXCEPT !.attempt = k]
                   f == [j EXCEPT !.attempt = k, !.started = FALSE, !.state = "failed"]
        <2>1. Claimed(j) = a \/ Claimed(j) = f
            BY <1>4 DEF Claimed
        <2>2. k \in Nat /\ j.attempt <= k
            BY <1>1
        <2> HIDE DEF k
        <2>3. /\ a \in Jobs /\ a.attempt = k /\ a.state = j.state
              /\ f \in Jobs /\ f.attempt = k /\ f.state = "failed"
            BY <1>3, <2>2
        <2> HIDE DEF a, f
        <2>4. QED
            BY <2>1, <2>2, <2>3
    <1>5. QED
        BY <1>2, <1>4

LEMMA ClaimArchiveStep == ASSUME IInv, NEW g \in Snapshots, ClaimArchive(g) PROVE IInv'
    <1> DEFINE v == Claimed(Job(g))
    <1>1. /\ Job(g) # None /\ Job(g) \in Jobs /\ Job(g).state = "building" /\ owner[g] = None
          /\ UNCHANGED <<served, output, undone, client>>
        BY JobKinds DEF ClaimArchive, Claimable
    <1>2. /\ v \in Jobs /\ v.attempt \in Nat /\ Job(g).attempt <= v.attempt /\ v.state # "ready"
        BY <1>1, ClaimedJob
    <1>3. PICK k \in {0, 1}, shown \in BOOLEAN :
              /\ job' = [job EXCEPT ![g] = Write(k, shown, @, v)]
              /\ IF k = 0 /\ v.state = "building"
                 THEN /\ owner' = [owner EXCEPT ![g] = "builder"]
                      /\ builder' = [builder EXCEPT ![g] = [pc |-> "discard", attempt |-> v.attempt, digest |-> 0]]
                 ELSE UNCHANGED <<owner, builder>>
        BY DEF ClaimArchive, Claimed
    <1> HIDE DEF v
    <1>4. JobWrite(g, v)
        BY <1>1, <1>2, <1>3 DEF JobWrite, Ready
    <1>5. builder[g].pc = "idle"
        BY <1>1, NoBuilder, FetchNames
    <1>6. \A c \in Clients : client'[c] = client[c] /\ (At(c, "installing") => client[c].snap # g)
        BY <1>1, NobodyInstalls
    <1>7. client' \in [Clients -> Acquisitions] /\ UNCHANGED <<served, output, undone>>
        BY <1>1 DEF IInv, Shape
    <1>8. CASE UNCHANGED <<owner, builder>>
        <2>1. AtWork(g)' /\ Built(g)'
            BY <1>5, <1>8 DEF AtWork, Built
        <2>2. /\ owner' \in [Snapshots -> Clients \cup {None, "builder"}] /\ builder' \in [Snapshots -> Builders]
              /\ \A h \in Snapshots : h # g => owner'[h] = owner[h] /\ builder'[h] = builder[h]
            BY <1>8 DEF IInv, Shape
        <2>3. QED
            BY <1>4, <1>6, <1>7, <2>1, <2>2, WriteStep
    <1>9. CASE /\ k = 0 /\ v.state = "building"
               /\ owner' = [owner EXCEPT ![g] = "builder"]
               /\ builder' = [builder EXCEPT ![g] = [pc |-> "discard", attempt |-> v.attempt, digest |-> 0]]
        <2> DEFINE b == [pc |-> "discard", attempt |-> v.attempt, digest |-> 0]
        <2>1. b \in Builders /\ b.pc = "discard" /\ b.attempt = v.attempt
            BY <1>2 DEF Builders
        <2>2. builder' = [builder EXCEPT ![g] = b]
            BY <1>9
        <2> HIDE DEF b
        <2>3. /\ owner' \in [Snapshots -> Clients \cup {None, "builder"}] /\ builder' \in [Snapshots -> Builders]
              /\ owner'[g] = "builder" /\ builder'[g] = b
              /\ \A h \in Snapshots : h # g => owner'[h] = owner[h] /\ builder'[h] = builder[h]
            BY <1>9, <2>1, <2>2 DEF IInv, Shape
        <2>4. job'[g].seen = v
            <3>1. job[g] \in [seen : MaybeJobs, disk : MaybeJobs] /\ v \in MaybeJobs
                  /\ job'[g] = Write(k, shown, job[g], v)
                BY <1>2, <1>3 DEF IInv, Shape, MaybeJobs
            <3>2. job'[g] = Rec(v)
                BY <1>9, <3>1, WriteFacts
            <3>3. QED
                BY <3>2, RecFields
        <2>5. v # None
            BY <1>2, FetchNames
        <2>6. AtWork(g)' /\ Built(g)'
            BY <1>9, <2>1, <2>3, <2>4, <2>5 DEF AtWork, Built, Job
        <2>7. QED
            BY <1>4, <1>6, <1>7, <2>3, <2>6, WriteStep
    <1>10. QED
        BY <1>3, <1>8, <1>9

\* The result is that of the attempt built, which nobody restarts meanwhile.
LEMMA FinishArchiveStep == ASSUME IInv, NEW g \in Snapshots, FinishArchive(g) PROVE IInv'
    <1> DEFINE b == builder[g]
               j == Job(g)
               v == [j EXCEPT !.state = b.pc, !.digest = b.digest]
    <1>1. /\ b.pc \in {"ready", "failed"} /\ b \in Builders
          /\ owner[g] = "builder" /\ j # None /\ j \in Jobs /\ j.state = "building" /\ j.attempt = b.attempt
          /\ b.pc = "ready" => output[g] = Rec(b.digest)
        <2>1. b.pc \in {"ready", "failed"} /\ b \in Builders
            BY DEF FinishArchive, IInv, Shape
        <2>2. AtWork(g) /\ Built(g)
            BY DEF IInv, Server
        <2>3. j # None => j \in Jobs
            BY JobKinds
        <2>4. QED
            BY <2>1, <2>2, <2>3 DEF AtWork, Built
    <1>2. /\ builder' = [builder EXCEPT ![g] = Idle] /\ owner' = [owner EXCEPT ![g] = None]
          /\ UNCHANGED <<served, output, undone, client>>
          /\ \E k, shown : job' = [job EXCEPT ![g] = Write(k, shown, @, v)]
        BY <1>1 DEF FinishArchive
    <1>3. v \in Jobs /\ v.attempt = j.attempt /\ v.state = b.pc /\ v.digest = b.digest
        <2> HIDE DEF b, j
        <2>1. b.digest \in Nat /\ b.pc \in JobStates
            BY <1>1 DEF Builders, JobStates
        <2>2. QED
            BY <1>1, <2>1 DEF Jobs
    <1> HIDE DEF v
    <1>4. JobWrite(g, v)
        <2>1. j.attempt <= v.attempt
            BY <1>1, <1>3 DEF Jobs
        <2>2. ~Ready(j) /\ (Ready(v) => output[g] = Rec(v.digest))
            BY <1>1, <1>3 DEF Ready
        <2>3. QED
            BY <1>2, <1>3, <2>1, <2>2 DEF JobWrite
    <1>5. Idle \in Builders /\ Idle.pc = "idle"
        BY DEF Idle, Builders
    <1>6. /\ owner' \in [Snapshots -> Clients \cup {None, "builder"}] /\ builder' \in [Snapshots -> Builders]
          /\ client' \in [Clients -> Acquisitions] /\ UNCHANGED <<served, output, undone>>
          /\ builder'[g].pc = "idle"
          /\ \A h \in Snapshots : h # g => owner'[h] = owner[h] /\ builder'[h] = builder[h]
        BY <1>2, <1>5 DEF IInv, Shape
    <1>7. AtWork(g)' /\ Built(g)'
        BY <1>6 DEF AtWork, Built
    <1>8. \A c \in Clients : client'[c] = client[c] /\ (At(c, "installing") => client[c].snap # g)
        BY <1>1, <1>2, NobodyInstalls
    <1>9. QED
        BY <1>4, <1>6, <1>7, <1>8, WriteStep

\* A builder at work touches nothing that is ready.
LEMMA BuilderStep ==
    ASSUME IInv, NEW g \in Snapshots, builder[g].pc # "idle", UNCHANGED <<served, job, owner, undone, client>>,
           NEW o \in [seen : Nat, disk : Nat], output' = [output EXCEPT ![g] = o],
           NEW b \in Builders, builder' = [builder EXCEPT ![g] = b], b.attempt = builder[g].attempt,
           b.pc = "build" => o.seen = 0,
           b.pc = "ready" => o = Rec(b.digest)
    PROVE  IInv'
    <1>1. Shape'
        BY DEF IInv, Shape
    <1>2. /\ builder'[g] = b /\ output'[g] = o
          /\ \A h \in Snapshots : h # g => builder'[h] = builder[h] /\ output'[h] = output[h]
        BY DEF IInv, Shape
    <1>3. Server'
        <2> SUFFICES ASSUME NEW h \in Snapshots PROVE (Finished(h) /\ AtWork(h) /\ Built(h))'
            BY DEF Server
        <2>1. CASE h = g
            <3>1. AtWork(g) /\ Finished(g)
                BY DEF IInv, Server
            <3>2. ~Ready(job[g].seen) /\ ~Ready(job[g].disk)
                BY <3>1 DEF AtWork, Finished, Ready, Job
            <3>3. (Finished(h) /\ AtWork(h))'
                BY <1>2, <2>1, <3>1, <3>2 DEF AtWork, Finished, Job
            <3>4. Built(h)'
                BY <1>2, <2>1 DEF Built
            <3>5. QED
                BY <3>3, <3>4
        <2>2. CASE h # g
            BY <1>2, <2>2 DEF IInv, Server, Finished, AtWork, Built, Job
        <2>3. QED
            BY <2>1, <2>2
    <1>4. Installs' /\ Acquired'
        BY DEF IInv, Installs, Acquired, At, Job
    <1>5. QED
        BY <1>1, <1>3, <1>4 DEF IInv

LEMMA DiscardOutputStep == ASSUME IInv, NEW g \in Snapshots, DiscardOutput(g) PROVE IInv'
    <1> DEFINE b == [builder[g] EXCEPT !.pc = "build"]
    <1>1. /\ builder[g].pc = "discard" /\ UNCHANGED <<served, job, owner, undone, client>>
          /\ output' = [output EXCEPT ![g] = NoOutput(g)] /\ builder' = [builder EXCEPT ![g] = b]
        BY DEF DiscardOutput
    <1>2. NoOutput(g) \in [seen : Nat, disk : Nat] /\ NoOutput(g).seen = 0
        BY DEF IInv, Shape, NoOutput
    <1>3. b \in Builders /\ b.attempt = builder[g].attempt /\ b.pc = "build"
        BY DEF IInv, Shape, Builders
    <1> HIDE DEF b
    <1>4. QED
        BY <1>1, <1>2, <1>3, BuilderStep

LEMMA BuildArchiveStep == ASSUME IInv, NEW g \in Snapshots, BuildArchive(g) PROVE IInv'
    <1>1. /\ builder[g].pc = "build" /\ UNCHANGED <<served, job, owner, undone, client>>
          /\ builder[g] \in Builders /\ output[g] \in [seen : Nat, disk : Nat] /\ output[g].seen = 0
        BY DEF BuildArchive, IInv, Shape, Server, Built
    <1>2. PICK d \in Digests, k \in {0, 1}, shown \in BOOLEAN :
              /\ output' = [output EXCEPT ![g] = Write(k, shown, @, d)]
              /\ builder' = [builder EXCEPT ![g].pc = IF k = 0 THEN "ready" ELSE "failed", ![g].digest = IF k = 0 THEN d ELSE 0]
        BY <1>1 DEF BuildArchive
    <1> DEFINE o == Write(k, shown, output[g], d)
               pc == IF k = 0 THEN "ready" ELSE "failed"
               e == IF k = 0 THEN d ELSE 0
               b == [builder[g] EXCEPT !.pc = pc, !.digest = e]
    <1>3. output' = [output EXCEPT ![g] = o] /\ builder' = [builder EXCEPT ![g] = b]
        BY <1>2 DEF IInv, Shape
    <1>4. d \in Nat
        BY FetchBounds
    <1>5. o \in [seen : Nat, disk : Nat] /\ (k = 0 => o = Rec(d))
        <2> DEFINE S == Nat
        <2>1. output[g] \in [seen : S, disk : S] /\ d \in S
            BY <1>1, <1>4
        <2> HIDE DEF S
        <2>2. o \in [seen : S, disk : S] /\ (k = 0 => o = Rec(d))
            BY <2>1, WriteFacts
        <2>3. QED
            BY <2>2 DEF S
    <1>6. e \in Nat /\ pc \in {"ready", "failed"} /\ (pc = "ready" => k = 0 /\ e = d)
        BY <1>4
    <1> HIDE DEF o, pc, e
    <1>7. b \in Builders /\ b.attempt = builder[g].attempt /\ b.pc = pc /\ b.digest = e
        BY <1>1, <1>6 DEF Builders
    <1> HIDE DEF b
    <1>8. (b.pc = "build" => o.seen = 0) /\ (b.pc = "ready" => o = Rec(b.digest))
        BY <1>5, <1>6, <1>7
    <1>9. QED
        BY <1>1, <1>3, <1>5, <1>7, <1>8, BuilderStep

-----------------------------------------------------------------------------
(* The world.                                                                *)

LEMMA SnapshotGoesStep == ASSUME IInv, SnapshotGoes PROVE IInv'
    <1>1. /\ UNCHANGED <<job, output, owner, builder, undone, client>> /\ served' = served + 1
          /\ served \in Nat /\ served' \in Nat /\ served' \in Snapshots
        BY FetchBounds DEF SnapshotGoes, IInv, Shape, Snapshots
    <1>2. Shape' /\ Server' /\ Installs'
        BY <1>1 DEF IInv, Shape, Server, Finished, AtWork, Built, Installs, At, Job
    <1>3. Acquired'
        <2> SUFFICES ASSUME NEW c \in Clients
                     PROVE  Fine(client'[c], job'[client'[c].snap].seen, served', undone')
            BY DEF Acquired, Job
        <2> DEFINE r == client[c]
                   j == job[r.snap].seen
        <2>1. Fine(r, j, served, undone) /\ r.snap \in Snapshots
            BY DEF IInv, Acquired, Job, Shape, Acquisitions
        <2>2. j # None => j.attempt \in Nat
            BY <2>1 DEF IInv, Shape, MaybeJobs, Jobs
        <2> HIDE DEF r, j
        <2>3. j # None => r.snap \in undone \/ (j # None /\ j.attempt <= j.attempt)
            BY <2>2
        <2>4. served <= served' /\ undone \subseteq undone
            BY <1>1
        <2>5. Fine(r, j, served', undone)
            BY <1>1, <2>1, <2>2, <2>3, <2>4, FineKept
        <2>6. QED
            BY <1>1, <2>5 DEF r, j
    <1>4. QED
        BY <1>2, <1>3 DEF IInv

\* What a stop leaves on the disk: an archive that is ready there was installed,
\* and a snapshot whose attempts went back is in undone.
LEMMA StopLeaves ==
    ASSUME IInv, NEW power \in BOOLEAN, Stop(power)
    PROVE  /\ job' \in [Snapshots -> [seen : MaybeJobs, disk : MaybeJobs]]
           /\ output' \in [Snapshots -> [seen : Nat, disk : Nat]]
           /\ undone \subseteq undone' /\ undone' \subseteq Snapshots
           /\ \A g \in Snapshots : Finished(g)'
           /\ \A g \in Snapshots : Job(g) # None =>
                  g \in undone' \/ (job'[g].seen # None /\ Job(g).attempt <= job'[g].seen.attempt)
    <1>1. /\ job \in [Snapshots -> [seen : MaybeJobs, disk : MaybeJobs]]
          /\ output \in [Snapshots -> [seen : Nat, disk : Nat]] /\ undone \subseteq Snapshots
          /\ \A g \in Snapshots : Finished(g)
        BY DEF IInv, Shape, Server
    <1>2. \A g \in Snapshots : Job(g) # None => Job(g).attempt \in Nat
        BY JobKinds DEF Jobs
    <1>3. CASE ~power
        <2>1. UNCHANGED <<job, output, undone>>
            BY <1>3 DEF Stop
        <2>2. \A g \in Snapshots : Finished(g)'
            BY <1>1, <2>1 DEF Finished, Job
        <2>3. \A g \in Snapshots : Job(g) # None => job'[g].seen # None /\ Job(g).attempt <= job'[g].seen.attempt
            BY <1>2, <2>1 DEF Job
        <2>4. QED
            BY <1>1, <2>1, <2>2, <2>3
    <1>4. CASE power
        <2>1. /\ job' = [g \in Snapshots |-> Rec(job[g].disk)]
              /\ output' = [g \in Snapshots |-> Rec(output[g].disk)]
              /\ undone' = undone \cup {g \in Snapshots : TakenBack(g)}
            BY <1>4 DEF Stop
        <2>2. /\ \A g \in Snapshots : Rec(job[g].disk) \in [seen : MaybeJobs, disk : MaybeJobs]
              /\ \A g \in Snapshots : Rec(output[g].disk) \in [seen : Nat, disk : Nat]
            BY <1>1 DEF Rec
        <2>3. /\ job' \in [Snapshots -> [seen : MaybeJobs, disk : MaybeJobs]]
              /\ output' \in [Snapshots -> [seen : Nat, disk : Nat]]
              /\ undone \subseteq undone' /\ undone' \subseteq Snapshots
            BY <1>1, <2>1, <2>2
        <2>4. ASSUME NEW g \in Snapshots
              PROVE  /\ Finished(g)'
                     /\ Job(g) # None => g \in undone' \/ (job'[g].seen # None /\ Job(g).attempt <= job'[g].seen.attempt)
            <3>1. /\ job'[g].seen = job[g].disk /\ job'[g].disk = job[g].disk
                  /\ output'[g] = Rec(output[g].disk)
                BY <2>1, RecFields
            <3>2. Ready(job[g].disk) => output[g].disk = job[g].disk.digest
                <4>1. Ready(job[g].disk) => output[g] = Rec(job[g].disk.digest)
                    BY <1>1 DEF Finished, Job
                <4>2. QED
                    BY <4>1, RecFields
            <3>3. Finished(g)'
                BY <3>1, <3>2 DEF Finished, Job
            <3>4. Job(g) # None => g \in undone' \/ (job[g].disk # None /\ Job(g).attempt <= job[g].disk.attempt)
                <4> SUFFICES ASSUME Job(g) # None, ~TakenBack(g)
                             PROVE  job[g].disk # None /\ Job(g).attempt <= job[g].disk.attempt
                    BY <2>1
                <4>1. job[g].disk # None /\ ~(job[g].disk.attempt < Job(g).attempt)
                    BY DEF TakenBack
                <4>2. job[g].disk.attempt \in Nat /\ Job(g).attempt \in Nat
                    BY <1>1, <1>2, <4>1 DEF MaybeJobs, Jobs
                <4>3. QED
                    BY <4>1, <4>2
            <3>5. QED
                BY <3>1, <3>3, <3>4
        <2>5. QED
            BY <2>3, <2>4
    <1>5. QED
        BY <1>3, <1>4

LEMMA StopStep == ASSUME IInv, NEW power \in BOOLEAN, Stop(power) PROVE IInv'
    <1>1. /\ UNCHANGED served
          /\ owner' = [g \in Snapshots |-> None] /\ builder' = [g \in Snapshots |-> Idle]
          /\ client' = [c \in Clients |-> IF At(c, "installing") THEN Lost(client[c], "post") ELSE client[c]]
        BY DEF Stop
    <1>2. /\ job' \in [Snapshots -> [seen : MaybeJobs, disk : MaybeJobs]]
          /\ output' \in [Snapshots -> [seen : Nat, disk : Nat]]
          /\ undone \subseteq undone' /\ undone' \subseteq Snapshots
          /\ \A g \in Snapshots : Finished(g)'
          /\ \A g \in Snapshots : Job(g) # None =>
                  g \in undone' \/ (job'[g].seen # None /\ Job(g).attempt <= job'[g].seen.attempt)
        BY StopLeaves
    <1>3. ASSUME NEW c \in Clients
          PROVE  client'[c].pc # "installing" /\ Fine(client'[c], job'[client'[c].snap].seen, served', undone')
        <2> DEFINE r == client[c]
                   h == r.snap
                   j == Job(h)
                   i == job'[h].seen
        <2>1. /\ Fine(r, j, served, undone) /\ h \in Snapshots /\ served \in Nat /\ h = r.snap
              /\ client'[c] = IF r.pc = "installing" THEN Lost(r, "post") ELSE r
            BY <1>1 DEF IInv, Acquired, Shape, Acquisitions, Snapshots, At
        <2>2. /\ j # None => h \in undone' \/ (i # None /\ j.attempt <= i.attempt)
              /\ j # None => j.attempt \in Nat
            BY <1>2, <2>1, JobKinds DEF Jobs
        <2>3. i # None => i.attempt \in Nat
            BY <1>2, <2>1 DEF MaybeJobs, Jobs
        <2>4. i = job'[h].seen
            OBVIOUS
        <2> HIDE DEF r, i, h, j
        <2>5. Fine(r, i, served, undone')
            <3>1. j # None => r.snap \in undone' \/ (i # None /\ j.attempt <= i.attempt)
                BY <2>1, <2>2
            <3>2. served <= served /\ undone \subseteq undone'
                BY <1>2, <2>1
            <3>3. QED
                BY <2>1, <2>2, <2>3, <3>1, <3>2, FineKept
        <2>6. "post" \in PCs
            BY DEF PCs
        <2>7. Fine(Lost(r, "post"), i, served, undone') /\ Lost(r, "post").snap = r.snap
              /\ Lost(r, "post").pc # "installing"
            BY <2>5, <2>6, LostFine
        <2>8. client'[c].pc # "installing" /\ client'[c].snap = h /\ Fine(client'[c], i, served, undone')
            BY <2>1, <2>5, <2>7
        <2>9. QED
            BY <1>1, <2>4, <2>8
    <1>4. \A c \in Clients : client'[c] \in Acquisitions
        BY <1>3 DEF Fine
    <1>5. Idle \in Builders /\ Idle.pc = "idle"
        BY DEF Idle, Builders
    <1>6. client' \in [Clients -> Acquisitions]
        BY <1>1, <1>4
    <1>7. Shape'
        BY <1>1, <1>2, <1>5, <1>6 DEF IInv, Shape
    <1>8. \A g \in Snapshots : builder'[g].pc = "idle"
        BY <1>1, <1>5
    <1>9. Server'
        BY <1>2, <1>8 DEF Server, AtWork, Built
    <1>10. Installs'
        BY <1>3 DEF Installs, At
    <1>11. Acquired'
        BY <1>3 DEF Acquired, Job
    <1>12. QED
        BY <1>7, <1>9, <1>10, <1>11 DEF IInv

-----------------------------------------------------------------------------
(* The inductive invariant, and what it gives.                               *)

LEMMA FetchStep == ASSUME IInv, [Next]_vars PROVE IInv'
    <1>1. CASE UNCHANGED vars
        BY <1>1 DEF vars, server, IInv, Shape, Server, Finished, AtWork, Built, Installs, Acquired, At, Job
    <1>2. ASSUME NEW c \in Clients, ClientNext(c) \/ Lose(c) PROVE IInv'
        BY <1>2, GoneStep, RefreshStep, PollStep, RangeStep, ExtractStep, AcceptStep, SaveJobStep, JoinStep,
           RestartStep, LoseStep DEF ClientNext
    <1>3. ASSUME NEW g \in Snapshots, BuilderNext(g) PROVE IInv'
        BY <1>3, ClaimArchiveStep, DiscardOutputStep, BuildArchiveStep, FinishArchiveStep DEF BuilderNext
    <1>4. ASSUME NEW g \in Snapshots, NEW n \in {0} \cup Attempts, LatePost(g, n) PROVE IInv'
        <2>1. n \in Nat
            BY DEF Attempts
        <2>2. QED
            BY <1>4, <2>1, LatePostStep
    <1>5. CASE SnapshotGoes
        BY <1>5, SnapshotGoesStep
    <1>6. ASSUME NEW power \in BOOLEAN, Stop(power) PROVE IInv'
        BY <1>6, StopStep
    <1>7. QED
        BY <1>1, <1>2, <1>3, <1>4, <1>5, <1>6 DEF Next

LEMMA FetchInvariant == Spec => []IInv
    BY FetchInit, FetchStep, PTL DEF Spec

\* Whatever clients ask, the server builds again, writes fail and power is lost,
\* what a client has of an archive is of the one its descriptor names.
THEOREM BytesOfOneArchive == Spec => []OneArchive
    <1>1. IInv => OneArchive
        <2> SUFFICES ASSUME IInv, NEW c \in Clients, client[c].have > 0
                     PROVE  client[c].bytes = {client[c].st}
            BY DEF OneArchive
        <2>1. Prefix(client[c])
            BY DEF IInv, Acquired, Fine
        <2>2. QED
            BY <2>1 DEF Prefix
    <1>2. QED
        BY <1>1, FetchInvariant, PTL

\* A client is charged for the requests it loses and for each failed attempt it
\* meets, once, whatever answers bring the failure, of every snapshot of which no
\* loss of power took back an attempt.
THEOREM FailuresChargedOnce == Spec => []ChargedOnce
    <1>1. IInv => ChargedOnce
        BY DEF IInv, Acquired, Fine, Paid, ChargedOnce
    <1>2. QED
        BY <1>1, FetchInvariant, PTL
=============================================================================
