-------------------------- MODULE PullServerProofs --------------------------
(* Theorems of PullServer: that no removal takes a tree that is held, that  *)
(* a tag names one evidence, that a request at work is served, and that     *)
(* what a request was told is gone stays so, for any freeze jobs, clients,  *)
(* leases, stops and losses of power.                                       *)
EXTENDS PullServer, TLAPS

Places == {"none", "here", "moved"}
Uses == [at : Nat, state : {"none", "active", "expired"}]
Trees == [tree : [seen : Places, disk : Places], superseded : [seen : Nat, disk : Nat],
          use : [seen : Uses, disk : Uses]]
States == [greatest : Nat, pub : Publications \cup {None}]
Histories == [greatest : Nat, removed : SUBSET Nat]
Jobs == [conv : Conversations, attempt : Nat, started : BOOLEAN,
         state : {"building", "ready", "failed"}, snapshot : Nat, finished : Nat]
WorkerPCs == {"idle", "settle", "read", "reuse", "check", "reserve", "finish", "publish", "ready", "failed"}
Builds == [pc : WorkerPCs, ver : Nat, tries : Nat, tag : Nat]
RequestPCs == {"idle", "hold", "held", "sending", "done", "removing"}
Requests == [pc : RequestPCs, kind : {"none", "manifest", "use"}, freeze : Freezes \cup {None},
             snap : Snapshots \cup {None}, lease : Leases \cup {None}, renewed : Nat]
Removals == [snap : Snapshots, next : {"clear", "done", "intent"}, pub : Publications \cup {None}]
Actors == Freezes \cup Clients \cup {Sweeper}

\* The kinds of values the argument is about.
Shape ==
    /\ now \in Nat /\ source \in [Conversations -> Nat] /\ tokens \subseteq Clients
    /\ state \in [seen : States, disk : States]
    /\ history \in [Conversations -> [seen : Histories, disk : Histories]]
    /\ snaps \in [Snapshots -> Trees]
    /\ digest \in [Snapshots -> Nat \cup {None}]
    /\ leases \in [Leases -> LeaseRecords \cup {None}]
    /\ freezes \in [Freezes -> Jobs \cup {None}]
    /\ owner \in [Freezes -> Freezes \cup {Sweeper, None}]
    /\ holds \in [Snapshots -> SUBSET Holders]
    /\ worker \in [Freezes -> Builds]
    /\ request \in [Clients -> Requests]
    /\ deleting \in [Actors -> Removals \cup {None}]

\* A worker has its job's lock; a snapshot it found or published has a tag.
CrewOf(f) ==
    /\ worker[f].pc # "idle" => owner[f] = f /\ freezes[f] \in Jobs
    /\ worker[f].pc \in {"check", "finish", "publish", "ready"} => worker[f].tag \in Tags
    /\ freezes[f] # None /\ freezes[f].state = "ready" => freezes[f].snapshot \in Tags
Crew == \A f \in Freezes : CrewOf(f)

\* Whoever settles an unfinished publication has its owner's lock until the
\* intent is gone, and stands where it found it.
SettledBy(a) == deleting[a] # None =>
    LET p == deleting[a].pub
    IN  /\ deleting[a].next = "done" <=> p = None
        /\ p # None =>
              /\ a \notin Clients /\ Pub = p /\ owner[p.build] = a
              /\ a \in Freezes => worker[a].pc = IF p.build = a THEN "settle" ELSE "reserve"
Settles == \A a \in Actors : SettledBy(a)

\* Tags that ever named anything are behind the greatest on the disk, and so are
\* those of publications at work, which name nothing yet.
Publishes(f) == worker[f].pc \in {"finish", "publish"}
Numbers ==
    /\ state.disk.greatest <= state.seen.greatest
    /\ \A s \in Snapshots :
          digest[s] # None \/ snaps[s].tree # Rec("none") => s[2] <= state.disk.greatest
    /\ \A f \in Freezes : Publishes(f) =>
          /\ worker[f].tag <= state.disk.greatest
          /\ digest[<<ConvOf(f), worker[f].tag>>] = None
          /\ \A g \in Freezes : Publishes(g) /\ worker[g].tag = worker[f].tag => g = f

\* Nobody holds what is not there, or is not published yet.
HeldTrees ==
    /\ \A s \in Snapshots : holds[s] # {} => Here(s)
    /\ Pub # None => holds[<<Pub.conv, Pub.tag>>] = {}

\* A request has a snapshot, which it holds while it is answered; a client's
\* lease is its own, on the snapshot it asks for.
AskedBy(r) ==
    LET l == request[r].lease
    IN  /\ request[r].pc # "idle" => request[r].snap \in Snapshots
        /\ request[r].pc \in {"held", "sending"} => r \in holds[request[r].snap]
        /\ request[r].pc = "done" => l # None
        /\ l # None =>
              /\ leases[l] # None /\ leases[l].client = r /\ leases[l].snap = request[r].snap
              /\ request[r].freeze # None => request[r].pc = "sending" /\ request[r].kind = "manifest"
Asked == \A r \in Clients : AskedBy(r)

IInv == Shape /\ Crew /\ Settles /\ Numbers /\ HeldTrees /\ Asked

\* While a request's use is renewed its last use is no older than the renewal,
\* and that is no older than a renewal's interval.
Renewed == \A r \in Clients : Renews(r) /\ Authorized(r) =>
    /\ Life(Snap(r)) = "served" /\ request[r].renewed <= now
    /\ request[r].renewed <= snaps[Snap(r)].use.seen.at
    /\ now <= request[r].renewed + Interval

-----------------------------------------------------------------------------
(* Records and their writes.                                                 *)

LEMMA RecFields == ASSUME NEW v PROVE Rec(v).seen = v /\ Rec(v).disk = v
    BY DEF Rec

LEMMA WriteFacts ==
    ASSUME NEW S, NEW old \in [seen : S, disk : S], NEW v \in S, NEW k, NEW shown, NEW at
    PROVE  LET w == Write(k, shown, at, old, v)
           IN  /\ w \in [seen : S, disk : S]
               /\ w = Rec(v) \/ (w.disk = old.disk /\ w.seen \in {v, old.seen})
               /\ k = 0 => w = Rec(v)
    <1>1. Rec(v) \in [seen : S, disk : S]
        BY DEF Rec
    <1>2. /\ [old EXCEPT !.seen = v] \in [seen : S, disk : S]
          /\ [old EXCEPT !.seen = v].disk = old.disk /\ [old EXCEPT !.seen = v].seen = v
        OBVIOUS
    <1>3. CASE k = 0 \/ at < k
        BY <1>1, <1>3 DEF Write
    <1>4. CASE ~(k = 0 \/ at < k) /\ at = k /\ shown
        <2>1. Write(k, shown, at, old, v) = [old EXCEPT !.seen = v]
            BY <1>4 DEF Write
        <2>2. QED
            BY <1>2, <1>4, <2>1
    <1>5. CASE ~(k = 0 \/ at < k) /\ ~(at = k /\ shown)
        BY <1>5 DEF Write
    <1>6. QED
        BY <1>3, <1>4, <1>5

\* What the writes of a snapshot's records are of.
LEMMA UseWrite ==
    ASSUME Shape, NEW s \in Snapshots, NEW u \in Uses, NEW k, NEW shown, NEW at
    PROVE  Write(k, shown, at, snaps[s].use, u) \in [seen : Uses, disk : Uses]
    <1>1. snaps[s].use \in [seen : Uses, disk : Uses]
        BY DEF Shape, Trees
    <1>2. QED
        BY <1>1, WriteFacts

LEMMA NumberWrite ==
    ASSUME NEW old \in [seen : Nat, disk : Nat], NEW v \in Nat, NEW k, NEW shown, NEW at
    PROVE  Write(k, shown, at, old, v) \in [seen : Nat, disk : Nat]
    <1> DEFINE S == Nat
    <1>1. old \in [seen : S, disk : S] /\ v \in S
        OBVIOUS
    <1> HIDE DEF S
    <1>2. Write(k, shown, at, old, v) \in [seen : S, disk : S]
        BY <1>1, WriteFacts
    <1>3. QED
        BY <1>2 DEF S

LEMMA MarkWrite ==
    ASSUME Shape, NEW s \in Snapshots, NEW v \in Nat, NEW k, NEW shown, NEW at
    PROVE  Write(k, shown, at, snaps[s].superseded, v) \in [seen : Nat, disk : Nat]
    <1>1. snaps[s].superseded \in [seen : Nat, disk : Nat]
        BY DEF Shape, Trees
    <1>2. QED
        BY <1>1, NumberWrite

LEMMA UsesMade ==
    ASSUME Shape, NEW s \in Snapshots
    PROVE  /\ Expired(s) \in Uses /\ Recorded(s) \in Uses /\ Use(now) \in Uses
           /\ Expired(s).at = snaps[s].use.seen.at
           /\ Recorded(s).at = now /\ Recorded(s).state = snaps[s].use.seen.state
    <1>1. snaps[s].use.seen \in Uses /\ now \in Nat
        BY DEF Shape, Trees
    <1> DEFINE u == snaps[s].use.seen
    <1>2. u \in Uses
        BY <1>1
    <1> HIDE DEF u
    <1>3. /\ [u EXCEPT !.state = "expired"] \in Uses /\ [u EXCEPT !.at = now] \in Uses /\ Use(now) \in Uses
          /\ [u EXCEPT !.state = "expired"].at = u.at
          /\ [u EXCEPT !.at = now].at = now /\ [u EXCEPT !.at = now].state = u.state
        BY <1>1, <1>2 DEF Uses, Use
    <1>4. QED
        BY <1>3 DEF Expired, Recorded, u

\* A snapshot's records after one of them is written: its tree stays.
TreesStay == \A s \in Snapshots : snaps'[s].tree = snaps[s].tree

LEMMA UseSet ==
    ASSUME NEW f \in [Snapshots -> Trees], NEW s \in Snapshots, NEW u \in [seen : Uses, disk : Uses]
    PROVE  LET n == [f EXCEPT ![s].use = u]
           IN  /\ n \in [Snapshots -> Trees] /\ n[s].use = u
               /\ \A x \in Snapshots : n[x].tree = f[x].tree /\ n[x].superseded = f[x].superseded
               /\ \A x \in Snapshots : x # s => n[x] = f[x]
    <1> DEFINE r == [f[s] EXCEPT !.use = u]
    <1>1. r \in Trees /\ r.tree = f[s].tree /\ r.superseded = f[s].superseded /\ r.use = u
        <2>1. f[s] \in Trees
            OBVIOUS
        <2>2. QED
            BY <2>1 DEF Trees
    <1>2. [f EXCEPT ![s].use = u] = [f EXCEPT ![s] = r]
        OBVIOUS
    <1> HIDE DEF r
    <1>3. QED
        BY <1>1, <1>2

LEMMA MarkSet ==
    ASSUME NEW f \in [Snapshots -> Trees], NEW s \in Snapshots, NEW p \in [seen : Nat, disk : Nat]
    PROVE  LET n == [f EXCEPT ![s].superseded = p]
           IN  /\ n \in [Snapshots -> Trees] /\ n[s].superseded = p
               /\ \A x \in Snapshots : n[x].tree = f[x].tree /\ n[x].use = f[x].use
               /\ \A x \in Snapshots : x # s => n[x] = f[x]
    <1> DEFINE r == [f[s] EXCEPT !.superseded = p]
    <1>1. r \in Trees /\ r.tree = f[s].tree /\ r.superseded = p /\ r.use = f[s].use
        <2>1. f[s] \in Trees
            OBVIOUS
        <2>2. QED
            BY <2>1 DEF Trees
    <1>2. [f EXCEPT ![s].superseded = p] = [f EXCEPT ![s] = r]
        OBVIOUS
    <1> HIDE DEF r
    <1>3. QED
        BY <1>1, <1>2

LEMMA TreeSet ==
    ASSUME NEW f \in [Snapshots -> Trees], NEW s \in Snapshots, NEW t \in [seen : Places, disk : Places]
    PROVE  LET n == [f EXCEPT ![s].tree = t]
           IN  /\ n \in [Snapshots -> Trees] /\ n[s].tree = t
               /\ \A x \in Snapshots : n[x].use = f[x].use /\ n[x].superseded = f[x].superseded
               /\ \A x \in Snapshots : x # s => n[x] = f[x]
    <1> DEFINE r == [f[s] EXCEPT !.tree = t]
    <1>1. r \in Trees /\ r.tree = t /\ r.superseded = f[s].superseded /\ r.use = f[s].use
        <2>1. f[s] \in Trees
            OBVIOUS
        <2>2. QED
            BY <2>1 DEF Trees
    <1>2. [f EXCEPT ![s].tree = t] = [f EXCEPT ![s] = r]
        OBVIOUS
    <1> HIDE DEF r
    <1>3. QED
        BY <1>1, <1>2

-----------------------------------------------------------------------------
(* What each part of the invariant rests on.                                 *)

LEMMA NamesApart ==
    /\ \A f \in Freezes : f # None /\ f # Sweeper /\ f \notin Clients /\ f \in Actors
    /\ \A r \in Clients : r # None /\ r # Sweeper /\ r \notin Freezes /\ r \in Actors
    /\ Sweeper # None /\ Sweeper \in Actors /\ Sweeper \notin Clients
    /\ \A l \in Leases : l # None
    BY PullNames DEF Actors

LEMMA CrewKept ==
    ASSUME Crew, NEW f \in Freezes,
           \A g \in Freezes : g # f => worker'[g] = worker[g] /\ owner'[g] = owner[g] /\ freezes'[g] = freezes[g],
           CrewOf(f)'
    PROVE  Crew'
    BY DEF Crew, CrewOf

\* A publication that is settled is one's own, and nobody else's.
LEMMA SettledFacts ==
    ASSUME Shape, Crew, Settles, NEW a \in Actors, deleting[a] # None, deleting[a].pub # None
    PROVE  /\ Pub = deleting[a].pub /\ Pub # None /\ Pub \in Publications /\ owner[Pub.build] = a
           /\ \A b \in Actors : b # a => deleting[b] = None \/ deleting[b].pub = None
           /\ a \in Freezes => worker[a].pc = IF Pub.build = a THEN "settle" ELSE "reserve"
           /\ a \in Freezes \cup {Sweeper} /\ Pub.build \in Freezes
           /\ Pub.build # a => worker[Pub.build].pc = "idle"
    <1>1. SettledBy(a)
        BY DEF Settles
    <1>2. Pub = deleting[a].pub /\ owner[Pub.build] = a /\ a \notin Clients
        BY <1>1 DEF SettledBy
    <1>3. Pub \in Publications
        BY <1>2 DEF Shape, Removals
    <1>4. Pub.build \in Freezes
        BY <1>3 DEF Publications
    <1>5. ASSUME NEW b \in Actors, b # a, deleting[b] # None, deleting[b].pub # None
          PROVE  FALSE
        <2>1. SettledBy(b)
            BY DEF Settles
        <2>2. QED
            BY <1>2, <1>5, <2>1 DEF SettledBy
    <1>6. a \in Freezes => worker[a].pc = IF Pub.build = a THEN "settle" ELSE "reserve"
        BY <1>1, <1>2 DEF SettledBy
    <1>7. Pub.build # a => worker[Pub.build].pc = "idle"
        BY <1>2, <1>4 DEF Crew, CrewOf
    <1>8. QED
        BY <1>2, <1>3, <1>4, <1>5, <1>6, <1>7 DEF Actors

\* A worker settles nothing while it is at other work.
LEMMA NotSettling ==
    ASSUME Shape, Crew, Settles, NEW f \in Freezes, worker[f].pc \notin {"settle", "reserve"}
    PROVE  deleting[f] = None \/ deleting[f].pub = None
    <1>1. f \in Actors
        BY NamesApart
    <1>2. QED
        BY <1>1, SettledFacts

LEMMA SettlesKept ==
    ASSUME Settles, UNCHANGED <<deleting, owner>>, Pub' = Pub, NEW f \in Freezes,
           \A g \in Freezes : g # f => worker'[g] = worker[g],
           worker'[f].pc = worker[f].pc \/ deleting[f] = None \/ deleting[f].pub = None
    PROVE  Settles'
    BY DEF Settles, SettledBy, Pub

\* Tags keep naming what they name, and a worker at its publication keeps its tag.
LEMMA NumbersKept ==
    ASSUME Shape, Shape', Numbers, UNCHANGED digest,
           state.disk.greatest <= state'.disk.greatest, state'.disk.greatest <= state'.seen.greatest,
           \A s \in Snapshots : snaps'[s].tree # Rec("none") => snaps[s].tree # Rec("none"),
           \A f \in Freezes : Publishes(f)' =>
               Publishes(f) /\ worker'[f].tag = worker[f].tag /\ freezes'[f].conv = freezes[f].conv
    PROVE  Numbers'
    <1>1. state.disk.greatest \in Nat /\ state'.disk.greatest \in Nat
        BY DEF Shape, States
    <1>2. ASSUME NEW s \in Snapshots, (digest[s] # None \/ snaps[s].tree # Rec("none"))'
          PROVE  s[2] <= state'.disk.greatest
        <2>1. s[2] <= state.disk.greatest /\ s[2] \in Nat
            <3>1. s[2] \in Tags
                BY DEF Snapshots
            <3>2. QED
                BY <1>2, <3>1 DEF Numbers, Tags, Rec
        <2>2. QED
            BY <1>1, <2>1
    <1>3. ASSUME NEW f \in Freezes, Publishes(f)'
          PROVE  /\ worker'[f].tag <= state'.disk.greatest
                 /\ digest'[<<ConvOf(f), worker[f].tag>>'] = None
                 /\ \A g \in Freezes : Publishes(g)' /\ worker'[g].tag = worker'[f].tag => g = f
        <2>1. Publishes(f) /\ worker'[f].tag = worker[f].tag /\ freezes'[f].conv = freezes[f].conv
            BY <1>3
        <2>2. worker[f].tag <= state.disk.greatest /\ worker[f].tag \in Nat
            BY <2>1 DEF Numbers, Shape, Builds
        <2>3. worker'[f].tag <= state'.disk.greatest
            BY <1>1, <2>1, <2>2
        <2>4. <<ConvOf(f), worker[f].tag>>' = <<ConvOf(f), worker[f].tag>>
            BY <2>1 DEF ConvOf
        <2>5. digest'[<<ConvOf(f), worker[f].tag>>'] = None
            BY <2>1, <2>4 DEF Numbers
        <2>6. \A g \in Freezes : Publishes(g)' /\ worker'[g].tag = worker'[f].tag => g = f
            BY <2>1 DEF Numbers
        <2>7. QED
            BY <2>3, <2>5, <2>6
    <1>4. QED
        BY <1>2, <1>3 DEF Numbers

LEMMA HeldKept ==
    ASSUME HeldTrees, \A s \in Snapshots : holds'[s] \subseteq holds[s],
           \A s \in Snapshots : Here(s) /\ holds[s] # {} => Here(s)',
           Pub' \in {Pub, None}, Shape
    PROVE  HeldTrees'
    <1>1. Pub # None => <<Pub.conv, Pub.tag>> \in Snapshots
        BY DEF Shape, States, Publications, Pub, Snapshots
    <1>2. QED
        BY <1>1 DEF HeldTrees, Pub, Here

\* A snapshot is served when its tag is no unfinished or removed one, its tree
\* is there, and its time to live is not over.
LEMMA LifeServed ==
    ASSUME Shape, NEW s \in Snapshots
    PROVE  Life(s) = "served" <=>
              /\ ~(Pub # None /\ Pub.conv = s[1] /\ Pub.tag = s[2]) /\ ~Removed(s) /\ Here(s)
              /\ snaps[s].use.seen.state = "active" /\ now < snaps[s].use.seen.at + TTL
    <1>1. snaps[s].use.seen \in Uses /\ now \in Nat /\ TTL \in Nat
        BY PullBounds DEF Shape, Trees
    <1>2. snaps[s].use.seen.state \in {"none", "active", "expired"} /\ snaps[s].use.seen.at \in Nat
        BY <1>1 DEF Uses
    <1>3. now >= snaps[s].use.seen.at + TTL <=> ~(now < snaps[s].use.seen.at + TTL)
        BY <1>1, <1>2
    <1>4. QED
        BY <1>2, <1>3 DEF Life

LEMMA HeldMore ==
    ASSUME Shape, HeldTrees, NEW s \in Snapshots, NEW x, Life(s) = "served",
           holds' = [holds EXCEPT ![s] = @ \cup {x}], UNCHANGED <<snaps, state>>
    PROVE  HeldTrees'
    <1>1. Here(s) /\ ~(Pub # None /\ Pub.conv = s[1] /\ Pub.tag = s[2])
        BY LifeServed
    <1>2. \A y \in Snapshots : y # s => holds'[y] = holds[y]
        BY DEF Shape
    <1>3. Pub # None => <<Pub.conv, Pub.tag>> \in Snapshots /\ <<Pub.conv, Pub.tag>> # s
        BY <1>1 DEF Shape, States, Publications, Pub, Snapshots
    <1>4. QED
        BY <1>1, <1>2, <1>3 DEF HeldTrees, Here, Pub

LEMMA AskedStep ==
    ASSUME Asked, NEW r \in Clients, \A q \in Clients : q # r => request'[q] = request[q], AskedBy(r)',
           \A q \in Clients, s \in Snapshots : q # r /\ q \in holds[s] => q \in holds'[s],
           \A l \in Leases : leases[l] # None =>
               leases'[l] # None /\ leases'[l].client = leases[l].client /\ leases'[l].snap = leases[l].snap,
           \A q \in Clients : request[q].snap \in Snapshots \cup {None} /\ request[q].lease \in Leases \cup {None}
    PROVE  Asked'
    <1>1. ASSUME NEW q \in Clients, q # r
          PROVE  AskedBy(q)'
        <2>1. AskedBy(q) /\ request'[q] = request[q]
            BY <1>1 DEF Asked
        <2>2. QED
            BY <1>1, <2>1 DEF AskedBy
    <1>2. QED
        BY <1>1 DEF Asked

\* Nothing of a request changes but perhaps who else holds what.
LEMMA AskedKept ==
    ASSUME Shape, Asked, UNCHANGED request,
           \A q \in Clients, s \in Snapshots : q \in holds[s] => q \in holds'[s],
           \A l \in Leases : leases[l] # None =>
               leases'[l] # None /\ leases'[l].client = leases[l].client /\ leases'[l].snap = leases[l].snap
    PROVE  Asked'
    <1>1. \A q \in Clients : request[q].snap \in Snapshots \cup {None} /\ request[q].lease \in Leases \cup {None}
        BY DEF Shape, Requests
    <1>2. ASSUME NEW q \in Clients
          PROVE  AskedBy(q)'
        <2>1. AskedBy(q)
            BY DEF Asked
        <2>2. QED
            BY <1>1, <2>1 DEF AskedBy
    <1>3. QED
        BY <1>2 DEF Asked

\* A worker's next step, at most its place changed.
LEMMA StepFacts ==
    ASSUME Shape, NEW f \in Freezes, NEW pc \in WorkerPCs, Step(f, pc)
    PROVE  /\ worker' \in [Freezes -> Builds] /\ worker'[f].pc = pc
           /\ worker'[f].tag = worker[f].tag /\ worker'[f].ver = worker[f].ver
           /\ \A g \in Freezes : g # f => worker'[g] = worker[g]
    <1>1. worker \in [Freezes -> Builds] /\ worker[f] \in Builds
        BY DEF Shape
    <1> DEFINE w == [worker[f] EXCEPT !.pc = pc]
    <1>2. w \in Builds /\ w.pc = pc /\ w.tag = worker[f].tag /\ w.ver = worker[f].ver
        BY <1>1 DEF Builds
    <1>3. worker' = [worker EXCEPT ![f] = w]
        BY DEF Step
    <1> HIDE DEF w
    <1>4. QED
        BY <1>1, <1>2, <1>3

\* A worker that goes on alone, settling nothing and not yet publishing.
LEMMA WorkerMoves ==
    ASSUME IInv, Shape', NEW f \in Freezes, worker[f].pc # "idle", worker'[f].pc # "idle",
           \A g \in Freezes : g # f => worker'[g] = worker[g],
           worker'[f].pc \in {"check", "finish", "publish", "ready"} => worker'[f].tag \in Tags,
           Publishes(f)' => Publishes(f) /\ worker'[f].tag = worker[f].tag,
           worker'[f].pc = worker[f].pc \/ deleting[f] = None \/ deleting[f].pub = None,
           UNCHANGED <<owner, freezes, deleting, state, digest>>, TreesStay
    PROVE  Crew' /\ Settles' /\ Numbers'
    <1>1. CrewOf(f)'
        BY DEF IInv, Crew, CrewOf
    <1>2. Crew'
        BY <1>1, CrewKept DEF IInv
    <1>3. Settles'
        <2>1. Pub' = Pub
            BY DEF Pub
        <2>2. QED
            BY <2>1, SettlesKept DEF IInv
    <1>4. Numbers'
        <2>1. state.disk.greatest \in Nat /\ state.disk.greatest <= state.seen.greatest
            BY DEF IInv, Shape, States, Numbers
        <2>2. \A g \in Freezes : Publishes(g)' =>
                  Publishes(g) /\ worker'[g].tag = worker[g].tag /\ freezes'[g].conv = freezes[g].conv
            BY DEF Publishes
        <2>3. \A s \in Snapshots : snaps'[s].tree # Rec("none") => snaps[s].tree # Rec("none")
            BY DEF TreesStay
        <2>4. state.disk.greatest <= state'.disk.greatest /\ state'.disk.greatest <= state'.seen.greatest
            BY <2>1
        <2>5. QED
            BY <2>2, <2>3, <2>4, NumbersKept DEF IInv
    <1>5. QED
        BY <1>2, <1>3, <1>4

\* Requests and holds as they were, and every tree.
LEMMA HoldsStay ==
    ASSUME IInv, UNCHANGED <<holds, request, leases>>, Pub' \in {Pub, None}, TreesStay
    PROVE  HeldTrees' /\ Asked'
    <1>1. \A s \in Snapshots : Here(s)' = Here(s)
        BY DEF Here, TreesStay
    <1>2. HeldTrees'
        BY <1>1, HeldKept DEF IInv
    <1>3. Asked'
        BY AskedKept DEF IInv
    <1>4. QED
        BY <1>2, <1>3

-----------------------------------------------------------------------------
(* Each action keeps the invariant: freeze jobs.                             *)

LEMMA ClaimedJob ==
    ASSUME NEW j \in Jobs, now \in Nat
    PROVE  Claimed(j) \in Jobs /\ (Claimed(j).state = "ready" => j.state = "ready") /\ Claimed(j).snapshot = j.snapshot
                /\ Claimed(j).conv = j.conv
    <1>1. j.attempt \in Nat /\ j.started \in BOOLEAN
        BY DEF Jobs
    <1>2. [j EXCEPT !.started = TRUE] \in Jobs
        BY DEF Jobs
    <1>3. ASSUME NEW n \in Nat
          PROVE  /\ [j EXCEPT !.attempt = n, !.started = FALSE, !.state = "failed", !.finished = now] \in Jobs
                 /\ [j EXCEPT !.attempt = n] \in Jobs
        BY DEF Jobs
    <1>4. j.attempt + 1 \in Nat
        BY <1>1
    <1> DEFINE n == j.attempt + 1
    <1>5. /\ [j EXCEPT !.attempt = n, !.started = FALSE, !.state = "failed", !.finished = now] \in Jobs
          /\ [j EXCEPT !.attempt = n] \in Jobs
        BY <1>3, <1>4
    <1>6. Claimed(j) \in Jobs
        BY <1>2, <1>5 DEF Claimed
    <1>7. (Claimed(j).state = "ready" => j.state = "ready") /\ Claimed(j).snapshot = j.snapshot
              /\ Claimed(j).conv = j.conv
        BY DEF Claimed, Jobs
    <1>8. QED
        BY <1>6, <1>7

\* The jobs, one of them replaced while no worker is at it.
LEMMA JobsChange ==
    ASSUME IInv, NEW f \in Freezes, owner[f] = None, NEW j \in Jobs \cup {None},
           freezes' \in {freezes, [freezes EXCEPT ![f] = j]},
           j # None /\ j.state = "ready" => j.snapshot \in Tags,
           UNCHANGED <<now, source, tokens, state, history, snaps, digest, leases, owner, holds, worker, deleting>>,
           request' \in [Clients -> Requests], Asked'
    PROVE  IInv'
    <1>1. worker[f].pc = "idle"
        BY NamesApart DEF IInv, Crew, CrewOf
    <1>2. /\ freezes' \in [Freezes -> Jobs \cup {None}]
          /\ freezes'[f] \in {freezes[f], j} /\ \A g \in Freezes : g # f => freezes'[g] = freezes[g]
        BY DEF IInv, Shape
    <1>3. Shape'
        BY <1>2 DEF IInv, Shape
    <1>4. Crew'
        <2>1. CrewOf(f)'
            BY <1>1, <1>2 DEF IInv, Crew, CrewOf
        <2>2. QED
            BY <1>2, <2>1, CrewKept DEF IInv
    <1>5. Settles'
        BY DEF IInv, Settles, SettledBy, Pub
    <1>6. Numbers'
        <2>1. state.disk.greatest <= state'.disk.greatest /\ state'.disk.greatest <= state'.seen.greatest
            BY DEF IInv, Shape, States, Numbers
        <2>2. \A g \in Freezes : Publishes(g)' =>
                  Publishes(g) /\ worker'[g].tag = worker[g].tag /\ freezes'[g].conv = freezes[g].conv
            BY <1>1, <1>2 DEF Publishes
        <2>3. QED
            BY <1>3, <2>1, <2>2, NumbersKept DEF IInv
    <1>7. HeldTrees'
        BY DEF IInv, HeldTrees, Here, Pub
    <1>8. QED
        BY <1>3, <1>4, <1>5, <1>6, <1>7 DEF IInv

LEMMA StartFreezeStep ==
    ASSUME IInv, NEW r \in Clients, NEW c \in Conversations, StartFreeze(r, c)
    PROVE  IInv'
    <1>1. ASSUME NEW f \in Freezes
          PROVE  Follows(r, f) \in [Clients -> Requests]
        <2>1. PICK q : q = [request[r] EXCEPT !.freeze = f]
            OBVIOUS
        <2>2. request \in [Clients -> Requests] /\ request[r] \in Requests
            BY DEF IInv, Shape
        <2>3. q \in Requests
            BY <2>1, <2>2 DEF Requests
        <2>4. [request EXCEPT ![r].freeze = f] = [request EXCEPT ![r] = q]
            BY <2>1
        <2>5. [request EXCEPT ![r] = q] \in [Clients -> Requests]
            BY <2>2, <2>3
        <2>6. QED
            BY <2>2, <2>4, <2>5 DEF Follows
    <1>2. ASSUME NEW f \in Freezes, request' \in {request, Follows(r, f)}, UNCHANGED <<holds, leases>>
          PROVE  Asked'
        <2>1. CASE request[r] # Quiet \/ request' = request
            <3>1. request' = request
                BY <1>2, <2>1 DEF Follows
            <3>2. QED
                BY <1>2, <3>1, AskedKept DEF IInv
        <2>2. CASE request[r] = Quiet /\ request' # request
            <3>1. request' = [request EXCEPT ![r].freeze = f]
                BY <1>2, <2>2 DEF Follows
            <3>2. request[r].lease = None /\ request[r].pc = "idle"
                BY <2>2 DEF Quiet
            <3>3. request'[r].lease = None /\ request'[r].pc = "idle"
                BY <3>1, <3>2 DEF IInv, Shape, Requests
            <3>4. AskedBy(r)'
                BY <3>3 DEF AskedBy
            <3>5. \A q \in Clients : q # r => request'[q] = request[q]
                BY <3>1 DEF IInv, Shape
            <3>6. \A q \in Clients : request[q].snap \in Snapshots \cup {None} /\ request[q].lease \in Leases \cup {None}
                BY DEF IInv, Shape, Requests
            <3>7. QED
                BY <1>2, <3>4, <3>5, <3>6, AskedStep DEF IInv
        <2>3. QED
            BY <2>1, <2>2
    <1>3. UNCHANGED <<now, source, tokens, state, history, snaps, digest, leases, owner, holds, worker, deleting>>
        BY DEF StartFreeze, clock, locks
    <1>4. ASSUME NEW f \in Freezes, request' = Follows(r, f), UNCHANGED freezes
          PROVE  IInv'
        <2>1. Asked' /\ request' \in [Clients -> Requests]
            BY <1>1, <1>2, <1>3, <1>4
        <2>2. Shape'
            BY <1>3, <1>4, <2>1 DEF IInv, Shape
        <2>3. Crew' /\ Settles' /\ Numbers' /\ HeldTrees'
            BY <1>3, <1>4 DEF IInv, Crew, CrewOf, Settles, SettledBy, Pub, Numbers, Publishes, ConvOf, HeldTrees, Here
        <2>4. QED
            BY <2>1, <2>2, <2>3 DEF IInv
    <1>5. ASSUME NEW f \in Freezes, NEW k \in {0, 1}, NEW shown \in BOOLEAN,
                 owner[f] = None,
                 freezes' = IF k = 0 \/ shown THEN [freezes EXCEPT ![f] = NewJob(c)] ELSE freezes,
                 request' = IF k = 0 THEN Follows(r, f) ELSE request
          PROVE  IInv'
        <2>1. Asked' /\ request' \in [Clients -> Requests]
            BY <1>1, <1>2, <1>3, <1>5 DEF IInv, Shape
        <2>2. NewJob(c) \in Jobs /\ NewJob(c).state = "building"
            BY DEF NewJob, Jobs
        <2>3. freezes' \in {freezes, [freezes EXCEPT ![f] = NewJob(c)]}
            BY <1>5
        <2>4. QED
            BY <1>3, <1>5, <2>1, <2>2, <2>3, JobsChange
    <1>6. QED
        BY <1>4, <1>5 DEF StartFreeze

LEMMA RemoveFreezeStep ==
    ASSUME IInv, NEW f \in Freezes, RemoveFreeze(f)
    PROVE  IInv'
    <1>1. UNCHANGED <<now, source, tokens, state, history, snaps, digest, leases, owner, holds, worker, deleting,
              request>>
        BY DEF RemoveFreeze, clock, locks, work
    <1>2. owner[f] = None /\ freezes' \in {freezes, [freezes EXCEPT ![f] = None]}
        BY DEF RemoveFreeze
    <1>3. Asked' /\ request' \in [Clients -> Requests]
        BY <1>1, AskedKept DEF IInv, Shape
    <1>4. QED
        BY <1>1, <1>2, <1>3, JobsChange

\* A free job taken, or a job's worker done: only the job, its lock and its worker change.
LEMMA JobTaken ==
    ASSUME IInv, NEW f \in Freezes, NEW w \in Builds, NEW o \in {None, f}, NEW j \in Jobs \cup {None},
           UNCHANGED <<now, source, tokens, state, history, snaps, digest, leases, holds, request, deleting>>,
           worker' = [worker EXCEPT ![f] = w], owner' = [owner EXCEPT ![f] = o],
           freezes' = [freezes EXCEPT ![f] = j],
           w.pc # "idle" => o = f /\ j \in Jobs,
           w.pc \in {"idle", "settle"}, worker[f].pc \notin {"settle", "reserve"},
           \A a \in Actors : deleting[a] # None /\ deleting[a].pub # None => deleting[a].pub.build # f,
           j # None /\ j.state = "ready" => j.snapshot \in Tags
    PROVE  IInv'
    <1>1. /\ worker' \in [Freezes -> Builds] /\ owner' \in [Freezes -> Freezes \cup {Sweeper, None}]
          /\ freezes' \in [Freezes -> Jobs \cup {None}]
          /\ worker'[f] = w /\ owner'[f] = o /\ freezes'[f] = j
          /\ \A g \in Freezes : g # f => worker'[g] = worker[g] /\ owner'[g] = owner[g] /\ freezes'[g] = freezes[g]
        BY DEF IInv, Shape
    <1>2. Shape'
        BY <1>1 DEF IInv, Shape
    <1>3. CrewOf(f)'
        BY <1>1 DEF CrewOf
    <1>4. Crew'
        BY <1>1, <1>3, CrewKept DEF IInv
    <1>5. Settles'
        <2>1. ASSUME NEW a \in Actors, deleting[a] # None
              PROVE  SettledBy(a)'
            <3>1. SettledBy(a)
                BY DEF IInv, Settles
            <3>2. CASE deleting[a].pub = None
                BY <3>1, <3>2 DEF SettledBy
            <3>3. CASE deleting[a].pub # None
                <4>1. deleting[a].pub.build \in Freezes /\ deleting[a].pub.build # f
                    BY <2>1, <3>3 DEF IInv, Shape, Removals, Publications
                <4>2. a = f => worker[a].pc \in {"settle", "reserve"}
                    BY <2>1, <3>1, <3>3 DEF SettledBy
                <4>3. QED
                    BY <1>1, <3>1, <4>1, <4>2 DEF SettledBy, Pub
            <3>4. QED
                BY <3>2, <3>3
        <2>2. QED
            BY <2>1 DEF Settles, SettledBy
    <1>6. Numbers'
        <2>1. state.disk.greatest <= state'.disk.greatest /\ state'.disk.greatest <= state'.seen.greatest
            BY DEF IInv, Shape, States, Numbers
        <2>2. \A g \in Freezes : Publishes(g)' =>
                  Publishes(g) /\ worker'[g].tag = worker[g].tag /\ freezes'[g].conv = freezes[g].conv
            BY <1>1 DEF Publishes
        <2>3. QED
            BY <1>2, <2>1, <2>2, NumbersKept DEF IInv
    <1>7. HeldTrees' /\ Asked'
        BY HoldsStay DEF TreesStay, Pub
    <1>8. QED
        BY <1>2, <1>4, <1>5, <1>6, <1>7 DEF IInv

LEMMA ClaimFreezeStep ==
    ASSUME IInv, NEW f \in Freezes, ClaimFreeze(f)
    PROVE  IInv'
    <1>1. UNCHANGED <<now, source, tokens, state, history, snaps, digest, leases, holds, request, deleting>>
        BY DEF ClaimFreeze, clock
    <1>2. owner[f] = None /\ freezes[f] \in Jobs /\ freezes[f].state = "building"
        BY DEF ClaimFreeze, IInv, Shape
    <1>3. worker[f].pc = "idle"
        BY <1>2, NamesApart DEF IInv, Crew, CrewOf
    <1>4. \A a \in Actors : deleting[a] # None /\ deleting[a].pub # None => deleting[a].pub.build # f
        <2>1. \A a \in Actors : a # None
            BY NamesApart DEF Actors
        <2>2. QED
            BY <1>2, <2>1, SettledFacts DEF IInv
    <1>5. PICK k \in {0, 1}, shown \in BOOLEAN :
              LET j == Claimed(freezes[f])
                  runs == k = 0 /\ j.state = "building"
              IN  /\ freezes' = IF k = 0 \/ shown THEN [freezes EXCEPT ![f] = j] ELSE freezes
                  /\ worker' = IF runs THEN [worker EXCEPT ![f] = [Idle EXCEPT !.pc = "settle"]] ELSE worker
                  /\ owner' = IF runs THEN [owner EXCEPT ![f] = f] ELSE owner
        BY DEF ClaimFreeze
    <1>6. PICK j \in Jobs : j = Claimed(freezes[f]) /\ j.state # "ready"
        BY <1>2, ClaimedJob DEF IInv, Shape
    <1>7. CASE k = 0 /\ j.state = "building"
        <2> DEFINE i == [Idle EXCEPT !.pc = "settle"]
        <2>a. i \in Builds /\ i.pc = "settle"
            BY DEF Builds, Idle, WorkerPCs
        <2>1. PICK w \in Builds : w = i /\ w.pc = "settle"
            BY <2>a
        <2>2. worker' = [worker EXCEPT ![f] = w] /\ owner' = [owner EXCEPT ![f] = f]
                  /\ freezes' = [freezes EXCEPT ![f] = j]
            BY <1>5, <1>6, <1>7, <2>1
        <2>3. QED
            BY <1>1, <1>3, <1>4, <1>6, <2>1, <2>2, JobTaken, NamesApart
    <1>8. CASE ~(k = 0 /\ j.state = "building")
        <2>1. UNCHANGED <<worker, owner>> /\ freezes' \in {freezes, [freezes EXCEPT ![f] = j]}
            BY <1>5, <1>6, <1>8
        <2>2. Asked' /\ request' \in [Clients -> Requests]
            BY <1>1, AskedKept DEF IInv, Shape
        <2>3. QED
            BY <1>1, <1>2, <1>6, <2>1, <2>2, JobsChange
    <1>9. QED
        BY <1>7, <1>8

\* What a job is once its worker is at its end.
LEMMA FinishedJob ==
    ASSUME IInv, NEW f \in Freezes, FinishFreeze(f)
    PROVE  \E j \in Jobs :
              /\ freezes' \in {[freezes EXCEPT ![f] = j], freezes}
              /\ j.state = "ready" => j.snapshot \in Tags
              /\ j.state = worker[f].pc /\ j.conv = ConvOf(f)
              /\ j.state = "ready" => j.snapshot = worker[f].tag
    <1>1. PICK k \in {0, 1}, shown \in BOOLEAN :
              LET ready == worker[f].pc = "ready"
                  j == [NewJob(ConvOf(f)) EXCEPT !.state = worker[f].pc, !.finished = IF ready THEN 0 ELSE now,
                                                 !.snapshot = IF ready THEN worker[f].tag ELSE 0]
              IN  freezes' = IF k = 0 \/ shown THEN [freezes EXCEPT ![f] = j] ELSE freezes
        BY DEF FinishFreeze
    <1>2. worker[f].pc \in {"ready", "failed"}
        BY DEF FinishFreeze
    <1>3. /\ ConvOf(f) \in Conversations /\ now \in Nat /\ worker[f].tag \in Nat
          /\ worker[f].pc = "ready" => worker[f].tag \in Tags
        BY <1>2 DEF ConvOf, Jobs, IInv, Crew, CrewOf, Shape, Builds
    <1> DEFINE ready == worker[f].pc = "ready"
               fin == IF ready THEN 0 ELSE now
               s == IF ready THEN worker[f].tag ELSE 0
               j == [NewJob(ConvOf(f)) EXCEPT !.state = worker[f].pc, !.finished = fin, !.snapshot = s]
    <1>4. fin \in Nat /\ s \in Nat /\ (ready => s \in Tags /\ s = worker[f].tag)
        BY <1>3
    <1>5. /\ j \in Jobs /\ (j.state = "ready" => j.snapshot \in Tags)
          /\ j.state = worker[f].pc /\ j.conv = ConvOf(f)
          /\ j.state = "ready" => j.snapshot = worker[f].tag
        <2>1. PICK i : i = j
            OBVIOUS
        <2> HIDE DEF fin, s
        <2>2. i = [conv |-> ConvOf(f), attempt |-> 1, started |-> FALSE, state |-> worker[f].pc,
                   snapshot |-> s, finished |-> fin]
            BY <2>1 DEF NewJob
        <2> HIDE DEF j
        <2>3. i \in Jobs
            BY <1>2, <1>3, <1>4, <2>2 DEF Jobs
        <2>4. i.state = "ready" => i.snapshot \in Tags /\ i.snapshot = worker[f].tag
            BY <1>4, <2>2
        <2>5. i.state = worker[f].pc /\ i.conv = ConvOf(f)
            BY <2>2
        <2>6. QED
            BY <2>1, <2>3, <2>4, <2>5
    <1>6. freezes' \in {[freezes EXCEPT ![f] = j], freezes}
        BY <1>1
    <1> HIDE DEF j
    <1>7. QED
        BY <1>5, <1>6

LEMMA FinishFreezeStep ==
    ASSUME IInv, NEW f \in Freezes, FinishFreeze(f)
    PROVE  IInv'
    <1>1. /\ UNCHANGED <<now, source, tokens, state, history, snaps, digest, leases, holds, request, deleting>>
          /\ worker' = [worker EXCEPT ![f] = Idle] /\ owner' = [owner EXCEPT ![f] = None]
        BY DEF FinishFreeze, clock
    <1>2. worker[f].pc \in {"ready", "failed"}
        BY DEF FinishFreeze
    <1>3. owner[f] = f /\ freezes[f] \in Jobs /\ (worker[f].pc = "ready" => worker[f].tag \in Tags)
        BY <1>2 DEF IInv, Crew, CrewOf
    <1>4. \A a \in Actors : deleting[a] # None /\ deleting[a].pub # None => deleting[a].pub.build # f
        <2>1. ASSUME NEW a \in Actors, deleting[a] # None, deleting[a].pub # None, deleting[a].pub.build = f
              PROVE  FALSE
            <3>1. a = f
                BY <1>3, <2>1, SettledFacts DEF IInv
            <3>2. worker[f].pc = "settle"
                BY <2>1, <3>1, SettledFacts DEF IInv
            <3>3. QED
                BY <1>2, <3>2
        <2>2. QED
            BY <2>1
    <1>5. PICK j \in Jobs :
              /\ freezes' \in {[freezes EXCEPT ![f] = j], freezes}
              /\ j.state = "ready" => j.snapshot \in Tags
        BY FinishedJob
    <1>6. PICK i \in Jobs \cup {None} : freezes' = [freezes EXCEPT ![f] = i]
              /\ (i # None /\ i.state = "ready" => i.snapshot \in Tags)
        <2>1. CASE freezes' = freezes
            <3>1. freezes = [freezes EXCEPT ![f] = freezes[f]]
                BY DEF IInv, Shape
            <3>2. freezes[f] # None /\ freezes[f].state = "ready" => freezes[f].snapshot \in Tags
                BY DEF IInv, Crew, CrewOf
            <3>3. QED
                BY <1>3, <2>1, <3>1, <3>2
        <2>2. CASE freezes' = [freezes EXCEPT ![f] = j]
            BY <1>5, <2>2
        <2>3. QED
            BY <1>5, <2>1, <2>2
    <1>7. Idle \in Builds /\ Idle.pc = "idle"
        BY DEF Idle, Builds, WorkerPCs
    <1>8. QED
        BY <1>1, <1>2, <1>4, <1>6, <1>7, JobTaken

\* An expiry committed, or a supersession written again.
LEMMA ExpiryWritten ==
    ASSUME Shape, NEW s \in Snapshots, NEW k, NEW shown,
           snaps' = [snaps EXCEPT ![s].use = CommitExpiry(s, k, shown)]
    PROVE  snaps' \in [Snapshots -> Trees] /\ TreesStay
    <1>1. CommitExpiry(s, k, shown) \in [seen : Uses, disk : Uses]
        BY UsesMade, UseWrite DEF CommitExpiry
    <1>2. snaps \in [Snapshots -> Trees]
        BY DEF Shape
    <1>3. QED
        BY <1>1, <1>2, UseSet DEF TreesStay

LEMMA MarkCommitted ==
    ASSUME Shape, NEW s \in Snapshots, NEW k, NEW shown, NEW at
    PROVE  CommitMark(s, k, shown, at) \in [seen : Nat, disk : Nat]
    <1>1. snaps[s].superseded.seen \in Nat
        BY DEF Shape, Trees
    <1>2. QED
        BY <1>1, MarkWrite DEF CommitMark

LEMMA MarkedAnew ==
    ASSUME Shape, NEW s \in Snapshots, NEW k, NEW shown,
           snaps' = [snaps EXCEPT ![s].superseded = CommitMark(s, k, shown, 1)]
    PROVE  snaps' \in [Snapshots -> Trees] /\ TreesStay
    <1>1. snaps \in [Snapshots -> Trees]
        BY DEF Shape
    <1>2. CommitMark(s, k, shown, 1) \in [seen : Nat, disk : Nat]
        BY MarkCommitted
    <1>3. QED
        BY <1>1, <1>2, MarkSet DEF TreesStay

LEMMA FreshBuilds ==
    ASSUME IInv, NEW f \in Freezes, FreshBuild(f)
    PROVE  /\ worker' \in [Freezes -> Builds] /\ worker'[f].pc \in {"read", "failed"}
           /\ \A g \in Freezes : g # f => worker'[g] = worker[g]
    <1>1. CASE Step(f, "failed")
        BY <1>1, StepFacts DEF WorkerPCs, IInv
    <1>2. CASE worker' = [worker EXCEPT ![f].pc = "read", ![f].ver = source[ConvOf(f)], ![f].tries = @ + 1]
        <2>0. worker[f].pc = "settle"
            BY DEF FreshBuild, At
        <2>1. worker[f] \in Builds /\ source[ConvOf(f)] \in Nat /\ worker[f].tries + 1 \in Nat
            BY <2>0 DEF IInv, Shape, Builds, Crew, CrewOf, Jobs, ConvOf
        <2> DEFINE v == source[ConvOf(f)]
                   n == worker[f].tries + 1
        <2>2. PICK w : w = [worker[f] EXCEPT !.pc = "read", !.ver = v, !.tries = n]
            OBVIOUS
        <2>3. worker' = [worker EXCEPT ![f] = w]
            BY <1>2, <2>2
        <2> HIDE DEF v, n
        <2>4. w \in Builds /\ w.pc = "read"
            BY <2>1, <2>2 DEF Builds, WorkerPCs, v, n
        <2>5. QED
            BY <2>3, <2>4 DEF IInv, Shape
    <1>3. QED
        BY <1>1, <1>2 DEF FreshBuild

LEMMA FreshBuildStep ==
    ASSUME IInv, NEW f \in Freezes, FreshBuild(f)
    PROVE  IInv'
    <1>1. /\ UNCHANGED <<now, source, tokens, state, history, snaps, digest, leases, freezes, owner, holds, request,
              deleting>>
          /\ worker[f].pc = "settle" /\ (Pub # None => Pub.build # f)
        BY DEF FreshBuild, At, clock, locks
    <1>2. deleting[f] = None \/ deleting[f].pub = None
        BY <1>1, SettledFacts, NamesApart DEF IInv
    <1>3. /\ worker' \in [Freezes -> Builds] /\ worker'[f].pc \in {"read", "failed"}
          /\ \A g \in Freezes : g # f => worker'[g] = worker[g]
        BY FreshBuilds
    <1>4. Shape'
        BY <1>1, <1>3 DEF IInv, Shape
    <1>5. TreesStay /\ Pub' \in {Pub, None}
        BY <1>1 DEF TreesStay, Pub
    <1>6. Crew' /\ Settles' /\ Numbers'
        BY <1>1, <1>2, <1>3, <1>4, <1>5, WorkerMoves DEF Publishes
    <1>7. HeldTrees' /\ Asked'
        BY <1>1, <1>5, HoldsStay
    <1>8. QED
        BY <1>4, <1>6, <1>7 DEF IInv

\* A worker that takes a plain step, away from any settling.
LEMMA PlainStep ==
    ASSUME IInv, NEW f \in Freezes, NEW pc \in WorkerPCs \ {"idle"}, Step(f, pc),
           worker[f].pc \notin {"idle", "settle", "reserve"},
           pc \in {"check", "finish", "publish", "ready"} => worker[f].tag \in Tags,
           pc \in {"finish", "publish"} => Publishes(f),
           UNCHANGED <<now, source, tokens, state, history, digest, leases, freezes, owner, request, deleting>>,
           snaps' \in [Snapshots -> Trees], TreesStay, HeldTrees', Asked', holds' \in [Snapshots -> SUBSET Holders]
    PROVE  IInv'
    <1>1. /\ worker' \in [Freezes -> Builds] /\ worker'[f].pc = pc /\ worker'[f].tag = worker[f].tag
          /\ \A g \in Freezes : g # f => worker'[g] = worker[g]
        BY StepFacts DEF IInv
    <1>2. Shape'
        BY <1>1 DEF IInv, Shape
    <1>3. deleting[f] = None \/ deleting[f].pub = None
        BY NotSettling DEF IInv
    <1>4. Crew' /\ Settles' /\ Numbers'
        BY <1>1, <1>2, <1>3, WorkerMoves DEF Publishes
    <1>5. QED
        BY <1>2, <1>4 DEF IInv

LEMMA ReadSourceStep ==
    ASSUME IInv, NEW f \in Freezes, ReadSource(f)
    PROVE  IInv'
    <1>1. /\ UNCHANGED <<now, source, tokens, state, history, snaps, digest, leases, freezes, owner, holds, request,
              deleting>>
          /\ worker[f].pc = "read"
        BY DEF ReadSource, At, clock, locks, disk
    <1>2. PICK pc \in {"settle", "reuse", "failed"} : Step(f, pc)
        BY DEF ReadSource
    <1>3. TreesStay /\ Pub' \in {Pub, None} /\ snaps' \in [Snapshots -> Trees] /\ holds' \in [Snapshots -> SUBSET Holders]
        BY <1>1 DEF TreesStay, Pub, IInv, Shape
    <1>4. HeldTrees' /\ Asked'
        BY <1>1, <1>3, HoldsStay
    <1>5. QED
        BY <1>1, <1>2, <1>3, <1>4, PlainStep DEF WorkerPCs

LEMMA FinishTreeStep ==
    ASSUME IInv, NEW f \in Freezes, FinishTree(f)
    PROVE  IInv'
    <1>1. /\ UNCHANGED <<now, source, tokens, state, history, snaps, digest, leases, freezes, owner, holds, request,
              deleting>>
          /\ worker[f].pc = "finish"
        BY DEF FinishTree, At, clock, locks
    <1>2. PICK pc \in {"publish", "failed"} : Step(f, pc)
        BY DEF FinishTree
    <1>3. TreesStay /\ Pub' \in {Pub, None} /\ snaps' \in [Snapshots -> Trees] /\ holds' \in [Snapshots -> SUBSET Holders]
        BY <1>1 DEF TreesStay, Pub, IInv, Shape
    <1>4. HeldTrees' /\ Asked'
        BY <1>1, <1>3, HoldsStay
    <1>5. Publishes(f) /\ worker[f].tag \in Tags
        BY <1>1 DEF Publishes, IInv, Crew, CrewOf
    <1>6. QED
        BY <1>1, <1>2, <1>3, <1>4, <1>5, PlainStep DEF WorkerPCs

LEMMA ReuseStep ==
    ASSUME IInv, NEW f \in Freezes, Reuse(f)
    PROVE  IInv'
    <1>1. /\ UNCHANGED <<now, source, tokens, state, history, digest, leases, freezes, owner, request, deleting>>
          /\ worker[f].pc = "reuse" /\ ConvOf(f) \in Conversations
        BY DEF Reuse, At, clock, IInv, Crew, CrewOf, Jobs, ConvOf
    <1>2. Pub' \in {Pub, None}
        BY <1>1 DEF Pub
    <1>3. ASSUME NEW pc \in {"reserve", "failed"}, Step(f, pc), UNCHANGED holds,
                 snaps' \in [Snapshots -> Trees], TreesStay
          PROVE  IInv'
        <2>1. HeldTrees' /\ Asked'
            BY <1>1, <1>2, <1>3, HoldsStay
        <2>2. holds' \in [Snapshots -> SUBSET Holders]
            BY <1>3 DEF IInv, Shape
        <2>3. QED
            BY <1>1, <1>3, <2>1, <2>2, PlainStep DEF WorkerPCs
    <1>4. CASE TagsOf(ConvOf(f)) = {} /\ Step(f, "reserve") /\ UNCHANGED <<snaps, holds, faults>>
        BY <1>3, <1>4 DEF TreesStay, IInv, Shape
    <1>5. ASSUME NEW t \in TagsOf(ConvOf(f)), ReuseOf(f, <<ConvOf(f), t>>)
          PROVE  IInv'
        <2>1. PICK s \in Snapshots : s = <<ConvOf(f), t>> /\ s[2] = t /\ t \in Tags
            BY <1>1 DEF Snapshots, TagsOf
        <2>2. PICK k \in {0, 1}, shown \in BOOLEAN :
                  \/ /\ Step(f, "reserve") /\ UNCHANGED <<snaps, holds, faults>>
                  \/ /\ Step(f, "failed") /\ UNCHANGED <<snaps, holds, faults>>
                  \/ /\ snaps' = IF Life(s) = "expired"
                                 THEN [snaps EXCEPT ![s].use = CommitExpiry(s, k, shown)]
                                 ELSE [snaps EXCEPT ![s].superseded = CommitMark(s, k, shown, 1)]
                     /\ Step(f, IF k = 0 THEN "reserve" ELSE "failed") /\ UNCHANGED holds
                  \/ /\ Eligible(f, s)
                     /\ holds' = [holds EXCEPT ![s] = @ \cup {f}]
                     /\ worker' = [worker EXCEPT ![f].pc = "check", ![f].tag = s[2]]
                     /\ UNCHANGED <<snaps, faults>>
            BY <1>5, <2>1 DEF ReuseOf
        <2>3. CASE \E pc \in {"reserve", "failed"} : Step(f, pc) /\ UNCHANGED <<snaps, holds, faults>>
            BY <1>3, <2>3 DEF TreesStay, IInv, Shape
        <2>4. CASE /\ snaps' = IF Life(s) = "expired"
                               THEN [snaps EXCEPT ![s].use = CommitExpiry(s, k, shown)]
                               ELSE [snaps EXCEPT ![s].superseded = CommitMark(s, k, shown, 1)]
                   /\ Step(f, IF k = 0 THEN "reserve" ELSE "failed") /\ UNCHANGED holds
            <3>1. snaps' \in [Snapshots -> Trees] /\ TreesStay
                BY <2>4, ExpiryWritten, MarkedAnew DEF IInv
            <3>2. PICK pc \in {"reserve", "failed"} : Step(f, pc)
                BY <2>4
            <3>3. QED
                BY <1>3, <2>4, <3>1, <3>2
        <2>5. CASE /\ Eligible(f, s)
                   /\ holds' = [holds EXCEPT ![s] = @ \cup {f}]
                   /\ worker' = [worker EXCEPT ![f].pc = "check", ![f].tag = s[2]]
                   /\ UNCHANGED <<snaps, faults>>
            <3>1. HeldTrees'
                BY <1>1, <2>5, HeldMore DEF Eligible, IInv
            <3>2. /\ holds' \in [Snapshots -> SUBSET Holders]
                  /\ \A q \in Clients, x \in Snapshots : q \in holds[x] => q \in holds'[x]
                BY <2>5 DEF IInv, Shape, Holders
            <3>3. Asked'
                BY <1>1, <3>2, AskedKept DEF IInv
            <3>4. PICK w : w = [worker[f] EXCEPT !.pc = "check", !.tag = t]
                OBVIOUS
            <3>5. worker' = [worker EXCEPT ![f] = w]
                BY <2>1, <2>5, <3>4
            <3>6. w \in Builds /\ w.pc = "check" /\ w.tag = t
                <4>1. t \in Nat /\ worker[f] \in Builds
                    BY <2>1 DEF Tags, IInv, Shape
                <4>2. QED
                    BY <3>4, <4>1 DEF Builds, WorkerPCs
            <3>7. /\ worker' \in [Freezes -> Builds] /\ worker'[f] = w
                  /\ \A g \in Freezes : g # f => worker'[g] = worker[g]
                BY <3>5, <3>6 DEF IInv, Shape
            <3>8. Shape'
                BY <1>1, <2>5, <3>2, <3>7 DEF IInv, Shape
            <3>9. deleting[f] = None \/ deleting[f].pub = None
                BY <1>1, NotSettling DEF IInv
            <3>10. Crew' /\ Settles' /\ Numbers'
                <4>1. TreesStay /\ ~Publishes(f)' /\ worker'[f].tag \in Tags
                    BY <2>1, <2>5, <3>6, <3>7 DEF Publishes, TreesStay
                <4>2. worker[f].pc # "idle" /\ worker'[f].pc # "idle"
                    BY <1>1, <3>6, <3>7
                <4>3. QED
                    BY <1>1, <3>7, <3>8, <3>9, <4>1, <4>2, WorkerMoves
            <3>11. QED
                BY <3>1, <3>3, <3>8, <3>10 DEF IInv
        <2>6. QED
            BY <2>2, <2>3, <2>4, <2>5
    <1>6. QED
        BY <1>4, <1>5 DEF Reuse

LEMMA CheckReuseStep ==
    ASSUME IInv, NEW f \in Freezes, CheckReuse(f)
    PROVE  IInv'
    <1>1. /\ UNCHANGED <<now, source, tokens, state, history, digest, leases, freezes, owner, request, deleting>>
          /\ worker[f].pc = "check" /\ ConvOf(f) \in Conversations /\ worker[f].tag \in Tags
        BY DEF CheckReuse, At, clock, IInv, Crew, CrewOf, Jobs, ConvOf
    <1>2. PICK s \in Snapshots : s = <<ConvOf(f), worker[f].tag>>
        BY <1>1 DEF Snapshots
    <1>3. holds' = [holds EXCEPT ![s] = @ \ {f}]
        BY <1>2 DEF CheckReuse
    <1>4. PICK k \in {0, 1}, shown \in BOOLEAN :
              IF Life(s) = "expired"
              THEN /\ snaps' = [snaps EXCEPT ![s].use = CommitExpiry(s, k, shown)]
                   /\ Step(f, IF k = 0 THEN "reserve" ELSE "failed")
              ELSE UNCHANGED <<snaps, faults>> /\ Step(f, IF Eligible(f, s) THEN "ready" ELSE "reserve")
        BY <1>2 DEF CheckReuse
    <1>5. snaps' \in [Snapshots -> Trees] /\ TreesStay
        BY <1>4, ExpiryWritten DEF IInv, Shape, TreesStay
    <1>6. PICK pc \in {"reserve", "failed", "ready"} : Step(f, pc)
        BY <1>4
    <1>7. /\ holds' \in [Snapshots -> SUBSET Holders] /\ \A x \in Snapshots : holds'[x] \subseteq holds[x]
          /\ \A q \in Clients, x \in Snapshots : q \in holds[x] => q \in holds'[x]
        BY <1>3, NamesApart DEF IInv, Shape
    <1>8. HeldTrees'
        BY <1>1, <1>5, <1>7, HeldKept DEF IInv, Pub, Here, TreesStay
    <1>9. Asked'
        BY <1>1, <1>7, AskedKept DEF IInv
    <1>10. QED
        BY <1>1, <1>5, <1>6, <1>7, <1>8, <1>9, PlainStep DEF WorkerPCs

-----------------------------------------------------------------------------
(* Tags reserved and published.                                              *)

LEMMA GreatestFacts ==
    ASSUME NEW a \in Nat, NEW b \in Nat
    PROVE  Greatest(a, b) \in Nat /\ a <= Greatest(a, b) /\ b <= Greatest(a, b)
    BY DEF Greatest

LEMMA HistoryWritten ==
    ASSUME Shape, NEW c \in Conversations, NEW h \in Histories, NEW k, NEW shown, NEW at,
           history' = [history EXCEPT ![c] = Write(k, shown, at, history[c], h)]
    PROVE  history' \in [Conversations -> [seen : Histories, disk : Histories]]
    <1>1. Write(k, shown, at, history[c], h) \in [seen : Histories, disk : Histories]
        BY WriteFacts DEF Shape
    <1>2. QED
        BY <1>1 DEF Shape

LEMMA TagHistories ==
    ASSUME NEW h \in Histories, NEW t \in Nat
    PROVE  Given(h, t) \in Histories /\ Taken(h, t) \in Histories
    <1>1. h.greatest \in Nat /\ h.removed \in SUBSET Nat
        BY DEF Histories
    <1>2. Greatest(h.greatest, t) \in Nat
        BY <1>1, GreatestFacts
    <1>3. Taken(h, t) \in Histories
        BY <1>1, <1>2 DEF Taken, Histories
    <1>4. \A n \in Nat : [h EXCEPT !.greatest = n] \in Histories
        BY DEF Histories
    <1>5. QED
        BY <1>2, <1>3, <1>4 DEF Given

\* The root's state written: its greatest tag never falls behind the disk's.
LEMMA StateWritten ==
    ASSUME Shape, Numbers, NEW v \in States, state.seen.greatest <= v.greatest,
           NEW k, NEW shown, NEW at, state' = Write(k, shown, at, state, v)
    PROVE  /\ state' \in [seen : States, disk : States]
           /\ state.disk.greatest <= state'.disk.greatest /\ state'.disk.greatest <= state'.seen.greatest
           /\ Pub' \in {v.pub, Pub}
           /\ k = 0 => state' = Rec(v)
    <1>1. state \in [seen : States, disk : States]
        BY DEF Shape
    <1>2. /\ state' \in [seen : States, disk : States]
          /\ state' = Rec(v) \/ (state'.disk = state.disk /\ state'.seen \in {v, state.seen})
          /\ k = 0 => state' = Rec(v)
        BY <1>1, WriteFacts
    <1>3. state.disk.greatest \in Nat /\ state.seen.greatest \in Nat /\ v.greatest \in Nat
        BY <1>1 DEF States
    <1>4. state.disk.greatest <= state.seen.greatest
        BY DEF Numbers
    <1>5. state.disk.greatest <= v.greatest
        BY <1>3, <1>4
    <1>6. CASE state' = Rec(v)
        <2>1. state'.seen = v /\ state'.disk = v
            BY <1>6, RecFields
        <2>2. QED
            BY <1>2, <1>3, <1>5, <2>1 DEF Pub
    <1>7. CASE state'.disk = state.disk /\ state'.seen \in {v, state.seen}
        BY <1>2, <1>3, <1>4, <1>5, <1>7 DEF Pub
    <1>8. QED
        BY <1>2, <1>6, <1>7

\* A tag that is reserved names nothing and nobody holds it.
LEMMA NextTagNew ==
    ASSUME Shape, Numbers, HeldTrees, NEW c \in Conversations, NextTag(c) \in Tags
    PROVE  /\ NextTag(c) \in Nat /\ state.seen.greatest < NextTag(c) /\ state.disk.greatest < NextTag(c)
           /\ digest[<<c, NextTag(c)>>] = None /\ holds[<<c, NextTag(c)>>] = {}
           /\ <<c, NextTag(c)>> \in Snapshots
    <1>1. /\ state.seen.greatest \in Nat /\ state.disk.greatest \in Nat /\ history[c].seen.greatest \in Nat
          /\ state.disk.greatest <= state.seen.greatest
        BY DEF Shape, States, Histories, Numbers
    <1>2. NextTag(c) \in Nat /\ state.seen.greatest < NextTag(c) /\ state.disk.greatest < NextTag(c)
        <2> DEFINE g == Greatest(state.seen.greatest, history[c].seen.greatest)
        <2>1. g \in Nat /\ state.seen.greatest <= g
            BY <1>1, GreatestFacts
        <2>2. NextTag(c) = g + 1
            BY DEF NextTag
        <2> HIDE DEF g
        <2>3. QED
            BY <1>1, <2>1, <2>2
    <1> DEFINE t == NextTag(c)
    <1> HIDE DEF t
    <1>0. <<c, t>> \in Snapshots
        BY DEF Snapshots, t
    <1>3. PICK s \in Snapshots : s = <<c, NextTag(c)>> /\ s[2] = NextTag(c)
        BY <1>0 DEF t
    <1>4. ~(s[2] <= state.disk.greatest)
        BY <1>1, <1>2, <1>3
    <1>5. digest[s] = None /\ snaps[s].tree = Rec("none")
        BY <1>4 DEF Numbers
    <1>6. ~Here(s)
        BY <1>5, RecFields DEF Here
    <1>7. QED
        BY <1>2, <1>3, <1>5, <1>6 DEF HeldTrees

LEMMA ReserveStep ==
    ASSUME IInv, NEW f \in Freezes, Reserve(f)
    PROVE  IInv'
    <1>1. /\ UNCHANGED <<now, source, tokens, snaps, digest, leases, freezes, owner, holds, request, deleting>>
          /\ worker[f].pc = "reserve" /\ Pub = None
        BY DEF Reserve, At, clock, locks
    <1>2. ConvOf(f) \in Conversations /\ worker[f] \in Builds
        BY <1>1 DEF IInv, Crew, CrewOf, Jobs, ConvOf, Shape
    <1>3. PICK c \in Conversations, tag \in Tags : c = ConvOf(f) /\ tag = NextTag(c)
        BY <1>2 DEF Reserve
    <1>4. /\ tag \in Nat /\ state.seen.greatest < tag /\ state.disk.greatest < tag
          /\ digest[<<c, tag>>] = None /\ holds[<<c, tag>>] = {} /\ <<c, tag>> \in Snapshots
        BY <1>3, NextTagNew DEF IInv
    <1>5. PICK p : p = [conv |-> c, build |-> f, tag |-> tag, digest |-> worker[f].ver]
        OBVIOUS
    <1>6. p \in Publications
        BY <1>2, <1>5 DEF Publications, Builds
    <1>7. PICK v : v = [greatest |-> tag, pub |-> p]
        OBVIOUS
    <1>8. v \in States /\ v.greatest = tag /\ v.pub = p
        BY <1>4, <1>6, <1>7 DEF States
    <1>9. PICK k \in 0 .. 2, shown \in BOOLEAN :
              /\ state' = Write(k, shown, 1, state, v)
              /\ history' = [history EXCEPT ![c] = Write(k, shown, 2, @, Given(@.seen, tag))]
              /\ worker' = [worker EXCEPT ![f].pc = IF k = 0 THEN "finish" ELSE "failed", ![f].tag = tag]
        BY <1>3, <1>5, <1>7 DEF Reserve
    <1>10. /\ state' \in [seen : States, disk : States]
           /\ state.disk.greatest <= state'.disk.greatest /\ state'.disk.greatest <= state'.seen.greatest
           /\ Pub' \in {p, Pub}
           /\ k = 0 => state' = Rec(v)
        <2>1. state.seen.greatest <= v.greatest
            BY <1>4, <1>8 DEF IInv, Shape, States
        <2>2. QED
            BY <1>8, <1>9, <2>1, StateWritten DEF IInv
    <1>11. history' \in [Conversations -> [seen : Histories, disk : Histories]]
        <2>1. Given(history[c].seen, tag) \in Histories
            BY <1>4, TagHistories DEF IInv, Shape
        <2>2. QED
            BY <1>9, <2>1, HistoryWritten DEF IInv
    <1>12. /\ worker' \in [Freezes -> Builds] /\ worker'[f].pc = (IF k = 0 THEN "finish" ELSE "failed")
           /\ worker'[f].tag = tag /\ \A g \in Freezes : g # f => worker'[g] = worker[g]
        <2> DEFINE pc == IF k = 0 THEN "finish" ELSE "failed"
        <2>1. pc \in WorkerPCs
            BY DEF WorkerPCs
        <2>2. PICK w : w = [worker[f] EXCEPT !.pc = pc, !.tag = tag]
            OBVIOUS
        <2>3. worker' = [worker EXCEPT ![f] = w]
            BY <1>9, <2>2
        <2> HIDE DEF pc
        <2>4. w \in Builds /\ w.pc = pc /\ w.tag = tag
            BY <1>2, <1>4, <2>1, <2>2 DEF Builds
        <2>5. worker' \in [Freezes -> Builds] /\ worker'[f] = w /\ \A g \in Freezes : g # f => worker'[g] = worker[g]
            BY <2>3, <2>4 DEF IInv, Shape
        <2>6. QED
            BY <2>4, <2>5 DEF pc
    <1>13. Shape'
        BY <1>1, <1>10, <1>11, <1>12 DEF IInv, Shape
    <1>14. Crew'
        <2>1. CrewOf(f)'
            BY <1>1, <1>12 DEF IInv, Crew, CrewOf
        <2>2. QED
            BY <1>1, <1>12, <2>1, CrewKept DEF IInv
    <1>15. Settles'
        BY <1>1 DEF IInv, Settles, SettledBy
    <1>16. Numbers'
        <2>1. \A s \in Snapshots : (digest[s] # None \/ snaps[s].tree # Rec("none"))' => s[2] <= state'.disk.greatest
            <3>1. \A s \in Snapshots : s[2] \in Nat
                BY DEF Snapshots, Tags
            <3>2. state.disk.greatest \in Nat /\ state'.disk.greatest \in Nat
                BY <1>13 DEF IInv, Shape, States
            <3>3. QED
                BY <1>1, <1>10, <3>1, <3>2 DEF IInv, Numbers, Rec
        <2>2. ASSUME NEW g \in Freezes, Publishes(g)'
              PROVE  /\ worker'[g].tag <= state'.disk.greatest
                     /\ digest[<<ConvOf(g), worker'[g].tag>>] = None
                     /\ worker'[g].tag = tag => g = f
            <3>1. CASE g = f
                <4>1. state'.disk.greatest = tag
                    BY <1>8, <1>10, <1>12, <2>2, <3>1, RecFields DEF Publishes
                <4>2. QED
                    BY <1>3, <1>4, <1>12, <3>1, <4>1
            <3>2. CASE g # f
                <4>1. Publishes(g) /\ worker'[g].tag = worker[g].tag /\ worker[g].tag \in Nat
                    BY <1>12, <2>2, <3>2 DEF Publishes, IInv, Shape, Builds
                <4>2. worker[g].tag <= state.disk.greatest /\ digest[<<ConvOf(g), worker[g].tag>>] = None
                    BY <4>1 DEF IInv, Numbers
                <4>3. state.disk.greatest \in Nat /\ state'.disk.greatest \in Nat
                    BY <1>13 DEF IInv, Shape, States
                <4>4. QED
                    BY <1>4, <1>10, <4>1, <4>2, <4>3
            <3>3. QED
                BY <3>1, <3>2
        <2>3. \A g, h \in Freezes : Publishes(g)' /\ Publishes(h)' /\ worker'[h].tag = worker'[g].tag => h = g
            <3>1. ASSUME NEW g \in Freezes, NEW h \in Freezes, Publishes(g)', Publishes(h)',
                         worker'[h].tag = worker'[g].tag, g # f, h # f
                  PROVE  h = g
                <4>1. Publishes(g) /\ Publishes(h) /\ worker[h].tag = worker[g].tag
                    BY <1>12, <3>1 DEF Publishes
                <4>2. QED
                    BY <4>1 DEF IInv, Numbers
            <3>2. QED
                BY <1>12, <2>2, <3>1
        <2>4. \A g \in Freezes : Publishes(g)' => digest'[<<ConvOf(g), worker[g].tag>>'] = None
            <3>1. \A g \in Freezes : <<ConvOf(g), worker[g].tag>>' = <<ConvOf(g), worker'[g].tag>>
                BY <1>1 DEF ConvOf
            <3>2. QED
                BY <1>1, <2>2, <3>1
        <2>5. QED
            BY <1>10, <2>1, <2>2, <2>3, <2>4 DEF Numbers
    <1>17. HeldTrees'
        <2>1. \A s \in Snapshots : Here(s)' = Here(s)
            BY <1>1 DEF Here
        <2>2. Pub' # None => holds[<<Pub.conv, Pub.tag>>'] = {}
            BY <1>1, <1>4, <1>5, <1>10
        <2>3. QED
            BY <1>1, <2>1, <2>2 DEF IInv, HeldTrees
    <1>18. Asked'
        BY <1>1, AskedKept DEF IInv
    <1>19. QED
        BY <1>13, <1>14, <1>15, <1>16, <1>17, <1>18 DEF IInv

\* A publication is the one intent, and nobody holds or settles it.
LEMMA PublishFacts ==
    ASSUME IInv, NEW f \in Freezes, Publish(f)
    PROVE  /\ worker[f].pc = "publish" /\ ConvOf(f) \in Conversations /\ worker[f].tag \in Tags /\ worker[f] \in Builds
           /\ <<ConvOf(f), worker[f].tag>> \in Snapshots
           /\ holds[<<ConvOf(f), worker[f].tag>>] = {} /\ digest[<<ConvOf(f), worker[f].tag>>] = None
           /\ Publishes(f) /\ worker[f].tag <= state.disk.greatest
           /\ \A a \in Actors : deleting[a] = None \/ deleting[a].pub = None
    <1>1. worker[f].pc = "publish" /\ Publishes(f)
        BY DEF Publish, At, Publishes
    <1>2. ConvOf(f) \in Conversations /\ worker[f].tag \in Tags /\ worker[f] \in Builds
        BY <1>1 DEF IInv, Crew, CrewOf, Jobs, ConvOf, Shape
    <1>3. Pub = [conv |-> ConvOf(f), build |-> f, tag |-> worker[f].tag, digest |-> worker[f].ver]
        BY DEF Publish
    <1>4. Pub # None /\ Pub.conv = ConvOf(f) /\ Pub.tag = worker[f].tag /\ Pub.build = f
        <2>1. PICK p : p = [conv |-> ConvOf(f), build |-> f, tag |-> worker[f].tag, digest |-> worker[f].ver]
            OBVIOUS
        <2>2. p \in Publications /\ p.conv = ConvOf(f) /\ p.tag = worker[f].tag /\ p.build = f
            BY <1>2, <2>1 DEF Publications, Builds
        <2>3. QED
            BY <1>3, <2>1, <2>2, PullNames
    <1>5. ASSUME NEW a \in Actors, deleting[a] # None, deleting[a].pub # None
          PROVE  FALSE
        <2>1. owner[f] = a
            BY <1>4, <1>5, SettledFacts DEF IInv
        <2>2. owner[f] = f
            BY <1>1 DEF IInv, Crew, CrewOf
        <2>3. worker[f].pc = "settle"
            BY <1>4, <1>5, <2>1, <2>2, SettledFacts DEF IInv
        <2>4. QED
            BY <1>1, <2>3
    <1>6. <<ConvOf(f), worker[f].tag>> \in Snapshots
        BY <1>2 DEF Snapshots
    <1>7. holds[<<ConvOf(f), worker[f].tag>>] = {}
        BY <1>4 DEF IInv, HeldTrees
    <1>8. digest[<<ConvOf(f), worker[f].tag>>] = None /\ worker[f].tag <= state.disk.greatest
        BY <1>1 DEF IInv, Numbers
    <1>9. QED
        BY <1>1, <1>2, <1>5, <1>6, <1>7, <1>8

\* All a publication writes.
Publishing(f, k, shown) ==
    /\ snaps' = [s \in Snapshots |->
          IF s = <<ConvOf(f), worker[f].tag>>
          THEN [snaps[s] EXCEPT !.tree = Write(k, shown, 1, @, "here"),
              !.use = Write(k, shown, worker[f].tag + 1, @, Use(now))]
          ELSE IF s[1] = ConvOf(f) /\ s[2] < worker[f].tag /\ Here(<<ConvOf(f), s[2]>>)
          THEN [snaps[s] EXCEPT !.superseded = Write(k, shown, 1 + s[2], @,
                   IF snaps[<<ConvOf(f), s[2]>>].superseded.seen = 0 THEN worker[f].tag
                       ELSE snaps[<<ConvOf(f), s[2]>>].superseded.seen)]
          ELSE snaps[s]]
    /\ digest' = IF k = 1 /\ ~shown THEN digest
         ELSE [digest EXCEPT ![<<ConvOf(f), worker[f].tag>>] = worker[f].ver]
    /\ state' = Write(k, shown, worker[f].tag + 2, state, [state.seen EXCEPT !.pub = None])
    /\ Step(f, IF k = 0 THEN "ready" ELSE "failed")

LEMMA PublishTaken ==
    ASSUME NEW f, Publish(f)
    PROVE  \E k \in {0} \cup 1 .. worker[f].tag + 2, shown \in BOOLEAN : Publishing(f, k, shown)
    BY ZenonT(120) DEF Publish, Publishing

LEMMA PublishStep ==
    ASSUME IInv, NEW f \in Freezes, Publish(f)
    PROVE  /\ IInv'
           /\ \A s \in Snapshots : digest[s] # None => digest'[s] = digest[s]
    <1>1. /\ worker[f].pc = "publish" /\ ConvOf(f) \in Conversations /\ worker[f].tag \in Tags /\ worker[f] \in Builds
          /\ <<ConvOf(f), worker[f].tag>> \in Snapshots
          /\ holds[<<ConvOf(f), worker[f].tag>>] = {} /\ digest[<<ConvOf(f), worker[f].tag>>] = None
          /\ Publishes(f) /\ worker[f].tag <= state.disk.greatest
          /\ \A a \in Actors : deleting[a] = None \/ deleting[a].pub = None
        BY PublishFacts
    <1>2. UNCHANGED <<now, source, tokens, history, leases, freezes, owner, holds, request, deleting>>
        BY DEF Publish, clock, locks
    <1>3. PICK c \in Conversations, t \in Tags, ss \in Snapshots :
              c = ConvOf(f) /\ t = worker[f].tag /\ ss = <<c, t>> /\ ss[1] = c /\ ss[2] = t
        BY <1>1
    <1>4. PICK k \in {0} \cup 1 .. t + 2, shown \in BOOLEAN :
              /\ snaps' = [s \in Snapshots |->
                    IF s = <<c, t>>
                    THEN [snaps[s] EXCEPT !.tree = Write(k, shown, 1, @, "here"),
                        !.use = Write(k, shown, t + 1, @, Use(now))]
                    ELSE IF s[1] = c /\ s[2] < t /\ Here(<<c, s[2]>>)
                    THEN [snaps[s] EXCEPT !.superseded = Write(k, shown, 1 + s[2], @,
                             IF snaps[<<c, s[2]>>].superseded.seen = 0 THEN t ELSE snaps[<<c, s[2]>>].superseded.seen)]
                    ELSE snaps[s]]
              /\ digest' = IF k = 1 /\ ~shown THEN digest ELSE [digest EXCEPT ![<<c, t>>] = worker[f].ver]
              /\ state' = Write(k, shown, t + 2, state, [state.seen EXCEPT !.pub = None])
              /\ Step(f, IF k = 0 THEN "ready" ELSE "failed")
        <2>1. PICK k \in {0} \cup 1 .. worker[f].tag + 2, shown \in BOOLEAN : Publishing(f, k, shown)
            BY PublishTaken
        <2>2. QED
            BY <1>3, <2>1 DEF Publishing
    <1>5. snaps'[ss] \in Trees
        <2>1. snaps[ss] \in Trees /\ now \in Nat
            BY DEF IInv, Shape
        <2> DEFINE tr == Write(k, shown, 1, snaps[ss].tree, "here")
                   us == Write(k, shown, t + 1, snaps[ss].use, Use(now))
        <2>2. tr \in [seen : Places, disk : Places]
            <3>1. snaps[ss].tree \in [seen : Places, disk : Places] /\ "here" \in Places
                BY <2>1 DEF Trees, Places
            <3>2. QED
                BY <3>1, WriteFacts
        <2>3. us \in [seen : Uses, disk : Uses]
            BY UsesMade, UseWrite DEF IInv
        <2>4. PICK r : r = [snaps[ss] EXCEPT !.tree = tr, !.use = us]
            OBVIOUS
        <2>5. snaps'[ss] = r
            BY <1>3, <1>4, <2>4
        <2> HIDE DEF tr, us
        <2>6. r \in Trees
            BY <2>1, <2>2, <2>3, <2>4 DEF Trees
        <2>7. QED
            BY <2>5, <2>6
    <1>6. ASSUME NEW s \in Snapshots, s # ss
          PROVE  snaps'[s] \in Trees /\ snaps'[s].tree = snaps[s].tree /\ snaps'[s].use = snaps[s].use
        <2>1. snaps[s] \in Trees /\ s[2] \in Tags /\ <<c, s[2]>> \in Snapshots /\ t \in Nat
            BY DEF IInv, Shape, Snapshots, Tags
        <2> DEFINE v == IF snaps[<<c, s[2]>>].superseded.seen = 0 THEN t ELSE snaps[<<c, s[2]>>].superseded.seen
                   m == Write(k, shown, 1 + s[2], snaps[s].superseded, v)
        <2>2. v \in Nat
            BY <2>1 DEF IInv, Shape, Trees
        <2>3. snaps'[s] \in {[snaps[s] EXCEPT !.superseded = m], snaps[s]}
            BY <1>3, <1>4, <1>6
        <2> HIDE DEF v
        <2>4. m \in [seen : Nat, disk : Nat]
            BY <2>2, MarkWrite DEF IInv
        <2> HIDE DEF m
        <2>5. ASSUME NEW r, r = [snaps[s] EXCEPT !.superseded = m]
              PROVE  r \in Trees /\ r.tree = snaps[s].tree /\ r.use = snaps[s].use
            BY <2>1, <2>4, <2>5 DEF Trees
        <2>6. QED
            BY <2>1, <2>3, <2>5
    <1>7. snaps' \in [Snapshots -> Trees]
        <2>1. \A s \in Snapshots : snaps'[s] \in Trees
            BY <1>5, <1>6
        <2>2. snaps' = [s \in Snapshots |-> snaps'[s]]
            BY <1>4
        <2>3. QED
            BY <2>1, <2>2
    <1>8. /\ state' \in [seen : States, disk : States]
          /\ state.disk.greatest <= state'.disk.greatest /\ state'.disk.greatest <= state'.seen.greatest
          /\ Pub' \in {None, Pub}
        <2>1. state.seen \in States
            BY DEF IInv, Shape
        <2>2. PICK v : v = [state.seen EXCEPT !.pub = None]
            OBVIOUS
        <2>3. v \in States /\ v.greatest = state.seen.greatest /\ v.pub = None
            BY <2>1, <2>2 DEF States
        <2>4. state.seen.greatest <= v.greatest
            BY <2>1, <2>3 DEF States
        <2>5. QED
            BY <1>4, <2>2, <2>3, <2>4, StateWritten DEF IInv
    <1>9. /\ digest' \in [Snapshots -> Nat \cup {None}]
          /\ \A s \in Snapshots : s # ss => digest'[s] = digest[s]
        BY <1>1, <1>3, <1>4 DEF IInv, Shape, Builds
    <1>10. /\ worker' \in [Freezes -> Builds] /\ worker'[f].pc \in {"ready", "failed"} /\ worker'[f].tag = t
           /\ \A g \in Freezes : g # f => worker'[g] = worker[g]
        <2>1. PICK pc \in {"ready", "failed"} : Step(f, pc)
            BY <1>4
        <2>2. QED
            BY <1>3, <2>1, StepFacts DEF WorkerPCs, IInv
    <1>11. Shape'
        BY <1>2, <1>7, <1>8, <1>9, <1>10 DEF IInv, Shape
    <1>12. Crew'
        <2>1. CrewOf(f)'
            BY <1>1, <1>2, <1>3, <1>10 DEF IInv, Crew, CrewOf
        <2>2. QED
            BY <1>2, <1>10, <2>1, CrewKept DEF IInv
    <1>13. Settles'
        BY <1>1, <1>2 DEF IInv, Settles, SettledBy
    <1>14. Numbers'
        <2>1. state.disk.greatest \in Nat /\ state'.disk.greatest \in Nat
            BY <1>11 DEF IInv, Shape, States
        <2>2. ASSUME NEW s \in Snapshots, (digest[s] # None \/ snaps[s].tree # Rec("none"))'
              PROVE  s[2] <= state'.disk.greatest
            <3>1. s[2] \in Nat
                BY DEF Snapshots, Tags
            <3>2. s[2] <= state.disk.greatest
                BY <1>1, <1>3, <1>6, <1>9, <2>2 DEF IInv, Numbers, Rec
            <3>3. QED
                BY <1>8, <2>1, <3>1, <3>2
        <2>3. ASSUME NEW g \in Freezes, Publishes(g)'
              PROVE  /\ worker'[g].tag <= state'.disk.greatest
                     /\ digest'[<<ConvOf(g), worker[g].tag>>'] = None
                     /\ \A h \in Freezes : Publishes(h)' /\ worker'[h].tag = worker'[g].tag => h = g
            <3>1. \A h \in Freezes : Publishes(h)' => h # f /\ Publishes(h) /\ worker'[h] = worker[h]
                BY <1>10 DEF Publishes
            <3>2. /\ worker[g].tag <= state.disk.greatest /\ worker[g].tag \in Nat
                  /\ digest[<<ConvOf(g), worker[g].tag>>] = None /\ worker[g].tag # t
                BY <1>1, <1>3, <2>3, <3>1 DEF IInv, Numbers, Shape, Builds
            <3>3. ConvOf(g) \in Conversations /\ worker[g].tag \in Tags
                BY <2>3, <3>1 DEF IInv, Crew, CrewOf, Jobs, ConvOf, Publishes
            <3>4. PICK x \in Snapshots : x = <<ConvOf(g), worker[g].tag>> /\ x # ss
                BY <1>3, <3>2, <3>3 DEF Snapshots
            <3>5. <<ConvOf(g), worker[g].tag>>' = x
                BY <1>2, <2>3, <3>1, <3>4 DEF ConvOf
            <3>6. digest'[<<ConvOf(g), worker[g].tag>>'] = None
                BY <1>9, <3>2, <3>4, <3>5
            <3>7. worker'[g].tag <= state'.disk.greatest
                BY <1>8, <2>1, <2>3, <3>1, <3>2
            <3>8. \A h \in Freezes : Publishes(h)' /\ worker'[h].tag = worker'[g].tag => h = g
                BY <2>3, <3>1 DEF IInv, Numbers
            <3>9. QED
                BY <3>6, <3>7, <3>8
        <2>4. QED
            BY <1>8, <2>2, <2>3 DEF Numbers
    <1>15. HeldTrees'
        <2>1. \A s \in Snapshots : Here(s) /\ holds[s] # {} => Here(s)'
            BY <1>1, <1>3, <1>6 DEF Here
        <2>2. QED
            BY <1>2, <1>8, <2>1, HeldKept DEF IInv
    <1>16. Asked'
        BY <1>2, AskedKept DEF IInv
    <1>17. \A s \in Snapshots : digest[s] # None => digest'[s] = digest[s]
        BY <1>1, <1>3, <1>9
    <1>18. QED
        BY <1>11, <1>12, <1>13, <1>14, <1>15, <1>16, <1>17 DEF IInv

-----------------------------------------------------------------------------
(* Unfinished publications and removals.                                     *)

\* A worker that fails, or none that does.
LEMMA FailedWorker ==
    ASSUME Shape, NEW a \in Actors, NEW fails \in BOOLEAN,
           worker' = IF fails /\ a \in Freezes THEN [worker EXCEPT ![a].pc = "failed"] ELSE worker
    PROVE  /\ worker' \in [Freezes -> Builds]
           /\ \A g \in Freezes : g # a => worker'[g] = worker[g]
           /\ a \in Freezes => worker'[a].pc \in {"failed", worker[a].pc} /\ worker'[a].tag = worker[a].tag
           /\ a \in Freezes /\ fails => worker'[a].pc = "failed"
           /\ ~fails => worker' = worker
    <1>1. CASE fails /\ a \in Freezes
        <2>1. Step(a, "failed")
            BY <1>1 DEF Step
        <2>2. QED
            BY <1>1, <2>1, StepFacts DEF WorkerPCs
    <1>2. CASE ~(fails /\ a \in Freezes)
        BY <1>2 DEF Shape
    <1>3. QED
        BY <1>1, <1>2

\* A tree moved away, or written back, that nobody holds.
LEMMA TreeMoved ==
    ASSUME Shape, NEW s \in Snapshots, NEW k, NEW shown, NEW at, Here(s),
           snaps' = [snaps EXCEPT ![s].tree = Write(k, shown, at, @, "moved")]
    PROVE  /\ snaps' \in [Snapshots -> Trees]
           /\ \A x \in Snapshots : x # s => snaps'[x] = snaps[x]
           /\ snaps[s].tree # Rec("none")
    <1>1. snaps \in [Snapshots -> Trees] /\ snaps[s].tree \in [seen : Places, disk : Places]
        BY DEF Shape, Trees
    <1> DEFINE t == Write(k, shown, at, snaps[s].tree, "moved")
    <1>2. t \in [seen : Places, disk : Places]
        <2>1. "moved" \in Places
            BY DEF Places
        <2>2. QED
            BY <1>1, <2>1, WriteFacts
    <1>3. snaps' = [snaps EXCEPT ![s].tree = t]
        OBVIOUS
    <1> HIDE DEF t
    <1>4. snaps[s].tree # Rec("none")
        BY RecFields DEF Here
    <1>5. QED
        BY <1>1, <1>2, <1>3, <1>4, TreeSet

\* Nothing of a freeze's tags changes, but its workers may fail.
LEMMA NumbersStay ==
    ASSUME IInv, Shape', UNCHANGED <<digest, freezes, state>>, NEW a \in Actors,
           \A g \in Freezes : g # a => worker'[g] = worker[g],
           a \in Freezes => worker'[a].pc \in {"failed", worker[a].pc} /\ worker'[a].tag = worker[a].tag,
           \A s \in Snapshots : snaps'[s].tree # Rec("none") => snaps[s].tree # Rec("none")
    PROVE  Numbers'
    <1>1. state.disk.greatest <= state'.disk.greatest /\ state'.disk.greatest <= state'.seen.greatest
        BY DEF IInv, Shape, States, Numbers
    <1>2. \A g \in Freezes : Publishes(g)' =>
              Publishes(g) /\ worker'[g].tag = worker[g].tag /\ freezes'[g].conv = freezes[g].conv
        BY DEF Publishes
    <1>3. QED
        BY <1>1, <1>2, NumbersKept DEF IInv

\* Who may discard a publication has its owner's lock, or takes it from nobody.
LEMMA DiscardFacts ==
    ASSUME IInv, NEW a \in Freezes \cup {Sweeper}, Discard(a)
    PROVE  /\ deleting[a] = None /\ Pub # None /\ Pub \in Publications /\ Pub.build \in Freezes
           /\ <<Pub.conv, Pub.tag>> \in Snapshots
           /\ \A b \in Actors : deleting[b] = None \/ deleting[b].pub = None
           /\ owner[Pub.build] = a \/ worker[Pub.build].pc = "idle"
           /\ a \in Freezes => worker[a].pc = IF Pub.build = a THEN "settle" ELSE "reserve"
           /\ a \in Freezes => owner[a] = a /\ freezes[a] \in Jobs
    <1>1. deleting[a] = None /\ Pub # None /\ MayDiscard(a)
        BY DEF Discard
    <1>2. Pub \in Publications
        BY <1>1 DEF IInv, Shape, States, Pub
    <1>3. Pub.build \in Freezes /\ <<Pub.conv, Pub.tag>> \in Snapshots
        BY <1>2 DEF Publications, Snapshots
    <1>4. a \in Freezes => a # Sweeper /\ worker[a].pc \in {"settle", "reserve"}
        BY <1>1, NamesApart DEF MayDiscard
    <1>5. a \in Freezes => owner[a] = a /\ freezes[a] \in Jobs
        BY <1>4 DEF IInv, Crew, CrewOf
    <1>6. owner[Pub.build] = a \/ owner[Pub.build] = None
        BY <1>1, <1>4, <1>5, NamesApart DEF MayDiscard
    <1>7. owner[Pub.build] = None => worker[Pub.build].pc = "idle"
        BY <1>3, NamesApart DEF IInv, Crew, CrewOf
    <1>8. a \in Freezes => worker[a].pc = IF Pub.build = a THEN "settle" ELSE "reserve"
        BY <1>1, <1>3, <1>4, <1>5, NamesApart DEF MayDiscard
    <1>9. ASSUME NEW b \in Actors, deleting[b] # None, deleting[b].pub # None
          PROVE  FALSE
        <2>1. owner[Pub.build] = b
            BY <1>9, SettledFacts DEF IInv
        <2>2. b # None
            BY NamesApart DEF Actors
        <2>3. b = a
            BY <1>6, <2>1, <2>2
        <2>4. QED
            BY <1>1, <1>9, <2>3
    <1>10. QED
        BY <1>1, <1>2, <1>3, <1>5, <1>6, <1>7, <1>8, <1>9

LEMMA DiscardStep ==
    ASSUME IInv, NEW a \in Freezes \cup {Sweeper}, Discard(a)
    PROVE  IInv'
    <1>1. UNCHANGED <<now, source, tokens, state, digest, leases, freezes, holds, request>>
        BY DEF Discard, clock
    <1>2. /\ deleting[a] = None /\ Pub # None /\ Pub \in Publications /\ Pub.build \in Freezes
          /\ <<Pub.conv, Pub.tag>> \in Snapshots
          /\ \A b \in Actors : deleting[b] = None \/ deleting[b].pub = None
          /\ owner[Pub.build] = a \/ worker[Pub.build].pc = "idle"
          /\ a \in Freezes => worker[a].pc = IF Pub.build = a THEN "settle" ELSE "reserve"
          /\ a \in Freezes => owner[a] = a /\ freezes[a] \in Jobs
          /\ a \in Actors
        BY DiscardFacts, NamesApart
    <1>3. PICK p \in Publications, s \in Snapshots : p = Pub /\ s = <<p.conv, p.tag>>
        BY <1>2
    <1>4. p.conv \in Conversations /\ p.tag \in Nat /\ p.build \in Freezes /\ p # None
        BY <1>2, <1>3 DEF Publications, Tags
    <1>5. PICK k \in 0 .. 2, shown \in BOOLEAN :
              /\ history' = [history EXCEPT ![p.conv] = Write(k, shown, 1, @, Taken(@.seen, p.tag))]
              /\ snaps' = IF Here(s) THEN [snaps EXCEPT ![s].tree = Write(k, shown, 2, @, "moved")] ELSE snaps
              /\ owner' = IF k = 0 THEN [owner EXCEPT ![p.build] = a] ELSE owner
              /\ deleting' = IF k = 0 THEN [deleting EXCEPT ![a] = [snap |-> s, next |-> "clear", pub |-> p]]
                   ELSE deleting
              /\ worker' = IF k # 0 /\ a \in Freezes THEN [worker EXCEPT ![a].pc = "failed"] ELSE worker
        BY <1>3 DEF Discard
    <1>6. history' \in [Conversations -> [seen : Histories, disk : Histories]]
        <2>1. Taken(history[p.conv].seen, p.tag) \in Histories
            BY <1>4, TagHistories DEF IInv, Shape
        <2>2. QED
            BY <1>4, <1>5, <2>1, HistoryWritten DEF IInv
    <1>7. /\ snaps' \in [Snapshots -> Trees]
          /\ \A x \in Snapshots : x # s => snaps'[x] = snaps[x]
          /\ \A x \in Snapshots : snaps'[x].tree # Rec("none") => snaps[x].tree # Rec("none")
        BY <1>5, TreeMoved DEF IInv, Shape
    <1>8. /\ owner' \in [Freezes -> Freezes \cup {Sweeper, None}]
          /\ \A g \in Freezes : g # p.build => owner'[g] = owner[g]
          /\ k # 0 => owner' = owner
          /\ k = 0 => owner'[p.build] = a
        BY <1>4, <1>5 DEF IInv, Shape
    <1>9. PICK d \in Removals : d = [snap |-> s, next |-> "clear", pub |-> p] /\ d.next = "clear" /\ d.pub = p
        <2>1. [snap |-> s, next |-> "clear", pub |-> p] \in Removals
            BY DEF Removals
        <2>2. QED
            BY <2>1
    <1>10. /\ deleting' \in [Actors -> Removals \cup {None}]
           /\ \A b \in Actors : b # a => deleting'[b] = deleting[b]
           /\ k # 0 => deleting' = deleting
           /\ k = 0 => deleting'[a] = d
        BY <1>2, <1>5, <1>9 DEF IInv, Shape
    <1>11. /\ worker' \in [Freezes -> Builds]
           /\ \A g \in Freezes : g # a => worker'[g] = worker[g]
           /\ a \in Freezes => worker'[a].pc \in {"failed", worker[a].pc} /\ worker'[a].tag = worker[a].tag
           /\ k = 0 => worker' = worker
        <2>1. PICK fails \in BOOLEAN : fails <=> k # 0
            OBVIOUS
        <2>2. worker' = IF fails /\ a \in Freezes THEN [worker EXCEPT ![a].pc = "failed"] ELSE worker
            BY <1>5, <2>1
        <2>3. QED
            BY <1>2, <2>1, <2>2, FailedWorker DEF IInv
    <1>12. Shape'
        BY <1>1, <1>6, <1>7, <1>8, <1>10, <1>11 DEF IInv, Shape
    <1>13. Crew'
        <2>1. ASSUME NEW g \in Freezes
              PROVE  CrewOf(g)'
            <3>1. CrewOf(g)
                BY DEF IInv, Crew
            <3>2. worker'[g].pc \in {"check", "finish", "publish", "ready"} => worker'[g] = worker[g]
                BY <1>2, <1>11
            <3>3. worker'[g].pc # "idle" => worker[g].pc # "idle"
                BY <1>2, <1>11
            <3>4. worker[g].pc # "idle" => owner'[g] = owner[g]
                BY <1>2, <1>3, <1>8, <3>1 DEF CrewOf
            <3>5. QED
                BY <1>1, <3>1, <3>2, <3>3, <3>4 DEF CrewOf
        <2>2. QED
            BY <2>1 DEF Crew
    <1>14. Settles'
        <2>1. ASSUME NEW b \in Actors, b # a \/ k # 0
              PROVE  SettledBy(b)'
            <3>1. SettledBy(b) /\ deleting'[b] = deleting[b]
                BY <1>10, <2>1 DEF IInv, Settles
            <3>2. deleting[b] = None \/ deleting[b].pub = None
                BY <1>2
            <3>3. QED
                BY <3>1, <3>2 DEF SettledBy
        <2>2. CASE k = 0
            <3>1. Pub' = p /\ a \notin Clients
                BY <1>1, <1>3, NamesApart DEF Pub
            <3>2. SettledBy(a)'
                BY <1>2, <1>3, <1>4, <1>8, <1>9, <1>10, <1>11, <2>2, <3>1 DEF SettledBy
            <3>3. QED
                BY <2>1, <3>2 DEF Settles
        <2>3. QED
            BY <2>1, <2>2 DEF Settles
    <1>15. Numbers'
        BY <1>1, <1>2, <1>7, <1>11, <1>12, NumbersStay
    <1>16. HeldTrees'
        <2>1. holds[s] = {}
            BY <1>2, <1>3 DEF IInv, HeldTrees
        <2>2. \A x \in Snapshots : Here(x) /\ holds[x] # {} => Here(x)'
            BY <1>7, <2>1 DEF Here
        <2>3. QED
            BY <1>1, <2>2, HeldKept DEF IInv, Pub
    <1>17. Asked'
        BY <1>1, AskedKept DEF IInv
    <1>18. QED
        BY <1>12, <1>13, <1>14, <1>15, <1>16, <1>17 DEF IInv

\* The owner's lock let go by whoever settled its publication, and the worker
\* that settled goes on or fails.
LEMMA LetOwnerGo ==
    ASSUME IInv, NEW a \in Actors, deleting[a] # None, deleting[a].pub # None,
           deleting' = [deleting EXCEPT ![a] = None],
           owner' = IF deleting[a].pub.build = a THEN owner ELSE [owner EXCEPT ![deleting[a].pub.build] = None],
           UNCHANGED freezes, worker' \in [Freezes -> Builds],
           \A g \in Freezes : g # a => worker'[g] = worker[g],
           a \in Freezes => worker'[a].pc \in {"failed", worker[a].pc}
    PROVE  /\ owner' \in [Freezes -> Freezes \cup {Sweeper, None}]
           /\ deleting' \in [Actors -> Removals \cup {None}]
           /\ Crew' /\ Settles'
    <1>1. PICK p \in Publications : p = Pub /\ p = deleting[a].pub
        BY SettledFacts DEF IInv
    <1>2. /\ p # None /\ p.build \in Freezes /\ owner[p.build] = a /\ a \in Freezes \cup {Sweeper}
          /\ \A b \in Actors : b # a => deleting[b] = None \/ deleting[b].pub = None
          /\ a \in Freezes => worker[a].pc \in {"settle", "reserve"}
          /\ p.build # a => worker[p.build].pc = "idle"
        BY <1>1, SettledFacts DEF IInv
    <1>3. /\ owner' \in [Freezes -> Freezes \cup {Sweeper, None}]
          /\ \A g \in Freezes : g # p.build \/ g = a => owner'[g] = owner[g]
        BY <1>1, <1>2 DEF IInv, Shape
    <1>4. /\ deleting' \in [Actors -> Removals \cup {None}] /\ deleting'[a] = None
          /\ \A b \in Actors : b # a => deleting'[b] = deleting[b]
        BY DEF IInv, Shape
    <1>5. Crew'
        <2>1. ASSUME NEW g \in Freezes
              PROVE  CrewOf(g)'
            <3>1. CrewOf(g)
                BY DEF IInv, Crew
            <3>2. worker'[g].pc \in {"check", "finish", "publish", "ready"} => worker'[g] = worker[g]
                BY <1>2
            <3>3. worker'[g].pc # "idle" => worker[g].pc # "idle"
                BY <1>2
            <3>4. worker[g].pc # "idle" => owner'[g] = owner[g]
                BY <1>2, <1>3
            <3>5. QED
                BY <3>1, <3>2, <3>3, <3>4 DEF CrewOf
        <2>2. QED
            BY <2>1 DEF Crew
    <1>6. Settles'
        <2>1. ASSUME NEW b \in Actors
              PROVE  SettledBy(b)'
            <3>1. SettledBy(b)
                BY DEF IInv, Settles
            <3>2. deleting'[b] = None \/ (deleting'[b] = deleting[b] /\ deleting[b].pub = None)
                BY <1>2, <1>4
            <3>3. QED
                BY <1>4, <3>1, <3>2 DEF SettledBy
        <2>2. QED
            BY <2>1 DEF Settles
    <1>7. QED
        BY <1>3, <1>4, <1>5, <1>6

LEMMA ClearIntentStep ==
    ASSUME IInv, NEW a \in Actors, ClearIntent(a)
    PROVE  IInv'
    <1>1. /\ UNCHANGED <<now, source, tokens, history, digest, leases, freezes, holds, request>>
          /\ deleting[a] # None /\ deleting[a].next = "intent" /\ deleting' = [deleting EXCEPT ![a] = None]
        BY DEF ClearIntent, clock
    <1>2. deleting[a].pub # None
        BY <1>1 DEF IInv, Settles, SettledBy
    <1>3. PICK p \in Publications : p = Pub /\ p = deleting[a].pub
        BY <1>1, <1>2, SettledFacts DEF IInv
    <1>4. PICK k \in 0 .. 2, shown \in BOOLEAN :
              /\ snaps' = MarkedAgain(MarkedBy(p), k, shown)
              /\ state' = Write(k, shown, 2, state, [state.seen EXCEPT !.pub = None])
              /\ worker' = IF k # 0 /\ a \in Freezes THEN [worker EXCEPT ![a].pc = "failed"] ELSE worker
              /\ owner' = IF p.build = a THEN owner ELSE [owner EXCEPT ![p.build] = None]
        BY <1>3 DEF ClearIntent
    <1>5. ASSUME NEW s \in Snapshots
          PROVE  snaps'[s] \in Trees /\ snaps'[s].tree = snaps[s].tree
        <2>1. snaps[s] \in Trees
            BY DEF IInv, Shape
        <2> DEFINE m == CommitMark(s, k, shown, 1)
        <2>2. m \in [seen : Nat, disk : Nat]
            BY MarkCommitted DEF IInv
        <2>3. snaps'[s] \in {[snaps[s] EXCEPT !.superseded = m], snaps[s]}
            BY <1>4 DEF MarkedAgain
        <2> HIDE DEF m
        <2>4. ASSUME NEW r, r = [snaps[s] EXCEPT !.superseded = m]
              PROVE  r \in Trees /\ r.tree = snaps[s].tree
            BY <2>1, <2>2, <2>4 DEF Trees
        <2>5. QED
            BY <2>1, <2>3, <2>4
    <1>6. snaps' \in [Snapshots -> Trees] /\ TreesStay
        <2>1. snaps' = [s \in Snapshots |-> snaps'[s]]
            BY <1>4 DEF MarkedAgain
        <2>2. QED
            BY <1>5, <2>1 DEF TreesStay
    <1>7. /\ state' \in [seen : States, disk : States]
          /\ state.disk.greatest <= state'.disk.greatest /\ state'.disk.greatest <= state'.seen.greatest
          /\ Pub' \in {None, Pub}
        <2>1. state.seen \in States
            BY DEF IInv, Shape
        <2>2. PICK v : v = [state.seen EXCEPT !.pub = None]
            OBVIOUS
        <2>3. v \in States /\ v.greatest = state.seen.greatest /\ v.pub = None
            BY <2>1, <2>2 DEF States
        <2>4. state.seen.greatest <= v.greatest
            BY <2>1, <2>3 DEF States
        <2>5. QED
            BY <1>4, <2>2, <2>3, <2>4, StateWritten DEF IInv
    <1>8. /\ worker' \in [Freezes -> Builds]
          /\ \A g \in Freezes : g # a => worker'[g] = worker[g]
          /\ a \in Freezes => worker'[a].pc \in {"failed", worker[a].pc} /\ worker'[a].tag = worker[a].tag
        <2>1. PICK fails \in BOOLEAN : fails <=> k # 0
            OBVIOUS
        <2>2. worker' = IF fails /\ a \in Freezes THEN [worker EXCEPT ![a].pc = "failed"] ELSE worker
            BY <1>4, <2>1
        <2>3. QED
            BY <2>2, FailedWorker DEF IInv
    <1>9. owner' = IF deleting[a].pub.build = a THEN owner ELSE [owner EXCEPT ![deleting[a].pub.build] = None]
        BY <1>3, <1>4
    <1>10. /\ owner' \in [Freezes -> Freezes \cup {Sweeper, None}]
           /\ deleting' \in [Actors -> Removals \cup {None}]
           /\ Crew' /\ Settles'
        BY <1>1, <1>2, <1>8, <1>9, LetOwnerGo
    <1>11. Shape'
        BY <1>1, <1>6, <1>7, <1>8, <1>10 DEF IInv, Shape
    <1>12. Numbers'
        <2>1. \A g \in Freezes : Publishes(g)' =>
                  Publishes(g) /\ worker'[g].tag = worker[g].tag /\ freezes'[g].conv = freezes[g].conv
            BY <1>1, <1>8 DEF Publishes
        <2>2. \A s \in Snapshots : snaps'[s].tree # Rec("none") => snaps[s].tree # Rec("none")
            BY <1>6 DEF TreesStay
        <2>3. QED
            BY <1>1, <1>7, <1>11, <2>1, <2>2, NumbersKept DEF IInv
    <1>13. HeldTrees' /\ Asked'
        BY <1>1, <1>6, <1>7, HoldsStay
    <1>14. QED
        BY <1>10, <1>11, <1>12, <1>13 DEF IInv

\* A tree deleted was moved away; its leases stay whose they are.
LEMMA DeletedTree ==
    ASSUME IInv, NEW s \in Snapshots, snaps[s].tree.seen = "moved",
           snaps' = [snaps EXCEPT ![s] = NoSnap],
           leases' = [l \in Leases |-> IF leases[l] # None /\ leases[l].snap = s
                                       THEN [leases[l] EXCEPT !.state = "gone"] ELSE leases[l]]
    PROVE  /\ snaps' \in [Snapshots -> Trees] /\ leases' \in [Leases -> LeaseRecords \cup {None}]
           /\ \A x \in Snapshots : snaps'[x].tree # Rec("none") => snaps[x].tree # Rec("none")
           /\ \A x \in Snapshots : Here(x) => Here(x)'
           /\ \A l \in Leases : leases[l] # None =>
                  leases'[l] # None /\ leases'[l].client = leases[l].client /\ leases'[l].snap = leases[l].snap
    <1>1. NoSnap \in Trees /\ NoSnap.tree = Rec("none")
        BY DEF NoSnap, Trees, Rec, NoUse, Uses, Places
    <1>2. snaps' \in [Snapshots -> Trees] /\ snaps'[s] = NoSnap /\ \A x \in Snapshots : x # s => snaps'[x] = snaps[x]
        BY <1>1 DEF IInv, Shape
    <1>3. ASSUME NEW l \in Leases
          PROVE  /\ leases'[l] \in LeaseRecords \cup {None}
                 /\ leases[l] # None =>
                        leases'[l] # None /\ leases'[l].client = leases[l].client /\ leases'[l].snap = leases[l].snap
        <2>1. CASE leases[l] # None /\ leases[l].snap = s
            <3>1. leases[l] \in LeaseRecords
                BY <2>1 DEF IInv, Shape
            <3>2. PICK r : r = [leases[l] EXCEPT !.state = "gone"]
                OBVIOUS
            <3>3. r \in LeaseRecords /\ r.client = leases[l].client /\ r.snap = leases[l].snap
                BY <3>1, <3>2 DEF LeaseRecords
            <3>4. leases'[l] = r
                BY <2>1, <3>2
            <3>5. r # None
                BY <3>3, PullNames
            <3>6. QED
                BY <3>3, <3>4, <3>5
        <2>2. CASE ~(leases[l] # None /\ leases[l].snap = s)
            BY <2>2 DEF IInv, Shape
        <2>3. QED
            BY <2>1, <2>2
    <1>4. leases' \in [Leases -> LeaseRecords \cup {None}]
        <2>1. leases' = [l \in Leases |-> leases'[l]]
            OBVIOUS
        <2>2. QED
            BY <1>3, <2>1
    <1>5. \A x \in Snapshots : Here(x) => Here(x)'
        BY <1>2 DEF Here
    <1>6. QED
        BY <1>1, <1>2, <1>3, <1>4, <1>5

LEMMA DeleteTreeStep ==
    ASSUME IInv, NEW a \in Actors, DeleteTree(a)
    PROVE  IInv'
    <1>1. /\ UNCHANGED <<now, source, tokens, state, history, digest, freezes, holds, request>>
          /\ deleting[a] # None /\ deleting[a].next \in {"clear", "done"}
        BY DEF DeleteTree, clock
    <1>2. PICK d \in Removals : d = deleting[a] /\ d.snap \in Snapshots /\ d.pub \in Publications \cup {None}
                                /\ (d.next = "done" <=> d.pub = None)
        BY <1>1 DEF IInv, Shape, Removals, Settles, SettledBy
    <1>3. PICK k \in {0, 1} :
              /\ IF k = 0 /\ snaps[d.snap].tree.seen = "moved"
                 THEN /\ snaps' = [snaps EXCEPT ![d.snap] = NoSnap]
                      /\ leases' = [l \in Leases |-> IF leases[l] # None /\ leases[l].snap = d.snap
                                                     THEN [leases[l] EXCEPT !.state = "gone"] ELSE leases[l]]
                 ELSE UNCHANGED <<snaps, leases>>
              /\ IF k = 0 /\ d.next = "clear"
                 THEN /\ deleting' = [deleting EXCEPT ![a].next = "intent"]
                      /\ UNCHANGED <<owner, worker>>
                 ELSE /\ deleting' = [deleting EXCEPT ![a] = None]
                      /\ owner' = IF d.pub # None /\ d.pub.build # a THEN [owner EXCEPT ![d.pub.build] = None] ELSE owner
                      /\ worker' = IF d.pub # None /\ a \in Freezes THEN [worker EXCEPT ![a].pc = "failed"] ELSE worker
        BY <1>2 DEF DeleteTree
    <1>4. /\ snaps' \in [Snapshots -> Trees] /\ leases' \in [Leases -> LeaseRecords \cup {None}]
          /\ \A x \in Snapshots : snaps'[x].tree # Rec("none") => snaps[x].tree # Rec("none")
          /\ \A x \in Snapshots : Here(x) => Here(x)'
          /\ \A l \in Leases : leases[l] # None =>
                 leases'[l] # None /\ leases'[l].client = leases[l].client /\ leases'[l].snap = leases[l].snap
        BY <1>2, <1>3, DeletedTree DEF IInv, Shape, Here
    <1>5. /\ worker' \in [Freezes -> Builds]
          /\ \A g \in Freezes : g # a => worker'[g] = worker[g]
          /\ a \in Freezes => worker'[a].pc \in {"failed", worker[a].pc} /\ worker'[a].tag = worker[a].tag
        <2>1. PICK fails \in BOOLEAN : fails <=> ~(k = 0 /\ d.next = "clear") /\ d.pub # None
            OBVIOUS
        <2>2. worker' = IF fails /\ a \in Freezes THEN [worker EXCEPT ![a].pc = "failed"] ELSE worker
            BY <1>3, <2>1
        <2>3. QED
            BY <2>2, FailedWorker DEF IInv
    <1>6. /\ owner' \in [Freezes -> Freezes \cup {Sweeper, None}]
          /\ deleting' \in [Actors -> Removals \cup {None}]
          /\ Crew' /\ Settles'
        <2>1. CASE k = 0 /\ d.next = "clear"
            <3>1. deleting' = [deleting EXCEPT ![a].next = "intent"] /\ UNCHANGED <<owner, worker>>
                BY <1>3, <2>1
            <3>2. PICK e : e = [deleting[a] EXCEPT !.next = "intent"]
                OBVIOUS
            <3>3. e \in Removals /\ e.next = "intent" /\ e.pub = d.pub
                BY <1>2, <3>2 DEF Removals
            <3>4. /\ deleting' \in [Actors -> Removals \cup {None}] /\ deleting'[a] = e
                  /\ \A b \in Actors : b # a => deleting'[b] = deleting[b]
                BY <3>1, <3>2, <3>3 DEF IInv, Shape
            <3>5. Crew' /\ owner' \in [Freezes -> Freezes \cup {Sweeper, None}]
                BY <1>1, <3>1 DEF IInv, Crew, CrewOf, Shape
            <3>6. SettledBy(a)'
                <4>1. SettledBy(a)
                    BY DEF IInv, Settles
                <4>2. d.pub # None
                    BY <1>2, <2>1
                <4>3. QED
                    BY <1>1, <1>2, <3>1, <3>3, <3>4, <4>1, <4>2 DEF SettledBy, Pub
            <3>7. ASSUME NEW b \in Actors, b # a
                  PROVE  SettledBy(b)'
                <4>1. SettledBy(b)
                    BY DEF IInv, Settles
                <4>2. QED
                    BY <1>1, <3>1, <3>4, <3>7, <4>1 DEF SettledBy, Pub
            <3>8. QED
                BY <3>4, <3>5, <3>6, <3>7 DEF Settles
        <2>2. CASE ~(k = 0 /\ d.next = "clear") /\ d.pub # None
            <3>1. /\ deleting' = [deleting EXCEPT ![a] = None]
                  /\ owner' = IF deleting[a].pub.build = a THEN owner ELSE [owner EXCEPT ![deleting[a].pub.build] = None]
                BY <1>2, <1>3, <2>2
            <3>2. deleting[a].pub # None
                BY <1>2, <2>2
            <3>3. QED
                BY <1>1, <1>5, <3>1, <3>2, LetOwnerGo
        <2>3. CASE ~(k = 0 /\ d.next = "clear") /\ d.pub = None
            <3>1. deleting' = [deleting EXCEPT ![a] = None] /\ UNCHANGED <<owner, worker>>
                BY <1>3, <2>3
            <3>2. /\ deleting' \in [Actors -> Removals \cup {None}] /\ deleting'[a] = None
                  /\ \A b \in Actors : b # a => deleting'[b] = deleting[b]
                BY <3>1 DEF IInv, Shape
            <3>3. Crew' /\ owner' \in [Freezes -> Freezes \cup {Sweeper, None}]
                BY <1>1, <3>1 DEF IInv, Crew, CrewOf, Shape
            <3>4. Settles'
                BY <1>1, <3>1, <3>2 DEF IInv, Settles, SettledBy, Pub
            <3>5. QED
                BY <3>2, <3>3, <3>4
        <2>4. QED
            BY <2>1, <2>2, <2>3
    <1>7. Shape'
        BY <1>1, <1>4, <1>5, <1>6 DEF IInv, Shape
    <1>8. Numbers'
        BY <1>1, <1>4, <1>5, <1>7, NumbersStay
    <1>9. HeldTrees'
        BY <1>1, <1>4, HeldKept DEF IInv, Pub
    <1>10. Asked'
        BY <1>1, <1>4, AskedKept DEF IInv
    <1>11. QED
        BY <1>6, <1>7, <1>8, <1>9, <1>10 DEF IInv

\* A snapshot's records, each written or as it was.
LEMMA SnapRecord ==
    ASSUME NEW f \in [Snapshots -> Trees], NEW s \in Snapshots,
           NEW t \in [seen : Places, disk : Places], NEW p \in [seen : Nat, disk : Nat],
           NEW u \in [seen : Uses, disk : Uses], NEW n,
           n = [f EXCEPT ![s] = [use |-> u, superseded |-> p, tree |-> t]]
    PROVE  /\ n \in [Snapshots -> Trees]
           /\ n[s].tree = t /\ n[s].superseded = p /\ n[s].use = u
           /\ \A x \in Snapshots : x # s => n[x] = f[x]
    <1>1. PICK r : r = [use |-> u, superseded |-> p, tree |-> t]
        OBVIOUS
    <1>2. r \in Trees /\ r.tree = t /\ r.superseded = p /\ r.use = u
        BY <1>1 DEF Trees
    <1>3. n = [f EXCEPT ![s] = r]
        BY <1>1
    <1>4. QED
        BY <1>2, <1>3

\* What a removal writes: only an unheld snapshot's tree goes.
LEMMA RemovalWrites ==
    ASSUME Shape, NEW a \in Actors, NEW s \in Snapshots, RemoveIfDue(a, s)
    PROVE  /\ snaps' \in [Snapshots -> Trees]
           /\ \A x \in Snapshots : x # s => snaps'[x] = snaps[x]
           /\ snaps'[s].tree = snaps[s].tree \/ (Here(s) /\ holds[s] = {} /\ Due(s) /\ root[s[1]] = None)
           /\ history' \in [Conversations -> [seen : Histories, disk : Histories]]
           /\ history' = history \/ (holds[s] = {} /\ \E k, shown : history' =
                  [history EXCEPT ![s[1]] = Write(k, shown, 2, history[s[1]], Taken(history[s[1]].seen, s[2]))])
           /\ snaps'[s].use = snaps[s].use \/ Life(s) = "expired" \/ (Life(s) = "served" /\ Due(s))
           /\ deleting[a] = None /\ deleting' \in {deleting,
                [deleting EXCEPT ![a] = [snap |-> s, next |-> "done", pub |-> None]]}
           /\ UNCHANGED <<now, source, tokens, state, digest, leases, freezes, up, owner, holds, worker>>
    <1> DEFINE life == Life(s)
               expires == Due(s) /\ Held(s) /\ life = "served"
               goes == Due(s) /\ ~Held(s) /\ root[s[1]] = None
    <1>1. PICK k \in 0 .. 3, shown \in BOOLEAN :
              /\ snaps' = [snaps EXCEPT ![s] =
                    [use |-> IF life = "expired" THEN CommitExpiry(s, k, shown)
                             ELSE IF expires THEN Write(k, shown, 2, @.use, Expired(s)) ELSE @.use,
                     superseded |-> IF life = "served" THEN CommitMark(s, k, shown, 1) ELSE @.superseded,
                     tree |-> IF goes /\ Here(s) THEN Write(k, shown, 3, @.tree, "moved") ELSE @.tree]]
              /\ history' = IF goes THEN [history EXCEPT ![s[1]] = Write(k, shown, 2, @, Taken(@.seen, s[2]))]
                   ELSE history
              /\ deleting' = IF goes /\ k = 0 THEN [deleting EXCEPT ![a] = [snap |-> s, next |-> "done",
                   pub |-> None]] ELSE deleting
        BY ZenonT(60) DEF RemoveIfDue
    <1>2. /\ deleting[a] = None /\ deleting' \in {deleting,
              [deleting EXCEPT ![a] = [snap |-> s, next |-> "done", pub |-> None]]}
          /\ UNCHANGED <<now, source, tokens, state, digest, leases, freezes, up, owner, holds, worker>>
        BY <1>1 DEF RemoveIfDue, clock
    <1>3. /\ history' \in [Conversations -> [seen : Histories, disk : Histories]]
          /\ history' = history \/ (holds[s] = {} /\ \E k1, shown1 : history' =
                 [history EXCEPT ![s[1]] = Write(k1, shown1, 2, history[s[1]], Taken(history[s[1]].seen, s[2]))])
        <2>1. s[1] \in Conversations /\ s[2] \in Nat
            BY DEF Snapshots, Tags
        <2>2. Taken(history[s[1]].seen, s[2]) \in Histories
            BY <2>1, TagHistories DEF Shape
        <2>3. CASE goes
            BY <1>1, <2>1, <2>2, <2>3, HistoryWritten DEF Held
        <2>4. CASE ~goes
            BY <1>1, <2>4 DEF Shape
        <2>5. QED
            BY <2>3, <2>4
    <1>4. snaps \in [Snapshots -> Trees] /\ snaps[s] \in Trees
        BY DEF Shape
    <1> DEFINE u == IF life = "expired" THEN CommitExpiry(s, k, shown)
                    ELSE IF expires THEN Write(k, shown, 2, snaps[s].use, Expired(s)) ELSE snaps[s].use
               p == IF life = "served" THEN CommitMark(s, k, shown, 1) ELSE snaps[s].superseded
               t == IF goes /\ Here(s) THEN Write(k, shown, 3, snaps[s].tree, "moved") ELSE snaps[s].tree
    <1>5. u \in [seen : Uses, disk : Uses]
        BY <1>4, UsesMade, UseWrite DEF Trees, CommitExpiry
    <1>6. p \in [seen : Nat, disk : Nat]
        BY <1>4, MarkCommitted DEF Trees
    <1>7. t \in [seen : Places, disk : Places]
        <2>1. "moved" \in Places /\ snaps[s].tree \in [seen : Places, disk : Places]
            BY <1>4 DEF Places, Trees
        <2>2. QED
            BY <2>1, WriteFacts
    <1>8. u = snaps[s].use \/ Life(s) = "expired" \/ (Life(s) = "served" /\ Due(s))
        OBVIOUS
    <1>9. t = snaps[s].tree \/ (Here(s) /\ holds[s] = {} /\ Due(s) /\ root[s[1]] = None)
        BY DEF Held
    <1>10. snaps' = [snaps EXCEPT ![s] = [use |-> u, superseded |-> p, tree |-> t]]
        BY <1>1
    <1> HIDE DEF u, p, t
    <1>11. /\ snaps' \in [Snapshots -> Trees]
           /\ snaps'[s].tree = t /\ snaps'[s].superseded = p /\ snaps'[s].use = u
           /\ \A x \in Snapshots : x # s => snaps'[x] = snaps[x]
        BY <1>4, <1>5, <1>6, <1>7, <1>10, SnapRecord
    <1>12. QED
        BY <1>2, <1>3, <1>8, <1>9, <1>11

\* Someone starts to delete a tree that is away, or does not; requests aside.
LEMMA RemovalKeeps ==
    ASSUME IInv, NEW a \in Actors, NEW s \in Snapshots, deleting[a] = None,
           deleting' \in {deleting, [deleting EXCEPT ![a] = [snap |-> s, next |-> "done", pub |-> None]]},
           UNCHANGED <<now, source, tokens, state, digest, leases, freezes, owner, holds, worker>>,
           snaps' \in [Snapshots -> Trees], \A x \in Snapshots : x # s => snaps'[x] = snaps[x],
           snaps'[s].tree = snaps[s].tree \/ (Here(s) /\ holds[s] = {}),
           history' \in [Conversations -> [seen : Histories, disk : Histories]],
           request' \in [Clients -> Requests], Asked'
    PROVE  IInv'
    <1>1. PICK d \in Removals : d = [snap |-> s, next |-> "done", pub |-> None] /\ d.next = "done" /\ d.pub = None
        <2>1. [snap |-> s, next |-> "done", pub |-> None] \in Removals
            BY DEF Removals
        <2>2. QED
            BY <2>1
    <1>2. /\ deleting' \in [Actors -> Removals \cup {None}]
          /\ \A b \in Actors : b # a => deleting'[b] = deleting[b]
          /\ deleting'[a] \in {None, d}
        BY <1>1 DEF IInv, Shape
    <1>3. Shape'
        BY <1>2 DEF IInv, Shape
    <1>4. Crew'
        BY DEF IInv, Crew, CrewOf
    <1>5. Settles'
        BY <1>1, <1>2 DEF IInv, Settles, SettledBy, Pub
    <1>6. \A x \in Snapshots : snaps'[x].tree # Rec("none") => snaps[x].tree # Rec("none")
        BY RecFields DEF Here
    <1>7. Numbers'
        <2>1. \A g \in Freezes : g # a => worker'[g] = worker[g]
            OBVIOUS
        <2>2. a \in Freezes => worker'[a].pc \in {"failed", worker[a].pc} /\ worker'[a].tag = worker[a].tag
            OBVIOUS
        <2>3. QED
            BY <1>3, <1>6, <2>1, <2>2, NumbersStay
    <1>8. HeldTrees'
        <2>1. \A x \in Snapshots : Here(x) /\ holds[x] # {} => Here(x)'
            BY DEF Here
        <2>2. QED
            BY <2>1, HeldKept DEF IInv, Pub
    <1>9. QED
        BY <1>3, <1>4, <1>5, <1>7, <1>8 DEF IInv

LEMMA SweepStep1 ==
    ASSUME IInv, NEW s \in Snapshots, Sweep(s)
    PROVE  IInv'
    <1>1. UNCHANGED request /\ RemoveIfDue(Sweeper, s) /\ Sweeper \in Actors
        BY NamesApart DEF Sweep
    <1>2. /\ deleting[Sweeper] = None
          /\ deleting' \in {deleting, [deleting EXCEPT ![Sweeper] = [snap |-> s, next |-> "done", pub |-> None]]}
          /\ UNCHANGED <<now, source, tokens, state, digest, leases, freezes, owner, holds, worker>>
          /\ snaps' \in [Snapshots -> Trees] /\ \A x \in Snapshots : x # s => snaps'[x] = snaps[x]
          /\ snaps'[s].tree = snaps[s].tree \/ (Here(s) /\ holds[s] = {})
          /\ history' \in [Conversations -> [seen : Histories, disk : Histories]]
        BY <1>1, RemovalWrites DEF IInv
    <1>3. Asked' /\ request' \in [Clients -> Requests]
        BY <1>1, <1>2, AskedKept DEF IInv, Shape
    <1>4. QED
        BY <1>1, <1>2, <1>3, RemovalKeeps

LEMMA ReplayStep ==
    ASSUME IInv, NEW s \in Snapshots, ReplayRemoving(s)
    PROVE  IInv'
    <1>1. /\ UNCHANGED <<now, source, tokens, state, snaps, digest, leases, freezes, owner, holds, worker, request>>
          /\ deleting[Sweeper] = None /\ Sweeper \in Actors
        BY NamesApart DEF ReplayRemoving, clock
    <1>2. PICK k \in {0, 1}, shown \in BOOLEAN :
              /\ history' = [history EXCEPT ![s[1]] = Write(k, shown, 1, @, Taken(@.seen, s[2]))]
              /\ deleting' = IF k = 0 THEN [deleting EXCEPT ![Sweeper] = [snap |-> s, next |-> "done",
                   pub |-> None]] ELSE deleting
        BY DEF ReplayRemoving
    <1>3. history' \in [Conversations -> [seen : Histories, disk : Histories]]
        <2>1. s[1] \in Conversations /\ s[2] \in Nat
            BY DEF Snapshots, Tags
        <2>2. Taken(history[s[1]].seen, s[2]) \in Histories
            BY <2>1, TagHistories DEF IInv, Shape
        <2>3. QED
            BY <1>2, <2>1, <2>2, HistoryWritten DEF IInv
    <1>4. Asked' /\ request' \in [Clients -> Requests] /\ snaps' \in [Snapshots -> Trees]
        BY <1>1, AskedKept DEF IInv, Shape
    <1>5. deleting' \in {deleting, [deleting EXCEPT ![Sweeper] = [snap |-> s, next |-> "done", pub |-> None]]}
        BY <1>2
    <1>6. QED
        BY <1>1, <1>3, <1>4, <1>5, RemovalKeeps

-----------------------------------------------------------------------------
(* Requests.                                                                 *)

\* A request that changes alone, with what it holds and with leases that stay
\* whose they are.
LEMMA RequestMoves ==
    ASSUME IInv, NEW r \in Clients, NEW q \in Requests, request' = [request EXCEPT ![r] = q],
           UNCHANGED <<now, source, tokens, state, history, digest, freezes, owner, worker, deleting>>,
           snaps' \in [Snapshots -> Trees], TreesStay,
           holds' \in [Snapshots -> SUBSET Holders], HeldTrees',
           leases' \in [Leases -> LeaseRecords \cup {None}],
           \A c \in Clients, s \in Snapshots : c # r /\ c \in holds[s] => c \in holds'[s],
           \A l \in Leases : leases[l] # None =>
               leases'[l] # None /\ leases'[l].client = leases[l].client /\ leases'[l].snap = leases[l].snap,
           q.pc # "idle" => q.snap \in Snapshots,
           q.pc \in {"held", "sending"} => r \in holds'[q.snap],
           q.pc = "done" => q.lease # None,
           q.lease # None =>
               /\ leases'[q.lease] # None /\ leases'[q.lease].client = r /\ leases'[q.lease].snap = q.snap
               /\ q.freeze # None => q.pc = "sending" /\ q.kind = "manifest"
    PROVE  IInv'
    <1>1. request' \in [Clients -> Requests] /\ request'[r] = q /\ \A c \in Clients : c # r => request'[c] = request[c]
        BY DEF IInv, Shape
    <1>2. Shape'
        BY <1>1 DEF IInv, Shape
    <1>3. Crew' /\ Settles'
        BY DEF IInv, Crew, CrewOf, Settles, SettledBy, Pub
    <1>4. Numbers'
        <2>1. \A s \in Snapshots : snaps'[s].tree # Rec("none") => snaps[s].tree # Rec("none")
            BY DEF TreesStay
        <2>2. state.disk.greatest <= state'.disk.greatest /\ state'.disk.greatest <= state'.seen.greatest
            BY DEF IInv, Shape, States, Numbers
        <2>3. \A f \in Freezes : Publishes(f)' =>
                  Publishes(f) /\ worker'[f].tag = worker[f].tag /\ freezes'[f].conv = freezes[f].conv
            BY DEF Publishes
        <2>4. QED
            BY <1>2, <2>1, <2>2, <2>3, NumbersKept DEF IInv
    <1>5. Asked'
        <2>1. AskedBy(r)'
            BY <1>1 DEF AskedBy
        <2>2. \A c \in Clients : request[c].snap \in Snapshots \cup {None} /\ request[c].lease \in Leases \cup {None}
            BY DEF IInv, Shape, Requests
        <2>3. QED
            BY <1>1, <2>1, <2>2, AskedStep DEF IInv
    <1>6. QED
        BY <1>2, <1>3, <1>4, <1>5 DEF IInv

\* The same for a request that changes nothing else.
LEMMA RequestAlone ==
    ASSUME IInv, NEW r \in Clients, NEW q \in Requests, request' = [request EXCEPT ![r] = q],
           UNCHANGED <<clock, disk, holds, owner, worker, deleting>>,
           q.pc # "idle" => q.snap \in Snapshots,
           q.pc \in {"held", "sending"} => r \in holds[q.snap],
           q.pc = "done" => q.lease # None,
           q.lease # None =>
               /\ leases[q.lease] # None /\ leases[q.lease].client = r /\ leases[q.lease].snap = q.snap
               /\ q.freeze # None => q.pc = "sending" /\ q.kind = "manifest"
    PROVE  IInv'
    <1>1. /\ UNCHANGED <<now, source, tokens, state, history, snaps, digest, freezes, owner, worker, deleting, holds,
              leases>>
          /\ TreesStay
        BY DEF clock, disk, TreesStay
    <1>2. HeldTrees'
        BY <1>1 DEF IInv, HeldTrees, Here, Pub
    <1>3. /\ snaps' \in [Snapshots -> Trees] /\ holds' \in [Snapshots -> SUBSET Holders]
          /\ leases' \in [Leases -> LeaseRecords \cup {None}]
        BY <1>1 DEF IInv, Shape
    <1>4. QED
        BY <1>1, <1>2, <1>3, RequestMoves

LEMMA RequestFacts ==
    ASSUME IInv, NEW r \in Clients
    PROVE  /\ request[r] \in Requests /\ request[r].lease \in Leases \cup {None}
           /\ request[r].freeze \in Freezes \cup {None} /\ request[r].snap \in Snapshots \cup {None}
           /\ request[r].pc # "idle" => request[r].snap \in Snapshots
           /\ request[r].pc \in {"held", "sending"} => r \in holds[request[r].snap]
           /\ request[r].pc = "done" => request[r].lease # None
           /\ request[r].lease # None =>
                 /\ leases[request[r].lease] # None /\ leases[request[r].lease].client = r
                 /\ leases[request[r].lease].snap = request[r].snap /\ request[r].snap \in Snapshots
                 /\ request[r].freeze # None => request[r].pc = "sending" /\ request[r].kind = "manifest"
    <1>1. request[r] \in Requests /\ AskedBy(r)
        BY DEF IInv, Shape, Asked
    <1>2. /\ request[r].lease \in Leases \cup {None} /\ request[r].freeze \in Freezes \cup {None}
          /\ request[r].snap \in Snapshots \cup {None}
        BY <1>1 DEF Requests
    <1>3. request[r].lease # None => leases[request[r].lease] \in LeaseRecords
        BY <1>1, <1>2 DEF AskedBy, IInv, Shape
    <1>4. QED
        BY <1>1, <1>2, <1>3 DEF AskedBy, LeaseRecords

LEMMA QuietRequest == Quiet \in Requests /\ Quiet.pc = "idle" /\ Quiet.lease = None
    BY DEF Quiet, Requests, RequestPCs

\* An answered request is idle; its lease and snapshot stay or go together.
LEMMA AnsweredFacts ==
    ASSUME IInv, NEW r \in Clients, NEW keep \in BOOLEAN, NEW q, q = Answered(r, keep)
    PROVE  /\ q \in Requests /\ q.pc = "idle" /\ q.renewed = 0
           /\ q.lease = IF keep THEN request[r].lease ELSE None
           /\ q.freeze = IF keep THEN request[r].freeze ELSE None
           /\ q.lease # None => q.snap = request[r].snap
    <1>1. /\ request[r].lease \in Leases \cup {None} /\ request[r].freeze \in Freezes \cup {None}
          /\ request[r].snap \in Snapshots \cup {None}
        BY RequestFacts
    <1> DEFINE z == IF keep THEN request[r].freeze ELSE None
               s == IF keep /\ request[r].lease # None THEN request[r].snap ELSE None
               l == IF keep THEN request[r].lease ELSE None
    <1>2. /\ z \in Freezes \cup {None} /\ s \in Snapshots \cup {None} /\ l \in Leases \cup {None}
          /\ l # None => s = request[r].snap
        BY <1>1
    <1>3. q = [Quiet EXCEPT !.freeze = z, !.snap = s, !.lease = l]
        BY DEF Answered
    <1> HIDE DEF z, s, l
    <1>4. q = [pc |-> "idle", kind |-> "none", freeze |-> z, snap |-> s, lease |-> l, renewed |-> 0]
        BY <1>3 DEF Quiet
    <1>5. q \in Requests /\ q.pc = "idle" /\ q.renewed = 0 /\ q.lease = l /\ q.freeze = z /\ q.snap = s
        BY <1>2, <1>4 DEF Requests, RequestPCs
    <1>6. QED
        BY <1>2, <1>5 DEF l, z

LEMMA PollStep ==
    ASSUME IInv, NEW r \in Clients, Poll(r)
    PROVE  IInv'
    <1>1. UNCHANGED <<clock, disk, holds, owner, worker, deleting>> /\ request[r].pc = "idle" /\ request[r].freeze # None
        BY DEF Poll, locks
    <1>2. request[r] \in Requests /\ request[r].lease = None /\ request[r].freeze \in Freezes
        BY <1>1, RequestFacts
    <1>3. PICK j : j = freezes[request[r].freeze]
        OBVIOUS
    <1>4. CASE request' = [request EXCEPT ![r] = Quiet]
        BY <1>1, <1>4, QuietRequest, RequestAlone
    <1>5. CASE /\ j # None /\ j.state = "ready"
               /\ request' = [request EXCEPT ![r].pc = "hold", ![r].kind = "manifest", ![r].snap = <<j.conv, j.snapshot>>]
        <2>1. j \in Jobs /\ j.snapshot \in Tags
            BY <1>2, <1>3, <1>5 DEF IInv, Shape, Crew, CrewOf
        <2>2. PICK s \in Snapshots : s = <<j.conv, j.snapshot>>
            BY <2>1 DEF Jobs, Snapshots
        <2>3. PICK q : q = [request[r] EXCEPT !.pc = "hold", !.kind = "manifest", !.snap = s]
            OBVIOUS
        <2>4. q \in Requests /\ q.pc = "hold" /\ q.lease = None /\ q.snap = s
            BY <1>2, <2>3 DEF Requests, RequestPCs
        <2>5. request' = [request EXCEPT ![r] = q]
            BY <1>5, <2>2, <2>3
        <2>6. QED
            BY <1>1, <2>4, <2>5, RequestAlone
    <1>6. QED
        BY <1>3, <1>4, <1>5 DEF Poll

LEMMA AskStep ==
    ASSUME IInv, NEW r \in Clients, Ask(r) \/ Done(r)
    PROVE  IInv'
    <1>1. UNCHANGED <<clock, disk, holds, owner, worker, deleting>> /\ request[r].pc = "idle" /\ request[r].lease # None
        BY DEF Ask, Done, locks
    <1>2. /\ request[r] \in Requests /\ request[r].snap \in Snapshots /\ request[r].freeze = None
          /\ leases[request[r].lease] # None /\ leases[request[r].lease].client = r
          /\ leases[request[r].lease].snap = request[r].snap
        BY <1>1, RequestFacts
    <1>3. PICK q : q \in {[request[r] EXCEPT !.pc = "hold", !.kind = "use"], [request[r] EXCEPT !.pc = "done"]}
                   /\ request' = [request EXCEPT ![r] = q]
        BY DEF Ask, Done
    <1>4. /\ q \in Requests /\ q.pc \in {"hold", "done"} /\ q.lease = request[r].lease /\ q.snap = request[r].snap
          /\ q.freeze = None
        BY <1>2, <1>3 DEF Requests, RequestPCs
    <1>5. QED
        BY <1>1, <1>2, <1>3, <1>4, RequestAlone

LEMMA ForgetStep ==
    ASSUME IInv, NEW r \in Clients, Forget(r)
    PROVE  IInv'
    <1>1. UNCHANGED <<clock, disk, holds, owner, worker, deleting>> /\ request' = [request EXCEPT ![r] = Quiet]
        BY DEF Forget, locks
    <1>2. QED
        BY <1>1, QuietRequest, RequestAlone

LEMMA ReleaseAgainStep ==
    ASSUME IInv, NEW r \in Clients, ReleaseAgain(r)
    PROVE  IInv'
    <1>1. /\ UNCHANGED <<clock, disk, holds, owner, worker, deleting>> /\ request[r].pc = "done"
          /\ request' = [request EXCEPT ![r].pc = "removing"]
        BY DEF ReleaseAgain, On, locks
    <1>2. /\ request[r] \in Requests /\ request[r].snap \in Snapshots /\ request[r].freeze = None
          /\ leases[request[r].lease] # None /\ leases[request[r].lease].client = r
          /\ leases[request[r].lease].snap = request[r].snap
        BY <1>1, RequestFacts
    <1>3. PICK q : q = [request[r] EXCEPT !.pc = "removing"] /\ request' = [request EXCEPT ![r] = q]
        BY <1>1
    <1>4. /\ q \in Requests /\ q.pc = "removing" /\ q.lease = request[r].lease /\ q.snap = request[r].snap
          /\ q.freeze = None
        BY <1>2, <1>3 DEF Requests, RequestPCs
    <1>5. /\ q.pc # "idle" => q.snap \in Snapshots
          /\ ~(q.pc \in {"held", "sending"}) /\ q.pc # "done"
          /\ leases[q.lease] # None /\ leases[q.lease].client = r /\ leases[q.lease].snap = q.snap
        BY <1>2, <1>4
    <1>6. QED
        BY <1>1, <1>3, <1>4, <1>5, RequestAlone

LEMMA LetGoFacts ==
    ASSUME IInv, NEW r \in Clients, LetGo(r), TreesStay, UNCHANGED state
    PROVE  /\ holds' \in [Snapshots -> SUBSET Holders] /\ HeldTrees'
           /\ \A c \in Clients, s \in Snapshots : c # r /\ c \in holds[s] => c \in holds'[s]
    <1>1. /\ holds' \in [Snapshots -> SUBSET Holders] /\ \A s \in Snapshots : holds'[s] \subseteq holds[s]
          /\ \A c \in Clients, s \in Snapshots : c # r /\ c \in holds[s] => c \in holds'[s]
        BY DEF LetGo, IInv, Shape
    <1>2. \A s \in Snapshots : Here(s) /\ holds[s] # {} => Here(s)'
        BY DEF TreesStay, Here
    <1>3. QED
        BY <1>1, <1>2, HeldKept DEF IInv, Pub

\* A request that ends with an answer: idle, its lease as it was or forgotten.
LEMMA RequestEnds ==
    ASSUME IInv, NEW r \in Clients, NEW q \in Requests, request' = [request EXCEPT ![r] = q], q.pc = "idle",
           q.lease # None =>
               q.lease = request[r].lease /\ q.snap = request[r].snap /\ q.freeze \in {None, request[r].freeze},
           request[r].pc = "sending" => q.lease = None \/ q.freeze = None,
           UNCHANGED <<now, source, tokens, state, history, digest, freezes, owner, worker, deleting>>,
           snaps' \in [Snapshots -> Trees], TreesStay, LetGo(r),
           leases' \in [Leases -> LeaseRecords \cup {None}],
           \A l \in Leases : leases[l] # None =>
               leases'[l] # None /\ leases'[l].client = leases[l].client /\ leases'[l].snap = leases[l].snap
    PROVE  IInv'
    <1>1. /\ holds' \in [Snapshots -> SUBSET Holders] /\ HeldTrees'
          /\ \A c \in Clients, s \in Snapshots : c # r /\ c \in holds[s] => c \in holds'[s]
        BY LetGoFacts
    <1>2. q.lease # None =>
              /\ leases'[q.lease] # None /\ leases'[q.lease].client = r /\ leases'[q.lease].snap = q.snap
              /\ q.freeze = None
        BY RequestFacts
    <1>3. ~(q.pc \in {"held", "sending"}) /\ q.pc # "done"
        OBVIOUS
    <1>4. QED
        BY <1>1, <1>2, <1>3, RequestMoves

LEMMA HoldSnapshotStep ==
    ASSUME IInv, NEW r \in Clients, HoldSnapshot(r)
    PROVE  IInv'
    <1>1. /\ UNCHANGED <<now, source, tokens, state, history, snaps, digest, leases, freezes, owner, worker, deleting>>
          /\ request[r].pc = "hold" /\ Life(Snap(r)) = "served"
          /\ holds' = [holds EXCEPT ![Snap(r)] = @ \cup {r}]
          /\ request' = [request EXCEPT ![r].pc = "held"]
        BY DEF HoldSnapshot, On, clock, disk
    <1>2. PICK s \in Snapshots : s = Snap(r) /\ s = request[r].snap
        BY <1>1, RequestFacts DEF Snap
    <1>3. holds' = [holds EXCEPT ![s] = @ \cup {r}] /\ Life(s) = "served"
        BY <1>1, <1>2
    <1>4. HeldTrees'
        BY <1>1, <1>3, HeldMore DEF IInv
    <1>5. /\ holds' \in [Snapshots -> SUBSET Holders] /\ r \in holds'[s]
          /\ \A c \in Clients, x \in Snapshots : c # r /\ c \in holds[x] => c \in holds'[x]
        BY <1>3 DEF IInv, Shape, Holders
    <1>6. PICK q : q = [request[r] EXCEPT !.pc = "held"] /\ request' = [request EXCEPT ![r] = q]
        BY <1>1
    <1>7. /\ q \in Requests /\ q.pc = "held" /\ q.lease = request[r].lease /\ q.snap = s
          /\ q.freeze = request[r].freeze
        BY <1>2, <1>6, RequestFacts DEF Requests, RequestPCs
    <1>8. /\ snaps' \in [Snapshots -> Trees] /\ TreesStay
          /\ leases' \in [Leases -> LeaseRecords \cup {None}]
        BY <1>1 DEF IInv, Shape, TreesStay
    <1>9. q.lease # None =>
              /\ leases'[q.lease] # None /\ leases'[q.lease].client = r /\ leases'[q.lease].snap = q.snap
              /\ q.freeze = None
        BY <1>1, <1>2, <1>7, RequestFacts
    <1>10. QED
        BY <1>1, <1>4, <1>5, <1>6, <1>7, <1>8, <1>9, RequestMoves

LEMMA RefusedStep ==
    ASSUME IInv, NEW r \in Clients, Refused(r)
    PROVE  IInv'
    <1>1. /\ UNCHANGED <<now, source, tokens, state, history, digest, leases, freezes, owner, worker, deleting>>
          /\ request[r].pc \in {"hold", "held", "done"} /\ LetGo(r)
        BY DEF Refused, clock
    <1>2. PICK s \in Snapshots : s = Snap(r)
        BY <1>1, RequestFacts DEF Snap
    <1>3. PICK k \in {0, 1}, shown \in BOOLEAN, keep \in BOOLEAN :
              /\ snaps' = IF Life(s) = "expired" THEN [snaps EXCEPT ![s].use = CommitExpiry(s, k, shown)] ELSE snaps
              /\ request' = [request EXCEPT ![r] = Answered(r, keep)]
        BY <1>2 DEF Refused
    <1>4. snaps' \in [Snapshots -> Trees] /\ TreesStay
        BY <1>3, ExpiryWritten DEF IInv, Shape, TreesStay
    <1>5. PICK q : q = Answered(r, keep)
        OBVIOUS
    <1>6. /\ q \in Requests /\ q.pc = "idle"
          /\ q.lease # None => q.lease = request[r].lease /\ q.snap = request[r].snap
               /\ q.freeze \in {None, request[r].freeze}
        BY <1>5, AnsweredFacts
    <1>7. /\ leases' \in [Leases -> LeaseRecords \cup {None}] /\ request[r].pc # "sending"
          /\ request' = [request EXCEPT ![r] = q]
        BY <1>1, <1>3, <1>5 DEF IInv, Shape
    <1>8. QED
        BY <1>1, <1>4, <1>6, <1>7, RequestEnds

LEMMA ForbiddenStep ==
    ASSUME IInv, NEW r \in Clients, Forbidden(r)
    PROVE  IInv'
    <1>1. /\ UNCHANGED <<now, source, tokens, state, history, snaps, digest, leases, freezes, owner, worker, deleting>>
          /\ request' = [request EXCEPT ![r] = Quiet] /\ LetGo(r)
        BY DEF Forbidden, clock, disk
    <1>2. /\ snaps' \in [Snapshots -> Trees] /\ TreesStay
          /\ leases' \in [Leases -> LeaseRecords \cup {None}]
        BY <1>1 DEF IInv, Shape, TreesStay
    <1>3. QED
        BY <1>1, <1>2, QuietRequest, RequestEnds

LEMMA SentStep ==
    ASSUME IInv, NEW r \in Clients, Sent(r)
    PROVE  IInv'
    <1>1. /\ UNCHANGED <<now, source, tokens, state, history, snaps, digest, leases, freezes, owner, worker, deleting>>
          /\ LetGo(r)
        BY DEF Sent, clock, disk
    <1>2. /\ snaps' \in [Snapshots -> Trees] /\ TreesStay
          /\ leases' \in [Leases -> LeaseRecords \cup {None}]
        BY <1>1 DEF IInv, Shape, TreesStay
    <1>3. CASE request' = [request EXCEPT ![r] = Quiet]
        BY <1>1, <1>2, <1>3, QuietRequest, RequestEnds
    <1>4. CASE request' = [request EXCEPT ![r] = [Answered(r, TRUE) EXCEPT !.freeze = None]]
        <2>1. PICK q, z : z = Answered(r, TRUE) /\ q = [z EXCEPT !.freeze = None]
            OBVIOUS
        <2>2. /\ z \in Requests /\ z.pc = "idle" /\ z.lease = request[r].lease
              /\ z.lease # None => z.snap = request[r].snap
            BY <2>1, AnsweredFacts
        <2>3. /\ q \in Requests /\ q.pc = "idle" /\ q.lease = z.lease /\ q.snap = z.snap /\ q.freeze = None
            BY <2>1, <2>2 DEF Requests
        <2>4. request' = [request EXCEPT ![r] = q]
            BY <1>4, <2>1
        <2>5. q.lease # None =>
                  q.lease = request[r].lease /\ q.snap = request[r].snap /\ q.freeze \in {None, request[r].freeze}
            BY <2>2, <2>3
        <2>6. QED
            BY <1>1, <1>2, <2>3, <2>4, <2>5, RequestEnds
    <1>5. QED
        BY <1>3, <1>4 DEF Sent

\* A use recorded, fully or not.
LEMMA UseRecorded ==
    ASSUME Shape, NEW s \in Snapshots, NEW k, NEW shown,
           snaps' = [snaps EXCEPT ![s].use = Write(k, shown, 1, @, Recorded(s))]
    PROVE  snaps' \in [Snapshots -> Trees] /\ TreesStay
    <1> DEFINE u == Write(k, shown, 1, snaps[s].use, Recorded(s))
    <1>1. u \in [seen : Uses, disk : Uses]
        BY UsesMade, UseWrite
    <1>2. snaps' = [snaps EXCEPT ![s].use = u] /\ snaps \in [Snapshots -> Trees]
        BY DEF Shape
    <1> HIDE DEF u
    <1>3. QED
        BY <1>1, <1>2, UseSet DEF TreesStay

\* A request that goes on with what it holds, for its answer or its renewal.
LEMMA RequestGoesOn ==
    ASSUME IInv, NEW r \in Clients, NEW q \in Requests, request' = [request EXCEPT ![r] = q],
           q.pc = "sending", request[r].pc \in {"held", "sending"},
           q.lease = request[r].lease, q.snap = request[r].snap, q.freeze = request[r].freeze, q.kind = request[r].kind,
           UNCHANGED <<now, source, tokens, state, history, digest, leases, freezes, owner, worker, deleting, holds>>,
           snaps' \in [Snapshots -> Trees], TreesStay
    PROVE  IInv'
    <1>1. HeldTrees'
        BY DEF IInv, HeldTrees, Here, Pub, TreesStay
    <1>2. holds' \in [Snapshots -> SUBSET Holders] /\ leases' \in [Leases -> LeaseRecords \cup {None}]
        BY DEF IInv, Shape
    <1>3. r \in holds'[q.snap] /\ q.snap \in Snapshots
        BY RequestFacts
    <1>4. q.lease # None =>
               /\ leases'[q.lease] # None /\ leases'[q.lease].client = r /\ leases'[q.lease].snap = q.snap
               /\ q.freeze # None => q.pc = "sending" /\ q.kind = "manifest"
        BY RequestFacts
    <1>5. q.pc # "done"
        OBVIOUS
    <1>6. QED
        BY <1>1, <1>2, <1>3, <1>4, <1>5, RequestMoves

LEMMA AdmitStep ==
    ASSUME IInv, NEW r \in Clients, Admit(r)
    PROVE  IInv'
    <1>1. /\ UNCHANGED <<now, source, tokens, state, history, digest, leases, freezes, owner, worker, deleting>>
          /\ request[r].pc = "held"
        BY DEF Admit, On, clock
    <1>2. PICK s \in Snapshots : s = Snap(r)
        BY <1>1, RequestFacts DEF Snap
    <1>3. PICK k \in {0, 1}, shown \in BOOLEAN :
              /\ snaps' = [snaps EXCEPT ![s].use = Write(k, shown, 1, @, Recorded(s))]
              /\ IF k = 0
                 THEN /\ request' = [request EXCEPT ![r].pc = "sending", ![r].renewed = now]
                      /\ UNCHANGED holds
                 ELSE /\ request' = [request EXCEPT ![r] = Answered(r, TRUE)]
                      /\ LetGo(r)
        BY <1>2 DEF Admit
    <1>4. snaps' \in [Snapshots -> Trees] /\ TreesStay
        BY <1>3, UseRecorded DEF IInv
    <1>5. leases' \in [Leases -> LeaseRecords \cup {None}]
        BY <1>1 DEF IInv, Shape
    <1>6. CASE k = 0
        <2>1. PICK q : q = [request[r] EXCEPT !.pc = "sending", !.renewed = now]
            OBVIOUS
        <2>2. request' = [request EXCEPT ![r] = q]
            BY <1>3, <1>6, <2>1
        <2>3. /\ q \in Requests /\ q.pc = "sending" /\ q.lease = request[r].lease /\ q.snap = request[r].snap
              /\ q.freeze = request[r].freeze /\ q.kind = request[r].kind
            <3>1. now \in Nat /\ request[r] \in Requests
                BY RequestFacts DEF IInv, Shape
            <3>2. QED
                BY <2>1, <3>1 DEF Requests, RequestPCs
        <2>4. QED
            BY <1>1, <1>3, <1>4, <1>6, <2>2, <2>3, RequestGoesOn
    <1>7. CASE k # 0
        <2>1. PICK q : q = Answered(r, TRUE)
            OBVIOUS
        <2>2. /\ q \in Requests /\ q.pc = "idle"
              /\ q.lease # None => q.lease = request[r].lease /\ q.snap = request[r].snap
                   /\ q.freeze \in {None, request[r].freeze}
            BY <2>1, AnsweredFacts
        <2>3. request' = [request EXCEPT ![r] = q] /\ LetGo(r)
            BY <1>3, <1>7, <2>1
        <2>4. QED
            BY <1>1, <1>4, <1>5, <2>2, <2>3, RequestEnds
    <1>8. QED
        BY <1>6, <1>7

LEMMA RenewStep ==
    ASSUME IInv, NEW r \in Clients, Renew(r)
    PROVE  IInv'
    <1>1. /\ UNCHANGED <<now, source, tokens, state, history, digest, leases, freezes, owner, worker, deleting, holds>>
          /\ request[r].pc = "sending"
        BY DEF Renew, Renews, clock, locks
    <1>2. PICK s \in Snapshots : s = Snap(r)
        BY <1>1, RequestFacts DEF Snap
    <1>3. PICK k \in {0, 1}, shown \in BOOLEAN, n \in {now, 0} :
              /\ snaps' \in {snaps, [snaps EXCEPT ![s].use = Write(k, shown, 1, @, Recorded(s))]}
              /\ request' = [request EXCEPT ![r].renewed = n]
        BY <1>2 DEF Renew
    <1>4. snaps' \in [Snapshots -> Trees] /\ TreesStay
        BY <1>3, UseRecorded DEF IInv, Shape, TreesStay
    <1>5. PICK q : q = [request[r] EXCEPT !.renewed = n] /\ request' = [request EXCEPT ![r] = q]
        BY <1>3
    <1>6. /\ q \in Requests /\ q.pc = "sending" /\ q.lease = request[r].lease /\ q.snap = request[r].snap
          /\ q.freeze = request[r].freeze /\ q.kind = request[r].kind
        <2>1. n \in Nat
            BY DEF IInv, Shape
        <2>2. request[r] \in Requests
            BY RequestFacts
        <2>3. QED
            BY <1>1, <1>5, <2>1, <2>2 DEF Requests
    <1>7. QED
        BY <1>1, <1>4, <1>5, <1>6, RequestGoesOn

\* All a grant writes.
Grants(r, s, l, k, shown) ==
    LET due == Unleased(s)
        reads == ~(Superseded(s) /\ Unreadable(s))
        granted == reads /\ ~due /\ k \in {0, 3}
        use == IF ~reads THEN snaps[s].use
               ELSE IF due THEN Write(k, shown, 2, snaps[s].use, Expired(s))
               ELSE Write(k, shown, 3, snaps[s].use, Recorded(s))
    IN  /\ leases[l] = None
        /\ snaps' = [snaps EXCEPT ![s] =
               [use |-> use, tree |-> @.tree,
                superseded |-> IF Superseded(s) THEN CommitMark(s, k, shown, 1) ELSE @.superseded]]
        /\ leases' = IF granted THEN [leases EXCEPT ![l] = [snap |-> s, client |-> r, state |-> "open"]]
                     ELSE IF ~due /\ k = 2 /\ shown
                     THEN [leases EXCEPT ![l] = [snap |-> s, client |-> r, state |-> "broken"]]
                     ELSE leases
        /\ gone' = IF reads /\ due /\ k = 0 THEN gone \cup {s} ELSE gone
        /\ IF granted /\ k = 0
           THEN /\ request' = [request EXCEPT ![r].pc = "sending", ![r].lease = l, ![r].renewed = now]
                /\ UNCHANGED holds
           ELSE /\ request' = [request EXCEPT ![r] = Answered(r, ~(reads /\ due /\ k = 0))]
                /\ LetGo(r)

LEMMA GrantTaken ==
    ASSUME NEW r, Grant(r), NEW s, s = Snap(r)
    PROVE  \E k \in 0 .. 3, shown \in BOOLEAN, l \in Leases : Grants(r, s, l, k, shown)
    <1>1. \E k \in 0 .. 3, shown \in BOOLEAN, l \in Leases : Grants(r, Snap(r), l, k, shown)
        BY ZenonT(180) DEF Grant, Grants
    <1>2. QED
        BY <1>1

LEMMA GrantStep ==
    ASSUME IInv, NEW r \in Clients, Grant(r)
    PROVE  IInv'
    <1>1. /\ UNCHANGED <<now, source, tokens, state, history, digest, freezes, owner, worker, deleting>>
          /\ request[r].pc = "held" /\ request[r].kind = "manifest"
        BY DEF Grant, On, clock
    <1>2. PICK s \in Snapshots : s = Snap(r) /\ s = request[r].snap
        BY <1>1, RequestFacts DEF Snap
    <1> DEFINE due == Unleased(s)
               reads == ~(Superseded(s) /\ Unreadable(s))
    <1>3b. PICK k \in 0 .. 3, shown \in BOOLEAN, l \in Leases : Grants(r, s, l, k, shown)
        BY <1>2, GrantTaken
    <1>3c. PICK u, p :
              /\ u = IF ~reads THEN snaps[s].use
                     ELSE IF due THEN Write(k, shown, 2, snaps[s].use, Expired(s))
                     ELSE Write(k, shown, 3, snaps[s].use, Recorded(s))
              /\ p = IF Superseded(s) THEN CommitMark(s, k, shown, 1) ELSE snaps[s].superseded
        OBVIOUS
    <1>3d. PICK granted \in BOOLEAN : granted <=> reads /\ ~due /\ k \in {0, 3}
        OBVIOUS
    <1>3e. PICK keep \in BOOLEAN : keep <=> ~(reads /\ due /\ k = 0)
        OBVIOUS
    <1>3f. snaps' = [snaps EXCEPT ![s] = [use |-> u, tree |-> @.tree, superseded |-> p]]
        BY <1>3b, <1>3c DEF Grants
    <1>3g. /\ u \in {snaps[s].use, Write(k, shown, 2, snaps[s].use, Expired(s)),
              Write(k, shown, 3, snaps[s].use, Recorded(s))}
           /\ p \in {CommitMark(s, k, shown, 1), snaps[s].superseded}
        BY <1>3c
    <1>3h. /\ leases' \in {leases, [leases EXCEPT ![l] = [snap |-> s, client |-> r, state |-> "open"]],
                           [leases EXCEPT ![l] = [snap |-> s, client |-> r, state |-> "broken"]]}
           /\ granted => leases' = [leases EXCEPT ![l] = [snap |-> s, client |-> r, state |-> "open"]]
        BY <1>3b, <1>3d DEF Grants
    <1>3i. \/ granted /\ k = 0 /\ UNCHANGED holds
              /\ request' = [request EXCEPT ![r].pc = "sending", ![r].lease = l, ![r].renewed = now]
           \/ LetGo(r) /\ request' = [request EXCEPT ![r] = Answered(r, keep)]
        BY <1>3b, <1>3d, <1>3e DEF Grants
    <1>4. /\ snaps \in [Snapshots -> Trees] /\ snaps[s] \in Trees /\ now \in Nat
          /\ snaps[s].tree \in [seen : Places, disk : Places]
          /\ snaps[s].superseded \in [seen : Nat, disk : Nat] /\ snaps[s].use \in [seen : Uses, disk : Uses]
        BY DEF IInv, Shape, Trees
    <1>5. u \in [seen : Uses, disk : Uses] /\ p \in [seen : Nat, disk : Nat]
        <2>1. Expired(s) \in Uses /\ Recorded(s) \in Uses
            BY UsesMade DEF IInv
        <2>2. /\ Write(k, shown, 2, snaps[s].use, Expired(s)) \in [seen : Uses, disk : Uses]
              /\ Write(k, shown, 3, snaps[s].use, Recorded(s)) \in [seen : Uses, disk : Uses]
            BY <2>1, UseWrite DEF IInv
        <2>3. CommitMark(s, k, shown, 1) \in [seen : Nat, disk : Nat]
            BY MarkCommitted DEF IInv
        <2>4. QED
            BY <1>3g, <1>4, <2>2, <2>3
    <1>6. snaps' = [snaps EXCEPT ![s] = [use |-> u, superseded |-> p, tree |-> snaps[s].tree]]
        BY <1>3f
    <1>7. snaps' \in [Snapshots -> Trees] /\ TreesStay
        BY <1>4, <1>5, <1>6, SnapRecord DEF TreesStay
    <1>8. /\ leases' \in [Leases -> LeaseRecords \cup {None}]
          /\ \A x \in Leases : leases[x] # None => leases'[x] = leases[x]
          /\ granted => leases'[l] # None /\ leases'[l].client = r /\ leases'[l].snap = s
        <2>1. ASSUME NEW e \in {"open", "broken"}
              PROVE  LET n == [snap |-> s, client |-> r, state |-> e]
                     IN  n \in LeaseRecords /\ n # None /\ n.client = r /\ n.snap = s
            <3>1. PICK n : n = [snap |-> s, client |-> r, state |-> e]
                OBVIOUS
            <3>2. n \in LeaseRecords /\ n.client = r /\ n.snap = s
                BY <3>1 DEF LeaseRecords
            <3>3. n # None
                BY <3>2, PullNames
            <3>4. QED
                BY <3>1, <3>2, <3>3
        <2>2. PICK o, b : o = [snap |-> s, client |-> r, state |-> "open"]
                  /\ b = [snap |-> s, client |-> r, state |-> "broken"]
            OBVIOUS
        <2>3. o \in LeaseRecords /\ b \in LeaseRecords /\ o # None /\ o.client = r /\ o.snap = s
            BY <2>1, <2>2
        <2>4. leases' \in {leases, [leases EXCEPT ![l] = o], [leases EXCEPT ![l] = b]}
                  /\ (granted => leases' = [leases EXCEPT ![l] = o])
            BY <1>3h, <2>2
        <2>5. QED
            BY <1>3b, <2>3, <2>4 DEF IInv, Shape, Grants
    <1>9. CASE granted /\ k = 0 /\ UNCHANGED holds
               /\ request' = [request EXCEPT ![r].pc = "sending", ![r].lease = l, ![r].renewed = now]
        <2>1. PICK q : q = [request[r] EXCEPT !.pc = "sending", !.lease = l, !.renewed = now]
            OBVIOUS
        <2>2. request' = [request EXCEPT ![r] = q]
            BY <1>9, <2>1
        <2>3. request[r] \in Requests /\ r \in holds[s]
            BY <1>1, <1>2, RequestFacts
        <2>4. /\ q \in Requests /\ q.pc = "sending" /\ q.lease = l /\ q.snap = s /\ q.kind = "manifest"
            BY <1>1, <1>2, <1>4, <2>1, <2>3 DEF Requests, RequestPCs
        <2>5. HeldTrees' /\ holds' \in [Snapshots -> SUBSET Holders] /\ r \in holds'[q.snap]
            BY <1>1, <1>7, <1>9, <2>3, <2>4 DEF IInv, HeldTrees, Here, Pub, TreesStay, Shape
        <2>6. /\ leases'[q.lease] # None /\ leases'[q.lease].client = r /\ leases'[q.lease].snap = q.snap
              /\ q.pc # "done" /\ q.snap \in Snapshots
            BY <1>8, <1>9, <2>4
        <2>7. \A c \in Clients, x \in Snapshots : c # r /\ c \in holds[x] => c \in holds'[x]
            BY <1>9
        <2>8. \A x \in Leases : leases[x] # None =>
                  leases'[x] # None /\ leases'[x].client = leases[x].client /\ leases'[x].snap = leases[x].snap
            BY <1>8
        <2>9. QED
            BY <1>1, <1>7, <1>8, <2>2, <2>4, <2>5, <2>6, <2>7, <2>8, RequestMoves
    <1>10. CASE LetGo(r) /\ \E b \in BOOLEAN : request' = [request EXCEPT ![r] = Answered(r, b)]
        <2>0. PICK back \in BOOLEAN : request' = [request EXCEPT ![r] = Answered(r, back)]
            BY <1>10
        <2>1. PICK q : q = Answered(r, back) /\ request' = [request EXCEPT ![r] = q]
            BY <2>0
        <2>2. /\ q \in Requests /\ q.pc = "idle"
              /\ q.lease # None => q.lease = request[r].lease /\ q.snap = request[r].snap
                   /\ q.freeze \in {None, request[r].freeze}
            BY <2>1, AnsweredFacts
        <2>3. \A x \in Leases : leases[x] # None =>
                  leases'[x] # None /\ leases'[x].client = leases[x].client /\ leases'[x].snap = leases[x].snap
            BY <1>8
        <2>4. QED
            BY <1>1, <1>7, <1>8, <1>10, <2>1, <2>2, <2>3, RequestEnds
    <1>11. QED
        BY <1>3i, <1>9, <1>10

\* The use a release writes, and all it writes.
ReleasedUse(s, last, k, shown) ==
    LET used == Write(k, shown, 1, snaps[s].use, Recorded(s))
    IN  IF last THEN Write(k, shown, 4, used, [used.seen EXCEPT !.state = "expired"]) ELSE used

Releases(r, s, l, k, shown) ==
    LET last == Superseded(s) /\ OpenLeases(s) = {l} /\ ~Unreadable(s)
        released == k \notin {1, 2} \/ (k = 2 /\ shown)
    IN  /\ snaps' = [snaps EXCEPT ![s] =
               [use |-> ReleasedUse(s, last, k, shown), tree |-> @.tree,
                superseded |-> IF Superseded(s) THEN CommitMark(s, k, shown, 3) ELSE @.superseded]]
        /\ leases' = IF released THEN [leases EXCEPT ![l].state = "released"] ELSE leases
        /\ request' = IF k = 0 THEN [request EXCEPT ![r].pc = "removing"]
                      ELSE [request EXCEPT ![r] = IF released THEN Quiet ELSE Answered(r, TRUE)]

LEMMA ReleaseTaken ==
    ASSUME NEW r, ReleaseLease(r), NEW s, NEW l, s = Snap(r), l = request[r].lease
    PROVE  \E k \in 0 .. 4, shown \in BOOLEAN : Releases(r, s, l, k, shown)
    <1>1. \E k \in 0 .. 4, shown \in BOOLEAN : Releases(r, Snap(r), request[r].lease, k, shown)
        BY ZenonT(180) DEF ReleaseLease, ReleasedUse, Releases
    <1>2. QED
        BY <1>1

LEMMA ReleaseLeaseStep ==
    ASSUME IInv, NEW r \in Clients, ReleaseLease(r)
    PROVE  IInv'
    <1>1. /\ UNCHANGED <<now, source, tokens, state, history, digest, freezes, owner, worker, deleting, holds>>
          /\ request[r].pc = "done"
        BY DEF ReleaseLease, On, clock, locks
    <1>2. PICK s \in Snapshots, l \in Leases : s = Snap(r) /\ s = request[r].snap /\ l = request[r].lease
        BY <1>1, RequestFacts DEF Snap
    <1> DEFINE last == Superseded(s) /\ OpenLeases(s) = {l} /\ ~Unreadable(s)
               used(k, shown) == Write(k, shown, 1, snaps[s].use, Recorded(s))
    <1>3a. PICK k \in 0 .. 4, shown \in BOOLEAN : Releases(r, s, l, k, shown)
        BY <1>2, ReleaseTaken
    <1>3b. PICK u, p :
              /\ u = ReleasedUse(s, last, k, shown)
              /\ p = IF Superseded(s) THEN CommitMark(s, k, shown, 3) ELSE snaps[s].superseded
        OBVIOUS
    <1>3d. snaps' = [snaps EXCEPT ![s] = [use |-> u, tree |-> @.tree, superseded |-> p]]
        BY <1>3a, <1>3b DEF Releases
    <1>3e. /\ u \in {used(k, shown), Write(k, shown, 4, used(k, shown), [used(k, shown).seen EXCEPT !.state = "expired"])}
           /\ p \in {CommitMark(s, k, shown, 3), snaps[s].superseded}
        BY <1>3b DEF ReleasedUse
    <1>3f. /\ leases' \in {leases, [leases EXCEPT ![l].state = "released"]}
           /\ \/ request' = [request EXCEPT ![r].pc = "removing"]
              \/ request' = [request EXCEPT ![r] = Quiet]
              \/ request' = [request EXCEPT ![r] = Answered(r, TRUE)]
        BY <1>3a DEF Releases
    <1>4. /\ snaps \in [Snapshots -> Trees] /\ snaps[s] \in Trees
          /\ snaps[s].tree \in [seen : Places, disk : Places]
          /\ snaps[s].superseded \in [seen : Nat, disk : Nat] /\ snaps[s].use \in [seen : Uses, disk : Uses]
        BY DEF IInv, Shape, Trees
    <1>5. u \in [seen : Uses, disk : Uses]
        <2>1. PICK w \in [seen : Uses, disk : Uses] : w = Write(k, shown, 1, snaps[s].use, Recorded(s))
            BY UsesMade, UseWrite DEF IInv
        <2>2. PICK e : e = [w.seen EXCEPT !.state = "expired"]
            OBVIOUS
        <2>3. e \in Uses
            <3>1. PICK o \in Uses : o = w.seen
                BY <2>1
            <3>2. QED
                BY <2>2, <3>1 DEF Uses
        <2>4. Write(k, shown, 4, w, e) \in [seen : Uses, disk : Uses]
            BY <2>1, <2>3, WriteFacts
        <2>5. QED
            BY <1>3e, <2>1, <2>2, <2>4
    <1>6. p \in [seen : Nat, disk : Nat]
        BY <1>3e, <1>4, MarkCommitted DEF IInv
    <1>7. snaps' = [snaps EXCEPT ![s] = [use |-> u, superseded |-> p, tree |-> snaps[s].tree]]
        BY <1>3d
    <1>8. snaps' \in [Snapshots -> Trees] /\ TreesStay
        BY <1>4, <1>5, <1>6, <1>7, SnapRecord DEF TreesStay
    <1>9. /\ leases' \in [Leases -> LeaseRecords \cup {None}]
          /\ \A x \in Leases : leases[x] # None =>
                 leases'[x] # None /\ leases'[x].client = leases[x].client /\ leases'[x].snap = leases[x].snap
        <2>1. leases[l] \in LeaseRecords
            BY <1>1, <1>2, RequestFacts DEF IInv, Shape
        <2>2. PICK n : n = [leases[l] EXCEPT !.state = "released"]
            OBVIOUS
        <2>3. n \in LeaseRecords /\ n.client = leases[l].client /\ n.snap = leases[l].snap
            BY <2>1, <2>2 DEF LeaseRecords
        <2>4. n # None
            BY <2>3, PullNames
        <2>5. leases' \in {leases, [leases EXCEPT ![l] = n]}
            BY <1>3f, <2>2
        <2>6. QED
            BY <2>3, <2>4, <2>5 DEF IInv, Shape
    <1>10. PICK q : /\ request' = [request EXCEPT ![r] = q]
                    /\ q = Quiet \/ q = Answered(r, TRUE) \/ q = [request[r] EXCEPT !.pc = "removing"]
        BY <1>3f
    <1>11. /\ q \in Requests /\ q.pc \in {"idle", "removing"} /\ (q.pc # "idle" => q.snap \in Snapshots)
           /\ q.lease # None => q.lease = l /\ q.snap = s /\ q.freeze = None
        <2>1. CASE q = Quiet
            BY <2>1, QuietRequest
        <2>2. CASE q = Answered(r, TRUE)
            <3>1. q \in Requests /\ q.pc = "idle" /\ (q.lease # None => q.lease = l /\ q.snap = s)
                      /\ q.freeze \in {None, request[r].freeze}
                BY <1>2, <2>2, AnsweredFacts
            <3>2. request[r].freeze = None
                BY <1>1, RequestFacts
            <3>3. QED
                BY <3>1, <3>2
        <2>3. CASE q = [request[r] EXCEPT !.pc = "removing"]
            <3>1. request[r] \in Requests /\ request[r].freeze = None
                BY <1>1, RequestFacts
            <3>2. q \in Requests /\ q.pc = "removing" /\ q.lease = l /\ q.snap = s /\ q.freeze = None
                BY <1>2, <2>3, <3>1 DEF Requests, RequestPCs
            <3>3. QED
                BY <3>2
        <2>4. QED
            BY <1>10, <2>1, <2>2, <2>3
    <1>12. HeldTrees' /\ holds' \in [Snapshots -> SUBSET Holders]
        BY <1>1, <1>8 DEF IInv, HeldTrees, Here, Pub, TreesStay, Shape
    <1>13. /\ ~(q.pc \in {"held", "sending"}) /\ q.pc # "done"
           /\ q.lease # None =>
                 /\ leases'[q.lease] # None /\ leases'[q.lease].client = r /\ leases'[q.lease].snap = q.snap
                 /\ q.freeze # None => q.pc = "sending" /\ q.kind = "manifest"
        BY <1>1, <1>2, <1>9, <1>11, RequestFacts
    <1>14. \A c \in Clients, x \in Snapshots : c # r /\ c \in holds[x] => c \in holds'[x]
        BY <1>1
    <1>15. QED
        BY <1>1, <1>8, <1>9, <1>10, <1>11, <1>12, <1>13, <1>14, RequestMoves

LEMMA RemoveReleasedStep ==
    ASSUME IInv, NEW r \in Clients, RemoveReleased(r)
    PROVE  IInv'
    <1>1. request[r].pc = "removing" /\ request' = [request EXCEPT ![r] = Quiet]
        BY DEF RemoveReleased, On
    <1>2. PICK s \in Snapshots : s = Snap(r)
        BY <1>1, RequestFacts DEF Snap
    <1>3. CASE RemoveIfDue(r, s)
        <2>1. r \in Actors
            BY NamesApart
        <2>2. /\ deleting[r] = None
              /\ deleting' \in {deleting, [deleting EXCEPT ![r] = [snap |-> s, next |-> "done", pub |-> None]]}
              /\ UNCHANGED <<now, source, tokens, state, digest, leases, freezes, owner, holds, worker>>
              /\ snaps' \in [Snapshots -> Trees] /\ \A x \in Snapshots : x # s => snaps'[x] = snaps[x]
              /\ snaps'[s].tree = snaps[s].tree \/ (Here(s) /\ holds[s] = {})
              /\ history' \in [Conversations -> [seen : Histories, disk : Histories]]
            BY <1>3, <2>1, RemovalWrites DEF IInv
        <2>3. /\ request' \in [Clients -> Requests] /\ request'[r] = Quiet
              /\ \A c \in Clients : c # r => request'[c] = request[c]
            BY <1>1, QuietRequest DEF IInv, Shape
        <2>4. Asked'
            <3>1. AskedBy(r)'
                BY <2>3, QuietRequest DEF AskedBy
            <3>2. \A c \in Clients : request[c].snap \in Snapshots \cup {None} /\ request[c].lease \in Leases \cup {None}
                BY DEF IInv, Shape, Requests
            <3>3. QED
                BY <2>2, <2>3, <3>1, <3>2, AskedStep DEF IInv
        <2>5. QED
            BY <2>1, <2>2, <2>3, <2>4, RemovalKeeps
    <1>4. CASE UNCHANGED <<clock, disk, locks, worker, deleting, gone, faults, stops>>
        <2>1. UNCHANGED <<clock, disk, holds, owner, worker, deleting>>
            BY <1>4 DEF locks
        <2>2. QED
            BY <1>1, <2>1, QuietRequest, RequestAlone
    <1>5. QED
        BY <1>2, <1>3, <1>4 DEF RemoveReleased

-----------------------------------------------------------------------------
(* The world: time, the evidence, tokens, and stops of the process.          *)

LEMMA WorldStays ==
    ASSUME IInv, now' \in Nat, source' \in [Conversations -> Nat], tokens' \subseteq Clients,
           UNCHANGED <<state, history, snaps, digest, leases, freezes, owner, holds, worker, request, deleting>>
    PROVE  IInv'
    <1>1. Shape'
        BY DEF IInv, Shape
    <1>2. Crew' /\ Settles'
        BY DEF IInv, Crew, CrewOf, Settles, SettledBy, Pub
    <1>3. Numbers'
        BY DEF IInv, Numbers, Publishes, ConvOf
    <1>4. HeldTrees' /\ Asked'
        BY DEF IInv, HeldTrees, Here, Pub, Asked, AskedBy
    <1>5. QED
        BY <1>1, <1>2, <1>3, <1>4 DEF IInv

LEMMA TimeStep == ASSUME IInv, Tick \/ StartProcess PROVE IInv'
    <1>1. /\ now' \in {now, now + 1}
          /\ UNCHANGED <<source, tokens, state, history, snaps, digest, leases, freezes, owner, holds, worker,
               request, deleting>>
        BY DEF Tick, StartProcess, clock, disk, locks, work
    <1>2. now' \in Nat /\ source' \in [Conversations -> Nat] /\ tokens' \subseteq Clients
        BY <1>1 DEF IInv, Shape
    <1>3. QED
        BY <1>1, <1>2, WorldStays

LEMMA ChangeStep == ASSUME IInv, NEW c \in Conversations, Change(c) PROVE IInv'
    <1>1. /\ source' = [source EXCEPT ![c] = @ + 1]
          /\ UNCHANGED <<now, tokens, state, history, snaps, digest, leases, freezes, owner, holds, worker, request,
               deleting>>
        BY DEF Change, disk, locks, work
    <1>2. now' \in Nat /\ source' \in [Conversations -> Nat] /\ tokens' \subseteq Clients
        BY <1>1 DEF IInv, Shape
    <1>3. QED
        BY <1>1, <1>2, WorldStays

LEMMA TokenStep == ASSUME IInv, NEW r \in Clients, TokenGone(r) PROVE IInv'
    <1>1. /\ tokens' = tokens \ {r}
          /\ UNCHANGED <<now, source, state, history, snaps, digest, leases, freezes, owner, holds, worker, request,
               deleting>>
        BY DEF TokenGone, disk, locks, work
    <1>2. now' \in Nat /\ source' \in [Conversations -> Nat] /\ tokens' \subseteq Clients
        BY <1>1 DEF IInv, Shape
    <1>3. QED
        BY <1>1, <1>2, WorldStays

\* What a loss of power brings back is a record of the same kind.
LEMMA RecMade == ASSUME NEW S, NEW old \in [seen : S, disk : S] PROVE Rec(old.disk) \in [seen : S, disk : S]
    BY DEF Rec

LEMMA PowerLost ==
    ASSUME IInv, state' = Rec(state.disk), history' = [c \in Conversations |-> Rec(history[c].disk)],
           snaps' = [s \in Snapshots |-> [tree |-> Rec(snaps[s].tree.disk), superseded |-> Rec(snaps[s].superseded.disk),
                                          use |-> Rec(snaps[s].use.disk)]]
    PROVE  /\ state' \in [seen : States, disk : States] /\ snaps' \in [Snapshots -> Trees]
           /\ history' \in [Conversations -> [seen : Histories, disk : Histories]]
           /\ state'.disk = state.disk /\ state'.seen = state.disk
           /\ \A s \in Snapshots : snaps'[s].tree # Rec("none") => snaps[s].tree # Rec("none")
    <1>1. /\ state \in [seen : States, disk : States] /\ snaps \in [Snapshots -> Trees]
          /\ history \in [Conversations -> [seen : Histories, disk : Histories]]
        BY DEF IInv, Shape
    <1>2. state' \in [seen : States, disk : States]
        BY <1>1, RecMade
    <1>3. history' \in [Conversations -> [seen : Histories, disk : Histories]]
        BY <1>1, RecMade
    <1>4. ASSUME NEW s \in Snapshots
          PROVE  snaps'[s] \in Trees /\ snaps'[s].tree = Rec(snaps[s].tree.disk)
        <2>1. PICK t, m, u : t = snaps[s].tree /\ m = snaps[s].superseded /\ u = snaps[s].use
            OBVIOUS
        <2>2. t \in [seen : Places, disk : Places] /\ m \in [seen : Nat, disk : Nat] /\ u \in [seen : Uses, disk : Uses]
            BY <1>1, <2>1 DEF Trees
        <2>3. Rec(t.disk) \in [seen : Places, disk : Places] /\ Rec(u.disk) \in [seen : Uses, disk : Uses]
            BY <2>2, RecMade
        <2>4. Rec(m.disk) \in [seen : Nat, disk : Nat]
            BY <2>2 DEF Rec
        <2>5. snaps'[s] = [tree |-> Rec(t.disk), superseded |-> Rec(m.disk), use |-> Rec(u.disk)]
            BY <2>1
        <2>6. QED
            BY <2>1, <2>3, <2>4, <2>5 DEF Trees
    <1>5. ASSUME NEW s \in Snapshots, snaps[s].tree = Rec("none")
          PROVE  snaps'[s].tree = Rec("none")
        BY <1>4, <1>5, RecFields
    <1>6. QED
        BY <1>2, <1>3, <1>4, <1>5, RecFields

\* What a stop leaves a client with.
LEMMA CutFacts ==
    ASSUME IInv, NEW r \in Clients, NEW q, q = Cut(r)
    PROVE  /\ q \in Requests /\ q.pc = "idle" /\ q.renewed = 0
           /\ q.lease # None => q.lease = request[r].lease /\ q.snap = request[r].snap /\ q.freeze = None
    <1>1. CASE request[r].pc = "sending" /\ request[r].kind = "manifest"
        <2>1. PICK z \in Freezes \cup {None} : z = request[r].freeze
            BY RequestFacts
        <2>2. q = [pc |-> "idle", kind |-> "none", freeze |-> z, snap |-> None, lease |-> None, renewed |-> 0]
            BY <1>1, <2>1 DEF Cut, Quiet
        <2>3. QED
            BY <2>2 DEF Requests, RequestPCs
    <1>2. CASE ~(request[r].pc = "sending" /\ request[r].kind = "manifest")
        <2>1. q = Answered(r, TRUE)
            BY <1>2 DEF Cut
        <2>2. /\ q \in Requests /\ q.pc = "idle" /\ q.renewed = 0
              /\ q.lease = request[r].lease /\ q.freeze = request[r].freeze
              /\ q.lease # None => q.snap = request[r].snap
            BY <2>1, AnsweredFacts
        <2>3. request[r].lease # None => request[r].freeze = None
            BY <1>2, RequestFacts
        <2>4. QED
            BY <2>2, <2>3
    <1>3. QED
        BY <1>1, <1>2

LEMMA CrashStep ==
    ASSUME IInv, NEW power \in BOOLEAN, Crash(power)
    PROVE  IInv'
    <1>1. /\ UNCHANGED <<now, source, tokens, digest, leases, freezes>>
          /\ owner' = [f \in Freezes |-> None] /\ holds' = [s \in Snapshots |-> {}]
          /\ worker' = [f \in Freezes |-> Idle] /\ deleting' = [a \in Actors |-> None]
          /\ request' = [r \in Clients |-> Cut(r)]
        BY DEF Crash, clock, Actors
    <1>2. /\ state' \in [seen : States, disk : States] /\ snaps' \in [Snapshots -> Trees]
          /\ history' \in [Conversations -> [seen : Histories, disk : Histories]]
          /\ state'.disk = state.disk /\ state'.seen \in {state.seen, state.disk}
          /\ \A s \in Snapshots : snaps'[s].tree # Rec("none") => snaps[s].tree # Rec("none")
        <2>1. CASE power
            <3>1. /\ state' = Rec(state.disk) /\ history' = [c \in Conversations |-> Rec(history[c].disk)]
                  /\ snaps' = [s \in Snapshots |-> [tree |-> Rec(snaps[s].tree.disk),
                       superseded |-> Rec(snaps[s].superseded.disk),
                                                    use |-> Rec(snaps[s].use.disk)]]
                BY <2>1, ZenonT(30) DEF Crash
            <3>2. QED
                BY <3>1, PowerLost
        <2>2. CASE ~power
            <3>1. UNCHANGED <<state, history, snaps>>
                BY <2>2, ZenonT(30) DEF Crash
            <3>2. QED
                BY <3>1 DEF IInv, Shape
        <2>3. QED
            BY <2>1, <2>2
    <1>3. \A f \in Freezes : worker'[f].pc = "idle"
        BY <1>1 DEF Idle
    <1>4. ASSUME NEW r \in Clients
          PROVE  /\ request'[r] \in Requests /\ request'[r].pc = "idle"
                 /\ request'[r].lease # None =>
                        request'[r].lease = request[r].lease /\ request'[r].snap = request[r].snap
                            /\ request'[r].freeze = None
        <2>1. request'[r] = Cut(r)
            BY <1>1
        <2>2. QED
            BY <2>1, CutFacts
    <1>5. Shape'
        <2>1. Idle \in Builds
            BY DEF Idle, Builds, WorkerPCs
        <2>2. request' \in [Clients -> Requests]
            BY <1>1, <1>4
        <2>3. QED
            BY <1>1, <1>2, <2>1, <2>2 DEF IInv, Shape
    <1>6. Crew'
        BY <1>1, <1>3 DEF IInv, Crew, CrewOf
    <1>7. Settles'
        BY <1>1 DEF Settles, SettledBy
    <1>8. Numbers'
        <2>1. /\ state.disk.greatest <= state.seen.greatest /\ state.disk.greatest \in Nat
              /\ \A s \in Snapshots : digest[s] # None \/ snaps[s].tree # Rec("none") => s[2] <= state.disk.greatest
            BY DEF IInv, Numbers, Shape, States
        <2>2. \A f \in Freezes : ~Publishes(f)'
            BY <1>3 DEF Publishes
        <2>3. QED
            BY <1>1, <1>2, <2>1, <2>2 DEF Numbers
    <1>9. HeldTrees'
        <2>1. Pub' # None => <<Pub'.conv, Pub'.tag>> \in Snapshots
            BY <1>5 DEF Shape, States, Publications, Pub, Snapshots
        <2>2. QED
            BY <1>1, <2>1 DEF HeldTrees, Pub
    <1>10. Asked'
        BY <1>1, <1>4, RequestFacts DEF Asked, AskedBy
    <1>11. QED
        BY <1>5, <1>6, <1>7, <1>8, <1>9, <1>10 DEF IInv

-----------------------------------------------------------------------------
(* The invariant.                                                            *)

LEMMA InitHolds == Init => IInv
    <1> SUFFICES ASSUME Init PROVE IInv
        OBVIOUS
    <1>1. Idle \in Builds /\ Idle.pc = "idle" /\ Quiet \in Requests /\ Quiet.pc = "idle" /\ Quiet.lease = None
        BY QuietRequest DEF Idle, Builds, WorkerPCs
    <1>2. NoSnap \in Trees /\ NoSnap.tree = Rec("none")
        <2>1. NoUse \in Uses
            BY DEF NoUse, Uses
        <2>2. PICK t, m, u : t = Rec("none") /\ m = Rec(0) /\ u = Rec(NoUse)
            OBVIOUS
        <2>3. t \in [seen : Places, disk : Places] /\ m \in [seen : Nat, disk : Nat] /\ u \in [seen : Uses, disk : Uses]
            BY <2>1, <2>2 DEF Rec, Places
        <2>4. NoSnap = [tree |-> t, superseded |-> m, use |-> u]
            BY <2>2 DEF NoSnap
        <2>5. QED
            BY <2>2, <2>3, <2>4 DEF Trees
    <1>3. /\ state \in [seen : States, disk : States] /\ Pub = None
          /\ state.disk.greatest = 0 /\ state.seen.greatest = 0
        <2>1. PICK g : g = [greatest |-> 0, pub |-> None]
            OBVIOUS
        <2>2. g \in States /\ g.pub = None /\ g.greatest = 0
            BY <2>1 DEF States
        <2>3. state = Rec(g)
            BY <2>1 DEF Init
        <2>4. QED
            BY <2>2, <2>3 DEF Rec, Pub
    <1>4. history \in [Conversations -> [seen : Histories, disk : Histories]]
        <2>1. PICK h : h = [greatest |-> 0, removed |-> {}]
            OBVIOUS
        <2>2. h \in Histories
            BY <2>1 DEF Histories
        <2>3. history = [c \in Conversations |-> Rec(h)]
            BY <2>1 DEF Init
        <2>4. QED
            BY <2>2, <2>3 DEF Rec
    <1>5. Shape
        <2>1. now \in Nat /\ source \in [Conversations -> Nat] /\ tokens \subseteq Clients
            BY DEF Init
        <2>2. snaps \in [Snapshots -> Trees] /\ digest \in [Snapshots -> Nat \cup {None}]
            BY <1>2 DEF Init
        <2>3. /\ leases \in [Leases -> LeaseRecords \cup {None}] /\ freezes \in [Freezes -> Jobs \cup {None}]
              /\ owner \in [Freezes -> Freezes \cup {Sweeper, None}] /\ holds \in [Snapshots -> SUBSET Holders]
              /\ deleting \in [Actors -> Removals \cup {None}]
            BY DEF Init, Actors
        <2>4. worker \in [Freezes -> Builds] /\ request \in [Clients -> Requests]
            BY <1>1 DEF Init
        <2>5. QED
            BY <1>3, <1>4, <2>1, <2>2, <2>3, <2>4 DEF Shape
    <1>6. Crew /\ Settles
        BY <1>1 DEF Init, Crew, CrewOf, Settles, SettledBy, Actors
    <1>7. Numbers
        <2>1. \A f \in Freezes : ~Publishes(f)
            BY <1>1 DEF Init, Publishes
        <2>2. \A s \in Snapshots : digest[s] = None /\ snaps[s].tree = Rec("none")
            BY <1>2 DEF Init
        <2>3. QED
            BY <1>3, <2>1, <2>2 DEF Numbers
    <1>8. HeldTrees /\ Asked
        BY <1>1, <1>3 DEF Init, HeldTrees, Asked, AskedBy
    <1>9. QED
        BY <1>5, <1>6, <1>7, <1>8 DEF IInv

LEMMA StepKeeps == IInv /\ [Next]_vars => IInv'
    <1> SUFFICES ASSUME IInv, [Next]_vars PROVE IInv'
        OBVIOUS
    <1>1. ASSUME NEW f \in Freezes, FreezeStep(f)
          PROVE  IInv'
        BY <1>1, ClaimFreezeStep, FreshBuildStep, ReadSourceStep, ReuseStep, CheckReuseStep, ReserveStep,
           FinishTreeStep, PublishStep, FinishFreezeStep DEF FreezeStep
    <1>2. ASSUME NEW a \in Freezes \cup {Sweeper}, Settle(a)
          PROVE  IInv'
        BY <1>2, DiscardStep, DeleteTreeStep, ClearIntentStep, NamesApart DEF Settle, Actors
    <1>3. CASE SweepStep
        BY <1>3, SweepStep1, ReplayStep, RemoveFreezeStep DEF SweepStep
    <1>4. ASSUME NEW r \in Clients, RequestStep(r)
          PROVE  IInv'
        BY <1>4, HoldSnapshotStep, RefusedStep, ForbiddenStep, GrantStep, AdmitStep, RenewStep, SentStep,
           ReleaseLeaseStep, ReleaseAgainStep, RemoveReleasedStep DEF RequestStep
    <1>5. ASSUME NEW r \in Clients, DeleteTree(r)
          PROVE  IInv'
        BY <1>5, DeleteTreeStep DEF Actors
    <1>6. ASSUME NEW r \in Clients, ClientStep(r)
          PROVE  IInv'
        BY <1>6, StartFreezeStep, PollStep, AskStep, ForgetStep DEF ClientStep
    <1>7. CASE World
        BY <1>7, TimeStep, ChangeStep, TokenStep, CrashStep DEF World
    <1>8. CASE UNCHANGED vars
        BY <1>8, WorldStays DEF vars, clock, disk, locks, work, IInv, Shape
    <1>9. QED
        BY <1>1, <1>2, <1>3, <1>4, <1>5, <1>6, <1>7, <1>8 DEF Next

LEMMA InvariantHolds == Spec => []IInv
    BY InitHolds, StepKeeps, PTL DEF Spec

\* A held snapshot's tree is there: no removal, whoever settles it and whatever
\* stops, takes it from a request or a freeze at work on it (activeWork, held
\* and removeIfDue, snapshot.go:48-96, 692-771).
THEOREM HeldIsThere == Spec => []HeldStays
    <1>1. IInv => HeldStays
        BY DEF IInv, HeldTrees, HeldStays
    <1>2. QED
        BY <1>1, InvariantHolds, PTL

-----------------------------------------------------------------------------
(* A request at work.  Its snapshot is held, not being published and under   *)
(* an open lease, so no step takes it from being served; only time could,    *)
(* and a renewal that is due runs before the next tick.                      *)

AtWork(r) == Renews(r) /\ Authorized(r) /\ Life(Snap(r)) = "served"

\* A step that leaves a snapshot as served as it was.
Undisturbed(s) ==
    /\ snaps'[s].tree = snaps[s].tree /\ snaps'[s].use.seen \in {snaps[s].use.seen, Recorded(s)}
    /\ s[2] \in history'[s[1]].seen.removed => Removed(s)
    /\ Pub' \in {Pub, None} \/ Pub'.conv # s[1] \/ Pub'.tag # s[2]

\* A step that renews a request's use.
Fresh(r) ==
    /\ request'[r].snap = request[r].snap /\ request[r].snap \in Snapshots /\ request'[r].renewed = now
    /\ Life(Snap(r)) = "served" /\ Undisturbed(Snap(r)) /\ snaps'[Snap(r)].use.seen = Recorded(Snap(r))

\* No lease opens again.
Narrow == \A l \in Leases : leases[l] # None => leases'[l] = leases[l] \/ leases'[l].state # "open"

SafeStep ==
    /\ now' = now /\ tokens' \subseteq tokens /\ Narrow
    /\ \A r \in Clients : \/ ~Renews(r)'
                          \/ request'[r] = request[r] /\ (AtWork(r) => Undisturbed(Snap(r)))
                          \/ Fresh(r)

LEMMA IntervalShort == Interval \in Nat /\ Interval < TTL
    BY PullBounds DEF Interval

LEMMA LifeAfter ==
    ASSUME Shape', NEW s \in Snapshots,
           ~(Pub' # None /\ Pub'.conv = s[1] /\ Pub'.tag = s[2]), ~Removed(s)', Here(s)',
           snaps'[s].use.seen.state = "active", now' < snaps'[s].use.seen.at + TTL
    PROVE  Life(s)' = "served"
    <1>1. snaps'[s].use.seen \in Uses /\ now' \in Nat /\ TTL \in Nat
        BY PullBounds DEF Shape, Trees
    <1>2. snaps'[s].use.seen.at \in Nat /\ ~(now' >= snaps'[s].use.seen.at + TTL)
        BY <1>1 DEF Uses
    <1>3. QED
        BY <1>2 DEF Life, Pub, Removed, Here

LEMMA StillServed ==
    ASSUME Shape, Shape', now' = now, NEW s \in Snapshots, Life(s) = "served", Undisturbed(s)
    PROVE  /\ Life(s)' = "served" /\ now \in Nat
           /\ snaps[s].use.seen.at \in Nat /\ snaps'[s].use.seen.at \in {snaps[s].use.seen.at, now}
    <1>1. /\ ~(Pub # None /\ Pub.conv = s[1] /\ Pub.tag = s[2]) /\ ~Removed(s) /\ Here(s)
          /\ snaps[s].use.seen.state = "active" /\ now < snaps[s].use.seen.at + TTL
        BY LifeServed
    <1>2. now \in Nat /\ snaps[s].use.seen \in Uses /\ TTL \in Nat \ {0}
        BY PullBounds DEF Shape, Trees
    <1>3. /\ snaps'[s].use.seen.state = "active" /\ snaps'[s].use.seen.at \in {snaps[s].use.seen.at, now}
          /\ snaps[s].use.seen.at \in Nat
        BY <1>1, <1>2, UsesMade DEF Undisturbed, Uses
    <1>4. now' < snaps'[s].use.seen.at + TTL
        BY <1>1, <1>2, <1>3
    <1>5. ~(Pub' # None /\ Pub'.conv = s[1] /\ Pub'.tag = s[2]) /\ ~Removed(s)' /\ Here(s)'
        BY <1>1 DEF Undisturbed, Here, Removed
    <1>6. QED
        BY <1>2, <1>3, <1>4, <1>5, LifeAfter

LEMMA SafeKeeps ==
    ASSUME IInv, IInv', Renewed, SafeStep
    PROVE  Renewed'
    <1> SUFFICES ASSUME NEW r \in Clients, Renews(r)', Authorized(r)'
                 PROVE  /\ Life(Snap(r))' = "served" /\ request'[r].renewed <= now'
                        /\ request'[r].renewed <= snaps'[request'[r].snap].use.seen.at
                        /\ now' <= request'[r].renewed + Interval
        BY DEF Renewed, Snap
    <1>1. now' = now /\ Shape /\ Shape' /\ Interval \in Nat
        BY IntervalShort DEF SafeStep, IInv
    <1>2. CASE request'[r] = request[r] /\ (AtWork(r) => Undisturbed(Snap(r)))
        <2>1. Authorized(r)
            <3>1. PICK l : l = request[r].lease
                OBVIOUS
            <3>2. /\ r \in tokens' /\ l # None /\ leases'[l] # None
                  /\ leases'[l] = [snap |-> request'[r].snap, client |-> r, state |-> "open"]
                BY <1>2, <3>1 DEF Authorized
            <3>3. leases'[l].state = "open"
                BY <3>2
            <3>4. l \in Leases /\ leases[l] # None
                BY <3>1, <3>2, RequestFacts
            <3>5. leases[l] = leases'[l] /\ r \in tokens
                BY <3>2, <3>3, <3>4 DEF SafeStep, Narrow
            <3>6. QED
                BY <1>2, <3>1, <3>2, <3>4, <3>5 DEF Authorized
        <2>2. Renews(r)
            BY <1>2 DEF Renews
        <2>3. /\ Life(Snap(r)) = "served" /\ request[r].renewed <= now
              /\ request[r].renewed <= snaps[Snap(r)].use.seen.at /\ now <= request[r].renewed + Interval
            BY <2>1, <2>2 DEF Renewed
        <2>4. PICK s \in Snapshots : s = Snap(r) /\ s = request[r].snap /\ s = request'[r].snap
            BY <1>2, <2>2, RequestFacts DEF Renews, Snap
        <2>5. Undisturbed(s)
            BY <1>2, <2>1, <2>2, <2>3, <2>4, SMTT(30) DEF AtWork
        <2>6. Life(s)' = "served" /\ snaps'[s].use.seen.at \in {snaps[s].use.seen.at, now}
            BY <1>1, <2>3, <2>4, <2>5, StillServed
        <2>7. Life(Snap(r))' = "served"
            BY <2>4, <2>6 DEF Snap
        <2>8. QED
            BY <1>1, <1>2, <2>3, <2>4, <2>6, <2>7
    <1>3. CASE Fresh(r)
        <2>1. PICK s \in Snapshots : s = Snap(r) /\ s = request[r].snap /\ s = request'[r].snap
            BY <1>3 DEF Fresh, Snap
        <2>2. /\ Life(s) = "served" /\ Undisturbed(s) /\ request'[r].renewed = now
              /\ snaps'[s].use.seen = Recorded(s)
            BY <1>3, <2>1 DEF Fresh
        <2>3. Life(s)' = "served" /\ now \in Nat
            BY <1>1, <2>2, StillServed
        <2>4. snaps'[s].use.seen.at = now
            BY <1>1, <2>2, UsesMade
        <2>5. Life(Snap(r))' = "served"
            BY <2>1, <2>3 DEF Snap
        <2>6. QED
            BY <1>1, <2>1, <2>2, <2>3, <2>4, <2>5
    <1>4. QED
        BY <1>2, <1>3 DEF SafeStep

LEMMA TickRenewed ==
    ASSUME IInv, IInv', Renewed, Tick
    PROVE  Renewed'
    <1> SUFFICES ASSUME NEW r \in Clients, Renews(r)', Authorized(r)'
                 PROVE  /\ Life(Snap(r))' = "served" /\ request'[r].renewed <= now'
                        /\ request'[r].renewed <= snaps'[request'[r].snap].use.seen.at
                        /\ now' <= request'[r].renewed + Interval
        BY DEF Renewed, Snap
    <1>1. /\ now' = now + 1 /\ UNCHANGED <<tokens, state, history, snaps, leases, request>>
          /\ Renews(r) => now < request[r].renewed + Interval
        BY DEF Tick, disk, work
    <1>2. Renews(r) /\ Authorized(r)
        BY <1>1 DEF Renews, Authorized
    <1>3. PICK s \in Snapshots : s = Snap(r) /\ s = request[r].snap /\ s = request'[r].snap
        BY <1>1, <1>2, RequestFacts DEF Renews, Snap
    <1>4. /\ Life(s) = "served" /\ request[r].renewed <= now
          /\ request[r].renewed <= snaps[s].use.seen.at
        BY <1>2, <1>3 DEF Renewed
    <1>5. /\ now \in Nat /\ request[r].renewed \in Nat /\ snaps[s].use.seen \in Uses
        BY RequestFacts DEF IInv, Shape, Trees, Requests
    <1>6. snaps[s].use.seen.at \in Nat /\ Interval \in Nat /\ TTL \in Nat /\ Interval < TTL
        BY <1>5, IntervalShort, PullBounds DEF Uses
    <1>7. now' <= request[r].renewed + Interval /\ now' < snaps[s].use.seen.at + TTL
        BY <1>1, <1>2, <1>4, <1>5, <1>6
    <1>8. /\ ~(Pub # None /\ Pub.conv = s[1] /\ Pub.tag = s[2]) /\ ~Removed(s) /\ Here(s)
          /\ snaps[s].use.seen.state = "active"
        BY <1>4, LifeServed DEF IInv
    <1>9. /\ ~(Pub' # None /\ Pub'.conv = s[1] /\ Pub'.tag = s[2]) /\ ~Removed(s)' /\ Here(s)'
          /\ snaps'[s].use.seen.state = "active" /\ now' < snaps'[s].use.seen.at + TTL
        BY <1>1, <1>7, <1>8 DEF Pub, Removed, Here
    <1>10. Life(s)' = "served"
        BY <1>9, LifeAfter DEF IInv
    <1>11. Life(Snap(r))' = "served"
        BY <1>3, <1>10 DEF Snap
    <1>12. QED
        BY <1>1, <1>3, <1>4, <1>5, <1>7, <1>11

LEMMA AtWorkFacts ==
    ASSUME IInv, NEW r \in Clients, AtWork(r)
    PROVE  /\ Snap(r) \in Snapshots /\ r \in holds[Snap(r)] /\ request[r].pc = "sending"
           /\ request[r].lease \in OpenLeases(Snap(r)) /\ leases[request[r].lease].client = r
           /\ Pub # None => Pub.conv # Snap(r)[1] \/ Pub.tag # Snap(r)[2]
           /\ Life(Snap(r)) = "served" /\ Here(Snap(r)) /\ ~Removed(Snap(r))
           /\ snaps[Snap(r)].use.seen.state = "active"
    <1>1. Renews(r) /\ Authorized(r) /\ Life(Snap(r)) = "served"
        BY DEF AtWork
    <1>2. PICK s \in Snapshots : s = Snap(r) /\ s = request[r].snap /\ r \in holds[s] /\ request[r].pc = "sending"
        BY <1>1, RequestFacts DEF Renews, Snap
    <1>3. PICK l \in Leases : l = request[r].lease /\ leases[l] # None
              /\ leases[l] = [snap |-> s, client |-> r, state |-> "open"]
        BY <1>1, <1>2, RequestFacts DEF Authorized
    <1>4. leases[l].client = r /\ leases[l].snap = s /\ leases[l].state = "open"
        BY <1>3
    <1>5. l \in OpenLeases(s)
        BY <1>3, <1>4 DEF OpenLeases
    <1>6. /\ ~(Pub # None /\ Pub.conv = s[1] /\ Pub.tag = s[2]) /\ ~Removed(s) /\ Here(s)
          /\ snaps[s].use.seen.state = "active"
        BY <1>1, <1>2, LifeServed DEF IInv
    <1>7. QED
        BY <1>1, <1>2, <1>3, <1>4, <1>5, <1>6

\* A step that writes nothing a snapshot's life is decided by.
LEMMA PlainSafe ==
    ASSUME now' = now, tokens' \subseteq tokens, UNCHANGED <<state, history, snaps, leases>>,
           \A r \in Clients : request'[r] = request[r] \/ ~Renews(r)'
    PROVE  SafeStep
    <1>1. Narrow
        BY DEF Narrow
    <1>2. \A s : Undisturbed(s)
        BY DEF Undisturbed, Removed, Pub
    <1>3. QED
        BY <1>1, <1>2 DEF SafeStep

\* A step that may write snapshots' records, and ends what requests it changes.
LEMMA WritesSafe ==
    ASSUME UNCHANGED <<now, tokens>>, Narrow,
           \A r \in Clients : request'[r] = request[r] \/ ~Renews(r)',
           \A r \in Clients : AtWork(r) => Undisturbed(Snap(r))
    PROVE  SafeStep
    BY DEF SafeStep

LEMMA JobsSafe ==
    ASSUME IInv, NEW f \in Freezes,
           \/ ClaimFreeze(f) \/ FreshBuild(f) \/ ReadSource(f) \/ FinishTree(f) \/ FinishFreeze(f) \/ RemoveFreeze(f)
    PROVE  SafeStep /\ UNCHANGED digest
    <1>1. UNCHANGED <<now, tokens, state, history, snaps, leases, digest, request>>
        BY DEF ClaimFreeze, FreshBuild, ReadSource, FinishTree, FinishFreeze, RemoveFreeze, clock, disk, work
    <1>2. QED
        BY <1>1, PlainSafe

LEMMA WorldSafe ==
    ASSUME IInv, \/ \E c \in Conversations : Change(c)
                 \/ \E r \in Clients : TokenGone(r)
                 \/ StartProcess
                 \/ UNCHANGED vars
    PROVE  SafeStep /\ UNCHANGED digest
    <1>1. tokens' \subseteq tokens /\ UNCHANGED <<now, state, history, snaps, leases, digest, request>>
        BY DEF Change, TokenGone, StartProcess, vars, clock, disk, work
    <1>2. QED
        BY <1>1, PlainSafe

\* Requests that begin, end, or go on to hold a snapshot.
LEMMA IdleSafe ==
    ASSUME NEW r \in Clients, NEW q, request' = [request EXCEPT ![r] = q], IInv, q.pc # "sending" \/ q.renewed = 0,
           UNCHANGED <<now, tokens, state, history, snaps, leases>>
    PROVE  SafeStep
    <1>1. request'[r] = q /\ \A c \in Clients : c # r => request'[c] = request[c]
        BY DEF IInv, Shape
    <1>2. ~Renews(r)'
        BY <1>1 DEF Renews
    <1>3. \A c \in Clients : request'[c] = request[c] \/ ~Renews(c)'
        BY <1>1, <1>2
    <1>4. QED
        BY <1>3, PlainSafe

LEMMA ClientSafe ==
    ASSUME IInv, NEW r \in Clients, ClientStep(r)
    PROVE  SafeStep /\ UNCHANGED digest
    <1>1. UNCHANGED <<now, tokens, state, history, snaps, leases, digest>>
        BY DEF ClientStep, StartFreeze, Poll, Ask, Done, Forget, clock, disk
    <1>2. PICK q : request' = [request EXCEPT ![r] = q] /\ q.pc # "sending"
        <2>1. request \in [Clients -> Requests] /\ request[r] \in Requests
            BY DEF IInv, Shape
        <2>2. ASSUME NEW c \in Conversations, StartFreeze(r, c)
              PROVE  \E q : request' = [request EXCEPT ![r] = q] /\ q.pc # "sending"
            <3>1. request[r].pc = "idle" /\ \E f \in Freezes : request' \in {request, [request EXCEPT ![r].freeze = f]}
                BY <2>2, ZenonT(30) DEF StartFreeze, Follows
            <3>2. PICK f \in Freezes : request' \in {request, [request EXCEPT ![r].freeze = f]}
                BY <3>1
            <3>3. PICK q : q = [request[r] EXCEPT !.freeze = f]
                OBVIOUS
            <3>4. q.pc = "idle"
                BY <2>1, <3>1, <3>3 DEF Requests
            <3>5. request' = [request EXCEPT ![r] = request[r]] \/ request' = [request EXCEPT ![r] = q]
                BY <2>1, <3>2, <3>3
            <3>6. QED
                BY <3>1, <3>4, <3>5
        <2>3. ASSUME Poll(r)
              PROVE  \E q : request' = [request EXCEPT ![r] = q] /\ q.pc # "sending"
            <3>1. \/ request' = [request EXCEPT ![r] = Quiet]
                  \/ \E x : request' = [request EXCEPT ![r].pc = "hold", ![r].kind = "manifest", ![r].snap = x]
                BY <2>3, ZenonT(30) DEF Poll
            <3>2. CASE request' = [request EXCEPT ![r] = Quiet]
                BY <3>2, QuietRequest
            <3>3. CASE \E x : request' = [request EXCEPT ![r].pc = "hold", ![r].kind = "manifest", ![r].snap = x]
                <4>1. PICK x : request' = [request EXCEPT ![r].pc = "hold", ![r].kind = "manifest", ![r].snap = x]
                    BY <3>3
                <4>2. PICK q : q = [request[r] EXCEPT !.pc = "hold", !.kind = "manifest", !.snap = x]
                    OBVIOUS
                <4>3. q.pc = "hold" /\ request' = [request EXCEPT ![r] = q]
                    BY <2>1, <4>1, <4>2 DEF Requests
                <4>4. QED
                    BY <4>3
            <3>4. QED
                BY <3>1, <3>2, <3>3
        <2>4. ASSUME Ask(r) \/ Done(r) \/ Forget(r)
              PROVE  \E q : request' = [request EXCEPT ![r] = q] /\ q.pc # "sending"
            <3>1. PICK a, d : a = [request[r] EXCEPT !.pc = "hold", !.kind = "use"]
                      /\ d = [request[r] EXCEPT !.pc = "done"]
                OBVIOUS
            <3>2. a.pc = "hold" /\ d.pc = "done"
                BY <2>1, <3>1 DEF Requests
            <3>3. \E q \in {a, d, Quiet} : request' = [request EXCEPT ![r] = q]
                BY <2>1, <2>4, <3>1 DEF Ask, Done, Forget
            <3>4. \A q \in {a, d, Quiet} : q.pc # "sending"
                BY <3>2, QuietRequest
            <3>5. QED
                BY <3>3, <3>4
        <2>5. QED
            BY <2>2, <2>3, <2>4 DEF ClientStep
    <1>3. QED
        BY <1>1, <1>2, IdleSafe

\* An expiry, or a supersession, that was seen is committed.
LEMMA SeenSafe ==
    ASSUME IInv, NEW s \in Snapshots, NEW k, NEW shown, UNCHANGED <<now, tokens, state, history, leases>>,
           \/ snaps' = snaps
           \/ snaps' = [snaps EXCEPT ![s].use = CommitExpiry(s, k, shown)] /\ Life(s) # "served"
           \/ snaps' = [snaps EXCEPT ![s].superseded = CommitMark(s, k, shown, 1)],
           \A r \in Clients : request'[r] = request[r] \/ ~Renews(r)'
    PROVE  SafeStep
    <1>1. snaps \in [Snapshots -> Trees]
        BY DEF IInv, Shape
    <1>2. ASSUME NEW r \in Clients, AtWork(r)
          PROVE  Undisturbed(Snap(r))
        <2>1. PICK x \in Snapshots : x = Snap(r) /\ Life(x) = "served"
            BY <1>2, AtWorkFacts
        <2>2. snaps'[x].tree = snaps[x].tree /\ snaps'[x].use = snaps[x].use
            <3>1. PICK u, m : u = [snaps[s] EXCEPT !.use = CommitExpiry(s, k, shown)]
                              /\ m = [snaps[s] EXCEPT !.superseded = CommitMark(s, k, shown, 1)]
                OBVIOUS
            <3>2. snaps[s] \in Trees
                BY <1>1
            <3>3. m.tree = snaps[s].tree /\ m.use = snaps[s].use
                BY <3>1, <3>2 DEF Trees
            <3>4. \/ snaps' = snaps
                  \/ snaps' = [snaps EXCEPT ![s] = u] /\ Life(s) # "served"
                  \/ snaps' = [snaps EXCEPT ![s] = m]
                BY <3>1
            <3>5. CASE snaps' = [snaps EXCEPT ![s] = u] /\ Life(s) # "served"
                <4>1. x # s
                    BY <2>1, <3>5
                <4>2. QED
                    BY <1>1, <3>5, <4>1
            <3>6. CASE snaps' = [snaps EXCEPT ![s] = m]
                <4>1. snaps'[x] = IF x = s THEN m ELSE snaps[x]
                    BY <1>1, <3>6
                <4>2. QED
                    BY <3>3, <4>1
            <3>7. QED
                BY <3>4, <3>5, <3>6
        <2>3. QED
            BY <2>1, <2>2 DEF Undisturbed, Removed, Pub
    <1>3. QED
        BY <1>2, WritesSafe DEF Narrow

LEMMA PairsDiffer == ASSUME NEW s \in Snapshots, NEW x \in Snapshots, s[1] = x[1], s[2] = x[2] PROVE s = x
    BY DEF Snapshots

\* A history written: what it then has removed.
LEMMA NotRemoved ==
    ASSUME Shape, NEW c \in Conversations, NEW h \in Histories, NEW k, NEW shown, NEW at,
           history' = [history EXCEPT ![c] = Write(k, shown, at, history[c], h)],
           NEW x \in Snapshots, x[1] = c /\ x[2] \in h.removed => Removed(x)
    PROVE  x[2] \in history'[x[1]].seen.removed => Removed(x)
    <1>1. history \in [Conversations -> [seen : Histories, disk : Histories]] /\ x[1] \in Conversations
        BY DEF Shape, Snapshots
    <1>2. PICK w : w = Write(k, shown, at, history[c], h)
        OBVIOUS
    <1>3. w.seen \in {h, history[c].seen}
        <2>1. w = Rec(h) \/ (w.disk = history[c].disk /\ w.seen \in {h, history[c].seen})
            BY <1>1, <1>2, WriteFacts
        <2>2. QED
            BY <2>1, RecFields
    <1>4. history'[x[1]] = IF x[1] = c THEN w ELSE history[x[1]]
        BY <1>1, <1>2
    <1>5. QED
        BY <1>3, <1>4 DEF Removed

LEMMA TagTaken ==
    ASSUME Shape, NEW c \in Conversations, NEW t \in Nat
    PROVE  \E h \in Histories :
               h = Taken(history[c].seen, t) /\ h.removed = history[c].seen.removed \cup {t}
    <1>1. PICK g \in Histories : g = history[c].seen
        BY DEF Shape
    <1>2. PICK h : h = Taken(g, t)
        OBVIOUS
    <1>3. h \in Histories
        BY <1>2, TagHistories
    <1>4. h.removed = g.removed \cup {t}
        BY <1>2 DEF Taken
    <1>5. QED
        BY <1>1, <1>2, <1>3, <1>4

LEMMA ReuseSafe ==
    ASSUME IInv, NEW f \in Freezes, Reuse(f)
    PROVE  SafeStep /\ UNCHANGED digest
    <1>1. /\ UNCHANGED <<now, tokens, state, history, leases, digest, request>>
          /\ worker[f].pc = "reuse" /\ ConvOf(f) \in Conversations
        BY DEF Reuse, At, clock, IInv, Crew, CrewOf, Jobs, ConvOf
    <1>2. CASE UNCHANGED snaps
        BY <1>1, <1>2, PlainSafe
    <1>3. ASSUME NEW t \in TagsOf(ConvOf(f)), ReuseOf(f, <<ConvOf(f), t>>)
          PROVE  SafeStep
        <2>1. PICK s \in Snapshots : s = <<ConvOf(f), t>>
            BY <1>1 DEF Snapshots, TagsOf
        <2>2. PICK k \in {0, 1}, shown \in BOOLEAN :
                  \/ snaps' = snaps
                  \/ Life(s) = "expired" /\ snaps' = [snaps EXCEPT ![s].use = CommitExpiry(s, k, shown)]
                  \/ snaps' = [snaps EXCEPT ![s].superseded = CommitMark(s, k, shown, 1)]
            BY <1>3, <2>1 DEF ReuseOf
        <2>3. QED
            BY <1>1, <2>2, SeenSafe
    <1>4. QED
        BY <1>1, <1>2, <1>3 DEF Reuse

LEMMA CheckReuseSafe ==
    ASSUME IInv, NEW f \in Freezes, CheckReuse(f)
    PROVE  SafeStep /\ UNCHANGED digest
    <1>1. /\ UNCHANGED <<now, tokens, state, history, leases, digest, request>>
          /\ worker[f].pc = "check" /\ ConvOf(f) \in Conversations /\ worker[f].tag \in Tags
        BY DEF CheckReuse, At, clock, IInv, Crew, CrewOf, Jobs, ConvOf
    <1>2. PICK s \in Snapshots : s = <<ConvOf(f), worker[f].tag>>
        BY <1>1 DEF Snapshots
    <1>3. PICK k \in {0, 1}, shown \in BOOLEAN :
              IF Life(s) = "expired" THEN snaps' = [snaps EXCEPT ![s].use = CommitExpiry(s, k, shown)]
                  ELSE UNCHANGED snaps
        BY <1>2 DEF CheckReuse
    <1>4. QED
        BY <1>1, <1>3, SeenSafe

LEMMA ReserveSafe ==
    ASSUME IInv, NEW f \in Freezes, Reserve(f)
    PROVE  SafeStep /\ UNCHANGED digest
    <1>1. /\ UNCHANGED <<now, tokens, snaps, digest, leases, request>> /\ worker[f].pc = "reserve"
        BY DEF Reserve, At, clock
    <1>2. ConvOf(f) \in Conversations /\ worker[f] \in Builds
        BY <1>1 DEF IInv, Crew, CrewOf, Jobs, ConvOf, Shape
    <1>3. PICK c \in Conversations, tag \in Tags : c = ConvOf(f) /\ tag = NextTag(c)
        BY <1>2 DEF Reserve
    <1>4. /\ tag \in Nat /\ state.seen.greatest < tag /\ holds[<<c, tag>>] = {} /\ <<c, tag>> \in Snapshots
        BY <1>3, NextTagNew DEF IInv
    <1>5. PICK p, v : p = [conv |-> c, build |-> f, tag |-> tag, digest |-> worker[f].ver]
              /\ v = [greatest |-> tag, pub |-> p]
        OBVIOUS
    <1>6. p \in Publications /\ p.conv = c /\ p.tag = tag
        BY <1>2, <1>5 DEF Publications, Builds
    <1>7. v \in States /\ v.greatest = tag /\ v.pub = p
        BY <1>4, <1>5, <1>6 DEF States
    <1>8. PICK k \in 0 .. 2, shown \in BOOLEAN :
              /\ state' = Write(k, shown, 1, state, v)
              /\ history' = [history EXCEPT ![c] = Write(k, shown, 2, history[c], Given(history[c].seen, tag))]
        <2>1. PICK k \in 0 .. 2, shown \in BOOLEAN :
                  /\ state' = Write(k, shown, 1, state, v)
                  /\ history' = [history EXCEPT ![c] = Write(k, shown, 2, @, Given(@.seen, tag))]
            BY <1>3, <1>5 DEF Reserve
        <2>2. QED
            BY <2>1
    <1>9. Pub' \in {p, Pub}
        <2>1. state.seen.greatest <= v.greatest
            BY <1>4, <1>7 DEF IInv, Shape, States
        <2>2. QED
            BY <1>7, <1>8, <2>1, StateWritten DEF IInv
    <1>10. PICK h \in Histories : h = Given(history[c].seen, tag) /\ h.removed = history[c].seen.removed
        <2>1. PICK g \in Histories : g = history[c].seen
            BY DEF IInv, Shape
        <2>2. PICK h : h = Given(g, tag)
            OBVIOUS
        <2>3. h \in Histories
            BY <1>4, <2>2, TagHistories
        <2>4. h.removed = g.removed
            BY <2>1, <2>2 DEF Given, Histories
        <2>5. QED
            BY <2>1, <2>2, <2>3, <2>4
    <1>11. ASSUME NEW r \in Clients, AtWork(r)
           PROVE  Undisturbed(Snap(r))
        <2>1. PICK x \in Snapshots : x = Snap(r) /\ r \in holds[x]
            BY <1>11, AtWorkFacts
        <2>2. x[2] \in history'[x[1]].seen.removed => Removed(x)
            BY <1>8, <1>10, <2>1, NotRemoved DEF Removed, IInv
        <2>3. x[1] # c \/ x[2] # tag
            BY <1>4, <2>1 DEF Snapshots
        <2>4. QED
            BY <1>1, <1>6, <1>9, <2>1, <2>2, <2>3 DEF Undisturbed
    <1>12. QED
        BY <1>1, <1>11, WritesSafe DEF Narrow

LEMMA PublishSafe ==
    ASSUME IInv, NEW f \in Freezes, Publish(f)
    PROVE  SafeStep
    <1>1. UNCHANGED <<now, tokens, history, leases, request>>
        BY DEF Publish, clock
    <1>2. /\ <<ConvOf(f), worker[f].tag>> \in Snapshots /\ holds[<<ConvOf(f), worker[f].tag>>] = {}
        BY PublishFacts
    <1>3. PICK c, t : c = ConvOf(f) /\ t = worker[f].tag
        OBVIOUS
    <1>4. PICK k, shown :
              /\ \A s \in Snapshots : s # <<c, t>> => snaps'[s] = snaps[s]
                   \/ \E m : snaps'[s] = [snaps[s] EXCEPT !.superseded = m]
              /\ state' = Write(k, shown, t + 2, state, [state.seen EXCEPT !.pub = None])
        <2>1. PICK k, shown : Publishing(f, k, shown)
            BY PublishTaken
        <2>2. ASSUME NEW s \in Snapshots, s # <<c, t>>
              PROVE  snaps'[s] = snaps[s] \/ \E m : snaps'[s] = [snaps[s] EXCEPT !.superseded = m]
            BY <1>3, <2>1, <2>2 DEF Publishing
        <2>3. QED
            BY <1>3, <2>1, <2>2 DEF Publishing
    <1>5. Pub' \in {None, Pub}
        <2>1. state \in [seen : States, disk : States] /\ state.seen \in States
            BY DEF IInv, Shape
        <2>2. PICK v : v = [state.seen EXCEPT !.pub = None]
            OBVIOUS
        <2>3. v \in States /\ v.pub = None
            BY <2>1, <2>2 DEF States
        <2>4. state' = Rec(v) \/ state'.seen \in {v, state.seen}
            BY <1>4, <2>1, <2>2, <2>3, WriteFacts
        <2>5. QED
            BY <2>3, <2>4, RecFields DEF Pub
    <1>6. ASSUME NEW r \in Clients, AtWork(r)
          PROVE  Undisturbed(Snap(r))
        <2>1. PICK x \in Snapshots : x = Snap(r) /\ r \in holds[x]
            BY <1>6, AtWorkFacts
        <2>2. x # <<c, t>>
            BY <1>2, <1>3, <2>1
        <2>3. snaps'[x].tree = snaps[x].tree /\ snaps'[x].use = snaps[x].use
            <3>1. snaps[x] \in Trees
                BY DEF IInv, Shape
            <3>2. ASSUME NEW m, NEW e, e = [snaps[x] EXCEPT !.superseded = m]
                  PROVE  e.tree = snaps[x].tree /\ e.use = snaps[x].use
                BY <3>1, <3>2 DEF Trees
            <3>3. QED
                BY <1>4, <2>2, <3>2
        <2>4. QED
            BY <1>1, <1>5, <2>1, <2>3 DEF Undisturbed, Removed
    <1>7. QED
        BY <1>1, <1>6, WritesSafe DEF Narrow

LEMMA DiscardSafe ==
    ASSUME IInv, NEW a \in Freezes \cup {Sweeper}, Discard(a)
    PROVE  SafeStep /\ UNCHANGED digest
    <1>1. UNCHANGED <<now, tokens, state, digest, leases, request>>
        BY DEF Discard, clock
    <1>2. Pub # None /\ Pub \in Publications /\ <<Pub.conv, Pub.tag>> \in Snapshots
        BY DiscardFacts
    <1>3. PICK p \in Publications, s \in Snapshots : p = Pub /\ s = <<p.conv, p.tag>> /\ s[1] = p.conv /\ s[2] = p.tag
        BY <1>2
    <1>4. p.conv \in Conversations /\ p.tag \in Nat /\ holds[s] = {}
        BY <1>2, <1>3 DEF Publications, Tags, IInv, HeldTrees
    <1>5. PICK k \in 0 .. 2, shown \in BOOLEAN :
              /\ history' = [history EXCEPT ![p.conv] = Write(k, shown, 1, @, Taken(@.seen, p.tag))]
              /\ snaps' = IF Here(s) THEN [snaps EXCEPT ![s].tree = Write(k, shown, 2, @, "moved")] ELSE snaps
        BY <1>3 DEF Discard
    <1>6. \A x \in Snapshots : x # s => snaps'[x] = snaps[x]
        BY <1>5, TreeMoved DEF IInv, Shape
    <1>7. PICK h \in Histories : h = Taken(history[p.conv].seen, p.tag)
                                 /\ h.removed = history[p.conv].seen.removed \cup {p.tag}
        BY <1>4, TagTaken DEF IInv
    <1>8. history' = [history EXCEPT ![p.conv] = Write(k, shown, 1, history[p.conv], h)]
        BY <1>5, <1>7
    <1>9. ASSUME NEW r \in Clients, AtWork(r)
          PROVE  Undisturbed(Snap(r))
        <2>1. PICK x \in Snapshots : x = Snap(r) /\ r \in holds[x]
            BY <1>9, AtWorkFacts
        <2>2. x # s
            BY <1>4, <2>1
        <2>3. x[1] # p.conv \/ x[2] # p.tag
            BY <1>3, <2>2, PairsDiffer
        <2>4. x[1] = p.conv /\ x[2] \in h.removed => Removed(x)
            BY <1>7, <2>3 DEF Removed
        <2>5. x[2] \in history'[x[1]].seen.removed => Removed(x)
            BY <1>4, <1>8, <2>4, NotRemoved DEF IInv
        <2>6. QED
            BY <1>1, <1>6, <2>1, <2>2, <2>5 DEF Undisturbed, Pub
    <1>10. QED
        BY <1>1, <1>9, WritesSafe DEF Narrow

LEMMA ClearIntentSafe ==
    ASSUME IInv, NEW a \in Actors, ClearIntent(a)
    PROVE  SafeStep /\ UNCHANGED digest
    <1>1. /\ UNCHANGED <<now, tokens, history, digest, leases, request>>
          /\ deleting[a] # None /\ deleting[a].next = "intent"
        BY DEF ClearIntent, clock
    <1>2. deleting[a].pub # None
        BY <1>1 DEF IInv, Settles, SettledBy
    <1>3. PICK p \in Publications : p = Pub /\ p = deleting[a].pub
        BY <1>1, <1>2, SettledFacts DEF IInv
    <1>4. PICK k \in 0 .. 2, shown \in BOOLEAN :
              /\ snaps' = MarkedAgain(MarkedBy(p), k, shown)
              /\ state' = Write(k, shown, 2, state, [state.seen EXCEPT !.pub = None])
        BY <1>3 DEF ClearIntent
    <1>5. ASSUME NEW s \in Snapshots
          PROVE  snaps'[s].tree = snaps[s].tree /\ snaps'[s].use = snaps[s].use
        <2>1. snaps[s] \in Trees
            BY DEF IInv, Shape
        <2>2. PICK e : e = [snaps[s] EXCEPT !.superseded = CommitMark(s, k, shown, 1)]
            OBVIOUS
        <2>3. snaps'[s] \in {e, snaps[s]}
            BY <1>4, <2>2 DEF MarkedAgain
        <2>4. e.tree = snaps[s].tree /\ e.use = snaps[s].use
            BY <2>1, <2>2 DEF Trees
        <2>5. QED
            BY <2>3, <2>4
    <1>6. Pub' \in {None, Pub}
        <2>1. state \in [seen : States, disk : States] /\ state.seen \in States
            BY DEF IInv, Shape
        <2>2. PICK v : v = [state.seen EXCEPT !.pub = None]
            OBVIOUS
        <2>3. v \in States /\ v.pub = None
            BY <2>1, <2>2 DEF States
        <2>4. state' = Rec(v) \/ state'.seen \in {v, state.seen}
            BY <1>4, <2>1, <2>2, <2>3, WriteFacts
        <2>5. QED
            BY <2>3, <2>4, RecFields DEF Pub
    <1>7. ASSUME NEW r \in Clients, AtWork(r)
          PROVE  Undisturbed(Snap(r))
        BY <1>1, <1>5, <1>6, <1>7, AtWorkFacts DEF Undisturbed, Removed
    <1>8. QED
        BY <1>1, <1>7, WritesSafe DEF Narrow

LEMMA DeleteTreeSafe ==
    ASSUME IInv, NEW a \in Actors, DeleteTree(a)
    PROVE  SafeStep /\ UNCHANGED digest
    <1>1. /\ UNCHANGED <<now, tokens, state, history, digest, request>> /\ deleting[a] # None
        BY DEF DeleteTree, clock
    <1>2. PICK s \in Snapshots : s = deleting[a].snap
        BY <1>1 DEF IInv, Shape, Removals
    <1>3. \/ UNCHANGED <<snaps, leases>>
          \/ /\ snaps[s].tree.seen = "moved" /\ snaps' = [snaps EXCEPT ![s] = NoSnap]
             /\ leases' = [l \in Leases |-> IF leases[l] # None /\ leases[l].snap = s
                                            THEN [leases[l] EXCEPT !.state = "gone"] ELSE leases[l]]
        BY <1>2, ZenonT(30) DEF DeleteTree
    <1>4. CASE UNCHANGED <<snaps, leases>>
        BY <1>1, <1>4, PlainSafe
    <1>5. CASE /\ snaps[s].tree.seen = "moved" /\ snaps' = [snaps EXCEPT ![s] = NoSnap]
               /\ leases' = [l \in Leases |-> IF leases[l] # None /\ leases[l].snap = s
                                              THEN [leases[l] EXCEPT !.state = "gone"] ELSE leases[l]]
        <2>1. Narrow
            <3>1. ASSUME NEW l \in Leases, leases[l] # None
                  PROVE  leases'[l] = leases[l] \/ leases'[l].state # "open"
                <4>1. PICK g : g = [leases[l] EXCEPT !.state = "gone"]
                    OBVIOUS
                <4>2. leases[l] \in LeaseRecords
                    BY <3>1 DEF IInv, Shape
                <4>3. g.state = "gone"
                    BY <4>1, <4>2 DEF LeaseRecords
                <4>4. leases'[l] \in {g, leases[l]}
                    BY <1>5, <4>1
                <4>5. QED
                    BY <4>3, <4>4
            <3>2. QED
                BY <3>1 DEF Narrow
        <2>2. ASSUME NEW r \in Clients, AtWork(r)
              PROVE  Undisturbed(Snap(r))
            <3>1. PICK x \in Snapshots : x = Snap(r) /\ Here(x)
                BY <2>2, AtWorkFacts
            <3>2. x # s
                BY <1>5, <3>1 DEF Here
            <3>3. snaps'[x] = snaps[x]
                BY <1>5, <3>2 DEF IInv, Shape
            <3>4. QED
                BY <1>1, <3>1, <3>3 DEF Undisturbed, Removed, Pub
        <2>3. QED
            BY <1>1, <2>1, <2>2, WritesSafe
    <1>6. QED
        BY <1>1, <1>3, <1>4, <1>5

\* A removal of a snapshot takes none from a request at work on it: its lease is
\* open and its tree held, so it is not due, and another's tag is another's.
LEMMA RemovalSafe ==
    ASSUME IInv, NEW a \in Actors, NEW s \in Snapshots, RemoveIfDue(a, s),
           \A r \in Clients : request'[r] = request[r] \/ ~Renews(r)'
    PROVE  SafeStep /\ UNCHANGED digest
    <1>1. /\ \A x \in Snapshots : x # s => snaps'[x] = snaps[x]
          /\ snaps'[s].tree = snaps[s].tree \/ holds[s] = {}
          /\ snaps'[s].use = snaps[s].use \/ Life(s) = "expired" \/ (Life(s) = "served" /\ Due(s))
          /\ history' = history \/ (holds[s] = {} /\ \E k, shown : history' =
                 [history EXCEPT ![s[1]] = Write(k, shown, 2, history[s[1]], Taken(history[s[1]].seen, s[2]))])
          /\ UNCHANGED <<now, tokens, state, digest, leases>>
        BY RemovalWrites DEF IInv
    <1>2. ASSUME NEW r \in Clients, AtWork(r)
          PROVE  Undisturbed(Snap(r))
        <2>1. PICK x \in Snapshots : x = Snap(r) /\ r \in holds[x] /\ OpenLeases(x) # {} /\ Life(x) = "served"
            BY <1>2, AtWorkFacts
        <2>2. snaps'[x].tree = snaps[x].tree /\ snaps'[x].use = snaps[x].use
            <3>1. CASE x = s
                <4>1. ~Due(s) /\ Life(s) = "served" /\ holds[s] # {}
                    BY <2>1, <3>1 DEF Due
                <4>2. QED
                    BY <1>1, <3>1, <4>1
            <3>2. CASE x # s
                BY <1>1, <3>2
            <3>3. QED
                BY <3>1, <3>2
        <2>3. x[2] \in history'[x[1]].seen.removed => Removed(x)
            <3>1. CASE history' = history
                BY <3>1 DEF Removed
            <3>2. CASE holds[s] = {} /\ \E k, shown : history' =
                      [history EXCEPT ![s[1]] = Write(k, shown, 2, history[s[1]], Taken(history[s[1]].seen, s[2]))]
                <4>1. x # s
                    BY <2>1, <3>2
                <4>2. s[1] \in Conversations /\ s[2] \in Nat
                    BY DEF Snapshots, Tags
                <4>3. PICK h \in Histories : h = Taken(history[s[1]].seen, s[2])
                                             /\ h.removed = history[s[1]].seen.removed \cup {s[2]}
                    BY <4>2, TagTaken DEF IInv
                <4>4. x[1] = s[1] /\ x[2] \in h.removed => Removed(x)
                    BY <4>1, <4>3, PairsDiffer DEF Removed
                <4>5. PICK k, shown : history' = [history EXCEPT ![s[1]] = Write(k, shown, 2, history[s[1]], h)]
                    BY <3>2, <4>3
                <4>6. QED
                    BY <4>2, <4>4, <4>5, NotRemoved DEF IInv
            <3>3. QED
                BY <1>1, <3>1, <3>2
        <2>4. QED
            BY <1>1, <2>1, <2>2, <2>3 DEF Undisturbed, Pub
    <1>3. QED
        BY <1>1, <1>2, WritesSafe DEF Narrow

LEMMA ReplaySafe ==
    ASSUME IInv, NEW s \in Snapshots, ReplayRemoving(s)
    PROVE  SafeStep /\ UNCHANGED digest
    <1>1. UNCHANGED <<now, tokens, state, snaps, digest, leases, request>> /\ snaps[s].tree.seen = "moved"
        BY DEF ReplayRemoving, clock
    <1>2. s[1] \in Conversations /\ s[2] \in Nat
        BY DEF Snapshots, Tags
    <1>3. PICK h \in Histories : h = Taken(history[s[1]].seen, s[2])
                                 /\ h.removed = history[s[1]].seen.removed \cup {s[2]}
        BY <1>2, TagTaken DEF IInv
    <1>4. PICK k, shown : history' = [history EXCEPT ![s[1]] = Write(k, shown, 1, history[s[1]], h)]
        <2>1. PICK k, shown : history' = [history EXCEPT ![s[1]] = Write(k, shown, 1, @, Taken(@.seen, s[2]))]
            BY DEF ReplayRemoving
        <2>2. QED
            BY <1>3, <2>1
    <1>5. ASSUME NEW r \in Clients, AtWork(r)
          PROVE  Undisturbed(Snap(r))
        <2>1. PICK x \in Snapshots : x = Snap(r) /\ Here(x)
            BY <1>5, AtWorkFacts
        <2>2. x # s
            BY <1>1, <2>1 DEF Here
        <2>3. x[1] = s[1] /\ x[2] \in h.removed => Removed(x)
            BY <1>3, <2>2, PairsDiffer DEF Removed
        <2>4. x[2] \in history'[x[1]].seen.removed => Removed(x)
            BY <1>2, <1>4, <2>3, NotRemoved DEF IInv
        <2>5. QED
            BY <1>1, <2>1, <2>4 DEF Undisturbed, Pub
    <1>6. QED
        BY <1>1, <1>5, WritesSafe DEF Narrow

\* Requests that hold, or let go, and record no use.
LEMMA QuietSafe ==
    ASSUME IInv, NEW r \in Clients, HoldSnapshot(r) \/ Forbidden(r) \/ ReleaseAgain(r) \/ Sent(r)
    PROVE  SafeStep /\ UNCHANGED digest
    <1>1. UNCHANGED <<now, tokens, state, history, snaps, leases, digest>>
        BY DEF HoldSnapshot, Forbidden, ReleaseAgain, Sent, clock, disk
    <1>2. PICK z : z = Answered(r, TRUE)
        OBVIOUS
    <1>3. PICK h, d, q : /\ h = [request[r] EXCEPT !.pc = "held"] /\ d = [request[r] EXCEPT !.pc = "removing"]
                         /\ q = [z EXCEPT !.freeze = None]
        OBVIOUS
    <1>4. h.pc = "held" /\ d.pc = "removing" /\ Quiet.pc = "idle" /\ q.pc = "idle"
        <2>1. request[r] \in Requests
            BY RequestFacts
        <2>2. z \in Requests /\ z.pc = "idle"
            BY <1>2, AnsweredFacts
        <2>3. QED
            BY <1>3, <2>1, <2>2, QuietRequest DEF Requests
    <1>5. \/ request' = [request EXCEPT ![r] = h]
          \/ request' = [request EXCEPT ![r] = d]
          \/ request' = [request EXCEPT ![r] = Quiet]
          \/ request' = [request EXCEPT ![r] = q]
        BY <1>2, <1>3 DEF HoldSnapshot, Forbidden, ReleaseAgain, Sent
    <1>6. QED
        BY <1>1, <1>4, <1>5, IdleSafe

LEMMA RefusedSafe ==
    ASSUME IInv, NEW r \in Clients, Refused(r)
    PROVE  SafeStep /\ UNCHANGED digest
    <1>1. /\ UNCHANGED <<now, tokens, state, history, leases, digest>>
          /\ request[r].pc \in {"hold", "held", "done"}
        BY DEF Refused, clock
    <1>2. PICK s \in Snapshots : s = Snap(r)
        BY <1>1, RequestFacts DEF Snap
    <1>3. PICK k \in {0, 1}, shown \in BOOLEAN, keep \in BOOLEAN :
              /\ snaps' = IF Life(s) = "expired" THEN [snaps EXCEPT ![s].use = CommitExpiry(s, k, shown)] ELSE snaps
              /\ request' = [request EXCEPT ![r] = Answered(r, keep)]
        BY <1>2 DEF Refused
    <1>4. PICK q : q = Answered(r, keep) /\ q.pc = "idle"
        BY AnsweredFacts
    <1>5. \A c \in Clients : request'[c] = request[c] \/ ~Renews(c)'
        BY <1>3, <1>4 DEF Renews, IInv, Shape
    <1>6. QED
        BY <1>1, <1>3, <1>5, SeenSafe

\* A request that records a use, as the last it does or to go on.
LEMMA UseSafe ==
    ASSUME IInv, NEW r \in Clients, NEW s \in Snapshots, UNCHANGED <<now, tokens, state, history>>, Narrow,
           \A c \in Clients : c # r => request'[c] = request[c],
           \A x \in Snapshots : x # s => snaps'[x] = snaps[x],
           snaps'[s].tree = snaps[s].tree,
           \/ snaps'[s].use.seen \in {snaps[s].use.seen, Recorded(s)}
           \/ \A c \in Clients : c # r /\ AtWork(c) => Snap(c) # s,
           \/ ~Renews(r)'
           \/ /\ request'[r].snap = s /\ s = request[r].snap /\ request'[r].renewed = now /\ Life(s) = "served"
              /\ snaps'[s].use.seen = Recorded(s)
    PROVE  SafeStep
    <1>1. ASSUME NEW c \in Clients, c # r, AtWork(c)
          PROVE  Undisturbed(Snap(c))
        <2>1. PICK x \in Snapshots : x = Snap(c)
            BY <1>1, AtWorkFacts
        <2>2. x = s => snaps'[s].use.seen \in {snaps[s].use.seen, Recorded(s)}
            BY <1>1, <2>1
        <2>3. snaps'[x].tree = snaps[x].tree /\ snaps'[x].use.seen \in {snaps[x].use.seen, Recorded(x)}
            BY <2>2
        <2>4. QED
            BY <2>1, <2>3 DEF Undisturbed, Removed, Pub
    <1>2. ~Renews(r)' \/ Fresh(r)
        <2>1. ASSUME request'[r].snap = s, s = request[r].snap, request'[r].renewed = now, Life(s) = "served",
                     snaps'[s].use.seen = Recorded(s)
              PROVE  Fresh(r)
            <3>1. Undisturbed(s)
                BY <2>1 DEF Undisturbed, Removed, Pub
            <3>2. QED
                BY <2>1, <3>1 DEF Fresh, Snap
        <2>2. QED
            BY <2>1
    <1>3. ASSUME NEW c \in Clients
          PROVE  ~Renews(c)' \/ (request'[c] = request[c] /\ (AtWork(c) => Undisturbed(Snap(c)))) \/ Fresh(c)
        BY <1>1, <1>2
    <1>4. QED
        BY <1>3 DEF SafeStep

\* What one write of a use shows.
LEMMA UseSeen ==
    ASSUME Shape, NEW s \in Snapshots, NEW v \in Uses, NEW k, NEW shown, NEW at
    PROVE  /\ Write(k, shown, at, snaps[s].use, v).seen \in {snaps[s].use.seen, v}
           /\ k = 0 => Write(k, shown, at, snaps[s].use, v).seen = v
    <1>1. snaps[s].use \in [seen : Uses, disk : Uses]
        BY DEF Shape, Trees
    <1>2. PICK w : w = Write(k, shown, at, snaps[s].use, v)
        OBVIOUS
    <1>3. (w = Rec(v) \/ w.seen \in {v, snaps[s].use.seen}) /\ (k = 0 => w = Rec(v))
        BY <1>1, <1>2, WriteFacts
    <1>4. QED
        BY <1>2, <1>3, RecFields

LEMMA AdmitSafe ==
    ASSUME IInv, NEW r \in Clients, Admit(r) \/ Renew(r)
    PROVE  SafeStep /\ UNCHANGED digest
    <1>1. /\ UNCHANGED <<now, tokens, state, history, leases, digest>>
          /\ request[r].pc \in {"held", "sending"}
        BY DEF Admit, Renew, Renews, On, clock
    <1>2. PICK s \in Snapshots : s = Snap(r) /\ s = request[r].snap
        BY <1>1, RequestFacts DEF Snap
    <1>3. request \in [Clients -> Requests] /\ request[r] \in Requests /\ snaps \in [Snapshots -> Trees]
          /\ snaps[s] \in Trees /\ Recorded(s) \in Uses
        BY UsesMade DEF IInv, Shape
    <1>4. CASE UNCHANGED snaps /\ request' = [request EXCEPT ![r].renewed = 0]
        <2>1. PICK q : q = [request[r] EXCEPT !.renewed = 0]
            OBVIOUS
        <2>2. q.renewed = 0 /\ request' = [request EXCEPT ![r] = q]
            BY <1>3, <1>4, <2>1 DEF Requests
        <2>3. QED
            BY <1>1, <1>4, <2>2, IdleSafe
    <1>5. CASE \E k \in {0, 1}, shown \in BOOLEAN :
                   /\ Life(s) = "served" /\ snaps' = [snaps EXCEPT ![s].use = Write(k, shown, 1, @, Recorded(s))]
                   /\ \/ k = 0 /\ request' = [request EXCEPT ![r].pc = "sending", ![r].renewed = now]
                      \/ request' = [request EXCEPT ![r] = Answered(r, TRUE)]
                      \/ request' = [request EXCEPT ![r].renewed = IF k = 0 THEN now ELSE 0]
        <2>1. PICK k \in {0, 1}, shown \in BOOLEAN :
                  /\ Life(s) = "served" /\ snaps' = [snaps EXCEPT ![s].use = Write(k, shown, 1, @, Recorded(s))]
                  /\ \/ k = 0 /\ request' = [request EXCEPT ![r].pc = "sending", ![r].renewed = now]
                     \/ request' = [request EXCEPT ![r] = Answered(r, TRUE)]
                     \/ request' = [request EXCEPT ![r].renewed = IF k = 0 THEN now ELSE 0]
            BY <1>5
        <2>2. PICK w : w = Write(k, shown, 1, snaps[s].use, Recorded(s))
            OBVIOUS
        <2>3. w.seen \in {snaps[s].use.seen, Recorded(s)} /\ (k = 0 => w.seen = Recorded(s))
            BY <1>3, <2>2, UseSeen DEF IInv
        <2>4. PICK e : e = [snaps[s] EXCEPT !.use = w]
            OBVIOUS
        <2>5. e.use = w /\ e.tree = snaps[s].tree
            BY <1>3, <2>4 DEF Trees
        <2>6. snaps' = [snaps EXCEPT ![s] = e]
            BY <2>1, <2>2, <2>4
        <2>7. /\ \A x \in Snapshots : x # s => snaps'[x] = snaps[x]
              /\ snaps'[s].tree = snaps[s].tree /\ snaps'[s].use = w
            BY <1>3, <2>5, <2>6
        <2>8. PICK n : n = IF k = 0 THEN now ELSE 0
            OBVIOUS
        <2>9. PICK z, o, g : /\ z = Answered(r, TRUE) /\ o = [request[r] EXCEPT !.pc = "sending", !.renewed = now]
                             /\ g = [request[r] EXCEPT !.renewed = n]
            OBVIOUS
        <2>10. /\ z.pc = "idle" /\ o.snap = s /\ o.renewed = now /\ g.snap = s /\ g.renewed = n
            BY <1>2, <1>3, <2>9, AnsweredFacts DEF Requests
        <2>11. \/ k = 0 /\ request' = [request EXCEPT ![r] = o]
               \/ request' = [request EXCEPT ![r] = z]
               \/ request' = [request EXCEPT ![r] = g]
            BY <2>1, <2>8, <2>9
        <2>12. \A c \in Clients : c # r => request'[c] = request[c]
            BY <1>3, <2>11
        <2>13. (k = 0 /\ request'[r] = o) \/ request'[r] = z \/ request'[r] = g
            BY <1>3, <2>11
        <2>14. ~Renews(r)' \/ (request'[r].snap = s /\ request'[r].renewed = now /\ k = 0)
            BY <2>8, <2>10, <2>13 DEF Renews
        <2>15. Narrow
            BY <1>1 DEF Narrow
        <2>16. QED
            BY <1>1, <1>2, <2>1, <2>3, <2>7, <2>12, <2>14, <2>15, UseSafe
    <1>6. QED
        <2>1. CASE Admit(r)
            BY <1>2, <1>5, <2>1, <1>1, ZenonT(30) DEF Admit
        <2>2. CASE Renew(r)
            BY <1>2, <1>4, <1>5, <2>2, <1>1, ZenonT(30) DEF Renew
        <2>3. QED
            BY <2>1, <2>2

LEMMA GrantSafe ==
    ASSUME IInv, NEW r \in Clients, Grant(r)
    PROVE  SafeStep /\ UNCHANGED digest
    <1>1. /\ UNCHANGED <<now, tokens, state, history, digest>>
          /\ request[r].pc = "held" /\ Life(Snap(r)) = "served"
        BY DEF Grant, On, clock
    <1>2. PICK s \in Snapshots : s = Snap(r) /\ s = request[r].snap /\ Life(s) = "served"
        BY <1>1, RequestFacts DEF Snap
    <1>3. PICK k \in 0 .. 3, shown \in BOOLEAN, l \in Leases : Grants(r, s, l, k, shown)
        BY <1>2, GrantTaken
    <1>4. PICK reads \in BOOLEAN, due \in BOOLEAN, keep \in BOOLEAN :
              /\ reads <=> ~(Superseded(s) /\ Unreadable(s))
              /\ due <=> Unleased(s)
              /\ keep <=> ~(reads /\ due /\ k = 0)
        <2>1. PICK reads \in BOOLEAN : reads <=> ~(Superseded(s) /\ Unreadable(s))
            OBVIOUS
        <2>2. PICK due \in BOOLEAN : due <=> Unleased(s)
            OBVIOUS
        <2>3. PICK keep \in BOOLEAN : keep <=> ~(reads /\ due /\ k = 0)
            OBVIOUS
        <2>4. QED
            BY <2>1, <2>2, <2>3
    <1>5. PICK u, p :
              /\ u = IF ~reads THEN snaps[s].use
                     ELSE IF due THEN Write(k, shown, 2, snaps[s].use, Expired(s))
                     ELSE Write(k, shown, 3, snaps[s].use, Recorded(s))
              /\ snaps' = [snaps EXCEPT ![s] = [use |-> u, tree |-> @.tree, superseded |-> p]]
        BY <1>3, <1>4 DEF Grants
    <1>6. /\ leases[l] = None /\ \A x \in Leases : x # l => leases'[x] = leases[x]
          /\ \/ reads /\ ~due /\ k = 0
                /\ request' = [request EXCEPT ![r].pc = "sending", ![r].lease = l, ![r].renewed = now]
             \/ request' = [request EXCEPT ![r] = Answered(r, keep)]
        <2>1. leases[l] = None
            BY <1>3 DEF Grants
        <2>2. \E m : leases' \in {leases, [leases EXCEPT ![l] = m]}
            BY <1>3, <1>4 DEF Grants
        <2>3. \A x \in Leases : x # l => leases'[x] = leases[x]
            BY <2>2 DEF IInv, Shape
        <2>4. \/ reads /\ ~due /\ k = 0
                 /\ request' = [request EXCEPT ![r].pc = "sending", ![r].lease = l, ![r].renewed = now]
              \/ request' = [request EXCEPT ![r] = Answered(r, keep)]
            BY <1>3, <1>4 DEF Grants
        <2>5. QED
            BY <2>1, <2>3, <2>4
    <1>7. Narrow
        BY <1>6 DEF Narrow
    <1>8. /\ snaps \in [Snapshots -> Trees] /\ request \in [Clients -> Requests] /\ request[r] \in Requests
          /\ Recorded(s) \in Uses
        BY UsesMade DEF IInv, Shape
    <1>9. /\ \A x \in Snapshots : x # s => snaps'[x] = snaps[x]
          /\ snaps'[s].tree = snaps[s].tree /\ snaps'[s].use = u
        BY <1>5, <1>8
    <1>10. due => \A c \in Clients : c # r /\ AtWork(c) => Snap(c) # s
        BY <1>4, AtWorkFacts DEF Unleased
    <1>11. ~(reads /\ due) => u.seen \in {snaps[s].use.seen, Recorded(s)}
        BY <1>5, <1>8, UseSeen DEF IInv
    <1>12. reads /\ ~due /\ k = 0 => u.seen = Recorded(s)
        BY <1>5, <1>8, UseSeen DEF IInv
    <1>13. PICK z, o : z = Answered(r, keep) /\ o = [request[r] EXCEPT !.pc = "sending", !.lease = l, !.renewed = now]
        OBVIOUS
    <1>14. z.pc = "idle" /\ o.snap = s /\ o.renewed = now
        BY <1>2, <1>8, <1>13, AnsweredFacts DEF Requests
    <1>15. (reads /\ ~due /\ k = 0 /\ request' = [request EXCEPT ![r] = o]) \/ request' = [request EXCEPT ![r] = z]
        BY <1>6, <1>13
    <1>16. \A c \in Clients : c # r => request'[c] = request[c]
        BY <1>8, <1>15
    <1>17. (reads /\ ~due /\ k = 0 /\ request'[r] = o) \/ request'[r] = z
        BY <1>8, <1>15
    <1>18. ~Renews(r)' \/ (request'[r].snap = s /\ request'[r].renewed = now /\ reads /\ ~due /\ k = 0)
        BY <1>14, <1>17 DEF Renews
    <1>19. \/ snaps'[s].use.seen \in {snaps[s].use.seen, Recorded(s)}
           \/ \A c \in Clients : c # r /\ AtWork(c) => Snap(c) # s
        BY <1>9, <1>10, <1>11
    <1>20. QED
        BY <1>1, <1>2, <1>7, <1>9, <1>12, <1>16, <1>18, <1>19, UseSafe

LEMMA ReleaseSafe ==
    ASSUME IInv, NEW r \in Clients, ReleaseLease(r)
    PROVE  SafeStep /\ UNCHANGED digest
    <1>1. UNCHANGED <<now, tokens, state, history, digest>> /\ request[r].pc = "done"
        BY DEF ReleaseLease, On, clock
    <1>2. PICK s \in Snapshots, l \in Leases : /\ s = Snap(r) /\ l = request[r].lease
                                               /\ leases[l] # None /\ leases[l].client = r
        BY <1>1, RequestFacts DEF Snap
    <1>3. PICK k \in 0 .. 4, shown \in BOOLEAN : Releases(r, s, l, k, shown)
        BY <1>2, ReleaseTaken
    <1>4. PICK last \in BOOLEAN : last <=> Superseded(s) /\ OpenLeases(s) = {l} /\ ~Unreadable(s)
        OBVIOUS
    <1>5. PICK u, p :
              /\ u = ReleasedUse(s, last, k, shown)
              /\ snaps' = [snaps EXCEPT ![s] = [use |-> u, tree |-> @.tree, superseded |-> p]]
        BY <1>3, <1>4 DEF Releases, ReleasedUse
    <1>6. /\ leases' \in {leases, [leases EXCEPT ![l].state = "released"]}
          /\ \/ request' = [request EXCEPT ![r].pc = "removing"]
             \/ request' = [request EXCEPT ![r] = Quiet]
             \/ request' = [request EXCEPT ![r] = Answered(r, TRUE)]
        BY <1>3 DEF Releases
    <1>7. /\ snaps \in [Snapshots -> Trees] /\ request \in [Clients -> Requests] /\ request[r] \in Requests
          /\ Recorded(s) \in Uses /\ leases \in [Leases -> LeaseRecords \cup {None}]
        BY UsesMade DEF IInv, Shape
    <1>8. Narrow
        <2>1. PICK n : n = [leases[l] EXCEPT !.state = "released"]
            OBVIOUS
        <2>2. n.state = "released"
            BY <1>2, <1>7, <2>1 DEF LeaseRecords
        <2>3. leases' \in {leases, [leases EXCEPT ![l] = n]}
            BY <1>6, <2>1
        <2>4. QED
            BY <1>7, <2>2, <2>3 DEF Narrow
    <1>9. /\ \A x \in Snapshots : x # s => snaps'[x] = snaps[x]
          /\ snaps'[s].tree = snaps[s].tree /\ snaps'[s].use = u
        BY <1>5, <1>7
    <1>10. last => \A c \in Clients : c # r /\ AtWork(c) => Snap(c) # s
        BY <1>2, <1>4, AtWorkFacts
    <1>11. ~last => u.seen \in {snaps[s].use.seen, Recorded(s)}
        BY <1>5, <1>7, UseSeen DEF ReleasedUse, IInv
    <1>12. PICK z, d : z = Answered(r, TRUE) /\ d = [request[r] EXCEPT !.pc = "removing"]
        OBVIOUS
    <1>13. z.pc = "idle" /\ d.pc = "removing" /\ Quiet.pc = "idle"
        BY <1>7, <1>12, AnsweredFacts, QuietRequest DEF Requests
    <1>14. /\ \A c \in Clients : c # r => request'[c] = request[c]
           /\ request'[r] \in {z, d, Quiet}
        <2>1. \/ request' = [request EXCEPT ![r] = d]
              \/ request' = [request EXCEPT ![r] = Quiet]
              \/ request' = [request EXCEPT ![r] = z]
            BY <1>6, <1>12
        <2>2. QED
            BY <1>7, <2>1
    <1>15. ~Renews(r)'
        BY <1>13, <1>14 DEF Renews
    <1>16. \/ snaps'[s].use.seen \in {snaps[s].use.seen, Recorded(s)}
           \/ \A c \in Clients : c # r /\ AtWork(c) => Snap(c) # s
        BY <1>9, <1>10, <1>11
    <1>17. QED
        BY <1>1, <1>8, <1>9, <1>14, <1>15, <1>16, UseSafe

LEMMA RemovedSafe ==
    ASSUME IInv, NEW r \in Clients, RemoveReleased(r)
    PROVE  SafeStep /\ UNCHANGED digest
    <1>1. request[r].pc = "removing" /\ request' = [request EXCEPT ![r] = Quiet]
        BY DEF RemoveReleased, On
    <1>2. Snap(r) \in Snapshots /\ r \in Actors
        BY <1>1, RequestFacts, NamesApart DEF Snap
    <1>3. \A c \in Clients : request'[c] = request[c] \/ ~Renews(c)'
        BY <1>1, QuietRequest DEF Renews, IInv, Shape
    <1>4. CASE RemoveIfDue(r, Snap(r))
        BY <1>2, <1>3, <1>4, RemovalSafe
    <1>5. CASE UNCHANGED <<clock, disk, locks, worker, deleting, gone, faults, stops>>
        <2>1. UNCHANGED <<now, tokens, state, history, snaps, leases, digest>>
            BY <1>5 DEF clock, disk
        <2>2. QED
            BY <1>3, <2>1, PlainSafe
    <1>6. QED
        BY <1>4, <1>5 DEF RemoveReleased

\* What any step does to a tag's evidence and to the requests at work.
LEMMA EveryStep ==
    ASSUME IInv, IInv', Renewed, [Next]_vars
    PROVE  Renewed' /\ \A s \in Snapshots : digest[s] # None => digest'[s] = digest[s]
    <1>1. ASSUME SafeStep, UNCHANGED digest
          PROVE  Renewed' /\ \A s \in Snapshots : digest[s] # None => digest'[s] = digest[s]
        BY <1>1, SafeKeeps
    <1>2. ASSUME NEW f \in Freezes, FreezeStep(f)
          PROVE  Renewed' /\ \A s \in Snapshots : digest[s] # None => digest'[s] = digest[s]
        <2>1. CASE Publish(f)
            BY <2>1, PublishStep, PublishSafe, SafeKeeps
        <2>2. CASE ~Publish(f)
            BY <1>1, <1>2, <2>2, JobsSafe, ReuseSafe, CheckReuseSafe, ReserveSafe DEF FreezeStep
        <2>3. QED
            BY <2>1, <2>2
    <1>3. ASSUME NEW a \in Freezes \cup {Sweeper}, Settle(a)
          PROVE  SafeStep /\ UNCHANGED digest
        BY <1>3, DiscardSafe, DeleteTreeSafe, ClearIntentSafe, NamesApart DEF Settle
    <1>4. CASE SweepStep
        <2>1. ASSUME NEW s \in Snapshots, Sweep(s)
              PROVE  SafeStep /\ UNCHANGED digest
            <3>1. RemoveIfDue(Sweeper, s) /\ UNCHANGED request /\ Sweeper \in Actors
                BY <2>1, NamesApart DEF Sweep
            <3>2. QED
                BY <3>1, RemovalSafe
        <2>2. QED
            BY <1>1, <1>4, <2>1, ReplaySafe, JobsSafe DEF SweepStep
    <1>5. ASSUME NEW r \in Clients, RequestStep(r)
          PROVE  SafeStep /\ UNCHANGED digest
        BY <1>5, QuietSafe, RefusedSafe, GrantSafe, AdmitSafe, ReleaseSafe, RemovedSafe DEF RequestStep
    <1>6. ASSUME NEW r \in Clients, DeleteTree(r)
          PROVE  SafeStep /\ UNCHANGED digest
        BY <1>6, DeleteTreeSafe DEF Actors
    <1>7. CASE World
        <2>1. CASE Tick
            BY <2>1, TickRenewed DEF Tick, disk
        <2>2. ASSUME NEW power \in BOOLEAN, Crash(power)
              PROVE  Renewed' /\ UNCHANGED digest
            <3>1. UNCHANGED digest /\ request' = [r \in Clients |-> Cut(r)]
                BY <2>2 DEF Crash
            <3>2. ASSUME NEW r \in Clients
                  PROVE  ~Renews(r)'
                <4>1. PICK q : q = Cut(r) /\ q.pc = "idle"
                    BY CutFacts
                <4>2. QED
                    BY <3>1, <4>1 DEF Renews
            <3>3. QED
                BY <3>1, <3>2 DEF Renewed
        <2>3. QED
            BY <1>1, <1>7, <2>1, <2>2, WorldSafe DEF World
    <1>8. CASE UNCHANGED vars
        BY <1>1, <1>8, WorldSafe
    <1>9. QED
        BY <1>1, <1>2, <1>3, <1>4, <1>5, <1>6, <1>7, <1>8, ClientSafe DEF Next

LEMMA RenewedFirst == Init => Renewed
    <1> SUFFICES ASSUME Init, NEW r \in Clients PROVE ~Renews(r)
        BY DEF Renewed
    <1>1. request[r] = Quiet
        BY DEF Init
    <1>2. QED
        BY <1>1, QuietRequest DEF Renews

\* A request at work under its lease never sees its snapshot stop being served,
\* whoever sweeps, publishes or releases: its use is renewed before the snapshot
\* could expire, and nothing else takes one that is held (renewWhile,
\* routes.go:633-678).
THEOREM WorkIsServed == Spec => []AtWorkServed
    <1>1. IInv /\ Renewed /\ [Next]_vars => IInv' /\ Renewed'
        BY StepKeeps, EveryStep
    <1>2. Renewed => AtWorkServed
        BY DEF Renewed, AtWorkServed
    <1>3. QED
        BY <1>1, <1>2, InitHolds, RenewedFirst, PTL DEF Spec

\* A tag names one evidence for ever: a publication writes what is published
\* under a tag only where nothing was, and no other step writes it.
THEOREM TagsNameOne == Spec => TagNamesOne
    <1>1. IInv /\ Renewed /\ [Next]_vars => IInv' /\ Renewed'
        BY StepKeeps, EveryStep
    <1>2. IInv /\ Renewed /\ [Next]_vars => [\A s \in Snapshots : digest[s] # None => digest'[s] = digest[s]]_vars
        BY StepKeeps, EveryStep
    <1>3. QED
        BY <1>1, <1>2, InitHolds, RenewedFirst, PTL DEF Spec, TagNamesOne

-----------------------------------------------------------------------------
(* What a request was told is gone.                                          *)

\* What a worker found or published, a job names, a request is about or was told
\* is gone, was published; nothing is there that was not.
NamesOf(f) ==
    /\ freezes[f] # None /\ freezes[f].state = "ready" =>
           digest[<<freezes[f].conv, freezes[f].snapshot>>] # None
    /\ worker[f].pc \in {"check", "ready"} => digest[<<ConvOf(f), worker[f].tag>>] # None
Asks(r) == request[r].snap # None => digest[request[r].snap] # None
Names ==
    /\ \A s \in Snapshots : digest[s] = None => snaps[s].tree = Rec("none")
    /\ \A f \in Freezes : NamesOf(f)
    /\ \A r \in Clients : Asks(r)
    /\ \A s \in gone : s \in Snapshots /\ digest[s] # None

\* What ends a snapshot for good, on the disk as it is seen: its tag is removed,
\* its publication is to be discarded, it expired, or a newer one superseded it
\* and no lease is open.
IsPub(s) == Pub # None /\ Pub.conv = s[1] /\ Pub.tag = s[2]
Buried(s) == s[2] \in history[s[1]].disk.removed
Intended(s) == IsPub(s) /\ state.disk.pub = Pub
Lapsed(s) == snaps[s].use.seen.state = "expired" /\ snaps[s].use.disk.state = "expired"
Passed(s) == Superseded(s) /\ snaps[s].superseded.disk # 0 /\ OpenLeases(s) = {}
Ended(s) == Buried(s) \/ Intended(s) \/ Lapsed(s) \/ Passed(s)

\* A history only grows, and no tag in it is behind its greatest.
Grows(c) ==
    /\ history[c].disk.removed \subseteq history[c].seen.removed
    /\ \A t \in history[c].seen.removed : t <= history[c].seen.greatest
    /\ \A t \in history[c].disk.removed : t <= history[c].disk.greatest

\* A published snapshot that is not whole and alone is one that ended.
Whole == \A s \in Snapshots :
    digest[s] # None /\ (Removed(s) \/ snaps[s].tree # Rec("here") \/ IsPub(s)) => Ended(s)

\* A tree moved away, and one whose intent is about to go, are in the history.
Away == \A s \in Snapshots : "moved" \in {snaps[s].tree.seen, snaps[s].tree.disk} => Buried(s)
Clearing == \A a \in Actors : deleting[a] # None /\ deleting[a].pub # None =>
    Buried(<<deleting[a].pub.conv, deleting[a].pub.tag>>)

\* A worker that publishes has the one intent to itself, and it is on the disk.
Intent(f) == Publishes(f) =>
    /\ ~Removed(<<ConvOf(f), worker[f].tag>>)
    /\ Pub # None /\ (Pub.build = f \/ IsPub(<<ConvOf(f), worker[f].tag>>)) => Pub.build = f /\ state.disk.pub = Pub

Ends ==
    /\ \A c \in Conversations : Grows(c)
    /\ Whole /\ Away /\ Clearing
    /\ \A f \in Freezes : Intent(f)
    /\ \A s \in gone : Ended(s)

\* What a step does not undo.
Steady(s) == (Lapsed(s) => Lapsed(s)') /\ (Passed(s) => Passed(s)')

LEMMA SteadyKept ==
    ASSUME NEW s, snaps'[s].use = snaps[s].use, snaps'[s].superseded = snaps[s].superseded,
           OpenLeases(s)' \subseteq OpenLeases(s)
    PROVE  Steady(s)
    BY DEF Steady, Lapsed, Passed, Superseded

\* A use written as expired stays so, and is on the disk once its write is made.
LEMMA UseLapses ==
    ASSUME Shape, NEW s \in Snapshots, NEW v, v.state = "expired", NEW k, NEW shown, NEW at,
           NEW u \in {snaps[s].use}, NEW w, w = Write(k, shown, at, u, v)
    PROVE  /\ Lapsed(s) => w.seen.state = "expired" /\ w.disk.state = "expired"
           /\ k = 0 \/ at < k => w.seen.state = "expired" /\ w.disk.state = "expired"
    <1>1. CASE k = 0 \/ at < k
        BY <1>1, RecFields DEF Write
    <1>2. CASE ~(k = 0 \/ at < k)
        <2>1. w \in {[u EXCEPT !.seen = v], u}
            BY <1>2 DEF Write
        <2>2. u \in [seen : Uses, disk : Uses]
            BY DEF Shape, Trees
        <2>3. [u EXCEPT !.seen = v].seen = v /\ [u EXCEPT !.seen = v].disk = u.disk
            BY <2>2
        <2>4. QED
            BY <1>2, <2>1, <2>3 DEF Lapsed
    <1>3. QED
        BY <1>1, <1>2

\* A supersession written again, or written where there was none, stays.
LEMMA MarkPasses ==
    ASSUME Shape, NEW s \in Snapshots, NEW v, v # 0, NEW k, NEW shown, NEW at,
           NEW w, w = Write(k, shown, at, snaps[s].superseded, v)
    PROVE  /\ Superseded(s) => w.seen # 0
           /\ snaps[s].superseded.disk # 0 => w.disk # 0
           /\ k = 0 \/ at < k => w.seen # 0 /\ w.disk # 0
    <1> DEFINE u == snaps[s].superseded
    <1>1. CASE k = 0 \/ at < k
        BY <1>1, RecFields DEF Write
    <1>2. CASE ~(k = 0 \/ at < k)
        <2>1. w \in {[u EXCEPT !.seen = v], u}
            BY <1>2 DEF Write
        <2>2. u \in [seen : Nat, disk : Nat]
            BY DEF Shape, Trees
        <2>3. [u EXCEPT !.seen = v].seen = v /\ [u EXCEPT !.seen = v].disk = u.disk
            BY <2>2
        <2>4. QED
            BY <1>2, <2>1, <2>3 DEF Superseded
    <1>3. QED
        BY <1>1, <1>2

\* A step that moves no tree and writes no history.
LEMMA UseCloses ==
    ASSUME Names, Ends, UNCHANGED <<state, history, digest, deleting>>, TreesStay,
           \A s \in Snapshots : Steady(s),
           gone' \subseteq Snapshots, \A s \in Snapshots : s \in gone' \ gone => digest[s] # None /\ Ended(s)',
           \A f \in Freezes : NamesOf(f)',
           \A f \in Freezes : Publishes(f)' =>
               Publishes(f) /\ worker'[f].tag = worker[f].tag /\ ConvOf(f)' = ConvOf(f),
           \A r \in Clients : Asks(r)'
    PROVE  Names' /\ Ends'
    <1>1. /\ \A s : Buried(s)' <=> Buried(s)
          /\ \A s : Removed(s)' <=> Removed(s)
          /\ \A s : IsPub(s)' <=> IsPub(s)
          /\ \A s : Intended(s)' <=> Intended(s)
          /\ \A c : Grows(c)' <=> Grows(c)
        BY DEF Buried, Removed, IsPub, Intended, Grows, Pub
    <1>2. \A s \in Snapshots : Ended(s) => Ended(s)'
        BY <1>1 DEF Ended, Steady
    <1>3. Names'
        BY DEF Names, TreesStay
    <1>4. \A s \in Snapshots :
              digest'[s] # None /\ (Removed(s)' \/ snaps'[s].tree # Rec("here") \/ IsPub(s)') => Ended(s)'
        BY <1>1, <1>2 DEF Ends, Whole, TreesStay
    <1>5. \A s \in Snapshots : "moved" \in {snaps'[s].tree.seen, snaps'[s].tree.disk} => Buried(s)'
        BY <1>1 DEF Ends, Away, TreesStay
    <1>6. \A a \in Actors : deleting'[a] # None /\ deleting'[a].pub # None =>
              Buried(<<deleting[a].pub.conv, deleting[a].pub.tag>>)'
        BY DEF Ends, Clearing, Buried
    <1>7. \A f \in Freezes : Publishes(f)' =>
              /\ ~Removed(<<ConvOf(f), worker[f].tag>>)'
              /\ Pub' # None /\ (Pub'.build = f \/ IsPub(<<ConvOf(f), worker[f].tag>>)') =>
                    Pub'.build = f /\ state'.disk.pub = Pub'
        <2>1. TAKE f \in Freezes
        <2>2. HAVE Publishes(f)'
        <2>3. <<ConvOf(f), worker[f].tag>>' = <<ConvOf(f), worker[f].tag>>
            BY <2>2
        <2>4. QED
            BY <1>1, <2>2, <2>3 DEF Ends, Intent, Pub, Removed, IsPub
    <1>8. \A s \in Snapshots : s \in gone' => Ended(s)'
        BY <1>2 DEF Names, Ends
    <1>9. QED
        BY <1>1, <1>3, <1>4, <1>5, <1>6, <1>7, <1>8 DEF Ends, Whole, Away, Clearing, Intent

LEMMA AllSteady ==
    ASSUME UNCHANGED <<snaps, leases>>
    PROVE  TreesStay /\ \A s \in Snapshots : Steady(s)
    BY DEF TreesStay, Steady, Lapsed, Passed, Superseded, OpenLeases

LEMMA WorkerCloses ==
    ASSUME Names, Ends, UNCHANGED <<state, history, digest, deleting, gone, request>>, TreesStay,
           \A s \in Snapshots : Steady(s), NEW f \in Freezes,
           \A g \in Freezes : g # f => worker'[g] = worker[g] /\ freezes'[g] = freezes[g],
           NamesOf(f)',
           Publishes(f)' => Publishes(f) /\ worker'[f].tag = worker[f].tag /\ ConvOf(f)' = ConvOf(f)
    PROVE  Names' /\ Ends'
    <1>1. \A g \in Freezes : NamesOf(g)'
        BY DEF Names, NamesOf, ConvOf
    <1>2. \A g \in Freezes : Publishes(g)' =>
              Publishes(g) /\ worker'[g].tag = worker[g].tag /\ ConvOf(g)' = ConvOf(g)
        BY DEF Publishes, ConvOf
    <1>3. (\A r \in Clients : Asks(r)') /\ gone' \subseteq Snapshots /\ gone' = gone
        BY DEF Names, Asks
    <1>4. QED
        BY <1>1, <1>2, <1>3, UseCloses

LEMMA RequestCloses ==
    ASSUME Names, Ends, UNCHANGED <<state, history, digest, deleting, worker, freezes>>, TreesStay,
           \A s \in Snapshots : Steady(s), NEW r \in Clients,
           \A q \in Clients : q # r => request'[q] = request[q],
           request'[r].snap \in {None, request[r].snap} \/ digest[request'[r].snap] # None,
           gone' \subseteq Snapshots, \A s \in Snapshots : s \in gone' \ gone => digest[s] # None /\ Ended(s)'
    PROVE  Names' /\ Ends'
    <1>1. \A g \in Freezes : NamesOf(g)'
        BY DEF Names, NamesOf, ConvOf
    <1>2. \A g \in Freezes : Publishes(g)' =>
              Publishes(g) /\ worker'[g].tag = worker[g].tag /\ ConvOf(g)' = ConvOf(g)
        BY DEF Publishes, ConvOf
    <1>3. \A q \in Clients : Asks(q)'
        BY DEF Names, Asks
    <1>4. QED
        BY <1>1, <1>2, <1>3, UseCloses

LEMMA NamesIdle ==
    ASSUME IInv, Names, NEW f \in Freezes, owner[f] = None
    PROVE  worker[f].pc = "idle" /\ ~Publishes(f)
    BY NamesApart DEF IInv, Crew, CrewOf, Publishes

\* Jobs and their workers, up to a reuse.
LEMMA JobsClose ==
    ASSUME IInv, Names, Ends, NEW f \in Freezes,
           ClaimFreeze(f) \/ FreshBuild(f) \/ ReadSource(f) \/ FinishTree(f) \/ FinishFreeze(f) \/ RemoveFreeze(f)
    PROVE  Names' /\ Ends'
    <1>1. /\ worker \in [Freezes -> Builds] /\ freezes \in [Freezes -> Jobs \cup {None}] /\ NamesOf(f)
          /\ freezes[f] \in Jobs \cup {None}
        BY DEF IInv, Shape, Names
    <1>2. UNCHANGED <<state, history, digest, deleting, gone, request, snaps, leases>>
        BY DEF ClaimFreeze, FreshBuild, ReadSource, FinishTree, FinishFreeze, RemoveFreeze, disk, work
    <1>3. TreesStay /\ \A s \in Snapshots : Steady(s)
        BY <1>2, AllSteady
    <1>4. CASE ClaimFreeze(f)
        <2>1. worker[f].pc = "idle" /\ freezes[f] # None /\ freezes[f].state = "building" /\ now \in Nat
            BY <1>4, NamesIdle DEF ClaimFreeze, IInv, Shape
        <2>2. PICK j : j = Claimed(freezes[f])
            OBVIOUS
        <2>3. freezes' \in {freezes, [freezes EXCEPT ![f] = j]}
            BY <1>4, <2>2 DEF ClaimFreeze
        <2>4. worker' \in {worker, [worker EXCEPT ![f] = [Idle EXCEPT !.pc = "settle"]]}
            BY <1>4 DEF ClaimFreeze
        <2>5. j.state # "ready"
            BY <1>1, <2>1, <2>2, ClaimedJob
        <2>6. worker'[f].pc \in {"idle", "settle"}
            BY <1>1, <2>1, <2>4 DEF Idle
        <2>7. NamesOf(f)' /\ ~Publishes(f)'
            BY <1>1, <2>1, <2>3, <2>5, <2>6 DEF NamesOf, Publishes
        <2>8. \A g \in Freezes : g # f => worker'[g] = worker[g] /\ freezes'[g] = freezes[g]
            BY <1>1, <2>3, <2>4
        <2>9. QED
            BY <1>2, <1>3, <2>7, <2>8, WorkerCloses
    <1>5. CASE FreshBuild(f) \/ ReadSource(f) \/ FinishTree(f)
        <2>1. UNCHANGED freezes /\ \A g \in Freezes : g # f => worker'[g] = worker[g]
            BY <1>1, <1>5 DEF FreshBuild, ReadSource, FinishTree, Step, disk
        <2>2. \/ worker'[f].pc \in {"read", "failed", "settle", "reuse"}
              \/ worker'[f].pc = "publish" /\ worker'[f].tag = worker[f].tag /\ worker[f].pc = "finish"
            <3>1. CASE FreshBuild(f)
                BY <3>1, FreshBuilds
            <3>2. CASE ReadSource(f)
                <4>1. PICK pc \in {"settle", "reuse", "failed"} : Step(f, pc)
                    BY <3>2 DEF ReadSource
                <4>2. pc \in WorkerPCs
                    BY DEF WorkerPCs
                <4>3. QED
                    BY <4>1, <4>2, StepFacts DEF IInv
            <3>3. CASE FinishTree(f)
                <4>1. PICK pc \in {"publish", "failed"} : Step(f, pc) /\ worker[f].pc = "finish"
                    BY <3>3 DEF FinishTree, At
                <4>2. pc \in WorkerPCs
                    BY DEF WorkerPCs
                <4>3. QED
                    BY <4>1, <4>2, StepFacts DEF IInv
            <3>4. QED
                BY <1>5, <3>1, <3>2, <3>3
        <2>3. NamesOf(f)'
            BY <1>1, <1>2, <2>1, <2>2 DEF NamesOf
        <2>4. Publishes(f)' => Publishes(f) /\ worker'[f].tag = worker[f].tag /\ ConvOf(f)' = ConvOf(f)
            BY <2>1, <2>2 DEF Publishes, ConvOf
        <2>5. QED
            BY <1>2, <1>3, <2>1, <2>3, <2>4, WorkerCloses
    <1>6. CASE FinishFreeze(f)
        <2>1. worker' = [worker EXCEPT ![f] = Idle] /\ worker[f].pc \in {"ready", "failed"}
            BY <1>6 DEF FinishFreeze
        <2>2. PICK j \in Jobs :
                  /\ freezes' \in {[freezes EXCEPT ![f] = j], freezes}
                  /\ j.state = worker[f].pc /\ j.conv = ConvOf(f)
                  /\ j.state = "ready" => j.snapshot = worker[f].tag
            BY <1>6, FinishedJob
        <2>6. worker'[f].pc = "idle"
            BY <1>1, <2>1 DEF Idle
        <2>7. NamesOf(f)' /\ ~Publishes(f)'
            BY <1>1, <1>2, <2>2, <2>6 DEF NamesOf, Publishes
        <2>8. \A g \in Freezes : g # f => worker'[g] = worker[g] /\ freezes'[g] = freezes[g]
            BY <1>1, <2>1, <2>2
        <2>9. QED
            BY <1>2, <1>3, <2>7, <2>8, WorkerCloses
    <1>7. CASE RemoveFreeze(f)
        <2>1. /\ worker' = worker /\ worker[f].pc = "idle"
              /\ freezes' \in {freezes, [freezes EXCEPT ![f] = None]}
            BY <1>7, NamesIdle DEF RemoveFreeze, work
        <2>2. NamesOf(f)' /\ ~Publishes(f)'
            BY <1>1, <1>2, <2>1 DEF NamesOf, Publishes
        <2>3. \A g \in Freezes : g # f => worker'[g] = worker[g] /\ freezes'[g] = freezes[g]
            BY <1>1, <2>1
        <2>4. QED
            BY <1>2, <1>3, <2>2, <2>3, WorkerCloses
    <1>8. QED
        BY <1>4, <1>5, <1>6, <1>7

LEMMA AnsweredSnap ==
    ASSUME NEW r, NEW keep, NEW q, q = Answered(r, keep)
    PROVE  q.snap \in {None, request[r].snap}
    BY DEF Answered, Quiet

\* A request that asks for no other snapshot.
SameSnap(r) ==
    /\ request'[r].snap \in {None, request[r].snap}
    /\ \A q \in Clients : q # r => request'[q] = request[q]

LEMMA AskCloses ==
    ASSUME Names, Ends, UNCHANGED <<state, history, digest, deleting, worker, freezes, gone>>, TreesStay,
           \A s \in Snapshots : Steady(s), NEW r \in Clients, SameSnap(r)
    PROVE  Names' /\ Ends'
    <1>1. gone' \subseteq Snapshots /\ gone' = gone
        BY DEF Names
    <1>2. QED
        BY <1>1, RequestCloses DEF SameSnap

LEMMA QuietSnap == Quiet.snap = None
    BY DEF Quiet

\* Requests that write nothing.
LEMMA QuietCloses ==
    ASSUME IInv, Names, Ends, NEW r \in Clients,
           \/ Poll(r) \/ Ask(r) \/ Done(r) \/ Forget(r)
           \/ HoldSnapshot(r) \/ Forbidden(r) \/ ReleaseAgain(r) \/ Sent(r)
    PROVE  Names' /\ Ends'
    <1>1. UNCHANGED <<state, history, digest, deleting, worker, freezes, gone, snaps, leases>>
        BY DEF Poll, Ask, Done, Forget, HoldSnapshot, Forbidden, ReleaseAgain, Sent, disk
    <1>2. TreesStay /\ \A s \in Snapshots : Steady(s)
        BY <1>1, AllSteady
    <1>3. request[r] \in Requests
        BY RequestFacts
    <1>4. CASE Poll(r)
        <2>1. CASE request' = [request EXCEPT ![r] = Quiet]
            <3>1. SameSnap(r)
                BY <2>1, QuietSnap DEF IInv, Shape, SameSnap
            <3>2. QED
                BY <1>1, <1>2, <3>1, AskCloses
        <2>2. ASSUME request' # [request EXCEPT ![r] = Quiet]
              PROVE  Names' /\ Ends'
            <3>1. PICK j : j = freezes[request[r].freeze]
                OBVIOUS
            <3>2. /\ request[r].freeze # None /\ j # None /\ j.state = "ready"
                  /\ request' = [request EXCEPT ![r].pc = "hold", ![r].kind = "manifest",
                                               ![r].snap = <<j.conv, j.snapshot>>]
                BY <1>4, <2>2, <3>1 DEF Poll
            <3>3. request[r].freeze \in Freezes
                BY <3>2, RequestFacts
            <3>4. digest[<<j.conv, j.snapshot>>] # None
                BY <3>1, <3>2, <3>3 DEF Names, NamesOf
            <3>5. PICK x : x = <<j.conv, j.snapshot>>
                OBVIOUS
            <3>6. request' = [request EXCEPT ![r].pc = "hold", ![r].kind = "manifest", ![r].snap = x]
                BY <3>2, <3>5
            <3>7. request'[r].snap = x /\ \A q \in Clients : q # r => request'[q] = request[q]
                BY <1>3, <3>6 DEF Requests, IInv, Shape
            <3>8. gone' \subseteq Snapshots /\ gone' = gone
                BY <1>1 DEF Names
            <3>9. QED
                BY <1>1, <1>2, <3>4, <3>5, <3>7, <3>8, RequestCloses
        <2>3. QED
            BY <2>1, <2>2
    <1>5. ASSUME ~Poll(r)
          PROVE  SameSnap(r)
        <2>1. CASE Ask(r)
            <3>1. request' = [request EXCEPT ![r].pc = "hold", ![r].kind = "use"]
                BY <2>1 DEF Ask
            <3>2. QED
                BY <1>3, <3>1 DEF IInv, Shape, Requests, SameSnap
        <2>2. CASE Done(r) \/ ReleaseAgain(r) \/ HoldSnapshot(r)
            <3>1. PICK pc \in {"done", "removing", "held"} : request' = [request EXCEPT ![r].pc = pc]
                BY <2>2 DEF Done, ReleaseAgain, HoldSnapshot
            <3>2. QED
                BY <1>3, <3>1 DEF IInv, Shape, Requests, SameSnap
        <2>3. CASE request' = [request EXCEPT ![r] = Quiet]
            BY <2>3, QuietSnap DEF IInv, Shape, SameSnap
        <2>4. CASE request' = [request EXCEPT ![r] = [Answered(r, TRUE) EXCEPT !.freeze = None]]
            <3>1. PICK a : a = Answered(r, TRUE)
                OBVIOUS
            <3>2. a \in Requests /\ a.snap \in {None, request[r].snap}
                BY <3>1, AnsweredFacts, AnsweredSnap
            <3>3. request' = [request EXCEPT ![r] = [a EXCEPT !.freeze = None]]
                BY <2>4, <3>1
            <3>4. QED
                BY <3>2, <3>3 DEF IInv, Shape, Requests, SameSnap
        <2>5. QED
            BY <1>5, <2>1, <2>2, <2>3, <2>4 DEF Forget, Forbidden, Sent
    <1>6. QED
        BY <1>1, <1>2, <1>4, <1>5, AskCloses

\* A job made for a request, or joined by it.
LEMMA StartFreezeCloses ==
    ASSUME IInv, Names, Ends, NEW r \in Clients, NEW c \in Conversations, StartFreeze(r, c)
    PROVE  Names' /\ Ends'
    <1>1. UNCHANGED <<state, history, digest, deleting, worker, gone, snaps, leases>>
        BY DEF StartFreeze, clock
    <1>2. TreesStay /\ (\A s \in Snapshots : Steady(s)) /\ gone' = gone /\ gone' \subseteq Snapshots
        BY <1>1, AllSteady DEF Names
    <1>3. \A f \in Freezes, q \in Clients : request' = Follows(r, f) => request'[q].snap = request[q].snap
        <2>1. ASSUME NEW f \in Freezes, NEW q \in Clients, request' = Follows(r, f)
              PROVE  request'[q].snap = request[q].snap
            <3>1. request[q] \in Requests
                BY RequestFacts
            <3>2. request' \in {request, [request EXCEPT ![r].freeze = f]}
                BY <2>1 DEF Follows
            <3>3. QED
                BY <3>1, <3>2 DEF IInv, Shape, Requests
        <2>2. QED
            BY <2>1
    <1>4. \E f \in Freezes : request' \in {request, Follows(r, f)}
        BY DEF StartFreeze
    <1>5. \A q \in Clients : Asks(q)'
        BY <1>1, <1>3, <1>4 DEF Names, Asks
    <1>6. \/ freezes' = freezes
          \/ \E f \in Freezes : owner[f] = None /\ freezes' = [freezes EXCEPT ![f] = NewJob(c)]
        BY DEF StartFreeze
    <1>7. \A g \in Freezes : NamesOf(g)' /\ (Publishes(g)' => Publishes(g) /\ ConvOf(g)' = ConvOf(g))
        <2>1. CASE freezes' = freezes
            BY <1>1, <2>1 DEF Names, NamesOf, ConvOf, Publishes
        <2>2. ASSUME NEW f \in Freezes, owner[f] = None, freezes' = [freezes EXCEPT ![f] = NewJob(c)]
              PROVE  \A g \in Freezes : NamesOf(g)' /\ (Publishes(g)' => Publishes(g) /\ ConvOf(g)' = ConvOf(g))
            <3>1. worker[f].pc = "idle"
                BY <2>2, NamesIdle
            <3>2. freezes'[f].state = "building" /\ \A g \in Freezes : g # f => freezes'[g] = freezes[g]
                BY <2>2 DEF NewJob, IInv, Shape
            <3>3. QED
                BY <1>1, <3>1, <3>2 DEF Names, NamesOf, ConvOf, Publishes
        <2>3. QED
            BY <1>6, <2>1, <2>2
    <1>8. QED
        BY <1>1, <1>2, <1>5, <1>7, UseCloses

\* The world writes nothing of the server's, but for a loss of power.
LEMMA WorldCloses ==
    ASSUME Names, Ends,
           \/ Tick \/ (\E c \in Conversations : Change(c)) \/ (\E r \in Clients : TokenGone(r))
           \/ StartProcess \/ UNCHANGED vars
    PROVE  Names' /\ Ends'
    <1>1. UNCHANGED <<state, history, digest, deleting, worker, freezes, request, gone, snaps, leases>>
        BY DEF Tick, Change, TokenGone, StartProcess, vars, disk, work
    <1>2. QED
        BY <1>1 DEF Names, NamesOf, ConvOf, Asks, Ends, Whole, Away, Clearing, Intent, Grows, Removed, IsPub, Pub,
                   Ended, Buried, Intended, Lapsed, Passed, Superseded, OpenLeases, Publishes
\* A step that writes one snapshot's records.
LEMMA OneSteady ==
    ASSUME NEW s \in Snapshots, \A x \in Snapshots : x # s => snaps'[x] = snaps[x],
           snaps'[s].tree = snaps[s].tree, Steady(s),
           \A x \in Snapshots : x # s => OpenLeases(x)' \subseteq OpenLeases(x)
    PROVE  TreesStay /\ \A x \in Snapshots : Steady(x)
    <1>1. \A x \in Snapshots : x # s => Steady(x)
        BY SteadyKept
    <1>2. QED
        BY <1>1 DEF TreesStay

\* An expiry, or a supersession, that was seen and is written again.
LEMMA ExpiryCloses ==
    ASSUME Shape, NEW s \in Snapshots, NEW k, NEW shown, UNCHANGED leases,
           snaps' = [snaps EXCEPT ![s].use = CommitExpiry(s, k, shown)]
    PROVE  TreesStay /\ (\A x \in Snapshots : Steady(x)) /\ (k = 0 => Lapsed(s)')
    <1>1. PICK v : v = Expired(s)
        OBVIOUS
    <1>2. v.state = "expired"
        <2>1. snaps[s].use.seen \in Uses
            BY DEF Shape, Trees
        <2>2. QED
            BY <1>1, <2>1 DEF Expired, Uses
    <1>3. PICK u, w : u = snaps[s].use /\ w = Write(k, shown, 1, u, v) /\ w = CommitExpiry(s, k, shown)
        BY <1>1 DEF CommitExpiry
    <1>4. /\ Lapsed(s) => w.seen.state = "expired" /\ w.disk.state = "expired"
          /\ k = 0 => w.seen.state = "expired" /\ w.disk.state = "expired"
        BY <1>2, <1>3, UseLapses
    <1>5. snaps' = [snaps EXCEPT ![s].use = w]
        BY <1>3
    <1>6. /\ snaps'[s].use = w /\ snaps'[s].superseded = snaps[s].superseded /\ snaps'[s].tree = snaps[s].tree
          /\ \A x \in Snapshots : x # s => snaps'[x] = snaps[x]
        <2>1. PICK e : e = [snaps[s] EXCEPT !.use = w]
            OBVIOUS
        <2>2. e.use = w /\ e.superseded = snaps[s].superseded /\ e.tree = snaps[s].tree
            BY <2>1 DEF Shape, Trees
        <2>3. snaps' = [snaps EXCEPT ![s] = e]
            BY <1>5, <2>1
        <2>4. QED
            BY <2>2, <2>3 DEF Shape
    <1>7. Steady(s) /\ (k = 0 => Lapsed(s)')
        BY <1>4, <1>6 DEF Steady, Lapsed, Passed, Superseded, OpenLeases
    <1>8. QED
        BY <1>6, <1>7, OneSteady DEF OpenLeases

LEMMA MarkCloses ==
    ASSUME Shape, NEW s \in Snapshots, NEW k, NEW shown, UNCHANGED leases, Superseded(s),
           snaps' = [snaps EXCEPT ![s].superseded = CommitMark(s, k, shown, 1)]
    PROVE  TreesStay /\ (\A x \in Snapshots : Steady(x))
    <1>1. PICK v : v = snaps[s].superseded.seen /\ v # 0
        BY DEF Superseded
    <1>2. PICK w : w = Write(k, shown, 1, snaps[s].superseded, v) /\ w = CommitMark(s, k, shown, 1)
        BY <1>1 DEF CommitMark
    <1>3. w.seen # 0 /\ (snaps[s].superseded.disk # 0 => w.disk # 0)
        BY <1>1, <1>2, MarkPasses
    <1>4. /\ snaps'[s].use = snaps[s].use /\ snaps'[s].superseded = w /\ snaps'[s].tree = snaps[s].tree
          /\ \A x \in Snapshots : x # s => snaps'[x] = snaps[x]
        <2>1. PICK e : e = [snaps[s] EXCEPT !.superseded = w]
            OBVIOUS
        <2>2. e.use = snaps[s].use /\ e.superseded = w /\ e.tree = snaps[s].tree
            BY <2>1 DEF Shape, Trees
        <2>3. snaps' = [snaps EXCEPT ![s] = e]
            BY <1>2, <2>1
        <2>4. QED
            BY <2>2, <2>3 DEF Shape
    <1>5. Steady(s)
        BY <1>3, <1>4 DEF Steady, Lapsed, Passed, Superseded, OpenLeases
    <1>6. QED
        BY <1>4, <1>5, OneSteady DEF OpenLeases

\* A tree that is there was published.
LEMMA NamesHere == ASSUME Names, NEW s \in Snapshots, Here(s) PROVE digest[s] # None
    BY RecFields DEF Names, Here

LEMMA ReuseCloses ==
    ASSUME IInv, Names, Ends, NEW f \in Freezes, Reuse(f)
    PROVE  Names' /\ Ends'
    <1>1. /\ UNCHANGED <<state, history, digest, leases, freezes, request, deleting, gone>>
          /\ worker[f].pc = "reuse" /\ ConvOf(f) \in Conversations
        BY DEF Reuse, At, clock, IInv, Crew, CrewOf, Jobs, ConvOf
    <1>2. NamesOf(f)
        BY DEF Names
    <1>3. ASSUME NEW pc \in {"reserve", "failed"}, Step(f, pc), TreesStay, \A s \in Snapshots : Steady(s)
          PROVE  Names' /\ Ends'
        <2>1. worker'[f].pc = pc /\ \A g \in Freezes : g # f => worker'[g] = worker[g]
            BY <1>3, StepFacts DEF IInv, WorkerPCs
        <2>2. NamesOf(f)' /\ ~Publishes(f)'
            BY <1>1, <1>2, <2>1 DEF NamesOf, Publishes
        <2>3. QED
            BY <1>1, <1>3, <2>1, <2>2, WorkerCloses
    <1>4. CASE TagsOf(ConvOf(f)) = {} /\ Step(f, "reserve") /\ UNCHANGED <<snaps, holds, faults>>
        BY <1>1, <1>3, <1>4, AllSteady
    <1>5. ASSUME NEW t \in TagsOf(ConvOf(f)), ReuseOf(f, <<ConvOf(f), t>>)
          PROVE  Names' /\ Ends'
        <2>1. PICK s \in Snapshots : s = <<ConvOf(f), t>> /\ s[2] = t /\ t \in Tags /\ Here(s)
            BY <1>1 DEF Snapshots, TagsOf
        <2>2. PICK k \in {0, 1}, shown \in BOOLEAN :
                  \/ /\ Step(f, "reserve") /\ UNCHANGED <<snaps, holds, faults>>
                  \/ /\ Step(f, "failed") /\ UNCHANGED <<snaps, holds, faults>>
                  \/ /\ Life(s) = "expired" \/ (Life(s) = "served" /\ Superseded(s))
                     /\ snaps' = IF Life(s) = "expired"
                                 THEN [snaps EXCEPT ![s].use = CommitExpiry(s, k, shown)]
                                 ELSE [snaps EXCEPT ![s].superseded = CommitMark(s, k, shown, 1)]
                     /\ Step(f, IF k = 0 THEN "reserve" ELSE "failed")
                  \/ /\ worker' = [worker EXCEPT ![f].pc = "check", ![f].tag = s[2]]
                     /\ UNCHANGED <<snaps, faults>>
            BY <1>5, <2>1 DEF ReuseOf
        <2>3. CASE \E pc \in {"reserve", "failed"} : Step(f, pc) /\ UNCHANGED <<snaps, holds, faults>>
            BY <1>1, <1>3, <2>3, AllSteady
        <2>4. CASE /\ Life(s) = "expired" \/ (Life(s) = "served" /\ Superseded(s))
                   /\ snaps' = IF Life(s) = "expired"
                               THEN [snaps EXCEPT ![s].use = CommitExpiry(s, k, shown)]
                               ELSE [snaps EXCEPT ![s].superseded = CommitMark(s, k, shown, 1)]
                   /\ Step(f, IF k = 0 THEN "reserve" ELSE "failed")
            <3>1. TreesStay /\ \A x \in Snapshots : Steady(x)
                BY <1>1, <2>4, ExpiryCloses, MarkCloses DEF IInv
            <3>2. PICK pc \in {"reserve", "failed"} : Step(f, pc)
                BY <2>4
            <3>3. QED
                BY <1>3, <3>1, <3>2
        <2>5. CASE /\ worker' = [worker EXCEPT ![f].pc = "check", ![f].tag = s[2]]
                   /\ UNCHANGED <<snaps, faults>>
            <3>1. PICK w : w = [worker[f] EXCEPT !.pc = "check", !.tag = t]
                OBVIOUS
            <3>2. worker' = [worker EXCEPT ![f] = w]
                BY <2>1, <2>5, <3>1
            <3>3. w.pc = "check" /\ w.tag = t
                BY <3>1 DEF IInv, Shape, Builds
            <3>4. worker'[f] = w /\ \A g \in Freezes : g # f => worker'[g] = worker[g]
                BY <3>2 DEF IInv, Shape
            <3>5. digest[s] # None
                BY <2>1, NamesHere
            <3>6. NamesOf(f)' /\ ~Publishes(f)'
                BY <1>1, <1>2, <2>1, <3>3, <3>4, <3>5 DEF NamesOf, Publishes, ConvOf
            <3>7. TreesStay /\ \A x \in Snapshots : Steady(x)
                BY <1>1, <2>5, AllSteady
            <3>8. QED
                BY <1>1, <3>4, <3>6, <3>7, WorkerCloses
        <2>6. QED
            BY <2>2, <2>3, <2>4, <2>5
    <1>6. QED
        BY <1>4, <1>5 DEF Reuse

LEMMA CheckReuseCloses ==
    ASSUME IInv, Names, Ends, NEW f \in Freezes, CheckReuse(f)
    PROVE  Names' /\ Ends'
    <1>1. /\ UNCHANGED <<state, history, digest, leases, freezes, request, deleting, gone>>
          /\ worker[f].pc = "check" /\ ConvOf(f) \in Conversations /\ worker[f].tag \in Tags
        BY DEF CheckReuse, At, clock, IInv, Crew, CrewOf, Jobs, ConvOf
    <1>2. PICK s \in Snapshots : s = <<ConvOf(f), worker[f].tag>>
        BY <1>1 DEF Snapshots
    <1>3. PICK k \in {0, 1}, shown \in BOOLEAN :
              IF Life(s) = "expired"
              THEN /\ snaps' = [snaps EXCEPT ![s].use = CommitExpiry(s, k, shown)]
                   /\ Step(f, IF k = 0 THEN "reserve" ELSE "failed")
              ELSE UNCHANGED <<snaps, faults>> /\ Step(f, IF Eligible(f, s) THEN "ready" ELSE "reserve")
        BY <1>2 DEF CheckReuse
    <1>4. TreesStay /\ \A x \in Snapshots : Steady(x)
        BY <1>1, <1>3, ExpiryCloses, AllSteady DEF IInv
    <1>5. PICK pc \in {"reserve", "failed", "ready"} : Step(f, pc)
        BY <1>3
    <1>6. /\ worker'[f].pc = pc /\ worker'[f].tag = worker[f].tag
          /\ \A g \in Freezes : g # f => worker'[g] = worker[g]
        BY <1>5, StepFacts DEF IInv, WorkerPCs
    <1>7. NamesOf(f)' /\ ~Publishes(f)'
        BY <1>1, <1>6 DEF Names, NamesOf, Publishes, ConvOf
    <1>8. QED
        BY <1>1, <1>4, <1>6, <1>7, WorkerCloses

LEMMA RefusedCloses ==
    ASSUME IInv, Names, Ends, NEW r \in Clients, Refused(r)
    PROVE  Names' /\ Ends'
    <1>1. /\ UNCHANGED <<state, history, digest, leases, freezes, worker, deleting>>
          /\ request[r].pc \in {"hold", "held", "done"} /\ Life(Snap(r)) # "served"
        BY DEF Refused, clock
    <1>2. PICK s \in Snapshots : s = Snap(r) /\ s = request[r].snap
        BY <1>1, RequestFacts DEF Snap
    <1>3. PICK k \in {0, 1}, shown \in BOOLEAN, keep \in BOOLEAN :
              /\ snaps' = IF Life(s) = "expired" THEN [snaps EXCEPT ![s].use = CommitExpiry(s, k, shown)] ELSE snaps
              /\ gone' = IF k = 0 /\ Life(s) # "broken" THEN gone \cup {s} ELSE gone
              /\ request' = [request EXCEPT ![r] = Answered(r, keep)]
        BY <1>2 DEF Refused
    <1>4. TreesStay /\ \A x \in Snapshots : Steady(x)
        BY <1>1, <1>3, ExpiryCloses, AllSteady DEF IInv
    <1>5. digest[s] # None
        BY <1>2, PullNames DEF Names, Asks
    <1>6. ASSUME k = 0, Life(s) # "broken"
          PROVE  Ended(s)'
        <2>1. CASE Life(s) = "expired"
            BY <1>1, <1>3, <1>6, <2>1, ExpiryCloses DEF Ended, IInv
        <2>2. CASE Life(s) # "expired"
            <3>1. IsPub(s) \/ Removed(s) \/ ~Here(s)
                <4>1. ~(IsPub(s) \/ Removed(s) \/ ~Here(s)) => Life(s) \in {"broken", "expired", "served"}
                    BY DEF Life, IsPub
                <4>2. QED
                    BY <1>1, <1>2, <1>6, <2>2, <4>1
            <3>2. Ended(s)
                BY <1>5, <3>1, RecFields DEF Ends, Whole, Here
            <3>3. UNCHANGED snaps
                BY <1>3, <2>2
            <3>4. QED
                BY <1>1, <3>2, <3>3 DEF Ended, Buried, Intended, IsPub, Pub, Lapsed, Passed, Superseded, OpenLeases
        <2>3. QED
            BY <2>1, <2>2
    <1>7. gone' \subseteq Snapshots /\ \A x \in Snapshots : x \in gone' \ gone => digest[x] # None /\ Ended(x)'
        BY <1>3, <1>5, <1>6 DEF Names
    <1>8. PICK q : q = Answered(r, keep) /\ q.snap \in {None, request[r].snap}
        BY AnsweredSnap
    <1>9. request'[r].snap \in {None, request[r].snap} /\ \A c \in Clients : c # r => request'[c] = request[c]
        BY <1>3, <1>8 DEF IInv, Shape
    <1>10. QED
        BY <1>1, <1>4, <1>7, <1>9, RequestCloses

\* A request whose snapshot is served records a use of it, or expires it.
LEMMA ServedSteady ==
    ASSUME Shape, NEW s \in Snapshots, Life(s) = "served",
           Superseded(s) => snaps'[s].superseded.seen # 0,
           snaps[s].superseded.disk # 0 /\ Superseded(s) => snaps'[s].superseded.disk # 0,
           Passed(s) => OpenLeases(s)' \subseteq OpenLeases(s)
    PROVE  Steady(s)
    <1>1. ~Lapsed(s)
        BY LifeServed DEF Lapsed
    <1>2. QED
        BY <1>1 DEF Steady, Passed, Superseded

LEMMA AdmitCloses ==
    ASSUME IInv, Names, Ends, NEW r \in Clients, Admit(r) \/ Renew(r)
    PROVE  Names' /\ Ends'
    <1>1. /\ UNCHANGED <<state, history, digest, leases, freezes, worker, deleting, gone>>
          /\ request[r].pc \in {"held", "sending"}
        BY DEF Admit, Renew, Renews, On, clock
    <1>2. PICK s \in Snapshots : s = Snap(r) /\ s = request[r].snap
        BY <1>1, RequestFacts DEF Snap
    <1>3. request[r] \in Requests
        BY RequestFacts
    <1>4. \/ snaps' = snaps
          \/ Life(s) = "served" /\ \E u : snaps' = [snaps EXCEPT ![s].use = u]
        <2>1. CASE Admit(r)
            BY <1>2, <2>1 DEF Admit
        <2>2. CASE Renew(r)
            BY <1>2, <2>2 DEF Renew
        <2>3. QED
            BY <2>1, <2>2
    <1>5. SameSnap(r)
        <2>1. \/ request' = [request EXCEPT ![r].pc = "sending", ![r].renewed = now]
              \/ request' = [request EXCEPT ![r] = Answered(r, TRUE)]
              \/ \E n : request' = [request EXCEPT ![r].renewed = n]
            BY DEF Admit, Renew
        <2>2. CASE request' = [request EXCEPT ![r].pc = "sending", ![r].renewed = now]
            BY <1>3, <2>2 DEF IInv, Shape, Requests, SameSnap
        <2>3. CASE request' = [request EXCEPT ![r] = Answered(r, TRUE)]
            <3>1. PICK q : q = Answered(r, TRUE) /\ q.snap \in {None, request[r].snap}
                BY AnsweredSnap
            <3>2. QED
                BY <2>3, <3>1 DEF IInv, Shape, SameSnap
        <2>4. ASSUME NEW n, request' = [request EXCEPT ![r].renewed = n]
              PROVE  SameSnap(r)
            BY <1>3, <2>4 DEF IInv, Shape, Requests, SameSnap
        <2>5. QED
            BY <2>1, <2>2, <2>3, <2>4
    <1>6. TreesStay /\ \A x \in Snapshots : Steady(x)
        <2>1. CASE snaps' = snaps
            BY <1>1, <2>1, AllSteady
        <2>2. ASSUME Life(s) = "served", NEW u, snaps' = [snaps EXCEPT ![s].use = u]
              PROVE  TreesStay /\ \A x \in Snapshots : Steady(x)
            <3>1. PICK e : e = [snaps[s] EXCEPT !.use = u]
                OBVIOUS
            <3>2. e.superseded = snaps[s].superseded /\ e.tree = snaps[s].tree
                BY <3>1 DEF IInv, Shape, Trees
            <3>3. snaps' = [snaps EXCEPT ![s] = e]
                BY <2>2, <3>1
            <3>4. snaps'[s] = e /\ \A x \in Snapshots : x # s => snaps'[x] = snaps[x]
                BY <3>3 DEF IInv, Shape
            <3>5. OpenLeases(s)' = OpenLeases(s)
                BY <1>1 DEF OpenLeases
            <3>6. Steady(s)
                BY <2>2, <3>2, <3>4, <3>5, ServedSteady DEF Superseded, IInv
            <3>7. QED
                BY <1>1, <3>2, <3>4, <3>6, OneSteady DEF OpenLeases
        <2>3. QED
            BY <1>4, <2>1, <2>2
    <1>7. QED
        BY <1>1, <1>5, <1>6, AskCloses

LEMMA GrantCloses ==
    ASSUME IInv, Names, Ends, NEW r \in Clients, Grant(r)
    PROVE  Names' /\ Ends'
    <1>1. /\ UNCHANGED <<state, history, digest, freezes, worker, deleting>>
          /\ request[r].pc = "held" /\ Life(Snap(r)) = "served"
        BY DEF Grant, On, clock
    <1>2. PICK s \in Snapshots : s = Snap(r) /\ s = request[r].snap /\ Life(s) = "served" /\ digest[s] # None
        BY <1>1, RequestFacts, LifeServed, NamesHere DEF Snap, IInv
    <1>3. PICK k \in 0 .. 3, shown \in BOOLEAN, l \in Leases : Grants(r, s, l, k, shown)
        BY <1>2, GrantTaken
    <1>4. PICK reads \in BOOLEAN, due \in BOOLEAN, keep \in BOOLEAN :
              /\ reads <=> ~(Superseded(s) /\ Unreadable(s))
              /\ due <=> Unleased(s)
              /\ keep <=> ~(reads /\ due /\ k = 0)
        <2>1. PICK reads \in BOOLEAN : reads <=> ~(Superseded(s) /\ Unreadable(s))
            OBVIOUS
        <2>2. PICK due \in BOOLEAN : due <=> Unleased(s)
            OBVIOUS
        <2>3. PICK keep \in BOOLEAN : keep <=> ~(reads /\ due /\ k = 0)
            OBVIOUS
        <2>4. QED
            BY <2>1, <2>2, <2>3
    <1>5. PICK u, p :
              /\ reads /\ due => u = Write(k, shown, 2, snaps[s].use, Expired(s))
              /\ p = IF Superseded(s) THEN CommitMark(s, k, shown, 1) ELSE snaps[s].superseded
              /\ snaps' = [snaps EXCEPT ![s] = [use |-> u, tree |-> @.tree, superseded |-> p]]
        BY <1>3, <1>4 DEF Grants
    <1>6. /\ gone' = IF reads /\ due /\ k = 0 THEN gone \cup {s} ELSE gone
          /\ \/ request' = [request EXCEPT ![r].pc = "sending", ![r].lease = l, ![r].renewed = now]
             \/ request' = [request EXCEPT ![r] = Answered(r, keep)]
        BY <1>3, <1>4 DEF Grants
    <1>7. /\ snaps'[s].use = u /\ snaps'[s].superseded = p /\ snaps'[s].tree = snaps[s].tree
          /\ \A x \in Snapshots : x # s => snaps'[x] = snaps[x]
        BY <1>5 DEF IInv, Shape
    <1>8. /\ \A x \in Snapshots : x # s => OpenLeases(x)' \subseteq OpenLeases(x)
          /\ due => OpenLeases(s)' \subseteq OpenLeases(s)
        <2>1. PICK o, b : /\ o = [snap |-> s, client |-> r, state |-> "open"]
                          /\ b = [snap |-> s, client |-> r, state |-> "broken"]
            OBVIOUS
        <2>2. o.snap = s /\ b.snap = s /\ b.state = "broken"
            BY <2>1
        <2>3. \/ leases' = leases
              \/ leases' = [leases EXCEPT ![l] = b]
              \/ ~due /\ leases' = [leases EXCEPT ![l] = o]
            BY <1>3, <1>4, <2>1 DEF Grants
        <2>4. \A x \in Leases : leases'[x] = leases[x] \/ leases'[x] = b \/ (~due /\ leases'[x] = o)
            BY <2>3 DEF IInv, Shape
        <2>5. QED
            BY <2>2, <2>4 DEF OpenLeases
    <1>9. Superseded(s) => p.seen # 0 /\ (snaps[s].superseded.disk # 0 => p.disk # 0)
        BY <1>5, MarkPasses DEF CommitMark, Superseded, IInv
    <1>10. Passed(s) => due
        BY <1>4 DEF Passed, Unleased
    <1>11. Steady(s)
        BY <1>2, <1>7, <1>8, <1>9, <1>10, ServedSteady DEF IInv
    <1>12. TreesStay /\ \A x \in Snapshots : Steady(x)
        BY <1>7, <1>8, <1>11, OneSteady
    <1>13. reads /\ due /\ k = 0 => Lapsed(s)'
        <2>1. PICK v : v = Expired(s)
            OBVIOUS
        <2>2. snaps[s].use.seen \in Uses
            BY DEF IInv, Shape, Trees
        <2>3. v.state = "expired"
            BY <2>1, <2>2 DEF Expired, Uses
        <2>4. reads /\ due /\ k = 0 => u = Rec(v)
            BY <1>5, <2>1 DEF Write
        <2>5. QED
            BY <1>7, <2>3, <2>4, RecFields DEF Lapsed
    <1>14. gone' \subseteq Snapshots /\ \A x \in Snapshots : x \in gone' \ gone => digest[x] # None /\ Ended(x)'
        BY <1>2, <1>6, <1>13 DEF Names, Ended
    <1>15. SameSnap(r)
        <2>1. PICK z : z = Answered(r, keep) /\ z.snap \in {None, request[r].snap}
            BY AnsweredSnap
        <2>2. request[r] \in Requests
            BY RequestFacts
        <2>3. CASE request' = [request EXCEPT ![r].pc = "sending", ![r].lease = l, ![r].renewed = now]
            BY <2>2, <2>3 DEF IInv, Shape, Requests, SameSnap
        <2>4. CASE request' = [request EXCEPT ![r] = z]
            BY <2>1, <2>4 DEF IInv, Shape, SameSnap
        <2>5. QED
            BY <1>6, <2>1, <2>3, <2>4
    <1>16. QED
        BY <1>1, <1>12, <1>14, <1>15, RequestCloses DEF SameSnap

LEMMA ReleaseCloses ==
    ASSUME IInv, Names, Ends, NEW r \in Clients, ReleaseLease(r)
    PROVE  Names' /\ Ends'
    <1>1. /\ UNCHANGED <<state, history, digest, freezes, worker, deleting, gone>>
          /\ request[r].pc = "done" /\ Life(Snap(r)) = "served"
        BY DEF ReleaseLease, On, clock
    <1>2. PICK s \in Snapshots, l \in Leases : /\ s = Snap(r) /\ l = request[r].lease /\ Life(s) = "served"
                                               /\ leases[l] # None /\ leases[l].client = r
        BY <1>1, RequestFacts DEF Snap
    <1>3. PICK k \in 0 .. 4, shown \in BOOLEAN : Releases(r, s, l, k, shown)
        BY <1>2, ReleaseTaken
    <1>4. PICK u, p :
              /\ p = IF Superseded(s) THEN CommitMark(s, k, shown, 3) ELSE snaps[s].superseded
              /\ snaps' = [snaps EXCEPT ![s] = [use |-> u, tree |-> @.tree, superseded |-> p]]
        BY <1>3 DEF Releases
    <1>5. /\ leases' \in {leases, [leases EXCEPT ![l].state = "released"]}
          /\ \/ request' = [request EXCEPT ![r].pc = "removing"]
             \/ request' = [request EXCEPT ![r] = Quiet]
             \/ request' = [request EXCEPT ![r] = Answered(r, TRUE)]
        BY <1>3 DEF Releases
    <1>6. /\ snaps'[s].superseded = p /\ snaps'[s].tree = snaps[s].tree
          /\ \A x \in Snapshots : x # s => snaps'[x] = snaps[x]
        BY <1>4 DEF IInv, Shape
    <1>7. \A x \in Snapshots : OpenLeases(x)' \subseteq OpenLeases(x)
        <2>1. PICK n : n = [leases[l] EXCEPT !.state = "released"]
            OBVIOUS
        <2>2. n.state = "released"
            BY <1>2, <2>1 DEF IInv, Shape, LeaseRecords
        <2>3. leases' \in {leases, [leases EXCEPT ![l] = n]}
            BY <1>5, <2>1
        <2>4. \A x \in Leases : leases'[x] = leases[x] \/ leases'[x] = n
            BY <2>3 DEF IInv, Shape
        <2>5. QED
            BY <2>2, <2>4 DEF OpenLeases
    <1>8. Superseded(s) => p.seen # 0 /\ (snaps[s].superseded.disk # 0 => p.disk # 0)
        BY <1>4, MarkPasses DEF CommitMark, Superseded, IInv
    <1>9. Steady(s)
        BY <1>2, <1>6, <1>7, <1>8, ServedSteady DEF IInv
    <1>10. TreesStay /\ \A x \in Snapshots : Steady(x)
        BY <1>6, <1>7, <1>9, OneSteady
    <1>11. SameSnap(r)
        <2>1. PICK z : z = Answered(r, TRUE) /\ z.snap \in {None, request[r].snap}
            BY AnsweredSnap
        <2>2. request[r] \in Requests
            BY RequestFacts
        <2>3. CASE request' = [request EXCEPT ![r].pc = "removing"]
            BY <2>2, <2>3 DEF IInv, Shape, Requests, SameSnap
        <2>4. CASE request' = [request EXCEPT ![r] = z]
            BY <2>1, <2>4 DEF IInv, Shape, SameSnap
        <2>5. CASE request' = [request EXCEPT ![r] = Quiet]
            BY <2>5, QuietSnap DEF IInv, Shape, SameSnap
        <2>6. QED
            BY <1>5, <2>1, <2>3, <2>4, <2>5
    <1>12. QED
        BY <1>1, <1>10, <1>11, AskCloses

\* A history written: no tag leaves what it has removed, and a tag is on the disk
\* once the write is made.
LEMMA HistoryGrows ==
    ASSUME Shape, \A d \in Conversations : Grows(d), NEW c \in Conversations,
           NEW h \in Histories, history[c].seen.removed \subseteq h.removed, \A t \in h.removed : t <= h.greatest,
           NEW k \in Nat, NEW shown, NEW at \in Nat,
           history' = [history EXCEPT ![c] = Write(k, shown, at, history[c], h)]
    PROVE  /\ \A d \in Conversations : Grows(d)'
           /\ \A x \in Snapshots : Buried(x) => Buried(x)'
           /\ \A x \in Snapshots : Removed(x) => Removed(x)'
           /\ \A x \in Snapshots : Removed(x)' => Removed(x) \/ (x[1] = c /\ x[2] \in h.removed)
           /\ k = 0 \/ at < k => history'[c].disk = h
           /\ k # 0 /\ k < at => history' = history
    <1>1. PICK w : w = Write(k, shown, at, history[c], h)
        OBVIOUS
    <1>2. history[c] \in [seen : Histories, disk : Histories]
        BY DEF Shape
    <1>3. w = Rec(h) \/ (w.disk = history[c].disk /\ w.seen \in {h, history[c].seen})
        BY <1>1, <1>2, WriteFacts
    <1>4. /\ w.seen = h \/ w.seen = history[c].seen
          /\ w.disk = history[c].disk \/ (w.disk = h /\ w.seen = h)
        BY <1>3, RecFields
    <1>5. k = 0 \/ at < k => w.disk = h
        BY <1>1, RecFields DEF Write
    <1>6. history'[c] = w /\ \A d \in Conversations : d # c => history'[d] = history[d]
        BY <1>1 DEF Shape
    <1>7. \A x \in Snapshots : x[1] \in Conversations
        BY DEF Snapshots
    <1>8. Grows(c)
        OBVIOUS
    <1>9. /\ Grows(c)'
          /\ history[c].disk.removed \subseteq history'[c].disk.removed
          /\ history[c].seen.removed \subseteq history'[c].seen.removed
          /\ history'[c].seen.removed \subseteq h.removed
        BY <1>4, <1>6, <1>8 DEF Grows
    <1>10. \A d \in Conversations : Grows(d)'
        BY <1>6, <1>9 DEF Grows
    <1>11. \A x \in Snapshots : Buried(x) => Buried(x)'
        BY <1>6, <1>7, <1>9 DEF Buried
    <1>12. /\ \A x \in Snapshots : Removed(x) => Removed(x)'
           /\ \A x \in Snapshots : Removed(x)' => Removed(x) \/ (x[1] = c /\ x[2] \in h.removed)
        BY <1>6, <1>7, <1>9 DEF Removed
    <1>13. k # 0 /\ ~(at < k) /\ at # k => history' = history
        BY DEF Write, Shape
    <1>14. k # 0 /\ k < at => history' = history
        <2>1. ASSUME k # 0, k < at PROVE ~(at < k) /\ at # k
            BY <2>1
        <2>2. QED
            BY <1>13, <2>1
    <1>15. QED
        BY <1>5, <1>6, <1>10, <1>11, <1>12, <1>14

\* A tag taken into a history, or given out.
LEMMA TakenGrows ==
    ASSUME Shape, NEW c \in Conversations, Grows(c), NEW t \in Nat
    PROVE  \E h \in Histories :
               /\ h = Taken(history[c].seen, t) /\ h.removed = history[c].seen.removed \cup {t}
               /\ \A u \in h.removed : u <= h.greatest
    <1>1. PICK g \in Histories : g = history[c].seen
        BY DEF Shape
    <1>2. PICK h : h = Taken(g, t)
        OBVIOUS
    <1>3. h \in Histories
        BY <1>2, TagHistories
    <1>4. g.greatest \in Nat /\ g.removed \in SUBSET Nat
        BY DEF Histories
    <1>5. h.removed = g.removed \cup {t} /\ h.greatest = Greatest(g.greatest, t)
        BY <1>2 DEF Taken
    <1>6. h.greatest \in Nat /\ g.greatest <= h.greatest /\ t <= h.greatest
        BY <1>4, <1>5, GreatestFacts
    <1>7. \A u \in g.removed : u \in Nat /\ u <= g.greatest
        BY <1>1, <1>4 DEF Grows
    <1>8. \A u \in h.removed : u <= h.greatest
        BY <1>4, <1>5, <1>6, <1>7
    <1>9. QED
        BY <1>1, <1>2, <1>3, <1>5, <1>8

LEMMA GivenGrows ==
    ASSUME Shape, NEW c \in Conversations, Grows(c), NEW t \in Nat
    PROVE  \E h \in Histories :
               /\ h = Given(history[c].seen, t) /\ h.removed = history[c].seen.removed
               /\ \A u \in h.removed : u <= h.greatest
    <1>1. PICK g \in Histories : g = history[c].seen
        BY DEF Shape
    <1>2. PICK h : h = Given(g, t)
        OBVIOUS
    <1>3. h \in Histories
        BY <1>2, TagHistories
    <1>4. g.greatest \in Nat /\ g.removed \in SUBSET Nat
        BY DEF Histories
    <1>5. h.removed = g.removed /\ h.greatest = Greatest(g.greatest, t)
        BY <1>2 DEF Given, Histories
    <1>6. h.greatest \in Nat /\ g.greatest <= h.greatest
        BY <1>4, <1>5, GreatestFacts
    <1>7. \A u \in g.removed : u \in Nat /\ u <= g.greatest
        BY <1>1, <1>4 DEF Grows
    <1>8. \A u \in h.removed : u <= h.greatest
        BY <1>4, <1>5, <1>6, <1>7
    <1>9. QED
        BY <1>1, <1>2, <1>3, <1>5, <1>8

\* What ended stays so.
Lasting == \A x \in Snapshots : digest[x] # None /\ Ended(x) => Ended(x)'

\* A step after which what ended still is.
LEMMA LastingCloses ==
    ASSUME Names, Ends, Lasting, gone' = gone, \A c \in Conversations : Grows(c)', Whole', Away', Clearing',
           \A f \in Freezes : Intent(f)'
    PROVE  Ends'
    <1>1. \A s \in gone : Ended(s)'
        BY DEF Ends, Names, Lasting
    <1>2. \A s \in Snapshots : s \in gone' => Ended(s)'
        BY <1>1
    <1>3. \A s \in Snapshots :
              digest'[s] # None /\ (Removed(s)' \/ snaps'[s].tree # Rec("here") \/ IsPub(s)') => Ended(s)'
        BY DEF Whole
    <1>4. QED
        BY <1>1, <1>3 DEF Ends, Whole

\* A step that leaves the uses, the supersessions and the leases.
LEMMA LastingFacts ==
    ASSUME \A x \in Snapshots : Buried(x) => Buried(x)',
           \A x \in Snapshots : digest[x] # None /\ Intended(x) => Intended(x)' \/ Buried(x)',
           \A x \in Snapshots : digest[x] # None => Steady(x) \/ Buried(x)'
    PROVE  Lasting
    BY DEF Lasting, Ended, Steady

LEMMA ReserveCloses ==
    ASSUME IInv, Names, Ends, NEW f \in Freezes, Reserve(f)
    PROVE  Names' /\ Ends'
    <1>1. /\ UNCHANGED <<snaps, digest, leases, freezes, request, deleting, gone>>
          /\ worker[f].pc = "reserve" /\ Pub = None
        BY DEF Reserve, At, clock, locks
    <1>2. ConvOf(f) \in Conversations /\ worker[f] \in Builds
        BY <1>1 DEF IInv, Crew, CrewOf, Jobs, ConvOf, Shape
    <1>3. PICK c \in Conversations, tag \in Tags : c = ConvOf(f) /\ tag = NextTag(c)
        BY <1>2 DEF Reserve
    <1>4. /\ tag \in Nat /\ state.seen.greatest < tag /\ state.disk.greatest < tag
          /\ digest[<<c, tag>>] = None /\ <<c, tag>> \in Snapshots
        BY <1>3, NextTagNew DEF IInv
    <1>5. PICK p, v : p = [conv |-> c, build |-> f, tag |-> tag, digest |-> worker[f].ver]
              /\ v = [greatest |-> tag, pub |-> p]
        OBVIOUS
    <1>6. p \in Publications /\ p.conv = c /\ p.tag = tag /\ p.build = f
        BY <1>2, <1>5 DEF Publications, Builds
    <1>7. v \in States /\ v.greatest = tag /\ v.pub = p
        BY <1>4, <1>5, <1>6 DEF States
    <1>8. PICK k \in 0 .. 2, shown \in BOOLEAN :
              /\ state' = Write(k, shown, 1, state, v)
              /\ history' = [history EXCEPT ![c] = Write(k, shown, 2, @, Given(@.seen, tag))]
              /\ worker' = [worker EXCEPT ![f].pc = IF k = 0 THEN "finish" ELSE "failed", ![f].tag = tag]
        BY <1>3, <1>5 DEF Reserve
    <1>9. Pub' \in {p, None} /\ (k = 0 => Pub' = p /\ state'.disk.pub = p)
        <2>1. state.seen.greatest <= v.greatest
            BY <1>4, <1>7 DEF IInv, Shape, States
        <2>2. Pub' \in {p, Pub} /\ (k = 0 => state' = Rec(v))
            BY <1>7, <1>8, <2>1, StateWritten DEF IInv
        <2>3. QED
            BY <1>1, <1>7, <2>2, RecFields DEF Pub
    <1>10. PICK h \in Histories : /\ h = Given(history[c].seen, tag) /\ h.removed = history[c].seen.removed
                                  /\ \A u \in h.removed : u <= h.greatest
        BY <1>4, GivenGrows DEF Ends, IInv
    <1>11. history' = [history EXCEPT ![c] = Write(k, shown, 2, history[c], h)]
        BY <1>8, <1>10
    <1>12. /\ \A d \in Conversations : Grows(d)'
           /\ \A x \in Snapshots : Buried(x) => Buried(x)'
           /\ \A x \in Snapshots : Removed(x)' => Removed(x)
        <2>0. /\ Shape /\ (\A d \in Conversations : Grows(d)) /\ history[c].seen.removed \subseteq h.removed
              /\ k \in Nat /\ 2 \in Nat
            BY <1>10 DEF Ends, IInv
        <2>1. /\ \A d \in Conversations : Grows(d)'
              /\ \A x \in Snapshots : Buried(x) => Buried(x)'
              /\ \A x \in Snapshots : Removed(x)' => Removed(x) \/ (x[1] = c /\ x[2] \in h.removed)
            BY <1>10, <1>11, <2>0, HistoryGrows
        <2>2. QED
            BY <1>10, <2>1 DEF Removed
    <1>13. /\ worker'[f].pc = (IF k = 0 THEN "finish" ELSE "failed")
           /\ worker'[f].tag = tag /\ \A g \in Freezes : g # f => worker'[g] = worker[g]
        <2> DEFINE pc == IF k = 0 THEN "finish" ELSE "failed"
        <2>1. PICK w : w = [worker[f] EXCEPT !.pc = pc, !.tag = tag]
            OBVIOUS
        <2>2. worker' = [worker EXCEPT ![f] = w]
            BY <1>8, <2>1
        <2> HIDE DEF pc
        <2>3. w.pc = pc /\ w.tag = tag
            BY <1>2, <2>1 DEF Builds
        <2>4. worker'[f] = w /\ \A g \in Freezes : g # f => worker'[g] = worker[g]
            BY <2>2 DEF IInv, Shape
        <2>5. QED
            BY <2>3, <2>4 DEF pc
    <1>14. TreesStay /\ \A x \in Snapshots : Steady(x)
        BY <1>1, AllSteady
    <1>15. Lasting
        BY <1>1, <1>12, <1>14, LastingFacts DEF Intended, IsPub
    <1>16. ASSUME NEW x \in Snapshots, IsPub(x)' PROVE digest[x] = None
        <2>1. x[1] = c /\ x[2] = tag
            BY <1>6, <1>9, <1>16 DEF IsPub
        <2>2. x = <<c, tag>>
            BY <2>1 DEF Snapshots
        <2>3. QED
            BY <1>4, <2>2
    <1>17. Whole'
        <2>1. ASSUME NEW x \in Snapshots, digest[x] # None, Removed(x)' \/ snaps[x].tree # Rec("here")
              PROVE  Ended(x)'
            <3>1. Ended(x)
                BY <1>12, <2>1 DEF Ends, Whole
            <3>2. QED
                BY <1>15, <2>1, <3>1 DEF Lasting
        <2>2. QED
            BY <1>1, <1>16, <2>1 DEF Whole
    <1>18. Away' /\ Clearing'
        <2>1. Away'
            BY <1>1, <1>12 DEF Ends, Away
        <2>2. ASSUME NEW a \in Actors, deleting[a] # None, deleting[a].pub # None
              PROVE  Buried(<<deleting[a].pub.conv, deleting[a].pub.tag>>)'
            BY <1>1, <2>2, SettledFacts DEF IInv
        <2>3. QED
            BY <1>1, <2>1, <2>2 DEF Clearing
    <1>19. ASSUME NEW g \in Freezes, Publishes(g)'
           PROVE  /\ ~Removed(<<ConvOf(g), worker[g].tag>>)'
                  /\ Pub' # None /\ (Pub'.build = g \/ IsPub(<<ConvOf(g), worker[g].tag>>)') =>
                        Pub'.build = g /\ state'.disk.pub = Pub'
        <2>1. CASE g = f
            <3>1. k = 0 /\ <<ConvOf(g), worker[g].tag>>' = <<c, tag>>
                BY <1>1, <1>3, <1>13, <1>19, <2>1 DEF Publishes, ConvOf
            <3>2. ~Removed(<<c, tag>>)
                <4>1. Grows(c) /\ history[c].seen.greatest \in Nat /\ state.seen.greatest \in Nat
                    BY DEF Ends, IInv, Shape, Histories, States
                <4>2. history[c].seen.greatest < tag
                    <5> DEFINE m == Greatest(state.seen.greatest, history[c].seen.greatest)
                    <5>1. m \in Nat /\ history[c].seen.greatest <= m
                        BY <4>1, GreatestFacts
                    <5>2. tag = m + 1
                        BY <1>3 DEF NextTag
                    <5> HIDE DEF m
                    <5>3. QED
                        BY <1>4, <4>1, <5>1, <5>2
                <4>3. tag \notin history[c].seen.removed
                    BY <1>4, <4>1, <4>2 DEF Grows
                <4>4. QED
                    BY <4>3 DEF Removed
            <3>3. ~Removed(<<c, tag>>)'
                BY <1>4, <1>12, <3>2
            <3>4. ~Removed(<<ConvOf(g), worker[g].tag>>)'
                BY <3>1, <3>3 DEF Removed
            <3>5. QED
                BY <1>6, <1>9, <2>1, <3>1, <3>4
        <2>2. CASE g # f
            <3>0. Publishes(g) /\ worker'[g].tag = worker[g].tag /\ CrewOf(g)
                BY <1>13, <1>19, <2>2 DEF Publishes, IInv, Crew
            <3>1. worker[g].tag \in Tags /\ ConvOf(g) \in Conversations
                BY <3>0 DEF Publishes, CrewOf, Jobs, ConvOf
            <3>2. PICK x \in Snapshots : x = <<ConvOf(g), worker[g].tag>> /\ x[2] = worker[g].tag
                <4>1. <<ConvOf(g), worker[g].tag>> \in Snapshots
                    BY <3>1 DEF Snapshots
                <4>2. QED
                    BY <4>1
            <3>3. <<ConvOf(g), worker[g].tag>>' = x
                BY <1>1, <3>0, <3>2 DEF ConvOf
            <3>4. ~Removed(x)'
                BY <1>12, <3>0, <3>2 DEF Ends, Intent
            <3>5. worker[g].tag <= state.disk.greatest /\ state.disk.greatest \in Nat /\ worker[g].tag \in Nat
                BY <3>0 DEF IInv, Numbers, Shape, States, Builds
            <3>6. worker[g].tag # tag
                BY <1>4, <3>5
            <3>7. ~IsPub(x)' /\ (Pub' # None => Pub'.build # g)
                BY <1>6, <1>9, <2>2, <3>2, <3>6 DEF IsPub
            <3>8. QED
                BY <3>3, <3>4, <3>7 DEF Removed, IsPub
        <2>3. QED
            BY <2>1, <2>2
    <1>20. \A g \in Freezes : Intent(g)'
        BY <1>19 DEF Intent
    <1>21. Ends'
        BY <1>1, <1>12, <1>15, <1>17, <1>18, <1>20, LastingCloses
    <1>22. \A g \in Freezes : NamesOf(g)'
        BY <1>1, <1>13 DEF Names, NamesOf, ConvOf
    <1>23. Names'
        BY <1>1, <1>22 DEF Names, Asks
    <1>24. QED
        BY <1>21, <1>23

LEMMA PublishIntent ==
    ASSUME IInv, Ends, NEW f \in Freezes, Publish(f)
    PROVE  /\ Pub # None /\ Pub.conv = ConvOf(f) /\ Pub.tag = worker[f].tag /\ Pub.build = f
           /\ state.disk.pub = Pub /\ ~Removed(<<ConvOf(f), worker[f].tag>>)
    <1>1. /\ ConvOf(f) \in Conversations /\ worker[f].tag \in Tags /\ worker[f] \in Builds /\ Publishes(f)
        BY PublishFacts
    <1>2. PICK p : p = [conv |-> ConvOf(f), build |-> f, tag |-> worker[f].tag, digest |-> worker[f].ver]
        OBVIOUS
    <1>3. p \in Publications /\ p.conv = ConvOf(f) /\ p.tag = worker[f].tag /\ p.build = f
        BY <1>1, <1>2 DEF Publications, Builds
    <1>4. Pub = p /\ Pub # None
        BY <1>2, <1>3, PullNames DEF Publish
    <1>5. QED
        BY <1>1, <1>3, <1>4 DEF Ends, Intent

\* A publication's last write is the state's.
LEMMA PublishedState ==
    ASSUME Shape, NEW t \in Nat, NEW k \in Nat, k <= t + 2, NEW shown,
           state' = Write(k, shown, t + 2, state, [state.seen EXCEPT !.pub = None])
    PROVE  \/ state' = state
           \/ Pub' = None /\ (k = 0 \/ k = t + 2)
    <1>1. PICK v : v = [state.seen EXCEPT !.pub = None]
        OBVIOUS
    <1>2. v.pub = None /\ state \in [seen : States, disk : States]
        <2>1. state.seen \in States
            BY DEF Shape
        <2>2. v.pub = None
            BY <1>1, <2>1 DEF States
        <2>3. QED
            BY <2>2 DEF Shape
    <1>3. ~(t + 2 < k)
        OBVIOUS
    <1>4. CASE k = 0
        BY <1>1, <1>2, <1>4, RecFields DEF Write, Pub
    <1>5. CASE k # 0 /\ k # t + 2
        BY <1>3, <1>5 DEF Write
    <1>6. CASE k # 0 /\ k = t + 2
        <2>1. PICK w : w = [state EXCEPT !.seen = v]
            OBVIOUS
        <2>2. w.seen = v
            BY <1>2, <2>1
        <2>3. state' \in {w, state}
            BY <1>1, <1>3, <1>6, <2>1 DEF Write
        <2>4. QED
            BY <1>2, <1>6, <2>2, <2>3 DEF Pub
    <1>7. QED
        BY <1>4, <1>5, <1>6

LEMMA PublishCloses ==
    ASSUME IInv, Names, Ends, NEW f \in Freezes, Publish(f)
    PROVE  Names' /\ Ends'
    <1>1. /\ worker[f].pc = "publish" /\ ConvOf(f) \in Conversations /\ worker[f].tag \in Tags /\ worker[f] \in Builds
          /\ <<ConvOf(f), worker[f].tag>> \in Snapshots /\ digest[<<ConvOf(f), worker[f].tag>>] = None
          /\ Publishes(f) /\ \A a \in Actors : deleting[a] = None \/ deleting[a].pub = None
        BY PublishFacts
    <1>2. UNCHANGED <<history, leases, freezes, request, deleting, gone>>
        BY DEF Publish, clock, locks
    <1>3. PICK c \in Conversations, t \in Tags, ss \in Snapshots :
              c = ConvOf(f) /\ t = worker[f].tag /\ ss = <<c, t>> /\ ss[1] = c /\ ss[2] = t
        BY <1>1
    <1>4. PICK k \in {0} \cup 1 .. t + 2, shown \in BOOLEAN :
              /\ snaps' = [s \in Snapshots |->
                    IF s = <<c, t>>
                    THEN [snaps[s] EXCEPT !.tree = Write(k, shown, 1, @, "here"),
                        !.use = Write(k, shown, t + 1, @, Use(now))]
                    ELSE IF s[1] = c /\ s[2] < t /\ Here(<<c, s[2]>>)
                    THEN [snaps[s] EXCEPT !.superseded = Write(k, shown, 1 + s[2], @,
                             IF snaps[<<c, s[2]>>].superseded.seen = 0 THEN t ELSE snaps[<<c, s[2]>>].superseded.seen)]
                    ELSE snaps[s]]
              /\ digest' = IF k = 1 /\ ~shown THEN digest ELSE [digest EXCEPT ![<<c, t>>] = worker[f].ver]
              /\ state' = Write(k, shown, t + 2, state, [state.seen EXCEPT !.pub = None])
              /\ Step(f, IF k = 0 THEN "ready" ELSE "failed")
        <2>1. PICK k \in {0} \cup 1 .. worker[f].tag + 2, shown \in BOOLEAN : Publishing(f, k, shown)
            BY PublishTaken
        <2>2. QED
            BY <1>3, <2>1 DEF Publishing
    <1>5. t \in Nat \ {0} /\ k \in Nat /\ k <= t + 2 /\ worker[f].ver \in Nat
        BY <1>1, PullBounds DEF Tags, Builds
    <1>6. state' = state \/ (Pub' = None /\ (k = 0 \/ k = t + 2))
        BY <1>4, <1>5, PublishedState DEF IInv
    <1>7. /\ Pub # None /\ Pub.conv = c /\ Pub.tag = t /\ Pub.build = f /\ state.disk.pub = Pub /\ ~Removed(ss)
          /\ IsPub(ss)
        BY <1>3, PublishIntent DEF IsPub
    <1>8. /\ k = 0 \/ 1 < k => snaps'[ss].tree = Rec("here")
          /\ \/ snaps'[ss].tree = Rec("here")
             \/ snaps'[ss].tree.disk = "none" /\ snaps'[ss].tree.seen \in {"none", "here"}
          /\ k = 1 /\ ~shown => snaps'[ss].tree = Rec("none")
        <2>1. PICK old \in [seen : Places, disk : Places] : old = snaps[ss].tree /\ old = Rec("none")
            BY <1>1, <1>3 DEF Names, IInv, Shape, Trees
        <2>2. PICK w, u : w = Write(k, shown, 1, old, "here") /\ u = Write(k, shown, t + 1, snaps[ss].use, Use(now))
            OBVIOUS
        <2>3. PICK e : e = [snaps[ss] EXCEPT !.tree = w, !.use = u]
            OBVIOUS
        <2>4. e.tree = w
            BY <2>3 DEF IInv, Shape, Trees
        <2>5. snaps'[ss] = e
            BY <1>3, <1>4, <2>1, <2>2, <2>3
        <2>6. k = 0 \/ 1 < k => w = Rec("here")
            BY <2>2 DEF Write
        <2>7. w = Rec("here") \/ (w.disk = old.disk /\ w.seen \in {"here", old.seen})
            <3>1. "here" \in Places
                BY DEF Places
            <3>2. QED
                BY <2>2, <3>1, WriteFacts
        <2>8. k = 1 /\ ~shown => w = old
            BY <2>2 DEF Write
        <2>9. QED
            BY <2>1, <2>4, <2>5, <2>6, <2>7, <2>8, RecFields
    <1>9. ASSUME NEW s \in Snapshots, s # ss
          PROVE  snaps'[s].tree = snaps[s].tree /\ Steady(s)
        <2>1. snaps[s] \in Trees /\ s[2] \in Tags /\ <<c, s[2]>> \in Snapshots
            BY DEF IInv, Shape, Snapshots
        <2>2. PICK v : v = IF snaps[<<c, s[2]>>].superseded.seen = 0 THEN t ELSE snaps[<<c, s[2]>>].superseded.seen
            OBVIOUS
        <2>3. v # 0
            BY <1>5, <2>2
        <2>4. PICK m : m = Write(k, shown, 1 + s[2], snaps[s].superseded, v)
            OBVIOUS
        <2>5. (Superseded(s) => m.seen # 0) /\ (snaps[s].superseded.disk # 0 => m.disk # 0)
            BY <2>3, <2>4, MarkPasses DEF IInv
        <2>6. snaps'[s] \in {[snaps[s] EXCEPT !.superseded = m], snaps[s]}
            BY <1>3, <1>4, <1>9, <2>2, <2>4
        <2>7. ASSUME NEW r, r = [snaps[s] EXCEPT !.superseded = m]
              PROVE  r.tree = snaps[s].tree /\ r.use = snaps[s].use /\ r.superseded = m
            BY <2>1, <2>7 DEF Trees
        <2>8. /\ snaps'[s].tree = snaps[s].tree /\ snaps'[s].use = snaps[s].use
              /\ snaps'[s].superseded \in {m, snaps[s].superseded}
            BY <2>6, <2>7
        <2>9. OpenLeases(s)' = OpenLeases(s)
            BY <1>2 DEF OpenLeases
        <2>10. QED
            BY <2>5, <2>8, <2>9 DEF Steady, Lapsed, Passed, Superseded
    <1>10. /\ \A s \in Snapshots : s # ss => digest'[s] = digest[s]
           /\ \A s \in Snapshots : digest[s] # None => s # ss
           /\ ~(k = 1 /\ ~shown) => digest'[ss] # None
           /\ \A s \in Snapshots : digest[s] # None => digest'[s] # None
        <2>1. worker[f].ver # None
            BY <1>5, PullNames
        <2>2. QED
            BY <1>1, <1>3, <1>4, <2>1 DEF IInv, Shape
    <1>11. /\ worker'[f].pc = (IF k = 0 THEN "ready" ELSE "failed") /\ worker'[f].tag = t
           /\ \A g \in Freezes : g # f => worker'[g] = worker[g]
        <2>1. PICK pc \in {"ready", "failed"} : Step(f, pc) /\ pc = (IF k = 0 THEN "ready" ELSE "failed")
            BY <1>4
        <2>2. QED
            BY <1>3, <2>1, StepFacts DEF WorkerPCs, IInv
    <1>12. /\ \A x : Buried(x)' <=> Buried(x)
           /\ \A x : Removed(x)' <=> Removed(x)
           /\ \A x : IsPub(x)' => IsPub(x)
           /\ \A x \in Snapshots : IsPub(x) => x = ss
        BY <1>2, <1>3, <1>6, <1>7 DEF Buried, Removed, IsPub, Pub, Snapshots
    <1>13. Lasting
        <2>1. \A x \in Snapshots : digest[x] # None /\ Intended(x) => Intended(x)' \/ Buried(x)'
            BY <1>10, <1>12 DEF Intended
        <2>2. \A x \in Snapshots : digest[x] # None => Steady(x) \/ Buried(x)'
            BY <1>9, <1>10
        <2>3. QED
            BY <1>12, <2>1, <2>2, LastingFacts
    <1>14. Whole'
        <2>1. ASSUME NEW x \in Snapshots, x # ss, digest'[x] # None,
                     Removed(x)' \/ snaps'[x].tree # Rec("here") \/ IsPub(x)'
              PROVE  Ended(x)'
            <3>1. digest[x] # None /\ (Removed(x) \/ snaps[x].tree # Rec("here") \/ IsPub(x))
                BY <1>9, <1>10, <1>12, <2>1
            <3>2. QED
                BY <1>13, <3>1 DEF Ends, Whole, Lasting
        <2>2. ASSUME Removed(ss)' \/ snaps'[ss].tree # Rec("here") \/ IsPub(ss)'
              PROVE  Ended(ss)'
            <3>1. CASE state' = state
                BY <1>7, <3>1 DEF Ended, Intended, IsPub, Pub
            <3>2. CASE Pub' = None /\ (k = 0 \/ k = t + 2)
                <4>1. k = 0 \/ 1 < k
                    BY <1>5, <3>2
                <4>2. QED
                    BY <1>7, <1>8, <1>12, <2>2, <3>2, <4>1 DEF IsPub
            <3>3. QED
                BY <1>6, <3>1, <3>2
        <2>3. QED
            BY <2>1, <2>2 DEF Whole
    <1>15. Away' /\ Clearing'
        <2>1. ASSUME NEW x \in Snapshots, "moved" \in {snaps'[x].tree.seen, snaps'[x].tree.disk}
              PROVE  Buried(x)'
            <3>1. x # ss
                BY <1>8, <2>1, RecFields
            <3>2. QED
                BY <1>9, <1>12, <2>1, <3>1 DEF Ends, Away
        <2>2. QED
            BY <1>1, <1>2, <2>1 DEF Away, Clearing
    <1>16. ASSUME NEW g \in Freezes, Publishes(g)'
           PROVE  Intent(g)'
        <2>1. g # f /\ Publishes(g) /\ worker'[g] = worker[g]
            BY <1>11, <1>16 DEF Publishes
        <2>2. PICK x : x = <<ConvOf(g), worker[g].tag>>
            OBVIOUS
        <2>3. <<ConvOf(g), worker[g].tag>>' = x
            BY <1>2, <2>1, <2>2 DEF ConvOf
        <2>4. ~Removed(x) /\ Pub.build # g /\ ~IsPub(x)
            BY <1>7, <2>1, <2>2 DEF Ends, Intent
        <2>5. ~Removed(x)' /\ ~IsPub(x)' /\ (Pub' # None => Pub'.build # g)
            BY <1>6, <1>12, <2>4 DEF Pub
        <2>6. QED
            BY <2>3, <2>5 DEF Intent, Removed, IsPub
    <1>17. \A g \in Freezes : Intent(g)'
        BY <1>16 DEF Intent
    <1>18. \A d \in Conversations : Grows(d)'
        BY <1>2 DEF Ends, Grows
    <1>19. Ends'
        BY <1>2, <1>13, <1>14, <1>15, <1>17, <1>18, LastingCloses
    <1>20. ASSUME NEW g \in Freezes
           PROVE  NamesOf(g)'
        <2>1. ASSUME freezes[g] # None, freezes[g].state = "ready"
              PROVE  digest'[<<freezes[g].conv, freezes[g].snapshot>>] # None
            <3>1. freezes[g] \in Jobs /\ freezes[g].snapshot \in Tags
                BY <2>1 DEF IInv, Shape, Crew, CrewOf
            <3>2. <<freezes[g].conv, freezes[g].snapshot>> \in Snapshots
                BY <3>1 DEF Jobs, Snapshots
            <3>3. QED
                BY <1>10, <2>1, <3>2 DEF Names, NamesOf
        <2>2. ASSUME worker'[g].pc \in {"check", "ready"}
              PROVE  digest'[<<ConvOf(g), worker'[g].tag>>] # None
            <3>1. CASE g = f
                BY <1>3, <1>10, <1>11, <2>2, <3>1
            <3>2. CASE g # f
                <4>1. worker'[g] = worker[g] /\ CrewOf(g)
                    BY <1>11, <3>2 DEF IInv, Crew
                <4>2. freezes[g] \in Jobs /\ worker[g].tag \in Tags
                    BY <2>2, <4>1 DEF CrewOf
                <4>3. <<ConvOf(g), worker[g].tag>> \in Snapshots
                    BY <4>2 DEF Jobs, Snapshots, ConvOf
                <4>4. QED
                    BY <1>10, <2>2, <4>1, <4>3 DEF Names, NamesOf
            <3>3. QED
                BY <3>1, <3>2
        <2>3. QED
            BY <1>2, <2>1, <2>2 DEF NamesOf, ConvOf
    <1>21. \A s \in Snapshots : digest'[s] = None => snaps'[s].tree = Rec("none")
        BY <1>8, <1>9, <1>10 DEF Names
    <1>22. (\A r \in Clients : Asks(r)') /\ \A s \in gone' : s \in Snapshots
        BY <1>2, <1>10, RequestFacts DEF Names, Asks
    <1>23. Names'
        BY <1>2, <1>10, <1>20, <1>21, <1>22 DEF Names
    <1>24. QED
        BY <1>19, <1>23

\* A step that publishes nothing, and after which a worker may have failed.
LEMMA NamesStay ==
    ASSUME Names, UNCHANGED <<digest, freezes, gone>>, NEW a \in Actors,
           \A g \in Freezes : g # a => worker'[g] = worker[g],
           a \in Freezes => worker'[a].pc \in {"failed", worker[a].pc} /\ worker'[a].tag = worker[a].tag,
           \A s \in Snapshots : digest[s] = None => snaps'[s].tree = snaps[s].tree,
           \A r \in Clients : Asks(r)'
    PROVE  Names'
    <1>1. ASSUME NEW g \in Freezes PROVE NamesOf(g)'
        <2>1. worker'[g].pc \in {"failed", worker[g].pc} /\ worker'[g].tag = worker[g].tag
            OBVIOUS
        <2>2. NamesOf(g)
            BY DEF Names
        <2>3. QED
            BY <2>1, <2>2 DEF NamesOf, ConvOf
    <1>2. QED
        BY <1>1 DEF Names

\* A publication at work, in a step that makes no intent and removes none of its tags.
LEMMA IntentStays ==
    ASSUME Ends, UNCHANGED freezes, NEW a \in Actors,
           \A g \in Freezes : g # a => worker'[g] = worker[g],
           a \in Freezes => worker'[a].pc \in {"failed", worker[a].pc} /\ worker'[a].tag = worker[a].tag,
           Pub' = None \/ state' = state, NEW s,
           \A x \in Snapshots : Removed(x)' => Removed(x) \/ x = s,
           \A g \in Freezes : Publishes(g) => <<ConvOf(g), worker[g].tag>> \in Snapshots \ {s}
    PROVE  \A g \in Freezes : Intent(g)'
    <1>1. ASSUME NEW g \in Freezes, Publishes(g)'
          PROVE  Intent(g)'
        <2>1. worker'[g].pc \in {"failed", worker[g].pc} /\ worker'[g].tag = worker[g].tag
            OBVIOUS
        <2>2. Publishes(g)
            BY <1>1, <2>1 DEF Publishes
        <2>3. PICK x \in Snapshots : x = <<ConvOf(g), worker[g].tag>> /\ x # s
            BY <2>2
        <2>4. <<ConvOf(g), worker[g].tag>>' = x
            BY <2>1, <2>3 DEF ConvOf
        <2>5. ~Removed(x) /\ (Pub # None /\ (Pub.build = g \/ IsPub(x)) => Pub.build = g /\ state.disk.pub = Pub)
            BY <2>2, <2>3 DEF Ends, Intent
        <2>6. ~Removed(x)'
            BY <2>3, <2>5
        <2>7. QED
            BY <2>4, <2>5, <2>6 DEF Intent, IsPub, Removed, Pub
    <1>2. QED
        BY <1>1 DEF Intent

LEMMA PublishingSnap ==
    ASSUME IInv, NEW g \in Freezes, Publishes(g)
    PROVE  <<ConvOf(g), worker[g].tag>> \in Snapshots /\ digest[<<ConvOf(g), worker[g].tag>>] = None
    <1>1. CrewOf(g)
        BY DEF IInv, Crew
    <1>2. worker[g].tag \in Tags /\ ConvOf(g) \in Conversations
        BY <1>1 DEF Publishes, CrewOf, Jobs, ConvOf
    <1>3. QED
        BY <1>2 DEF Snapshots, IInv, Numbers

LEMMA DiscardCloses ==
    ASSUME IInv, Names, Ends, NEW a \in Freezes \cup {Sweeper}, Discard(a)
    PROVE  Names' /\ Ends'
    <1>1. UNCHANGED <<state, digest, leases, freezes, request, gone>>
        BY DEF Discard, clock
    <1>2. /\ deleting[a] = None /\ Pub # None /\ Pub \in Publications /\ Pub.build \in Freezes
          /\ <<Pub.conv, Pub.tag>> \in Snapshots
          /\ \A b \in Actors : deleting[b] = None \/ deleting[b].pub = None
          /\ owner[Pub.build] = a \/ worker[Pub.build].pc = "idle"
          /\ a \in Freezes => worker[a].pc = IF Pub.build = a THEN "settle" ELSE "reserve"
          /\ a \in Actors
        BY DiscardFacts, NamesApart
    <1>3. PICK p \in Publications, s \in Snapshots : p = Pub /\ s = <<p.conv, p.tag>> /\ s[1] = p.conv /\ s[2] = p.tag
        BY <1>2
    <1>4. p.conv \in Conversations /\ p.tag \in Nat /\ p.build \in Freezes /\ p # None /\ IsPub(s)
        BY <1>2, <1>3 DEF Publications, Tags, IsPub
    <1>5. PICK k \in 0 .. 2, shown \in BOOLEAN :
              /\ history' = [history EXCEPT ![p.conv] = Write(k, shown, 1, @, Taken(@.seen, p.tag))]
              /\ snaps' = IF Here(s) THEN [snaps EXCEPT ![s].tree = Write(k, shown, 2, @, "moved")] ELSE snaps
              /\ deleting' = IF k = 0 THEN [deleting EXCEPT ![a] = [snap |-> s, next |-> "clear", pub |-> p]]
                   ELSE deleting
              /\ worker' = IF k # 0 /\ a \in Freezes THEN [worker EXCEPT ![a].pc = "failed"] ELSE worker
        BY <1>3 DEF Discard
    <1>6. /\ \A g \in Freezes : g # a => worker'[g] = worker[g]
          /\ a \in Freezes => worker'[a].pc \in {"failed", worker[a].pc} /\ worker'[a].tag = worker[a].tag
        <2>1. PICK fails \in BOOLEAN : fails <=> k # 0
            OBVIOUS
        <2>2. worker' = IF fails /\ a \in Freezes THEN [worker EXCEPT ![a].pc = "failed"] ELSE worker
            BY <1>5, <2>1
        <2>3. QED
            BY <1>2, <2>2, FailedWorker DEF IInv
    <1>7. PICK h \in Histories : /\ h = Taken(history[p.conv].seen, p.tag)
                                 /\ h.removed = history[p.conv].seen.removed \cup {p.tag}
                                 /\ \A u \in h.removed : u <= h.greatest
        BY <1>4, TakenGrows DEF Ends, IInv
    <1>8. /\ \A d \in Conversations : Grows(d)'
          /\ \A x \in Snapshots : Buried(x) => Buried(x)'
          /\ \A x \in Snapshots : Removed(x)' => Removed(x) \/ x = s
          /\ k # 1 => Buried(s)'
        <2>0. PICK c \in Conversations : c = p.conv
            BY <1>4
        <2>1. /\ Shape /\ (\A d \in Conversations : Grows(d)) /\ history[c].seen.removed \subseteq h.removed
              /\ (\A u \in h.removed : u <= h.greatest) /\ k \in Nat /\ 1 \in Nat
            BY <1>7, <2>0 DEF Ends, IInv
        <2>2. history' = [history EXCEPT ![c] = Write(k, shown, 1, history[c], h)]
            BY <1>5, <1>7, <2>0
        <2>3. /\ \A d \in Conversations : Grows(d)'
              /\ \A x \in Snapshots : Buried(x) => Buried(x)'
              /\ \A x \in Snapshots : Removed(x)' => Removed(x) \/ (x[1] = c /\ x[2] \in h.removed)
              /\ k = 0 \/ 1 < k => history'[c].disk = h
            BY <2>1, <2>2, HistoryGrows
        <2>4. \A x \in Snapshots : x[1] = c /\ x[2] \in h.removed => Removed(x) \/ x = s
            BY <1>3, <1>7, <2>0 DEF Removed, Snapshots
        <2>5. k # 1 => k = 0 \/ 1 < k
            OBVIOUS
        <2>6. p.tag \in h.removed
            BY <1>7
        <2>7. QED
            BY <1>3, <2>0, <2>3, <2>4, <2>5, <2>6 DEF Buried
    <1>9. /\ \A x \in Snapshots : x # s => snaps'[x] = snaps[x]
          /\ snaps'[s].use = snaps[s].use /\ snaps'[s].superseded = snaps[s].superseded
          /\ snaps'[s].tree = snaps[s].tree \/ (Here(s) /\ k # 1)
        <2>1. CASE Here(s)
            <3>1. PICK w : w = Write(k, shown, 2, snaps[s].tree, "moved")
                OBVIOUS
            <3>2. PICK e : e = [snaps[s] EXCEPT !.tree = w]
                OBVIOUS
            <3>3. snaps' = [snaps EXCEPT ![s] = e]
                BY <1>5, <2>1, <3>1, <3>2
            <3>4. e.tree = w /\ e.use = snaps[s].use /\ e.superseded = snaps[s].superseded
                BY <3>2 DEF IInv, Shape, Trees
            <3>5. k = 1 => w = snaps[s].tree
                BY <3>1 DEF Write
            <3>6. QED
                BY <2>1, <3>3, <3>4, <3>5 DEF IInv, Shape
        <2>2. QED
            BY <1>5, <2>1
    <1>10. /\ \A b \in Actors : b # a => deleting'[b] = deleting[b]
           /\ deleting'[a] = None \/ (k = 0 /\ deleting'[a].pub = p)
        BY <1>2, <1>5 DEF IInv, Shape
    <1>11. Lasting
        <2>1. \A x \in Snapshots : Steady(x)
            BY <1>1, <1>9, SteadyKept DEF OpenLeases
        <2>2. \A x \in Snapshots : Intended(x) => Intended(x)'
            BY <1>1 DEF Intended, IsPub, Pub
        <2>3. QED
            BY <1>8, <2>1, <2>2, LastingFacts
    <1>12. Whole'
        <2>1. ASSUME NEW x \in Snapshots, digest[x] # None, Removed(x)' \/ snaps'[x].tree # Rec("here") \/ IsPub(x)'
              PROVE  Removed(x) \/ snaps[x].tree # Rec("here") \/ IsPub(x)
            BY <1>1, <1>4, <1>8, <1>9, <2>1 DEF IsPub, Pub
        <2>2. QED
            BY <1>1, <1>11, <2>1 DEF Ends, Whole, Lasting
    <1>13. Away' /\ Clearing'
        <2>1. Away'
            BY <1>8, <1>9 DEF Ends, Away
        <2>2. ASSUME NEW b \in Actors, deleting'[b] # None, deleting'[b].pub # None
              PROVE  b = a /\ k = 0 /\ deleting'[b].pub = p
            BY <1>2, <1>10, <2>2
        <2>3. Clearing'
            BY <1>3, <1>8, <2>2 DEF Clearing
        <2>4. QED
            BY <2>1, <2>3
    <1>14. \A g \in Freezes : Intent(g)'
        <2>1. ASSUME NEW g \in Freezes, Publishes(g)
              PROVE  <<ConvOf(g), worker[g].tag>> \in Snapshots \ {s}
            <3>1. p.build # g
                <4>1. worker[p.build].pc \in {"idle", "settle"}
                    <5>1. owner[p.build] # p.build => worker[p.build].pc = "idle"
                        BY <1>4 DEF IInv, Crew, CrewOf
                    <5>2. QED
                        BY <1>2, <1>3, <5>1
                <4>2. QED
                    BY <2>1, <4>1 DEF Publishes
            <3>2. <<ConvOf(g), worker[g].tag>> # s
                BY <1>2, <1>3, <1>4, <2>1, <3>1 DEF Ends, Intent
            <3>3. QED
                BY <2>1, <3>2, PublishingSnap
        <2>2. QED
            BY <1>1, <1>2, <1>6, <1>8, <2>1, IntentStays
    <1>15. Ends'
        BY <1>1, <1>8, <1>11, <1>12, <1>13, <1>14, LastingCloses
    <1>16. Names'
        <2>1. \A r \in Clients : Asks(r)'
            BY <1>1 DEF Names, Asks
        <2>2. \A x \in Snapshots : digest[x] = None => snaps'[x].tree = snaps[x].tree
            BY <1>9, NamesHere
        <2>3. QED
            BY <1>1, <1>2, <1>6, <2>1, <2>2, NamesStay
    <1>17. QED
        BY <1>15, <1>16

LEMMA PublishingNamed ==
    ASSUME IInv, NEW g \in Freezes, Publishes(g)
    PROVE  <<ConvOf(g), worker[g].tag>> \in Snapshots \ {None}
    BY PublishingSnap, PullNames

LEMMA DeleteTreeCloses ==
    ASSUME IInv, Names, Ends, NEW a \in Actors, DeleteTree(a)
    PROVE  Names' /\ Ends'
    <1>1. /\ UNCHANGED <<state, history, digest, freezes, request, gone>>
          /\ deleting[a] # None
        BY DEF DeleteTree, clock
    <1>2. PICK d \in Removals : d = deleting[a] /\ d.snap \in Snapshots
        BY <1>1 DEF IInv, Shape, Removals
    <1>3. PICK s \in Snapshots, k \in {0, 1} :
              /\ s = d.snap
              /\ IF k = 0 /\ snaps[s].tree.seen = "moved"
                 THEN /\ snaps' = [snaps EXCEPT ![s] = NoSnap]
                      /\ leases' = [l \in Leases |-> IF leases[l] # None /\ leases[l].snap = s
                                                     THEN [leases[l] EXCEPT !.state = "gone"] ELSE leases[l]]
                 ELSE UNCHANGED <<snaps, leases>>
              /\ IF k = 0 /\ d.next = "clear"
                 THEN /\ deleting' = [deleting EXCEPT ![a].next = "intent"]
                      /\ UNCHANGED worker
                 ELSE /\ deleting' = [deleting EXCEPT ![a] = None]
                      /\ worker' = IF d.pub # None /\ a \in Freezes THEN [worker EXCEPT ![a].pc = "failed"] ELSE worker
        BY <1>2 DEF DeleteTree
    <1>4. /\ \A g \in Freezes : g # a => worker'[g] = worker[g]
          /\ a \in Freezes => worker'[a].pc \in {"failed", worker[a].pc} /\ worker'[a].tag = worker[a].tag
        <2>1. PICK fails \in BOOLEAN : fails <=> ~(k = 0 /\ d.next = "clear") /\ d.pub # None
            OBVIOUS
        <2>2. worker' = IF fails /\ a \in Freezes THEN [worker EXCEPT ![a].pc = "failed"] ELSE worker
            BY <1>3, <2>1
        <2>3. QED
            BY <2>2, FailedWorker DEF IInv
    <1>5. /\ \A b \in Actors : b # a => deleting'[b] = deleting[b]
          /\ deleting'[a] = None \/ deleting'[a].pub = deleting[a].pub
        <2>1. PICK e : e = [deleting[a] EXCEPT !.next = "intent"]
            OBVIOUS
        <2>2. e.pub = deleting[a].pub
            BY <1>2, <2>1 DEF Removals
        <2>3. deleting' \in {[deleting EXCEPT ![a] = e], [deleting EXCEPT ![a] = None]}
            BY <1>3, <2>1
        <2>4. QED
            BY <2>2, <2>3 DEF IInv, Shape
    <1>6. \/ UNCHANGED <<snaps, leases>>
          \/ /\ snaps[s].tree.seen = "moved" /\ snaps'[s].tree = Rec("none")
             /\ \A x \in Snapshots : x # s => snaps'[x] = snaps[x] /\ OpenLeases(x)' \subseteq OpenLeases(x)
        <2>1. ASSUME snaps[s].tree.seen = "moved", snaps' = [snaps EXCEPT ![s] = NoSnap],
                     leases' = [l \in Leases |-> IF leases[l] # None /\ leases[l].snap = s
                                                 THEN [leases[l] EXCEPT !.state = "gone"] ELSE leases[l]]
              PROVE  /\ snaps'[s].tree = Rec("none")
                     /\ \A x \in Snapshots : x # s => snaps'[x] = snaps[x] /\ OpenLeases(x)' \subseteq OpenLeases(x)
            <3>1. snaps'[s].tree = Rec("none") /\ \A x \in Snapshots : x # s => snaps'[x] = snaps[x]
                BY <2>1 DEF IInv, Shape, NoSnap
            <3>2. ASSUME NEW x \in Snapshots, x # s, NEW l \in OpenLeases(x)'
                  PROVE  l \in OpenLeases(x)
                <4>1. l \in Leases /\ leases'[l] # None /\ leases'[l].snap = x /\ leases'[l].state = "open"
                    BY <3>2 DEF OpenLeases
                <4>2. leases[l] # None => leases'[l].snap = leases[l].snap
                    BY <1>3, <2>1, <4>1, DeletedTree
                <4>3. leases'[l] = leases[l]
                    BY <2>1, <3>2, <4>1, <4>2
                <4>4. QED
                    BY <4>1, <4>3 DEF OpenLeases
            <3>3. QED
                BY <3>1, <3>2
        <2>2. QED
            BY <1>3, <2>1
    <1>7. /\ \A x : Buried(x)' <=> Buried(x)
          /\ \A x : Removed(x)' <=> Removed(x)
          /\ \A x : IsPub(x)' <=> IsPub(x)
          /\ \A x : Intended(x)' <=> Intended(x)
          /\ \A c \in Conversations : Grows(c)'
        BY <1>1 DEF Buried, Removed, IsPub, Intended, Grows, Pub, Ends
    <1>8. ASSUME NEW x \in Snapshots
          PROVE  \/ Buried(x) /\ snaps'[x].tree = Rec("none")
                 \/ snaps'[x].tree = snaps[x].tree /\ Steady(x)
        <2>1. CASE UNCHANGED <<snaps, leases>>
            BY <2>1, AllSteady
        <2>2. CASE snaps[s].tree.seen = "moved" /\ snaps'[s].tree = Rec("none") /\ x = s
            BY <2>2 DEF Ends, Away
        <2>3. CASE x # s /\ snaps'[x] = snaps[x] /\ OpenLeases(x)' \subseteq OpenLeases(x)
            BY <2>3, SteadyKept
        <2>4. QED
            BY <1>6, <2>1, <2>2, <2>3
    <1>9. Lasting
        BY <1>7, <1>8, LastingFacts
    <1>10. Whole' /\ Away'
        <2>1. ASSUME NEW x \in Snapshots, digest[x] # None, Removed(x)' \/ snaps'[x].tree # Rec("here") \/ IsPub(x)'
              PROVE  Ended(x)'
            <3>1. Ended(x)
                BY <1>7, <1>8, <2>1 DEF Ends, Whole, Ended
            <3>2. QED
                BY <1>9, <2>1, <3>1 DEF Lasting
        <2>2. ASSUME NEW x \in Snapshots, "moved" \in {snaps'[x].tree.seen, snaps'[x].tree.disk}
              PROVE  Buried(x)'
            BY <1>7, <1>8, <2>2 DEF Ends, Away
        <2>3. QED
            BY <1>1, <2>1, <2>2 DEF Whole, Away
    <1>11. Clearing'
        <2>1. ASSUME NEW b \in Actors, deleting'[b] # None, deleting'[b].pub # None
              PROVE  deleting[b] # None /\ deleting'[b].pub = deleting[b].pub
            BY <1>1, <1>5, <2>1
        <2>2. QED
            BY <1>7, <2>1 DEF Ends, Clearing
    <1>12. \A g \in Freezes : Intent(g)'
        BY <1>1, <1>4, <1>7, PublishingNamed, IntentStays
    <1>13. Ends'
        BY <1>1, <1>7, <1>9, <1>10, <1>11, <1>12, LastingCloses
    <1>14. Names'
        <2>1. \A r \in Clients : Asks(r)'
            BY <1>1 DEF Names, Asks
        <2>2. ASSUME NEW x \in Snapshots, digest[x] = None
              PROVE  snaps'[x].tree = snaps[x].tree
            BY <1>8, <2>2 DEF Names
        <2>3. QED
            BY <1>1, <1>4, <2>1, <2>2, NamesStay
    <1>15. QED
        BY <1>13, <1>14

LEMMA ClearIntentCloses ==
    ASSUME IInv, Names, Ends, NEW a \in Actors, ClearIntent(a)
    PROVE  Names' /\ Ends'
    <1>1. /\ UNCHANGED <<history, digest, leases, freezes, request, gone>>
          /\ deleting[a] # None /\ deleting[a].next = "intent" /\ deleting' = [deleting EXCEPT ![a] = None]
        BY DEF ClearIntent, clock
    <1>2. deleting[a].pub # None
        BY <1>1 DEF IInv, Settles, SettledBy
    <1>3. PICK p \in Publications : p = Pub /\ p = deleting[a].pub /\ p # None
        BY <1>1, <1>2, SettledFacts DEF IInv
    <1>4. PICK k \in 0 .. 2, shown \in BOOLEAN :
              /\ snaps' = MarkedAgain(MarkedBy(p), k, shown)
              /\ state' = Write(k, shown, 2, state, [state.seen EXCEPT !.pub = None])
              /\ worker' = IF k # 0 /\ a \in Freezes THEN [worker EXCEPT ![a].pc = "failed"] ELSE worker
        BY <1>3 DEF ClearIntent
    <1>5. /\ \A g \in Freezes : g # a => worker'[g] = worker[g]
          /\ a \in Freezes => worker'[a].pc \in {"failed", worker[a].pc} /\ worker'[a].tag = worker[a].tag
        <2>1. PICK fails \in BOOLEAN : fails <=> k # 0
            OBVIOUS
        <2>2. worker' = IF fails /\ a \in Freezes THEN [worker EXCEPT ![a].pc = "failed"] ELSE worker
            BY <1>4, <2>1
        <2>3. QED
            BY <2>2, FailedWorker DEF IInv
    <1>6. Pub' = None \/ state' = state
        <2>1. PICK v : v = [state.seen EXCEPT !.pub = None]
            OBVIOUS
        <2>2. v.pub = None /\ state \in [seen : States, disk : States]
            BY <2>1 DEF IInv, Shape, States
        <2>3. state' = Rec(v) \/ state' = [state EXCEPT !.seen = v] \/ state' = state
            BY <1>4, <2>1 DEF Write
        <2>4. [state EXCEPT !.seen = v].seen = v
            BY <2>2
        <2>5. QED
            BY <2>2, <2>3, <2>4, RecFields DEF Pub
    <1>7. ASSUME NEW x \in Snapshots
          PROVE  snaps'[x].tree = snaps[x].tree /\ Steady(x)
        <2>1. PICK v, m : v = snaps[x].superseded.seen /\ m = Write(k, shown, 1, snaps[x].superseded, v)
            OBVIOUS
        <2>2. m = CommitMark(x, k, shown, 1)
            BY <2>1 DEF CommitMark
        <2>3. snaps'[x] = snaps[x] \/ (x \in MarkedBy(p) /\ snaps'[x] = [snaps[x] EXCEPT !.superseded = m])
            BY <1>4, <2>2 DEF MarkedAgain
        <2>4. p.tag # 0
            BY DEF Publications, Tags
        <2>5. x \in MarkedBy(p) => v # 0
            BY <2>1, <2>4 DEF MarkedBy
        <2>6. v # 0 => m.seen # 0 /\ (snaps[x].superseded.disk # 0 => m.disk # 0)
            <3>1. ASSUME v # 0 PROVE m.seen # 0 /\ (snaps[x].superseded.disk # 0 => m.disk # 0)
                <4>1. Superseded(x)
                    BY <2>1, <3>1 DEF Superseded
                <4>2. QED
                    BY <2>1, <3>1, <4>1, MarkPasses DEF IInv
            <3>2. QED
                BY <3>1
        <2>7. ASSUME NEW r, r = [snaps[x] EXCEPT !.superseded = m]
              PROVE  r.tree = snaps[x].tree /\ r.use = snaps[x].use /\ r.superseded = m
            BY <2>7 DEF IInv, Shape, Trees
        <2>8. /\ snaps'[x].tree = snaps[x].tree /\ snaps'[x].use = snaps[x].use
              /\ snaps'[x].superseded = snaps[x].superseded
                 \/ (snaps'[x].superseded.seen # 0
                     /\ (snaps[x].superseded.disk # 0 => snaps'[x].superseded.disk # 0))
            BY <2>3, <2>5, <2>6, <2>7
        <2>9. OpenLeases(x)' = OpenLeases(x)
            BY <1>1 DEF OpenLeases
        <2>10. QED
            BY <2>8, <2>9 DEF Steady, Lapsed, Passed, Superseded
    <1>8. /\ \A x : Buried(x)' <=> Buried(x)
          /\ \A x : Removed(x)' <=> Removed(x)
          /\ \A x : IsPub(x)' => IsPub(x)
          /\ \A c \in Conversations : Grows(c)'
        BY <1>1, <1>6 DEF Buried, Removed, IsPub, Grows, Pub, Ends
    <1>9. \A x \in Snapshots : IsPub(x) => Buried(x)'
        <2>1. Buried(<<p.conv, p.tag>>)
            BY <1>1, <1>2, <1>3 DEF Ends, Clearing
        <2>2. \A x \in Snapshots : IsPub(x) => x = <<p.conv, p.tag>>
            BY <1>3 DEF IsPub, Snapshots
        <2>3. QED
            BY <1>8, <2>1, <2>2
    <1>10. Lasting
        BY <1>7, <1>8, <1>9, LastingFacts DEF Intended
    <1>11. Whole' /\ Away'
        <2>1. ASSUME NEW x \in Snapshots, digest[x] # None, Removed(x)' \/ snaps'[x].tree # Rec("here") \/ IsPub(x)'
              PROVE  Ended(x)'
            <3>1. Ended(x)
                BY <1>7, <1>8, <2>1 DEF Ends, Whole
            <3>2. QED
                BY <1>10, <2>1, <3>1 DEF Lasting
        <2>2. Away'
            BY <1>7, <1>8 DEF Ends, Away
        <2>3. QED
            BY <1>1, <2>1, <2>2 DEF Whole
    <1>12. Clearing'
        <2>1. ASSUME NEW b \in Actors, deleting'[b] # None, deleting'[b].pub # None
              PROVE  deleting'[b] = deleting[b]
            BY <1>1, <2>1 DEF IInv, Shape
        <2>2. QED
            BY <1>8, <2>1 DEF Ends, Clearing
    <1>13. \A g \in Freezes : Intent(g)'
        BY <1>1, <1>5, <1>6, <1>8, PublishingNamed, IntentStays
    <1>14. Ends'
        BY <1>1, <1>8, <1>10, <1>11, <1>12, <1>13, LastingCloses
    <1>15. Names'
        <2>1. \A r \in Clients : Asks(r)'
            BY <1>1 DEF Names, Asks
        <2>2. QED
            BY <1>1, <1>5, <1>7, <2>1, NamesStay
    <1>16. QED
        BY <1>14, <1>15

\* A removal's writes, in their order: the tree goes once the history has its tag,
\* and that once what ended the snapshot is on the disk.
LEMMA RemovalOrder ==
    ASSUME IInv, NEW a \in Actors, NEW s \in Snapshots, RemoveIfDue(a, s)
    PROVE  \E k \in 0 .. 3, shown \in BOOLEAN :
               /\ \A x \in Snapshots : x # s => snaps'[x] = snaps[x]
               /\ Steady(s)
               /\ Due(s) /\ k # 1 => Removed(s) \/ Lapsed(s)' \/ Passed(s)' \/ Held(s)
               /\ snaps'[s].tree = snaps[s].tree \/ (Due(s) /\ ~Held(s) /\ root[s[1]] = None /\ k \in {0, 3})
               /\ history' = IF Due(s) /\ ~Held(s) /\ root[s[1]] = None
                             THEN [history EXCEPT ![s[1]] =
                                      Write(k, shown, 2, history[s[1]], Taken(history[s[1]].seen, s[2]))]
                             ELSE history
    <1> DEFINE life == Life(s)
               expires == Due(s) /\ Held(s) /\ life = "served"
               goes == Due(s) /\ ~Held(s) /\ root[s[1]] = None
    <1>1. PICK k \in 0 .. 3, shown \in BOOLEAN :
              /\ snaps' = [snaps EXCEPT ![s] =
                    [use |-> IF life = "expired" THEN CommitExpiry(s, k, shown)
                             ELSE IF expires THEN Write(k, shown, 2, @.use, Expired(s)) ELSE @.use,
                     superseded |-> IF life = "served" THEN CommitMark(s, k, shown, 1) ELSE @.superseded,
                     tree |-> IF goes /\ Here(s) THEN Write(k, shown, 3, @.tree, "moved") ELSE @.tree]]
              /\ history' = IF goes THEN [history EXCEPT ![s[1]] = Write(k, shown, 2, @, Taken(@.seen, s[2]))]
                   ELSE history
        BY ZenonT(60) DEF RemoveIfDue
    <1>2. UNCHANGED leases /\ (Due(s) \/ (life = "served" /\ Superseded(s)))
        BY DEF RemoveIfDue, clock
    <1>3. PICK v : v = Expired(s) /\ v.state = "expired"
        <2>1. snaps[s].use.seen \in Uses
            BY DEF IInv, Shape, Trees
        <2>2. Expired(s).state = "expired"
            BY <2>1 DEF Expired, Uses
        <2>3. QED
            BY <2>2
    <1>4. PICK m : m = snaps[s].superseded.seen
        OBVIOUS
    <1> DEFINE u == IF life = "expired" THEN CommitExpiry(s, k, shown)
                    ELSE IF expires THEN Write(k, shown, 2, snaps[s].use, Expired(s)) ELSE snaps[s].use
               p == IF life = "served" THEN CommitMark(s, k, shown, 1) ELSE snaps[s].superseded
               t == IF goes /\ Here(s) THEN Write(k, shown, 3, snaps[s].tree, "moved") ELSE snaps[s].tree
    <1>5. /\ Lapsed(s) => u.seen.state = "expired" /\ u.disk.state = "expired"
          /\ life = "expired" /\ k # 1 => u.seen.state = "expired" /\ u.disk.state = "expired"
        <2>1. ASSUME NEW at \in {1, 2}, NEW w, w = Write(k, shown, at, snaps[s].use, v)
              PROVE  /\ Lapsed(s) => w.seen.state = "expired" /\ w.disk.state = "expired"
                     /\ k = 0 \/ at < k => w.seen.state = "expired" /\ w.disk.state = "expired"
            BY <1>3, <2>1, UseLapses DEF IInv
        <2>2. u \in {Write(k, shown, 1, snaps[s].use, v), Write(k, shown, 2, snaps[s].use, v), snaps[s].use}
            BY <1>3 DEF CommitExpiry
        <2>3. life = "expired" => u = Write(k, shown, 1, snaps[s].use, v)
            BY <1>3 DEF CommitExpiry
        <2>4. k # 1 => k = 0 \/ 1 < k
            OBVIOUS
        <2> HIDE DEF u, life
        <2>5. Lapsed(s) => u.seen.state = "expired" /\ u.disk.state = "expired"
            BY <2>1, <2>2 DEF Lapsed
        <2>6. QED
            BY <2>1, <2>3, <2>4, <2>5
    <1>6. m # 0 => /\ p.seen # 0
                   /\ snaps[s].superseded.disk # 0 => p.disk # 0
                   /\ life = "served" /\ k # 1 => p.disk # 0
        <2>1. ASSUME m # 0, NEW w, w = Write(k, shown, 1, snaps[s].superseded, m)
              PROVE  /\ w.seen # 0 /\ (snaps[s].superseded.disk # 0 => w.disk # 0)
                     /\ k = 0 \/ 1 < k => w.disk # 0
            <3>1. Superseded(s)
                BY <1>4, <2>1 DEF Superseded
            <3>2. QED
                BY <2>1, <3>1, MarkPasses DEF IInv
        <2>2. p = IF life = "served" THEN Write(k, shown, 1, snaps[s].superseded, m) ELSE snaps[s].superseded
            BY <1>4 DEF CommitMark
        <2>3. k # 1 => k = 0 \/ 1 < k
            OBVIOUS
        <2> HIDE DEF p, life
        <2>4. CASE life = "served"
            BY <2>1, <2>2, <2>3, <2>4
        <2>5. CASE life # "served"
            BY <1>4, <2>2, <2>5
        <2>6. QED
            BY <2>4, <2>5
    <1>7. t = snaps[s].tree \/ (goes /\ k \in {0, 3})
        <2>1. k \notin {0, 3} => k # 0 /\ ~(3 < k) /\ 3 # k
            OBVIOUS
        <2>2. QED
            BY <2>1 DEF Write
    <1>8. snaps' = [snaps EXCEPT ![s] = [use |-> u, superseded |-> p, tree |-> t]]
        BY <1>1
    <1> HIDE DEF u, p, t
    <1>9. /\ snaps'[s].tree = t /\ snaps'[s].superseded = p /\ snaps'[s].use = u
          /\ \A x \in Snapshots : x # s => snaps'[x] = snaps[x]
        <2>1. PICK e : e = [use |-> u, superseded |-> p, tree |-> t]
            OBVIOUS
        <2>2. e.tree = t /\ e.superseded = p /\ e.use = u
            BY <2>1
        <2>3. snaps' = [snaps EXCEPT ![s] = e]
            BY <1>8, <2>1
        <2>4. QED
            BY <2>2, <2>3 DEF IInv, Shape
    <1>10. OpenLeases(s)' = OpenLeases(s)
        BY <1>2 DEF OpenLeases
    <1>11. Steady(s)
        BY <1>4, <1>5, <1>6, <1>9, <1>10 DEF Steady, Lapsed, Passed, Superseded
    <1>12. ASSUME Due(s), k # 1
           PROVE  Removed(s) \/ Lapsed(s)' \/ Passed(s)'
        <2>1. CASE life = "removed"
            BY <2>1 DEF Life
        <2>2. CASE life = "expired"
            BY <1>5, <1>9, <1>12, <2>2 DEF Lapsed
        <2>3. CASE life = "served" /\ Superseded(s) /\ OpenLeases(s) = {}
            BY <1>4, <1>6, <1>9, <1>10, <1>12, <2>3 DEF Passed, Superseded
        <2>4. QED
            BY <1>12, <2>1, <2>2, <2>3 DEF Due
    <1>13. QED
        BY <1>1, <1>7, <1>9, <1>11, <1>12

\* What a removal takes had ended.
LEMMA RemovalCloses ==
    ASSUME IInv, Names, Ends, NEW a \in Actors, NEW s \in Snapshots, digest[s] # None, RemoveIfDue(a, s),
           \A r \in Clients : Asks(r)'
    PROVE  Names' /\ Ends'
    <1>1. /\ UNCHANGED <<state, digest, leases, freezes, worker, gone>>
          /\ deleting[a] = None
          /\ deleting' \in {deleting, [deleting EXCEPT ![a] = [snap |-> s, next |-> "done", pub |-> None]]}
        BY RemovalWrites DEF RemoveIfDue, IInv
    <1>2. PICK k \in 0 .. 3, shown \in BOOLEAN :
              /\ \A x \in Snapshots : x # s => snaps'[x] = snaps[x]
              /\ Steady(s)
              /\ Due(s) /\ k # 1 => Removed(s) \/ Lapsed(s)' \/ Passed(s)' \/ Held(s)
              /\ snaps'[s].tree = snaps[s].tree \/ (Due(s) /\ ~Held(s) /\ root[s[1]] = None /\ k \in {0, 3})
              /\ history' = IF Due(s) /\ ~Held(s) /\ root[s[1]] = None
                            THEN [history EXCEPT ![s[1]] =
                                     Write(k, shown, 2, history[s[1]], Taken(history[s[1]].seen, s[2]))]
                            ELSE history
        BY RemovalOrder
    <1>3. PICK goes \in BOOLEAN : goes <=> Due(s) /\ ~Held(s) /\ root[s[1]] = None
        OBVIOUS
    <1>4. PICK c \in Conversations, n \in Nat : c = s[1] /\ n = s[2]
        BY DEF Snapshots, Tags
    <1>5. PICK h \in Histories : /\ h = Taken(history[c].seen, n) /\ h.removed = history[c].seen.removed \cup {n}
                                 /\ \A u \in h.removed : u <= h.greatest
        BY TakenGrows DEF Ends, IInv
    <1>6. /\ \A d \in Conversations : Grows(d)'
          /\ \A x \in Snapshots : Buried(x) => Buried(x)'
          /\ \A x \in Snapshots : Removed(x)' => Removed(x) \/ (x = s /\ goes /\ k # 1)
          /\ goes /\ k \in {0, 3} => Buried(s)'
        <2>1. CASE ~goes
            BY <1>2, <1>3, <2>1 DEF Ends, Grows, Buried, Removed
        <2>2. CASE goes
            <3>1. /\ Shape /\ (\A d \in Conversations : Grows(d)) /\ history[c].seen.removed \subseteq h.removed
                  /\ (\A u \in h.removed : u <= h.greatest) /\ k \in Nat
                BY <1>5 DEF Ends, IInv
            <3>0. PICK at \in Nat : at = 2
                OBVIOUS
            <3>2. history' = [history EXCEPT ![c] = Write(k, shown, at, history[c], h)]
                BY <1>2, <1>3, <1>4, <1>5, <2>2, <3>0
            <3>3. /\ \A d \in Conversations : Grows(d)'
                  /\ \A x \in Snapshots : Buried(x) => Buried(x)'
                  /\ \A x \in Snapshots : Removed(x)' => Removed(x) \/ (x[1] = c /\ x[2] \in h.removed)
                  /\ k = 0 \/ at < k => history'[c].disk = h
                  /\ k # 0 /\ k < at => history' = history
                BY <3>1, <3>2, HistoryGrows
            <3>4. \A x \in Snapshots : x[1] = c /\ x[2] \in h.removed => Removed(x) \/ x = s
                BY <1>4, <1>5 DEF Removed, Snapshots
            <3>5. k = 1 => \A x \in Snapshots : Removed(x)' => Removed(x)
                BY <3>0, <3>3 DEF Removed
            <3>6. n \in h.removed /\ (k \in {0, 3} => k = 0 \/ at < k)
                BY <1>5, <3>0
            <3>7. QED
                BY <1>4, <2>2, <3>3, <3>4, <3>5, <3>6 DEF Buried
        <2>3. QED
            BY <2>1, <2>2
    <1>7. Lasting
        <2>1. \A x \in Snapshots : Steady(x)
            <3>1. \A x \in Snapshots : x # s => Steady(x)
                BY <1>1, <1>2, SteadyKept DEF OpenLeases
            <3>2. QED
                BY <1>2, <3>1
        <2>2. \A x \in Snapshots : Intended(x) => Intended(x)'
            BY <1>1 DEF Intended, IsPub, Pub
        <2>3. QED
            BY <1>6, <2>1, <2>2, LastingFacts
    <1>8. goes /\ k # 1 => Ended(s)'
        <2>1. Removed(s) => Ended(s)'
            BY <1>7 DEF Ends, Whole, Lasting
        <2>2. QED
            BY <1>2, <1>3, <2>1 DEF Ended
    <1>9. Whole'
        <2>1. ASSUME NEW x \in Snapshots, digest[x] # None, Removed(x)' \/ snaps'[x].tree # Rec("here") \/ IsPub(x)'
              PROVE  Ended(x)'
            <3>1. CASE x = s /\ goes /\ k # 1
                BY <1>8, <3>1
            <3>2. CASE ~(x = s /\ goes /\ k # 1)
                <4>1. Removed(x)' => Removed(x)
                    BY <1>6, <3>2
                <4>2. snaps'[x].tree = snaps[x].tree
                    BY <1>2, <1>3, <3>2
                <4>3. Removed(x) \/ snaps[x].tree # Rec("here") \/ IsPub(x)
                    BY <1>1, <2>1, <4>1, <4>2 DEF IsPub, Pub
                <4>4. QED
                    BY <1>7, <2>1, <4>3 DEF Ends, Whole, Lasting
            <3>3. QED
                BY <3>1, <3>2
        <2>2. QED
            BY <1>1, <2>1 DEF Whole
    <1>10. Away' /\ Clearing'
        <2>1. ASSUME NEW x \in Snapshots, "moved" \in {snaps'[x].tree.seen, snaps'[x].tree.disk}
              PROVE  Buried(x)'
            <3>1. CASE snaps'[x].tree = snaps[x].tree
                BY <1>6, <2>1, <3>1 DEF Ends, Away
            <3>2. CASE snaps'[x].tree # snaps[x].tree
                BY <1>2, <1>3, <1>6, <3>2
            <3>3. QED
                BY <3>1, <3>2
        <2>2. ASSUME NEW b \in Actors, deleting'[b] # None, deleting'[b].pub # None
              PROVE  deleting'[b] = deleting[b] /\ Buried(<<deleting[b].pub.conv, deleting[b].pub.tag>>)'
            <3>1. deleting'[b] = deleting[b]
                BY <1>1, <2>2 DEF IInv, Shape
            <3>2. <<deleting[b].pub.conv, deleting[b].pub.tag>> \in Snapshots
                BY <2>2, <3>1 DEF IInv, Shape, Removals, Publications, Snapshots
            <3>3. QED
                BY <1>6, <2>2, <3>1, <3>2 DEF Ends, Clearing
        <2>3. QED
            BY <2>1, <2>2 DEF Away, Clearing
    <1>11. \A g \in Freezes : Intent(g)'
        <2>1. \A g \in Freezes : Publishes(g) => <<ConvOf(g), worker[g].tag>> \in Snapshots \ {s}
            BY PublishingSnap
        <2>2. QED
            BY <1>1, <1>6, <2>1, IntentStays
    <1>12. Ends'
        BY <1>1, <1>6, <1>7, <1>9, <1>10, <1>11, LastingCloses
    <1>13. Names'
        BY <1>1, <1>2, NamesStay
    <1>14. QED
        BY <1>12, <1>13

LEMMA SweepCloses ==
    ASSUME IInv, Names, Ends, NEW s \in Snapshots, Sweep(s)
    PROVE  Names' /\ Ends'
    <1>1. RemoveIfDue(Sweeper, s) /\ UNCHANGED <<request, digest>> /\ Sweeper \in Actors /\ digest[s] # None
        BY NamesApart, NamesHere DEF Sweep, RemoveIfDue
    <1>2. \A r \in Clients : Asks(r)'
        BY <1>1 DEF Names, Asks
    <1>3. QED
        BY <1>1, <1>2, RemovalCloses

LEMMA RemoveReleasedCloses ==
    ASSUME IInv, Names, Ends, NEW r \in Clients, RemoveReleased(r)
    PROVE  Names' /\ Ends'
    <1>1. request[r].pc = "removing" /\ request' = [request EXCEPT ![r] = Quiet]
        BY DEF RemoveReleased, On
    <1>2. PICK s \in Snapshots : s = Snap(r)
        BY <1>1, RequestFacts DEF Snap
    <1>3. SameSnap(r) /\ request'[r].snap = None
        BY <1>1, QuietSnap DEF IInv, Shape, SameSnap
    <1>4. CASE RemoveIfDue(r, s)
        <2>1. r \in Actors /\ s # None
            BY NamesApart, PullNames
        <2>2. digest[s] # None
            BY <1>2, <2>1 DEF Names, Asks, Snap
        <2>3. UNCHANGED digest
            BY <1>4 DEF RemoveIfDue
        <2>4. \A q \in Clients : Asks(q)'
            BY <1>3, <2>3 DEF Names, Asks, SameSnap
        <2>5. QED
            BY <1>4, <2>1, <2>2, <2>4, RemovalCloses
    <1>5. CASE UNCHANGED <<clock, disk, locks, worker, deleting, gone, faults, stops>>
        <2>1. UNCHANGED <<state, history, digest, deleting, worker, freezes, gone, snaps, leases>>
            BY <1>5 DEF disk
        <2>2. QED
            BY <1>3, <2>1, AllSteady, AskCloses
    <1>6. QED
        BY <1>2, <1>4, <1>5 DEF RemoveReleased

\* A detached tree's tag is written into the history again.
LEMMA ReplayCloses ==
    ASSUME IInv, Names, Ends, NEW s \in Snapshots, ReplayRemoving(s)
    PROVE  Names' /\ Ends'
    <1>1. /\ UNCHANGED <<state, snaps, digest, leases, freezes, worker, request, gone>>
          /\ snaps[s].tree.seen = "moved" /\ deleting[Sweeper] = None /\ Sweeper \in Actors
        BY NamesApart DEF ReplayRemoving, clock
    <1>2. PICK c \in Conversations, n \in Nat : c = s[1] /\ n = s[2]
        BY DEF Snapshots, Tags
    <1>3. PICK h \in Histories : /\ h = Taken(history[c].seen, n) /\ h.removed = history[c].seen.removed \cup {n}
                                 /\ \A u \in h.removed : u <= h.greatest
        BY TakenGrows DEF Ends, IInv
    <1>4. PICK k \in {0, 1}, shown \in BOOLEAN :
              /\ history' = [history EXCEPT ![c] = Write(k, shown, 1, history[c], h)]
              /\ deleting' = IF k = 0 THEN [deleting EXCEPT ![Sweeper] = [snap |-> s, next |-> "done",
                   pub |-> None]] ELSE deleting
        BY <1>2, <1>3 DEF ReplayRemoving
    <1>5. /\ \A d \in Conversations : Grows(d)'
          /\ \A x \in Snapshots : Buried(x) => Buried(x)'
          /\ \A x \in Snapshots : Removed(x)' => Removed(x)
        <2>1. /\ Shape /\ (\A d \in Conversations : Grows(d)) /\ history[c].seen.removed \subseteq h.removed
              /\ (\A u \in h.removed : u <= h.greatest) /\ k \in Nat
            BY <1>3 DEF Ends, IInv
        <2>2. PICK at \in Nat : at = 1
            OBVIOUS
        <2>3. history' = [history EXCEPT ![c] = Write(k, shown, at, history[c], h)]
            BY <1>4, <2>2
        <2>4. /\ \A d \in Conversations : Grows(d)'
              /\ \A x \in Snapshots : Buried(x) => Buried(x)'
              /\ \A x \in Snapshots : Removed(x)' => Removed(x) \/ (x[1] = c /\ x[2] \in h.removed)
            BY <2>1, <2>3, HistoryGrows
        <2>5. n \in history[c].seen.removed
            BY <1>1, <1>2 DEF Ends, Away, Buried, Grows
        <2>6. QED
            BY <1>3, <2>4, <2>5 DEF Removed
    <1>6. Lasting
        BY <1>1, <1>5, AllSteady, LastingFacts DEF Intended, IsPub, Pub
    <1>7. Whole'
        <2>1. ASSUME NEW x \in Snapshots, digest[x] # None, Removed(x)' \/ snaps[x].tree # Rec("here") \/ IsPub(x)'
              PROVE  Ended(x)'
            <3>1. Ended(x)
                BY <1>1, <1>5, <2>1 DEF Ends, Whole, IsPub, Pub
            <3>2. QED
                BY <1>6, <2>1, <3>1 DEF Lasting
        <2>2. QED
            BY <1>1, <2>1 DEF Whole
    <1>8. Away' /\ Clearing'
        <2>1. Away'
            BY <1>1, <1>5 DEF Ends, Away
        <2>2. ASSUME NEW b \in Actors, deleting'[b] # None, deleting'[b].pub # None
              PROVE  deleting'[b] = deleting[b] /\ Buried(<<deleting[b].pub.conv, deleting[b].pub.tag>>)'
            <3>1. deleting'[b] = deleting[b]
                BY <1>4, <2>2 DEF IInv, Shape
            <3>2. <<deleting[b].pub.conv, deleting[b].pub.tag>> \in Snapshots
                BY <2>2, <3>1 DEF IInv, Shape, Removals, Publications, Snapshots
            <3>3. QED
                BY <1>5, <2>2, <3>1, <3>2 DEF Ends, Clearing
        <2>3. QED
            BY <2>1, <2>2 DEF Clearing
    <1>9. \A g \in Freezes : Intent(g)'
        BY <1>1, <1>5, PublishingNamed, IntentStays
    <1>10. Ends'
        BY <1>1, <1>5, <1>6, <1>7, <1>8, <1>9, LastingCloses
    <1>11. Names'
        <2>1. \A r \in Clients : Asks(r)'
            BY <1>1 DEF Names, Asks
        <2>2. QED
            BY <1>1, <2>1, NamesStay
    <1>12. QED
        BY <1>10, <1>11

\* What ended a snapshot is on the disk, so a loss of power does not undo it.
LEMMA CrashCloses ==
    ASSUME IInv, Names, Ends, NEW power \in BOOLEAN, Crash(power)
    PROVE  Names' /\ Ends'
    <1>1. /\ UNCHANGED <<digest, leases, freezes, gone>>
          /\ worker' = [f \in Freezes |-> Idle] /\ deleting' = [a \in Actors |-> None]
          /\ request' = [r \in Clients |-> Cut(r)]
        BY DEF Crash, Actors
    <1>2. \/ UNCHANGED <<state, history, snaps>>
          \/ /\ state' = Rec(state.disk) /\ history' = [c \in Conversations |-> Rec(history[c].disk)]
             /\ snaps' = [s \in Snapshots |-> [tree |-> Rec(snaps[s].tree.disk),
                             superseded |-> Rec(snaps[s].superseded.disk), use |-> Rec(snaps[s].use.disk)]]
        BY ZenonT(30) DEF Crash
    <1>3. (\A f \in Freezes : ~Publishes(f)' /\ worker'[f].pc = "idle") /\ \A a \in Actors : deleting'[a] = None
        BY <1>1 DEF Idle, Publishes
    <1>4. state'.disk = state.disk /\ state'.seen \in {state.seen, state.disk}
        BY <1>2, RecFields
    <1>5. \A c \in Conversations :
              /\ history'[c].disk = history[c].disk
              /\ history'[c].seen = history[c].seen \/ history'[c].seen = history[c].disk
        BY <1>2, RecFields
    <1>6. ASSUME NEW s \in Snapshots
          PROVE  \/ snaps'[s] = snaps[s]
                 \/ /\ snaps'[s].tree = Rec(snaps[s].tree.disk)
                    /\ snaps'[s].superseded = Rec(snaps[s].superseded.disk)
                    /\ snaps'[s].use = Rec(snaps[s].use.disk)
        <2>1. PICK e : e = [tree |-> Rec(snaps[s].tree.disk),
                            superseded |-> Rec(snaps[s].superseded.disk), use |-> Rec(snaps[s].use.disk)]
            OBVIOUS
        <2>2. /\ e.tree = Rec(snaps[s].tree.disk) /\ e.superseded = Rec(snaps[s].superseded.disk)
              /\ e.use = Rec(snaps[s].use.disk)
            BY <2>1
        <2>3. snaps'[s] = snaps[s] \/ snaps'[s] = e
            BY <1>2, <2>1
        <2>4. QED
            BY <2>2, <2>3
    <1>7. /\ \A x \in Snapshots : Buried(x)' <=> Buried(x)
          /\ \A x \in Snapshots : Removed(x)' => Removed(x) \/ Buried(x)
          /\ \A c \in Conversations : Grows(c)'
        <2>1. \A x \in Snapshots : x[1] \in Conversations
            BY DEF Snapshots
        <2>2. QED
            BY <1>5, <2>1 DEF Buried, Removed, Grows, Ends
    <1>8. \A x : (Intended(x) => Intended(x)') /\ (IsPub(x)' => IsPub(x) \/ Intended(x)')
        BY <1>4 DEF Intended, IsPub, Pub
    <1>9. ASSUME NEW x \in Snapshots PROVE Steady(x)
        <2>1. OpenLeases(x)' = OpenLeases(x)
            BY <1>1 DEF OpenLeases
        <2>2. QED
            BY <1>6, <2>1, RecFields DEF Steady, Lapsed, Passed, Superseded
    <1>10. Lasting
        BY <1>7, <1>8, <1>9, LastingFacts
    <1>11. Whole'
        <2>1. ASSUME NEW x \in Snapshots, digest[x] # None, Removed(x)' \/ snaps'[x].tree # Rec("here") \/ IsPub(x)'
              PROVE  Ended(x)'
            <3>1. CASE Removed(x)'
                BY <1>7, <1>10, <2>1, <3>1 DEF Ends, Whole, Lasting, Ended
            <3>2. CASE snaps'[x].tree # Rec("here")
                <4>1. snaps[x].tree # Rec("here")
                    BY <1>6, <3>2, RecFields
                <4>2. QED
                    BY <1>10, <2>1, <4>1 DEF Ends, Whole, Lasting
            <3>3. CASE IsPub(x)'
                BY <1>8, <1>10, <2>1, <3>3 DEF Ends, Whole, Lasting, Ended
            <3>4. QED
                BY <2>1, <3>1, <3>2, <3>3
        <2>2. QED
            BY <1>1, <2>1 DEF Whole
    <1>12. Away' /\ Clearing'
        <2>1. Away'
            BY <1>6, <1>7, RecFields DEF Ends, Away
        <2>2. QED
            BY <1>3, <2>1 DEF Clearing
    <1>13. Ends'
        BY <1>1, <1>3, <1>7, <1>10, <1>11, <1>12, LastingCloses DEF Intent
    <1>14. Names'
        <2>1. ASSUME NEW s \in Snapshots, digest[s] = None
              PROVE  snaps'[s].tree = Rec("none")
            <3>1. snaps[s].tree = Rec("none")
                BY <2>1 DEF Names
            <3>2. QED
                BY <1>6, <3>1, RecFields
        <2>2. \A f \in Freezes : NamesOf(f)'
            BY <1>1, <1>3 DEF Names, NamesOf
        <2>3. ASSUME NEW r \in Clients PROVE Asks(r)'
            <3>1. Cut(r).snap \in {None, request[r].snap}
                <4>1. PICK q : q = Answered(r, TRUE) /\ q.snap \in {None, request[r].snap}
                    BY AnsweredSnap
                <4>2. [Quiet EXCEPT !.freeze = request[r].freeze].snap = None
                    BY DEF Quiet
                <4>3. QED
                    BY <4>1, <4>2 DEF Cut
            <3>2. request'[r] = Cut(r)
                BY <1>1
            <3>3. QED
                BY <1>1, <3>1, <3>2 DEF Names, Asks
        <2>4. QED
            BY <1>1, <2>1, <2>2, <2>3 DEF Names
    <1>15. QED
        BY <1>13, <1>14

LEMMA EndsFirst == Init => Names /\ Ends
    <1> SUFFICES ASSUME Init PROVE Names /\ Ends
        OBVIOUS
    <1>1. /\ gone = {} /\ \A s \in Snapshots : digest[s] = None /\ snaps[s].tree = Rec("none")
          /\ \A f \in Freezes : freezes[f] = None /\ worker[f].pc = "idle"
          /\ \A r \in Clients : request[r].snap = None
          /\ \A a \in Actors : deleting[a] = None
        BY QuietSnap DEF Init, NoSnap, Idle, Actors
    <1>2. \A c \in Conversations : history[c].seen.removed = {} /\ history[c].disk.removed = {}
        <2>1. PICK h : h = [greatest |-> 0, removed |-> {}]
            OBVIOUS
        <2>2. h.removed = {} /\ \A c \in Conversations : history[c] = Rec(h)
            BY <2>1 DEF Init
        <2>3. QED
            BY <2>2, RecFields
    <1>3. Names
        BY <1>1 DEF Names, NamesOf, Asks
    <1>4. \A s \in Snapshots : ~("moved" \in {snaps[s].tree.seen, snaps[s].tree.disk})
        BY <1>1, RecFields
    <1>5. QED
        BY <1>1, <1>2, <1>3, <1>4 DEF Ends, Grows, Whole, Away, Clearing, Intent, Publishes

LEMMA EndsKept ==
    ASSUME IInv, Names, Ends, [Next]_vars
    PROVE  Names' /\ Ends'
    <1>1. ASSUME NEW f \in Freezes, FreezeStep(f)
          PROVE  Names' /\ Ends'
        BY <1>1, JobsClose, ReuseCloses, CheckReuseCloses, ReserveCloses, PublishCloses DEF FreezeStep
    <1>2. ASSUME NEW a \in Freezes \cup {Sweeper}, Settle(a)
          PROVE  Names' /\ Ends'
        BY <1>2, DiscardCloses, DeleteTreeCloses, ClearIntentCloses, NamesApart DEF Settle
    <1>3. CASE SweepStep
        BY <1>3, SweepCloses, ReplayCloses, JobsClose DEF SweepStep
    <1>4. ASSUME NEW r \in Clients, RequestStep(r)
          PROVE  Names' /\ Ends'
        BY <1>4, QuietCloses, RefusedCloses, GrantCloses, AdmitCloses, ReleaseCloses,
           RemoveReleasedCloses DEF RequestStep
    <1>5. ASSUME NEW r \in Clients, DeleteTree(r)
          PROVE  Names' /\ Ends'
        BY <1>5, DeleteTreeCloses DEF Actors
    <1>6. ASSUME NEW r \in Clients, ClientStep(r)
          PROVE  Names' /\ Ends'
        BY <1>6, StartFreezeCloses, QuietCloses DEF ClientStep
    <1>7. CASE World
        BY <1>7, WorldCloses, CrashCloses DEF World
    <1>8. CASE UNCHANGED vars
        BY <1>8, WorldCloses
    <1>9. QED
        BY <1>1, <1>2, <1>3, <1>4, <1>5, <1>6, <1>7, <1>8 DEF Next

\* A snapshot a request was told is gone is never used again, whatever fails or
\* loses power after the answer: what it rests on, a removal, an expiry, or a
\* supersession that no lease outlives, was committed before it (lifecycle,
\* grantLease and removeIfDue, snapshot.go:125-144, 209-256, 692-771).
THEOREM ToldGone == Spec => []GoneStaysGone
    <1>1. IInv /\ Names /\ Ends /\ [Next]_vars => IInv' /\ Names' /\ Ends'
        BY StepKeeps, EndsKept
    <1>2. IInv /\ Names /\ Ends => GoneStaysGone
        <2> SUFFICES ASSUME IInv, Names, Ends, NEW s \in gone, Life(s) = "served"
                     PROVE  Superseded(s) /\ OpenLeases(s) = {}
            BY DEF GoneStaysGone
        <2>1. s \in Snapshots /\ Ended(s)
            BY DEF Names, Ends
        <2>2. ~IsPub(s) /\ ~Removed(s) /\ snaps[s].use.seen.state = "active"
            BY <2>1, LifeServed DEF IInv, IsPub
        <2>3. ~Buried(s)
            <3>1. s[1] \in Conversations
                BY <2>1 DEF Snapshots
            <3>2. QED
                BY <2>2, <3>1 DEF Ends, Grows, Buried, Removed
        <2>4. QED
            BY <2>1, <2>2, <2>3 DEF Ended, Intended, Lapsed, Passed
    <1>3. QED
        BY <1>1, <1>2, InitHolds, EndsFirst, PTL DEF Spec
=============================================================================
