---------------------------- MODULE PullServer ----------------------------
(***************************************************************************)
(* The server that lets other machines pull whole conversations           *)
(* (internal/pull/server).  A manifest request starts a freeze job: a      *)
(* worker copies the conversation's evidence, then finds the newest        *)
(* snapshot that already holds it or publishes a new one under a new tag.  *)
(* A client gets a lease on the snapshot, and its requests under the lease *)
(* hold the tree while they are answered.  Snapshots expire a time to live *)
(* after their last use, and are superseded by newer ones; a sweep removes *)
(* them.  (Archives of a snapshot and what reads them: module PullFetch.)  *)
(*                                                                         *)
(* Every transition runs under the one lock _pull/.lock (owner.go:255) and *)
(* is one action; what a worker or a request does between two transitions  *)
(* interleaves.  A record has two values: what a reader sees, and what the *)
(* disk holds.  A durable replacement sets both; one whose directory sync  *)
(* failed is seen and not on the disk (control.go:40-95), and a loss of    *)
(* power brings the disk's value back.                                     *)
(*                                                                         *)
(* Abstracted: a conversation's evidence is the version of its source;     *)
(* tags are numbers.                                                       *)
(***************************************************************************)
EXTENDS Naturals, FiniteSets

CONSTANTS
    Conversations, Freezes, Leases,
    Clients,         \* each holds one token and runs one request at a time
    Sweeper,         \* the goroutine that runs the sweep
    None,
    Slots,           \* slotsPerKind (owner.go:37)
    SourceAttempts,  \* sourceAttempts (freeze.go:36)
    RecoveryLimit,   \* recoveryLimit (freeze.go:40)
    TTL,             \* remote_server.snapshot_ttl
    Every,           \* how often a request's use is renewed
    MaxTag,          \* bound: tags given out
    MaxTime,         \* bound: ticks of the clock
    MaxChanges,      \* bound: changes of the source
    MaxStops,        \* bound: stops of the process, some a loss of power
    MaxFaults        \* bound: failed writes, deletions and readings

(* A time to live is at least two seconds (config/remote.go:77).           *)
ASSUME PullBounds ==
    /\ {Slots, SourceAttempts, RecoveryLimit, TTL, Every} \subseteq Nat \ {0} /\ TTL # 1
    /\ {MaxTag, MaxTime, MaxChanges, MaxStops, MaxFaults} \subseteq Nat

Tags == 1 .. MaxTag
Snapshots == Conversations \X Tags
Publications == [conv : Conversations, build : Freezes, tag : Tags, digest : Nat]
LeaseRecords == [snap : Snapshots, client : Clients, state : {"open", "broken", "released", "gone"}]

ASSUME PullNames ==
    /\ Freezes \cap Clients = {} /\ Sweeper \notin Freezes \cup Clients
    /\ None \notin Freezes \cup Clients \cup Leases \cup LeaseRecords \cup Publications \cup {Sweeper}
    /\ None \notin Snapshots \cup Nat

Workers == Freezes \cup {Sweeper}
Holders == Clients \cup Freezes

VARIABLES
    now, source, tokens,   \* the clock, each source's version, the tokens file
    state,      \* _state: the greatest tag and the one unfinished publication
    history,    \* _history of each conversation: its greatest and removed tags
    snaps,      \* each snapshot's tree, supersession and last use
    digest,     \* the evidence published under each tag, kept once it is gone
    leases,
    freezes,
    up,         \* a process owns the root's pulls
    owner,      \* who holds each freeze job's lock file
    root,       \* who holds each conversation's _root
    holds,      \* who holds a lock file in each snapshot's _requests
    worker, request, deleting,
    gone,       \* snapshots some request was told are gone
    faults, stops

clock == <<now, source, tokens>>
disk == <<state, history, snaps, digest, leases, freezes>>
locks == <<up, owner, root, holds>>
work == <<worker, request, deleting>>
vars == <<clock, disk, locks, work, gone, faults, stops>>

----------------------------------------------------------------------------
(* Records, and writes of them                                             *)

Rec(v) == [seen |-> v, disk |-> v]
NoUse == [at |-> 0, state |-> "none"]
Use(at) == [at |-> at, state |-> "active"]
NoSnap == [tree |-> Rec("none"), superseded |-> Rec(0), use |-> Rec(NoUse)]
Idle == [pc |-> "idle", ver |-> 0, tries |-> 0, tag |-> 0]
Quiet == [pc |-> "idle", kind |-> "none", freeze |-> None, snap |-> None, lease |-> None, renewed |-> 0]

(* The value of a record after write number `at` of a transition whose     *)
(* write `k` fails (0: none does): those before it are on the disk, the    *)
(* failing one is perhaps seen, those after it are not made.               *)
Write(k, shown, at, old, v) ==
    IF k = 0 \/ at < k THEN Rec(v)
    ELSE IF at = k /\ shown THEN [old EXCEPT !.seen = v]
    ELSE old

(* A transition of n writes fails at one of them, or at none.              *)
Fails(k, shown) == IF k = 0 THEN shown /\ UNCHANGED faults
                   ELSE faults < MaxFaults /\ faults' = faults + 1

Pub == state.seen.pub
Here(s) == snaps[s].tree.seen = "here"
TagsOf(c) == {t \in Tags : Here(<<c, t>>)}
Greatest(a, b) == IF a > b THEN a ELSE b
Removed(s) == s[2] \in history[s[1]].seen.removed

(* A conversation's history once a tag is reserved, and once it is removed. *)
Given(h, t) == [h EXCEPT !.greatest = Greatest(@, t)]
Taken(h, t) == [greatest |-> Greatest(h.greatest, t), removed |-> h.removed \cup {t}]

(* Where a snapshot is in its life, as every request and sweep decides it. *)
Life(s) ==
    CASE Pub # None /\ Pub.conv = s[1] /\ Pub.tag = s[2] -> "unresolved"
      [] Removed(s) -> "removed"
      [] ~Here(s) -> "no snapshot"
      [] snaps[s].use.seen.state = "none" -> "broken"
      [] snaps[s].use.seen.state = "expired" -> "expired"
      [] now >= snaps[s].use.seen.at + TTL -> "expired"
      [] OTHER -> "served"

Expired(s) == [snaps[s].use.seen EXCEPT !.state = "expired"]

(* An expiry, seen or reached, is committed by a fresh write before        *)
(* anything relies on it.                                                  *)
CommitExpiry(s, k, shown) == Write(k, shown, 1, snaps[s].use, Expired(s))

(* So is a supersession that was seen.                                     *)
CommitMark(s, k, shown, at) == Write(k, shown, at, snaps[s].superseded, snaps[s].superseded.seen)

Recorded(s) == [snaps[s].use.seen EXCEPT !.at = now]

OpenLeases(s) == {l \in Leases : leases[l] # None /\ leases[l].snap = s /\ leases[l].state = "open"}
Superseded(s) == snaps[s].superseded.seen # 0

(* The caller's token is in the tokens file and its lease is open.         *)
Authorized(r) ==
    LET l == request[r].lease
    IN  /\ r \in tokens /\ l # None /\ leases[l] # None
        /\ leases[l] = [snap |-> request[r].snap, client |-> r, state |-> "open"]

----------------------------------------------------------------------------
(* Freeze jobs                                                             *)

NewJob(c) == [conv |-> c, attempt |-> 1, started |-> FALSE, state |-> "building",
              snapshot |-> 0, finished |-> 0]

Busy == Cardinality({f \in Freezes : worker[f].pc # "idle"}) +
        IF deleting[Sweeper] # None /\ deleting[Sweeper].next # "done" THEN 1 ELSE 0

(* A manifest's first request joins the conversation's building freeze, or *)
(* makes a job at attempt 1, not started, with its private directory.  One *)
(* asked beside a lease is a request whose answer is lost.                 *)
Follows(r, f) == IF request[r] = Quiet THEN [request EXCEPT ![r].freeze = f] ELSE request

StartFreeze(r, c) ==
    /\ up /\ r \in tokens /\ request[r].pc = "idle" /\ root[c] = None
    /\ LET building == {f \in Freezes : freezes[f] # None /\ freezes[f].conv = c /\ freezes[f].state = "building"}
       IN  \/ \E f \in building :
                /\ request' = Follows(r, f)
                /\ UNCHANGED <<freezes, faults>>
           \/ /\ building = {}
              /\ \E f \in Freezes, k \in {0, 1}, shown \in BOOLEAN :
                    /\ freezes[f] = None /\ owner[f] = None
                    /\ Fails(k, shown)
                    /\ freezes' = IF k = 0 \/ shown THEN [freezes EXCEPT ![f] = NewJob(c)] ELSE freezes
                    /\ request' = IF k = 0 THEN Follows(r, f) ELSE request
    /\ UNCHANGED <<clock, state, history, snaps, digest, leases, locks, worker, deleting, gone, stops>>

(* A claim marks a job started before any work.  A started one whose lock  *)
(* was free was abandoned: it takes its next attempt, or fails at the      *)
(* recovery limit with no worker.                                          *)
Claimed(j) ==
    IF ~j.started THEN [j EXCEPT !.started = TRUE]
    ELSE IF j.attempt + 1 >= RecoveryLimit
         THEN [j EXCEPT !.attempt = @ + 1, !.started = FALSE, !.state = "failed", !.finished = now]
    ELSE [j EXCEPT !.attempt = @ + 1]

ClaimFreeze(f) ==
    /\ up /\ Busy < Slots /\ owner[f] = None
    /\ freezes[f] # None /\ freezes[f].state = "building"
    /\ \E k \in {0, 1}, shown \in BOOLEAN :
        LET j == Claimed(freezes[f])
            runs == k = 0 /\ j.state = "building"
        IN  /\ Fails(k, shown)
            /\ freezes' = IF k = 0 \/ shown THEN [freezes EXCEPT ![f] = j] ELSE freezes
            /\ worker' = IF runs THEN [worker EXCEPT ![f] = [Idle EXCEPT !.pc = "settle"]] ELSE worker
            /\ owner' = IF runs THEN [owner EXCEPT ![f] = f] ELSE owner
    /\ UNCHANGED <<clock, state, history, snaps, digest, leases, up, root, holds, request, deleting, gone, stops>>

Step(f, pc) == worker' = [worker EXCEPT ![f].pc = pc]
At(f, pc) == up /\ worker[f].pc = pc
ConvOf(f) == freezes[f].conv

(* What an earlier attempt of the job published and did not finish is      *)
(* discarded first; then the private directory is made anew.               *)
FreshBuild(f) ==
    /\ At(f, "settle")
    /\ Pub # None => Pub.build # f
    /\ \/ /\ worker[f].tries < SourceAttempts
          /\ worker' = [worker EXCEPT ![f].pc = "read", ![f].ver = source[ConvOf(f)], ![f].tries = @ + 1]
       \/ /\ worker[f].tries = SourceAttempts
          /\ Step(f, "failed")
    /\ UNCHANGED <<clock, state, history, snaps, digest, leases, freezes, locks, request, deleting, gone, faults, stops>>

(* The source is read and checked against itself: one that changed is read *)
(* again, at most SourceAttempts times.  Any other failure fails the job.  *)
ReadSource(f) ==
    /\ At(f, "read")
    /\ \/ /\ source[ConvOf(f)] # worker[f].ver
          /\ Step(f, "settle") /\ UNCHANGED faults
       \/ /\ source[ConvOf(f)] = worker[f].ver
          /\ Step(f, "reuse") /\ UNCHANGED faults
       \/ /\ Fails(1, TRUE) /\ Step(f, "failed")
    /\ UNCHANGED <<clock, disk, locks, request, deleting, gone, stops>>

(* A snapshot a freeze may find again: served, not superseded, and of the  *)
(* same evidence.                                                          *)
Eligible(f, s) == Life(s) = "served" /\ ~Superseded(s) /\ digest[s] = worker[f].ver

(* reuse looks at the newest tree alone.  An expiry or a supersession it   *)
(* sees is written again before it is relied on.                           *)
ReuseOf(f, s) ==
    \E k \in {0, 1}, shown \in BOOLEAN :
        \/ /\ \/ Life(s) \in {"unresolved", "removed"}
              \/ Life(s) = "served" /\ ~Superseded(s) /\ digest[s] # worker[f].ver
           /\ k = 0 /\ Step(f, "reserve") /\ UNCHANGED <<snaps, holds, faults>>
        \/ /\ Life(s) = "broken"
           /\ k = 0 /\ Step(f, "failed") /\ UNCHANGED <<snaps, holds, faults>>
        \/ /\ Life(s) = "expired" \/ (Life(s) = "served" /\ Superseded(s))
           /\ Fails(k, shown)
           /\ snaps' = IF Life(s) = "expired"
                       THEN [snaps EXCEPT ![s].use = CommitExpiry(s, k, shown)]
                       ELSE [snaps EXCEPT ![s].superseded = CommitMark(s, k, shown, 1)]
           /\ Step(f, IF k = 0 THEN "reserve" ELSE "failed") /\ UNCHANGED holds
        \/ /\ Eligible(f, s) /\ k = 0
           /\ holds' = [holds EXCEPT ![s] = @ \cup {f}]
           /\ worker' = [worker EXCEPT ![f].pc = "check", ![f].tag = s[2]]
           /\ UNCHANGED <<snaps, faults>>

Reuse(f) ==
    /\ At(f, "reuse")
    /\ \/ /\ TagsOf(ConvOf(f)) = {} /\ Step(f, "reserve")
          /\ UNCHANGED <<snaps, holds, faults>>
       \/ \E t \in TagsOf(ConvOf(f)) :
              (\A u \in TagsOf(ConvOf(f)) : u <= t) /\ ReuseOf(f, <<ConvOf(f), t>>)
    /\ UNCHANGED <<clock, state, history, digest, leases, freezes, up, owner, root, request, deleting, gone, stops>>

(* The tree found was accepted as whole evidence while it was held; it is  *)
(* looked at once more.                                                    *)
CheckReuse(f) ==
    LET s == <<ConvOf(f), worker[f].tag>>
    IN  /\ At(f, "check")
        /\ holds' = [holds EXCEPT ![s] = @ \ {f}]
        /\ \E k \in {0, 1}, shown \in BOOLEAN :
            IF Life(s) = "expired"
            THEN /\ Fails(k, shown)
                 /\ snaps' = [snaps EXCEPT ![s].use = CommitExpiry(s, k, shown)]
                 /\ Step(f, IF k = 0 THEN "reserve" ELSE "failed")
            ELSE /\ k = 0 /\ UNCHANGED <<snaps, faults>>
                 /\ Step(f, IF Eligible(f, s) THEN "ready" ELSE "reserve")
    /\ UNCHANGED <<clock, state, history, digest, leases, freezes, up, owner, root, request, deleting, gone, stops>>

\* Mutant: the tag behind the newest tree there is.
NextTagListed(c) ==
    IF TagsOf(c) = {} THEN 1 ELSE 1 + CHOOSE t \in TagsOf(c) : \A u \in TagsOf(c) : u <= t

NextTag(c) == Greatest(state.seen.greatest, history[c].seen.greatest) + 1

(* The tag and the intent are reserved.  While another publication holds   *)
(* the one intent, or someone the conversation's _root, the worker waits.  *)
Reserve(f) ==
    LET c == ConvOf(f)
        tag == NextTag(c)
        pub == [conv |-> c, build |-> f, tag |-> tag, digest |-> worker[f].ver]
    IN  /\ At(f, "reserve") /\ Pub = None /\ root[c] = None /\ tag \in Tags
        /\ \E k \in 0 .. 2, shown \in BOOLEAN :
            /\ Fails(k, shown)
            /\ state' = Write(k, shown, 1, state, [greatest |-> tag, pub |-> pub])
            /\ history' = [history EXCEPT ![c] = Write(k, shown, 2, @, Given(@.seen, tag))]
            /\ worker' = [worker EXCEPT ![f].pc = IF k = 0 THEN "finish" ELSE "failed", ![f].tag = tag]
    /\ UNCHANGED <<clock, snaps, digest, leases, freezes, locks, request, deleting, gone, stops>>

(* The tree's record and control directories are made durable in private.  *)
FinishTree(f) ==
    /\ At(f, "finish")
    /\ \/ Step(f, "publish") /\ UNCHANGED faults
       \/ Fails(1, TRUE) /\ Step(f, "failed")
    /\ UNCHANGED <<clock, state, history, snaps, digest, leases, freezes, locks, request, deleting, gone, stops>>

(* The tree is renamed to its tag, the older snapshots are marked, the     *)
(* first use is written, and the intent goes, in that order.               *)
Publish(f) ==
    LET c == ConvOf(f)
        t == worker[f].tag
        Older(u) == u < t /\ Here(<<c, u>>)
        Mark(u) == LET old == snaps[<<c, u>>].superseded
                   IN  IF old.seen = 0 THEN t ELSE old.seen
    IN  /\ At(f, "publish") /\ root[c] = None
        /\ Pub = [conv |-> c, build |-> f, tag |-> t, digest |-> worker[f].ver]
        /\ \E k \in {0} \cup 1 .. t + 2, shown \in BOOLEAN :
            \* write 1: the tree; 1 + u: the older tag u; t + 1: the use; t + 2: the state
            /\ k \in 2 .. t => Older(k - 1)
            /\ Fails(k, shown)
            /\ snaps' = [s \in Snapshots |->
                  IF s = <<c, t>>
                  THEN [snaps[s] EXCEPT !.tree = Write(k, shown, 1, @, "here"), !.use = Write(k, shown, t + 1, @, Use(now))]
                  ELSE IF s[1] = c /\ Older(s[2])
                  THEN [snaps[s] EXCEPT !.superseded = Write(k, shown, 1 + s[2], @, Mark(s[2]))]
                  ELSE snaps[s]]
            /\ digest' = IF k = 1 /\ ~shown THEN digest ELSE [digest EXCEPT ![<<c, t>>] = worker[f].ver]
            /\ state' = Write(k, shown, t + 2, state, [state.seen EXCEPT !.pub = None])
            /\ Step(f, IF k = 0 THEN "ready" ELSE "failed")
    /\ UNCHANGED <<clock, history, leases, freezes, locks, request, deleting, gone, stops>>

(* A worker's result is saved while its job is still the attempt it works  *)
(* on; one that cannot be saved is left for the next claim.  A finished    *)
(* job is its outcome: nothing asks for its attempts again.                *)
FinishFreeze(f) ==
    /\ up /\ worker[f].pc \in {"ready", "failed"}
    /\ \E k \in {0, 1}, shown \in BOOLEAN :
        LET ready == worker[f].pc = "ready"
            j == [NewJob(ConvOf(f)) EXCEPT !.state = worker[f].pc, !.finished = IF ready THEN 0 ELSE now,
                                           !.snapshot = IF ready THEN worker[f].tag ELSE 0]
        IN  /\ Fails(k, shown)
            /\ freezes' = IF k = 0 \/ shown THEN [freezes EXCEPT ![f] = j] ELSE freezes
    /\ worker' = [worker EXCEPT ![f] = Idle]
    /\ owner' = [owner EXCEPT ![f] = None]
    /\ UNCHANGED <<clock, state, history, snaps, digest, leases, up, root, holds, request, deleting, gone, stops>>

----------------------------------------------------------------------------
(* Unfinished publications                                                 *)

(* Whoever finds the intent's owner gone takes its lock and discards the   *)
(* publication: a waiting worker, an attempt of the same job, the sweep.   *)
MayDiscard(a) ==
    \/ a = Sweeper /\ owner[Pub.build] = None /\ Busy < Slots
    \/ a \in Freezes /\ worker[a].pc = "settle" /\ Pub.build = a
    \/ a \in Freezes /\ worker[a].pc = "reserve" /\ owner[Pub.build] = None

(* Its tag is recorded removed, and its tree, if any, moved away; the      *)
(* conversation's _root is held until the tree is deleted.  When the       *)
(* record or the move fails, its owner's lock is let go.                   *)
Discard(a) ==
    /\ up /\ deleting[a] = None /\ Pub # None /\ MayDiscard(a) /\ root[Pub.conv] = None
    /\ LET c == Pub.conv
           s == <<c, Pub.tag>>
       IN  \E k \in 0 .. 2, shown \in BOOLEAN :
            /\ k = 2 => Here(s)
            /\ Fails(k, shown)
            /\ history' = [history EXCEPT ![c] = Write(k, shown, 1, @, Taken(@.seen, Pub.tag))]
            /\ snaps' = IF Here(s) THEN [snaps EXCEPT ![s].tree = Write(k, shown, 2, @, "moved")] ELSE snaps
            /\ root' = IF k = 0 THEN [root EXCEPT ![c] = a] ELSE root
            /\ owner' = IF k = 0 THEN [owner EXCEPT ![Pub.build] = a] ELSE owner
            /\ deleting' = IF k = 0 THEN [deleting EXCEPT ![a] = [snap |-> s, next |-> "clear", pub |-> Pub]] ELSE deleting
            /\ worker' = IF k # 0 /\ a \in Freezes THEN [worker EXCEPT ![a].pc = "failed"] ELSE worker
    /\ UNCHANGED <<clock, state, digest, leases, freezes, up, holds, request, gone, stops>>

MarkedBy(pub) == {s \in Snapshots : s[1] = pub.conv /\ Here(s) /\ snaps[s].superseded.seen = pub.tag}
MarkedAgain(marked, k, shown) ==
    [s \in Snapshots |-> IF s \in marked THEN [snaps[s] EXCEPT !.superseded = CommitMark(s, k, shown, 1)]
                         ELSE snaps[s]]

(* What the publication marked superseded is written again before the      *)
(* intent goes.                                                            *)
ClearIntent(a) ==
    /\ up /\ deleting[a] # None /\ deleting[a].next = "intent"
    /\ LET pub == deleting[a].pub
       IN  \E k \in 0 .. 2, shown \in BOOLEAN :
            /\ k = 1 => MarkedBy(pub) # {}
            /\ Pub # pub => k = 0
            /\ Fails(k, shown)
            /\ snaps' = IF Pub # pub THEN snaps ELSE MarkedAgain(MarkedBy(pub), k, shown)
            /\ state' = IF Pub # pub THEN state ELSE Write(k, shown, 2, state, [state.seen EXCEPT !.pub = None])
            /\ worker' = IF k # 0 /\ a \in Freezes THEN [worker EXCEPT ![a].pc = "failed"] ELSE worker
            /\ owner' = IF pub.build = a THEN owner ELSE [owner EXCEPT ![pub.build] = None]
    /\ deleting' = [deleting EXCEPT ![a] = None]
    /\ UNCHANGED <<clock, history, digest, leases, freezes, up, root, holds, request, gone, stops>>

----------------------------------------------------------------------------
(* Removal                                                                 *)

(* A snapshot is due once its expiry is committed, its tag removed, or it  *)
(* is superseded with no open lease; a lease record cut short does not     *)
(* read, and leaves it to its expiry.  One still held is only expired.     *)
Unreadable(s) == \E l \in Leases : leases[l] # None /\ leases[l].snap = s /\ leases[l].state = "broken"
Due(s) == \/ Life(s) \in {"removed", "expired"}
          \/ Life(s) = "served" /\ Superseded(s) /\ OpenLeases(s) = {} /\ ~Unreadable(s)

\* Mutant: nobody looks at the lock files.
HeldByNone(s) == FALSE

Held(s) == holds[s] # {}

(* Writes: 1, the expiry or the supersession that was seen; 2, the expiry  *)
(* of one still held, or else the tag in the history; 3, the move.         *)
RemoveIfDue(a, s) ==
    LET c == s[1]
        life == Life(s)
        expires == Due(s) /\ Held(s) /\ life = "served"
        goes == Due(s) /\ ~Held(s) /\ root[c] = None
    IN  /\ up /\ deleting[a] = None
        /\ Due(s) \/ (life = "served" /\ Superseded(s))
        /\ \E k \in 0 .. 3, shown \in BOOLEAN :
            /\ k = 1 => life # "removed"
            /\ k = 2 => expires \/ goes
            /\ k = 3 => goes /\ Here(s)
            /\ Fails(k, shown)
            /\ snaps' = [snaps EXCEPT ![s] =
                  [use |-> IF life = "expired" THEN CommitExpiry(s, k, shown)
                           ELSE IF expires THEN Write(k, shown, 2, @.use, Expired(s)) ELSE @.use,
                   superseded |-> IF life = "served" THEN CommitMark(s, k, shown, 1) ELSE @.superseded,
                   tree |-> IF goes /\ Here(s) THEN Write(k, shown, 3, @.tree, "moved") ELSE @.tree]]
            /\ history' = IF goes THEN [history EXCEPT ![c] = Write(k, shown, 2, @, Taken(@.seen, s[2]))] ELSE history
            /\ root' = IF goes /\ k = 0 THEN [root EXCEPT ![c] = a] ELSE root
            /\ deleting' = IF goes /\ k = 0 THEN [deleting EXCEPT ![a] = [snap |-> s, next |-> "done", pub |-> None]] ELSE deleting
    /\ UNCHANGED <<clock, state, digest, leases, freezes, up, owner, holds, worker, gone, stops>>

(* The sweep removes what is there: a removed tag's tree only while it is. *)
Sweep(s) ==
    /\ Here(s) /\ RemoveIfDue(Sweeper, s) /\ UNCHANGED request

(* A detached tree an earlier removal left is deleted once the history is  *)
(* written again with its tag.                                             *)
ReplayRemoving(s) ==
    /\ up /\ deleting[Sweeper] = None /\ snaps[s].tree.seen = "moved" /\ root[s[1]] = None
    /\ \E k \in {0, 1}, shown \in BOOLEAN :
        /\ Fails(k, shown)
        /\ history' = [history EXCEPT ![s[1]] = Write(k, shown, 1, @, Taken(@.seen, s[2]))]
        /\ root' = IF k = 0 THEN [root EXCEPT ![s[1]] = Sweeper] ELSE root
        /\ deleting' = IF k = 0 THEN [deleting EXCEPT ![Sweeper] = [snap |-> s, next |-> "done", pub |-> None]] ELSE deleting
    /\ UNCHANGED <<clock, state, snaps, digest, leases, freezes, up, owner, holds, worker, request, gone, stops>>

(* A detached tree goes with everything in it, under _root alone.  One that *)
(* is not deleted whole stays for the next pass.                           *)
DeleteTree(a) ==
    /\ up /\ deleting[a] # None /\ deleting[a].next \in {"clear", "done"}
    /\ LET s == deleting[a].snap
           pub == deleting[a].pub
       IN  \E k \in {0, 1} :
            /\ k = 1 => snaps[s].tree.seen = "moved"
            /\ Fails(k, TRUE)
            /\ IF k = 0 /\ snaps[s].tree.seen = "moved"
               THEN /\ snaps' = [snaps EXCEPT ![s] = NoSnap]
                    /\ leases' = [l \in Leases |-> IF leases[l] # None /\ leases[l].snap = s
                                                   THEN [leases[l] EXCEPT !.state = "gone"] ELSE leases[l]]
               ELSE UNCHANGED <<snaps, leases>>
            /\ root' = [root EXCEPT ![s[1]] = None]
            /\ IF k = 0 /\ deleting[a].next = "clear"
               THEN /\ deleting' = [deleting EXCEPT ![a].next = "intent"]
                    /\ UNCHANGED <<owner, worker>>
               ELSE /\ deleting' = [deleting EXCEPT ![a] = None]
                    /\ owner' = IF pub # None /\ pub.build # a THEN [owner EXCEPT ![pub.build] = None] ELSE owner
                    /\ worker' = IF pub # None /\ a \in Freezes THEN [worker EXCEPT ![a].pc = "failed"] ELSE worker
    /\ UNCHANGED <<clock, state, history, digest, freezes, up, holds, request, gone, stops>>

(* A finished job goes once it is no longer asked for: a ready one whose   *)
(* snapshot is gone, a failed one a time to live after it ended.           *)
RemoveFreeze(f) ==
    /\ up /\ deleting[Sweeper] = None /\ owner[f] = None /\ freezes[f] # None
    /\ \/ freezes[f].state = "ready" /\ ~Here(<<freezes[f].conv, freezes[f].snapshot>>)
       \/ freezes[f].state = "failed" /\ now >= freezes[f].finished + TTL
    /\ \E k \in {0, 1} :
        /\ Fails(k, TRUE)
        /\ freezes' = IF k = 0 THEN [freezes EXCEPT ![f] = None] ELSE freezes
    /\ UNCHANGED <<clock, state, history, snaps, digest, leases, locks, work, gone, stops>>

----------------------------------------------------------------------------
(* Requests on a snapshot                                                  *)

Answered(r, keep) == [Quiet EXCEPT !.freeze = IF keep THEN request[r].freeze ELSE None,
                                   !.snap = IF keep /\ request[r].lease # None THEN request[r].snap ELSE None,
                                   !.lease = IF keep THEN request[r].lease ELSE None]
LetGo(r) == holds' = [s \in Snapshots |-> holds[s] \ {r}]
On(r, pc) == up /\ request[r].pc = pc
Snap(r) == request[r].snap

(* A poll of a freeze: gone, failed with its problem, or ready.            *)
Poll(r) ==
    /\ up /\ r \in tokens /\ request[r].pc = "idle" /\ request[r].freeze # None
    /\ LET j == freezes[request[r].freeze]
       IN  \/ /\ j # None => j.state = "failed"
              /\ request' = [request EXCEPT ![r] = Quiet]
           \/ /\ j # None /\ j.state = "ready"
              /\ request' = [request EXCEPT ![r].pc = "hold", ![r].kind = "manifest", ![r].snap = <<j.conv, j.snapshot>>]
    /\ UNCHANGED <<clock, disk, locks, worker, deleting, gone, faults, stops>>

(* A request under a lease: an archive's creation, its state, or a range.  *)
Ask(r) ==
    /\ up /\ r \in tokens /\ request[r].pc = "idle" /\ request[r].lease # None /\ deleting[r] = None
    /\ request' = [request EXCEPT ![r].pc = "hold", ![r].kind = "use"]
    /\ UNCHANGED <<clock, disk, locks, worker, deleting, gone, faults, stops>>

(* The check that a snapshot is served and the hold on it are one          *)
(* transition, so no removal comes between them.                           *)
HoldSnapshot(r) ==
    /\ On(r, "hold") /\ Life(Snap(r)) = "served"
    /\ holds' = [holds EXCEPT ![Snap(r)] = @ \cup {r}]
    /\ request' = [request EXCEPT ![r].pc = "held"]
    /\ UNCHANGED <<clock, disk, up, owner, root, worker, deleting, gone, faults, stops>>

(* Whatever a request is about to do, a snapshot no longer served refuses  *)
(* it, its expiry committed first.                                         *)
Refused(r) ==
    /\ up /\ request[r].pc \in {"hold", "held", "done"} /\ Life(Snap(r)) # "served"
    /\ LET s == Snap(r)
       IN  \E k \in {0, 1}, shown \in BOOLEAN :
            /\ k = 1 => Life(s) = "expired"
            /\ Fails(k, shown)
            /\ snaps' = IF Life(s) = "expired" THEN [snaps EXCEPT ![s].use = CommitExpiry(s, k, shown)] ELSE snaps
            /\ LET answered == k = 0 /\ Life(s) # "broken"
               IN  /\ gone' = IF answered THEN gone \cup {s} ELSE gone
                   /\ request' = [request EXCEPT ![r] = Answered(r, ~answered \/ request[r].kind = "manifest")]
    /\ LetGo(r)
    /\ UNCHANGED <<clock, state, history, digest, leases, freezes, up, owner, root, worker, deleting, stops>>

(* A request whose lease is not its token's, or not open, is refused too.  *)
Forbidden(r) ==
    /\ On(r, "held") /\ Life(Snap(r)) = "served"
    /\ IF request[r].kind = "manifest" THEN r \notin tokens ELSE ~Authorized(r)
    /\ request' = [request EXCEPT ![r] = Quiet]
    /\ LetGo(r)
    /\ UNCHANGED <<clock, disk, up, owner, root, worker, deleting, gone, faults, stops>>

\* Mutant: a superseded snapshot no lease holds still takes one.
LeasedAnyway(s) == FALSE

Unleased(s) == Superseded(s) /\ OpenLeases(s) = {}

(* A lease on a ready snapshot.  A superseded one no open lease holds is   *)
(* due, though nothing expired it yet: it expires here and takes none.     *)
(* Writes: 1, the supersession; 2, the lease or the expiry; 3, the use.    *)
Grant(r) ==
    LET s == Snap(r)
        due == Unleased(s)
        reads == ~(Superseded(s) /\ Unreadable(s))
    IN  /\ On(r, "held") /\ request[r].kind = "manifest" /\ r \in tokens /\ Life(s) = "served"
        /\ \E k \in 0 .. 3, shown \in BOOLEAN, l \in Leases :
            /\ leases[l] = None
            /\ k = 1 => Superseded(s)
            /\ k = 2 => reads
            /\ k = 3 => reads /\ ~due
            /\ Fails(k, shown)
            /\ LET granted == reads /\ ~due /\ k \in {0, 3}
                   use == IF ~reads THEN snaps[s].use
                          ELSE IF due THEN Write(k, shown, 2, snaps[s].use, Expired(s))
                          ELSE Write(k, shown, 3, snaps[s].use, Recorded(s))
               IN  /\ snaps' = [snaps EXCEPT ![s] =
                          [use |-> use, tree |-> @.tree,
                           superseded |-> IF Superseded(s) THEN CommitMark(s, k, shown, 1) ELSE @.superseded]]
                   /\ leases' = IF granted THEN [leases EXCEPT ![l] = [snap |-> s, client |-> r, state |-> "open"]]
                                ELSE IF ~due /\ k = 2 /\ shown
                                THEN [leases EXCEPT ![l] = [snap |-> s, client |-> r, state |-> "broken"]]
                                ELSE leases
                   /\ gone' = IF reads /\ due /\ k = 0 THEN gone \cup {s} ELSE gone
                   /\ IF granted /\ k = 0
                      THEN /\ request' = [request EXCEPT ![r].pc = "sending", ![r].lease = l, ![r].renewed = now]
                           /\ UNCHANGED holds
                      ELSE /\ request' = [request EXCEPT ![r] = Answered(r, ~(reads /\ due /\ k = 0))]
                           /\ LetGo(r)
    /\ UNCHANGED <<clock, state, history, digest, freezes, up, owner, root, worker, deleting, stops>>

(* A request under its lease: its use is recorded, and renewed from now on. *)
Admit(r) ==
    LET s == Snap(r)
    IN  /\ On(r, "held") /\ request[r].kind # "manifest" /\ Life(s) = "served" /\ Authorized(r)
        /\ \E k \in {0, 1}, shown \in BOOLEAN :
            /\ Fails(k, shown)
            /\ snaps' = [snaps EXCEPT ![s].use = Write(k, shown, 1, @, Recorded(s))]
            /\ IF k = 0
               THEN /\ request' = [request EXCEPT ![r].pc = "sending", ![r].renewed = now]
                    /\ UNCHANGED holds
               ELSE /\ request' = [request EXCEPT ![r] = Answered(r, TRUE)]
                    /\ LetGo(r)
    /\ UNCHANGED <<clock, state, history, digest, leases, freezes, up, owner, root, worker, deleting, gone, stops>>

Renews(r) == request[r].pc = "sending" /\ request[r].renewed # 0

(* While a request is answered its use is renewed; the first renewal that  *)
(* fails is the last.                                                      *)
Renew(r) ==
    LET s == Snap(r)
    IN  /\ up /\ Renews(r) /\ request[r].renewed < now
        /\ IF Life(s) = "served" /\ Authorized(r)
           THEN \E k \in {0, 1}, shown \in BOOLEAN :
                    /\ Fails(k, shown)
                    /\ snaps' = [snaps EXCEPT ![s].use = Write(k, shown, 1, @, Recorded(s))]
                    /\ request' = [request EXCEPT ![r].renewed = IF k = 0 THEN now ELSE 0]
           ELSE request' = [request EXCEPT ![r].renewed = 0] /\ UNCHANGED <<snaps, faults>>
    /\ UNCHANGED <<clock, state, history, digest, leases, freezes, locks, worker, deleting, gone, stops>>

(* The answer is sent whole, or its reader is lost with it, before what    *)
(* the request holds is let go.                                            *)
Sent(r) ==
    /\ On(r, "sending")
    /\ \/ request' = [request EXCEPT ![r] = [Answered(r, TRUE) EXCEPT !.freeze = None]] /\ UNCHANGED faults
       \/ Fails(1, TRUE) /\ request' = [request EXCEPT ![r] = Quiet]
    /\ LetGo(r)
    /\ UNCHANGED <<clock, disk, up, owner, root, worker, deleting, gone, stops>>

(* Done: the lease is released, and a superseded snapshot whose last lease *)
(* it was expires in the same transition.                                  *)
Done(r) ==
    /\ up /\ r \in tokens /\ request[r].pc = "idle" /\ request[r].lease # None /\ deleting[r] = None
    /\ request' = [request EXCEPT ![r].pc = "done"]
    /\ UNCHANGED <<clock, disk, locks, worker, deleting, gone, faults, stops>>

ReleaseLease(r) ==
    LET s == Snap(r)
        l == request[r].lease
        last == Superseded(s) /\ OpenLeases(s) = {l} /\ ~Unreadable(s)
    IN  /\ On(r, "done") /\ Life(s) = "served" /\ leases[l].state = "open"
        /\ \E k \in 0 .. 4, shown \in BOOLEAN :
            /\ k = 3 => Superseded(s)
            /\ k = 4 => last
            /\ Fails(k, shown)
            /\ LET used == Write(k, shown, 1, snaps[s].use, Recorded(s))
                   released == k \notin {1, 2} \/ (k = 2 /\ shown)
               IN  /\ snaps' = [snaps EXCEPT ![s] =
                          [use |-> IF last THEN Write(k, shown, 4, used, [used.seen EXCEPT !.state = "expired"]) ELSE used,
                           tree |-> @.tree,
                           superseded |-> IF Superseded(s) THEN CommitMark(s, k, shown, 3) ELSE @.superseded]]
                   /\ leases' = IF released THEN [leases EXCEPT ![l].state = "released"] ELSE leases
                   /\ request' = IF k = 0 THEN [request EXCEPT ![r].pc = "removing"]
                                 ELSE [request EXCEPT ![r] = IF released THEN Quiet ELSE Answered(r, TRUE)]
    /\ UNCHANGED <<clock, state, history, digest, freezes, locks, worker, deleting, gone, stops>>

RemoveReleased(r) ==
    /\ On(r, "removing")
    /\ request' = [request EXCEPT ![r] = Quiet]
    /\ \/ RemoveIfDue(r, Snap(r))
       \/ /\ ~(Due(Snap(r)) \/ (Life(Snap(r)) = "served" /\ Superseded(Snap(r))))
          /\ UNCHANGED <<clock, disk, locks, worker, deleting, gone, faults, stops>>

(* A done sent again is answered as done.                                  *)
ReleaseAgain(r) ==
    /\ On(r, "done") /\ Life(Snap(r)) = "served" /\ leases[request[r].lease].state = "released"
    /\ request' = [request EXCEPT ![r].pc = "removing"]
    /\ UNCHANGED <<clock, disk, locks, worker, deleting, gone, faults, stops>>

----------------------------------------------------------------------------
(* The world                                                               *)

\* Mutant: renewals are spaced by the server's interval alone.
IntervalPlain == Every

Interval == IF TTL \div 2 > 0 /\ TTL \div 2 < Every THEN TTL \div 2 ELSE Every

(* Time passes; a renewal that is due runs before the next tick.           *)
Tick ==
    /\ now < MaxTime
    /\ \A r \in Clients : Renews(r) => now < request[r].renewed + Interval
    /\ now' = now + 1
    /\ UNCHANGED <<source, tokens, disk, locks, work, gone, faults, stops>>

(* A parser or a collector changes the conversation's evidence.            *)
Change(c) ==
    /\ source[c] < MaxChanges
    /\ source' = [source EXCEPT ![c] = @ + 1]
    /\ UNCHANGED <<now, tokens, disk, locks, work, gone, faults, stops>>

(* The operator takes a token out of the tokens file.                      *)
TokenGone(r) ==
    /\ r \in tokens /\ faults < MaxFaults /\ faults' = faults + 1
    /\ tokens' = tokens \ {r}
    /\ UNCHANGED <<now, source, disk, locks, work, gone, stops>>

(* A client stops with its lease open.                                     *)
Forget(r) ==
    /\ request[r].pc = "idle" /\ request[r] # Quiet /\ deleting[r] = None
    /\ request' = [request EXCEPT ![r] = Quiet]
    /\ UNCHANGED <<clock, disk, locks, worker, deleting, gone, faults, stops>>

(* A manifest cut off gives no lease that its client knows.                *)
Cut(r) == IF request[r].pc = "sending" /\ request[r].kind = "manifest"
          THEN [Quiet EXCEPT !.freeze = request[r].freeze] ELSE Answered(r, TRUE)

(* The process stops, and every lock it held goes with it.  A loss of      *)
(* power leaves of each record what is on the disk.                        *)
Crash(power) ==
    /\ up /\ stops < MaxStops
    /\ stops' = stops + 1
    /\ up' = FALSE
    /\ owner' = [f \in Freezes |-> None] /\ root' = [c \in Conversations |-> None]
    /\ holds' = [s \in Snapshots |-> {}]
    /\ worker' = [f \in Freezes |-> Idle]
    /\ deleting' = [a \in Freezes \cup Clients \cup {Sweeper} |-> None]
    /\ request' = [r \in Clients |-> Cut(r)]
    /\ IF power
       THEN /\ state' = Rec(state.disk)
            /\ history' = [c \in Conversations |-> Rec(history[c].disk)]
            /\ snaps' = [s \in Snapshots |-> [tree |-> Rec(snaps[s].tree.disk), superseded |-> Rec(snaps[s].superseded.disk),
                                              use |-> Rec(snaps[s].use.disk)]]
       ELSE UNCHANGED <<state, history, snaps>>
    /\ UNCHANGED <<clock, digest, leases, freezes, gone, faults>>

StartProcess == ~up /\ up' = TRUE /\ UNCHANGED <<clock, disk, owner, root, holds, work, gone, faults, stops>>

----------------------------------------------------------------------------

Init ==
    /\ now = 1 /\ source = [c \in Conversations |-> 0] /\ tokens = Clients
    /\ state = Rec([greatest |-> 0, pub |-> None])
    /\ history = [c \in Conversations |-> Rec([greatest |-> 0, removed |-> {}])]
    /\ snaps = [s \in Snapshots |-> NoSnap]
    /\ digest = [s \in Snapshots |-> None]
    /\ leases = [l \in Leases |-> None]
    /\ freezes = [f \in Freezes |-> None]
    /\ up = TRUE /\ owner = [f \in Freezes |-> None] /\ root = [c \in Conversations |-> None]
    /\ holds = [s \in Snapshots |-> {}]
    /\ worker = [f \in Freezes |-> Idle] /\ request = [r \in Clients |-> Quiet]
    /\ deleting = [a \in Freezes \cup Clients \cup {Sweeper} |-> None]
    /\ gone = {} /\ faults = 0 /\ stops = 0

FreezeStep(f) ==
    \/ ClaimFreeze(f) \/ FreshBuild(f) \/ ReadSource(f) \/ Reuse(f) \/ CheckReuse(f)
    \/ Reserve(f) \/ FinishTree(f) \/ Publish(f) \/ FinishFreeze(f)

Settle(a) == Discard(a) \/ DeleteTree(a) \/ ClearIntent(a)

SweepStep ==
    \/ \E s \in Snapshots : Sweep(s) \/ ReplayRemoving(s)
    \/ \E f \in Freezes : RemoveFreeze(f)

RequestStep(r) ==
    \/ HoldSnapshot(r) \/ Refused(r) \/ Forbidden(r) \/ Grant(r) \/ Admit(r) \/ Renew(r)
    \/ Sent(r) \/ ReleaseLease(r) \/ ReleaseAgain(r) \/ RemoveReleased(r)

ClientStep(r) ==
    \/ \E c \in Conversations : StartFreeze(r, c)
    \/ Poll(r) \/ Ask(r) \/ Done(r) \/ Forget(r)

World ==
    \/ Tick \/ (\E c \in Conversations : Change(c)) \/ (\E r \in Clients : TokenGone(r))
    \/ \E power \in BOOLEAN : Crash(power)
    \/ StartProcess

Next ==
    \/ \E f \in Freezes : FreezeStep(f) \/ Settle(f)
    \/ SweepStep \/ Settle(Sweeper)
    \/ \E r \in Clients : RequestStep(r) \/ DeleteTree(r) \/ ClientStep(r)
    \/ World

Spec == Init /\ [][Next]_vars

----------------------------------------------------------------------------
(* Properties                                                              *)

(* A held snapshot's tree is there: no removal takes it from a reader      *)
(* (activeWork, held and removeIfDue, snapshot.go:48-96, 692-771).         *)
HeldStays == \A s \in Snapshots : holds[s] # {} => Here(s)

(* A snapshot a request was told is gone (410) can never be used again,    *)
(* even after a loss of power: what an answer rests on is committed before *)
(* it.  (A removal whose history did not reach the disk is seen again as a *)
(* superseded snapshot no lease holds, which takes no lease.)              *)
GoneStaysGone ==
    \A s \in gone : Life(s) = "served" => Superseded(s) /\ OpenLeases(s) = {}

(* A tag names one evidence for ever: what is published under a tag never  *)
(* changes, and a tag is never given out twice.                            *)
TagNamesOne == [][\A s \in Snapshots : digest[s] # None => digest'[s] = digest[s]]_vars

(* A request at work under its lease never sees its snapshot stop being    *)
(* served (renewWhile, routes.go:633-678).                                 *)
AtWorkServed ==
    \A r \in Clients : up /\ Renews(r) /\ Authorized(r) => Life(Snap(r)) = "served"

============================================================================
