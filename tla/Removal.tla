------------------------------ MODULE Removal ------------------------------
(***************************************************************************)
(* Retention's level 1 (internal/retention): the landed files of an idle   *)
(* session are replaced by skeletons, and the bodies later files are built *)
(* from are kept in the session's store.                                   *)
(*                                                                         *)
(* A pipeline runs pass after pass under the root's lock: it finishes the  *)
(* removal an earlier pass left (Recover), lands and parses what is new,   *)
(* and removes (Pass).  A pass may stop at any point, the sync that should *)
(* make a name durable may fail, and the machine may lose power.  A judge  *)
(* run reads the session between passes.  asz verify reads it with no lock *)
(* at all.                                                                 *)
(*                                                                         *)
(* Abstractions.  The session's landed files are provider bodies, each a   *)
(* file of its own and all of one chain: body k may copy from the chain's  *)
(* tip, body k - 1, and may cite one piece, which an earlier body holds.   *)
(* A skeleton is the generation it was written for.  Nothing is exported   *)
(* and no metrics are derived, so no request waits in the spool.  Landing  *)
(* is one step and durable: retention never asks whether it was.           *)
(***************************************************************************)
EXTENDS Integers, Sequences

CONSTANTS
    Fallible,     \* the places whose sync may fail in this instance
    MaxSeq,       \* bound: bodies that land
    MaxGen,       \* bound: generations of removals
    MaxFailures,  \* bound: syncs that fail
    MaxStops,     \* bound: passes that stop in the middle
    MaxLosses,    \* bound: losses of power
    MaxChecks,    \* bound: runs of asz verify
    Attempts      \* scanAttempts of a run of asz verify

Places == {"tip", "intent", "skeleton", "phase", "generation", "deletions", "end", "piece"}

ASSUME RemovalAssumption ==
    /\ Fallible \subseteq Places
    /\ MaxSeq \in Nat /\ MaxGen \in Nat
    /\ MaxFailures \in Nat /\ MaxStops \in Nat /\ MaxLosses \in Nat /\ MaxChecks \in Nat
    /\ Attempts \in Nat \ {0}

VARIABLES
    body,      \* what each landed body is built from, by sequence
    landed,    \* <name>-<seq>.sd of each sequence
    skeleton,  \* <name>-<seq>.sk of each sequence
    intent,    \* removing.json
    state,     \* removal.state
    tip,       \* provider/tips/<generation>/<body>
    piece,     \* provider/pieces/<piece>, named by the body that held it first
    parsed,    \* the sequence the chain's head covers
    judging,   \* a judge run of the session is active
    job,       \* what the pipeline's pass holds in memory
    check,     \* what asz verify holds in memory
    gone,      \* the sequences whose file was ever deleted: history
    faults     \* failures, stops, losses and checks so far

disk == <<landed, skeleton, intent, state, tip, piece>>
vars == <<body, disk, parsed, judging, job, check, gone, faults>>

Seqs == 1 .. MaxSeq
Gens == 1 .. MaxGen
Top == Len(body)

-----------------------------------------------------------------------------
(* A name in a directory, as a process sees it and as a loss of power may   *)
(* leave it.  A sync settles every name of a directory, but for those an    *)
(* earlier sync of it failed on: their cached state may look clean.         *)

Settled(v) == [now |-> v, may |-> {v}, stuck |-> FALSE]
Written(e, v) == [now |-> v, may |-> e.may \cup {v}, stuck |-> FALSE]
Flushed(e) == IF e.stuck THEN e ELSE Settled(e.now)
Failed(e) == [e EXCEPT !.stuck = e.may # {e.now}]

\* How a sync comes out: done, failed, or never reached.
Outcomes == {"synced", "failed", "stopped"}
Synced(o, e) ==
    CASE o = "synced" -> Flushed(e)
      [] o = "failed" -> Failed(e)
      [] o = "stopped" -> e
EachSynced(o, f) == [x \in DOMAIN f |-> Synced(o, f[x])]

Absent == 0
Reserved == -1   \* the empty file a stopped WriteExclusive may leave
NoIntent == [generation |-> 0, through |-> 0, phase |-> "none"]

Phases == {"skeletons", "delete"}
Intents == {NoIntent} \cup [generation : Gens, through : Seqs, phase : Phases]

Away == [at |-> "away", from |-> "none", generation |-> 0, through |-> 0, done |-> 0]
Unread == [generation |-> 0, inProgress |-> FALSE, through |-> 0]
NoCheck == [at |-> "done", next |-> "list", attempt |-> 0, first |-> 0, before |-> Unread, read |-> Unread,
            listed |-> {}, asSkeleton |-> {}, removed |-> {}, built |-> {}, problem |-> FALSE,
            verdict |-> "none"]

Init ==
    /\ body = <<>>
    /\ landed = [s \in Seqs |-> Settled(FALSE)]
    /\ skeleton = [s \in Seqs |-> Settled(Absent)]
    /\ intent = Settled(NoIntent)
    /\ state = Settled(0)
    /\ tip = [g \in Gens |-> [s \in Seqs |-> Settled(FALSE)]]
    /\ piece = [s \in Seqs |-> Settled(FALSE)]
    /\ parsed = 0
    /\ judging = FALSE
    /\ job = Away
    /\ check = NoCheck
    /\ gone = {}
    /\ faults = [failures |-> 0, stops |-> 0, losses |-> 0, checks |-> 0]

-----------------------------------------------------------------------------
(* What the session holds. *)

Least(S) == CHOOSE x \in S : \A y \in S : x <= y

Whole(sk) == sk \notin {Absent, Reserved}
IsLanded(s) == landed[s].now
IsRemoved(s) == ~landed[s].now /\ skeleton[s].now # Absent
Removing == intent.now # NoIntent
Covered(s) == Removing /\ s <= intent.now.through

HasTip(s) == \E g \in Gens : tip[g][s].now
HasPiece(s) == s # 0 => IsLanded(s) \/ piece[s].now

\* The bodies whose bytes there are: a landed one whose base and piece there
\* are, and a removed one the store keeps.
Builds[s \in 0 .. MaxSeq] ==
    IF s = 0 THEN TRUE
    ELSE IF IsLanded(s) THEN Builds[body[s].base] /\ HasPiece(body[s].cites)
    ELSE HasTip(s)

-----------------------------------------------------------------------------
(* Syncs, and where a pass goes on.                                         *)

\* The session's directory holds the intent and the state, and ProviderDir the
\* landed files and their skeletons.  The store is a directory of its own.
SessionSync(o, i, st) == intent' = Synced(o, i) /\ state' = Synced(o, st)
ProviderSync(o, l, sk) == landed' = EachSynced(o, l) /\ skeleton' = EachSynced(o, sk)

\* BodyStore.put syncs the directories of the store and then the session's, and
\* goes no further than the first that fails: a file of the store is there for
\* good when all of them are.  It syncs nothing of the landed files' directory.
Reached(o, n, dir) == IF dir < n THEN "synced" ELSE IF dir = n THEN o ELSE "stopped"
ParentsSync(o, n) ==
    /\ o = "synced" <=> n = 2
    /\ SessionSync(Reached(o, n, 1), intent, state)

Counted(o, place) ==
    \/ o = "synced" /\ UNCHANGED faults
    \/ /\ o = "failed" /\ place \in Fallible /\ faults.failures < MaxFailures
       /\ faults' = [faults EXCEPT !.failures = @ + 1]
    \/ /\ o = "stopped" /\ faults.stops < MaxStops
       /\ faults' = [faults EXCEPT !.stops = @ + 1]

\* An error ends what the pass does to the session, not the pass.
GivenUp == IF job.from = "recover" THEN [Away EXCEPT !.at = "collect"] ELSE Away

Then(o, next) ==
    job' = CASE o = "synced" -> next
             [] o = "failed" -> GivenUp
             [] o = "stopped" -> Away

-----------------------------------------------------------------------------
(* A pass of the pipeline, up to its own removal. *)

\* The root's lock is taken.
StartPass ==
    /\ job.at = "away"
    /\ job' = [Away EXCEPT !.at = "recover"]
    /\ UNCHANGED <<body, disk, parsed, gone, judging, check, faults>>

\* Mutant: only a removal that has deleted nothing is finished.
ToRecoverEarly == Removing /\ ~judging /\ intent.now.phase = "skeletons"

ToRecover == Removing /\ ~judging

NothingToRecover ==
    /\ job.at = "recover"
    /\ ~ToRecover
    /\ job' = [Away EXCEPT !.at = "collect"]
    /\ UNCHANGED <<body, disk, parsed, gone, judging, check, faults>>

Recover ==
    /\ job.at = "recover"
    /\ ToRecover
    /\ job' = [at |-> IF intent.now.phase = "skeletons" THEN "skeletons" ELSE "generation",
               from |-> "recover", generation |-> intent.now.generation,
               through |-> intent.now.through, done |-> 0]
    /\ UNCHANGED <<body, disk, parsed, gone, judging, check, faults>>

\* A body is cut against the chain's tip when that builds, and cites any piece.
\* LockSession refuses a session whose removal has not finished.
MayLand(base, cites) ==
    /\ job.at = "collect"
    /\ ~Removing
    /\ Top < MaxSeq
    /\ base \in {0} \cup {s \in {Top} : Builds[s]}
    /\ cites \in 0 .. Top

\* A removed piece is kept before the first body to cite it lands.
MustKeep(c) == c # 0 /\ IsRemoved(c) /\ ~\E s \in 1 .. Top : IsLanded(s) /\ body[s].cites = c

Land(base, cites) ==
    /\ MayLand(base, cites)
    /\ body' = Append(body, [base |-> base, cites |-> cites])
    /\ IF MustKeep(cites)
       THEN /\ piece' = EachSynced("synced", [piece EXCEPT ![cites] = Written(@, TRUE)])
            /\ ParentsSync("synced", 2)
       ELSE UNCHANGED <<piece, intent, state>>
    /\ landed' = [landed EXCEPT ![Top + 1] = Settled(TRUE)]
    /\ UNCHANGED <<skeleton, tip, gone, parsed, judging, job, check, faults>>

\* A piece that cannot be kept, durably, keeps its body from landing.
PieceNotKept(base, cites, o, n) ==
    /\ MayLand(base, cites) /\ MustKeep(cites)
    /\ o # "synced"
    /\ piece' = EachSynced(o, [piece EXCEPT ![cites] = Written(@, TRUE)])
    /\ ParentsSync(o, n)
    /\ Counted(o, "piece")
    /\ Then(o, job)
    /\ UNCHANGED <<body, landed, skeleton, tip, parsed, gone, judging, check>>

\* The session is parsed when it moved in this process, or waits for a retry.
Parse ==
    /\ job.at = "collect"
    /\ parsed' \in {parsed, Top}
    /\ job' = [Away EXCEPT !.at = "remove"]
    /\ UNCHANGED <<body, disk, gone, judging, check, faults>>

-----------------------------------------------------------------------------
(* The removal. *)

Removable == (\E s \in 1 .. Top : IsLanded(s)) /\ parsed >= Top

\* The session is busy, active, or has nothing to remove, or its last body does
\* not rebuild, so its bytes cannot be kept.
NothingToRemove ==
    /\ job.at = "remove"
    /\ job' = Away
    /\ UNCHANGED <<body, disk, parsed, gone, judging, check, faults>>

NextGeneration ==
    Least({g \in 1 .. MaxGen + 1 : \A s \in 1 .. Top : IsRemoved(s) => skeleton[s].now < g})

\* Mutant: a judge run does not hold the removal off.
KeepTipWhileJudged(o, n) ==
    /\ job.at = "remove"
    /\ Removable
    /\ Builds[Top]
    /\ NextGeneration \in Gens
    /\ LET g == NextGeneration
           kept == [tip EXCEPT ![g][Top] = Written(@, TRUE)]
       IN  /\ tip' = [kept EXCEPT ![g] = EachSynced(o, kept[g])]
           /\ Then(o, [at |-> "intent", from |-> "remove", generation |-> g, through |-> Top, done |-> 0])
    /\ ParentsSync(o, n)
    /\ Counted(o, "tip")
    /\ UNCHANGED <<body, landed, skeleton, piece, parsed, gone, judging, check>>

\* The removal is decided, and the chain's tip kept for it.
KeepTip(o, n) ==
    /\ job.at = "remove"
    /\ ~judging
    /\ Removable
    /\ Builds[Top]
    /\ NextGeneration \in Gens
    /\ LET g == NextGeneration
           kept == [tip EXCEPT ![g][Top] = Written(@, TRUE)]
       IN  /\ tip' = [kept EXCEPT ![g] = EachSynced(o, kept[g])]
           /\ Then(o, [at |-> "intent", from |-> "remove", generation |-> g, through |-> Top, done |-> 0])
    /\ ParentsSync(o, n)
    /\ Counted(o, "tip")
    /\ UNCHANGED <<body, landed, skeleton, piece, parsed, gone, judging, check>>

\* SaveRemoving and SaveRemovalGeneration.
SaveIntent(o) ==
    /\ job.at = "intent"
    /\ SessionSync(o, Written(intent, [generation |-> job.generation, through |-> job.through,
                                       phase |-> "skeletons"]), state)
    /\ Counted(o, "intent")
    /\ Then(o, [job EXCEPT !.at = "skeletons"])
    /\ UNCHANGED <<body, landed, skeleton, tip, piece, parsed, gone, judging, check>>

\* The landed files the removal has yet to come to.
Left == {s \in Seqs : s > job.done /\ s <= job.through /\ IsLanded(s)}
First(s) == s \in Left /\ \A t \in Left : s <= t

\* What an earlier attempt left goes first.
Cleared(s) == IF skeleton[s].now = Absent THEN skeleton[s] ELSE Written(skeleton[s], Absent)

\* Mutant: a skeleton an earlier attempt left is kept.
WriteSkeletonOnce(s, o) ==
    /\ job.at = "skeletons"
    /\ First(s)
    /\ ProviderSync(o, landed, [skeleton EXCEPT ![s] =
            IF Whole(@.now) THEN @ ELSE Written(Cleared(s), job.generation)])
    /\ Then(o, [job EXCEPT !.done = s])
    /\ Counted(o, "skeleton")
    /\ UNCHANGED <<body, intent, state, tip, piece, parsed, gone, judging, check>>

WriteSkeleton(s, o) ==
    /\ job.at = "skeletons"
    /\ First(s)
    /\ ProviderSync(o, landed, [skeleton EXCEPT ![s] = Written(Cleared(s), job.generation)])
    /\ Then(o, [job EXCEPT !.done = s])
    /\ Counted(o, "skeleton")
    /\ UNCHANGED <<body, intent, state, tip, piece, parsed, gone, judging, check>>

\* A stop before the skeleton has its name, or after its name was reserved.
SkeletonCutShort(s, left) ==
    /\ job.at = "skeletons"
    /\ First(s)
    /\ skeleton' = [skeleton EXCEPT ![s] =
            IF left = Absent THEN Cleared(s) ELSE Written(Cleared(s), left)]
    /\ job' = Away
    /\ Counted("stopped", "skeleton")
    /\ UNCHANGED <<body, landed, intent, state, tip, piece, parsed, gone, judging, check>>

SavePhase(o) ==
    /\ job.at = "skeletons"
    /\ Left = {}
    /\ SessionSync(o, Written(intent, [generation |-> job.generation, through |-> job.through,
                                       phase |-> "delete"]), state)
    /\ Counted(o, "phase")
    /\ Then(o, [job EXCEPT !.at = "generation", !.done = 0])
    /\ UNCHANGED <<body, landed, skeleton, tip, piece, parsed, gone, judging, check>>

SaveGeneration(o) ==
    /\ job.at = "generation"
    /\ SessionSync(o, intent, Written(state, job.generation))
    /\ Counted(o, "generation")
    /\ Then(o, [job EXCEPT !.at = "delete"])
    /\ UNCHANGED <<body, landed, skeleton, tip, piece, parsed, gone, judging, check>>

\* ownSkeleton: a file with no whole skeleton of its own is kept.
Delete(s) ==
    /\ job.at = "delete"
    /\ First(s)
    /\ IF Whole(skeleton[s].now)
       THEN /\ landed' = [landed EXCEPT ![s] = Written(@, FALSE)]
            /\ gone' = gone \cup {s}
            /\ UNCHANGED job
       ELSE job' = GivenUp /\ UNCHANGED <<landed, gone>>
    /\ UNCHANGED <<body, skeleton, intent, state, tip, piece, parsed, judging, check, faults>>

\* Mutant: only the directories this attempt deleted from are synced.
SyncDeletedNow(o) ==
    /\ job.at = "delete"
    /\ Left = {}
    /\ o = "synced"
    /\ IF job.from = "remove" THEN ProviderSync(o, landed, skeleton) ELSE UNCHANGED <<landed, skeleton>>
    /\ Then(o, [job EXCEPT !.at = "tips"])
    /\ UNCHANGED <<body, intent, state, tip, piece, parsed, gone, judging, check, faults>>

SyncDeleted(o) ==
    /\ job.at = "delete"
    /\ Left = {}
    /\ ProviderSync(o, landed, skeleton)
    /\ Counted(o, "deletions")
    /\ Then(o, [job EXCEPT !.at = "tips"])
    /\ UNCHANGED <<body, intent, state, tip, piece, parsed, gone, judging, check>>

\* RemoveAll, which a stop may leave half done and nothing syncs.
WithoutTips(gs) ==
    [g \in Gens |-> [s \in Seqs |->
        IF g \in gs /\ tip[g][s].now THEN Written(tip[g][s], FALSE) ELSE tip[g][s]]]

ReclaimTips ==
    /\ job.at = "tips"
    /\ tip' = WithoutTips(Gens \ {job.generation})
    /\ job' = [job EXCEPT !.at = "pieces"]
    /\ UNCHANGED <<body, landed, skeleton, intent, state, piece, parsed, gone, judging, check, faults>>

\* Mutant: the pieces go whatever landed after the removal.
LaterNever == FALSE

\* A body landed after the removed range, which a removal finished again finds.
Later == \E s \in Seqs : s > job.through /\ IsLanded(s)

ReclaimPieces ==
    /\ job.at = "pieces"
    /\ piece' = [c \in Seqs |-> IF ~Later /\ piece[c].now THEN Written(piece[c], FALSE) ELSE piece[c]]
    /\ job' = [job EXCEPT !.at = "end"]
    /\ UNCHANGED <<body, landed, skeleton, intent, state, tip, parsed, gone, judging, check, faults>>

\* The intent goes last.
RemoveIntent(o) ==
    /\ job.at = "end"
    /\ SessionSync(o, Written(intent, NoIntent), state)
    /\ Counted(o, "end")
    /\ Then(o, GivenUp)
    /\ UNCHANGED <<body, landed, skeleton, tip, piece, parsed, gone, judging, check>>

-----------------------------------------------------------------------------
(* Stops, losses of power, and judge runs. *)

Stop ==
    /\ job.at # "away"
    /\ job' = Away
    /\ Counted("stopped", "end")
    /\ UNCHANGED <<body, disk, parsed, gone, judging, check>>

\* A read or a write other than a sync fails, and the removal stops there.
Fails ==
    /\ job.from # "none"
    /\ job' = GivenUp
    /\ Counted("stopped", "end")
    /\ UNCHANGED <<body, disk, parsed, gone, judging, check>>

\* What a directory may hold after the power is lost.
Remains(f, values) == {r \in [DOMAIN f -> values] : \A x \in DOMAIN f : r[x] \in f[x].may}
Reset(r) == [x \in DOMAIN r |-> Settled(r[x])]

PowerLoss ==
    /\ faults.losses < MaxLosses
    /\ faults' = [faults EXCEPT !.losses = @ + 1]
    /\ \E l \in Remains(landed, BOOLEAN) : landed' = Reset(l)
    /\ \E k \in Remains(skeleton, {Absent, Reserved} \cup Gens) : skeleton' = Reset(k)
    /\ \E i \in intent.may : intent' = Settled(i)
    /\ \E g \in state.may : state' = Settled(g)
    /\ tip' \in [Gens -> {Reset(t) : t \in [Seqs -> BOOLEAN]}]
    /\ \A g \in Gens, s \in Seqs : tip'[g][s].now \in tip[g][s].may
    /\ \E p \in Remains(piece, BOOLEAN) : piece' = Reset(p)
    /\ job' = Away
    /\ judging' = FALSE
    /\ check' = NoCheck
    /\ UNCHANGED <<body, gone, parsed>>

\* A run is admitted under the root's lock, and refused while a removal has
\* not finished.
JudgeStart ==
    /\ job.at = "away"
    /\ ~judging /\ ~Removing
    /\ judging' = TRUE
    /\ UNCHANGED <<body, disk, gone, parsed, job, check, faults>>

JudgeEnd ==
    /\ judging
    /\ judging' = FALSE
    /\ UNCHANGED <<body, disk, gone, parsed, job, check, faults>>

-----------------------------------------------------------------------------
(* asz verify over the session's bodies, which takes no lock. *)

\* The removal under way, or else the last.
Latest == IF Removing THEN intent.now.generation ELSE state.now

CheckKeeps == UNCHANGED <<body, disk, parsed, gone, judging, job>>

StartCheck ==
    /\ check.at = "done"
    /\ faults.checks < MaxChecks
    /\ faults' = [faults EXCEPT !.checks = @ + 1]
    /\ check' = [NoCheck EXCEPT !.at = "generation", !.attempt = 1, !.first = Latest]
    /\ CheckKeeps

\* RemovalGeneration: the generation, and then the intent.
ReadGeneration ==
    /\ check.at = "generation"
    /\ check' = [check EXCEPT !.at = "look", !.read = [Unread EXCEPT !.generation = state.now]]
    /\ UNCHANGED faults /\ CheckKeeps

LookForIntent ==
    /\ check.at = "look"
    /\ check' = [check EXCEPT !.at = "load", !.read.inProgress = Removing]
    /\ UNCHANGED faults /\ CheckKeeps

\* removalOf: an intent that went meanwhile names no removal, and is read for again.
LoadIntent ==
    /\ check.at = "load"
    /\ check' =
        IF Removing
        THEN [check EXCEPT !.at = check.next,
                           !.read = [generation |-> intent.now.generation, inProgress |-> TRUE,
                                     through |-> intent.now.through]]
        ELSE [check EXCEPT !.at = IF check.read.inProgress THEN "generation" ELSE check.next]
    /\ UNCHANGED faults /\ CheckKeeps

\* A landed file is listed while it is there, and its skeleton otherwise.
List ==
    /\ check.at = "list"
    /\ check' = [check EXCEPT !.at = "open", !.next = "compare", !.before = check.read,
                              !.listed = {s \in 1 .. Top : IsLanded(s) \/ skeleton[s].now # Absent},
                              !.asSkeleton = {s \in 1 .. Top : IsRemoved(s)},
                              !.removed = {}, !.built = {}, !.problem = FALSE]
    /\ UNCHANGED faults /\ CheckKeeps

\* OpenLanded opens the skeleton of a file deleted since it was listed.
Open ==
    /\ check.at = "open"
    /\ check.listed # {}
    /\ LET s == Least(check.listed)
       IN  check' = IF IsLanded(s) /\ s \notin check.asSkeleton
                    THEN [check EXCEPT !.at = "build"]
                    ELSE [check EXCEPT !.listed = @ \ {s}, !.removed = @ \cup {s},
                                       !.problem = @ \/ ~Whole(skeleton[s].now)]
    /\ UNCHANGED faults /\ CheckKeeps

\* A body is rebuilt from what was read before it and from the store, as the
\* store is now.  One the removal in progress deletes may fail to.
Build ==
    /\ check.at = "build"
    /\ LET s == Least(check.listed)
           base == body[s].base
           cites == body[s].cites
           builds == /\ base = 0 \/ (IF base \in check.removed THEN HasTip(base) ELSE base \in check.built)
                     /\ cites = 0 \/ (cites \in check.removed => piece[cites].now)
       IN  check' = [check EXCEPT !.at = "open", !.listed = @ \ {s},
                                  !.built = IF builds THEN @ \cup {s} ELSE @,
                                  !.problem = @ \/ (~builds /\ s > check.before.through)]
    /\ UNCHANGED faults /\ CheckKeeps

Built ==
    /\ check.at = "open"
    /\ check.listed = {}
    /\ check' = [check EXCEPT !.at = "generation", !.asSkeleton = {}, !.removed = {}, !.built = {}]
    /\ UNCHANGED faults /\ CheckKeeps

\* Mutant: only a removal in progress is looked for.
CompareProgress ==
    /\ check.at = "compare"
    /\ check' =
        CASE ~check.read.inProgress ->
                [NoCheck EXCEPT !.verdict = IF check.problem THEN "damaged" ELSE "sound"]
          [] check.read.inProgress /\ check.attempt = Attempts ->
                [NoCheck EXCEPT !.first = check.first, !.verdict = "inconclusive"]
          [] check.read.inProgress /\ check.attempt < Attempts ->
                [NoCheck EXCEPT !.at = "generation", !.first = check.first, !.attempt = check.attempt + 1]
    /\ UNCHANGED faults /\ CheckKeeps

\* Mutant: one attempt too few.
CompareEarly ==
    /\ check.at = "compare"
    /\ check' =
        CASE check.read = check.before ->
                [NoCheck EXCEPT !.verdict = IF check.problem THEN "damaged" ELSE "sound"]
          [] check.read # check.before /\ check.attempt + 1 = Attempts ->
                [NoCheck EXCEPT !.first = check.first, !.verdict = "inconclusive"]
          [] check.read # check.before /\ check.attempt + 1 < Attempts ->
                [NoCheck EXCEPT !.at = "generation", !.first = check.first, !.attempt = check.attempt + 1]
    /\ UNCHANGED faults /\ CheckKeeps

\* The bodies are checked again while the removals changed under the check.
Compare ==
    /\ check.at = "compare"
    /\ check' =
        CASE check.read = check.before ->
                [NoCheck EXCEPT !.verdict = IF check.problem THEN "damaged" ELSE "sound"]
          [] check.read # check.before /\ check.attempt = Attempts ->
                [NoCheck EXCEPT !.first = check.first, !.verdict = "inconclusive"]
          [] check.read # check.before /\ check.attempt < Attempts ->
                [NoCheck EXCEPT !.at = "generation", !.first = check.first, !.attempt = check.attempt + 1]
    /\ UNCHANGED faults /\ CheckKeeps

-----------------------------------------------------------------------------

Pass ==
    \/ StartPass \/ NothingToRecover \/ Recover
    \/ \E base, cites \in 0 .. MaxSeq : Land(base, cites)
    \/ \E base, cites \in 0 .. MaxSeq, o \in Outcomes, n \in 0 .. 1 : PieceNotKept(base, cites, o, n)
    \/ Parse
    \/ NothingToRemove
    \/ \E o \in Outcomes, n \in 0 .. 2 : KeepTip(o, n)
    \/ \E o \in Outcomes :
          \/ SaveIntent(o) \/ SavePhase(o) \/ SaveGeneration(o)
          \/ SyncDeleted(o) \/ RemoveIntent(o)
    \/ \E s \in Seqs, o \in Outcomes : WriteSkeleton(s, o)
    \/ \E s \in Seqs, left \in {Absent, Reserved} : SkeletonCutShort(s, left)
    \/ \E s \in Seqs : Delete(s)
    \/ ReclaimTips \/ ReclaimPieces

Check ==
    \/ StartCheck
    \/ ReadGeneration \/ LookForIntent \/ LoadIntent
    \/ List \/ Open \/ Build \/ Built \/ Compare

Next == Pass \/ Check \/ Stop \/ Fails \/ PowerLoss \/ JudgeStart \/ JudgeEnd

Spec == Init /\ [][Next]_vars

\* A pipeline runs pass after pass, and once a session is idle it stays so.
FairSpec == Spec /\ WF_vars(Pass) /\ SF_vars(KeepTip("synced", 2))

-----------------------------------------------------------------------------
(* Properties. *)

Disk(S) == [now : S, may : SUBSET S, stuck : BOOLEAN]

Resting == {"away", "recover", "collect", "remove"}
Finishing == {"generation", "delete", "tips", "pieces", "end"}
Jobs == [at : Resting \cup {"intent", "skeletons"} \cup Finishing, from : {"none", "recover", "remove"},
         generation : {0} \cup Gens, through : 0 .. MaxSeq, done : 0 .. MaxSeq]

\* Every variable a pass works on holds a value of its kind, and a pass that
\* works on a removal has read or decided which.
TypeOK ==
    /\ body \in Seq([base : 0 .. MaxSeq, cites : 0 .. MaxSeq]) /\ Top <= MaxSeq
    /\ landed \in [Seqs -> Disk(BOOLEAN)]
    /\ skeleton \in [Seqs -> Disk({Absent, Reserved} \cup Gens)]
    /\ intent \in Disk(Intents)
    /\ state \in Disk({0} \cup Gens)
    /\ tip \in [Gens -> [Seqs -> Disk(BOOLEAN)]]
    /\ piece \in [Seqs -> Disk(BOOLEAN)]
    /\ parsed \in 0 .. MaxSeq
    /\ judging \in BOOLEAN
    /\ job \in Jobs
    /\ job.at \in Resting <=> job.from = "none"
    /\ job.at \notin Resting => job.generation \in Gens /\ job.through \in Seqs
    /\ gone \subseteq Seqs

\* finish: "a file must never be deleted while the one that takes its place may
\* still be lost".  Wherever a pass stops and whatever a loss of power takes
\* back, every landed sequence has its file or its whole skeleton.
Kept == \A s \in 1 .. Top : IsLanded(s) \/ Whole(skeleton[s].now)

\* keepTips, RemovedPieces and reclaim: a landed body no removal is about to
\* delete still builds, from what landed and what the store keeps.
StaysBuilt == \A s \in 1 .. Top : IsLanded(s) /\ ~Covered(s) => Builds[s]

\* finish: "a power loss never brings back a deleted file with no intent left
\* to finish its removal".
NoGhost == \A s \in gone : IsLanded(s) => Removing

\* removable: a file is removed only once the chain covers it.
OnlyParsedGo == \A s \in 1 .. Top : IsRemoved(s) => s <= parsed

\* judging: a pass deletes nothing of the session while a judge run reads it.
JudgeUndisturbed ==
    [][judging /\ judging' => \A s \in 1 .. Top : IsLanded(s) => landed'[s].now]_vars

\* Recover: "what was started is finished", once nothing fails any more.
RemovalEnds == Removing ~> ~Removing

\* Session, removalOf: asz verify never takes a removal for damage.
NoFalseDamage == check.verdict # "damaged"

\* Session, scanAttempts: "the next removal of the session waits a whole
\* retention.  So the fourth check at the latest runs with nothing changing":
\* a check ends inconclusive only when two removals began meanwhile.
Conclusive == check.verdict = "inconclusive" => Latest >= check.first + 2
=============================================================================
