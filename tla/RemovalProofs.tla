--------------------------- MODULE RemovalProofs ---------------------------
(***************************************************************************)
(* What holds of Removal for every number of bodies and generations,       *)
(* wherever passes stop and the power is lost.  Kept holds wherever syncs  *)
(* fail, too; the store and asz verify need that no failed sync strands a  *)
(* deletion (NoneStranded), which SyncsHold is enough for.                 *)
(***************************************************************************)
EXTENDS Removal, SequenceTheorems, WellFoundedInduction, TLAPS

(***************************************************************************)
(* The inductive invariant.  Kept says what a directory shows now, and a   *)
(* loss of power asks what it may show: so the invariant speaks of every   *)
(* value a name may come back with.                                        *)
(***************************************************************************)

\* What a name shows is among what a loss of power may leave of it.
Names(S) == {e \in Disk(S) : e.now \in e.may}
Skeletons == {Absent, Reserved} \cup Gens
Bodies == [base : 0 .. MaxSeq, cites : 0 .. MaxSeq]

DirsTyped ==
    /\ landed \in [Seqs -> Names(BOOLEAN)]
    /\ skeleton \in [Seqs -> Names(Skeletons)]
    /\ intent \in Names(Intents)
    /\ state \in Names({0} \cup Gens)

StoreTyped ==
    /\ tip \in [Gens -> [Seqs -> Names(BOOLEAN)]]
    /\ piece \in [Seqs -> Names(BOOLEAN)]

RestTyped ==
    /\ body \in Seq(Bodies) /\ Top <= MaxSeq
    /\ parsed \in Nat /\ parsed <= Top
    /\ judging \in BOOLEAN
    /\ gone \subseteq Seqs

JobTyped ==
    /\ job \in Jobs
    /\ job.at \in Resting <=> job.from = "none"
    /\ job.at \notin Resting => job.generation \in Gens /\ job.through \in Seqs
    /\ job.at = "intent" => job.done = 0

\* The skeleton is whole whatever a loss of power takes back.
Safe(s) == \A v \in skeleton[s].may : Whole(v)

\* A landed file is durable, and a deleted one has a skeleton that is.
Protected ==
    /\ \A s \in Seqs : IsLanded(s) => landed[s].may = {TRUE}
    /\ \A s \in 1 .. Top : IsLanded(s) \/ Safe(s)

\* Only what the chain covers may be missing, or be named by an intent.
Parsed ==
    /\ \A s \in 1 .. Top : FALSE \in landed[s].may => s <= parsed
    /\ \A v \in intent.may : v.through <= parsed

\* Where the intent shows that files are being deleted, a skeleton that is
\* whole is durable.
DeletesSafe ==
    intent.now.phase = "delete" =>
        \A s \in Seqs : s <= intent.now.through /\ IsLanded(s) /\ Whole(skeleton[s].now) => Safe(s)

\* A pass works on the removal the intent names, and what it went past is safe.
JobFits ==
    /\ job.through <= parsed
    /\ job.from # "none" => ~judging
    /\ job.at = "skeletons" =>
          /\ intent.now.phase = "skeletons" /\ intent.now.through = job.through
          /\ \A s \in Seqs : s <= job.done /\ IsLanded(s) => Safe(s)
    /\ job.at \in Finishing => intent.now.phase = "delete" /\ intent.now.through = job.through

DiskInv == DirsTyped /\ RestTyped /\ Protected /\ Parsed /\ DeletesSafe
Inv == DiskInv /\ StoreTyped /\ JobTyped /\ JobFits

-----------------------------------------------------------------------------
(* Names and syncs. *)

\* A name that settles shows what it settled on.
LEMMA SettledName ==
    ASSUME NEW S, NEW v \in S
    PROVE  Settled(v) \in Names(S) /\ Settled(v).now = v /\ Settled(v).may = {v}
  BY DEF Settled, Names, Disk

\* A name that is written shows the new value and may fall back on the old ones.
LEMMA WrittenName ==
    ASSUME NEW S, NEW e \in Names(S), NEW v \in S
    PROVE  /\ Written(e, v) \in Names(S)
           /\ Written(e, v).now = v
           /\ Written(e, v).may = e.may \cup {v}
           /\ Written(e, v).stuck = FALSE
  BY DEF Written, Names, Disk

\* However a sync comes out, a name shows what it showed, and may fall back on
\* nothing new (WriteAtomicDurable, SyncDir).
LEMMA SyncedName ==
    ASSUME NEW S, NEW e \in Names(S), NEW o \in Outcomes
    PROVE  /\ Synced(o, e) \in Names(S)
           /\ Synced(o, e).now = e.now
           /\ Synced(o, e).may \subseteq e.may
  <1>0. e.now \in S /\ e.now \in e.may /\ e.may \subseteq S /\ e.stuck \in BOOLEAN
    BY DEF Names, Disk
  <1>1. CASE o = "synced"
    <2>1. Synced(o, e) = Flushed(e)
      BY <1>1 DEF Synced
    <2>2. CASE e.stuck
      BY <2>1, <2>2 DEF Flushed
    <2>3. CASE ~e.stuck
      BY <1>0, <2>1, <2>3 DEF Flushed, Settled, Names, Disk
    <2> QED BY <2>2, <2>3
  <1>2. CASE o = "failed"
    <2>1. Synced(o, e) = [e EXCEPT !.stuck = e.may # {e.now}]
      BY <1>2 DEF Synced, Failed
    <2>2. (e.may # {e.now}) \in BOOLEAN
      OBVIOUS
    <2>3. e \in Disk(S)
      BY DEF Names
    <2> QED BY <1>0, <2>1, <2>2, <2>3 DEF Names, Disk
  <1>3. CASE o = "stopped"
    BY <1>3 DEF Synced
  <1> QED BY <1>1, <1>2, <1>3 DEF Outcomes

\* A sync settles a name written since the last sync that failed.
LEMMA FlushedName ==
    ASSUME NEW e, e.stuck = FALSE
    PROVE  Synced("synced", e).may = {e.now}
  BY DEF Synced, Flushed, Settled

LEMMA EachSyncedNames ==
    ASSUME NEW D, NEW S, NEW f \in [D -> Names(S)], NEW o \in Outcomes
    PROVE  /\ EachSynced(o, f) \in [D -> Names(S)]
           /\ \A x \in D : /\ EachSynced(o, f)[x] = Synced(o, f[x])
                           /\ EachSynced(o, f)[x].now = f[x].now
                           /\ EachSynced(o, f)[x].may \subseteq f[x].may
  <1>1. \A x \in D : /\ Synced(o, f[x]) \in Names(S)
                     /\ Synced(o, f[x]).now = f[x].now
                     /\ Synced(o, f[x]).may \subseteq f[x].may
    BY SyncedName
  <1> QED BY <1>1 DEF EachSynced

\* BodyStore.put: a directory is synced, left, or fails to be.
LEMMA ReachedOutcome ==
    ASSUME NEW o \in Outcomes, NEW n \in 0 .. 2, NEW dir \in 0 .. 2
    PROVE  Reached(o, n, dir) \in Outcomes
  BY DEF Reached, Outcomes

-----------------------------------------------------------------------------
(* What syncs leave alone. *)

\* The session's directory, as SaveRemoving and RemoveRemoving leave it.
LEMMA SessionSynced ==
    ASSUME NEW i \in Names(Intents), NEW st \in Names({0} \cup Gens), NEW o \in Outcomes,
           SessionSync(o, i, st)
    PROVE  /\ intent' \in Names(Intents) /\ intent'.now = i.now /\ intent'.may \subseteq i.may
           /\ state' \in Names({0} \cup Gens)
  BY SyncedName DEF SessionSync

\* The provider directory, as a skeleton or a deletion leaves it.
LEMMA ProviderSynced ==
    ASSUME NEW l \in [Seqs -> Names(BOOLEAN)], NEW k \in [Seqs -> Names(Skeletons)],
           NEW o \in Outcomes, ProviderSync(o, l, k)
    PROVE  /\ landed' \in [Seqs -> Names(BOOLEAN)]
           /\ skeleton' \in [Seqs -> Names(Skeletons)]
           /\ \A s \in Seqs : /\ landed'[s].now = l[s].now /\ landed'[s].may \subseteq l[s].may
                              /\ skeleton'[s].now = k[s].now /\ skeleton'[s].may \subseteq k[s].may
                              /\ skeleton'[s] = Synced(o, k[s])
  BY EachSyncedNames DEF ProviderSync

\* The directories show what they showed, and may fall back on nothing new.
Calm ==
    /\ \A s \in Seqs : /\ landed'[s].now = landed[s].now /\ landed'[s].may \subseteq landed[s].may
                       /\ skeleton'[s].now = skeleton[s].now /\ skeleton'[s].may \subseteq skeleton[s].may
    /\ intent'.now = intent.now /\ intent'.may \subseteq intent.may

\* A member of a chain that landed is one of the sequences.
LEMMA TopIsSeq ==
    ASSUME RestTyped
    PROVE  Top \in Nat /\ 1 .. Top \subseteq Seqs
  <1>1. Top \in Nat
    BY LenProperties DEF RestTyped, Top
  <1> QED BY <1>1, RemovalAssumption DEF RestTyped, Seqs

\* What the disk may hold is safe however the syncs of a step come out.
LEMMA CalmKeepsDisk ==
    ASSUME DiskInv, Calm, DirsTyped', RestTyped', UNCHANGED body, UNCHANGED parsed
    PROVE  DiskInv'
  <1>1. Top' = Top /\ 1 .. Top \subseteq Seqs
    BY TopIsSeq DEF DiskInv, Top
  <1>2. \A s \in Seqs : Safe(s) => Safe(s)'
    BY DEF Calm, Safe
  <1>3. Protected'
    <2>1. ASSUME NEW s \in Seqs, IsLanded(s)' PROVE landed'[s].may = {TRUE}
      <3>1. landed[s].may = {TRUE}
        BY <2>1 DEF DiskInv, Protected, Calm, IsLanded
      <3>2. landed'[s].now \in landed'[s].may
        BY DEF DirsTyped, Names
      <3> QED BY <3>1, <3>2 DEF Calm
    <2>2. ASSUME NEW s \in 1 .. Top PROVE IsLanded(s)' \/ Safe(s)'
      <3>1. s \in Seqs
        BY <1>1
      <3> QED BY <1>2, <3>1 DEF DiskInv, Protected, Calm, IsLanded
    <2> QED BY <1>1, <2>1, <2>2 DEF Protected
  <1>4. Parsed'
    BY <1>1 DEF DiskInv, Parsed, Calm
  <1>5. DeletesSafe'
    BY <1>2 DEF DiskInv, DeletesSafe, Calm, IsLanded
  <1> QED BY <1>3, <1>4, <1>5 DEF DiskInv

\* Nothing a step leaves alone disturbs the invariant.
LEMMA SameDisk ==
    ASSUME DiskInv, UNCHANGED <<body, landed, skeleton, intent, state>>,
           RestTyped', UNCHANGED parsed
    PROVE  DiskInv' /\ Calm
  <1>1. DirsTyped'
    BY DEF DiskInv, DirsTyped
  <1>2. Calm
    BY DEF Calm
  <1> QED BY <1>1, <1>2, CalmKeepsDisk

\* A pass that works on no removal claims nothing of it.
LEMMA RestingJob ==
    ASSUME RestTyped', job' \in {[Away EXCEPT !.at = a] : a \in Resting}
    PROVE  JobTyped' /\ JobFits'
  <1> PICK a \in Resting : job' = [at |-> a, from |-> "none", generation |-> 0, through |-> 0, done |-> 0]
    BY DEF Away
  <1>1. JobTyped'
    BY RemovalAssumption DEF JobTyped, Jobs, Resting
  <1>2. JobFits'
    BY DEF JobFits, Resting, Finishing, RestTyped
  <1> QED BY <1>1, <1>2

\* GivenUp and Away.
LEMMA GivenUpRests ==
    /\ GivenUp \in {[Away EXCEPT !.at = a] : a \in Resting}
    /\ Away \in {[Away EXCEPT !.at = a] : a \in Resting}
  <1>1. Away = [Away EXCEPT !.at = "away"]
    BY DEF Away
  <1> QED BY <1>1 DEF GivenUp, Resting

\* A pass that goes on with what it held.
LEMMA SameJob ==
    ASSUME JobTyped, JobFits, Calm, UNCHANGED job, parsed <= parsed', parsed \in Nat, parsed' \in Nat,
           judging' => judging
    PROVE  JobTyped' /\ JobFits'
  <1>1. JobTyped'
    BY DEF JobTyped
  <1>2. \A s \in Seqs : Safe(s) => Safe(s)'
    BY DEF Calm, Safe
  <1>3. job.through \in Int
    BY RemovalAssumption DEF JobTyped, Jobs
  <1>4. JobFits'
    BY <1>2, <1>3 DEF JobFits, Calm, IsLanded
  <1> QED BY <1>1, <1>4

-----------------------------------------------------------------------------
(* The steps, one by one. *)

LEMMA InitInv == Init => Inv
  <1> SUFFICES ASSUME Init PROVE Inv
    OBVIOUS
  <1>1. \A s \in Seqs : landed[s] = Settled(FALSE) /\ skeleton[s] = Settled(Absent)
    BY DEF Init
  <1>2. DirsTyped
    <2>1. Absent \in Skeletons /\ NoIntent \in Intents /\ 0 \in {0} \cup Gens
      BY DEF Skeletons, Intents
    <2>2. /\ Settled(FALSE) \in Names(BOOLEAN) /\ Settled(Absent) \in Names(Skeletons)
          /\ Settled(NoIntent) \in Names(Intents) /\ Settled(0) \in Names({0} \cup Gens)
      BY <2>1, SettledName
    <2> QED BY <2>2 DEF DirsTyped, Init
  <1>3. StoreTyped
    <2>1. Settled(FALSE) \in Names(BOOLEAN)
      BY SettledName
    <2> QED BY <2>1 DEF StoreTyped, Init
  <1>4. RestTyped /\ Top = 0
    <2>1. body \in Seq(Bodies) /\ Top = 0
      BY EmptySeq DEF Init, Top
    <2>2. MaxSeq \in Nat
      BY RemovalAssumption
    <2>3. /\ parsed = 0 /\ judging = FALSE /\ gone = {}
      BY DEF Init
    <2>4. Top <= MaxSeq /\ parsed \in Nat /\ parsed <= Top
      BY <2>1, <2>2, <2>3
    <2>5. judging \in BOOLEAN /\ gone \subseteq Seqs
      BY <2>3
    <2> QED BY <2>1, <2>4, <2>5 DEF RestTyped
  <1>5. intent = [now |-> NoIntent, may |-> {NoIntent}, stuck |-> FALSE]
    BY DEF Init, Settled
  <1>6. Protected
    <2>1. \A s \in Seqs : ~IsLanded(s)
      BY <1>1 DEF IsLanded, Settled
    <2>2. 1 .. Top = {}
      BY <1>4
    <2> QED BY <2>1, <2>2 DEF Protected
  <1>7. Parsed /\ DeletesSafe
    BY <1>4, <1>5 DEF Parsed, DeletesSafe, NoIntent, Init
  <1>8. JobTyped /\ JobFits
    BY RemovalAssumption DEF JobTyped, JobFits, Jobs, Resting, Finishing, Away, Init
  <1> QED BY <1>2, <1>3, <1>4, <1>6, <1>7, <1>8 DEF Inv, DiskInv

\* A step that touches neither the disk nor the chain.
LEMMA QuietStep ==
    ASSUME Inv, UNCHANGED <<body, disk, gone, parsed>>, judging' \in BOOLEAN,
           \/ UNCHANGED job /\ (judging' => judging)
           \/ job' \in {[Away EXCEPT !.at = a] : a \in Resting}
    PROVE  Inv'
  <1>1. RestTyped' /\ StoreTyped'
    BY DEF Inv, DiskInv, RestTyped, StoreTyped, Top, disk
  <1>2. DiskInv' /\ Calm
    BY <1>1, SameDisk DEF Inv, disk
  <1>3. parsed \in Nat /\ parsed' \in Nat /\ parsed <= parsed'
    BY DEF Inv, DiskInv, RestTyped
  <1>4. JobTyped' /\ JobFits'
    BY <1>1, <1>2, <1>3, RestingJob, SameJob DEF Inv
  <1> QED BY <1>1, <1>2, <1>4 DEF Inv

\* Where a pass goes on once a sync came out.
LEMMA ThenGoes ==
    ASSUME NEW o \in Outcomes, NEW next, Then(o, next)
    PROVE  \/ o = "synced" /\ job' = next
           \/ o # "synced" /\ job' \in {[Away EXCEPT !.at = a] : a \in Resting}
  BY GivenUpRests DEF Then, Outcomes

LEMMA StartPassStep == ASSUME Inv, StartPass PROVE Inv'
  <1>1. job' \in {[Away EXCEPT !.at = a] : a \in Resting}
    BY DEF StartPass, Resting
  <1> QED BY <1>1, QuietStep DEF StartPass, Inv, DiskInv, RestTyped

LEMMA NothingToRecoverStep == ASSUME Inv, NothingToRecover PROVE Inv'
  <1>1. job' \in {[Away EXCEPT !.at = a] : a \in Resting}
    BY DEF NothingToRecover, Resting
  <1> QED BY <1>1, QuietStep DEF NothingToRecover, Inv, DiskInv, RestTyped

LEMMA NothingToRemoveStep == ASSUME Inv, NothingToRemove PROVE Inv'
  BY GivenUpRests, QuietStep DEF NothingToRemove, Inv, DiskInv, RestTyped

LEMMA StopStep == ASSUME Inv, Stop PROVE Inv'
  BY GivenUpRests, QuietStep DEF Stop, Inv, DiskInv, RestTyped

LEMMA FailsStep == ASSUME Inv, Fails PROVE Inv'
  BY GivenUpRests, QuietStep DEF Fails, Inv, DiskInv, RestTyped

LEMMA JudgeEndStep == ASSUME Inv, JudgeEnd PROVE Inv'
  BY QuietStep DEF JudgeEnd

LEMMA CheckStep == ASSUME Inv, Check PROVE Inv'
  <1>1. CheckKeeps
    BY DEF Check, StartCheck, ReadGeneration, LookForIntent, LoadIntent, List, Open, Build, Built, Compare
  <1> QED BY <1>1, QuietStep DEF CheckKeeps, Inv, DiskInv, RestTyped

\* A judge run starts between passes, when none works on a removal.
LEMMA JudgeStartStep == ASSUME Inv, JudgeStart PROVE Inv'
  <1>1. RestTyped' /\ StoreTyped'
    BY DEF JudgeStart, Inv, DiskInv, RestTyped, StoreTyped, Top, disk
  <1>2. DiskInv' /\ Calm
    BY <1>1, SameDisk DEF Inv, JudgeStart, disk
  <1>3. JobTyped' /\ job.from = "none" /\ job.at = "away"
    BY DEF Inv, JobTyped, JudgeStart, Resting
  <1>4. JobFits'
    BY <1>3 DEF Inv, JobFits, JudgeStart, Finishing
  <1> QED BY <1>1, <1>2, <1>3, <1>4 DEF Inv

LEMMA RecoverStep == ASSUME Inv, Recover PROVE Inv'
  <1>1. RestTyped' /\ StoreTyped'
    BY DEF Recover, Inv, DiskInv, RestTyped, StoreTyped, Top, disk
  <1>2. DiskInv' /\ Calm
    BY <1>1, SameDisk DEF Inv, Recover, disk
  <1>3. /\ intent.now \in [generation : Gens, through : Seqs, phase : Phases]
        /\ intent.now \in intent.may /\ UNCHANGED intent
    BY DEF Inv, DiskInv, DirsTyped, Names, Disk, Intents, Recover, ToRecover, Removing, disk
  <1>4. job' = [at |-> IF intent.now.phase = "skeletons" THEN "skeletons" ELSE "generation",
                from |-> "recover", generation |-> intent.now.generation,
                through |-> intent.now.through, done |-> 0]
    BY DEF Recover
  <1>5. JobTyped'
    BY <1>3, <1>4, RemovalAssumption DEF JobTyped, Jobs, Resting, Finishing, Phases, Seqs, Gens
  <1>6. intent.now.through <= parsed
    BY <1>3 DEF Inv, DiskInv, Parsed
  <1>7. \A s \in Seqs : ~(s <= 0)
    BY DEF Seqs
  <1>8. JobFits'
    BY <1>3, <1>4, <1>6, <1>7 DEF JobFits, Recover, ToRecover, Phases, Finishing
  <1> QED BY <1>1, <1>2, <1>5, <1>8 DEF Inv

LEMMA ParseStep == ASSUME Inv, Parse PROVE Inv'
  <1>1. parsed' \in Nat /\ parsed <= parsed' /\ parsed' <= Top
    BY TopIsSeq DEF Parse, Inv, DiskInv, RestTyped
  <1>2. RestTyped' /\ StoreTyped'
    BY <1>1 DEF Parse, Inv, DiskInv, RestTyped, StoreTyped, Top, disk
  <1>3. DirsTyped' /\ Protected' /\ DeletesSafe'
    BY DEF Parse, Inv, DiskInv, DirsTyped, Protected, DeletesSafe, disk, Top, IsLanded, Safe
  <1>4. Parsed'
    <2>1. \A v \in intent.may : v.through \in Int
      BY RemovalAssumption DEF Inv, DiskInv, DirsTyped, Names, Disk, Intents, NoIntent, Seqs
    <2>2. UNCHANGED <<body, landed, intent>> /\ Top' = Top /\ Top \in Nat
      BY TopIsSeq DEF Parse, disk, Top, Inv, DiskInv
    <2>3. parsed \in Nat /\ Parsed
      BY DEF Inv, DiskInv, RestTyped
    <2>4. \A s \in 1 .. Top : FALSE \in landed[s].may => s <= parsed'
      <3> TAKE s \in 1 .. Top
      <3>1. s \in Int
        BY <2>2
      <3>2. FALSE \in landed[s].may => s <= parsed
        BY <2>3, Zenon DEF Parsed
      <3> QED BY <1>1, <2>3, <3>1, <3>2
    <2>5. \A v \in intent.may : v.through <= parsed'
      BY <1>1, <2>1, <2>3 DEF Parsed
    <2> QED BY <2>2, <2>4, <2>5 DEF Parsed
  <1>5. job' \in {[Away EXCEPT !.at = a] : a \in Resting}
    BY DEF Parse, Resting
  <1>6. JobTyped' /\ JobFits'
    BY <1>2, <1>5, RestingJob
  <1> QED BY <1>2, <1>3, <1>4, <1>6 DEF Inv, DiskInv

-----------------------------------------------------------------------------
(* The steps that sync directories and write in the store. *)

LEMMA ParentsCalm ==
    ASSUME DiskInv, NEW o \in Outcomes, NEW n \in 0 .. 2, ParentsSync(o, n), UNCHANGED <<landed, skeleton>>
    PROVE  DirsTyped' /\ Calm
  <1> DEFINE r == Reached(o, n, 1)
  <1>1. r \in Outcomes /\ SessionSync(r, intent, state)
    BY ReachedOutcome DEF ParentsSync
  <1>2. DirsTyped
    BY DEF DiskInv
  <1> HIDE DEF r
  <1>3. /\ intent' \in Names(Intents) /\ intent'.now = intent.now /\ intent'.may \subseteq intent.may
        /\ state' \in Names({0} \cup Gens)
    BY <1>1, <1>2, SessionSynced DEF DirsTyped
  <1> QED BY <1>2, <1>3 DEF DirsTyped, Calm

\* The chain and the session's other marks stay as they are.
LEMMA SameRest ==
    ASSUME RestTyped, UNCHANGED <<body, parsed, judging>>, gone' \subseteq Seqs
    PROVE  RestTyped'
  BY DEF RestTyped, Top


LEMMA CalmStep ==
    ASSUME Inv, DirsTyped', Calm, StoreTyped', UNCHANGED <<body, parsed, judging, gone>>,
           \/ UNCHANGED job
           \/ job' \in {[Away EXCEPT !.at = a] : a \in Resting}
           \/ JobTyped' /\ JobFits'
    PROVE  Inv'
  <1>1. RestTyped'
    BY SameRest DEF Inv, DiskInv, RestTyped
  <1>2. DiskInv'
    BY <1>1, CalmKeepsDisk DEF Inv
  <1>3. parsed \in Nat /\ parsed' \in Nat /\ parsed <= parsed' /\ (judging' => judging)
    BY DEF Inv, DiskInv, RestTyped
  <1>4. JobTyped' /\ JobFits'
    BY <1>1, <1>3, RestingJob, SameJob DEF Inv
  <1> QED BY <1>2, <1>4 DEF Inv

LEMMA PieceNotKeptStep ==
    ASSUME Inv, NEW base \in 0 .. MaxSeq, NEW cites \in 0 .. MaxSeq, NEW o \in Outcomes,
           NEW n \in 0 .. 1, PieceNotKept(base, cites, o, n)
    PROVE  Inv'
  <1>1. DirsTyped' /\ Calm
    BY ParentsCalm DEF PieceNotKept, Inv
  <1>2. StoreTyped'
    <2>1. [piece EXCEPT ![cites] = Written(@, TRUE)] \in [Seqs -> Names(BOOLEAN)]
      BY WrittenName DEF Inv, StoreTyped
    <2>2. piece' \in [Seqs -> Names(BOOLEAN)]
      BY <2>1, EachSyncedNames DEF PieceNotKept
    <2> QED BY <2>2 DEF PieceNotKept, Inv, StoreTyped
  <1>3. job' \in {[Away EXCEPT !.at = a] : a \in Resting}
    BY ThenGoes DEF PieceNotKept
  <1> QED BY <1>1, <1>2, <1>3, CalmStep DEF PieceNotKept

LEMMA KeepTipStep ==
    ASSUME Inv, NEW o \in Outcomes, NEW n \in 0 .. 2, KeepTip(o, n)
    PROVE  Inv'
  <1> DEFINE g == NextGeneration
             kept == [tip EXCEPT ![g][Top] = Written(@, TRUE)]
             next == [at |-> "intent", from |-> "remove", generation |-> g, through |-> Top, done |-> 0]
  <1>1. /\ g \in Gens /\ ~judging /\ Removable
        /\ tip' = [kept EXCEPT ![g] = EachSynced(o, kept[g])]
        /\ Then(o, next)
    BY DEF KeepTip
  <1>2. Top \in Seqs /\ Top \in Nat /\ parsed = Top
    BY <1>1, TopIsSeq DEF Inv, DiskInv, RestTyped, Removable
  <1>3. DirsTyped' /\ Calm
    BY ParentsCalm DEF KeepTip, Inv
  <1> HIDE DEF g
  <1>4. StoreTyped'
    <2>1. tip[g] \in [Seqs -> Names(BOOLEAN)] /\ tip[g][Top] \in Names(BOOLEAN)
      BY <1>1, <1>2 DEF Inv, StoreTyped
    <2>2. Written(tip[g][Top], TRUE) \in Names(BOOLEAN)
      BY <2>1, WrittenName
    <2>3. kept[g] = [tip[g] EXCEPT ![Top] = Written(tip[g][Top], TRUE)]
      BY <1>1 DEF Inv, StoreTyped
    <2>4. kept[g] \in [Seqs -> Names(BOOLEAN)]
      BY <2>1, <2>2, <2>3
    <2>5. kept \in [Gens -> [Seqs -> Names(BOOLEAN)]]
      BY <1>1, <2>1, <2>2 DEF Inv, StoreTyped
    <2>6. EachSynced(o, kept[g]) \in [Seqs -> Names(BOOLEAN)]
      BY <2>4, EachSyncedNames
    <2> HIDE DEF kept
    <2>7. tip' \in [Gens -> [Seqs -> Names(BOOLEAN)]]
      BY <1>1, <2>5, <2>6
    <2> QED BY <2>7 DEF KeepTip, Inv, StoreTyped
  <1>5. CASE o # "synced"
    BY <1>1, <1>3, <1>4, <1>5, ThenGoes, CalmStep DEF KeepTip
  <1>6. CASE o = "synced"
    <2>1. job' = next
      BY <1>1, <1>6, ThenGoes
    <2>2. JobTyped'
      BY <1>1, <1>2, <2>1, RemovalAssumption DEF JobTyped, Jobs, Resting, Seqs
    <2>3. JobFits'
      BY <1>1, <1>2, <2>1 DEF JobFits, Finishing, KeepTip
    <2> QED BY <1>3, <1>4, <2>2, <2>3, CalmStep DEF KeepTip
  <1> QED BY <1>5, <1>6

LEMMA SaveGenerationStep ==
    ASSUME Inv, NEW o \in Outcomes, SaveGeneration(o)
    PROVE  Inv'
  <1>1. job.generation \in Gens /\ JobTyped /\ JobFits
    BY DEF Inv, JobTyped, SaveGeneration, Resting
  <1> DEFINE i == intent
             st == Written(state, job.generation)
  <1>2. i \in Names(Intents) /\ st \in Names({0} \cup Gens)
    BY <1>1, WrittenName DEF Inv, DiskInv, DirsTyped
  <1>3. SessionSync(o, i, st) /\ i = intent
    BY DEF SaveGeneration
  <1> HIDE DEF i, st
  <1>4. intent' \in Names(Intents) /\ intent'.now = i.now /\ intent'.may \subseteq i.may
        /\ state' \in Names({0} \cup Gens)
    BY <1>2, <1>3, SessionSynced
  <1>5. DirsTyped' /\ Calm /\ StoreTyped'
    BY <1>3, <1>4 DEF SaveGeneration, Inv, DiskInv, DirsTyped, StoreTyped, Calm
  <1>6. CASE o = "synced"
    <2>1. job' = [job EXCEPT !.at = "delete"]
      BY <1>6, ThenGoes DEF SaveGeneration
    <2>2. JobTyped'
      BY <1>1, <2>1 DEF JobTyped, Jobs, Resting, Finishing, SaveGeneration
    <2>3. JobFits'
      BY <1>1, <1>3, <1>4, <2>1 DEF JobFits, JobTyped, Jobs, Finishing, SaveGeneration
    <2> QED BY <1>5, <2>2, <2>3, CalmStep DEF SaveGeneration
  <1>7. CASE o # "synced"
    BY <1>5, <1>7, ThenGoes, CalmStep DEF SaveGeneration
  <1> QED BY <1>6, <1>7

LEMMA SyncDeletedStep ==
    ASSUME Inv, NEW o \in Outcomes, SyncDeleted(o)
    PROVE  Inv'
  <1>1. JobTyped /\ JobFits /\ DirsTyped
    BY DEF Inv, DiskInv
  <1>2. DirsTyped' /\ Calm /\ StoreTyped'
    BY <1>1, ProviderSynced DEF SyncDeleted, DirsTyped, Calm, Inv, StoreTyped
  <1>3. CASE o = "synced"
    <2>1. job' = [job EXCEPT !.at = "tips"]
      BY <1>3, ThenGoes DEF SyncDeleted
    <2>2. JobTyped'
      BY <1>1, <2>1 DEF JobTyped, Jobs, Resting, Finishing, SyncDeleted
    <2>3. JobFits'
      BY <1>1, <2>1 DEF JobFits, JobTyped, Jobs, Finishing, SyncDeleted
    <2> QED BY <1>2, <2>2, <2>3, CalmStep DEF SyncDeleted
  <1>4. CASE o # "synced"
    BY <1>2, <1>4, ThenGoes, CalmStep DEF SyncDeleted
  <1> QED BY <1>3, <1>4

LEMMA ReclaimTipsStep == ASSUME Inv, ReclaimTips PROVE Inv'
  <1>1. JobTyped /\ JobFits /\ job.at = "tips"
    BY DEF Inv, ReclaimTips
  <1>2. DirsTyped' /\ Calm
    BY DEF ReclaimTips, Inv, DiskInv, DirsTyped, Calm
  <1>3. StoreTyped'
    <2>1. ASSUME NEW g \in Gens, NEW s \in Seqs
          PROVE  tip[g][s] \in Names(BOOLEAN) /\ Written(tip[g][s], FALSE) \in Names(BOOLEAN)
      <3>1. tip[g][s] \in Names(BOOLEAN)
        BY DEF Inv, StoreTyped
      <3> QED BY <3>1, WrittenName
    <2>2. tip' \in [Gens -> [Seqs -> Names(BOOLEAN)]]
      BY <2>1 DEF ReclaimTips, WithoutTips
    <2> QED BY <2>2 DEF ReclaimTips, Inv, StoreTyped
  <1>4. job' = [job EXCEPT !.at = "pieces"]
    BY DEF ReclaimTips
  <1>5. JobTyped'
    BY <1>1, <1>4 DEF JobTyped, Jobs, Resting, Finishing
  <1>6. JobFits'
    BY <1>1, <1>4 DEF JobFits, JobTyped, Jobs, Finishing, ReclaimTips
  <1> QED BY <1>2, <1>3, <1>5, <1>6, CalmStep DEF ReclaimTips

LEMMA ReclaimPiecesStep == ASSUME Inv, ReclaimPieces PROVE Inv'
  <1>1. JobTyped /\ JobFits /\ job.at = "pieces"
    BY DEF Inv, ReclaimPieces
  <1>2. DirsTyped' /\ Calm
    BY DEF ReclaimPieces, Inv, DiskInv, DirsTyped, Calm
  <1>3. StoreTyped'
    <2>1. \A c \in Seqs : piece[c] \in Names(BOOLEAN) /\ Written(piece[c], FALSE) \in Names(BOOLEAN)
      BY WrittenName DEF Inv, StoreTyped
    <2>2. piece' \in [Seqs -> Names(BOOLEAN)]
      BY <2>1 DEF ReclaimPieces
    <2> QED BY <2>2 DEF ReclaimPieces, Inv, StoreTyped
  <1>4. job' = [job EXCEPT !.at = "end"]
    BY DEF ReclaimPieces
  <1>5. JobTyped'
    BY <1>1, <1>4 DEF JobTyped, Jobs, Resting, Finishing
  <1>6. JobFits'
    BY <1>1, <1>4 DEF JobFits, JobTyped, Jobs, Finishing, ReclaimPieces
  <1> QED BY <1>2, <1>3, <1>5, <1>6, CalmStep DEF ReclaimPieces

-----------------------------------------------------------------------------
(* The steps that write the intent. *)

\* What removing.json says changes, and nothing else of the session does.
LEMMA IntentDisk ==
    ASSUME Inv, NEW v \in Intents, v.through <= parsed,
           UNCHANGED <<body, landed, skeleton, parsed, judging, gone>>,
           intent' \in Names(Intents), intent'.now = v, intent'.may \subseteq intent.may \cup {v},
           state' \in Names({0} \cup Gens),
           v.phase = "delete" =>
               \A s \in Seqs : s <= v.through /\ IsLanded(s) /\ Whole(skeleton[s].now) => Safe(s)
    PROVE  DiskInv'
  <1>1. RestTyped'
    BY SameRest DEF Inv, DiskInv, RestTyped
  <1>2. DirsTyped'
    BY DEF DirsTyped, Inv, DiskInv
  <1>3. Protected'
    BY DEF Inv, DiskInv, Protected, IsLanded, Safe, Top
  <1>4. Parsed'
    BY DEF Inv, DiskInv, Parsed, Top
  <1>5. DeletesSafe'
    BY DEF DeletesSafe, IsLanded, Safe
  <1> QED BY <1>1, <1>2, <1>3, <1>4, <1>5 DEF DiskInv

\* What SaveRemoving and RemoveRemoving leave before the sync.
LEMMA WrittenIntent ==
    ASSUME intent \in Names(Intents), NEW v \in Intents
    PROVE  /\ Written(intent, v) \in Names(Intents)
           /\ Written(intent, v).now = v
           /\ Written(intent, v).may = intent.may \cup {v}
  BY DEF Written, Names, Disk

LEMMA SaveIntentStep ==
    ASSUME Inv, NEW o \in Outcomes, SaveIntent(o)
    PROVE  Inv'
  <1> DEFINE v == [generation |-> job.generation, through |-> job.through, phase |-> "skeletons"]
             i == Written(intent, v)
             st == state
  <1>1. /\ job.generation \in Gens /\ job.through \in Seqs /\ job.done = 0
        /\ JobTyped /\ JobFits
    BY DEF Inv, JobTyped, SaveIntent, Resting
  <1>2. v \in Intents /\ v.through = job.through /\ v.phase = "skeletons" /\ v.through <= parsed
    BY <1>1 DEF Intents, Phases, JobFits
  <1>3. SessionSync(o, i, st)
    BY DEF SaveIntent
  <1>4. intent \in Names(Intents) /\ st \in Names({0} \cup Gens)
    BY DEF Inv, DiskInv, DirsTyped
  <1> HIDE DEF v
  <1>5. i \in Names(Intents) /\ i.now = v /\ i.may = intent.may \cup {v}
    BY <1>2, <1>4, WrittenIntent
  <1> HIDE DEF i, st
  <1>6. /\ intent' \in Names(Intents) /\ intent'.now = v /\ intent'.may \subseteq intent.may \cup {v}
        /\ state' \in Names({0} \cup Gens)
    BY <1>3, <1>4, <1>5, SessionSynced
  <1>7. DiskInv'
    BY <1>2, <1>6, IntentDisk DEF SaveIntent
  <1>8. StoreTyped' /\ RestTyped'
    BY <1>7 DEF SaveIntent, Inv, StoreTyped, DiskInv
  <1>9. CASE o = "synced"
    <2>1. job' = [job EXCEPT !.at = "skeletons"]
      BY <1>9, ThenGoes DEF SaveIntent
    <2>2. JobTyped'
      BY <1>1, <2>1 DEF JobTyped, Jobs, Resting, Finishing, SaveIntent
    <2>3. /\ job'.through = job.through /\ job'.done = 0 /\ job'.at = "skeletons"
          /\ job'.from = job.from /\ job.from # "none"
      BY <1>1, <2>1 DEF JobTyped, Jobs, Resting, SaveIntent
    <2>4. \A s \in Seqs : ~(s <= 0)
      BY DEF Seqs
    <2>5. JobFits'
      BY <1>1, <1>2, <1>6, <2>3, <2>4 DEF JobFits, Finishing, SaveIntent
    <2> QED BY <1>7, <1>8, <2>2, <2>5 DEF Inv
  <1>10. CASE o # "synced"
    BY <1>7, <1>8, <1>10, ThenGoes, RestingJob DEF SaveIntent, Inv
  <1> QED BY <1>9, <1>10

\* Every landed file of the removal has its skeleton by now, and a durable one.
LEMMA SavePhaseStep ==
    ASSUME Inv, NEW o \in Outcomes, SavePhase(o)
    PROVE  Inv'
  <1> DEFINE v == [generation |-> job.generation, through |-> job.through, phase |-> "delete"]
             i == Written(intent, v)
             st == state
  <1>1. job.generation \in Gens /\ job.through \in Seqs /\ JobTyped /\ JobFits
    BY DEF Inv, JobTyped, SavePhase, Resting
  <1>2. v \in Intents /\ v.through = job.through /\ v.phase = "delete" /\ v.through <= parsed
    BY <1>1 DEF Intents, Phases, JobFits
  <1>3. SessionSync(o, i, st)
    BY DEF SavePhase
  <1>4. intent \in Names(Intents) /\ st \in Names({0} \cup Gens)
    BY DEF Inv, DiskInv, DirsTyped
  <1> HIDE DEF v
  <1>5. i \in Names(Intents) /\ i.now = v /\ i.may = intent.may \cup {v}
    BY <1>2, <1>4, WrittenIntent
  <1> HIDE DEF i, st
  <1>6. /\ intent' \in Names(Intents) /\ intent'.now = v /\ intent'.may \subseteq intent.may \cup {v}
        /\ state' \in Names({0} \cup Gens)
    BY <1>3, <1>4, <1>5, SessionSynced
  <1>7. \A s \in Seqs : s <= v.through /\ IsLanded(s) => Safe(s)
    <2> SUFFICES ASSUME NEW s \in Seqs, s <= v.through, IsLanded(s) PROVE Safe(s)
      OBVIOUS
    <2>1. s \notin Left /\ s <= job.through
      BY <1>2 DEF SavePhase
    <2>2. ~(s > job.done)
      BY <2>1 DEF Left
    <2>3. job.done \in Int /\ s \in Int
      BY <1>1, RemovalAssumption DEF JobTyped, Jobs, Seqs
    <2> QED BY <1>1, <2>2, <2>3 DEF JobFits, SavePhase
  <1>8. DiskInv'
    BY <1>2, <1>6, <1>7, IntentDisk DEF SavePhase
  <1>9. StoreTyped' /\ RestTyped'
    BY <1>8 DEF SavePhase, Inv, StoreTyped, DiskInv
  <1>10. CASE o = "synced"
    <2>1. job' = [job EXCEPT !.at = "generation", !.done = 0]
      BY <1>10, ThenGoes DEF SavePhase
    <2>2. JobTyped'
      <3>1. 0 \in 0 .. MaxSeq /\ job \in Jobs /\ job.from # "none"
        BY <1>1, RemovalAssumption DEF JobTyped, Resting, SavePhase
      <3>2. job' = [at |-> "generation", from |-> job.from, generation |-> job.generation,
                    through |-> job.through, done |-> 0]
        BY <2>1, <3>1 DEF Jobs
      <3>3. job' \in Jobs
        BY <3>1, <3>2 DEF Jobs, Finishing
      <3> QED BY <1>1, <3>1, <3>2, <3>3 DEF JobTyped, Resting
    <2>3. /\ job'.through = job.through /\ job'.at = "generation"
          /\ job'.from = job.from /\ job.from # "none"
      BY <1>1, <2>1 DEF JobTyped, Jobs, Resting, SavePhase
    <2>4. JobFits'
      BY <1>1, <1>2, <1>6, <2>3 DEF JobFits, Finishing, SavePhase
    <2> QED BY <1>8, <1>9, <2>2, <2>4 DEF Inv
  <1>11. CASE o # "synced"
    BY <1>8, <1>9, <1>11, ThenGoes, RestingJob DEF SavePhase, Inv
  <1> QED BY <1>10, <1>11

LEMMA RemoveIntentStep ==
    ASSUME Inv, NEW o \in Outcomes, RemoveIntent(o)
    PROVE  Inv'
  <1> DEFINE i == Written(intent, NoIntent)
             st == state
  <1>1. NoIntent \in Intents /\ NoIntent.through = 0 /\ NoIntent.phase = "none" /\ 0 <= parsed
    BY DEF Intents, NoIntent, Inv, DiskInv, RestTyped
  <1>2. SessionSync(o, i, st)
    BY DEF RemoveIntent
  <1>3. intent \in Names(Intents) /\ st \in Names({0} \cup Gens)
    BY DEF Inv, DiskInv, DirsTyped
  <1>4. i \in Names(Intents) /\ i.now = NoIntent /\ i.may = intent.may \cup {NoIntent}
    BY <1>1, <1>3, WrittenIntent
  <1> HIDE DEF i, st
  <1>5. /\ intent' \in Names(Intents) /\ intent'.now = NoIntent
        /\ intent'.may \subseteq intent.may \cup {NoIntent} /\ state' \in Names({0} \cup Gens)
    BY <1>2, <1>3, <1>4, SessionSynced
  <1>6. DiskInv'
    BY <1>1, <1>5, IntentDisk DEF RemoveIntent
  <1>7. StoreTyped' /\ RestTyped'
    BY <1>6 DEF RemoveIntent, Inv, StoreTyped, DiskInv
  <1>8. job' \in {[Away EXCEPT !.at = a] : a \in Resting}
    BY GivenUpRests, ThenGoes DEF RemoveIntent
  <1> QED BY <1>6, <1>7, <1>8, RestingJob DEF Inv

-----------------------------------------------------------------------------
(* The steps that write skeletons and delete files. *)

\* One skeleton of a file that is still there changes while the intent says
\* that nothing is deleted yet.
LEMMA SkeletonDisk ==
    ASSUME Inv, NEW s \in Seqs, IsLanded(s), intent.now.phase = "skeletons",
           UNCHANGED <<body, intent, state, parsed, judging, gone>>,
           landed' \in [Seqs -> Names(BOOLEAN)], skeleton' \in [Seqs -> Names(Skeletons)],
           \A t \in Seqs : landed'[t].now = landed[t].now /\ landed'[t].may \subseteq landed[t].may,
           \A t \in Seqs \ {s} : skeleton'[t].may \subseteq skeleton[t].may
    PROVE  DiskInv' /\ \A t \in Seqs \ {s} : Safe(t) => Safe(t)'
  <1>1. RestTyped'
    BY SameRest DEF Inv, DiskInv, RestTyped
  <1>2. DirsTyped'
    BY DEF DirsTyped, Inv, DiskInv
  <1>3. \A t \in Seqs \ {s} : Safe(t) => Safe(t)'
    BY DEF Safe
  <1>4. Top' = Top /\ 1 .. Top \subseteq Seqs
    BY TopIsSeq DEF Inv, DiskInv, Top
  <1>5. Protected'
    <2>1. ASSUME NEW t \in Seqs, IsLanded(t)' PROVE landed'[t].may = {TRUE}
      <3>1. landed[t].may = {TRUE}
        BY <2>1 DEF Inv, DiskInv, Protected, IsLanded
      <3>2. landed'[t].now \in landed'[t].may /\ landed'[t].may \subseteq landed[t].may
        BY <1>2 DEF DirsTyped, Names
      <3> QED BY <3>1, <3>2
    <2>2. ASSUME NEW t \in 1 .. Top PROVE IsLanded(t)' \/ Safe(t)'
      <3>1. t \in Seqs
        BY <1>4
      <3>2. CASE t = s
        BY <3>2 DEF IsLanded
      <3>3. CASE t # s
        BY <1>3, <3>1, <3>3 DEF Inv, DiskInv, Protected, IsLanded
      <3> QED BY <3>2, <3>3
    <2> QED BY <1>4, <2>1, <2>2 DEF Protected
  <1>6. Parsed'
    BY <1>4 DEF Inv, DiskInv, Parsed
  <1>7. DeletesSafe'
    BY DEF DeletesSafe
  <1> QED BY <1>1, <1>2, <1>3, <1>5, <1>6, <1>7 DEF DiskInv

\* An earlier attempt's skeleton, cleared, is a name like any other.
LEMMA ClearedName ==
    ASSUME DirsTyped, NEW s \in Seqs
    PROVE  Cleared(s) \in Names(Skeletons)
  <1>1. skeleton[s] \in Names(Skeletons) /\ Absent \in Skeletons
    BY DEF DirsTyped, Skeletons
  <1> QED BY <1>1, WrittenName DEF Cleared

LEMMA WriteSkeletonStep ==
    ASSUME Inv, NEW s \in Seqs, NEW o \in Outcomes, WriteSkeleton(s, o)
    PROVE  Inv'
  <1> DEFINE e == Written(Cleared(s), job.generation)
             k == [skeleton EXCEPT ![s] = e]
  <1>1. /\ job.generation \in Gens /\ JobTyped /\ JobFits /\ DirsTyped
        /\ s > job.done /\ s <= job.through /\ IsLanded(s)
        /\ \A t \in Left : s <= t
    BY DEF Inv, DiskInv, JobTyped, WriteSkeleton, Resting, First, Left
  <1>2. job.generation \in Skeletons
    BY <1>1 DEF Skeletons
  <1>3. e \in Names(Skeletons) /\ e.stuck = FALSE /\ e.now = job.generation
    <2>1. Cleared(s) \in Names(Skeletons)
      BY <1>1, ClearedName
    <2> QED BY <1>2, <2>1 DEF Written, Names, Disk
  <1>4. k \in [Seqs -> Names(Skeletons)] /\ k[s] = e /\ \A t \in Seqs \ {s} : k[t] = skeleton[t]
    BY <1>1, <1>3 DEF DirsTyped
  <1>5. ProviderSync(o, landed, k)
    BY DEF WriteSkeleton
  <1> HIDE DEF e, k
  <1>6. /\ landed' \in [Seqs -> Names(BOOLEAN)]
        /\ skeleton' \in [Seqs -> Names(Skeletons)]
        /\ \A t \in Seqs : /\ landed'[t].now = landed[t].now /\ landed'[t].may \subseteq landed[t].may
                           /\ skeleton'[t].may \subseteq k[t].may
                           /\ skeleton'[t] = Synced(o, k[t])
    BY <1>1, <1>4, <1>5, ProviderSynced DEF DirsTyped
  <1>7. intent.now.phase = "skeletons" /\ intent.now.through = job.through
    BY <1>1 DEF JobFits, WriteSkeleton
  <1>8. DiskInv' /\ \A t \in Seqs \ {s} : Safe(t) => Safe(t)'
    BY <1>1, <1>4, <1>6, <1>7, SkeletonDisk DEF WriteSkeleton
  <1>9. StoreTyped' /\ RestTyped'
    BY <1>8 DEF WriteSkeleton, Inv, StoreTyped, DiskInv
  <1>10. CASE o = "synced"
    <2>1. job' = [job EXCEPT !.done = s]
      BY <1>10, ThenGoes DEF WriteSkeleton
    <2>2. /\ job'.at = "skeletons" /\ job'.done = s /\ job'.through = job.through
          /\ job'.from = job.from /\ job.from # "none"
      BY <1>1, <2>1 DEF JobTyped, Jobs, Resting, WriteSkeleton
    <2>3. JobTyped'
      BY <1>1, <2>1 DEF JobTyped, Jobs, Resting, WriteSkeleton, Seqs
    <2>4. Safe(s)'
      <3>1. skeleton'[s].may = {job.generation}
        BY <1>3, <1>4, <1>6, <1>10, FlushedName
      <3>2. Whole(job.generation)
        BY <1>1 DEF Whole, Absent, Reserved, Gens
      <3> QED BY <3>1, <3>2 DEF Safe
    <2>5. ASSUME NEW t \in Seqs, t <= s, IsLanded(t)' PROVE Safe(t)'
      <3>1. IsLanded(t)
        BY <1>6, <2>5 DEF IsLanded
      <3>2. CASE t = s
        BY <2>4, <3>2
      <3>3. CASE t # s
        <4>1. t \in Int /\ s \in Int /\ job.done \in Int /\ job.through \in Int
          BY <1>1, RemovalAssumption DEF Seqs, JobTyped, Jobs
        <4>2. t \notin Left
          BY <1>1, <2>5, <3>3, <4>1
        <4>3. t <= job.done
          BY <1>1, <2>5, <3>1, <3>3, <4>1, <4>2 DEF Left
        <4> QED BY <1>1, <1>8, <3>1, <3>3, <4>3 DEF JobFits, WriteSkeleton
      <3> QED BY <3>2, <3>3
    <2>6. JobFits'
      BY <1>1, <1>7, <2>2, <2>5 DEF JobFits, Finishing, WriteSkeleton
    <2> QED BY <1>8, <1>9, <2>3, <2>6 DEF Inv
  <1>11. CASE o # "synced"
    BY <1>8, <1>9, <1>11, ThenGoes, RestingJob DEF WriteSkeleton, Inv
  <1> QED BY <1>10, <1>11

LEMMA SkeletonCutShortStep ==
    ASSUME Inv, NEW s \in Seqs, NEW left \in {Absent, Reserved}, SkeletonCutShort(s, left)
    PROVE  Inv'
  <1>1. IsLanded(s) /\ intent.now.phase = "skeletons" /\ DirsTyped
    BY DEF Inv, DiskInv, JobFits, SkeletonCutShort, First, Left
  <1>2. Cleared(s) \in Names(Skeletons) /\ Written(Cleared(s), left) \in Names(Skeletons)
    BY <1>1, ClearedName, WrittenName DEF Skeletons
  <1>3. skeleton' \in [Seqs -> Names(Skeletons)] /\ \A t \in Seqs \ {s} : skeleton'[t] = skeleton[t]
    BY <1>1, <1>2 DEF SkeletonCutShort, DirsTyped
  <1>4. DiskInv'
    BY <1>1, <1>3, SkeletonDisk DEF SkeletonCutShort, DirsTyped
  <1>5. StoreTyped' /\ RestTyped'
    BY <1>4 DEF SkeletonCutShort, Inv, StoreTyped, DiskInv
  <1> QED BY <1>4, <1>5, GivenUpRests, RestingJob DEF SkeletonCutShort, Inv

\* A file goes only where its skeleton is whole, and then it is durable.
LEMMA DeleteStep ==
    ASSUME Inv, NEW s \in Seqs, Delete(s)
    PROVE  Inv'
  <1>1. CASE ~Whole(skeleton[s].now)
    <2>1. job' \in {[Away EXCEPT !.at = a] : a \in Resting} /\ UNCHANGED <<body, disk, gone, parsed>>
      BY <1>1, GivenUpRests DEF Delete, disk
    <2> QED BY <2>1, QuietStep DEF Delete, Inv, DiskInv, RestTyped
  <1>2. CASE Whole(skeleton[s].now)
    <2>1. /\ job.at = "delete" /\ IsLanded(s) /\ s <= job.through
          /\ landed' = [landed EXCEPT ![s] = Written(@, FALSE)] /\ gone' = gone \cup {s}
          /\ UNCHANGED <<body, skeleton, intent, state, tip, piece, parsed, judging, job>>
      BY <1>2 DEF Delete, First, Left
    <2>2. intent.now.phase = "delete" /\ intent.now.through = job.through /\ job.through <= parsed
      BY <2>1 DEF Inv, JobFits, Finishing
    <2>3. Safe(s)
      BY <1>2, <2>1, <2>2 DEF Inv, DiskInv, DeletesSafe
    <2>4. landed[s] \in Names(BOOLEAN)
      BY DEF Inv, DiskInv, DirsTyped
    <2>5. /\ Written(landed[s], FALSE) \in Names(BOOLEAN)
          /\ Written(landed[s], FALSE).now = FALSE
      BY <2>4 DEF Written, Names, Disk
    <2>6. DirsTyped' /\ RestTyped' /\ StoreTyped'
      BY <2>1, <2>5 DEF Inv, DiskInv, DirsTyped, RestTyped, StoreTyped, Top
    <2>7. /\ ~IsLanded(s)'
          /\ \A t \in Seqs \ {s} : landed'[t] = landed[t]
          /\ \A t \in Seqs : IsLanded(t)' => t # s /\ IsLanded(t)
      BY <2>1, <2>5 DEF Inv, DiskInv, DirsTyped, IsLanded
    <2>8. Top' = Top /\ 1 .. Top \subseteq Seqs /\ \A t \in Seqs : Safe(t)' = Safe(t)
      BY <2>1, TopIsSeq DEF Inv, DiskInv, Top, Safe
    <2>9. Protected'
      <3>1. \A t \in Seqs : IsLanded(t)' => landed'[t].may = {TRUE}
        BY <2>7 DEF Inv, DiskInv, Protected
      <3>2. ASSUME NEW t \in 1 .. Top PROVE IsLanded(t)' \/ Safe(t)'
        <4>1. CASE t = s
          BY <2>1, <2>3, <4>1 DEF Safe
        <4>2. CASE t # s
          BY <2>1, <2>7, <2>8, <4>2 DEF Inv, DiskInv, Protected, IsLanded, Safe
        <4> QED BY <4>1, <4>2
      <3> QED BY <2>8, <3>1, <3>2 DEF Protected
    <2>10. Parsed'
      <3>1. ASSUME NEW t \in 1 .. Top, FALSE \in landed'[t].may PROVE t <= parsed
        <4>1. CASE t = s
          BY <2>1, <2>2, <4>1, RemovalAssumption DEF Inv, DiskInv, RestTyped, JobTyped, Jobs, Seqs
        <4>2. CASE t # s
          BY <2>7, <2>8, <3>1, <4>2 DEF Inv, DiskInv, Parsed
        <4> QED BY <4>1, <4>2
      <3> QED BY <2>1, <2>8, <3>1 DEF Inv, DiskInv, Parsed
    <2>11. DeletesSafe'
      BY <2>1, <2>7 DEF Inv, DiskInv, DeletesSafe, Safe
    <2>12. JobTyped' /\ JobFits'
      BY <2>1 DEF Inv, JobTyped, JobFits, Finishing
    <2> QED BY <2>6, <2>9, <2>10, <2>11, <2>12 DEF Inv, DiskInv
  <1> QED BY <1>1, <1>2

-----------------------------------------------------------------------------
(* A body lands, and the power is lost. *)

LEMMA LandStep ==
    ASSUME Inv, NEW base \in 0 .. MaxSeq, NEW cites \in 0 .. MaxSeq, Land(base, cites)
    PROVE  Inv'
  <1> DEFINE n == Top + 1
             b == [base |-> base, cites |-> cites]
  <1>1. /\ job.at = "collect" /\ ~Removing /\ Top < MaxSeq
        /\ body' = Append(body, b)
        /\ landed' = [landed EXCEPT ![n] = Settled(TRUE)]
        /\ UNCHANGED <<skeleton, tip, gone, parsed, judging, job>>
    BY DEF Land, MayLand
  <1>2. body \in Seq(Bodies) /\ Top \in Nat /\ n \in Seqs /\ DirsTyped /\ 1 .. Top \subseteq Seqs
    BY <1>1, TopIsSeq, RemovalAssumption DEF Inv, DiskInv, RestTyped, Seqs
  <1>3. Top' = n /\ body' \in Seq(Bodies)
    BY <1>1, <1>2, AppendProperties DEF Top, Bodies
  <1>4. /\ landed' \in [Seqs -> Names(BOOLEAN)]
        /\ landed'[n].now = TRUE /\ landed'[n].may = {TRUE}
        /\ \A s \in Seqs \ {n} : landed'[s] = landed[s]
    BY <1>1, <1>2, SettledName DEF DirsTyped
  <1>5. /\ intent' \in Names(Intents) /\ intent'.now = intent.now /\ intent'.may \subseteq intent.may
        /\ state' \in Names({0} \cup Gens)
        /\ piece' \in [Seqs -> Names(BOOLEAN)]
    <2>1. CASE MustKeep(cites)
      <3> DEFINE r == Reached("synced", 2, 1)
                 p == [piece EXCEPT ![cites] = Written(@, TRUE)]
      <3>1. SessionSync(r, intent, state) /\ piece' = EachSynced("synced", p)
        BY <2>1 DEF Land, ParentsSync
      <3>2. r \in Outcomes /\ "synced" \in Outcomes
        BY DEF Reached, Outcomes
      <3>3. p \in [Seqs -> Names(BOOLEAN)]
        BY WrittenName DEF Inv, StoreTyped
      <3> HIDE DEF r, p
      <3>4. piece' \in [Seqs -> Names(BOOLEAN)]
        BY <3>1, <3>2, <3>3, EachSyncedNames
      <3>5. /\ intent' \in Names(Intents) /\ intent'.now = intent.now /\ intent'.may \subseteq intent.may
            /\ state' \in Names({0} \cup Gens)
        BY <1>2, <3>1, <3>2, SessionSynced DEF DirsTyped
      <3> QED BY <3>4, <3>5
    <2>2. CASE ~MustKeep(cites)
      <3>1. UNCHANGED <<piece, intent, state>>
        BY <2>2 DEF Land
      <3> QED BY <1>2, <3>1 DEF DirsTyped, Inv, StoreTyped
    <2> QED BY <2>1, <2>2
  <1>6. DirsTyped' /\ StoreTyped'
    BY <1>1, <1>2, <1>4, <1>5 DEF DirsTyped, Inv, StoreTyped
  <1>7. RestTyped'
    <2>1. parsed <= Top + 1 /\ parsed \in Nat /\ n <= MaxSeq
      BY <1>1, <1>2, RemovalAssumption DEF Inv, DiskInv, RestTyped
    <2> QED BY <1>1, <1>3, <2>1 DEF Inv, DiskInv, RestTyped
  <1>8. \A s \in Seqs : Safe(s) => Safe(s)'
    BY <1>1 DEF Safe
  <1>9. Protected'
    <2>1. ASSUME NEW s \in Seqs, IsLanded(s)' PROVE landed'[s].may = {TRUE}
      <3>1. CASE s = n
        BY <1>4, <3>1
      <3>2. CASE s # n
        BY <1>4, <2>1, <3>2 DEF Inv, DiskInv, Protected, IsLanded
      <3> QED BY <3>1, <3>2
    <2>2. ASSUME NEW s \in 1 .. n PROVE IsLanded(s)' \/ Safe(s)'
      <3>1. CASE s = n
        BY <1>4, <3>1 DEF IsLanded
      <3>2. CASE s # n
        <4>1. s \in 1 .. Top /\ s \in Seqs
          BY <1>2, <3>2
        <4> QED BY <1>4, <1>8, <3>2, <4>1 DEF Inv, DiskInv, Protected, IsLanded
      <3> QED BY <3>1, <3>2
    <2> QED BY <1>3, <2>1, <2>2 DEF Protected
  <1>10. Parsed'
    <2>1. ASSUME NEW s \in 1 .. n, FALSE \in landed'[s].may PROVE s <= parsed
      <3>1. s # n
        BY <1>4, <2>1
      <3>2. s \in 1 .. Top /\ s \in Seqs
        BY <1>2, <3>1
      <3> QED BY <1>4, <2>1, <3>1, <3>2 DEF Inv, DiskInv, Parsed
    <2>2. \A v \in intent'.may : v.through <= parsed
      BY <1>5 DEF Inv, DiskInv, Parsed
    <2> QED BY <1>1, <1>3, <2>1, <2>2 DEF Parsed
  <1>11. DeletesSafe'
    BY <1>1, <1>5 DEF DeletesSafe, Removing, NoIntent
  <1>12. JobTyped' /\ JobFits'
    <2>1. JobTyped'
      BY <1>1 DEF Inv, JobTyped
    <2> QED BY <1>1, <2>1 DEF Inv, JobFits, Finishing
  <1> QED BY <1>6, <1>7, <1>9, <1>10, <1>11, <1>12 DEF Inv, DiskInv

\* Whatever the disk may come back with is safe, and then it is settled.
LEMMA PowerLossStep == ASSUME Inv, PowerLoss PROVE Inv'
  <1>1. /\ UNCHANGED <<body, gone, parsed>> /\ judging' = FALSE /\ job' = Away
    BY DEF PowerLoss
  <1>2. RestTyped' /\ Top' = Top /\ 1 .. Top \subseteq Seqs
    BY <1>1, TopIsSeq DEF Inv, DiskInv, RestTyped, Top
  <1>3. \A s \in Seqs : /\ landed'[s].may = {landed'[s].now}
                        /\ landed'[s].now \in landed[s].may
    <2>1. DOMAIN landed = Seqs
      BY DEF Inv, DiskInv, DirsTyped
    <2>2. PICK r \in [Seqs -> BOOLEAN] :
             /\ \A s \in Seqs : r[s] \in landed[s].may
             /\ landed' = [s \in Seqs |-> Settled(r[s])]
      BY <2>1 DEF PowerLoss, Remains, Reset, Skeletons
    <2>3. \A s \in Seqs : landed'[s] = [now |-> r[s], may |-> {r[s]}, stuck |-> FALSE]
      BY <2>2 DEF Settled
    <2> QED BY <2>2, <2>3
  <1>4. \A s \in Seqs : /\ skeleton'[s].may = {skeleton'[s].now}
                        /\ skeleton'[s].now \in skeleton[s].may
    <2>1. DOMAIN skeleton = Seqs
      BY DEF Inv, DiskInv, DirsTyped
    <2>2. PICK r \in [Seqs -> Skeletons] :
             /\ \A s \in Seqs : r[s] \in skeleton[s].may
             /\ skeleton' = [s \in Seqs |-> Settled(r[s])]
      BY <2>1 DEF PowerLoss, Remains, Reset, Skeletons
    <2>3. \A s \in Seqs : skeleton'[s] = [now |-> r[s], may |-> {r[s]}, stuck |-> FALSE]
      BY <2>2 DEF Settled
    <2> QED BY <2>2, <2>3
  <1>5. landed' \in [Seqs -> Names(BOOLEAN)]
    <2>1. DOMAIN landed = Seqs
      BY DEF Inv, DiskInv, DirsTyped
    <2>2. PICK r \in [Seqs -> BOOLEAN] : landed' = [s \in Seqs |-> Settled(r[s])]
      BY <2>1 DEF PowerLoss, Remains, Reset
    <2> QED BY <2>2, SettledName
  <1>6. skeleton' \in [Seqs -> Names(Skeletons)]
    <2>1. DOMAIN skeleton = Seqs
      BY DEF Inv, DiskInv, DirsTyped
    <2>2. PICK r \in [Seqs -> Skeletons] : skeleton' = [s \in Seqs |-> Settled(r[s])]
      BY <2>1 DEF PowerLoss, Remains, Reset, Skeletons
    <2> QED BY <2>2, SettledName
  <1>7. intent' \in Names(Intents) /\ intent'.may \subseteq intent.may
    <2>1. PICK i \in intent.may : intent' = Settled(i)
      BY DEF PowerLoss
    <2>2. i \in Intents
      BY DEF Inv, DiskInv, DirsTyped, Names, Disk
    <2> QED BY <2>1, <2>2, SettledName
  <1>8. state' \in Names({0} \cup Gens)
    <2>1. PICK g \in state.may : state' = Settled(g)
      BY DEF PowerLoss
    <2>2. g \in {0} \cup Gens
      BY DEF Inv, DiskInv, DirsTyped, Names, Disk
    <2> QED BY <2>1, <2>2, SettledName
  <1>9. StoreTyped'
    <2>1. ASSUME NEW t \in [Seqs -> BOOLEAN] PROVE Reset(t) \in [Seqs -> Names(BOOLEAN)]
      BY SettledName DEF Reset
    <2>2. tip' \in [Gens -> [Seqs -> Names(BOOLEAN)]]
      <3>1. tip' \in [Gens -> {Reset(t) : t \in [Seqs -> BOOLEAN]}]
        BY DEF PowerLoss
      <3> QED BY <2>1, <3>1
    <2>3. DOMAIN piece = Seqs
      BY DEF Inv, StoreTyped
    <2>4. PICK p \in [Seqs -> BOOLEAN] : piece' = Reset(p)
      BY <2>3 DEF PowerLoss, Remains
    <2> QED BY <2>1, <2>2, <2>4 DEF StoreTyped
  <1>10. \A s \in Seqs : /\ Safe(s) => Safe(s)'
                         /\ Whole(skeleton'[s].now) => Safe(s)'
    BY <1>4 DEF Safe
  <1>11. Protected'
    <2>1. ASSUME NEW s \in Seqs, IsLanded(s)' PROVE landed'[s].may = {TRUE}
      <3>1. landed'[s].now \in BOOLEAN
        BY <1>5 DEF Names, Disk
      <3>2. landed'[s].may = {landed'[s].now}
        BY <1>3
      <3> QED BY <2>1, <3>1, <3>2 DEF IsLanded
    <2>2. ASSUME NEW s \in 1 .. Top PROVE IsLanded(s)' \/ Safe(s)'
      <3>1. s \in Seqs
        BY <1>2
      <3>2. CASE IsLanded(s)
        <4>1. landed[s].may = {TRUE}
          BY <3>1, <3>2 DEF Inv, DiskInv, Protected
        <4>2. landed'[s].now \in {TRUE}
          BY <1>3, <3>1, <4>1
        <4> QED BY <4>2 DEF IsLanded
      <3>3. CASE ~IsLanded(s)
        BY <1>10, <3>1, <3>3 DEF Inv, DiskInv, Protected
      <3> QED BY <3>2, <3>3
    <2> QED BY <1>2, <2>1, <2>2 DEF Protected
  <1>12. Parsed'
    <2>1. ASSUME NEW s \in 1 .. Top, FALSE \in landed'[s].may PROVE s <= parsed
      <3>1. s \in Seqs
        BY <1>2
      <3>2. FALSE \in landed[s].may
        BY <1>3, <2>1, <3>1
      <3> QED BY <3>2 DEF Inv, DiskInv, Parsed
    <2>2. \A v \in intent'.may : v.through <= parsed
      BY <1>7 DEF Inv, DiskInv, Parsed
    <2> QED BY <1>1, <1>2, <2>1, <2>2 DEF Parsed
  <1>13. DeletesSafe'
    BY <1>10 DEF DeletesSafe
  <1>14. JobTyped' /\ JobFits'
    BY <1>1, <1>2, GivenUpRests, RestingJob
  <1> QED BY <1>2, <1>5, <1>6, <1>7, <1>8, <1>9, <1>11, <1>12, <1>13, <1>14 DEF Inv, DiskInv, DirsTyped

-----------------------------------------------------------------------------
(* The theorems. *)

LEMMA UnchangedStep == ASSUME Inv, UNCHANGED vars PROVE Inv'
  <1>1. judging' \in BOOLEAN /\ UNCHANGED <<body, disk, gone, parsed, job, judging>>
    BY DEF vars, Inv, DiskInv, RestTyped
  <1> QED BY <1>1, QuietStep

\* The invariant holds in every state of every run of Removal.
THEOREM Invariance == Spec => []Inv
  <1>1. Init => Inv
    BY InitInv
  <1>2. Inv /\ [Next]_vars => Inv'
    <2> SUFFICES ASSUME Inv, [Next]_vars PROVE Inv'
      OBVIOUS
    <2>1. CASE Pass
      <3>1. CASE StartPass \/ NothingToRecover \/ Recover \/ Parse \/ NothingToRemove
        BY <3>1, StartPassStep, NothingToRecoverStep, RecoverStep, ParseStep, NothingToRemoveStep
      <3>2. CASE \E base, cites \in 0 .. MaxSeq : Land(base, cites)
        BY <3>2, LandStep
      <3>3. CASE \E base, cites \in 0 .. MaxSeq, o \in Outcomes, n \in 0 .. 1 :
                    PieceNotKept(base, cites, o, n)
        BY <3>3, PieceNotKeptStep
      <3>4. CASE \E o \in Outcomes, n \in 0 .. 2 : KeepTip(o, n)
        BY <3>4, KeepTipStep
      <3>5. CASE \E o \in Outcomes :
                    \/ SaveIntent(o) \/ SavePhase(o) \/ SaveGeneration(o)
                    \/ SyncDeleted(o) \/ RemoveIntent(o)
        BY <3>5, SaveIntentStep, SavePhaseStep, SaveGenerationStep, SyncDeletedStep, RemoveIntentStep
      <3>6. CASE \E s \in Seqs, o \in Outcomes : WriteSkeleton(s, o)
        BY <3>6, WriteSkeletonStep
      <3>7. CASE \E s \in Seqs, left \in {Absent, Reserved} : SkeletonCutShort(s, left)
        BY <3>7, SkeletonCutShortStep
      <3>8. CASE \E s \in Seqs : Delete(s)
        BY <3>8, DeleteStep
      <3>9. CASE ReclaimTips \/ ReclaimPieces
        BY <3>9, ReclaimTipsStep, ReclaimPiecesStep
      <3> QED BY <2>1, <3>1, <3>2, <3>3, <3>4, <3>5, <3>6, <3>7, <3>8, <3>9 DEF Pass
    <2>2. CASE Check
      BY <2>2, CheckStep
    <2>3. CASE Stop \/ Fails \/ PowerLoss
      BY <2>3, StopStep, FailsStep, PowerLossStep
    <2>4. CASE JudgeStart \/ JudgeEnd
      BY <2>4, JudgeStartStep, JudgeEndStep
    <2>5. CASE UNCHANGED vars
      BY <2>5, UnchangedStep
    <2> QED BY <2>1, <2>2, <2>3, <2>4, <2>5 DEF Next
  <1> QED BY <1>1, <1>2, PTL DEF Spec

\* Every variable a pass works on keeps its kind, for any number of bodies.
THEOREM TypeCorrect == Spec => []TypeOK
  <1>1. Inv => TypeOK
    <2> SUFFICES ASSUME Inv PROVE TypeOK
      OBVIOUS
    <2>1. /\ landed \in [Seqs -> Disk(BOOLEAN)] /\ piece \in [Seqs -> Disk(BOOLEAN)]
          /\ skeleton \in [Seqs -> Disk({Absent, Reserved} \cup Gens)]
          /\ intent \in Disk(Intents) /\ state \in Disk({0} \cup Gens)
      BY DEF Inv, DiskInv, DirsTyped, StoreTyped, Names, Skeletons
    <2>2. tip \in [Gens -> [Seqs -> Disk(BOOLEAN)]]
      <3>1. \A g \in Gens : tip[g] \in [Seqs -> Disk(BOOLEAN)]
        BY DEF Inv, StoreTyped, Names
      <3> QED BY <3>1 DEF Inv, StoreTyped
    <2>3. parsed \in 0 .. MaxSeq
      BY TopIsSeq, RemovalAssumption DEF Inv, DiskInv, RestTyped
    <2> QED BY <2>1, <2>2, <2>3 DEF TypeOK, Inv, DiskInv, RestTyped, JobTyped, Bodies
  <1> QED BY <1>1, Invariance, PTL

\* finish (internal/retention/retention.go): wherever a pass stops, whichever
\* sync fails and whatever a loss of power takes back, no landed sequence is
\* left with neither its file nor its whole skeleton.
THEOREM NothingLost == Spec => []Kept
  <1>1. Inv => Kept
    <2> SUFFICES ASSUME Inv, NEW s \in 1 .. Top, ~IsLanded(s) PROVE Whole(skeleton[s].now)
      BY DEF Kept
    <2>1. Safe(s)
      BY DEF Inv, DiskInv, Protected
    <2>2. skeleton[s].now \in skeleton[s].may
      BY TopIsSeq DEF Inv, DiskInv, DirsTyped, Names
    <2> QED BY <2>1, <2>2 DEF Safe
  <1> QED BY <1>1, Invariance, PTL

\* removable (internal/retention/retention.go): only what the chain covers is
\* ever removed, also by a removal finished after a loss of power.
THEOREM UnparsedStays == Spec => []OnlyParsedGo
  <1>1. Inv => OnlyParsedGo
    <2> SUFFICES ASSUME Inv, NEW s \in 1 .. Top, ~IsLanded(s) PROVE s <= parsed
      BY DEF OnlyParsedGo, IsRemoved, IsLanded
    <2>1. s \in Seqs
      BY TopIsSeq DEF Inv, DiskInv
    <2>2. landed[s].now \in BOOLEAN /\ landed[s].now \in landed[s].may
      BY <2>1 DEF Inv, DiskInv, DirsTyped, Names, Disk
    <2>3. FALSE \in landed[s].may
      BY <2>2 DEF IsLanded
    <2> QED BY <2>3 DEF Inv, DiskInv, Parsed
  <1> QED BY <1>1, Invariance, PTL

\* judging (internal/retention/retention.go): no step deletes a landed file of a
\* session while a judge run reads it.
THEOREM JudgeSees == Spec => JudgeUndisturbed
  <1>1. ASSUME Inv, Inv', [Next]_vars, judging, judging', NEW s \in 1 .. Top, IsLanded(s)
        PROVE  landed'[s].now
    <2>0. s \in Seqs /\ job.from = "none" /\ job.at \in Resting /\ DirsTyped /\ DiskInv
      BY <1>1, TopIsSeq DEF Inv, DiskInv, JobFits, JobTyped
    <2>1. CASE UNCHANGED landed
      BY <1>1, <2>1 DEF IsLanded
    <2>2. CASE \E base, cites \in 0 .. MaxSeq : Land(base, cites)
      <3>1. PICK base \in 0 .. MaxSeq, cites \in 0 .. MaxSeq : Land(base, cites)
        BY <2>2
      <3>2. landed' = [landed EXCEPT ![Top + 1] = Settled(TRUE)]
        BY <3>1 DEF Land
      <3> QED BY <1>1, <2>0, <3>2 DEF DirsTyped, IsLanded, Settled
    <2>3. CASE \E base, cites \in 0 .. MaxSeq, o \in Outcomes, n \in 0 .. 1 : PieceNotKept(base, cites, o, n)
      BY <2>1, <2>3 DEF PieceNotKept
    <2>4. CASE Stop \/ Fails \/ JudgeStart \/ JudgeEnd \/ Check \/ UNCHANGED vars
      BY <2>1, <2>4 DEF Stop, Fails, JudgeStart, JudgeEnd, Check, StartCheck, ReadGeneration, LookForIntent,
                        LoadIntent, List, Open, Build, Built, Compare, CheckKeeps, disk, vars
    <2>5. CASE PowerLoss
      BY <1>1, <2>5 DEF PowerLoss
    <2>6. CASE StartPass \/ NothingToRecover \/ Recover \/ Parse \/ NothingToRemove
      BY <2>1, <2>6 DEF StartPass, NothingToRecover, Recover, Parse, NothingToRemove, disk
    <2>7. ASSUME NEW o \in Outcomes
          PROVE  /\ ~SaveIntent(o) /\ ~SavePhase(o) /\ ~SaveGeneration(o) /\ ~SyncDeleted(o) /\ ~RemoveIntent(o)
                 /\ \A n \in 0 .. 2 : ~KeepTip(o, n)
                 /\ \A t \in Seqs : ~WriteSkeleton(t, o)
      BY <1>1, <2>0 DEF SaveIntent, SavePhase, SaveGeneration, SyncDeleted, RemoveIntent, KeepTip, WriteSkeleton,
                        Resting
    <2>8. /\ \A t \in Seqs, left \in {Absent, Reserved} : ~SkeletonCutShort(t, left)
          /\ \A t \in Seqs : ~Delete(t)
          /\ ~ReclaimTips /\ ~ReclaimPieces
      BY <2>0 DEF SkeletonCutShort, Delete, ReclaimTips, ReclaimPieces, Resting
    <2> QED BY <1>1, <2>2, <2>3, <2>4, <2>5, <2>6, <2>7, <2>8 DEF Next, Pass
  <1>2. Inv /\ Inv' /\ [Next]_vars =>
            [judging /\ judging' => \A s \in 1 .. Top : IsLanded(s) => landed'[s].now]_vars
    BY <1>1
  <1> QED BY <1>2, Invariance, PTL DEF Spec, JudgeUndisturbed

-----------------------------------------------------------------------------
(***************************************************************************)
(* The store.  What is kept of the removed files must be enough for what   *)
(* landed after them, and no deleted file may come back with no intent     *)
(* left.  Both need that what was removed is a first part of the session,  *)
(* whatever a loss of power leaves of the intent, and that what the later  *)
(* sync is to settle was not left by one that failed.                      *)
(***************************************************************************)

\* A file that is gone for good.
Lost(s) == landed[s].may = {FALSE}
AllLost(b) == \A s \in 1 .. b : Lost(s)

\* A deletion that waits for a sync.
Unsettled(s) == landed[s].may # {landed[s].now}

\* No sync that failed left behind a deletion, or the intent of a removal that
\* deletes: the code takes the directory's next sync for theirs too.
NoneStranded ==
    /\ \A s \in Seqs : ~landed[s].stuck
    /\ intent.now.phase = "delete" => ~intent.stuck

\* The bytes the store holds for good.
TipKept(g, s) == tip[g][s].may = {TRUE}
PieceKept(c) == piece[c].may = {TRUE}

\* The bodies past b are there, and cite before it only what the store keeps.
Cut(b) ==
    \A s \in b + 1 .. Top :
        /\ IsLanded(s) /\ s \notin gone
        /\ body[s].cites \in 1 .. b => PieceKept(body[s].cites)

\* If this is the intent a loss of power leaves, what was removed, or is to be,
\* ends at b: its last body is kept as the chain's tip.  Where nothing is left
\* to remove, or bodies landed since, all of it is gone.
EndsAt(i, b) ==
    /\ Cut(b)
    /\ i # NoIntent => b = i.through /\ TipKept(i.generation, b)
    /\ i = NoIntent \/ b < Top => AllLost(b)
    /\ b # 0 => \E g \in Gens : TipKept(g, b)

Bounded == \A i \in intent.may : \E b \in 0 .. Top : EndsAt(i, b)

Shape == \A s \in 1 .. Top : body[s].base \in {0, s - 1} /\ body[s].cites < s

\* Whatever intent is left covers the deletions that wait for a sync, and one
\* that ended has nothing left to delete.
NotLanded == \A s \in Seqs : s > Top => Lost(s)
OnlyLanded == gone \subseteq 1 .. Top
Waiting ==
    /\ \A s \in Seqs : Unsettled(s) => \A i \in intent.may : s <= i.through
    /\ ~Removing => \A i \in intent.may : AllLost(i.through)

StoreDisk == Bounded /\ Shape /\ NotLanded /\ OnlyLanded /\ Waiting

\* What a pass has made sure of by the step it is at.
Ready ==
    /\ job.at = "intent" => job.through = Top /\ TipKept(job.generation, Top)
    /\ job.at \in {"skeletons"} \cup Finishing => job.generation = intent.now.generation
    /\ job.at \in Finishing => job.done = 0
    /\ job.at \in Finishing \ {"generation"} => intent.may = {intent.now}
    /\ job.at \in {"tips", "pieces", "end"} => AllLost(job.through)

StoreInv == StoreDisk /\ Ready

-----------------------------------------------------------------------------
(* What keeps the store's promise. *)

\* No landed file becomes less certain, and the store loses nothing for good.
NothingGoes ==
    /\ UNCHANGED <<body, gone>>
    /\ \A s \in Seqs : /\ IsLanded(s) => landed'[s].now
                       /\ landed'[s].may \subseteq landed[s].may
    /\ \A g \in Gens, s \in Seqs : tip'[g][s].may \subseteq tip[g][s].may \cup {TRUE}
    /\ \A c \in Seqs : piece'[c].may \subseteq piece[c].may \cup {TRUE}

LEMMA NothingGoesKeeps ==
    ASSUME DirsTyped', StoreTyped', NothingGoes
    PROVE  /\ \A s \in Seqs : IsLanded(s) => IsLanded(s)'
           /\ \A s \in Seqs : Lost(s) => Lost(s)'
           /\ \A s \in Seqs : Unsettled(s)' => Unsettled(s)
           /\ \A g \in Gens, s \in Seqs : TipKept(g, s) => TipKept(g, s)'
           /\ \A c \in Seqs : PieceKept(c) => PieceKept(c)'
  <1>1. \A s \in Seqs : landed'[s].now \in landed'[s].may
    BY DEF DirsTyped, Names
  <1>2. \A g \in Gens, s \in Seqs : tip'[g][s].now \in tip'[g][s].may
    BY DEF StoreTyped, Names
  <1>3. \A c \in Seqs : piece'[c].now \in piece'[c].may
    BY DEF StoreTyped, Names
  <1>4. \A s \in Seqs : Lost(s) => Lost(s)'
    BY <1>1 DEF NothingGoes, Lost
  <1>5. \A s \in Seqs : Unsettled(s)' => Unsettled(s)
    BY <1>1 DEF NothingGoes, Unsettled
  <1>6. \A g \in Gens, s \in Seqs : TipKept(g, s) => TipKept(g, s)'
    BY <1>2 DEF NothingGoes, TipKept
  <1>7. \A c \in Seqs : PieceKept(c) => PieceKept(c)'
    BY <1>3 DEF NothingGoes, PieceKept
  <1> QED BY <1>4, <1>5, <1>6, <1>7 DEF NothingGoes, IsLanded

LEMMA EndsKept ==
    ASSUME RestTyped, DirsTyped', StoreTyped', NothingGoes,
           NEW i \in Intents, NEW b \in 0 .. Top, EndsAt(i, b)
    PROVE  EndsAt(i, b)'
  <1>1. Top' = Top /\ Top \in Nat /\ 1 .. Top \subseteq Seqs
    BY TopIsSeq DEF NothingGoes, Top
  <1>2. b \in Nat /\ 1 .. b \subseteq Seqs /\ b + 1 .. Top \subseteq Seqs
    BY <1>1
  <1>3. b # 0 => b \in Seqs
    BY <1>2
  <1>4. Cut(b)'
    <2>1. body' = body /\ gone' = gone
      BY DEF NothingGoes
    <2>2. ASSUME NEW s \in b + 1 .. Top
          PROVE  /\ IsLanded(s)' /\ s \notin gone
                 /\ body[s].cites \in 1 .. b => piece'[body[s].cites].may = {TRUE}
      <3>1. /\ IsLanded(s) /\ s \notin gone /\ s \in Seqs
            /\ body[s].cites \in 1 .. b => PieceKept(body[s].cites)
        BY <1>2 DEF EndsAt, Cut
      <3>2. ASSUME NEW c \in 1 .. b, PieceKept(c) PROVE piece'[c].may = {TRUE}
        BY <1>2, <3>2, NothingGoesKeeps DEF PieceKept
      <3> QED BY <3>1, <3>2, NothingGoesKeeps
    <2> QED BY <1>1, <2>1, <2>2 DEF Cut, PieceKept
  <1>5. i # NoIntent => b = i.through /\ TipKept(i.generation, b)'
    <2>1. i # NoIntent => i.generation \in Gens /\ i.through \in Seqs
      BY DEF Intents
    <2> QED BY <2>1, NothingGoesKeeps DEF EndsAt
  <1>6. i = NoIntent \/ b < Top => AllLost(b)'
    BY <1>2, NothingGoesKeeps DEF EndsAt, AllLost
  <1>7. b # 0 => \E g \in Gens : TipKept(g, b)'
    BY <1>3, NothingGoesKeeps DEF EndsAt
  <1> QED BY <1>1, <1>4, <1>5, <1>6, <1>7 DEF EndsAt

\* A step by which nothing goes keeps what the store holds, whatever intents
\* the disk may now show.
LEMMA StoreKept ==
    ASSUME Inv, Inv', StoreDisk, NothingGoes, Waiting',
           \A i \in intent'.may : i \in intent.may \/ \E b \in 0 .. Top : EndsAt(i, b)
    PROVE  StoreDisk'
  <1>1. RestTyped /\ DirsTyped' /\ StoreTyped' /\ Top' = Top
    BY DEF Inv, DiskInv, NothingGoes, Top
  <1>2. Bounded'
    <2> SUFFICES ASSUME NEW i \in intent'.may PROVE \E b \in 0 .. Top : EndsAt(i, b)'
      BY <1>1 DEF Bounded
    <2>1. i \in Intents
      BY <1>1 DEF DirsTyped, Names, Disk
    <2>2. PICK b \in 0 .. Top : EndsAt(i, b)
      BY DEF StoreDisk, Bounded
    <2> QED BY <1>1, <2>1, <2>2, EndsKept
  <1>3. Shape' /\ OnlyLanded'
    BY <1>1 DEF StoreDisk, Shape, OnlyLanded, NothingGoes
  <1>4. NotLanded'
    BY <1>1, NothingGoesKeeps DEF StoreDisk, NotLanded
  <1> QED BY <1>2, <1>3, <1>4 DEF StoreDisk

\* The intent shows what it showed, and may fall back on nothing new.
LEMMA StillWaiting ==
    ASSUME Inv, Inv', Waiting, NothingGoes, intent'.now = intent.now, intent'.may \subseteq intent.may
    PROVE  Waiting'
  <1>1. DirsTyped' /\ StoreTyped'
    BY DEF Inv, DiskInv
  <1>2. ASSUME ~Removing, NEW i \in intent'.may PROVE AllLost(i.through)'
    <2>1. AllLost(i.through) /\ i \in Intents
      BY <1>1, <1>2 DEF Waiting, DirsTyped, Names, Disk
    <2>2. 1 .. i.through \subseteq Seqs
      BY <2>1, RemovalAssumption DEF Intents, NoIntent, Seqs
    <2> QED BY <1>1, <2>1, <2>2, NothingGoesKeeps DEF AllLost
  <1>3. ASSUME NEW s \in Seqs, Unsettled(s)', NEW i \in intent'.may PROVE s <= i.through
    BY <1>1, <1>3, NothingGoesKeeps DEF Waiting
  <1> QED BY <1>2, <1>3 DEF Waiting, Removing

\* The disk is as it was.
LEMMA SameStore ==
    ASSUME StoreDisk, UNCHANGED <<body, disk, gone>>
    PROVE  StoreDisk'
  <1>1. /\ body' = body /\ landed' = landed /\ intent' = intent
        /\ tip' = tip /\ piece' = piece /\ gone' = gone /\ Top' = Top
    BY DEF disk, Top
  <1>2. \A b \in 0 .. Top : Cut(b)' = Cut(b) /\ AllLost(b)' = AllLost(b)
    BY <1>1 DEF Cut, AllLost, Lost, PieceKept, IsLanded
  <1>3. \A i \in intent.may, b \in 0 .. Top : EndsAt(i, b) => EndsAt(i, b)'
    BY <1>1, <1>2 DEF EndsAt, TipKept
  <1>4. Bounded'
    BY <1>1, <1>3 DEF StoreDisk, Bounded
  <1>5. Shape' /\ NotLanded' /\ OnlyLanded' /\ Waiting'
    BY <1>1 DEF StoreDisk, Shape, NotLanded, OnlyLanded, Waiting, Lost, AllLost, Unsettled, Removing
  <1> QED BY <1>4, <1>5 DEF StoreDisk

\* A pass that works on no removal has made sure of nothing.
LEMMA RestReady ==
    ASSUME job' \in {[Away EXCEPT !.at = a] : a \in Resting}
    PROVE  Ready'
  <1> PICK a \in Resting : job' = [at |-> a, from |-> "none", generation |-> 0, through |-> 0, done |-> 0]
    BY DEF Away
  <1>1. job'.at \in Resting
    OBVIOUS
  <1> QED BY <1>1 DEF Ready, Resting, Finishing

\* A step that touches neither the disk nor the chain.
LEMMA QuietStore ==
    ASSUME StoreInv, UNCHANGED <<body, disk, gone>>,
           UNCHANGED job \/ job' \in {[Away EXCEPT !.at = a] : a \in Resting}
    PROVE  StoreInv'
  <1>1. StoreDisk'
    BY SameStore DEF StoreInv
  <1>2. CASE UNCHANGED job
    <2>1. /\ landed' = landed /\ intent' = intent /\ tip' = tip /\ Top' = Top /\ job' = job
      BY <1>2 DEF disk, Top
    <2> QED BY <1>1, <2>1 DEF StoreInv, Ready, TipKept, AllLost, Lost
  <1> QED BY <1>1, <1>2, RestReady DEF StoreInv

\* The steps that leave the disk alone.
LEMMA QuietSteps ==
    ASSUME StoreInv,
           \/ StartPass \/ NothingToRecover \/ Parse \/ NothingToRemove \/ Stop \/ Fails
           \/ Check \/ JudgeStart \/ JudgeEnd \/ UNCHANGED vars
    PROVE  StoreInv'
  <1>1. CASE StartPass \/ NothingToRecover \/ Parse
    <2>1. job' \in {[Away EXCEPT !.at = a] : a \in Resting}
      BY <1>1 DEF StartPass, NothingToRecover, Parse, Resting
    <2> QED BY <1>1, <2>1, QuietStore DEF StartPass, NothingToRecover, Parse
  <1>2. CASE NothingToRemove \/ Stop \/ Fails
    BY <1>2, GivenUpRests, QuietStore DEF NothingToRemove, Stop, Fails
  <1>3. CASE Check
    <2>1. CheckKeeps
      BY <1>3 DEF Check, StartCheck, ReadGeneration, LookForIntent, LoadIntent, List, Open, Build,
                  Built, Compare
    <2> QED BY <2>1, QuietStore DEF CheckKeeps
  <1>4. CASE JudgeStart \/ JudgeEnd \/ UNCHANGED vars
    BY <1>4, QuietStore DEF JudgeStart, JudgeEnd, vars
  <1> QED BY <1>1, <1>2, <1>3, <1>4

\* Recover takes up the removal the intent names.
LEMMA RecoverStore == ASSUME StoreInv, Recover PROVE StoreInv'
  <1>1. StoreDisk' /\ intent' = intent
    BY SameStore DEF StoreInv, Recover, disk
  <1>2. /\ job'.at \in {"skeletons", "generation"} /\ job'.done = 0
        /\ job'.generation = intent.now.generation
    BY DEF Recover
  <1>3. Ready'
    BY <1>1, <1>2 DEF Ready, Finishing
  <1> QED BY <1>1, <1>3 DEF StoreInv

\* A name that is written, and its directory synced.
LEMMA WrittenKept ==
    ASSUME NEW f \in [Seqs -> Names(BOOLEAN)], NEW c \in Seqs, NEW o \in Outcomes
    PROVE  LET w == EachSynced(o, [f EXCEPT ![c] = Written(@, TRUE)])
           IN  /\ w \in [Seqs -> Names(BOOLEAN)]
               /\ \A s \in Seqs : w[s].may \subseteq f[s].may \cup {TRUE}
               /\ o = "synced" => w[c].may = {TRUE}
  <1> DEFINE v == [f EXCEPT ![c] = Written(@, TRUE)]
  <1>1. /\ Written(f[c], TRUE) \in Names(BOOLEAN) /\ Written(f[c], TRUE).stuck = FALSE
        /\ Written(f[c], TRUE).now = TRUE /\ Written(f[c], TRUE).may = f[c].may \cup {TRUE}
    <2>1. f[c].may \subseteq BOOLEAN
      BY DEF Names, Disk
    <2> QED BY <2>1 DEF Written, Names, Disk
  <1>2. /\ v \in [Seqs -> Names(BOOLEAN)] /\ v[c] = Written(f[c], TRUE)
        /\ \A s \in Seqs \ {c} : v[s] = f[s]
    BY <1>1
  <1> HIDE DEF v
  <1>3. /\ EachSynced(o, v) \in [Seqs -> Names(BOOLEAN)]
        /\ \A s \in Seqs : EachSynced(o, v)[s].may \subseteq v[s].may
        /\ EachSynced(o, v)[c] = Synced(o, v[c])
    <2>1. v \in [Seqs -> Names(BOOLEAN)]
      BY <1>2
    <2> QED BY <2>1, EachSyncedNames
  <1>4. ASSUME NEW s \in Seqs PROVE v[s].may \subseteq f[s].may \cup {TRUE}
    <2>1. CASE s = c
      BY <1>1, <1>2, <2>1
    <2>2. CASE s # c
      <3>1. v[s] = f[s]
        BY <1>2, <2>2
      <3> QED BY <3>1
    <2> QED BY <2>1, <2>2
  <1>5. o = "synced" => Synced(o, v[c]).may = {TRUE}
    BY <1>1, <1>2, FlushedName
  <1>6. EachSynced(o, [f EXCEPT ![c] = Written(@, TRUE)]) = EachSynced(o, v)
    BY DEF v
  <1> QED BY <1>3, <1>4, <1>5, <1>6

\* keepTips: the chain's tip is kept, durably, before the removal begins.
LEMMA KeepTipStore ==
    ASSUME Inv, Inv', StoreInv, NEW o \in Outcomes, NEW n \in 0 .. 2, KeepTip(o, n)
    PROVE  StoreInv'
  <1> DEFINE g == NextGeneration
             w == EachSynced(o, [tip[g] EXCEPT ![Top] = Written(@, TRUE)])
             next == [at |-> "intent", from |-> "remove", generation |-> g, through |-> Top, done |-> 0]
  <1>1. /\ g \in Gens /\ Removable /\ Then(o, next) /\ ParentsSync(o, n)
        /\ UNCHANGED <<body, landed, skeleton, piece, gone>> /\ (o = "synced" => n = 2)
    BY DEF KeepTip, ParentsSync
  <1>3. Top \in Seqs /\ Top' = Top
    BY <1>1, TopIsSeq DEF Inv, DiskInv, Removable, Top
  <1>4. tip \in [Gens -> [Seqs -> Names(BOOLEAN)]] /\ tip' = [tip EXCEPT ![g] = w]
    <2>1. tip \in [Gens -> [Seqs -> Names(BOOLEAN)]]
      BY DEF Inv, StoreTyped
    <2>2. tip' = [[tip EXCEPT ![g][Top] = Written(@, TRUE)] EXCEPT
                  ![g] = EachSynced(o, [tip EXCEPT ![g][Top] = Written(@, TRUE)][g])]
      BY DEF KeepTip
    <2> HIDE DEF g
    <2>3. [tip EXCEPT ![g][Top] = Written(@, TRUE)][g] = [tip[g] EXCEPT ![Top] = Written(@, TRUE)]
      BY <1>1, <2>1
    <2> QED BY <1>1, <2>1, <2>2, <2>3
  <1> HIDE DEF g
  <1>5. /\ w \in [Seqs -> Names(BOOLEAN)]
        /\ \A s \in Seqs : w[s].may \subseteq tip[g][s].may \cup {TRUE}
        /\ o = "synced" => w[Top].may = {TRUE}
    <2>2. tip[g] \in [Seqs -> Names(BOOLEAN)]
      BY <1>1, <1>4
    <2> QED BY <1>3, <2>2, WrittenKept
  <1> HIDE DEF w
  <1>7. Calm
    BY <1>1, ParentsCalm DEF Inv
  <1>8. NothingGoes
    BY <1>1, <1>4, <1>5, <1>7 DEF NothingGoes, Calm, IsLanded
  <1>9. Waiting'
    BY <1>7, <1>8, StillWaiting DEF StoreInv, StoreDisk, Calm
  <1>10. StoreDisk'
    BY <1>7, <1>8, <1>9, StoreKept DEF StoreInv, Calm
  <1>11. CASE o = "synced"
    <2>1. job' = next
      BY <1>1, <1>11, ThenGoes
    <2>2. TipKept(job.generation, Top)'
      BY <1>1, <1>3, <1>4, <1>5, <1>11, <2>1 DEF TipKept
    <2>3. Ready'
      BY <1>3, <2>1, <2>2 DEF Ready, Finishing
    <2> QED BY <1>10, <2>3 DEF StoreInv
  <1>12. CASE o # "synced"
    BY <1>1, <1>10, <1>12, ThenGoes, RestReady DEF StoreInv
  <1> QED BY <1>11, <1>12

\* A piece that could not be kept, durably, before its body.
LEMMA PieceNotKeptStore ==
    ASSUME Inv, Inv', StoreInv, NEW base \in 0 .. MaxSeq, NEW cites \in 0 .. MaxSeq,
           NEW o \in Outcomes, NEW n \in 0 .. 1, PieceNotKept(base, cites, o, n)
    PROVE  StoreInv'
  <1>1. /\ ~Removing /\ cites \in Seqs /\ Then(o, job) /\ o # "synced"
        /\ ParentsSync(o, n) /\ UNCHANGED <<body, landed, skeleton, tip, gone>>
        /\ piece' = EachSynced(o, [piece EXCEPT ![cites] = Written(@, TRUE)])
    BY RemovalAssumption DEF PieceNotKept, MayLand, MustKeep, Seqs
  <1>2. \A s \in Seqs : piece'[s].may \subseteq piece[s].may \cup {TRUE}
    <2>1. piece \in [Seqs -> Names(BOOLEAN)]
      BY DEF Inv, StoreTyped
    <2> QED BY <1>1, <2>1, WrittenKept
  <1>4. Calm
    BY <1>1, ParentsCalm DEF Inv
  <1>5. NothingGoes
    BY <1>1, <1>2, <1>4 DEF NothingGoes, Calm, IsLanded
  <1>6. Waiting'
    BY <1>4, <1>5, StillWaiting DEF StoreInv, StoreDisk, Calm
  <1>7. StoreDisk'
    BY <1>4, <1>5, <1>6, StoreKept DEF StoreInv, Calm
  <1> QED BY <1>1, <1>7, ThenGoes, RestReady DEF StoreInv

\* SaveRemoving: the intent names the last body, whose bytes are kept.
LEMMA SaveIntentStore ==
    ASSUME Inv, Inv', StoreInv, NEW o \in Outcomes, SaveIntent(o)
    PROVE  StoreInv'
  <1> DEFINE v == [generation |-> job.generation, through |-> job.through, phase |-> "skeletons"]
             i == Written(intent, v)
  <1>1. /\ job.generation \in Gens /\ job.through \in Seqs /\ job.through = Top
        /\ TipKept(job.generation, Top)
    BY DEF Inv, JobTyped, StoreInv, Ready, SaveIntent, Resting
  <1>2. v \in Intents /\ v # NoIntent /\ v.through = Top /\ v.generation = job.generation
        /\ v.phase = "skeletons"
    BY <1>1 DEF Intents, Phases, NoIntent
  <1>3. SessionSync(o, i, state) /\ UNCHANGED <<body, landed, tip, piece, gone>>
    BY DEF SaveIntent
  <1>4. intent \in Names(Intents) /\ state \in Names({0} \cup Gens)
    BY DEF Inv, DiskInv, DirsTyped
  <1>5. EndsAt(v, Top) /\ Top \in Nat
    <2>1. Top \in Nat
      BY TopIsSeq DEF Inv, DiskInv
    <2>2. Cut(Top)
      BY <2>1 DEF Cut
    <2> HIDE DEF v
    <2> QED BY <1>1, <1>2, <2>1, <2>2 DEF EndsAt
  <1> HIDE DEF v
  <1>6. i \in Names(Intents) /\ i.now = v /\ i.may = intent.may \cup {v}
    BY <1>2, <1>4, WrittenIntent
  <1> HIDE DEF i
  <1>7. intent'.now = v /\ intent'.may \subseteq intent.may \cup {v}
    BY <1>3, <1>4, <1>6, SessionSynced
  <1>8. NothingGoes
    BY <1>3 DEF NothingGoes, IsLanded
  <1>9. ASSUME NEW s \in Seqs, Unsettled(s) PROVE s <= Top
    <2>1. landed[s].now \in landed[s].may /\ s \in Nat /\ Top \in Nat
      BY <1>5 DEF Inv, DiskInv, DirsTyped, Names, Seqs
    <2>2. ~Lost(s)
      BY <1>9, <2>1 DEF Lost, Unsettled
    <2> QED BY <2>1, <2>2 DEF StoreInv, StoreDisk, NotLanded
  <1>10. Waiting'
    <2>1. \A s \in Seqs : Unsettled(s)' => Unsettled(s)
      BY <1>3 DEF Unsettled
    <2>2. \A s \in Seqs : Unsettled(s)' => \A j \in intent'.may : s <= j.through
      BY <1>2, <1>7, <1>9, <2>1 DEF StoreInv, StoreDisk, Waiting
    <2>3. Removing'
      BY <1>2, <1>7 DEF Removing
    <2> QED BY <2>2, <2>3 DEF Waiting
  <1>11. Top \in 0 .. Top /\ \A j \in intent'.may : j \in intent.may \/ j = v
    BY <1>5, <1>7
  <1>12. StoreDisk'
    BY <1>5, <1>8, <1>9, <1>10, <1>11, StoreKept DEF StoreInv
  <1>13. CASE o = "synced"
    <2>1. job' = [job EXCEPT !.at = "skeletons"]
      BY <1>13, ThenGoes DEF SaveIntent
    <2>2. job'.at = "skeletons" /\ job'.generation = intent'.now.generation
      BY <1>2, <1>7, <2>1 DEF Inv, JobTyped, Jobs
    <2>3. Ready'
      BY <2>2 DEF Ready, Finishing
    <2> QED BY <1>12, <2>3 DEF StoreInv
  <1>14. CASE o # "synced"
    BY <1>12, <1>14, ThenGoes, RestReady DEF SaveIntent, StoreInv
  <1> QED BY <1>13, <1>14

\* WriteSkeleton: nothing of the store goes.
LEMMA WriteSkeletonStore ==
    ASSUME Inv, Inv', StoreInv, NEW s \in Seqs, NEW o \in Outcomes, WriteSkeleton(s, o)
    PROVE  StoreInv'
  <1> DEFINE k == [skeleton EXCEPT ![s] = Written(Cleared(s), job.generation)]
  <1>1. /\ job.generation = intent.now.generation
        /\ job.generation \in Skeletons
    BY DEF Inv, JobTyped, Resting, StoreInv, Ready, WriteSkeleton, Skeletons
  <1>2. ProviderSync(o, landed, k) /\ UNCHANGED <<body, intent, tip, piece, gone>>
    BY DEF WriteSkeleton
  <1>3. k \in [Seqs -> Names(Skeletons)]
    <2>1. Cleared(s) \in Names(Skeletons)
      BY ClearedName DEF Inv, DiskInv
    <2>2. Written(Cleared(s), job.generation) \in Names(Skeletons)
      BY <1>1, <2>1, WrittenName
    <2> QED BY <2>2 DEF Inv, DiskInv, DirsTyped
  <1> HIDE DEF k
  <1>4. landed \in [Seqs -> Names(BOOLEAN)]
    BY DEF Inv, DiskInv, DirsTyped
  <1>5. \A t \in Seqs : landed'[t].now = landed[t].now /\ landed'[t].may \subseteq landed[t].may
    BY <1>2, <1>3, <1>4, ProviderSynced
  <1>7. NothingGoes
    BY <1>2, <1>5 DEF NothingGoes, IsLanded
  <1>8. Waiting'
    BY <1>2, <1>7, StillWaiting DEF StoreInv, StoreDisk
  <1>9. StoreDisk'
    BY <1>2, <1>7, <1>8, StoreKept DEF StoreInv
  <1>10. CASE o = "synced"
    <2>1. job' = [job EXCEPT !.done = s] /\ job.at = "skeletons"
      BY <1>10, ThenGoes DEF WriteSkeleton
    <2>2. job'.at = "skeletons" /\ job'.generation = intent'.now.generation
      BY <1>1, <1>2, <2>1 DEF Inv, JobTyped, Jobs
    <2>3. Ready'
      BY <2>2 DEF Ready, Finishing
    <2> QED BY <1>9, <2>3 DEF StoreInv
  <1>11. CASE o # "synced"
    BY <1>9, <1>11, ThenGoes, RestReady DEF WriteSkeleton, StoreInv
  <1> QED BY <1>10, <1>11

LEMMA SkeletonCutShortStore ==
    ASSUME Inv, Inv', StoreInv, NEW s \in Seqs, NEW left \in {Absent, Reserved}, SkeletonCutShort(s, left)
    PROVE  StoreInv'
  <1>1. UNCHANGED <<body, landed, intent, tip, piece, gone>> /\ job' = Away
    BY DEF SkeletonCutShort
  <1>2. NothingGoes
    BY <1>1 DEF NothingGoes, IsLanded
  <1>3. Waiting'
    BY <1>1, <1>2, StillWaiting DEF StoreInv, StoreDisk
  <1>4. StoreDisk'
    BY <1>1, <1>2, <1>3, StoreKept DEF StoreInv
  <1> QED BY <1>1, <1>4, GivenUpRests, RestReady DEF StoreInv

\* The phase is saved, durably, or the removal stops: what it may fall back on
\* ends where it ends.
LEMMA SavePhaseStore ==
    ASSUME Inv, Inv', StoreInv, NEW o \in Outcomes, SavePhase(o)
    PROVE  StoreInv'
  <1> DEFINE v == [generation |-> job.generation, through |-> job.through, phase |-> "delete"]
             i == Written(intent, v)
  <1>1. /\ job.generation \in Gens /\ job.through \in Seqs
        /\ intent.now.phase = "skeletons"
        /\ intent.now.through = job.through /\ intent.now.generation = job.generation
    BY DEF Inv, JobTyped, JobFits, StoreInv, Ready, SavePhase, Resting
  <1>2. v \in Intents /\ v # NoIntent /\ v.through = intent.now.through
        /\ v.generation = intent.now.generation /\ v.phase = "delete"
    BY <1>1 DEF Intents, Phases, NoIntent
  <1>3. SessionSync(o, i, state) /\ UNCHANGED <<body, landed, tip, piece, gone>>
    BY DEF SavePhase
  <1>4. intent \in Names(Intents) /\ state \in Names({0} \cup Gens)
    BY DEF Inv, DiskInv, DirsTyped
  <1> HIDE DEF v
  <1>5. \E b \in 0 .. Top : EndsAt(v, b)
    <2>1. intent.now \in intent.may /\ intent.now # NoIntent
      BY <1>1, <1>4 DEF Names, NoIntent
    <2>2. PICK b \in 0 .. Top : EndsAt(intent.now, b)
      BY <2>1 DEF StoreInv, StoreDisk, Bounded
    <2> QED BY <1>2, <2>1, <2>2 DEF EndsAt
  <1>6. i \in Names(Intents) /\ i.now = v /\ i.may = intent.may \cup {v}
    BY <1>2, <1>4, WrittenIntent
  <1> HIDE DEF i
  <1>7. intent'.now = v /\ intent'.may \subseteq intent.may \cup {v}
    BY <1>3, <1>4, <1>6, SessionSynced
  <1>9. NothingGoes
    BY <1>3 DEF NothingGoes, IsLanded
  <1>10. Waiting'
    <2>1. intent.now \in intent.may
      BY <1>4 DEF Names
    <2>2. \A s \in Seqs : Unsettled(s)' => Unsettled(s)
      BY <1>3 DEF Unsettled
    <2>3. \A s \in Seqs : Unsettled(s)' => \A j \in intent'.may : s <= j.through
      BY <1>2, <1>7, <2>1, <2>2 DEF StoreInv, StoreDisk, Waiting
    <2>4. Removing'
      BY <1>2, <1>7 DEF Removing
    <2> QED BY <2>3, <2>4 DEF Waiting
  <1>11. \A j \in intent'.may : j \in intent.may \/ j = v
    BY <1>7
  <1>12. StoreDisk'
    BY <1>5, <1>9, <1>10, <1>11, StoreKept DEF StoreInv
  <1>13. CASE o = "synced"
    <2>1. job' = [job EXCEPT !.at = "generation", !.done = 0]
      BY <1>13, ThenGoes DEF SavePhase
    <2>2. job'.at = "generation" /\ job'.generation = intent'.now.generation /\ job'.done = 0
      BY <1>1, <1>2, <1>7, <2>1 DEF Inv, JobTyped, Jobs
    <2>3. Ready'
      BY <2>2 DEF Ready, Finishing
    <2> QED BY <1>12, <2>3 DEF StoreInv
  <1>14. CASE o # "synced"
    BY <1>12, <1>14, ThenGoes, RestReady DEF SavePhase, StoreInv
  <1> QED BY <1>13, <1>14

\* SaveRemovalGeneration's sync is the one that settles the intent.
LEMMA SaveGenerationStore ==
    ASSUME Inv, Inv', StoreInv, NoneStranded, NEW o \in Outcomes, SaveGeneration(o)
    PROVE  StoreInv'
  <1>1. intent' = Synced(o, intent) /\ UNCHANGED <<body, landed, tip, piece, gone>>
    BY DEF SaveGeneration, SessionSync
  <1>2. /\ intent \in Names(Intents) /\ job.at \in Finishing /\ job.at \notin Resting
        /\ intent.now.phase = "delete" /\ ~intent.stuck
    BY DEF Inv, DiskInv, DirsTyped, JobFits, Finishing, Resting, SaveGeneration, NoneStranded
  <1>3. intent'.now = intent.now /\ intent'.may \subseteq intent.may
    BY <1>1, <1>2, SyncedName
  <1>5. NothingGoes
    BY <1>1 DEF NothingGoes, IsLanded
  <1>6. Waiting'
    BY <1>3, <1>5, StillWaiting DEF StoreInv, StoreDisk
  <1>7. StoreDisk'
    BY <1>3, <1>5, <1>6, StoreKept DEF StoreInv
  <1>8. CASE o = "synced"
    <2>1. job' = [job EXCEPT !.at = "delete"] /\ job.done = 0 /\ job.generation = intent.now.generation
      BY <1>2, <1>8, ThenGoes DEF SaveGeneration, StoreInv, Ready
    <2>2. job'.at = "delete" /\ job'.generation = intent'.now.generation /\ job'.done = 0
      BY <1>3, <2>1 DEF Inv, JobTyped, Jobs
    <2>3. intent'.may = {intent'.now}
      <3>1. intent.stuck = FALSE
        BY <1>2 DEF Names, Disk
      <3> QED BY <1>1, <1>3, <1>8, <3>1, FlushedName
    <2>4. Ready'
      BY <2>2, <2>3 DEF Ready, Finishing
    <2> QED BY <1>7, <2>4 DEF StoreInv
  <1>9. CASE o # "synced"
    BY <1>7, <1>9, ThenGoes, RestReady DEF SaveGeneration, StoreInv
  <1> QED BY <1>8, <1>9

\* A removal that is deleting has an intent no loss of power takes back, and
\* what it removes ends at the body it was saved for.
LEMMA Deleting ==
    ASSUME Inv, StoreInv, job.at \in Finishing \ {"generation"}
    PROVE  /\ job.through \in 1 .. Top /\ job.generation \in Gens /\ job.done = 0
           /\ intent.may = {intent.now} /\ Removing /\ intent.now.phase = "delete"
           /\ intent.now.through = job.through /\ intent.now.generation = job.generation
           /\ EndsAt(intent.now, job.through)
  <1>1. job.at \notin Resting /\ job.at \in Finishing
    BY DEF Finishing, Resting
  <1>2. /\ job.generation \in Gens /\ job.through \in Seqs /\ job.done = 0
        /\ intent.may = {intent.now} /\ intent.now.phase = "delete"
        /\ intent.now.through = job.through /\ intent.now.generation = job.generation
    BY <1>1 DEF Inv, JobTyped, JobFits, StoreInv, Ready
  <1>3. intent.now # NoIntent
    BY <1>2 DEF NoIntent
  <1>4. PICK b \in 0 .. Top : EndsAt(intent.now, b)
    BY <1>2 DEF StoreInv, StoreDisk, Bounded
  <1>5. b = job.through
    BY <1>2, <1>3, <1>4 DEF EndsAt
  <1>6. job.through \in 1 .. Top
    BY <1>2, <1>4, <1>5, TopIsSeq DEF Inv, DiskInv, Seqs
  <1> QED BY <1>2, <1>3, <1>4, <1>5, <1>6 DEF Removing

\* finish: a file is deleted, which a loss of power may bring back.
LEMMA DeleteStore ==
    ASSUME Inv, Inv', StoreInv, NEW s \in Seqs, Delete(s)
    PROVE  StoreInv'
  <1>1. CASE ~Whole(skeleton[s].now)
    BY <1>1, GivenUpRests, QuietStore DEF Delete, disk
  <1>2. CASE Whole(skeleton[s].now)
    <2> DEFINE b == job.through
    <2>1. /\ landed' = [landed EXCEPT ![s] = Written(@, FALSE)] /\ gone' = gone \cup {s}
          /\ UNCHANGED <<body, intent, tip, piece, job>> /\ Top' = Top
          /\ job.at = "delete" /\ s <= b /\ IsLanded(s)
      BY <1>2 DEF Delete, First, Left, Top
    <2>2. /\ b \in 1 .. Top /\ intent.may = {intent.now} /\ Removing
          /\ intent.now.phase = "delete" /\ EndsAt(intent.now, b)
      BY <2>1, Deleting DEF Finishing
    <2>3. Top \in Nat /\ s \in 1 .. b
      BY <2>1, <2>2, TopIsSeq DEF Inv, DiskInv, Seqs
    <2>4. landed' \in [Seqs -> Names(BOOLEAN)] /\ \A t \in Seqs \ {s} : landed'[t] = landed[t]
      BY <2>1 DEF Inv, DiskInv, DirsTyped
    <2>5. ~(b < Top)
      <3> SUFFICES ASSUME b < Top PROVE FALSE
        OBVIOUS
      <3>1. Lost(s)
        BY <2>2, <2>3 DEF EndsAt, AllLost
      <3>2. landed[s].now \in landed[s].may
        BY DEF Inv, DiskInv, DirsTyped, Names
      <3> QED BY <2>1, <3>1, <3>2 DEF Lost, IsLanded
    <2>6. EndsAt(intent.now, b)'
      <3>1. Cut(b)'
        BY <2>1, <2>2, <2>3, <2>5 DEF Cut
      <3> QED BY <2>1, <2>2, <2>5, <3>1 DEF EndsAt, TipKept, Removing
    <2>7. Bounded'
      BY <2>1, <2>2, <2>3, <2>6 DEF Bounded
    <2>9. NotLanded'
      <3>1. ASSUME NEW t \in Seqs, t > Top PROVE landed'[t].may = {FALSE}
        <4>1. t # s
          BY <2>2, <2>3, <3>1
        <4> QED BY <2>4, <3>1, <4>1 DEF NotLanded, Lost, StoreInv, StoreDisk
      <3> QED BY <2>1, <3>1 DEF NotLanded, Lost
    <2>10. Shape' /\ OnlyLanded' /\ Waiting'
      <3>1. Shape'
        BY <2>1 DEF Shape, StoreInv, StoreDisk
      <3>2. OnlyLanded'
        BY <2>1, <2>2, <2>3 DEF OnlyLanded, StoreInv, StoreDisk
      <3>3. ASSUME NEW t \in Seqs, Unsettled(t)', NEW i \in intent.may PROVE t <= i.through
        <4>1. CASE t = s
          BY <2>1, <2>2, <4>1 DEF EndsAt, Removing
        <4>2. CASE t # s
          BY <2>4, <3>3, <4>2 DEF Unsettled, Waiting, StoreInv, StoreDisk
        <4> QED BY <4>1, <4>2
      <3>4. Waiting'
        BY <2>1, <2>2, <3>3 DEF Waiting, Removing
      <3> QED BY <3>1, <3>2, <3>4
    <2>11. Ready'
      BY <2>1 DEF StoreInv, Ready, Finishing
    <2> QED BY <2>7, <2>9, <2>10, <2>11 DEF StoreInv, StoreDisk
  <1> QED BY <1>1, <1>2

\* The deletions are synced: what the removal covers is gone for good.
LEMMA SyncDeletedStore ==
    ASSUME Inv, Inv', StoreInv, NoneStranded, NEW o \in Outcomes, SyncDeleted(o)
    PROVE  StoreInv'
  <1>1. /\ ProviderSync(o, landed, skeleton) /\ UNCHANGED <<body, intent, tip, piece, gone>>
        /\ job.at = "delete" /\ Left = {}
    BY DEF SyncDeleted
  <1>2. /\ job.done = 0 /\ job.through \in 1 .. Top /\ job.generation = intent.now.generation
        /\ intent.may = {intent.now}
    BY <1>1, Deleting DEF Finishing
  <1>3. /\ landed \in [Seqs -> Names(BOOLEAN)] /\ skeleton \in [Seqs -> Names(Skeletons)]
        /\ \A t \in Seqs : ~landed[t].stuck
    BY DEF Inv, DiskInv, DirsTyped, NoneStranded
  <1>4. \A t \in Seqs : landed'[t].now = landed[t].now /\ landed'[t].may \subseteq landed[t].may
    BY <1>1, <1>3, ProviderSynced
  <1>5. ASSUME o = "synced", NEW t \in Seqs PROVE landed'[t].may = {landed[t].now}
    <2>1. landed'[t] = Synced("synced", landed[t])
      BY <1>1, <1>3, <1>5 DEF ProviderSync, EachSynced
    <2>2. landed[t].stuck = FALSE
      BY <1>3 DEF Names, Disk
    <2> QED BY <2>1, <2>2, FlushedName
  <1>6. NothingGoes
    BY <1>1, <1>4 DEF NothingGoes, IsLanded
  <1>8. Waiting'
    BY <1>1, <1>6, StillWaiting DEF StoreInv, StoreDisk
  <1>9. StoreDisk'
    BY <1>1, <1>6, <1>8, StoreKept DEF StoreInv
  <1>10. CASE o = "synced"
    <2>1. job' = [job EXCEPT !.at = "tips"]
      BY <1>10, ThenGoes DEF SyncDeleted
    <2>2. /\ job'.at = "tips" /\ job'.generation = intent'.now.generation /\ job'.done = 0
          /\ job'.through = job.through
      BY <1>1, <1>2, <2>1 DEF Inv, JobTyped, Jobs
    <2>3. ASSUME NEW t \in 1 .. job.through PROVE Lost(t)'
      <3>1. t \in Seqs /\ t > job.done /\ t <= job.through
        BY <1>2, TopIsSeq DEF Inv, DiskInv
      <3>2. ~IsLanded(t)
        BY <1>1, <3>1 DEF Left
      <3>3. landed[t].now \in BOOLEAN
        BY <1>3, <3>1 DEF Names, Disk
      <3>4. landed[t].now = FALSE
        BY <3>2, <3>3 DEF IsLanded
      <3> QED BY <1>5, <1>10, <3>1, <3>4 DEF Lost
    <2>4. AllLost(job.through)'
      BY <2>2, <2>3 DEF AllLost
    <2>5. Ready'
      BY <1>1, <1>2, <2>2, <2>4 DEF Ready, Finishing
    <2> QED BY <1>9, <2>5 DEF StoreInv
  <1>11. CASE o # "synced"
    BY <1>9, <1>11, ThenGoes, RestReady DEF SyncDeleted, StoreInv
  <1> QED BY <1>10, <1>11

\* reclaim: the tip kept for the removal is not among those that go.
LEMMA ReclaimTipsStore == ASSUME Inv, Inv', StoreInv, ReclaimTips PROVE StoreInv'
  <1>1. /\ UNCHANGED <<body, landed, intent, piece, gone>> /\ Top' = Top
        /\ tip' = WithoutTips(Gens \ {job.generation}) /\ job' = [job EXCEPT !.at = "pieces"]
        /\ job.at = "tips"
    BY DEF ReclaimTips, Top
  <1> PICK b : b = job.through
    OBVIOUS
  <1>2. /\ b \in 1 .. Top /\ job.generation \in Gens /\ job.done = 0
        /\ intent.may = {intent.now} /\ Removing /\ intent.now.generation = job.generation
        /\ EndsAt(intent.now, b)
    BY <1>1, Deleting DEF Finishing
  <1>3. tip'[job.generation] = tip[job.generation]
    <2>1. tip \in [Gens -> [Seqs -> Names(BOOLEAN)]]
      BY DEF Inv, StoreTyped
    <2>2. \A s \in Seqs : tip'[job.generation][s] = tip[job.generation][s]
      BY <1>1, <1>2 DEF WithoutTips
    <2>3. DOMAIN tip'[job.generation] = Seqs /\ tip'[job.generation] = [s \in Seqs |-> tip'[job.generation][s]]
      BY <1>1, <1>2 DEF WithoutTips
    <2> QED BY <1>2, <2>1, <2>2, <2>3
  <1>4. EndsAt(intent.now, b)'
    <2>1. Cut(b)' /\ (AllLost(b) => AllLost(b)')
      BY <1>1, <1>2 DEF EndsAt, Cut, IsLanded, PieceKept, AllLost, Lost
    <2>2. TipKept(intent.now.generation, b)' /\ b = intent.now.through
      BY <1>1, <1>2, <1>3 DEF EndsAt, TipKept, Removing
    <2> QED BY <1>1, <1>2, <2>1, <2>2 DEF EndsAt, Removing
  <1>5. Bounded'
    BY <1>1, <1>2, <1>4 DEF Bounded
  <1>6. Shape' /\ NotLanded' /\ OnlyLanded' /\ Waiting'
    BY <1>1 DEF StoreInv, StoreDisk, Shape, NotLanded, OnlyLanded, Waiting, Lost, AllLost,
                Unsettled, Removing
  <1>7. Ready'
    <2>1. /\ job'.at = "pieces" /\ job'.generation = job.generation /\ job'.done = 0
          /\ job'.through = job.through
      BY <1>1, <1>2 DEF Inv, JobTyped, Jobs
    <2>2. AllLost(job.through) /\ intent.may = {intent.now} /\ job.generation = intent.now.generation
      BY <1>1, <1>2 DEF StoreInv, Ready
    <2>3. AllLost(job.through)'
      BY <1>1, <2>1, <2>2 DEF AllLost, Lost
    <2> QED BY <1>1, <2>1, <2>2, <2>3 DEF Ready, Finishing
  <1> QED BY <1>5, <1>6, <1>7 DEF StoreInv, StoreDisk

\* reclaim: the pieces go where no body landed since that could cite them.
LEMMA ReclaimPiecesStore == ASSUME Inv, Inv', StoreInv, ReclaimPieces PROVE StoreInv'
  <1>1. /\ UNCHANGED <<body, landed, intent, tip, gone>> /\ Top' = Top
        /\ job' = [job EXCEPT !.at = "end"] /\ job.at = "pieces"
    BY DEF ReclaimPieces, Top
  <1> PICK b : b = job.through
    OBVIOUS
  <1>2. /\ b \in 1 .. Top /\ job.done = 0
        /\ intent.may = {intent.now} /\ Removing /\ intent.now.generation = job.generation
        /\ EndsAt(intent.now, b)
    BY <1>1, Deleting DEF Finishing
  <1>3. Cut(b)'
    <2>1. CASE Later
      <3>1. piece' = [c \in Seqs |-> piece[c]]
        BY <2>1 DEF ReclaimPieces
      <3>2. piece' = piece
        BY <3>1 DEF Inv, StoreTyped
      <3> QED BY <1>1, <1>2, <3>2 DEF EndsAt, Cut, IsLanded, PieceKept
    <2>2. CASE ~Later
      <3>1. Top \in Nat /\ 1 .. Top \subseteq Seqs
        BY TopIsSeq DEF Inv, DiskInv
      <3>2. \A s \in b + 1 .. Top : s \in Seqs /\ s > b /\ IsLanded(s)
        BY <1>2, <3>1 DEF EndsAt, Cut
      <3>3. b + 1 .. Top = {}
        BY <2>2, <3>2 DEF Later
      <3> QED BY <1>1, <3>3 DEF Cut
    <2> QED BY <2>1, <2>2
  <1>4. EndsAt(intent.now, b)'
    <2>1. AllLost(b) => AllLost(b)'
      BY <1>1, <1>2 DEF AllLost, Lost
    <2> QED BY <1>1, <1>2, <1>3, <2>1 DEF EndsAt, Removing, TipKept
  <1>5. Bounded'
    BY <1>1, <1>2, <1>4 DEF Bounded
  <1>6. Shape' /\ NotLanded' /\ OnlyLanded' /\ Waiting'
    BY <1>1 DEF StoreInv, StoreDisk, Shape, NotLanded, OnlyLanded, Waiting, Lost, AllLost,
                Unsettled, Removing
  <1>7. Ready'
    <2>1. /\ job'.at = "end" /\ job'.generation = job.generation /\ job'.done = 0
          /\ job'.through = job.through
      BY <1>1, <1>2 DEF Inv, JobTyped, Jobs
    <2>2. AllLost(job.through) /\ intent.may = {intent.now} /\ job.generation = intent.now.generation
      BY <1>1, <1>2 DEF StoreInv, Ready
    <2>3. AllLost(job.through)'
      BY <1>1, <2>1, <2>2 DEF AllLost, Lost
    <2> QED BY <1>1, <2>1, <2>2, <2>3 DEF Ready, Finishing
  <1> QED BY <1>5, <1>6, <1>7 DEF StoreInv, StoreDisk

\* RemoveRemoving: nothing of what was removed is left to come back.
LEMMA RemoveIntentStore ==
    ASSUME Inv, Inv', StoreInv, NEW o \in Outcomes, RemoveIntent(o)
    PROVE  StoreInv'
  <1> DEFINE i == Written(intent, NoIntent)
  <1> PICK b, j : b = job.through /\ j = intent.now
    OBVIOUS
  <1>1. /\ SessionSync(o, i, state) /\ UNCHANGED <<body, landed, tip, piece, gone>>
        /\ job.at = "end"
    BY DEF RemoveIntent
  <1>2. /\ b \in 1 .. Top /\ intent.may = {intent.now} /\ Removing
        /\ EndsAt(j, b) /\ j.through = b /\ AllLost(b)
    BY <1>1, Deleting DEF Finishing, StoreInv, Ready
  <1>3. intent \in Names(Intents) /\ state \in Names({0} \cup Gens) /\ NoIntent \in Intents
    BY DEF Inv, DiskInv, DirsTyped, Intents
  <1>4. i \in Names(Intents) /\ i.now = NoIntent /\ i.may = intent.may \cup {NoIntent}
    BY <1>3, WrittenIntent
  <1> HIDE DEF i
  <1>5. intent'.now = NoIntent /\ intent'.may \subseteq {j, NoIntent}
    BY <1>1, <1>2, <1>3, <1>4, SessionSynced
  <1>6. EndsAt(NoIntent, b)
    BY <1>2 DEF EndsAt
  <1>7. NothingGoes
    BY <1>1 DEF NothingGoes, IsLanded
  <1>8. ASSUME NEW s \in Seqs PROVE landed[s].may = {landed[s].now}
    <2>1. landed[s].now \in landed[s].may /\ Top \in Nat
      BY TopIsSeq DEF Inv, DiskInv, DirsTyped, Names
    <2>2. CASE s \in 1 .. b
      <3>1. landed[s].may = {FALSE}
        BY <1>2, <2>2 DEF AllLost, Lost
      <3> QED BY <2>1, <3>1
    <2>3. CASE s \in b + 1 .. Top
      <3>1. landed[s].may = {TRUE}
        BY <1>2, <2>3 DEF EndsAt, Cut, Inv, DiskInv, Protected
      <3> QED BY <2>1, <3>1
    <2>4. CASE s > Top
      <3>1. landed[s].may = {FALSE}
        BY <2>4 DEF StoreInv, StoreDisk, NotLanded, Lost
      <3> QED BY <2>1, <3>1
    <2> QED BY <1>2, <2>1, <2>2, <2>3, <2>4 DEF Seqs
  <1>9. Waiting'
    <2>1. \A s \in Seqs : ~Unsettled(s)'
      BY <1>1, <1>8 DEF Unsettled
    <2>2. AllLost(j.through)'
      BY <1>1, <1>2 DEF AllLost, Lost
    <2>3. AllLost(NoIntent.through)'
      BY DEF AllLost, NoIntent
    <2> QED BY <1>5, <2>1, <2>2, <2>3 DEF Waiting
  <1>10. \A v \in intent'.may : v \in intent.may \/ v = NoIntent
    BY <1>2, <1>5
  <1>11. b \in 0 .. Top
    BY <1>2
  <1>12. StoreDisk'
    BY <1>6, <1>7, <1>9, <1>10, <1>11, StoreKept DEF StoreInv
  <1>13. job' \in {[Away EXCEPT !.at = a] : a \in Resting}
    BY GivenUpRests, ThenGoes DEF RemoveIntent
  <1> QED BY <1>12, <1>13, RestReady DEF StoreInv

\* Land: what the disk shows of the files, and of the piece the body cites.
LEMMA LandedStore ==
    ASSUME Inv, NEW base \in 0 .. MaxSeq, NEW cites \in 0 .. MaxSeq, Land(base, cites)
    PROVE  /\ landed'[Top + 1].now /\ landed'[Top + 1].may = {TRUE}
           /\ \A s \in Seqs \ {Top + 1} : landed'[s] = landed[s]
           /\ intent'.now = intent.now /\ intent'.may \subseteq intent.may
           /\ \A c \in Seqs : piece'[c].may \subseteq piece[c].may \cup {TRUE}
           /\ MustKeep(cites) => piece'[cites].may = {TRUE}
  <1>1. Top + 1 \in Seqs /\ DirsTyped /\ piece \in [Seqs -> Names(BOOLEAN)]
    BY TopIsSeq, RemovalAssumption DEF Inv, DiskInv, RestTyped, StoreTyped, Seqs, Land, MayLand
  <1>2. /\ landed'[Top + 1].now /\ landed'[Top + 1].may = {TRUE}
        /\ \A s \in Seqs \ {Top + 1} : landed'[s] = landed[s]
    <2>1. landed' = [landed EXCEPT ![Top + 1] = Settled(TRUE)] /\ landed \in [Seqs -> Names(BOOLEAN)]
      BY <1>1 DEF Land, DirsTyped
    <2>2. landed'[Top + 1] = Settled(TRUE)
      BY <1>1, <2>1
    <2>3. landed'[Top + 1] = [now |-> TRUE, may |-> {TRUE}, stuck |-> FALSE]
      BY <2>2 DEF Settled
    <2>4. landed'[Top + 1].now = TRUE /\ landed'[Top + 1].may = {TRUE}
      BY <2>3
    <2>5. \A s \in Seqs \ {Top + 1} : landed'[s] = landed[s]
      BY <2>1
    <2> QED BY <2>4, <2>5
  <1>3. CASE MustKeep(cites)
    <2> DEFINE r == Reached("synced", 2, 1)
               w == EachSynced("synced", [piece EXCEPT ![cites] = Written(@, TRUE)])
    <2>1. SessionSync(r, intent, state) /\ piece' = w
      BY <1>3 DEF Land, ParentsSync
    <2>2. r \in Outcomes /\ "synced" \in Outcomes
      BY DEF Reached, Outcomes
    <2> HIDE DEF r
    <2>3. intent'.now = intent.now /\ intent'.may \subseteq intent.may
      BY <1>1, <2>1, <2>2, SessionSynced DEF DirsTyped
    <2>4. cites \in Seqs
      BY <1>3, RemovalAssumption DEF MustKeep, Seqs
    <2>5. (\A s \in Seqs : w[s].may \subseteq piece[s].may \cup {TRUE}) /\ w[cites].may = {TRUE}
      BY <1>1, <2>2, <2>4, WrittenKept
    <2> QED BY <1>2, <2>1, <2>3, <2>5
  <1>4. CASE ~MustKeep(cites)
    BY <1>2, <1>4 DEF Land
  <1> QED BY <1>3, <1>4

\* RemovedPieces: a piece a removed file held is kept before the first body to
\* cite it lands, and is kept already where another cites it.
LEMMA CitedKept ==
    ASSUME Inv, NEW b \in 0 .. Top, Cut(b), AllLost(b), NEW c \in 1 .. b, ~MustKeep(c)
    PROVE  PieceKept(c)
  <1>1. Top \in Nat /\ c \in 1 .. Top /\ c \in Seqs
    BY TopIsSeq DEF Inv, DiskInv
  <1>2. ASSUME NEW s \in 1 .. b PROVE ~IsLanded(s)
    <2>1. s \in Seqs
      BY <1>1, TopIsSeq DEF Inv, DiskInv
    <2>2. landed[s].now \in landed[s].may
      BY <2>1 DEF Inv, DiskInv, DirsTyped, Names
    <2>3. landed[s].may = {FALSE}
      BY DEF AllLost, Lost
    <2> QED BY <2>2, <2>3 DEF IsLanded
  <1>3. IsRemoved(c)
    <2>1. ~IsLanded(c) /\ Safe(c)
      BY <1>1, <1>2 DEF Inv, DiskInv, Protected
    <2>2. skeleton[c].now \in skeleton[c].may
      BY <1>1 DEF Inv, DiskInv, DirsTyped, Names
    <2> QED BY <2>1, <2>2 DEF IsRemoved, IsLanded, Safe, Whole
  <1>4. PICK s \in 1 .. Top : IsLanded(s) /\ body[s].cites = c
    BY <1>1, <1>3 DEF MustKeep
  <1>5. s \in b + 1 .. Top
    BY <1>1, <1>2, <1>4
  <1> QED BY <1>4, <1>5 DEF Cut

\* A body lands after what was removed, and cites of it only what is kept.
LEMMA LandStore ==
    ASSUME Inv, Inv', StoreInv, NEW base \in 0 .. MaxSeq, NEW cites \in 0 .. MaxSeq, Land(base, cites)
    PROVE  StoreInv'
  <1> PICK n : n = Top + 1
    OBVIOUS
  <1>1. /\ job.at = "collect" /\ ~Removing /\ base \in {0, Top} /\ cites \in 0 .. Top
        /\ body' = Append(body, [base |-> base, cites |-> cites])
        /\ UNCHANGED <<tip, gone, job>>
    BY DEF Land, MayLand
  <1>2. Top \in Nat /\ 1 .. Top \subseteq Seqs /\ n \in Seqs /\ body \in Seq(Bodies)
    BY TopIsSeq, RemovalAssumption DEF Inv, DiskInv, RestTyped, Seqs, Land, MayLand
  <1>3. /\ Top' = n /\ body'[n] = [base |-> base, cites |-> cites]
        /\ \A s \in 1 .. Top : body'[s] = body[s]
    <2>1. [base |-> base, cites |-> cites] \in Bodies
      BY DEF Bodies
    <2> QED BY <1>1, <1>2, <2>1, AppendProperties DEF Top
  <1>4. /\ landed'[n].now /\ landed'[n].may = {TRUE}
        /\ \A s \in Seqs \ {n} : landed'[s] = landed[s]
        /\ intent'.now = intent.now /\ intent'.may \subseteq intent.may
        /\ \A c \in Seqs : piece'[c].may \subseteq piece[c].may \cup {TRUE}
        /\ MustKeep(cites) => piece'[cites].may = {TRUE}
    BY LandedStore
  <1>5. \A s \in Seqs : landed'[s].now \in landed'[s].may /\ piece'[s].now \in piece'[s].may
    <2>1. landed' \in [Seqs -> Names(BOOLEAN)] /\ piece' \in [Seqs -> Names(BOOLEAN)]
      BY DEF Inv, DiskInv, DirsTyped, StoreTyped
    <2> QED BY <2>1 DEF Names
  <1>6. ASSUME NEW s \in Seqs \ {n}, Lost(s) PROVE Lost(s)'
    BY <1>4, <1>6 DEF Lost
  <1>7. \A c \in Seqs : PieceKept(c) => PieceKept(c)'
    BY <1>4, <1>5 DEF PieceKept
  <1>8. ASSUME NEW i \in intent'.may
        PROVE  AllLost(i.through) /\ \E b \in 0 .. Top : EndsAt(i, b) /\ AllLost(b)
    <2>1. AllLost(i.through) /\ i \in intent.may
      BY <1>1, <1>4 DEF StoreInv, StoreDisk, Waiting
    <2>2. PICK b \in 0 .. Top : EndsAt(i, b)
      BY <2>1 DEF StoreInv, StoreDisk, Bounded
    <2>3. AllLost(b)
      BY <2>1, <2>2 DEF EndsAt
    <2> QED BY <2>1, <2>2, <2>3
  <1>9. ASSUME NEW i \in intent'.may, NEW b \in 0 .. Top, EndsAt(i, b), AllLost(b)
        PROVE  EndsAt(i, b)'
    <2>1. b \in Nat /\ 1 .. b \subseteq Seqs \ {n}
      BY <1>2
    <2>2. AllLost(b)'
      BY <1>6, <1>9, <2>1 DEF AllLost
    <2>3. Cut(b)'
      <3>1. ASSUME NEW s \in b + 1 .. Top
            PROVE  /\ landed'[s].now /\ s \notin gone
                   /\ body'[s].cites \in 1 .. b => piece'[body'[s].cites].may = {TRUE}
        <4>1. /\ IsLanded(s) /\ s \notin gone /\ s \in Seqs \ {n} /\ body'[s] = body[s]
              /\ body[s].cites \in 1 .. b => PieceKept(body[s].cites)
          BY <1>2, <1>3, <1>9, <2>1 DEF EndsAt, Cut
        <4>2. ASSUME NEW c \in 1 .. b, PieceKept(c) PROVE piece'[c].may = {TRUE}
          BY <1>7, <2>1, <4>2 DEF PieceKept
        <4> QED BY <1>4, <4>1, <4>2 DEF IsLanded
      <3>2. n \notin gone
        BY <1>2 DEF StoreInv, StoreDisk, OnlyLanded
      <3>3. ASSUME cites \in 1 .. b PROVE piece'[cites].may = {TRUE}
        <4>1. CASE ~MustKeep(cites)
          <5>1. PieceKept(cites)
            BY <1>9, <3>3, <4>1, CitedKept DEF EndsAt
          <5> QED BY <1>7, <2>1, <3>3, <5>1 DEF PieceKept
        <4> QED BY <1>4, <4>1
      <3>4. \A s \in b + 1 .. n : s \in b + 1 .. Top \/ s = n
        BY <1>2, <2>1
      <3>5. /\ landed'[n].now /\ n \notin gone
            /\ body'[n].cites \in 1 .. b => piece'[body'[n].cites].may = {TRUE}
        <4>1. landed'[n].now
          BY <1>4
        <4>2. body'[n].cites = cites
          BY <1>3
        <4> QED BY <3>2, <3>3, <4>1, <4>2
      <3> QED BY <1>1, <1>3, <3>1, <3>4, <3>5 DEF Cut, IsLanded, PieceKept
    <2>4. i # NoIntent => b = i.through /\ TipKept(i.generation, b)'
      BY <1>1, <1>9 DEF EndsAt, TipKept
    <2>5. b # 0 => \E g \in Gens : TipKept(g, b)'
      BY <1>1, <1>9 DEF EndsAt, TipKept
    <2> QED BY <2>2, <2>3, <2>4, <2>5 DEF EndsAt
  <1>10. Bounded'
    <2> SUFFICES ASSUME NEW i \in intent'.may PROVE \E b \in 0 .. n : EndsAt(i, b)'
      BY <1>3 DEF Bounded
    <2>1. PICK b \in 0 .. Top : EndsAt(i, b) /\ AllLost(b)
      BY <1>8
    <2>2. b \in 0 .. n
      BY <1>2
    <2> QED BY <1>9, <2>1, <2>2
  <1>11. Shape'
    <2>1. \A s \in 1 .. n : s \in 1 .. Top \/ s = n
      BY <1>2
    <2>2. base \in {0, n - 1} /\ cites < n
      BY <1>1, <1>2
    <2> QED BY <1>3, <2>1, <2>2 DEF Shape, StoreInv, StoreDisk
  <1>12. NotLanded'
    <2>1. ASSUME NEW s \in Seqs, s > n PROVE Lost(s)'
      <3>1. s > Top /\ s # n
        BY <1>2, <2>1 DEF Seqs
      <3> QED BY <1>6, <3>1 DEF NotLanded, StoreInv, StoreDisk
    <2> QED BY <1>3, <2>1 DEF NotLanded
  <1>13. OnlyLanded'
    BY <1>1, <1>2, <1>3 DEF OnlyLanded, StoreInv, StoreDisk
  <1>14. Waiting'
    <2>1. ASSUME NEW s \in Seqs PROVE ~Unsettled(s)'
      <3>1. CASE s = n
        <4>1. landed'[s].now \in {TRUE} /\ landed'[s].may = {TRUE}
          BY <1>4, <1>5, <3>1
        <4> QED BY <4>1 DEF Unsettled
      <3>2. CASE s # n
        <4>1. NoIntent \in intent.may /\ NoIntent.through = 0
          BY <1>1 DEF Removing, NoIntent, Inv, DiskInv, DirsTyped, Names
        <4>2. ~Unsettled(s)
          BY <4>1 DEF StoreInv, StoreDisk, Waiting, Seqs
        <4> QED BY <1>4, <3>2, <4>2 DEF Unsettled
      <3> QED BY <3>1, <3>2
    <2>3. ASSUME NEW i \in intent'.may PROVE AllLost(i.through)'
      <3>1. AllLost(i.through) /\ i \in Intents
        BY <1>8 DEF Inv, DiskInv, DirsTyped, Names, Disk
      <3>2. i # NoIntent => i.through \in 0 .. Top
        BY <1>8 DEF EndsAt
      <3>3. 1 .. i.through \subseteq Seqs \ {n}
        <4>1. CASE i = NoIntent
          BY <4>1 DEF NoIntent
        <4> QED BY <1>2, <3>2, <4>1
      <3> QED BY <1>6, <3>1, <3>3 DEF AllLost
    <2> QED BY <2>1, <2>3 DEF Waiting
  <1>15. Ready'
    BY <1>1 DEF Ready, Finishing
  <1> QED BY <1>4, <1>10, <1>11, <1>12, <1>13, <1>14, <1>15 DEF StoreInv, StoreDisk

\* Whatever a loss of power leaves is among what the invariant speaks of.
LEMMA PowerLossStore == ASSUME Inv, Inv', StoreInv, PowerLoss PROVE StoreInv'
  <1>1. UNCHANGED <<body, gone>> /\ job' = Away
    BY DEF PowerLoss
  <1>2. /\ \A s \in Seqs : landed'[s].now \in landed[s].may /\ landed'[s] = Settled(landed'[s].now)
        /\ \A s \in Seqs : landed'[s].may = {landed'[s].now} /\ ~landed'[s].stuck
    <2>1. DOMAIN landed = Seqs
      BY DEF Inv, DiskInv, DirsTyped
    <2>2. PICK r \in [Seqs -> BOOLEAN] :
             /\ \A s \in Seqs : r[s] \in landed[s].may
             /\ landed' = [s \in Seqs |-> Settled(r[s])]
      BY <2>1 DEF PowerLoss, Remains, Reset
    <2>3. \A s \in Seqs : landed'[s] = [now |-> r[s], may |-> {r[s]}, stuck |-> FALSE]
      BY <2>2 DEF Settled
    <2> QED BY <2>2, <2>3 DEF Settled
  <1>3. \A g \in Gens, s \in Seqs : tip'[g][s].may \subseteq tip[g][s].may
    <2> SUFFICES ASSUME NEW g \in Gens, NEW s \in Seqs PROVE tip'[g][s].may \subseteq tip[g][s].may
      OBVIOUS
    <2>1. tip'[g] \in {Reset(t) : t \in [Seqs -> BOOLEAN]} /\ tip'[g][s].now \in tip[g][s].may
      BY DEF PowerLoss
    <2>2. PICK t \in [Seqs -> BOOLEAN] : tip'[g] = [x \in Seqs |-> Settled(t[x])]
      BY <2>1 DEF Reset
    <2>3. tip'[g][s] = [now |-> t[s], may |-> {t[s]}, stuck |-> FALSE]
      BY <2>2 DEF Settled
    <2> QED BY <2>1, <2>3
  <1>4. \A c \in Seqs : piece'[c].may \subseteq piece[c].may
    <2>1. DOMAIN piece = Seqs
      BY DEF Inv, StoreTyped
    <2>2. PICK r \in [Seqs -> BOOLEAN] :
             /\ \A c \in Seqs : r[c] \in piece[c].may
             /\ piece' = [c \in Seqs |-> Settled(r[c])]
      BY <2>1 DEF PowerLoss, Remains, Reset
    <2>3. \A c \in Seqs : piece'[c] = [now |-> r[c], may |-> {r[c]}, stuck |-> FALSE]
      BY <2>2 DEF Settled
    <2> QED BY <2>2, <2>3
  <1>5. /\ intent'.now \in intent.may /\ intent'.may = {intent'.now} /\ ~intent'.stuck
        /\ intent'.may \subseteq intent.may
    <2>1. PICK i \in intent.may : intent' = Settled(i)
      BY DEF PowerLoss
    <2>2. intent' = [now |-> i, may |-> {i}, stuck |-> FALSE]
      BY <2>1 DEF Settled
    <2> QED BY <2>2
  <1>6. NothingGoes
    <2>1. ASSUME NEW s \in Seqs
          PROVE  (IsLanded(s) => landed'[s].now) /\ landed'[s].may \subseteq landed[s].may
      <3>1. IsLanded(s) => landed[s].may = {TRUE}
        BY DEF Inv, DiskInv, Protected
      <3> QED BY <1>2, <3>1
    <2> QED BY <1>1, <1>3, <1>4, <2>1 DEF NothingGoes
  <1>7. \A s \in Seqs : ~Unsettled(s)'
    BY <1>2 DEF Unsettled
  <1>8. Waiting'
    <2>1. ~Removing' => \A i \in intent'.may : AllLost(i.through)'
      BY <1>5 DEF Removing, AllLost, NoIntent
    <2> QED BY <1>7, <2>1 DEF Waiting
  <1>9. StoreDisk'
    BY <1>5, <1>6, <1>8, StoreKept DEF StoreInv
  <1> QED BY <1>1, <1>9, GivenUpRests, RestReady DEF StoreInv

LEMMA InitStore == Init => StoreInv
  <1> SUFFICES ASSUME Init PROVE StoreInv
    OBVIOUS
  <1>1. /\ body = <<>> /\ Top = 0 /\ gone = {} /\ intent.now = NoIntent /\ intent.may = {NoIntent}
        /\ \A s \in Seqs : landed[s].now = FALSE /\ landed[s].may = {FALSE} /\ ~landed[s].stuck
    BY DEF Init, Top, Settled
  <1>2. EndsAt(NoIntent, 0)
    BY <1>1 DEF EndsAt, Cut, AllLost
  <1>3. Bounded
    BY <1>1, <1>2 DEF Bounded
  <1>4. Shape /\ NotLanded /\ OnlyLanded
    <2>1. 1 .. Top = {}
      BY <1>1
    <2>2. Shape /\ OnlyLanded
      BY <1>1, <2>1 DEF Shape, OnlyLanded
    <2> QED BY <1>1, <2>2 DEF NotLanded, Lost
  <1>5. Waiting
    <2>1. NoIntent.through = 0
      BY DEF NoIntent
    <2>2. \A s \in Seqs : ~Unsettled(s)
      BY <1>1 DEF Unsettled
    <2>3. \A i \in intent.may : AllLost(i.through)
      BY <1>1, <2>1 DEF AllLost
    <2> QED BY <1>1, <2>1, <2>2, <2>3 DEF Waiting
  <1>6. Ready
    BY DEF Init, Ready, Away, Finishing
  <1> QED BY <1>3, <1>4, <1>5, <1>6 DEF StoreInv, StoreDisk

LEMMA StoreStep ==
    ASSUME Inv, Inv', StoreInv, NoneStranded, [Next]_vars
    PROVE  StoreInv'
  <1>1. CASE Pass
    <2>1. CASE StartPass \/ NothingToRecover \/ Parse \/ NothingToRemove
      BY <2>1, QuietSteps
    <2>2. CASE Recover
      BY <2>2, RecoverStore
    <2>3. CASE \E base, cites \in 0 .. MaxSeq : Land(base, cites)
      BY <2>3, LandStore
    <2>4. CASE \E base, cites \in 0 .. MaxSeq, o \in Outcomes, n \in 0 .. 1 : PieceNotKept(base, cites, o, n)
      BY <2>4, PieceNotKeptStore
    <2>5. CASE \E o \in Outcomes, n \in 0 .. 2 : KeepTip(o, n)
      BY <2>5, KeepTipStore
    <2>6. CASE \E o \in Outcomes :
                  \/ SaveIntent(o) \/ SavePhase(o) \/ SaveGeneration(o)
                  \/ SyncDeleted(o) \/ RemoveIntent(o)
      BY <2>6, SaveIntentStore, SavePhaseStore, SaveGenerationStore, SyncDeletedStore, RemoveIntentStore
    <2>7. CASE \E s \in Seqs, o \in Outcomes : WriteSkeleton(s, o)
      BY <2>7, WriteSkeletonStore
    <2>8. CASE \E s \in Seqs, left \in {Absent, Reserved} : SkeletonCutShort(s, left)
      BY <2>8, SkeletonCutShortStore
    <2>9. CASE \E s \in Seqs : Delete(s)
      BY <2>9, DeleteStore
    <2>10. CASE ReclaimTips \/ ReclaimPieces
      BY <2>10, ReclaimTipsStore, ReclaimPiecesStore
    <2> QED BY <1>1, <2>1, <2>2, <2>3, <2>4, <2>5, <2>6, <2>7, <2>8, <2>9, <2>10 DEF Pass
  <1>2. CASE Check \/ Stop \/ Fails \/ JudgeStart \/ JudgeEnd \/ UNCHANGED vars
    BY <1>2, QuietSteps
  <1>3. CASE PowerLoss
    BY <1>3, PowerLossStore
  <1> QED BY <1>1, <1>2, <1>3 DEF Next

LEMMA StoreInvariance == Spec /\ []NoneStranded => []StoreInv
  <1>1. Init => StoreInv
    BY InitStore
  <1>2. Inv /\ Inv' /\ StoreInv /\ NoneStranded /\ [Next]_vars => StoreInv'
    BY StoreStep
  <1> QED BY <1>1, <1>2, Invariance, PTL DEF Spec

\* A removed body is before the one its intent ends at, and so is never one
\* that a loss of power may show beside a deleted file.
LEMMA PastTheCut ==
    ASSUME Inv, StoreInv, NEW b \in 0 .. Top, EndsAt(intent.now, b),
           NEW s \in 1 .. Top, IsLanded(s), ~Covered(s)
    PROVE  s \in b + 1 .. Top /\ AllLost(b)
  <1>1. Top \in Nat /\ s \in Seqs
    BY TopIsSeq DEF Inv, DiskInv
  <1>2. CASE Removing
    <2>1. b = intent.now.through
      BY <1>2 DEF EndsAt, Removing
    <2>2. s > b
      BY <1>1, <1>2, <2>1 DEF Covered
    <2> QED BY <1>1, <2>2 DEF EndsAt
  <1>3. CASE ~Removing
    <2>1. AllLost(b)
      BY <1>3 DEF EndsAt, Removing
    <2>2. landed[s].now \in landed[s].may
      BY <1>1 DEF Inv, DiskInv, DirsTyped, Names
    <2>3. s \notin 1 .. b
      BY <2>1, <2>2 DEF AllLost, Lost, IsLanded
    <2> QED BY <1>1, <2>1, <2>3
  <1> QED BY <1>2, <1>3

\* finish (internal/retention/retention.go): "a power loss never brings back a
\* deleted file with no intent left to finish its removal".  It is so in every
\* run in which no sync that fails strands a deletion, or the intent of a
\* removal that deletes.
THEOREM NoneReturn == Spec /\ []NoneStranded => []NoGhost
  <1>1. Inv /\ StoreInv => NoGhost
    <2> SUFFICES ASSUME Inv, StoreInv, NEW s \in gone, IsLanded(s), ~Removing PROVE FALSE
      BY DEF NoGhost
    <2>1. intent.now \in intent.may /\ s \in 1 .. Top
      BY DEF Inv, DiskInv, DirsTyped, Names, StoreInv, StoreDisk, OnlyLanded
    <2>2. PICK b \in 0 .. Top : EndsAt(intent.now, b)
      BY <2>1 DEF StoreInv, StoreDisk, Bounded
    <2>3. s \in b + 1 .. Top
      BY <2>1, <2>2, PastTheCut DEF Covered
    <2> QED BY <2>2, <2>3 DEF EndsAt, Cut
  <1> QED BY <1>1, Invariance, StoreInvariance, PTL

(***************************************************************************)
(* What is built from what.  Builds is a recursive function, which exists  *)
(* because a body copies from the one before it, or from none: whether it  *)
(* builds can be said of the run of bodies it ends.                        *)
(***************************************************************************)

\* A body that builds with no other, and one that builds on the one before it.
Starts(s) == IF IsLanded(s) THEN body[s].base = 0 /\ HasPiece(body[s].cites) ELSE HasTip(s)
Continues(s) == IsLanded(s) /\ body[s].base # 0 /\ HasPiece(body[s].cites)

Chains(s) == s = 0 \/ \E r \in 1 .. s : Starts(r) /\ \A t \in r + 1 .. s : Continues(t)
Chained == [s \in 0 .. MaxSeq |-> Chains(s)]

NextBuilds(f, s) ==
    IF s = 0 THEN TRUE
    ELSE IF IsLanded(s) THEN f[body[s].base] /\ HasPiece(body[s].cites)
    ELSE HasTip(s)

LEMMA ChainsOn ==
    ASSUME NEW s \in Nat, s # 0,
           IsLanded(s) => body[s].base \in {0, s - 1}
    PROVE  Chains(s) <=> IF IsLanded(s) THEN Chains(body[s].base) /\ HasPiece(body[s].cites) ELSE HasTip(s)
  <1>1. CASE ~IsLanded(s)
    <2>1. \A r \in 1 .. s : (\A t \in r + 1 .. s : Continues(t)) => r = s
      BY <1>1 DEF Continues
    <2>2. s \in 1 .. s /\ s + 1 .. s = {}
      OBVIOUS
    <2>3. Starts(s) <=> HasTip(s)
      BY <1>1 DEF Starts
    <2> QED BY <1>1, <2>1, <2>2, <2>3 DEF Chains
  <1>2. CASE IsLanded(s) /\ body[s].base = 0
    <2>1. \A r \in 1 .. s : (\A t \in r + 1 .. s : Continues(t)) => r = s
      BY <1>2 DEF Continues
    <2>2. s \in 1 .. s /\ s + 1 .. s = {}
      OBVIOUS
    <2>3. Starts(s) <=> HasPiece(body[s].cites)
      BY <1>2 DEF Starts
    <2> QED BY <1>2, <2>1, <2>2, <2>3 DEF Chains
  <1>3. CASE IsLanded(s) /\ body[s].base # 0
    <2> DEFINE b == body[s].base
    <2>1. b = s - 1 /\ b \in Nat /\ b # 0 /\ ~Starts(s) /\ (Continues(s) <=> HasPiece(body[s].cites))
      BY <1>3 DEF Starts, Continues
    <2> HIDE DEF b
    <2>2. ASSUME Chains(s) PROVE Chains(b) /\ HasPiece(body[s].cites)
      <3>1. PICK r \in 1 .. s : Starts(r) /\ \A t \in r + 1 .. s : Continues(t)
        BY <2>2 DEF Chains
      <3>2. r \in 1 .. b /\ s \in r + 1 .. s /\ r + 1 .. b \subseteq r + 1 .. s
        BY <2>1, <3>1
      <3> QED BY <2>1, <3>1, <3>2 DEF Chains
    <2>3. ASSUME Chains(b), HasPiece(body[s].cites) PROVE Chains(s)
      <3>1. PICK r \in 1 .. b : Starts(r) /\ \A t \in r + 1 .. b : Continues(t)
        BY <2>1, <2>3 DEF Chains
      <3>2. r \in 1 .. s /\ \A t \in r + 1 .. s : t \in r + 1 .. b \/ t = s
        BY <2>1
      <3> QED BY <2>1, <2>3, <3>1, <3>2 DEF Chains
    <2> QED BY <1>3, <2>2, <2>3 DEF b
  <1> QED BY <1>1, <1>2, <1>3

\* The function Builds names is one its definition holds of.
LEMMA BuildsOn ==
    ASSUME \A s \in 1 .. MaxSeq : IsLanded(s) => body[s].base \in {0, s - 1}
    PROVE  \A s \in 0 .. MaxSeq : Builds[s] = NextBuilds(Builds, s)
  <1>1. Builds = CHOOSE f : f = [s \in 0 .. MaxSeq |-> NextBuilds(f, s)]
    BY DEF Builds, NextBuilds
  <1>2. ASSUME NEW s \in 0 .. MaxSeq PROVE Chained[s] = NextBuilds(Chained, s)
    <2>1. CASE s = 0
      BY <2>1 DEF Chained, Chains, NextBuilds
    <2>2. CASE s # 0
      <3>1. s \in 1 .. MaxSeq /\ s \in Nat
        BY <2>2, RemovalAssumption
      <3>2. IsLanded(s) => body[s].base \in 0 .. MaxSeq
        BY <3>1, RemovalAssumption
      <3>3. IsLanded(s) => Chained[body[s].base] = Chains(body[s].base)
        BY <3>2 DEF Chained
      <3>4. Chained[s] = Chains(s)
        BY DEF Chained
      <3>5. NextBuilds(Chained, s) <=>
               IF IsLanded(s) THEN Chains(body[s].base) /\ HasPiece(body[s].cites) ELSE HasTip(s)
        BY <2>2, <3>3 DEF NextBuilds
      <3> QED BY <2>2, <3>1, <3>4, <3>5, ChainsOn DEF Chains, NextBuilds, HasTip
    <2> QED BY <2>1, <2>2
  <1>3. Chained = [s \in 0 .. MaxSeq |-> NextBuilds(Chained, s)]
    <2>1. Chained = [s \in 0 .. MaxSeq |-> Chained[s]]
      BY DEF Chained
    <2> QED BY <1>2, <2>1
  <1>4. Builds = [s \in 0 .. MaxSeq |-> NextBuilds(Builds, s)]
    BY <1>1, <1>3
  <1> QED BY <1>4

\* A set of naturals that is not empty has a least member.
LEMMA LeastOne ==
    ASSUME NEW T, T \subseteq Nat, T # {}
    PROVE  \E x \in T : \A y \in T : x <= y
  <1>1. PICK x \in T : \A y \in T : ~(<<y, x>> \in OpToRel(<, Nat))
    BY NatLessThanWellFounded, WFMin, Zenon
  <1>2. \A y \in T : ~(y < x)
    BY <1>1 DEF OpToRel
  <1> QED BY <1>2

\* keepTips, RemovedPieces and reclaim (internal/retention/retention.go): a
\* body that landed, and that no removal is about to delete, can be rebuilt from
\* what landed and what the store keeps, in the same runs.
THEOREM StaysBuildable == Spec /\ []NoneStranded => []StaysBuilt
  <1>1. Inv /\ StoreInv => StaysBuilt
    <2> SUFFICES ASSUME Inv, StoreInv, NEW z \in 1 .. Top, IsLanded(z), ~Covered(z) PROVE Builds[z]
      BY DEF StaysBuilt
    <2>1. Top \in Nat /\ Top <= MaxSeq /\ 1 .. Top \subseteq Seqs
      BY TopIsSeq DEF Inv, DiskInv, RestTyped
    <2>2. PICK b \in 0 .. Top : EndsAt(intent.now, b)
      BY DEF Inv, DiskInv, DirsTyped, Names, StoreInv, StoreDisk, Bounded
    <2>3. z \in b + 1 .. Top /\ AllLost(b)
      BY <2>2, PastTheCut
    <2>4. \A s \in Seqs : landed[s].now \in landed[s].may
      BY DEF Inv, DiskInv, DirsTyped, Names
    <2>5. /\ Builds[0]
          /\ \A s \in 1 .. MaxSeq :
                /\ ~IsLanded(s) /\ HasTip(s) => Builds[s]
                /\ IsLanded(s) /\ HasPiece(body[s].cites) /\ Builds[body[s].base] => Builds[s]
      <3>1. ASSUME NEW s \in 1 .. MaxSeq, IsLanded(s) PROVE body[s].base \in {0, s - 1}
        <4>1. s \in Seqs /\ ~(s > Top)
          BY <2>4, <3>1 DEF Seqs, StoreInv, StoreDisk, NotLanded, Lost, IsLanded
        <4>2. s \in 1 .. Top
          BY <2>1, <4>1
        <4> QED BY <4>2 DEF StoreInv, StoreDisk, Shape
      <3>2. \A s \in 0 .. MaxSeq : Builds[s] = NextBuilds(Builds, s)
        BY <3>1, BuildsOn
      <3>3. Builds[0]
        <4>1. 0 \in 0 .. MaxSeq
          BY RemovalAssumption
        <4>2. Builds[0] = NextBuilds(Builds, 0)
          BY <3>2, <4>1
        <4>3. NextBuilds(Builds, 0) = TRUE
          BY DEF NextBuilds
        <4> QED BY <4>2, <4>3, Zenon
      <3>4. ASSUME NEW s \in 1 .. MaxSeq
            PROVE  /\ ~IsLanded(s) /\ HasTip(s) => Builds[s]
                   /\ IsLanded(s) /\ HasPiece(body[s].cites) /\ Builds[body[s].base] => Builds[s]
        <4>1. s \in 0 .. MaxSeq /\ s # 0
          BY RemovalAssumption
        <4>2. Builds[s] = NextBuilds(Builds, s)
          BY <3>2, <4>1
        <4>3. NextBuilds(Builds, s) =
                 IF IsLanded(s) THEN Builds[body[s].base] /\ HasPiece(body[s].cites) ELSE HasTip(s)
          BY <4>1 DEF NextBuilds
        <4> QED BY <4>2, <4>3, Zenon
      <3> QED BY <3>3, <3>4
    <2>6. ASSUME NEW s \in b + 1 .. Top PROVE IsLanded(s) /\ HasPiece(body[s].cites)
      <3> PICK c : c = body[s].cites
        OBVIOUS
      <3>1. IsLanded(s) /\ (c \in 1 .. b => PieceKept(c))
        BY <2>2 DEF EndsAt, Cut
      <3>2. c \in 0 .. MaxSeq /\ c < s /\ s \in Nat
        <4>1. s \in 1 .. Top /\ s \in Nat
          BY <2>1
        <4>2. body[s] \in Bodies
          BY <4>1, ElementOfSeq DEF Inv, DiskInv, RestTyped, Top
        <4> QED BY <4>1, <4>2 DEF Bodies, StoreInv, StoreDisk, Shape
      <3>3. CASE c \in 1 .. b
        <4>1. c \in Seqs
          BY <2>1, <3>3
        <4>2. piece[c] \in Names(BOOLEAN)
          BY <4>1 DEF Inv, StoreTyped
        <4>3. piece[c].now
          BY <3>1, <3>3, <4>2 DEF PieceKept, Names
        <4> QED BY <3>1, <4>3 DEF HasPiece
      <3>4. CASE c \in b + 1 .. Top
        BY <2>2, <3>1, <3>4 DEF EndsAt, Cut, HasPiece
      <3>5. CASE c = 0
        BY <3>1, <3>5 DEF HasPiece
      <3> QED BY <2>1, <2>2, <3>2, <3>3, <3>4, <3>5
    <2>7. b # 0 => ~IsLanded(b) /\ HasTip(b)
      <3> SUFFICES ASSUME b # 0 PROVE ~IsLanded(b) /\ HasTip(b)
        OBVIOUS
      <3>1. b \in 1 .. b /\ b \in Seqs
        BY <2>1
      <3>2. ~IsLanded(b)
        BY <2>3, <2>4, <3>1 DEF AllLost, Lost, IsLanded
      <3>3. PICK g \in Gens : TipKept(g, b)
        BY <2>2 DEF EndsAt
      <3>4. tip[g][b] \in Names(BOOLEAN)
        BY <3>1 DEF Inv, StoreTyped
      <3>5. tip[g][b].now
        BY <3>3, <3>4 DEF TipKept, Names
      <3> QED BY <3>2, <3>5 DEF HasTip
    <2>8. Builds[b]
      <3>1. b = 0 \/ b \in 1 .. MaxSeq
        BY <2>1, RemovalAssumption
      <3> QED BY <2>5, <2>7, <3>1
    <2> DEFINE T == {s \in b + 1 .. Top : ~Builds[s]}
    <2>9. SUFFICES ASSUME T # {} PROVE FALSE
      BY <2>3
    <2>10. PICK s \in T : \A y \in T : s <= y
      <3>1. T \subseteq Nat
        BY <2>1
      <3> QED BY <2>9, <3>1, LeastOne
    <2>11. s \in 1 .. MaxSeq /\ s \in b + 1 .. Top /\ s \in 1 .. Top /\ ~Builds[s]
      <3>1. s \in b + 1 .. Top /\ ~Builds[s]
        BY <2>10
      <3> QED BY <2>1, <3>1, RemovalAssumption
    <2>12. IsLanded(s) /\ HasPiece(body[s].cites) /\ body[s].base \in {0, s - 1}
      BY <2>6, <2>11 DEF StoreInv, StoreDisk, Shape
    <2>13. Builds[s - 1]
      <3>1. CASE s - 1 \in b + 1 .. Top
        <4>1. ~(s <= s - 1) /\ s - 1 \notin T
          BY <2>10, <2>11
        <4> QED BY <3>1, <4>1
      <3>2. CASE s - 1 = b
        BY <2>8, <3>2
      <3> QED BY <2>1, <2>11, <3>1, <3>2
    <2> QED BY <2>5, <2>11, <2>12, <2>13
  <1> QED BY <1>1, Invariance, StoreInvariance, PTL
-----------------------------------------------------------------------------
(***************************************************************************)
(* Removals in order.  Two views of the session's removals are told apart  *)
(* by a generation, so that a run of asz verify goes by it: each removal's *)
(* must be above every one the session has had.  NextGeneration goes by    *)
(* the skeletons, and the state and the intent are other files: the        *)
(* invariant says what a skeleton, durable, shows of each intent the disk  *)
(* may hold.                                                               *)
(***************************************************************************)

\* The generation the session shows is not above that of the removal under way,
\* and with none under way a removed file's skeleton was written for it.  Every
\* step leaves it so but a loss of power, which may keep removal.state and take
\* back the removing.json of the removal it was saved for.
InOrder ==
    IF Removing THEN state.now <= intent.now.generation
    ELSE state.now = 0 \/ \E s \in 1 .. Top : IsRemoved(s) /\ skeleton[s].now >= state.now

\* The removal under way is the first, or a removed file's skeleton shows the one
\* before it.  A loss of power may take that back: it may undo the deletions an
\* earlier removal left, and keep the intent of the next.
Numbered ==
    Removing => \/ intent.now.generation = 1
                \/ \E s \in 1 .. Top : IsRemoved(s) /\ skeleton[s].now >= intent.now.generation - 1

\* What a loss of power may leave of a removed file's skeleton shows that
\* generation g is given away.
Outgone(g) == g <= 0 \/ \E s \in 1 .. Top : ~IsLanded(s) /\ \A v \in skeleton[s].may : v >= g
Fixed(s) == skeleton[s].may = {skeleton[s].now}

\* If this is the intent a loss of power leaves, the next removal is not of an
\* earlier generation, nor of this one and with another end; it has deleted a
\* file with a skeleton of its own, or has one left to delete.
Ordered(i) ==
    /\ Outgone(i.generation - 1)
    /\ i.through = Top \/ Outgone(i.generation)
    /\ i.phase = "delete" =>
          \E s \in 1 .. i.through : \A v \in skeleton[s].may : Whole(v) => v >= i.generation
    /\ i.phase = "skeletons" => \E s \in 1 .. i.through : IsLanded(s)

AllOrdered == \A i \in intent.may : i # NoIntent => Ordered(i)
Newest == Removing => \A i \in intent.may : i.generation <= intent.now.generation

\* A removed file's skeleton is settled, and so is one a deletion goes by.
Firm ==
    /\ \A s \in 1 .. Top : IsLanded(s) \/ Fixed(s)
    /\ intent.now.phase = "delete" =>
          \A s \in 1 .. intent.now.through : IsLanded(s) /\ Whole(skeleton[s].now) => Fixed(s)

\* A pass gives its removal a generation above what it has seen.
Ahead ==
    /\ \E s \in 1 .. Top : IsLanded(s)
    /\ Outgone(job.generation - 1)
    /\ \A i \in intent.may : i.generation <= job.generation
    /\ \A s \in 1 .. Top : IsRemoved(s) => skeleton[s].now < job.generation

JobOrder ==
    /\ job.at = "intent" => Ahead
    /\ job.at = "skeletons" =>
          \A s \in 1 .. job.done : IsLanded(s) => skeleton[s].may = {job.generation}
    /\ job.at \in Finishing \ {"generation"} => state.now = job.generation

OrderInv == InOrder /\ AllOrdered /\ Newest /\ Firm /\ JobOrder

\* What the disk's names hold.
LEMMA Held ==
    ASSUME Inv
    PROVE  /\ Top \in Nat /\ 1 .. Top \subseteq Seqs /\ MaxSeq \in Nat /\ MaxGen \in Nat
           /\ \A s \in Seqs : /\ skeleton[s].now \in skeleton[s].may
                              /\ skeleton[s].may \subseteq {Absent, Reserved} \cup Gens
                              /\ landed[s].now \in landed[s].may /\ landed[s].may \subseteq BOOLEAN
           /\ intent.now \in intent.may /\ intent.may \subseteq Intents
           /\ state.now \in {0} \cup Gens
  <1>1. Top \in Nat /\ 1 .. Top \subseteq Seqs /\ MaxSeq \in Nat /\ MaxGen \in Nat
    BY TopIsSeq, RemovalAssumption DEF Inv, DiskInv
  <1>2. /\ landed \in [Seqs -> Names(BOOLEAN)] /\ skeleton \in [Seqs -> Names(Skeletons)]
        /\ intent \in Names(Intents) /\ state \in Names({0} \cup Gens)
    BY DEF Inv, DiskInv, DirsTyped
  <1>3. \A s \in Seqs : /\ skeleton[s].now \in skeleton[s].may
                        /\ skeleton[s].may \subseteq {Absent, Reserved} \cup Gens
                        /\ landed[s].now \in landed[s].may /\ landed[s].may \subseteq BOOLEAN
    BY <1>2 DEF Names, Disk, Skeletons
  <1>4. /\ intent.now \in intent.may /\ intent.may \subseteq Intents
        /\ state.now \in {0} \cup Gens
    BY <1>2 DEF Names, Disk
  <1> QED BY <1>1, <1>3, <1>4

\* An intent names a generation and bodies that landed.
LEMMA IntentIs ==
    ASSUME Inv, NEW i \in intent.may
    PROVE  /\ i.generation \in Nat /\ i.through \in 0 .. Top
           /\ i # NoIntent => i \in Intents /\ i.generation \in Gens /\ i.through \in 1 .. Top
                              /\ i.phase \in Phases
           /\ i = NoIntent => i.generation = 0 /\ i.through = 0 /\ i.phase = "none"
  <1>1. i \in Intents /\ MaxGen \in Nat /\ Top \in Nat
    BY Held
  <1>2. i.through <= parsed /\ parsed <= Top /\ parsed \in Nat
    BY DEF Inv, DiskInv, Parsed, RestTyped
  <1>3. i = NoIntent => i.generation = 0 /\ i.through = 0 /\ i.phase = "none"
    BY DEF NoIntent
  <1>4. i # NoIntent => i.generation \in Gens /\ i.through \in Seqs /\ i.phase \in Phases
    BY <1>1 DEF Intents
  <1>5. i # NoIntent => i.through \in 1 .. Top /\ i.generation \in Nat
    BY <1>1, <1>2, <1>4 DEF Seqs, Gens
  <1> QED BY <1>1, <1>3, <1>4, <1>5

\* What is deleted stays so, and so does what its skeleton shows.
GoneStays ==
    /\ Top' >= Top
    /\ \A s \in 1 .. Top : ~IsLanded(s) => ~IsLanded(s)' /\ skeleton'[s].may \subseteq skeleton[s].may

LEMMA OutgoneKept ==
    ASSUME Inv, Inv', GoneStays, NEW g \in Int, Outgone(g)
    PROVE  Outgone(g)'
  <1> SUFFICES ASSUME ~(g <= 0)
               PROVE  \E s \in 1 .. Top' : ~IsLanded(s)' /\ \A v \in skeleton'[s].may : v >= g
    BY DEF Outgone
  <1>1. PICK s \in 1 .. Top : ~IsLanded(s) /\ \A v \in skeleton[s].may : v >= g
    BY DEF Outgone
  <1>2. Top \in Nat /\ Top' \in Nat /\ Top' >= Top
    <2>1. Top \in Nat
      BY Held
    <2>2. Top' \in Nat
      BY TopIsSeq DEF Inv, DiskInv, RestTyped, Top
    <2> QED BY <2>1, <2>2 DEF GoneStays
  <1>3. s \in 1 .. Top'
    BY <1>2
  <1>4. ~IsLanded(s)' /\ skeleton'[s].may \subseteq skeleton[s].may
    BY <1>1 DEF GoneStays
  <1> QED BY <1>1, <1>3, <1>4

\* An intent stays in order when what it would delete does, and its skeletons
\* are written for no earlier removal.
LEMMA OrderedKept ==
    ASSUME Inv, Inv', GoneStays, NEW i \in Intents, i # NoIntent, Ordered(i), i.through <= Top,
           Top' = Top \/ Outgone(i.generation),
           \A s \in Seqs : \A v \in skeleton'[s].may :
               v \in skeleton[s].may \/ ~Whole(v) \/ v >= i.generation,
           i.phase = "skeletons" => \A s \in Seqs : IsLanded(s) => IsLanded(s)'
    PROVE  Ordered(i)'
  <1>1. i.generation \in Gens /\ i.through \in Seqs /\ Top \in Nat /\ 1 .. Top \subseteq Seqs
    BY Held DEF Intents
  <1>2. i.generation \in Int /\ i.generation - 1 \in Int /\ 1 .. i.through \subseteq Seqs
    BY <1>1, Held DEF Gens, Seqs
  <1>3. Outgone(i.generation - 1)'
    BY <1>2, OutgoneKept DEF Ordered
  <1>4. i.through = Top' \/ Outgone(i.generation)'
    BY <1>2, OutgoneKept DEF Ordered
  <1>5. ASSUME i.phase = "delete"
        PROVE  \E s \in 1 .. i.through : \A v \in skeleton'[s].may : Whole(v) => v >= i.generation
    <2>1. PICK s \in 1 .. i.through : \A v \in skeleton[s].may : Whole(v) => v >= i.generation
      BY <1>5 DEF Ordered
    <2> QED BY <1>2, <2>1
  <1>6. i.phase = "skeletons" => \E s \in 1 .. i.through : IsLanded(s)'
    BY <1>2 DEF Ordered
  <1> QED BY <1>3, <1>4, <1>5, <1>6 DEF Ordered

\* A pass that works on no removal has given none a generation.
LEMMA RestOrder ==
    ASSUME job' \in {[Away EXCEPT !.at = a] : a \in Resting}
    PROVE  JobOrder'
  <1> PICK a \in Resting : job' = [at |-> a, from |-> "none", generation |-> 0, through |-> 0, done |-> 0]
    BY DEF Away
  <1>1. job'.at \in Resting
    OBVIOUS
  <1> QED BY <1>1 DEF JobOrder, Resting, Finishing

\* The disk shows what it showed.
LEMMA SameOrder ==
    ASSUME OrderInv, UNCHANGED <<body, disk>>
    PROVE  /\ InOrder' /\ AllOrdered' /\ Newest' /\ Firm'
           /\ UNCHANGED job => JobOrder'
  <1>1. /\ body' = body /\ landed' = landed /\ skeleton' = skeleton /\ intent' = intent
        /\ state' = state /\ Top' = Top
    BY DEF disk, Top
  <1>2. InOrder'
    BY <1>1 DEF OrderInv, InOrder, Removing, IsRemoved
  <1>3. \A g : Outgone(g) => Outgone(g)'
    BY <1>1 DEF Outgone, IsLanded
  <1>4. AllOrdered'
    BY <1>1, <1>3 DEF OrderInv, AllOrdered, Ordered, IsLanded
  <1>5. Newest' /\ Firm'
    BY <1>1 DEF OrderInv, Newest, Firm, Fixed, IsLanded, Removing
  <1>6. UNCHANGED job => JobOrder'
    BY <1>1, <1>3 DEF OrderInv, JobOrder, Ahead, IsLanded, IsRemoved
  <1> QED BY <1>2, <1>4, <1>5, <1>6

\* The steps that leave the disk alone.
LEMMA QuietOrder ==
    ASSUME OrderInv,
           \/ StartPass \/ NothingToRecover \/ Recover \/ Parse \/ NothingToRemove \/ Stop \/ Fails
           \/ Check \/ JudgeStart \/ JudgeEnd \/ UNCHANGED vars
    PROVE  OrderInv'
  <1>1. CASE StartPass \/ NothingToRecover \/ Parse
    <2>1. job' \in {[Away EXCEPT !.at = a] : a \in Resting}
      BY <1>1 DEF StartPass, NothingToRecover, Parse, Resting
    <2>2. UNCHANGED <<body, disk>>
      BY <1>1 DEF StartPass, NothingToRecover, Parse
    <2> QED BY <2>1, <2>2, SameOrder, RestOrder DEF OrderInv
  <1>2. CASE NothingToRemove \/ Stop \/ Fails
    <2>1. UNCHANGED <<body, disk>> /\ job' \in {[Away EXCEPT !.at = a] : a \in Resting}
      BY <1>2, GivenUpRests DEF NothingToRemove, Stop, Fails
    <2> QED BY <2>1, SameOrder, RestOrder DEF OrderInv
  <1>3. CASE Recover
    <2>1. UNCHANGED <<body, disk>> /\ job'.at \in {"skeletons", "generation"} /\ job'.done = 0
      BY <1>3 DEF Recover
    <2>2. 1 .. job'.done = {}
      BY <2>1
    <2>3. JobOrder'
      BY <2>1, <2>2 DEF JobOrder, Finishing
    <2> QED BY <2>1, <2>3, SameOrder DEF OrderInv
  <1>4. CASE Check
    <2>1. CheckKeeps
      BY <1>4 DEF Check, StartCheck, ReadGeneration, LookForIntent, LoadIntent, List, Open, Build,
                  Built, Compare
    <2> QED BY <2>1, SameOrder DEF CheckKeeps, OrderInv
  <1>5. CASE JudgeStart \/ JudgeEnd \/ UNCHANGED vars
    <2>1. UNCHANGED <<body, disk>> /\ UNCHANGED job
      BY <1>5 DEF JudgeStart, JudgeEnd, vars
    <2> QED BY <2>1, SameOrder DEF OrderInv
  <1> QED BY <1>1, <1>2, <1>3, <1>4, <1>5

\* The names a step leaves settle further, and show what they showed.
LEMMA CalmGone ==
    ASSUME Inv, Inv', Calm, Top' = Top
    PROVE  /\ GoneStays
           /\ \A s \in Seqs : Fixed(s) => Fixed(s)'
           /\ \A s \in 1 .. Top : (IsLanded(s)' <=> IsLanded(s)) /\ (IsRemoved(s)' <=> IsRemoved(s))
  <1>1. Top \in Nat /\ 1 .. Top \subseteq Seqs
    BY Held
  <1>2. \A s \in Seqs : landed'[s].now \in landed'[s].may /\ skeleton'[s].now \in skeleton'[s].may
    BY DEF Inv, DiskInv, DirsTyped, Names
  <1>3. GoneStays
    <2>1. Top' >= Top
      BY <1>1
    <2>2. \A s \in 1 .. Top : ~IsLanded(s) => ~IsLanded(s)' /\ skeleton'[s].may \subseteq skeleton[s].may
      BY <1>1 DEF Calm, IsLanded
    <2> QED BY <2>1, <2>2 DEF GoneStays
  <1>4. \A s \in Seqs : Fixed(s) => Fixed(s)'
    BY <1>2 DEF Calm, Fixed
  <1>5. \A s \in 1 .. Top : (IsLanded(s)' <=> IsLanded(s)) /\ (IsRemoved(s)' <=> IsRemoved(s))
    BY <1>1 DEF Calm, IsLanded, IsRemoved
  <1> QED BY <1>3, <1>4, <1>5

\* And so the removals stay in order.
LEMMA CalmOrder ==
    ASSUME Inv, Inv', OrderInv, Calm, Top' = Top
    PROVE  /\ AllOrdered' /\ Newest' /\ Firm'
           /\ state'.now = state.now => InOrder'
  <1>1. Top \in Nat /\ 1 .. Top \subseteq Seqs
    BY Held
  <1>2. intent'.now = intent.now /\ intent'.may \subseteq intent.may /\ Removing' = Removing
    BY DEF Calm, Removing
  <1>3. AllOrdered'
    <2> SUFFICES ASSUME NEW i \in intent'.may, i # NoIntent PROVE Ordered(i)'
      BY DEF AllOrdered
    <2>1. i \in Intents /\ Ordered(i) /\ i.through <= Top
      BY <1>1, <1>2, IntentIs DEF OrderInv, AllOrdered
    <2>2. \A s \in Seqs : IsLanded(s) => IsLanded(s)'
      BY DEF Calm, IsLanded
    <2>3. \A s \in Seqs : \A v \in skeleton'[s].may : v \in skeleton[s].may
      BY DEF Calm
    <2> QED BY <2>1, <2>2, <2>3, CalmGone, OrderedKept
  <1>4. Newest'
    BY <1>2 DEF OrderInv, Newest
  <1>5. Firm'
    <2>1. \A s \in 1 .. Top : IsLanded(s)' \/ Fixed(s)'
      BY <1>1, CalmGone DEF OrderInv, Firm
    <2>2. ASSUME intent.now.phase = "delete", NEW s \in 1 .. intent.now.through,
                 IsLanded(s)', Whole(skeleton'[s].now)
          PROVE  Fixed(s)'
      <3>1. s \in 1 .. Top
        BY <1>1, Held, IntentIs
      <3>2. IsLanded(s) /\ skeleton'[s].now = skeleton[s].now
        BY <1>1, <2>2, <3>1, CalmGone DEF Calm
      <3>3. Fixed(s)
        BY <2>2, <3>2 DEF OrderInv, Firm
      <3> QED BY <1>1, <3>1, <3>3, CalmGone
    <2> QED BY <1>2, <2>1, <2>2 DEF Firm
  <1>6. ASSUME state'.now = state.now PROVE InOrder'
    <2>1. \A s \in 1 .. Top : skeleton'[s].now = skeleton[s].now
      BY <1>1 DEF Calm
    <2> QED BY <1>2, <1>6, <2>1, CalmGone DEF OrderInv, InOrder
  <1> QED BY <1>3, <1>4, <1>5, <1>6

\* However a sync comes out, the state shows what was written.
LEMMA StateSynced ==
    ASSUME NEW st \in Names({0} \cup Gens), NEW i, NEW o \in Outcomes, SessionSync(o, i, st)
    PROVE  state'.now = st.now
  BY SyncedName DEF SessionSync

\* PieceNotKept's and KeepTip's syncs of the directories above the store.
LEMMA ParentsOrder ==
    ASSUME Inv, Inv', OrderInv, NEW o \in Outcomes, NEW n \in 0 .. 2, ParentsSync(o, n),
           UNCHANGED <<body, landed, skeleton>>
    PROVE  Calm /\ GoneStays /\ AllOrdered' /\ Newest' /\ Firm' /\ InOrder'
  <1>1. Calm /\ Top' = Top
    BY ParentsCalm DEF Inv, Top
  <1>2. state'.now = state.now
    <2>1. state \in Names({0} \cup Gens) /\ Reached(o, n, 1) \in Outcomes
      BY ReachedOutcome DEF Inv, DiskInv, DirsTyped
    <2> QED BY <2>1, StateSynced DEF ParentsSync
  <1> QED BY <1>1, <1>2, CalmGone, CalmOrder

LEMMA PieceNotKeptOrder ==
    ASSUME Inv, Inv', OrderInv, NEW base \in 0 .. MaxSeq, NEW cites \in 0 .. MaxSeq,
           NEW o \in Outcomes, NEW n \in 0 .. 1, PieceNotKept(base, cites, o, n)
    PROVE  OrderInv'
  <1>1. ParentsSync(o, n) /\ UNCHANGED <<body, landed, skeleton>> /\ Then(o, job) /\ o # "synced"
    BY DEF PieceNotKept
  <1>2. JobOrder'
    BY <1>1, ThenGoes, RestOrder
  <1> QED BY <1>1, <1>2, ParentsOrder DEF OrderInv

\* NextGeneration: above every removed file's skeleton, by one.
LEMMA NextIs ==
    ASSUME Inv, NextGeneration \in Gens
    PROVE  /\ \A s \in 1 .. Top : IsRemoved(s) => skeleton[s].now < NextGeneration
           /\ NextGeneration = 1
              \/ \E s \in 1 .. Top : IsRemoved(s) /\ skeleton[s].now >= NextGeneration - 1
  <1> DEFINE Above == {g \in 1 .. MaxGen + 1 : \A s \in 1 .. Top : IsRemoved(s) => skeleton[s].now < g}
  <1>1. MaxGen \in Nat /\ \A s \in 1 .. Top : skeleton[s].now \in {Absent, Reserved} \cup Gens
    BY Held
  <1>2. MaxGen + 1 \in Above /\ Above \subseteq Nat
    BY <1>1 DEF Gens, Absent, Reserved
  <1>3. PICK g \in Above : \A h \in Above : g <= h
    <2> HIDE DEF Above
    <2> QED BY <1>2, LeastOne
  <1>4. NextGeneration \in Above /\ \A h \in Above : NextGeneration <= h
    BY <1>3 DEF NextGeneration, Least
  <1>5. ASSUME NextGeneration # 1
        PROVE  \E s \in 1 .. Top : IsRemoved(s) /\ skeleton[s].now >= NextGeneration - 1
    <2>1. NextGeneration - 1 \in 1 .. MaxGen + 1 /\ ~(NextGeneration <= NextGeneration - 1)
      BY <1>1, <1>5 DEF Gens
    <2>2. NextGeneration - 1 \notin Above
      BY <1>4, <2>1
    <2>3. PICK s \in 1 .. Top : IsRemoved(s) /\ ~(skeleton[s].now < NextGeneration - 1)
      BY <2>1, <2>2
    <2>4. skeleton[s].now \in Int /\ NextGeneration - 1 \in Int
      BY <1>1, <2>1 DEF Gens, Absent, Reserved
    <2> QED BY <2>3, <2>4
  <1> QED BY <1>4, <1>5

LEMMA KeepTipOrder ==
    ASSUME Inv, Inv', OrderInv, NEW o \in Outcomes, NEW n \in 0 .. 2, KeepTip(o, n)
    PROVE  OrderInv'
  <1> DEFINE next == [at |-> "intent", from |-> "remove", generation |-> NextGeneration,
                      through |-> Top, done |-> 0]
  <1> PICK g : g = NextGeneration
    OBVIOUS
  <1>1. /\ ParentsSync(o, n) /\ UNCHANGED <<body, landed, skeleton>> /\ Then(o, next) /\ g \in Gens /\ Removable
        /\ Top' = Top
    BY DEF KeepTip, Top
  <1>2. Calm /\ GoneStays /\ AllOrdered' /\ Newest' /\ Firm' /\ InOrder'
    BY <1>1, ParentsOrder
  <1>3. CASE o # "synced"
    <2>1. JobOrder'
      BY <1>1, <1>3, ThenGoes, RestOrder
    <2> QED BY <1>2, <2>1 DEF OrderInv
  <1>4. CASE o = "synced"
    <2>1. job' = next /\ job'.at = "intent" /\ job'.generation = g
      BY <1>1, <1>4, ThenGoes
    <2>3. /\ Top \in Nat /\ 1 .. Top \subseteq Seqs
          /\ \A s \in Seqs : /\ skeleton'[s].now \in skeleton'[s].may
                             /\ skeleton'[s].may \subseteq {Absent, Reserved} \cup Gens
                             /\ landed'[s].now \in landed'[s].may /\ landed'[s].may \subseteq BOOLEAN
      <3>1. landed' \in [Seqs -> Names(BOOLEAN)] /\ skeleton' \in [Seqs -> Names(Skeletons)]
        BY DEF Inv, DiskInv, DirsTyped
      <3> QED BY <3>1, Held DEF Names, Disk, Skeletons
    <2>4. /\ \A s \in 1 .. Top : IsRemoved(s) => skeleton[s].now < g
          /\ g = 1 \/ \E s \in 1 .. Top : IsRemoved(s) /\ skeleton[s].now >= g - 1
      BY <1>1, NextIs
    <2>5. \A s \in 1 .. Top : /\ (IsLanded(s)' <=> IsLanded(s)) /\ (IsRemoved(s)' <=> IsRemoved(s))
                              /\ skeleton'[s].now = skeleton[s].now
      BY <1>1, <1>2, <2>3, CalmGone DEF Calm
    <2>6. Outgone(g - 1)'
      <3>1. CASE g = 1
        BY <3>1 DEF Outgone
      <3>2. CASE g # 1
        <4>1. PICK s \in 1 .. Top : IsRemoved(s) /\ skeleton[s].now >= g - 1
          BY <2>4, <3>2
        <4>2. s \in Seqs /\ ~IsLanded(s)' /\ Fixed(s)'
          BY <1>1, <1>2, <2>3, <2>5, <4>1 DEF IsRemoved, IsLanded, Firm
        <4>4. skeleton'[s].may = {skeleton[s].now}
          BY <2>5, <4>2 DEF Fixed
        <4> QED BY <1>1, <4>1, <4>2, <4>4 DEF Outgone
      <3> QED BY <3>1, <3>2
    <2>7. ASSUME NEW i \in intent'.may PROVE i.generation <= g
      <3>1. i \in intent.may
        BY <1>2 DEF Calm
      <3>2. i.generation \in Nat /\ (i = NoIntent => i.generation = 0) /\ g \in Nat /\ g >= 1
        BY <1>1, <3>1, IntentIs DEF Gens
      <3>3. CASE i = NoIntent \/ i.generation - 1 <= 0
        BY <3>2, <3>3
      <3>4. CASE i # NoIntent /\ ~(i.generation - 1 <= 0)
        <4>1. Outgone(i.generation - 1)'
          BY <1>2, <3>4 DEF AllOrdered, Ordered
        <4>2. PICK s \in 1 .. Top : ~IsLanded(s)' /\ \A v \in skeleton'[s].may : v >= i.generation - 1
          BY <1>1, <3>4, <4>1 DEF Outgone
        <4>3. s \in Seqs /\ ~IsLanded(s)' /\ skeleton'[s].now >= i.generation - 1
          BY <2>3, <4>2
        <4>4. IsRemoved(s)'
          BY <3>2, <3>4, <4>3 DEF IsRemoved, IsLanded, Absent
        <4>5. skeleton'[s].now < g
          BY <2>4, <2>5, <4>4
        <4>6. skeleton'[s].now \in Int
          BY <2>3, <4>3 DEF Absent, Reserved, Gens
        <4> QED BY <3>2, <4>3, <4>5, <4>6
      <3> QED BY <3>3, <3>4
    <2>8. (\E s \in 1 .. Top : IsLanded(s))' /\ \A s \in 1 .. Top' : IsRemoved(s)' => skeleton'[s].now < g
      BY <1>1, <2>4, <2>5 DEF Removable
    <2>9. Ahead'
      BY <2>1, <2>6, <2>7, <2>8 DEF Ahead
    <2>10. JobOrder'
      BY <2>1, <2>9 DEF JobOrder, Finishing
    <2> QED BY <1>2, <2>10 DEF OrderInv
  <1> QED BY <1>3, <1>4

\* The landed files and their skeletons are as they were.
LEMMA SameFiles ==
    ASSUME UNCHANGED <<body, landed, skeleton>>
    PROVE  /\ Top' = Top
           /\ \A g : Outgone(g) => Outgone(g)'
           /\ \A i : Ordered(i) => Ordered(i)'
           /\ \A s : (IsLanded(s)' <=> IsLanded(s)) /\ (IsRemoved(s)' <=> IsRemoved(s))
           /\ \A s : Fixed(s) => Fixed(s)'
  <1>1. Top' = Top
    BY DEF Top
  <1>2. \A g : Outgone(g) => Outgone(g)'
    BY <1>1 DEF Outgone, IsLanded
  <1>3. \A i : Ordered(i) => Ordered(i)'
    BY <1>1, <1>2 DEF Ordered, IsLanded
  <1> QED BY <1>1, <1>2, <1>3 DEF IsLanded, IsRemoved, Fixed

LEMMA SaveIntentOrder ==
    ASSUME Inv, Inv', StoreInv, OrderInv, NEW o \in Outcomes, SaveIntent(o)
    PROVE  OrderInv'
  <1> PICK v : v = [generation |-> job.generation, through |-> job.through, phase |-> "skeletons"]
    OBVIOUS
  <1> DEFINE i == Written(intent, v)
  <1>1. /\ job.generation \in Gens /\ job.through \in Seqs /\ job.through = Top /\ job.done = 0
        /\ Ahead
    BY DEF Inv, JobTyped, StoreInv, Ready, SaveIntent, Resting, OrderInv, JobOrder
  <1>2. v \in Intents /\ v # NoIntent /\ v.through = Top /\ v.generation = job.generation
        /\ v.phase = "skeletons"
    BY <1>1 DEF Intents, Phases, NoIntent
  <1>3. SessionSync(o, i, state) /\ UNCHANGED <<body, landed, skeleton>>
    BY DEF SaveIntent
  <1>4. intent \in Names(Intents) /\ state \in Names({0} \cup Gens)
    BY DEF Inv, DiskInv, DirsTyped
  <1>5. i \in Names(Intents) /\ i.now = v /\ i.may = intent.may \cup {v}
    BY <1>2, <1>4, WrittenIntent
  <1> HIDE DEF i
  <1>6. intent'.now = v /\ intent'.may \subseteq intent.may \cup {v} /\ state'.now = state.now
    BY <1>3, <1>4, <1>5, SessionSynced, StateSynced
  <1>7. Removing' /\ v.phase # "delete"
    BY <1>2, <1>6 DEF Removing
  <1>8. InOrder'
    <2>1. state.now <= job.generation
      <3>1. job.generation \in Nat /\ job.generation >= 1 /\ state.now \in Nat
        BY <1>1, Held DEF Gens
      <3>2. CASE Removing
        <4>1. intent.now.generation <= job.generation /\ intent.now.generation \in Nat
          BY <1>1, Held, IntentIs DEF Ahead
        <4> QED BY <3>1, <3>2, <4>1 DEF OrderInv, InOrder
      <3>3. CASE ~Removing /\ state.now # 0
        <4>1. PICK s \in 1 .. Top : IsRemoved(s) /\ skeleton[s].now >= state.now
          BY <3>3 DEF OrderInv, InOrder
        <4>2. skeleton[s].now < job.generation
          BY <1>1, <4>1 DEF Ahead
        <4>3. skeleton[s].now \in Int
          BY <4>1, Held DEF Absent, Reserved, Gens
        <4> QED BY <3>1, <4>1, <4>2, <4>3
      <3> QED BY <3>1, <3>2, <3>3
    <2> QED BY <1>2, <1>6, <1>7, <2>1 DEF InOrder
  <1>9. AllOrdered'
    <2>1. Ordered(v)'
      <3>1. Outgone(v.generation - 1)'
        BY <1>1, <1>2, <1>3, SameFiles DEF Ahead
      <3>2. \E s \in 1 .. v.through : IsLanded(s)'
        BY <1>1, <1>2, <1>3, SameFiles DEF Ahead
      <3> QED BY <1>2, <1>3, <1>7, <3>1, <3>2, SameFiles DEF Ordered
    <2> QED BY <1>3, <1>6, <2>1, SameFiles DEF AllOrdered, OrderInv
  <1>10. Newest'
    BY <1>1, <1>2, <1>6, Held DEF Newest, Ahead, Gens
  <1>11. Firm'
    BY <1>3, <1>6, <1>7, SameFiles DEF Firm, OrderInv
  <1>12. JobOrder'
    <2>1. CASE o = "synced"
      <3>1. job' = [job EXCEPT !.at = "skeletons"]
        BY <2>1, ThenGoes DEF SaveIntent
      <3>2. job'.at = "skeletons" /\ job'.done = 0
        BY <1>1, <3>1 DEF Inv, JobTyped, Jobs
      <3>3. 1 .. job'.done = {}
        BY <3>2
      <3> QED BY <3>2, <3>3 DEF JobOrder, Finishing
    <2> QED BY <2>1, ThenGoes, RestOrder DEF SaveIntent
  <1> QED BY <1>8, <1>9, <1>10, <1>11, <1>12 DEF OrderInv

\* What a removal that has written its skeletons has of them.
LEMMA SkeletonsThere ==
    ASSUME Inv, StoreInv, OrderInv, job.at = "skeletons", Left = {}
    PROVE  /\ intent.now.phase = "skeletons" /\ intent.now.through = job.through
           /\ intent.now.generation = job.generation /\ job.through \in 1 .. Top
           /\ job.generation \in Gens
           /\ \A s \in 1 .. job.through : IsLanded(s) => skeleton[s].may = {job.generation}
           /\ \E s \in 1 .. job.through : IsLanded(s)
  <1>1. /\ intent.now.phase = "skeletons" /\ intent.now.through = job.through
        /\ intent.now.generation = job.generation /\ job.generation \in Gens
        /\ job.done \in 0 .. MaxSeq
    BY DEF Inv, JobTyped, Jobs, JobFits, StoreInv, Ready, Resting
  <1>2. intent.now \in intent.may /\ intent.now # NoIntent /\ Ordered(intent.now)
        /\ job.through \in 1 .. Top
    <2>1. intent.now \in intent.may /\ intent.now # NoIntent
      BY <1>1, Held DEF NoIntent
    <2> QED BY <1>1, <2>1, IntentIs DEF OrderInv, AllOrdered
  <1>3. ASSUME NEW s \in 1 .. job.through, IsLanded(s) PROVE skeleton[s].may = {job.generation}
    <2>1. s \in Seqs /\ s \in Nat /\ job.done \in Nat /\ s >= 1
      BY <1>1, <1>2, <1>3, Held
    <2>2. s <= job.done
      BY <1>2, <1>3, <2>1 DEF Left
    <2>3. s \in 1 .. job.done
      BY <2>1, <2>2
    <2> QED BY <1>3, <2>3 DEF OrderInv, JobOrder
  <1>4. \E s \in 1 .. job.through : IsLanded(s)
    BY <1>1, <1>2 DEF Ordered
  <1> QED BY <1>1, <1>2, <1>3, <1>4

LEMMA SavePhaseOrder ==
    ASSUME Inv, Inv', StoreInv, OrderInv, NEW o \in Outcomes, SavePhase(o)
    PROVE  OrderInv'
  <1> PICK v : v = [generation |-> job.generation, through |-> job.through, phase |-> "delete"]
    OBVIOUS
  <1> DEFINE i == Written(intent, v)
  <1>1. /\ intent.now.phase = "skeletons" /\ intent.now.through = job.through
        /\ intent.now.generation = job.generation /\ job.through \in 1 .. Top
        /\ job.generation \in Gens
        /\ \A s \in 1 .. job.through : IsLanded(s) => skeleton[s].may = {job.generation}
        /\ \E s \in 1 .. job.through : IsLanded(s)
    BY SkeletonsThere DEF SavePhase
  <1>2. /\ v \in Intents /\ v # NoIntent /\ v.through = intent.now.through
        /\ v.generation = intent.now.generation /\ v.phase = "delete"
        /\ intent.now \in intent.may /\ intent.now # NoIntent /\ Ordered(intent.now)
    <2>1. intent.now \in intent.may /\ intent.now # NoIntent /\ job.through \in Seqs
      BY <1>1, Held DEF NoIntent
    <2> QED BY <1>1, <2>1 DEF Intents, Phases, NoIntent, OrderInv, AllOrdered
  <1>3. SessionSync(o, i, state) /\ UNCHANGED <<body, landed, skeleton>>
    BY DEF SavePhase
  <1>4. intent \in Names(Intents) /\ state \in Names({0} \cup Gens)
    BY DEF Inv, DiskInv, DirsTyped
  <1>5. i \in Names(Intents) /\ i.now = v /\ i.may = intent.may \cup {v}
    BY <1>2, <1>4, WrittenIntent
  <1> HIDE DEF i
  <1>6. intent'.now = v /\ intent'.may \subseteq intent.may \cup {v} /\ state'.now = state.now
    BY <1>3, <1>4, <1>5, SessionSynced, StateSynced
  <1>7. Removing /\ Removing'
    BY <1>2, <1>6 DEF Removing
  <1>8. InOrder'
    BY <1>2, <1>6, <1>7 DEF OrderInv, InOrder
  <1>9. AllOrdered'
    <2>1. Ordered(v)'
      <3>1. Outgone(v.generation - 1)' /\ (v.through = Top' \/ Outgone(v.generation)')
        BY <1>2, <1>3, SameFiles DEF Ordered
      <3>2. PICK s \in 1 .. v.through : IsLanded(s)
        BY <1>1, <1>2
      <3>3. \A w \in skeleton'[s].may : w >= v.generation
        BY <1>1, <1>2, <1>3, <3>2 DEF Gens
      <3> QED BY <1>2, <3>1, <3>3 DEF Ordered
    <2> QED BY <1>3, <1>6, <2>1, SameFiles DEF AllOrdered, OrderInv
  <1>10. Newest'
    <2>1. v.generation \in Nat
      BY <1>1, <1>2 DEF Gens
    <2> QED BY <1>2, <1>6, <1>7, <2>1 DEF Newest, OrderInv
  <1>11. Firm'
    <2>1. ASSUME NEW s \in 1 .. v.through, IsLanded(s)' PROVE Fixed(s)'
      <3>1. skeleton[s].may = {job.generation} /\ s \in Seqs
        BY <1>1, <1>2, <1>3, <2>1, SameFiles, Held
      <3>2. skeleton[s].now \in skeleton[s].may
        BY <3>1, Held
      <3> QED BY <1>3, <3>1, <3>2 DEF Fixed
    <2> QED BY <1>3, <1>6, <2>1, SameFiles DEF Firm, OrderInv
  <1>12. JobOrder'
    <2>1. CASE o = "synced"
      <3>1. job' = [job EXCEPT !.at = "generation", !.done = 0]
        BY <2>1, ThenGoes DEF SavePhase
      <3>2. job'.at = "generation"
        BY <3>1 DEF Inv, JobTyped, Jobs
      <3> QED BY <3>2 DEF JobOrder, Finishing
    <2> QED BY <2>1, ThenGoes, RestOrder DEF SavePhase
  <1> QED BY <1>8, <1>9, <1>10, <1>11, <1>12 DEF OrderInv

LEMMA SaveGenerationOrder ==
    ASSUME Inv, Inv', StoreInv, OrderInv, NEW o \in Outcomes, SaveGeneration(o)
    PROVE  OrderInv'
  <1>1. /\ job.generation \in Gens /\ job.at = "generation" /\ job.at \in Finishing
        /\ job.generation = intent.now.generation /\ intent.now.phase = "delete"
    BY DEF SaveGeneration, Inv, JobTyped, JobFits, StoreInv, Ready, Resting, Finishing
  <1>2. /\ SessionSync(o, intent, Written(state, job.generation)) /\ UNCHANGED <<body, landed, skeleton>>
        /\ intent \in Names(Intents) /\ state \in Names({0} \cup Gens)
    BY DEF SaveGeneration, Inv, DiskInv, DirsTyped
  <1>3. Written(state, job.generation) \in Names({0} \cup Gens)
        /\ Written(state, job.generation).now = job.generation
    <2>1. job.generation \in {0} \cup Gens
      BY <1>1
    <2> QED BY <1>2, <2>1 DEF Written, Names, Disk
  <1>4. intent'.now = intent.now /\ intent'.may \subseteq intent.may /\ state'.now = job.generation
    BY <1>2, <1>3, SessionSynced, StateSynced
  <1>5. Calm /\ Top' = Top
    BY <1>2, <1>4 DEF Calm, Top
  <1>6. AllOrdered' /\ Newest' /\ Firm'
    BY <1>5, CalmOrder
  <1>7. InOrder'
    <2>1. Removing'
      BY <1>1, <1>4 DEF Removing, NoIntent
    <2> QED BY <1>1, <1>4, <2>1 DEF InOrder, Gens
  <1>8. JobOrder'
    <2>1. CASE o = "synced"
      <3>1. job' = [job EXCEPT !.at = "delete"]
        BY <2>1, ThenGoes DEF SaveGeneration
      <3>2. job'.at = "delete" /\ job'.generation = job.generation
        BY <3>1 DEF Inv, JobTyped, Jobs
      <3> QED BY <1>4, <3>2 DEF JobOrder
    <2> QED BY <2>1, ThenGoes, RestOrder DEF SaveGeneration
  <1> QED BY <1>6, <1>7, <1>8 DEF OrderInv

\* A landed file's skeleton is written anew, for the removal under way.
LEMMA SkeletonOrder ==
    ASSUME Inv, Inv', StoreInv, OrderInv, job.at = "skeletons", NEW s \in Seqs, IsLanded(s),
           UNCHANGED <<body, intent, state>>,
           \A t \in Seqs : landed'[t].now = landed[t].now /\ landed'[t].may \subseteq landed[t].may,
           \A t \in Seqs \ {s} : /\ skeleton'[t].now = skeleton[t].now
                                 /\ skeleton'[t].may \subseteq skeleton[t].may,
           \A v \in skeleton'[s].may : v \in skeleton[s].may \/ ~Whole(v) \/ v = job.generation
    PROVE  InOrder' /\ AllOrdered' /\ Newest' /\ Firm'
  <1>1. /\ intent.now.phase = "skeletons" /\ job.generation = intent.now.generation
        /\ Removing /\ Removing' /\ Top' = Top
    BY DEF Inv, JobFits, StoreInv, Ready, Removing, NoIntent, Top
  <1>2. /\ Top \in Nat /\ 1 .. Top \subseteq Seqs
        /\ \A t \in Seqs : landed[t].now \in landed[t].may
    BY Held
  <1>3. \A t \in Seqs : landed'[t].now \in landed'[t].may /\ skeleton'[t].now \in skeleton'[t].may
    BY DEF Inv, DiskInv, DirsTyped, Names
  <1>4. GoneStays
    <2>1. ASSUME NEW t \in 1 .. Top, ~IsLanded(t)
          PROVE  ~IsLanded(t)' /\ skeleton'[t].may \subseteq skeleton[t].may
      <3>1. t \in Seqs /\ t # s
        BY <1>2, <2>1
      <3> QED BY <2>1, <3>1 DEF IsLanded
    <2>2. Top' >= Top
      BY <1>1, <1>2
    <2> QED BY <2>1, <2>2 DEF GoneStays
  <1>5. AllOrdered'
    <2> SUFFICES ASSUME NEW i \in intent.may, i # NoIntent PROVE Ordered(i)'
      BY DEF AllOrdered
    <2>1. i \in Intents /\ Ordered(i) /\ i.through <= Top /\ i.generation \in Nat
      BY <1>2, IntentIs DEF OrderInv, AllOrdered
    <2>2. i.generation <= job.generation
      BY <1>1 DEF OrderInv, Newest
    <2>3. job.generation \in Nat
      BY <1>1, Held, IntentIs
    <2>4. \A t \in Seqs : \A v \in skeleton'[t].may :
              v \in skeleton[t].may \/ ~Whole(v) \/ v >= i.generation
      BY <2>1, <2>2, <2>3
    <2>5. \A t \in Seqs : IsLanded(t) => IsLanded(t)'
      BY DEF IsLanded
    <2> QED BY <1>1, <1>4, <2>1, <2>4, <2>5, OrderedKept
  <1>6. InOrder'
    BY <1>1 DEF OrderInv, InOrder
  <1>7. Newest'
    BY <1>1 DEF OrderInv, Newest
  <1>8. Firm'
    <2>1. ASSUME NEW t \in 1 .. Top PROVE IsLanded(t)' \/ Fixed(t)'
      <3>1. t \in Seqs
        BY <1>2
      <3>2. CASE IsLanded(t)
        BY <3>1, <3>2 DEF IsLanded
      <3>3. CASE ~IsLanded(t)
        <4>1. t # s /\ skeleton[t].may = {skeleton[t].now}
          BY <3>3 DEF OrderInv, Firm, Fixed
        <4>2. skeleton'[t].may = {skeleton'[t].now}
          BY <1>3, <3>1, <4>1
        <4> QED BY <4>2 DEF Fixed
      <3> QED BY <3>2, <3>3
    <2>2. intent'.now.phase # "delete"
      BY <1>1
    <2> QED BY <1>1, <2>1, <2>2 DEF Firm
  <1> QED BY <1>5, <1>6, <1>7, <1>8

\* The skeleton a removal comes to.
LEMMA ComesTo ==
    ASSUME Inv, job.at = "skeletons", NEW s \in Seqs, First(s)
    PROVE  /\ IsLanded(s) /\ job.generation \in Gens
           /\ Cleared(s) \in Names(Skeletons)
           /\ Cleared(s).may \subseteq skeleton[s].may \cup {Absent}
  <1>1. IsLanded(s) /\ job.generation \in Gens
    BY DEF First, Left, Inv, JobTyped, Resting
  <1>2. skeleton[s] \in Names(Skeletons)
    BY DEF Inv, DiskInv, DirsTyped
  <1>3. Cleared(s) \in Names(Skeletons)
    BY ClearedName DEF Inv, DiskInv
  <1>4. Cleared(s).may \subseteq skeleton[s].may \cup {Absent}
    BY DEF Cleared, Written
  <1> QED BY <1>1, <1>3, <1>4

LEMMA WriteSkeletonOrder ==
    ASSUME Inv, Inv', StoreInv, OrderInv, NEW s \in Seqs, NEW o \in Outcomes, WriteSkeleton(s, o)
    PROVE  OrderInv'
  <1> DEFINE e == Written(Cleared(s), job.generation)
             k == [skeleton EXCEPT ![s] = e]
  <1>1. /\ job.at = "skeletons" /\ First(s) /\ IsLanded(s) /\ UNCHANGED <<body, intent, state>>
        /\ job.generation \in Gens /\ Cleared(s) \in Names(Skeletons)
        /\ Cleared(s).may \subseteq skeleton[s].may \cup {Absent}
        /\ ProviderSync(o, landed, k)
    BY ComesTo DEF WriteSkeleton
  <1>2. /\ e \in Names(Skeletons) /\ e.now = job.generation /\ e.stuck = FALSE
        /\ e.may = Cleared(s).may \cup {job.generation}
    <2>1. job.generation \in Skeletons
      BY <1>1 DEF Skeletons
    <2>2. e.now = job.generation /\ e.stuck = FALSE /\ e.may = Cleared(s).may \cup {job.generation}
      BY DEF Written
    <2> QED BY <1>1, <2>1, <2>2, WrittenName
  <1> HIDE DEF e
  <1>3. /\ k \in [Seqs -> Names(Skeletons)] /\ k[s] = e /\ \A t \in Seqs \ {s} : k[t] = skeleton[t]
        /\ landed \in [Seqs -> Names(BOOLEAN)]
    BY <1>2 DEF Inv, DiskInv, DirsTyped
  <1> HIDE DEF k
  <1>4. \A t \in Seqs : /\ landed'[t].now = landed[t].now /\ landed'[t].may \subseteq landed[t].may
                        /\ skeleton'[t].now = k[t].now /\ skeleton'[t].may \subseteq k[t].may
                        /\ skeleton'[t] = Synced(o, k[t])
    BY <1>1, <1>3, ProviderSynced
  <1>5. \A t \in Seqs \ {s} : /\ skeleton'[t].now = skeleton[t].now
                              /\ skeleton'[t].may \subseteq skeleton[t].may
    BY <1>3, <1>4
  <1>6. \A v \in skeleton'[s].may : v \in skeleton[s].may \/ ~Whole(v) \/ v = job.generation
    BY <1>1, <1>2, <1>3, <1>4 DEF Whole
  <1>7. InOrder' /\ AllOrdered' /\ Newest' /\ Firm'
    BY <1>1, <1>4, <1>5, <1>6, SkeletonOrder
  <1>8. JobOrder'
    <2>1. CASE o = "synced"
      <3>1. job' = [job EXCEPT !.done = s]
        BY <2>1, ThenGoes DEF WriteSkeleton
      <3>2. job'.at = "skeletons" /\ job'.done = s /\ job'.generation = job.generation
            /\ job.through \in Nat /\ job.done \in Nat /\ s \in Nat /\ s <= job.through
        BY <1>1, <3>1, Held DEF Inv, JobTyped, Jobs, First, Left, Seqs
      <3>3. ASSUME NEW t \in 1 .. s, IsLanded(t)' PROVE skeleton'[t].may = {job.generation}
        <4>1. t \in Seqs /\ IsLanded(t) /\ t \in Nat /\ 1 <= t /\ t <= s
          BY <1>4, <3>2, <3>3, Held DEF IsLanded, Seqs
        <4>2. CASE t = s
          <5>1. Synced("synced", e).may = {e.now}
            BY <1>2, FlushedName
          <5> QED BY <1>2, <1>3, <1>4, <2>1, <4>2, <5>1
        <4>3. CASE t # s
          <5>1. t \notin Left
            BY <1>1, <3>2, <4>1, <4>3 DEF First
          <5>2. t <= job.done
            BY <3>2, <4>1, <5>1 DEF Left
          <5>3. t \in 1 .. job.done
            BY <3>2, <4>1, <5>2
          <5>4. skeleton[t].may = {job.generation}
            BY <1>1, <4>1, <5>3 DEF OrderInv, JobOrder
          <5>5. skeleton'[t].now \in skeleton'[t].may
            BY <4>1 DEF Inv, DiskInv, DirsTyped, Names
          <5> QED BY <1>5, <4>1, <4>3, <5>4, <5>5
        <4> QED BY <4>2, <4>3
      <3> QED BY <3>2, <3>3 DEF JobOrder, Finishing
    <2> QED BY <2>1, ThenGoes, RestOrder DEF WriteSkeleton
  <1> QED BY <1>7, <1>8 DEF OrderInv

LEMMA SkeletonCutShortOrder ==
    ASSUME Inv, Inv', StoreInv, OrderInv, NEW s \in Seqs, NEW left \in {Absent, Reserved},
           SkeletonCutShort(s, left)
    PROVE  OrderInv'
  <1> DEFINE e == IF left = Absent THEN Cleared(s) ELSE Written(Cleared(s), left)
  <1>1. /\ job.at = "skeletons" /\ First(s) /\ IsLanded(s) /\ UNCHANGED <<body, landed, intent, state>>
        /\ job.generation \in Gens /\ Cleared(s) \in Names(Skeletons)
        /\ Cleared(s).may \subseteq skeleton[s].may \cup {Absent}
        /\ skeleton' = [skeleton EXCEPT ![s] = e] /\ job' = Away
    BY ComesTo DEF SkeletonCutShort
  <1>2. e.may \subseteq skeleton[s].may \cup {Absent, Reserved}
    <2>1. Written(Cleared(s), left).may = Cleared(s).may \cup {left}
      BY DEF Written
    <2> QED BY <1>1, <2>1
  <1> HIDE DEF e
  <1>3. skeleton'[s] = e /\ \A t \in Seqs \ {s} : skeleton'[t] = skeleton[t]
    BY <1>1 DEF Inv, DiskInv, DirsTyped
  <1>4. \A v \in skeleton'[s].may : v \in skeleton[s].may \/ ~Whole(v) \/ v = job.generation
    BY <1>2, <1>3 DEF Whole
  <1>5. InOrder' /\ AllOrdered' /\ Newest' /\ Firm'
    BY <1>1, <1>3, <1>4, SkeletonOrder
  <1> QED BY <1>1, <1>5, GivenUpRests, RestOrder DEF OrderInv

LEMMA DeleteOrder ==
    ASSUME Inv, Inv', StoreInv, OrderInv, NEW s \in Seqs, Delete(s)
    PROVE  OrderInv'
  <1>1. CASE ~Whole(skeleton[s].now)
    <2>1. UNCHANGED <<body, disk>> /\ job' \in {[Away EXCEPT !.at = a] : a \in Resting}
      BY <1>1, GivenUpRests DEF Delete, disk
    <2> QED BY <2>1, SameOrder, RestOrder DEF OrderInv
  <1>2. CASE Whole(skeleton[s].now)
    <2>1. /\ landed' = [landed EXCEPT ![s] = Written(@, FALSE)]
          /\ UNCHANGED <<body, skeleton, intent, state, job>> /\ Top' = Top
          /\ job.at = "delete" /\ s <= job.through /\ IsLanded(s)
      BY <1>2 DEF Delete, First, Left, Top
    <2>2. /\ job.through \in 1 .. Top /\ intent.may = {intent.now} /\ Removing
          /\ intent.now.phase = "delete" /\ intent.now.through = job.through
      BY <2>1, Deleting DEF Finishing
    <2>3. /\ Top \in Nat /\ 1 .. Top \subseteq Seqs /\ s \in 1 .. Top /\ s \in 1 .. intent.now.through
          /\ \A t \in Seqs : landed[t].now \in landed[t].may
      BY <2>1, <2>2, Held DEF Seqs
    <2>4. landed' \in [Seqs -> Names(BOOLEAN)] /\ \A t \in Seqs \ {s} : landed'[t] = landed[t]
      BY <2>1 DEF Inv, DiskInv, DirsTyped
    <2>5. GoneStays
      <3>1. ASSUME NEW t \in 1 .. Top, ~IsLanded(t) PROVE ~IsLanded(t)'
        <4>1. t \in Seqs /\ t # s
          BY <2>1, <2>3, <3>1
        <4> QED BY <2>4, <3>1, <4>1 DEF IsLanded
      <3>2. Top' >= Top
        BY <2>1, <2>3
      <3> QED BY <2>1, <3>1, <3>2 DEF GoneStays
    <2>6. AllOrdered'
      <3> SUFFICES ASSUME NEW i \in intent.may, i # NoIntent PROVE Ordered(i)'
        BY <2>1 DEF AllOrdered
      <3>1. i \in Intents /\ Ordered(i) /\ i.through <= Top /\ i.phase = "delete"
        BY <2>2, <2>3, IntentIs DEF OrderInv, AllOrdered
      <3>2. \A t \in Seqs : \A v \in skeleton'[t].may : v \in skeleton[t].may
        BY <2>1
      <3> QED BY <2>1, <2>5, <3>1, <3>2, OrderedKept
    <2>7. InOrder' /\ Newest'
      BY <2>1, <2>2 DEF OrderInv, InOrder, Newest, Removing
    <2>8. Firm'
      <3>1. Fixed(s)
        BY <1>2, <2>1, <2>2, <2>3 DEF OrderInv, Firm
      <3>2. ASSUME NEW t \in 1 .. Top PROVE IsLanded(t)' \/ Fixed(t)
        <4>1. CASE t = s
          BY <3>1, <4>1
        <4>2. CASE t # s
          <5>1. landed'[t] = landed[t]
            BY <2>3, <2>4, <4>2
          <5> QED BY <5>1 DEF OrderInv, Firm, IsLanded
        <4> QED BY <4>1, <4>2
      <3>3. ASSUME NEW t \in 1 .. intent.now.through, Whole(skeleton[t].now), IsLanded(t)'
            PROVE  Fixed(t)
        <4>1. CASE t = s
          BY <3>1, <4>1
        <4>2. CASE t # s
          <5>1. t \in Seqs
            BY <2>2, <2>3
          <5>2. landed'[t] = landed[t]
            BY <2>4, <4>2, <5>1
          <5> QED BY <2>2, <3>3, <5>2 DEF OrderInv, Firm, IsLanded
        <4> QED BY <4>1, <4>2
      <3>4. \A t : Fixed(t)' <=> Fixed(t)
        BY <2>1 DEF Fixed
      <3> QED BY <2>1, <3>2, <3>3, <3>4 DEF Firm
    <2>9. JobOrder'
      BY <2>1 DEF OrderInv, JobOrder
    <2> QED BY <2>6, <2>7, <2>8, <2>9 DEF OrderInv
  <1> QED BY <1>1, <1>2

LEMMA SyncDeletedOrder ==
    ASSUME Inv, Inv', StoreInv, OrderInv, NEW o \in Outcomes, SyncDeleted(o)
    PROVE  OrderInv'
  <1>1. /\ ProviderSync(o, landed, skeleton) /\ UNCHANGED <<body, intent, state>> /\ job.at = "delete"
        /\ landed \in [Seqs -> Names(BOOLEAN)] /\ skeleton \in [Seqs -> Names(Skeletons)]
    BY DEF SyncDeleted, Inv, DiskInv, DirsTyped
  <1>2. Calm /\ Top' = Top
    BY <1>1, ProviderSynced DEF Calm, Top
  <1>3. AllOrdered' /\ Newest' /\ Firm' /\ InOrder'
    BY <1>1, <1>2, CalmOrder
  <1>4. state.now = job.generation
    BY <1>1 DEF OrderInv, JobOrder, Finishing
  <1>5. JobOrder'
    <2>1. CASE o = "synced"
      <3>1. job' = [job EXCEPT !.at = "tips"]
        BY <2>1, ThenGoes DEF SyncDeleted
      <3>2. job'.at = "tips" /\ job'.generation = job.generation
        BY <3>1 DEF Inv, JobTyped, Jobs
      <3> QED BY <1>1, <1>4, <3>2 DEF JobOrder
    <2> QED BY <2>1, ThenGoes, RestOrder DEF SyncDeleted
  <1> QED BY <1>3, <1>5 DEF OrderInv

LEMMA ReclaimOrder ==
    ASSUME Inv, Inv', StoreInv, OrderInv, ReclaimTips \/ ReclaimPieces
    PROVE  OrderInv'
  <1>1. /\ UNCHANGED <<body, landed, skeleton, intent, state>> /\ Top' = Top
        /\ job.at \in Finishing \ {"generation"}
    BY DEF ReclaimTips, ReclaimPieces, Finishing, Top
  <1>2. Calm
    BY <1>1 DEF Calm
  <1>3. AllOrdered' /\ Newest' /\ Firm' /\ InOrder'
    BY <1>1, <1>2, CalmOrder
  <1>4. job'.at \in {"pieces", "end"} /\ job'.generation = job.generation
    BY DEF ReclaimTips, ReclaimPieces, Inv, JobTyped, Jobs
  <1>5. JobOrder'
    BY <1>1, <1>4 DEF OrderInv, JobOrder
  <1> QED BY <1>3, <1>5 DEF OrderInv

\* The generation of a removal that ended is that of a skeleton it left.
LEMMA RemoveIntentOrder ==
    ASSUME Inv, Inv', StoreInv, OrderInv, NEW o \in Outcomes, RemoveIntent(o)
    PROVE  OrderInv'
  <1>1. /\ SessionSync(o, Written(intent, NoIntent), state) /\ UNCHANGED <<body, landed, skeleton>>
        /\ job.at = "end" /\ intent \in Names(Intents) /\ state \in Names({0} \cup Gens)
        /\ NoIntent \in Intents
    BY DEF RemoveIntent, Inv, DiskInv, DirsTyped, Intents
  <1>2. /\ job.through \in 1 .. Top /\ intent.now.phase = "delete" /\ intent.now # NoIntent
        /\ intent.now.through = job.through /\ intent.now.generation = job.generation
        /\ AllLost(job.through) /\ state.now = job.generation
    BY <1>1, Deleting DEF Finishing, StoreInv, Ready, Removing, OrderInv, JobOrder
  <1>3. intent'.now = NoIntent /\ intent'.may \subseteq intent.may \cup {NoIntent} /\ state'.now = state.now
    BY <1>1, WrittenIntent, SessionSynced, StateSynced
  <1>4. ~Removing' /\ NoIntent.phase # "delete"
    BY <1>3 DEF Removing, NoIntent
  <1>5. InOrder'
    <2>1. Ordered(intent.now)
      BY <1>2, Held DEF OrderInv, AllOrdered
    <2>2. PICK s \in 1 .. job.through :
             \A v \in skeleton[s].may : Whole(v) => v >= job.generation
      BY <1>2, <2>1 DEF Ordered
    <2>3. s \in 1 .. Top /\ s \in Seqs /\ Lost(s)
      BY <1>2, Held DEF AllLost
    <2>4. ~IsLanded(s)
      BY <2>3, Held DEF Lost, IsLanded
    <2>5. Safe(s) /\ skeleton[s].now \in skeleton[s].may
      BY <2>3, <2>4, Held DEF Inv, DiskInv, Protected
    <2>6. IsRemoved(s) /\ skeleton[s].now >= state.now
      BY <1>2, <2>2, <2>4, <2>5 DEF Safe, Whole, IsRemoved, IsLanded
    <2>7. \E t \in 1 .. Top' : IsRemoved(t)' /\ skeleton'[t].now >= state'.now
      BY <1>1, <1>3, <2>3, <2>6, SameFiles
    <2> QED BY <1>4, <2>7 DEF InOrder
  <1>6. AllOrdered'
    BY <1>1, <1>3, SameFiles DEF OrderInv, AllOrdered
  <1>7. Newest'
    BY <1>4 DEF Newest
  <1>8. Firm'
    BY <1>1, <1>3, <1>4, SameFiles DEF OrderInv, Firm
  <1>9. JobOrder'
    BY GivenUpRests, ThenGoes, RestOrder DEF RemoveIntent
  <1> QED BY <1>5, <1>6, <1>7, <1>8, <1>9 DEF OrderInv

\* What Land leaves of the skeletons and the state.
LEMMA LandedSkeletons ==
    ASSUME Inv, NEW base \in 0 .. MaxSeq, NEW cites \in 0 .. MaxSeq, Land(base, cites)
    PROVE  skeleton' = skeleton /\ state'.now = state.now
  <1>1. CASE MustKeep(cites)
    <2>1. SessionSync(Reached("synced", 2, 1), intent, state)
      BY <1>1 DEF Land, ParentsSync
    <2>2. Reached("synced", 2, 1) \in Outcomes /\ state \in Names({0} \cup Gens)
      BY DEF Reached, Outcomes, Inv, DiskInv, DirsTyped
    <2> QED BY <2>1, <2>2, StateSynced DEF Land
  <1>2. CASE ~MustKeep(cites)
    BY <1>2 DEF Land
  <1> QED BY <1>1, <1>2

LEMMA LandOrder ==
    ASSUME Inv, Inv', StoreInv, OrderInv, NEW base \in 0 .. MaxSeq, NEW cites \in 0 .. MaxSeq,
           Land(base, cites)
    PROVE  OrderInv'
  <1> DEFINE n == Top + 1
  <1>1. /\ ~Removing /\ job.at = "collect" /\ job' = job /\ Top \in Nat /\ 1 .. Top \subseteq Seqs
        /\ body' = Append(body, [base |-> base, cites |-> cites])
    BY Held DEF Land, MayLand
  <1>2. Top' = n
    <2>1. [base |-> base, cites |-> cites] \in Bodies /\ body \in Seq(Bodies)
      BY DEF Bodies, Inv, DiskInv, RestTyped
    <2> QED BY <1>1, <2>1, AppendProperties DEF Top
  <1>3. /\ landed'[n].now
        /\ \A s \in Seqs \ {n} : landed'[s] = landed[s]
        /\ intent'.now = intent.now /\ intent'.may \subseteq intent.may
    BY LandedStore
  <1>4. skeleton' = skeleton /\ state'.now = state.now
    BY LandedSkeletons
  <1>5. \A s \in Seqs : landed'[s].now \in landed'[s].may /\ skeleton'[s].now \in skeleton'[s].may
    BY DEF Inv, DiskInv, DirsTyped, Names
  <1>6. \A s \in 1 .. Top : s \in Seqs /\ s # n /\ s \in 1 .. n
    BY <1>1
  <1>7. GoneStays
    <2>1. ASSUME NEW s \in 1 .. Top, ~IsLanded(s) PROVE ~IsLanded(s)'
      BY <1>3, <1>6, <2>1 DEF IsLanded
    <2>2. Top' >= Top
      BY <1>1, <1>2
    <2> QED BY <1>4, <2>1, <2>2 DEF GoneStays
  <1>8. AllOrdered'
    <2> SUFFICES ASSUME NEW i \in intent'.may, i # NoIntent PROVE Ordered(i)'
      BY DEF AllOrdered
    <2>1. /\ i \in intent.may /\ i \in Intents /\ Ordered(i) /\ i.through \in 1 .. Top
          /\ i.generation \in Gens /\ i.phase \in Phases
      BY <1>3, IntentIs DEF OrderInv, AllOrdered
    <2>2. AllLost(i.through)
      BY <1>1, <2>1 DEF StoreInv, StoreDisk, Waiting
    <2>3. \A s \in 1 .. i.through : s \in 1 .. Top /\ s \in Seqs /\ Lost(s) /\ ~IsLanded(s)
      <3> SUFFICES ASSUME NEW s \in 1 .. i.through
                   PROVE  s \in 1 .. Top /\ s \in Seqs /\ Lost(s) /\ ~IsLanded(s)
        OBVIOUS
      <3>1. s \in 1 .. Top /\ s \in Seqs /\ Lost(s)
        BY <1>1, <2>1, <2>2 DEF AllLost
      <3> QED BY <3>1, Held DEF Lost, IsLanded
    <2>4. i.phase = "delete"
      BY <2>1, <2>3 DEF Ordered, Phases
    <2>5. Outgone(i.generation)
      <3>1. PICK s \in 1 .. i.through : \A v \in skeleton[s].may : Whole(v) => v >= i.generation
        BY <2>1, <2>4 DEF Ordered
      <3>2. s \in 1 .. Top /\ ~IsLanded(s) /\ Safe(s)
        BY <2>3, <3>1 DEF Inv, DiskInv, Protected
      <3> QED BY <3>1, <3>2 DEF Outgone, Safe
    <2>6. \A s \in Seqs : \A v \in skeleton'[s].may : v \in skeleton[s].may
      BY <1>4
    <2>7. i.through <= Top
      BY <1>1, <2>1
    <2> QED BY <1>7, <2>1, <2>4, <2>5, <2>6, <2>7, OrderedKept
  <1>9. ~Removing' /\ intent'.now.phase # "delete"
    BY <1>1, <1>3 DEF Removing, NoIntent
  <1>10. InOrder'
    <2>1. CASE state.now = 0
      BY <1>4, <1>9, <2>1 DEF InOrder
    <2>2. CASE state.now # 0
      <3>1. PICK s \in 1 .. Top : IsRemoved(s) /\ skeleton[s].now >= state.now
        BY <1>1, <2>2 DEF OrderInv, InOrder
      <3>2. s \in 1 .. Top' /\ IsRemoved(s)' /\ skeleton'[s].now >= state'.now
        BY <1>2, <1>3, <1>4, <1>6, <3>1 DEF IsRemoved
      <3> QED BY <1>9, <3>2 DEF InOrder
    <2> QED BY <2>1, <2>2
  <1>11. Newest'
    BY <1>9 DEF Newest
  <1>12. Firm'
    <2>1. ASSUME NEW s \in 1 .. n PROVE IsLanded(s)' \/ Fixed(s)'
      <3>1. CASE s = n
        BY <1>3, <3>1 DEF IsLanded
      <3>2. CASE s # n
        <4>1. s \in 1 .. Top /\ s \in Seqs
          BY <1>1, <3>2
        <4>2. landed'[s] = landed[s]
          BY <1>3, <3>2, <4>1
        <4>3. Fixed(s) => Fixed(s)'
          BY <1>4 DEF Fixed
        <4> QED BY <4>1, <4>2, <4>3 DEF OrderInv, Firm, IsLanded
      <3> QED BY <3>1, <3>2
    <2> QED BY <1>2, <1>9, <2>1 DEF Firm
  <1>13. JobOrder'
    BY <1>1 DEF JobOrder, Finishing
  <1> QED BY <1>8, <1>10, <1>11, <1>12, <1>13 DEF OrderInv

\* What a loss of power leaves is settled.
LEMMA PowerLossOrder ==
    ASSUME Inv, Inv', StoreInv, OrderInv, PowerLoss, InOrder', Numbered'
    PROVE  OrderInv'
  <1>1. UNCHANGED body /\ job' = Away /\ Top' = Top /\ Top \in Nat /\ 1 .. Top \subseteq Seqs
    BY Held DEF PowerLoss, Top
  <1>2. \A s \in Seqs : landed'[s].now \in landed[s].may /\ landed'[s].may = {landed'[s].now}
    <2>1. DOMAIN landed = Seqs
      BY DEF Inv, DiskInv, DirsTyped
    <2>2. PICK r \in [Seqs -> BOOLEAN] :
             /\ \A s \in Seqs : r[s] \in landed[s].may
             /\ landed' = [s \in Seqs |-> Settled(r[s])]
      BY <2>1 DEF PowerLoss, Remains, Reset
    <2>3. \A s \in Seqs : landed'[s] = [now |-> r[s], may |-> {r[s]}, stuck |-> FALSE]
      BY <2>2 DEF Settled
    <2> QED BY <2>2, <2>3
  <1>3. \A s \in Seqs : skeleton'[s].now \in skeleton[s].may /\ skeleton'[s].may = {skeleton'[s].now}
    <2>1. DOMAIN skeleton = Seqs
      BY DEF Inv, DiskInv, DirsTyped
    <2>2. PICK r \in [Seqs -> {Absent, Reserved} \cup Gens] :
             /\ \A s \in Seqs : r[s] \in skeleton[s].may
             /\ skeleton' = [s \in Seqs |-> Settled(r[s])]
      BY <2>1 DEF PowerLoss, Remains, Reset
    <2>3. \A s \in Seqs : skeleton'[s] = [now |-> r[s], may |-> {r[s]}, stuck |-> FALSE]
      BY <2>2 DEF Settled
    <2> QED BY <2>2, <2>3
  <1>4. intent'.now \in intent.may /\ intent'.may = {intent'.now}
    <2>1. PICK i \in intent.may : intent' = Settled(i)
      BY DEF PowerLoss
    <2>2. intent' = [now |-> i, may |-> {i}, stuck |-> FALSE]
      BY <2>1 DEF Settled
    <2> QED BY <2>2
  <1>5. ASSUME NEW s \in Seqs, Lost(s) PROVE ~IsLanded(s)'
    BY <1>2, <1>5 DEF Lost, IsLanded
  <1>6. AllOrdered'
    <2> SUFFICES ASSUME NEW i, i = intent'.now, i # NoIntent PROVE Ordered(i)'
      BY <1>4 DEF AllOrdered
    <2>1. /\ i \in intent.may /\ Ordered(i) /\ i.through \in 1 .. Top /\ i.generation \in Gens
          /\ 1 .. i.through \subseteq Seqs /\ 1 .. i.through \subseteq 1 .. Top
      BY <1>1, <1>4, IntentIs DEF OrderInv, AllOrdered
    <2>2. Outgone(i.generation - 1)'
      <3>1. Removing'
        BY DEF Removing
      <3>2. CASE i.generation = 1
        BY <3>2 DEF Outgone
      <3>3. CASE i.generation # 1
        <4>1. PICK s \in 1 .. Top : IsRemoved(s)' /\ skeleton'[s].now >= i.generation - 1
          BY <1>1, <3>1, <3>3 DEF Numbered
        <4>2. ~IsLanded(s)' /\ skeleton'[s].may = {skeleton'[s].now}
          BY <1>1, <1>3, <4>1 DEF IsRemoved, IsLanded
        <4> QED BY <1>1, <4>1, <4>2 DEF Outgone
      <3> QED BY <3>2, <3>3
    <2>3. i.through = Top' \/ Outgone(i.generation)'
      <3> SUFFICES ASSUME i.through # Top PROVE Outgone(i.generation)'
        BY <1>1
      <3>1. AllLost(i.through)
        <4>1. PICK b \in 0 .. Top : EndsAt(i, b)
          BY <2>1 DEF StoreInv, StoreDisk, Bounded
        <4> QED BY <1>1, <2>1, <4>1 DEF EndsAt
      <3>2. PICK s \in 1 .. Top : ~IsLanded(s) /\ \A v \in skeleton[s].may : v >= i.generation
        BY <2>1 DEF Ordered, Outgone, Gens
      <3>3. s \in Seqs /\ s \in Nat /\ s >= 1 /\ landed[s].now \in landed[s].may
            /\ landed[s].now \in BOOLEAN
        BY <1>1, Held
      <3>4. Lost(s)
        <4>1. CASE s <= i.through
          BY <2>1, <3>1, <3>3, <4>1 DEF AllLost
        <4>2. CASE ~(s <= i.through)
          <5>1. landed[s].may = {landed[s].now}
            BY <2>1, <3>3, <4>2 DEF StoreInv, StoreDisk, Waiting, Unsettled
          <5> QED BY <3>2, <3>3, <5>1 DEF Lost, IsLanded
        <4> QED BY <4>1, <4>2
      <3> QED BY <1>1, <1>3, <1>5, <3>2, <3>3, <3>4 DEF Outgone
    <2>4. ASSUME i.phase = "delete"
          PROVE  \E s \in 1 .. i.through : \A v \in skeleton'[s].may : Whole(v) => v >= i.generation
      <3>1. PICK s \in 1 .. i.through : \A v \in skeleton[s].may : Whole(v) => v >= i.generation
        BY <2>1, <2>4 DEF Ordered
      <3> QED BY <1>3, <2>1, <3>1
    <2>5. ASSUME i.phase = "skeletons" PROVE \E s \in 1 .. i.through : IsLanded(s)'
      <3>1. PICK s \in 1 .. i.through : IsLanded(s)
        BY <2>1, <2>5 DEF Ordered
      <3>2. s \in Seqs /\ landed[s].may = {TRUE}
        BY <2>1, <3>1 DEF Inv, DiskInv, Protected
      <3> QED BY <1>2, <3>2 DEF IsLanded
    <2> QED BY <2>2, <2>3, <2>4, <2>5 DEF Ordered
  <1>7. Newest'
    <2>1. intent'.now.generation \in Nat
      BY <1>4, IntentIs
    <2> QED BY <1>4, <2>1 DEF Newest
  <1>8. Firm'
    <2>1. \A s \in Seqs : Fixed(s)'
      BY <1>3 DEF Fixed
    <2>2. intent'.now.through \in 0 .. Top
      BY <1>4, IntentIs
    <2>3. 1 .. intent'.now.through \subseteq Seqs
      BY <1>1, <2>2
    <2> QED BY <1>1, <2>1, <2>3 DEF Firm
  <1> QED BY <1>1, <1>6, <1>7, <1>8, GivenUpRests, RestOrder DEF OrderInv

LEMMA InitOrder == Init => OrderInv
  <1> SUFFICES ASSUME Init PROVE OrderInv
    OBVIOUS
  <1>1. /\ Top = 0 /\ intent.now = NoIntent /\ intent.may = {NoIntent} /\ state.now = 0
        /\ job.at = "away"
    BY DEF Init, Top, Settled, Away
  <1>2. InOrder /\ AllOrdered /\ Newest
    BY <1>1 DEF InOrder, AllOrdered, Newest, Removing
  <1>3. Firm
    BY <1>1 DEF Firm, NoIntent
  <1>4. JobOrder
    BY <1>1 DEF JobOrder, Finishing
  <1> QED BY <1>2, <1>3, <1>4 DEF OrderInv

LEMMA OrderStep ==
    ASSUME Inv, Inv', StoreInv, OrderInv, [Next]_vars,
           [PowerLoss => InOrder' /\ Numbered']_vars
    PROVE  OrderInv'
  <1>1. CASE Pass
    <2>1. CASE StartPass \/ NothingToRecover \/ Recover \/ Parse \/ NothingToRemove
      BY <2>1, QuietOrder
    <2>2. CASE \E base, cites \in 0 .. MaxSeq : Land(base, cites)
      BY <2>2, LandOrder
    <2>3. CASE \E base, cites \in 0 .. MaxSeq, o \in Outcomes, n \in 0 .. 1 : PieceNotKept(base, cites, o, n)
      BY <2>3, PieceNotKeptOrder
    <2>4. CASE \E o \in Outcomes, n \in 0 .. 2 : KeepTip(o, n)
      BY <2>4, KeepTipOrder
    <2>5. CASE \E o \in Outcomes :
                  \/ SaveIntent(o) \/ SavePhase(o) \/ SaveGeneration(o)
                  \/ SyncDeleted(o) \/ RemoveIntent(o)
      BY <2>5, SaveIntentOrder, SavePhaseOrder, SaveGenerationOrder, SyncDeletedOrder, RemoveIntentOrder
    <2>6. CASE \E s \in Seqs, o \in Outcomes : WriteSkeleton(s, o)
      BY <2>6, WriteSkeletonOrder
    <2>7. CASE \E s \in Seqs, left \in {Absent, Reserved} : SkeletonCutShort(s, left)
      BY <2>7, SkeletonCutShortOrder
    <2>8. CASE \E s \in Seqs : Delete(s)
      BY <2>8, DeleteOrder
    <2>9. CASE ReclaimTips \/ ReclaimPieces
      BY <2>9, ReclaimOrder
    <2> QED BY <1>1, <2>1, <2>2, <2>3, <2>4, <2>5, <2>6, <2>7, <2>8, <2>9 DEF Pass
  <1>2. CASE Check \/ Stop \/ Fails \/ JudgeStart \/ JudgeEnd \/ UNCHANGED vars
    BY <1>2, QuietOrder
  <1>3. CASE PowerLoss
    <2>1. (InOrder' /\ Numbered') \/ UNCHANGED vars
      BY <1>3
    <2> QED BY <1>2, <1>3, <2>1, PowerLossOrder
  <1> QED BY <1>1, <1>2, <1>3 DEF Next

\* A loss of power never keeps a generation and takes its intent back, nor keeps
\* an intent and takes back what showed its generation was the next.
LossesInOrder == [][PowerLoss => InOrder' /\ Numbered']_vars

LEMMA OrderInvariance == Spec /\ []NoneStranded /\ LossesInOrder => []OrderInv
  <1>1. Init => OrderInv
    BY InitOrder
  <1>2. (/\ Inv /\ Inv' /\ StoreInv /\ OrderInv
         /\ [Next]_vars /\ [PowerLoss => InOrder' /\ Numbered']_vars) => OrderInv'
    BY OrderStep
  <1> QED BY <1>1, <1>2, Invariance, StoreInvariance, PTL DEF Spec, LossesInOrder

-----------------------------------------------------------------------------
(***************************************************************************)
(* What asz verify sees of the removals.  Two readings are the same view   *)
(* only of the same removal, or of none since: as removals are in order,   *)
(* the steps that change the view are counted up, two for each removal.    *)
(***************************************************************************)

Marker == 2 * Latest - (IF Removing THEN 1 ELSE 0)
View ==
    IF Removing
    THEN [generation |-> intent.now.generation, inProgress |-> TRUE, through |-> intent.now.through]
    ELSE [generation |-> state.now, inProgress |-> FALSE, through |-> 0]

Views == [generation : Nat, inProgress : BOOLEAN, through : Nat]

LEMMA ViewIs ==
    ASSUME Inv
    PROVE  /\ View \in Views /\ Latest \in Nat /\ Marker \in Int
           /\ View.generation = Latest /\ View.inProgress = Removing
           /\ Marker = IF Removing THEN 2 * View.generation - 1 ELSE 2 * View.generation
  <1>1. intent.now.generation \in Nat /\ intent.now.through \in Nat /\ state.now \in Nat
    <2>1. intent.now.through \in 0 .. Top /\ Top \in Nat /\ state.now \in {0} \cup Gens
          /\ intent.now.generation \in Nat
      BY Held, IntentIs
    <2> QED BY <2>1 DEF Gens
  <1>2. Removing \in BOOLEAN
    BY DEF Removing
  <1>3. CASE Removing
    BY <1>1, <1>3 DEF View, Views, Latest, Marker
  <1>4. CASE ~Removing
    <2>1. View = [generation |-> state.now, inProgress |-> FALSE, through |-> 0]
      BY <1>4 DEF View
    <2>2. View \in Views /\ View.generation = state.now /\ View.inProgress = FALSE
      BY <1>1, <2>1 DEF Views
    <2>3. Latest = state.now /\ Marker = 2 * state.now
      BY <1>1, <1>4 DEF Latest, Marker
    <2>4. Removing = FALSE
      BY <1>2, <1>4
    <2>5. View.inProgress = Removing
      BY <2>2, <2>4
    <2>6. Latest \in Nat /\ Marker \in Int /\ View.generation = Latest
      BY <1>1, <2>2, <2>3
    <2>7. Marker = IF Removing THEN 2 * View.generation - 1 ELSE 2 * View.generation
      BY <1>4, <2>2, <2>3
    <2> QED BY <2>2, <2>5, <2>6, <2>7
  <1> QED BY <1>3, <1>4

Shows == Marker \in Int /\ View \in Views /\ View.inProgress = Removing

LEMMA ViewShows == Inv => Shows
  <1> SUFFICES ASSUME Inv PROVE Shows
    OBVIOUS
  <1> QED BY ViewIs DEF Shows

LEMMA ViewShowsNext == Inv' => Shows'
  BY ViewShows, PTL

\* The view is as it was, or a later one.
MovesOn == Marker' > Marker \/ (Marker' = Marker /\ View' = View)

\* The intent and the state show what they showed.
LEMMA SameView ==
    ASSUME Inv, intent'.now = intent.now, state'.now = state.now
    PROVE  Marker' = Marker /\ View' = View /\ Removing' = Removing /\ Latest' = Latest
  BY DEF Marker, View, Latest, Removing

LEMMA SaveIntentMoves ==
    ASSUME Inv, Inv', StoreInv, OrderInv, NEW o \in Outcomes, SaveIntent(o)
    PROVE  MovesOn
  <1> PICK v : v = [generation |-> job.generation, through |-> job.through, phase |-> "skeletons"]
    OBVIOUS
  <1> DEFINE i == Written(intent, v)
  <1>1. /\ job.generation \in Gens /\ job.through \in Seqs /\ job.through = Top /\ Ahead
        /\ SessionSync(o, i, state) /\ intent \in Names(Intents) /\ state \in Names({0} \cup Gens)
    BY DEF Inv, DiskInv, DirsTyped, JobTyped, StoreInv, Ready, SaveIntent, Resting, OrderInv, JobOrder
  <1>2. v \in Intents /\ v # NoIntent /\ v.through = Top /\ v.generation = job.generation
    BY <1>1 DEF Intents, Phases, NoIntent
  <1>3. i \in Names(Intents) /\ i.now = v
    BY <1>1, <1>2, WrittenIntent
  <1> HIDE DEF i
  <1>4. intent'.now = v /\ Removing'
    BY <1>1, <1>2, <1>3, SessionSynced DEF Removing
  <1>5. /\ Marker' = 2 * job.generation - 1 /\ job.generation \in Nat
        /\ View' = [generation |-> job.generation, inProgress |-> TRUE, through |-> Top]
    <2>1. v.generation = job.generation /\ v.through = Top /\ job.generation \in Nat
      BY <1>1, <1>2 DEF Gens
    <2>2. Marker' = 2 * job.generation - 1
      BY <1>4, <2>1 DEF Marker, Latest
    <2> QED BY <1>4, <2>1, <2>2 DEF View
  <1>6. CASE ~Removing
    <2>1. state.now < job.generation /\ state.now \in Nat
      <3>1. state.now \in Nat /\ job.generation >= 1
        BY <1>1, Held DEF Gens
      <3>2. CASE state.now # 0
        <4>1. PICK s \in 1 .. Top : IsRemoved(s) /\ skeleton[s].now >= state.now
          BY <1>6, <3>2 DEF OrderInv, InOrder
        <4>2. skeleton[s].now < job.generation /\ skeleton[s].now \in Int
          BY <1>1, <4>1, Held DEF Ahead, Absent, Reserved, Gens
        <4> QED BY <1>5, <3>1, <4>1, <4>2
      <3> QED BY <1>5, <3>1, <3>2
    <2>2. Marker = 2 * state.now
      BY <1>6, <2>1 DEF Marker, Latest
    <2> QED BY <1>5, <2>1, <2>2 DEF MovesOn
  <1>7. CASE Removing
    <2>1. /\ intent.now.generation \in Nat /\ intent.now.generation <= job.generation
          /\ intent.now \in intent.may /\ intent.now # NoIntent /\ Ordered(intent.now)
      BY <1>1, <1>7, Held, IntentIs DEF Ahead, Removing, OrderInv, AllOrdered
    <2>2. Marker = 2 * intent.now.generation - 1
      BY <1>7 DEF Marker, Latest
    <2>3. CASE intent.now.generation < job.generation
      BY <1>5, <2>1, <2>2, <2>3 DEF MovesOn
    <2>4. CASE intent.now.generation = job.generation
      <3>1. ~Outgone(job.generation)
        <4> SUFFICES ASSUME Outgone(job.generation) PROVE FALSE
          OBVIOUS
        <4>1. PICK s \in 1 .. Top : ~IsLanded(s) /\ \A w \in skeleton[s].may : w >= job.generation
          BY <1>1, <1>5 DEF Outgone, Gens
        <4>2. ~IsLanded(s) /\ skeleton[s].now >= job.generation
              /\ skeleton[s].now \in {Absent, Reserved} \cup Gens
          BY <4>1, Held
        <4>3. IsRemoved(s)
          BY <1>1, <4>2 DEF IsRemoved, IsLanded, Absent, Gens
        <4>4. skeleton[s].now < job.generation
          BY <1>1, <4>3 DEF Ahead
        <4> QED BY <1>5, <4>2, <4>4 DEF Absent, Reserved, Gens
      <3>2. intent.now.through = Top
        BY <2>1, <2>4, <3>1 DEF Ordered
      <3> QED BY <1>5, <1>7, <2>2, <2>4, <3>2 DEF MovesOn, View
    <2> QED BY <1>5, <2>1, <2>3, <2>4
  <1> QED BY <1>6, <1>7

LEMMA SavePhaseMoves ==
    ASSUME Inv, Inv', StoreInv, OrderInv, NEW o \in Outcomes, SavePhase(o)
    PROVE  MovesOn
  <1> PICK v : v = [generation |-> job.generation, through |-> job.through, phase |-> "delete"]
    OBVIOUS
  <1> DEFINE i == Written(intent, v)
  <1>1. /\ intent.now.phase = "skeletons" /\ intent.now.through = job.through
        /\ intent.now.generation = job.generation /\ job.through \in 1 .. Top
        /\ job.generation \in Gens
        /\ SessionSync(o, i, state) /\ intent \in Names(Intents) /\ state \in Names({0} \cup Gens)
    BY SkeletonsThere DEF SavePhase, Inv, DiskInv, DirsTyped
  <1>2. v \in Intents /\ v # NoIntent /\ v.through = intent.now.through
        /\ v.generation = intent.now.generation
    <2>1. job.through \in Seqs
      BY <1>1, Held
    <2> QED BY <1>1, <2>1 DEF Intents, Phases, NoIntent
  <1>3. i \in Names(Intents) /\ i.now = v
    BY <1>1, <1>2, WrittenIntent
  <1> HIDE DEF i
  <1>4. intent'.now = v /\ Removing' /\ Removing
    BY <1>1, <1>2, <1>3, SessionSynced DEF Removing, NoIntent
  <1> QED BY <1>2, <1>4 DEF MovesOn, Marker, View, Latest

LEMMA SaveGenerationMoves ==
    ASSUME Inv, Inv', StoreInv, OrderInv, NEW o \in Outcomes, SaveGeneration(o)
    PROVE  MovesOn /\ state'.now >= state.now
  <1>1. /\ job.generation \in Gens /\ job.at = "generation" /\ job.at \in Finishing
        /\ job.generation = intent.now.generation /\ Removing
        /\ SessionSync(o, intent, Written(state, job.generation))
        /\ intent \in Names(Intents) /\ state \in Names({0} \cup Gens)
    BY DEF SaveGeneration, Inv, DiskInv, DirsTyped, JobTyped, JobFits, StoreInv, Ready, Resting,
           Finishing, Removing, NoIntent
  <1>2. Written(state, job.generation) \in Names({0} \cup Gens)
        /\ Written(state, job.generation).now = job.generation
    BY <1>1 DEF Written, Names, Disk
  <1>3. intent'.now = intent.now /\ state'.now = job.generation
    BY <1>1, <1>2, SessionSynced, StateSynced
  <1>4. MovesOn
    BY <1>1, <1>3 DEF MovesOn, Marker, View, Latest, Removing
  <1>5. state.now <= job.generation /\ state.now \in {0} \cup Gens
    BY <1>1, Held DEF OrderInv, InOrder
  <1> QED BY <1>1, <1>3, <1>4, <1>5 DEF Gens

LEMMA RemoveIntentMoves ==
    ASSUME Inv, Inv', StoreInv, OrderInv, NEW o \in Outcomes, RemoveIntent(o)
    PROVE  Marker' > Marker /\ state'.now = state.now
  <1>1. /\ SessionSync(o, Written(intent, NoIntent), state)
        /\ job.at = "end" /\ intent \in Names(Intents) /\ state \in Names({0} \cup Gens)
        /\ NoIntent \in Intents
    BY DEF RemoveIntent, Inv, DiskInv, DirsTyped, Intents
  <1>2. /\ Removing /\ intent.now.generation = job.generation /\ state.now = job.generation
        /\ job.generation \in Gens
    BY <1>1, Deleting DEF Finishing, OrderInv, JobOrder
  <1>3. intent'.now = NoIntent /\ state'.now = state.now
    BY <1>1, WrittenIntent, SessionSynced, StateSynced
  <1> QED BY <1>2, <1>3 DEF Marker, Latest, Removing, Gens

\* What an attempt at a check may rest on: no step but a loss of power takes the
\* view, or the generation, back.
LEMMA ViewMoves ==
    ASSUME Inv, Inv', StoreInv, OrderInv, [Next]_vars, ~PowerLoss
    PROVE  MovesOn /\ state'.now >= state.now
  <1>1. state.now \in Nat
    BY Held DEF Gens
  <1>2. ASSUME intent'.now = intent.now, state'.now = state.now
        PROVE  MovesOn /\ state'.now >= state.now
    BY <1>1, <1>2, SameView DEF MovesOn
  <1>3. ASSUME UNCHANGED <<intent, state>> PROVE MovesOn /\ state'.now >= state.now
    BY <1>2, <1>3
  <1>4. CASE Pass
    <2>1. CASE StartPass \/ NothingToRecover \/ Recover \/ Parse \/ NothingToRemove
      BY <1>3, <2>1 DEF StartPass, NothingToRecover, Recover, Parse, NothingToRemove, disk
    <2>2. CASE \E base, cites \in 0 .. MaxSeq : Land(base, cites)
      BY <1>2, <2>2, LandedStore, LandedSkeletons
    <2>3. ASSUME NEW base \in 0 .. MaxSeq, NEW cites \in 0 .. MaxSeq, NEW o \in Outcomes,
                 NEW n \in 0 .. 1, PieceNotKept(base, cites, o, n)
          PROVE  MovesOn /\ state'.now >= state.now
      <3>1. /\ ParentsSync(o, n) /\ UNCHANGED <<landed, skeleton>>
            /\ state \in Names({0} \cup Gens) /\ Reached(o, n, 1) \in Outcomes
        BY <2>3, ReachedOutcome DEF PieceNotKept, Inv, DiskInv, DirsTyped
      <3>2. Calm
        BY <3>1, ParentsCalm DEF Inv
      <3> QED BY <1>2, <3>1, <3>2, StateSynced DEF Calm, ParentsSync
    <2>4. ASSUME NEW o \in Outcomes, NEW n \in 0 .. 2, KeepTip(o, n)
          PROVE  MovesOn /\ state'.now >= state.now
      <3>1. /\ ParentsSync(o, n) /\ UNCHANGED <<landed, skeleton>>
            /\ state \in Names({0} \cup Gens) /\ Reached(o, n, 1) \in Outcomes
        BY <2>4, ReachedOutcome DEF KeepTip, Inv, DiskInv, DirsTyped
      <3>2. Calm
        BY <3>1, ParentsCalm DEF Inv
      <3> QED BY <1>2, <3>1, <3>2, StateSynced DEF Calm, ParentsSync
    <2>5. ASSUME NEW o \in Outcomes, SaveIntent(o) \/ SavePhase(o)
          PROVE  MovesOn /\ state'.now >= state.now
      <3>1. MovesOn
        BY <2>5, SaveIntentMoves, SavePhaseMoves
      <3>2. \E i : SessionSync(o, i, state)
        BY <2>5 DEF SaveIntent, SavePhase
      <3>3. state'.now = state.now
        BY <3>2, StateSynced DEF Inv, DiskInv, DirsTyped
      <3> QED BY <1>1, <3>1, <3>3
    <2>6. ASSUME NEW o \in Outcomes, SaveGeneration(o) \/ RemoveIntent(o)
          PROVE  MovesOn /\ state'.now >= state.now
      BY <1>1, <2>6, SaveGenerationMoves, RemoveIntentMoves DEF MovesOn
    <2>7. CASE \E o \in Outcomes : SyncDeleted(o)
      BY <1>3, <2>7 DEF SyncDeleted
    <2>8. CASE \E s \in Seqs, o \in Outcomes : WriteSkeleton(s, o)
      BY <1>3, <2>8 DEF WriteSkeleton
    <2>9. CASE \E s \in Seqs, left \in {Absent, Reserved} : SkeletonCutShort(s, left)
      BY <1>3, <2>9 DEF SkeletonCutShort
    <2>10. CASE \E s \in Seqs : Delete(s)
      BY <1>3, <2>10 DEF Delete
    <2>11. CASE ReclaimTips \/ ReclaimPieces
      BY <1>3, <2>11 DEF ReclaimTips, ReclaimPieces
    <2> QED BY <1>4, <2>1, <2>2, <2>3, <2>4, <2>5, <2>6, <2>7, <2>8, <2>9, <2>10, <2>11 DEF Pass
  <1>5. CASE Check
    <2>1. CheckKeeps
      BY <1>5 DEF Check, StartCheck, ReadGeneration, LookForIntent, LoadIntent, List, Open, Build,
                  Built, Compare
    <2> QED BY <1>3, <2>1 DEF CheckKeeps, disk
  <1>6. CASE Stop \/ Fails \/ JudgeStart \/ JudgeEnd \/ UNCHANGED vars
    BY <1>3, <1>6 DEF Stop, Fails, JudgeStart, JudgeEnd, vars, disk
  <1> QED BY <1>4, <1>5, <1>6 DEF Next

-----------------------------------------------------------------------------
(***************************************************************************)
(* A run of asz verify ends inconclusive only when two removals began      *)
(* meanwhile.  Every attempt that fails has seen the view move on, and a   *)
(* removal moves it twice, when it begins and when it ends.                *)
(***************************************************************************)

CheckSteps == {"done", "generation", "look", "load", "list", "open", "build", "compare"}
Verdicts == {"none", "sound", "damaged", "inconclusive"}

CheckTyped ==
    /\ check.at = "build" => check.listed # {}
    /\ check \in [at : CheckSteps, next : {"list", "compare"}, attempt : Nat, first : Nat,
                  before : Views, read : Views, listed : SUBSET Seqs, asSkeleton : SUBSET Seqs,
                  removed : SUBSET Seqs, built : SUBSET Seqs, problem : BOOLEAN,
                  verdict : Verdicts]

\* All that the attempt goes by is still what the disk shows.
Fresh ==
    /\ check.at \in {"generation", "look", "load"} /\ check.next = "compare" => check.before = View
    /\ check.at = "look" => Removing \/ check.read = View
    /\ check.at = "load" => check.read.inProgress = Removing /\ (Removing \/ check.read = View)
    /\ check.at \in {"list", "compare"} => check.read = View
    /\ check.at \in {"open", "build", "compare"} => check.before = View

\* Where the view is at least, at an attempt: each one before this saw it move.
Low == 2 * check.first + check.attempt - 2

CheckMoves ==
    IF check.at = "done"
    THEN check.verdict = "inconclusive" => Marker >= 2 * check.first + Attempts - 1
    ELSE /\ check.attempt \in 1 .. Attempts
         /\ check.verdict = "none"
         /\ Marker >= Low /\ (Marker > Low \/ Fresh)

CheckInv == CheckTyped /\ CheckMoves

LEMMA InitCheck == Init => CheckInv
  BY DEF Init, NoCheck, Unread, CheckInv, CheckTyped, CheckMoves, CheckSteps, Verdicts, Views

\* The check is as it was, and the view is as it was or a later one.
LEMMA ElsewhereCheck ==
    ASSUME Inv, Inv', CheckInv, MovesOn, UNCHANGED check
    PROVE  CheckInv'
  <1>1. CheckTyped'
    BY DEF CheckInv, CheckTyped
  <1>2. /\ Marker \in Int /\ View.inProgress = Removing
        /\ Marker' \in Int /\ View'.inProgress = Removing'
    BY ViewShows, ViewShowsNext DEF Shows
  <1>3. Low \in Int /\ Low' = Low /\ check.first \in Nat /\ check.attempt \in Nat
    BY DEF CheckInv, CheckTyped, Low
  <1>4. CASE check.at = "done"
    <2>1. Marker' >= Marker
      BY <1>2 DEF MovesOn
    <2> QED BY <1>1, <1>2, <1>3, <1>4, <2>1, RemovalAssumption DEF CheckInv, CheckMoves
  <1>5. CASE check.at # "done"
    <2>1. check'.attempt \in 1 .. Attempts /\ check'.verdict = "none" /\ Marker >= Low
      BY <1>5 DEF CheckInv, CheckMoves
    <2>2. CASE Marker' > Marker
      <3>1. Marker' > Low' /\ Marker' >= Low'
        BY <1>2, <1>3, <2>1, <2>2
      <3> QED BY <1>1, <1>5, <2>1, <3>1 DEF CheckInv, CheckMoves
    <2>3. CASE Marker' = Marker /\ View' = View
      <3>1. Removing' = Removing
        BY <1>2, <2>3
      <3>2. Fresh => Fresh'
        BY <2>3, <3>1 DEF Fresh
      <3>3. Marker' >= Low' /\ (Marker' > Low' \/ Fresh')
        BY <1>3, <1>5, <2>3, <3>2 DEF CheckInv, CheckMoves
      <3> QED BY <1>1, <1>5, <2>1, <3>3 DEF CheckInv, CheckMoves
    <2> QED BY <2>2, <2>3 DEF MovesOn
  <1> QED BY <1>4, <1>5

\* A step of the check leaves what the disk shows.
LEMMA CheckSees ==
    ASSUME Inv, CheckKeeps
    PROVE  /\ Marker' = Marker /\ View' = View /\ Removing' = Removing /\ Latest' = Latest
           /\ Top' = Top /\ \A s \in Seqs : IsLanded(s)' = IsLanded(s)
  <1>1. intent' = intent /\ state' = state /\ landed' = landed /\ body' = body
    BY DEF CheckKeeps, disk
  <1> QED BY <1>1, SameView DEF Top, IsLanded

\* What the check works on is of its kind.
LEMMA CheckIs ==
    ASSUME CheckInv
    PROVE  /\ check.at \in CheckSteps /\ check.next \in {"list", "compare"}
           /\ check.attempt \in Nat /\ check.first \in Nat
           /\ check.before \in Views /\ check.read \in Views
           /\ check.listed \subseteq Seqs /\ check.asSkeleton \subseteq Seqs
           /\ check.removed \subseteq Seqs /\ check.built \subseteq Seqs
           /\ check.problem \in BOOLEAN /\ check.verdict \in Verdicts
  BY DEF CheckInv, CheckTyped

\* A step within an attempt.
LEMMA WithinAttempt ==
    ASSUME Inv, CheckInv, CheckKeeps, CheckTyped', check.at # "done", check'.at # "done",
           check'.first = check.first, check'.attempt = check.attempt,
           check'.verdict = check.verdict, Fresh => Fresh'
    PROVE  CheckInv'
  <1>1. Marker' = Marker /\ Low' = Low
    BY CheckSees DEF Low
  <1> QED BY <1>1 DEF CheckInv, CheckMoves

LEMMA StartCheckMoves ==
    ASSUME Inv, CheckInv, StartCheck
    PROVE  CheckInv'
  <1>1. /\ check' = [NoCheck EXCEPT !.at = "generation", !.attempt = 1, !.first = Latest]
        /\ CheckKeeps
    BY DEF StartCheck
  <1>2. Marker' = Marker /\ Marker \in Int /\ Latest \in Nat /\ Marker >= 2 * Latest - 1
    BY <1>1, ViewIs, CheckSees DEF Marker
  <1>3. CheckTyped'
    BY <1>1, <1>2 DEF CheckTyped, CheckSteps, Verdicts, Views, NoCheck, Unread
  <1>4. /\ check'.at = "generation" /\ check'.attempt = 1 /\ check'.first = Latest
        /\ check'.verdict = "none" /\ check'.next = "list"
    BY <1>1 DEF NoCheck
  <1>5. Fresh'
    BY <1>4 DEF Fresh
  <1>6. Low' = 2 * Latest - 1
    BY <1>2, <1>4 DEF Low
  <1> QED BY <1>2, <1>3, <1>4, <1>5, <1>6, RemovalAssumption DEF CheckInv, CheckMoves

LEMMA ReadGenerationMoves ==
    ASSUME Inv, CheckInv, ReadGeneration
    PROVE  CheckInv'
  <1>1. /\ check.at = "generation" /\ CheckKeeps
        /\ check' = [check EXCEPT !.at = "look", !.read = [Unread EXCEPT !.generation = state.now]]
    BY DEF ReadGeneration
  <1>2. state.now \in Nat
    BY Held DEF Gens
  <1>3. check'.read = [generation |-> state.now, inProgress |-> FALSE, through |-> 0]
    BY <1>1 DEF Unread, CheckInv, CheckTyped
  <1>4. CheckTyped'
    <2>1. [Unread EXCEPT !.generation = state.now] \in Views
      BY <1>2 DEF Unread, Views
    <2> QED BY <1>1, <2>1 DEF CheckInv, CheckTyped, CheckSteps
  <1>5. /\ check'.at = "look" /\ check'.next = check.next /\ check'.before = check.before
        /\ check'.first = check.first /\ check'.attempt = check.attempt
        /\ check'.verdict = check.verdict
    BY <1>1 DEF CheckInv, CheckTyped
  <1>6. ~Removing => check'.read = View
    BY <1>3 DEF View
  <1>7. View' = View /\ Removing' = Removing
    BY <1>1, CheckSees
  <1>8. Fresh => Fresh'
    BY <1>1, <1>5, <1>6, <1>7 DEF Fresh
  <1> QED BY <1>1, <1>4, <1>5, <1>8, WithinAttempt

LEMMA LookForIntentMoves ==
    ASSUME Inv, CheckInv, LookForIntent
    PROVE  CheckInv'
  <1>1. /\ check.at = "look" /\ CheckKeeps /\ Removing \in BOOLEAN
        /\ check' = [check EXCEPT !.at = "load", !.read.inProgress = Removing]
    BY DEF LookForIntent, Removing
  <1>2. check'.read = [check.read EXCEPT !.inProgress = Removing] /\ check'.read \in Views
    BY <1>1 DEF CheckInv, CheckTyped, Views
  <1>3. CheckTyped'
    BY <1>1, <1>2 DEF CheckInv, CheckTyped, CheckSteps
  <1>4. /\ check'.at = "load" /\ check'.next = check.next /\ check'.before = check.before
        /\ check'.first = check.first /\ check'.attempt = check.attempt
        /\ check'.verdict = check.verdict
    BY <1>1 DEF CheckInv, CheckTyped
  <1>5. check'.read.inProgress = Removing
    BY <1>2 DEF CheckInv, CheckTyped, Views
  <1>6. View' = View /\ Removing' = Removing /\ View \in Views /\ View.inProgress = Removing
    BY <1>1, CheckSees, ViewIs
  <1>7. check.read = View => check'.read = View
    BY <1>2, <1>6 DEF Views
  <1>8. Fresh => Fresh'
    BY <1>1, <1>4, <1>5, <1>6, <1>7 DEF Fresh
  <1> QED BY <1>1, <1>3, <1>4, <1>8, WithinAttempt

LEMMA LoadIntentMoves ==
    ASSUME Inv, CheckInv, LoadIntent
    PROVE  CheckInv'
  <1>1. check.at = "load" /\ CheckKeeps
    BY DEF LoadIntent
  <1>2. View' = View /\ Removing' = Removing /\ View \in Views
    BY <1>1, CheckSees, ViewIs
  <1>3. /\ check'.next = check.next /\ check'.before = check.before
        /\ check'.first = check.first /\ check'.attempt = check.attempt
        /\ check'.verdict = check.verdict
    BY DEF LoadIntent, CheckInv, CheckTyped
  <1>4. CASE Removing
    <2>1. check' = [check EXCEPT !.at = check.next, !.read = View]
      BY <1>4 DEF LoadIntent, View
    <2>2. CheckTyped'
      BY <1>2, <2>1 DEF CheckInv, CheckTyped, CheckSteps
    <2>3. check'.at = check.next /\ check'.read = View /\ check.next \in {"list", "compare"}
      BY <2>1 DEF CheckInv, CheckTyped
    <2>4. Fresh => Fresh'
      BY <1>1, <1>2, <1>3, <2>3 DEF Fresh
    <2> QED BY <1>1, <1>3, <2>2, <2>3, <2>4, WithinAttempt
  <1>5. CASE ~Removing
    <2>1. check' = [check EXCEPT !.at = IF check.read.inProgress THEN "generation" ELSE check.next]
      BY <1>5 DEF LoadIntent
    <2>2. CheckTyped'
      BY <2>1 DEF CheckInv, CheckTyped, CheckSteps
    <2>3. /\ check'.read = check.read /\ check.next \in {"list", "compare"}
          /\ check'.at = IF check.read.inProgress THEN "generation" ELSE check.next
      BY <2>1 DEF CheckInv, CheckTyped
    <2>4. Fresh => Fresh'
      <3>1. SUFFICES ASSUME Fresh PROVE Fresh'
        OBVIOUS
      <3>2. check.read.inProgress = Removing /\ check.read = View
        BY <1>1, <1>5, <3>1 DEF Fresh
      <3>3. check'.at = check.next
        BY <1>5, <2>3, <3>2
      <3> QED BY <1>1, <1>2, <1>3, <2>3, <3>1, <3>2, <3>3 DEF Fresh
    <2>5. check'.at # "done"
      BY <2>3
    <2> QED BY <1>1, <1>3, <2>2, <2>4, <2>5, WithinAttempt
  <1> QED BY <1>4, <1>5

LEMMA ListMoves ==
    ASSUME Inv, CheckInv, List
    PROVE  CheckInv'
  <1>1. check.at = "list" /\ CheckKeeps
    BY DEF List
  <1>2. View' = View /\ 1 .. Top \subseteq Seqs
    BY <1>1, CheckSees, Held
  <1>3. CheckTyped'
    BY <1>2 DEF List, CheckInv, CheckTyped, CheckSteps
  <1>4. /\ check'.at = "open" /\ check'.before = check.read
        /\ check'.first = check.first /\ check'.attempt = check.attempt
        /\ check'.verdict = check.verdict
    BY DEF List, CheckInv, CheckTyped
  <1>5. Fresh => Fresh'
    BY <1>1, <1>2, <1>4 DEF Fresh
  <1> QED BY <1>1, <1>3, <1>4, <1>5, WithinAttempt

LEMMA LeastIn ==
    ASSUME NEW T, T \subseteq Seqs, T # {}
    PROVE  Least(T) \in T /\ \A y \in T : Least(T) <= y
  <1>1. T \subseteq Nat
    BY DEF Seqs
  <1>2. \E x \in T : \A y \in T : x <= y
    BY <1>1, LeastOne
  <1> QED BY <1>2 DEF Least

\* Open and Build keep what the attempt goes by.
LEMMA OpenMoves ==
    ASSUME Inv, CheckInv, Open
    PROVE  CheckInv'
  <1> DEFINE s == Least(check.listed)
  <1>1. check.at = "open" /\ CheckKeeps /\ check.listed # {}
    BY DEF Open
  <1>2. View' = View
    BY <1>1, CheckSees
  <1>3. s \in Seqs
    BY <1>1, LeastIn DEF CheckInv, CheckTyped
  <1> HIDE DEF s
  <1>4. CASE IsLanded(s) /\ s \notin check.asSkeleton
    <2>1. check' = [check EXCEPT !.at = "build"]
      BY <1>4 DEF Open, s
    <2>2. CheckTyped'
      BY <1>1, <2>1 DEF CheckInv, CheckTyped, CheckSteps
    <2>3. /\ check'.at = "build" /\ check'.before = check.before
          /\ check'.first = check.first /\ check'.attempt = check.attempt
          /\ check'.verdict = check.verdict
      BY <2>1 DEF CheckInv, CheckTyped
    <2>4. Fresh => Fresh'
      BY <1>1, <1>2, <2>3 DEF Fresh
    <2> QED BY <1>1, <2>2, <2>3, <2>4, WithinAttempt
  <1>5. CASE ~(IsLanded(s) /\ s \notin check.asSkeleton)
    <2>1. check' = [check EXCEPT !.listed = @ \ {s}, !.removed = @ \cup {s},
                                 !.problem = @ \/ ~Whole(skeleton[s].now)]
      BY <1>5 DEF Open, s
    <2>2. CheckTyped'
      <3>1. PICK p \in BOOLEAN : p = (check.problem \/ ~Whole(skeleton[s].now))
        OBVIOUS
      <3>2. check' = [check EXCEPT !.listed = check.listed \ {s},
                                   !.removed = check.removed \cup {s}, !.problem = p]
        BY <2>1, <3>1
      <3> QED BY <1>1, <1>3, <3>2 DEF CheckInv, CheckTyped
    <2>3. /\ check'.at = "open" /\ check'.before = check.before
          /\ check'.first = check.first /\ check'.attempt = check.attempt
          /\ check'.verdict = check.verdict
      BY <1>1, <2>1 DEF CheckInv, CheckTyped
    <2>4. Fresh => Fresh'
      BY <1>1, <1>2, <2>3 DEF Fresh
    <2> QED BY <1>1, <2>2, <2>3, <2>4, WithinAttempt
  <1> QED BY <1>4, <1>5

LEMMA BuildMoves ==
    ASSUME Inv, CheckInv, Build
    PROVE  CheckInv'
  <1>1. check.at = "build" /\ CheckKeeps
    BY DEF Build
  <1>2. View' = View
    BY <1>1, CheckSees
  <1>3. /\ check'.at = "open" /\ check'.before = check.before /\ check'.next = check.next
        /\ check'.first = check.first /\ check'.attempt = check.attempt
        /\ check'.verdict = check.verdict
    BY DEF Build, CheckInv, CheckTyped
  <1>4. CheckTyped'
    <2>1. Least(check.listed) \in Seqs
      BY <1>1, LeastIn DEF CheckInv, CheckTyped
    <2>2. PICK b \in BOOLEAN, p \in BOOLEAN :
              check' = [check EXCEPT !.at = "open", !.listed = check.listed \ {Least(check.listed)},
                                     !.built = IF b THEN check.built \cup {Least(check.listed)}
                                               ELSE check.built,
                                     !.problem = p]
      BY DEF Build
    <2>3. check.built \cup {Least(check.listed)} \subseteq Seqs /\ check.built \subseteq Seqs
          /\ check.listed \ {Least(check.listed)} \subseteq Seqs
      BY <2>1 DEF CheckInv, CheckTyped
    <2> QED BY <2>2, <2>3 DEF CheckInv, CheckTyped, CheckSteps
  <1>5. Fresh => Fresh'
    BY <1>1, <1>2, <1>3 DEF Fresh
  <1> QED BY <1>1, <1>3, <1>4, <1>5, WithinAttempt

LEMMA BuiltMoves ==
    ASSUME Inv, CheckInv, Built
    PROVE  CheckInv'
  <1>1. check.at = "open" /\ CheckKeeps
        /\ check' = [check EXCEPT !.at = "generation", !.asSkeleton = {}, !.removed = {}, !.built = {}]
    BY DEF Built
  <1>2. View' = View
    BY <1>1, CheckSees
  <1>3. CheckTyped'
    BY <1>1 DEF CheckInv, CheckTyped, CheckSteps
  <1>4. /\ check'.at = "generation" /\ check'.before = check.before
        /\ check'.first = check.first /\ check'.attempt = check.attempt
        /\ check'.verdict = check.verdict
    BY <1>1 DEF CheckInv, CheckTyped
  <1>5. Fresh => Fresh'
    BY <1>1, <1>2, <1>4 DEF Fresh
  <1> QED BY <1>1, <1>3, <1>4, <1>5, WithinAttempt

LEMMA CompareMoves ==
    ASSUME Inv, CheckInv, Compare
    PROVE  CheckInv'
  <1>1. check.at = "compare" /\ CheckKeeps
    BY DEF Compare
  <1>2. /\ Marker' = Marker /\ Marker \in Int
        /\ check.attempt \in 1 .. Attempts /\ Attempts \in Nat /\ check.first \in Nat
    BY <1>1, CheckSees, ViewIs, RemovalAssumption DEF CheckInv, CheckTyped, CheckMoves
  <1>3. CASE check.read = check.before
    <2>1. check' = [NoCheck EXCEPT !.verdict = IF check.problem THEN "damaged" ELSE "sound"]
      BY <1>3 DEF Compare
    <2>2. CheckTyped'
      BY <2>1 DEF CheckTyped, CheckSteps, Verdicts, Views, NoCheck, Unread
    <2>3. check'.at = "done" /\ check'.verdict # "inconclusive"
      BY <2>1 DEF NoCheck
    <2> QED BY <2>2, <2>3 DEF CheckInv, CheckMoves
  <1>4. CASE check.read # check.before
    <2>1. Marker > Low
      BY <1>1, <1>4 DEF CheckInv, CheckMoves, Fresh
    <2>2. CASE check.attempt = Attempts
      <3>1. check' = [NoCheck EXCEPT !.first = check.first, !.verdict = "inconclusive"]
        <4>1. ~(check.attempt < Attempts)
          BY <1>2, <2>2
        <4> QED BY <1>4, <2>2, <4>1 DEF Compare
      <3>2. CheckTyped'
        BY <1>2, <3>1 DEF CheckTyped, CheckSteps, Verdicts, Views, NoCheck, Unread
      <3>3. check'.at = "done" /\ check'.first = check.first
        BY <3>1 DEF NoCheck
      <3>4. Marker >= 2 * check.first + Attempts - 1
        BY <1>2, <2>1, <2>2 DEF Low
      <3> QED BY <1>2, <3>2, <3>3, <3>4 DEF CheckInv, CheckMoves
    <2>3. CASE check.attempt < Attempts
      <3>1. check' = [NoCheck EXCEPT !.at = "generation", !.first = check.first,
                                     !.attempt = check.attempt + 1]
        <4>1. check.attempt # Attempts
          BY <1>2, <2>3
        <4> QED BY <1>4, <2>3, <4>1 DEF Compare
      <3>2. CheckTyped'
        <4>1. check.attempt + 1 \in Nat
          BY <1>2
        <4>2. PICK n \in Nat : n = check.attempt + 1
          BY <4>1
        <4>3. check' = [NoCheck EXCEPT !.at = "generation", !.first = check.first, !.attempt = n]
          BY <3>1, <4>2
        <4> QED BY <1>2, <4>3 DEF CheckTyped, CheckSteps, Verdicts, Views, NoCheck, Unread
      <3>3. /\ check'.at = "generation" /\ check'.first = check.first /\ check'.next = "list"
            /\ check'.attempt = check.attempt + 1 /\ check'.verdict = "none"
        BY <3>1 DEF NoCheck
      <3>4. Marker >= Low' /\ check'.attempt \in 1 .. Attempts
        BY <1>2, <2>1, <2>3, <3>3 DEF Low
      <3>5. Fresh'
        BY <3>3 DEF Fresh
      <3> QED BY <1>2, <3>2, <3>3, <3>4, <3>5 DEF CheckInv, CheckMoves
    <2> QED BY <1>2, <2>2, <2>3
  <1> QED BY <1>3, <1>4

LEMMA OnlyChecks ==
    ASSUME [Next]_vars, ~PowerLoss, ~Check
    PROVE  UNCHANGED check
  <1>1. CASE Pass
    BY <1>1 DEF Pass, StartPass, NothingToRecover, Recover, Land, PieceNotKept, Parse,
                NothingToRemove, KeepTip, SaveIntent, SavePhase, SaveGeneration, SyncDeleted,
                RemoveIntent, WriteSkeleton, SkeletonCutShort, Delete, ReclaimTips, ReclaimPieces
  <1>2. CASE Stop \/ Fails \/ JudgeStart \/ JudgeEnd \/ UNCHANGED vars
    BY <1>2 DEF Stop, Fails, JudgeStart, JudgeEnd, vars
  <1> QED BY <1>1, <1>2 DEF Next

LEMMA CheckMovesOn ==
    ASSUME Inv, Inv', StoreInv, OrderInv, CheckInv, [Next]_vars
    PROVE  CheckInv'
  <1>1. CASE PowerLoss
    <2>1. check' = NoCheck
      BY <1>1 DEF PowerLoss
    <2> QED BY <2>1 DEF NoCheck, Unread, CheckInv, CheckTyped, CheckMoves, CheckSteps, Verdicts, Views
  <1>2. CASE Check
    BY <1>2, StartCheckMoves, ReadGenerationMoves, LookForIntentMoves, LoadIntentMoves, ListMoves,
       OpenMoves, BuildMoves, BuiltMoves, CompareMoves DEF Check
  <1>3. CASE ~PowerLoss /\ ~Check
    <2>1. MovesOn
      BY <1>3, ViewMoves
    <2>2. UNCHANGED check
      BY <1>3, OnlyChecks
    <2> QED BY <2>1, <2>2, ElsewhereCheck
  <1> QED BY <1>1, <1>2, <1>3

LEMMA CheckInvariance == Spec /\ []NoneStranded /\ LossesInOrder => []CheckInv
  <1>1. Init => CheckInv
    BY InitCheck
  <1>2. Inv /\ Inv' /\ StoreInv /\ OrderInv /\ CheckInv /\ [Next]_vars => CheckInv'
    BY CheckMovesOn
  <1> QED BY <1>1, <1>2, Invariance, StoreInvariance, OrderInvariance, PTL DEF Spec

\* scanAttempts of a run of asz verify, in whatever instance: with four attempts
\* or more it ends inconclusive only when two removals began while it ran, so
\* that a session's removals, a retention apart, never keep it from an answer.
\* It is so in every run in which no sync that fails strands a deletion or its
\* intent, and no loss of power takes back what a generation was given by.
THEOREM FourAttempts ==
    ASSUME Attempts >= 4
    PROVE  Spec /\ []NoneStranded /\ LossesInOrder => []Conclusive
  <1>1. Inv /\ CheckInv => Conclusive
    <2> SUFFICES ASSUME Inv, CheckInv, check.verdict = "inconclusive"
                 PROVE  Latest >= check.first + 2
      BY DEF Conclusive
    <2>1. check.at = "done" /\ check.first \in Nat /\ Attempts \in Nat
      BY RemovalAssumption DEF CheckInv, CheckMoves, CheckTyped
    <2>2. Marker >= 2 * check.first + Attempts - 1
      BY <2>1 DEF CheckInv, CheckMoves
    <2>3. Latest \in Nat /\ Marker \in Int /\ Marker <= 2 * Latest
      BY ViewIs DEF Marker
    <2> QED BY <2>1, <2>2, <2>3
  <1> QED BY <1>1, Invariance, CheckInvariance, PTL

-----------------------------------------------------------------------------
(***************************************************************************)
(* No false damage.  While the session shows one removal, or none since    *)
(* one, what asz verify rebuilds there is to rebuild from, whatever of it  *)
(* the removal deletes meanwhile.                                          *)
(***************************************************************************)

\* What is landed is a last part of the session, and the store keeps what it is
\* built from of the part before.
Intact ==
    \E b \in 0 .. Top :
        /\ \A s \in 1 .. b : ~IsLanded(s)
        /\ \A s \in b + 1 .. Top :
              IsLanded(s) /\ (body[s].cites \in 1 .. b => piece[body[s].cites].now)
        /\ b # 0 => HasTip(b)

\* A view that was read once is not above what the disk shows; it lasts while
\* the disk shows its generation, and while it lasts there is nothing that the
\* removal could take from a check but what the view names.
Floor(v) ==
    IF v.inProgress THEN Marker >= 2 * v.generation - 1
    ELSE state.now >= v.generation /\ (state.now = v.generation => Marker >= 2 * v.generation)
Lasts(v) ==
    IF v.inProgress THEN Marker = 2 * v.generation - 1 ELSE state.now = v.generation
Within(v) == IF v.inProgress THEN View = v ELSE Intact
Holds(v) == Floor(v) /\ (Lasts(v) => Within(v))

LEMMA ShowsNow ==
    ASSUME Inv, NEW s \in Seqs
    PROVE  /\ landed[s].now \in landed[s].may /\ piece[s].now \in piece[s].may
           /\ \A g \in Gens : tip[g][s].now \in tip[g][s].may
  BY DEF Inv, DiskInv, DirsTyped, StoreTyped, Names

\* It is intact with no removal under way, and where bodies landed after the
\* files that one removes: those are all gone.
LEMMA RestIsIntact ==
    ASSUME Inv, StoreInv, ~Removing \/ intent.now.through # Top
    PROVE  Intact
  <1>1. Top \in Nat /\ 1 .. Top \subseteq Seqs /\ intent.now \in intent.may
    BY Held
  <1>2. PICK b \in 0 .. Top : EndsAt(intent.now, b)
    BY <1>1 DEF StoreInv, StoreDisk, Bounded
  <1>3. AllLost(b)
    <2>1. Removing => b = intent.now.through
      BY <1>2 DEF EndsAt, Removing
    <2>2. Removing => b < Top
      BY <1>1, <2>1
    <2> QED BY <1>2, <2>2 DEF EndsAt, Removing
  <1>4. ASSUME NEW s \in 1 .. b PROVE ~IsLanded(s)
    <2>1. s \in Seqs
      BY <1>1
    <2> QED BY <1>3, <2>1, ShowsNow DEF AllLost, Lost, IsLanded
  <1>5. ASSUME NEW s \in b + 1 .. Top
        PROVE  IsLanded(s) /\ (body[s].cites \in 1 .. b => piece[body[s].cites].now)
    <2>1. IsLanded(s) /\ (body[s].cites \in 1 .. b => PieceKept(body[s].cites))
      BY <1>2 DEF EndsAt, Cut
    <2>2. ASSUME body[s].cites \in 1 .. b PROVE piece[body[s].cites].now
      <3>1. body[s].cites \in Seqs
        BY <1>1, <2>2
      <3> QED BY <2>1, <2>2, <3>1, ShowsNow DEF PieceKept
    <2> QED BY <2>1, <2>2
  <1>6. b # 0 => HasTip(b)
    <2> SUFFICES ASSUME b # 0 PROVE HasTip(b)
      OBVIOUS
    <2>1. PICK g \in Gens : TipKept(g, b)
      BY <1>2 DEF EndsAt
    <2>2. b \in Seqs
      BY <1>1
    <2> QED BY <2>1, <2>2, ShowsNow DEF TipKept, HasTip
  <1> QED BY <1>4, <1>5, <1>6 DEF Intact

\* The files there are, and what the store holds, are there still.
Steady ==
    /\ UNCHANGED body
    /\ \A s \in Seqs : /\ landed'[s].now = landed[s].now
                       /\ piece[s].now => piece'[s].now
                       /\ \A g \in Gens : tip[g][s].now => tip'[g][s].now

LEMMA WrittenStays ==
    ASSUME NEW f \in [Seqs -> Names(BOOLEAN)], NEW c \in Seqs, NEW o \in Outcomes
    PROVE  LET w == EachSynced(o, [f EXCEPT ![c] = Written(@, TRUE)])
           IN  \A s \in Seqs : f[s].now => w[s].now
  <1> DEFINE v == [f EXCEPT ![c] = Written(@, TRUE)]
  <1>1. Written(f[c], TRUE) \in Names(BOOLEAN) /\ Written(f[c], TRUE).now = TRUE
    <2>1. f[c].may \subseteq BOOLEAN
      BY DEF Names, Disk
    <2> QED BY <2>1 DEF Written, Names, Disk
  <1>2. v \in [Seqs -> Names(BOOLEAN)] /\ \A s \in Seqs : f[s].now => v[s].now
    BY <1>1
  <1> HIDE DEF v
  <1>3. \A s \in Seqs : EachSynced(o, v)[s].now = v[s].now
    BY <1>2, EachSyncedNames
  <1> QED BY <1>2, <1>3 DEF v

LEMMA KeepTipSteady ==
    ASSUME Inv, NEW o \in Outcomes, NEW n \in 0 .. 2, KeepTip(o, n)
    PROVE  Steady
  <1> PICK g : g = NextGeneration
    OBVIOUS
  <1> PICK w : w = EachSynced(o, [tip[g] EXCEPT ![Top] = Written(@, TRUE)])
    OBVIOUS
  <1>1. /\ g \in Gens /\ Removable /\ ParentsSync(o, n) /\ UNCHANGED <<body, landed, skeleton, piece>>
        /\ tip' = [[tip EXCEPT ![g][Top] = Written(@, TRUE)] EXCEPT
                   ![g] = EachSynced(o, [tip EXCEPT ![g][Top] = Written(@, TRUE)][g])]
    BY DEF KeepTip
  <1>2. Top \in Seqs /\ tip \in [Gens -> [Seqs -> Names(BOOLEAN)]]
    BY <1>1, TopIsSeq DEF Inv, DiskInv, StoreTyped, Removable
  <1>3. tip' = [tip EXCEPT ![g] = w]
    <2>1. [tip EXCEPT ![g][Top] = Written(@, TRUE)][g] = [tip[g] EXCEPT ![Top] = Written(@, TRUE)]
      BY <1>1, <1>2
    <2> QED BY <1>1, <1>2, <2>1
  <1>4. \A s \in Seqs : tip[g][s].now => w[s].now
    <2>1. tip[g] \in [Seqs -> Names(BOOLEAN)]
      BY <1>1, <1>2
    <2> QED BY <1>2, <2>1, WrittenStays
  <1>5. Calm
    BY <1>1, ParentsCalm DEF Inv
  <1> QED BY <1>1, <1>2, <1>3, <1>4, <1>5 DEF Steady, Calm

LEMMA PieceNotKeptSteady ==
    ASSUME Inv, NEW base \in 0 .. MaxSeq, NEW cites \in 0 .. MaxSeq, NEW o \in Outcomes,
           NEW n \in 0 .. 1, PieceNotKept(base, cites, o, n)
    PROVE  Steady
  <1>1. /\ ParentsSync(o, n) /\ UNCHANGED <<body, landed, skeleton, tip>>
        /\ piece' = EachSynced(o, [piece EXCEPT ![cites] = Written(@, TRUE)])
    BY DEF PieceNotKept
  <1>2. cites \in Seqs /\ piece \in [Seqs -> Names(BOOLEAN)]
    BY RemovalAssumption DEF PieceNotKept, MustKeep, Seqs, Inv, StoreTyped
  <1>3. \A s \in Seqs : piece[s].now => piece'[s].now
    BY <1>1, <1>2, WrittenStays
  <1>4. Calm
    BY <1>1, ParentsCalm DEF Inv
  <1> QED BY <1>1, <1>3, <1>4 DEF Steady, Calm

\* Only a body that lands, a file deleted and what is reclaimed do more.
LEMMA OthersSteady ==
    ASSUME Inv, [Next]_vars, ~PowerLoss, ~ReclaimTips, ~ReclaimPieces,
           ~\E base, cites \in 0 .. MaxSeq : Land(base, cites),
           ~\E s \in Seqs : Delete(s)
    PROVE  Steady
  <1>1. ASSUME UNCHANGED <<body, landed, tip, piece>> PROVE Steady
    BY <1>1 DEF Steady
  <1>2. CASE Pass
    <2>1. CASE StartPass \/ NothingToRecover \/ Recover \/ Parse \/ NothingToRemove
      BY <1>1, <2>1 DEF StartPass, NothingToRecover, Recover, Parse, NothingToRemove, disk
    <2>2. CASE \E base, cites \in 0 .. MaxSeq, o \in Outcomes, n \in 0 .. 1 : PieceNotKept(base, cites, o, n)
      BY <2>2, PieceNotKeptSteady
    <2>3. CASE \E o \in Outcomes, n \in 0 .. 2 : KeepTip(o, n)
      BY <2>3, KeepTipSteady
    <2>4. CASE \E o \in Outcomes : SaveIntent(o) \/ SavePhase(o) \/ SaveGeneration(o) \/ RemoveIntent(o)
      BY <1>1, <2>4 DEF SaveIntent, SavePhase, SaveGeneration, RemoveIntent
    <2>5. ASSUME NEW o \in Outcomes, SyncDeleted(o) PROVE Steady
      <3>1. /\ ProviderSync(o, landed, skeleton) /\ UNCHANGED <<body, tip, piece>>
            /\ landed \in [Seqs -> Names(BOOLEAN)] /\ skeleton \in [Seqs -> Names(Skeletons)]
        BY <2>5 DEF SyncDeleted, Inv, DiskInv, DirsTyped
      <3> QED BY <3>1, ProviderSynced DEF Steady
    <2>6. ASSUME NEW s \in Seqs, NEW o \in Outcomes, WriteSkeleton(s, o) PROVE Steady
      <3>1. landed' = EachSynced(o, landed) /\ UNCHANGED <<body, tip, piece>>
            /\ landed \in [Seqs -> Names(BOOLEAN)]
        BY <2>6 DEF WriteSkeleton, ProviderSync, Inv, DiskInv, DirsTyped
      <3> QED BY <3>1, EachSyncedNames DEF Steady
    <2>7. CASE \E s \in Seqs, left \in {Absent, Reserved} : SkeletonCutShort(s, left)
      BY <1>1, <2>7 DEF SkeletonCutShort
    <2> QED BY <1>2, <2>1, <2>2, <2>3, <2>4, <2>5, <2>6, <2>7 DEF Pass
  <1>3. CASE Check
    <2>1. CheckKeeps
      BY <1>3 DEF Check, StartCheck, ReadGeneration, LookForIntent, LoadIntent, List, Open, Build,
                  Built, Compare
    <2> QED BY <1>1, <2>1 DEF CheckKeeps, disk
  <1>4. CASE Stop \/ Fails \/ JudgeStart \/ JudgeEnd \/ UNCHANGED vars
    BY <1>1, <1>4 DEF Stop, Fails, JudgeStart, JudgeEnd, vars, disk
  <1> QED BY <1>2, <1>3, <1>4 DEF Next

\* A removal that deletes has saved its generation.
LEMMA DeletingShows ==
    ASSUME Inv, StoreInv, OrderInv, (\E s \in Seqs : Delete(s)) \/ ReclaimTips \/ ReclaimPieces
    PROVE  /\ Removing /\ state.now = intent.now.generation /\ Marker = 2 * state.now - 1
           /\ job.through = intent.now.through /\ EndsAt(intent.now, job.through)
           /\ UNCHANGED <<intent, body>>
  <1>1. job.at \in Finishing \ {"generation"} /\ UNCHANGED <<intent, body>>
    BY DEF Delete, ReclaimTips, ReclaimPieces, Finishing
  <1>2. /\ Removing /\ intent.now.generation = job.generation /\ state.now = job.generation
        /\ intent.now.through = job.through /\ EndsAt(intent.now, job.through)
    BY <1>1, Deleting DEF OrderInv, JobOrder
  <1> QED BY <1>1, <1>2 DEF Marker, Latest

\* The files of the session come only at its end.
LEMMA FilesGo ==
    ASSUME Inv, StoreInv, [Next]_vars, ~PowerLoss
    PROVE  /\ Top \in Nat /\ Top' \in Nat /\ Top' >= Top
           /\ Removing => Top' = Top
           /\ \A s \in 1 .. Top : IsLanded(s)' => IsLanded(s)
           /\ (~\E s \in Seqs : Delete(s)) => \A s \in 1 .. Top : IsLanded(s)' = IsLanded(s)
  <1>1. Top \in Nat /\ 1 .. Top \subseteq Seqs
    BY Held
  <1>2. CASE \E base, cites \in 0 .. MaxSeq : Land(base, cites)
    <2>1. PICK base \in 0 .. MaxSeq, cites \in 0 .. MaxSeq : Land(base, cites)
      BY <1>2
    <2>2. body' = Append(body, [base |-> base, cites |-> cites]) /\ ~Removing
          /\ body \in Seq(Bodies) /\ [base |-> base, cites |-> cites] \in Bodies
      BY <2>1 DEF Land, MayLand, Inv, DiskInv, RestTyped, Bodies
    <2>3. Top' = Top + 1
      BY <2>2, AppendProperties DEF Top
    <2>4. ASSUME NEW s \in 1 .. Top PROVE IsLanded(s)' = IsLanded(s)
      <3>1. s \in Seqs \ {Top + 1}
        BY <1>1
      <3>2. \A r \in Seqs \ {Top + 1} : landed'[r].now = landed[r].now
        BY <2>1, LandedStore
      <3> QED BY <3>1, <3>2 DEF IsLanded
    <2> QED BY <1>1, <2>2, <2>3, <2>4
  <1>3. CASE \E s \in Seqs : Delete(s)
    <2>1. PICK s \in Seqs : Delete(s)
      BY <1>3
    <2>2. Top' = Top /\ (landed' = landed \/ landed' = [landed EXCEPT ![s] = Written(@, FALSE)])
      BY <2>1 DEF Delete, Top
    <2>3. landed \in [Seqs -> Names(BOOLEAN)] /\ Written(landed[s], FALSE).now = FALSE
      BY DEF Inv, DiskInv, DirsTyped, Written
    <2>4. \A r \in 1 .. Top : landed'[r].now => landed[r].now
      BY <1>1, <2>2, <2>3
    <2>5. \A r \in 1 .. Top : IsLanded(r)' => IsLanded(r)
      BY <2>4 DEF IsLanded
    <2> QED BY <1>1, <1>3, <2>2, <2>5
  <1>4. CASE ReclaimTips \/ ReclaimPieces
    <2>1. landed' = landed /\ Top' = Top
      BY <1>4 DEF ReclaimTips, ReclaimPieces, Top
    <2>2. \A s \in 1 .. Top : IsLanded(s)' = IsLanded(s)
      BY <2>1 DEF IsLanded
    <2> QED BY <1>1, <2>1, <2>2
  <1>5. CASE /\ ~\E base, cites \in 0 .. MaxSeq : Land(base, cites)
             /\ ~(\E s \in Seqs : Delete(s)) /\ ~ReclaimTips /\ ~ReclaimPieces
    <2>1. Steady
      BY <1>5, OthersSteady
    <2> QED BY <1>1, <2>1 DEF Steady, IsLanded, Top
  <1> QED BY <1>2, <1>3, <1>4, <1>5

LEMMA RestIntactNow == Inv /\ StoreInv /\ ~Removing => Intact
  BY RestIsIntact

LEMMA RestIntact == Inv' /\ StoreInv' /\ ~Removing' => Intact'
  BY RestIntactNow, PTL

\* What is intact stays so while the state shows no other generation.
LEMMA IntactStays ==
    ASSUME Inv, Inv', StoreInv, StoreInv', OrderInv, [Next]_vars, ~PowerLoss,
           Intact, state'.now = state.now, Marker >= 2 * state.now
    PROVE  Intact'
  <1>1. CASE ~Removing'
    BY <1>1, RestIntact
  <1>2. CASE Removing'
    <2>1. ~ReclaimTips /\ ~ReclaimPieces /\ ~\E s \in Seqs : Delete(s)
      <3>1. state.now \in Nat
        BY Held DEF Gens
      <3> QED BY <3>1, DeletingShows
    <2>2. ~\E base, cites \in 0 .. MaxSeq : Land(base, cites)
      <3> SUFFICES ASSUME NEW base \in 0 .. MaxSeq, NEW cites \in 0 .. MaxSeq, Land(base, cites)
                   PROVE  FALSE
        OBVIOUS
      <3>1. ~Removing /\ intent'.now = intent.now
        BY LandedStore DEF Land, MayLand
      <3> QED BY <1>2, <3>1 DEF Removing
    <2>3. Steady /\ Top' = Top
      BY <2>1, <2>2, OthersSteady DEF Steady, Top
    <2>4. PICK b \in 0 .. Top :
              /\ \A s \in 1 .. b : ~IsLanded(s)
              /\ \A s \in b + 1 .. Top :
                    IsLanded(s) /\ (body[s].cites \in 1 .. b => piece[body[s].cites].now)
              /\ b # 0 => HasTip(b)
      BY DEF Intact
    <2>5. Top \in Nat /\ 1 .. Top \subseteq Seqs
      BY Held
    <2>6. \A s \in 1 .. b : ~IsLanded(s)'
      BY <2>3, <2>4, <2>5 DEF Steady, IsLanded
    <2>7. ASSUME NEW s \in b + 1 .. Top
          PROVE  IsLanded(s)' /\ (body'[s].cites \in 1 .. b => piece'[body'[s].cites].now)
      <3>1. IsLanded(s) /\ s \in Seqs /\ body' = body
        BY <2>3, <2>4, <2>5 DEF Steady
      <3>2. IsLanded(s)'
        BY <2>3, <3>1 DEF Steady, IsLanded
      <3>3. ASSUME body[s].cites \in 1 .. b PROVE piece'[body[s].cites].now
        <4>1. piece[body[s].cites].now /\ body[s].cites \in Seqs
          BY <2>4, <2>5, <3>3
        <4> QED BY <2>3, <4>1 DEF Steady
      <3> QED BY <3>1, <3>2, <3>3
    <2>8. b # 0 => HasTip(b)'
      BY <2>3, <2>4, <2>5 DEF Steady, HasTip
    <2>9. \E d \in 0 .. Top' :
              /\ \A s \in 1 .. d : ~IsLanded(s)'
              /\ \A s \in d + 1 .. Top' :
                    IsLanded(s)' /\ (body'[s].cites \in 1 .. d => piece'[body'[s].cites].now)
              /\ d # 0 => HasTip(d)'
      BY <2>3, <2>6, <2>7, <2>8
    <2> QED BY <2>9 DEF Intact
  <1> QED BY <1>1, <1>2

\* The disk's steps take back no view that was read.
LEMMA FloorStays ==
    ASSUME Inv, Inv', StoreInv, OrderInv, [Next]_vars, ~PowerLoss, NEW v \in Views, Floor(v)
    PROVE  Floor(v)' /\ (Lasts(v)' => Lasts(v))
  <1>1. MovesOn /\ state'.now >= state.now
    BY ViewMoves
  <1>2. Marker \in Int /\ Marker' \in Int /\ Marker' >= Marker
    BY <1>1, ViewShows, ViewShowsNext DEF Shows, MovesOn
  <1>3. state.now \in Nat /\ state'.now \in Nat /\ v.generation \in Nat
    <2>1. state.now \in {0} \cup Gens /\ state'.now \in {0} \cup Gens
      BY DEF Inv, DiskInv, DirsTyped, Names, Disk
    <2> QED BY <2>1 DEF Gens, Views
  <1>4. CASE v.inProgress
    BY <1>2, <1>3, <1>4 DEF Floor, Lasts
  <1>5. CASE ~v.inProgress
    BY <1>1, <1>2, <1>3, <1>5 DEF Floor, Lasts
  <1> QED BY <1>4, <1>5

LEMMA HoldsStays ==
    ASSUME Inv, Inv', StoreInv, StoreInv', OrderInv, [Next]_vars, ~PowerLoss,
           NEW v \in Views, Holds(v)
    PROVE  Holds(v)'
  <1>1. Floor(v)' /\ (Lasts(v)' => Lasts(v))
    BY FloorStays DEF Holds
  <1>2. ASSUME Lasts(v)' PROVE Within(v)'
    <2>1. Lasts(v) /\ Within(v) /\ Floor(v)
      BY <1>1, <1>2 DEF Holds
    <2>2. CASE v.inProgress
      <3>1. Marker' = Marker /\ View = v
        BY <1>2, <2>1, <2>2 DEF Lasts, Within
      <3>2. View' = View
        BY <3>1, ViewMoves, ViewShows DEF MovesOn, Shows
      <3> QED BY <2>2, <3>1, <3>2 DEF Within
    <2>3. CASE ~v.inProgress
      <3>1. Intact /\ state'.now = state.now /\ Marker >= 2 * state.now
        BY <1>2, <2>1, <2>3 DEF Lasts, Within, Floor
      <3>2. Intact'
        BY <3>1, IntactStays
      <3> QED BY <2>3, <3>2 DEF Within
    <2> QED BY <2>2, <2>3
  <1> QED BY <1>1, <1>2 DEF Holds

\* What a check has walked, of what the removal leaves it, is still as it was.
LEMMA FilesStay ==
    ASSUME Inv, Inv', StoreInv, OrderInv, [Next]_vars, ~PowerLoss,
           NEW v \in Views, Floor(v), Lasts(v), Within(v)
    PROVE  /\ v.inProgress => Top' = Top
           /\ (v.inProgress /\ v.through = Top) \/ \A s \in 1 .. Top : IsLanded(s)' = IsLanded(s)
  <1>1. v.inProgress => View = v /\ Removing
    <2>1. v.inProgress => View = v
      BY DEF Within
    <2> QED BY <2>1, ViewShows DEF Shows
  <1>2. v.inProgress => Top' = Top
    BY <1>1, FilesGo
  <1>3. ASSUME ~(v.inProgress /\ v.through = Top), NEW s \in Seqs, Delete(s) PROVE FALSE
    <2>1. /\ Removing /\ state.now = intent.now.generation /\ Marker = 2 * state.now - 1
          /\ job.through = intent.now.through /\ EndsAt(intent.now, job.through)
      BY <1>3, DeletingShows
    <2>2. v.inProgress
      <3>1. state.now \in Nat
        BY Held DEF Gens
      <3> QED BY <2>1, <3>1 DEF Floor, Lasts
    <2>3. job.through = v.through
      BY <1>1, <2>1, <2>2 DEF View
    <2>4. v.through # Top /\ job.through \in 1 .. Top /\ Top \in Nat
      <3>1. job.at \in Finishing \ {"generation"}
        BY <1>3 DEF Delete, Finishing
      <3> QED BY <1>3, <2>2, <3>1, Deleting, Held
    <2>5. AllLost(job.through)
      BY <2>1, <2>3, <2>4 DEF EndsAt
    <2>6. s \in 1 .. job.through /\ IsLanded(s)
      BY <1>3, <2>4 DEF Delete, First, Left, Seqs
    <2> QED BY <2>5, <2>6, ShowsNow DEF AllLost, Lost, IsLanded
  <1>4. ASSUME ~(v.inProgress /\ v.through = Top)
        PROVE  \A s \in 1 .. Top : IsLanded(s)' = IsLanded(s)
    <2>1. ~\E s \in Seqs : Delete(s)
      BY <1>3, <1>4
    <2> QED BY <2>1, FilesGo
  <1> QED BY <1>2, <1>4

-----------------------------------------------------------------------------
(***************************************************************************)
(* The run of asz verify, step by step.                                    *)
(***************************************************************************)

\* The bodies a check has yet to come to, and those before them.
Walk ==
    /\ \A s \in check.listed : \A r \in 1 .. s - 1 :
          r \in check.listed \/ (IF IsLanded(r) THEN r \in check.built ELSE r \in check.removed)
    /\ \A s \in check.removed : s \in 1 .. Top /\ ~IsLanded(s)
    /\ check.at = "build" => IsLanded(Least(check.listed))

Phased ==
    /\ check.at \in {"open", "build", "compare"} => check.next = "compare"
    /\ check.at \in {"list", "done"} => check.next = "list"

\* The view a check reads before it lists the files.
FirstRead ==
    /\ check.next = "list" /\ check.at = "look" => state.now >= check.read.generation
    /\ check.next = "list" /\ check.at = "load" /\ ~check.read.inProgress => Holds(check.read)
    /\ check.at = "list" => Holds(check.read)

\* No body fails to build while that view lasts, but one the removal in it takes.
NoProblem ==
    /\ check.next = "compare" =>
          Floor(check.before) /\ (Lasts(check.before) => ~check.problem)
    /\ /\ check.next = "compare" /\ check.at \in {"look", "load"} /\ ~check.before.inProgress
       /\ check.read.generation = check.before.generation
       => ~check.problem
    /\ check.at = "compare" /\ check.read = check.before => ~check.problem
    /\ check.verdict # "damaged"

Walking ==
    check.at \in {"open", "build"} =>
        /\ check.listed \subseteq 1 .. Top
        /\ \A s \in check.asSkeleton : s \in 1 .. Top /\ ~IsLanded(s)
        /\ Lasts(check.before) =>
              /\ Within(check.before)
              /\ (check.before.inProgress /\ check.before.through = Top) \/ Walk

DamageInv == Phased /\ FirstRead /\ NoProblem /\ Walking

\* A check that begins, or begins again, has found nothing.
LEMMA NothingFound ==
    ASSUME check.next = "list", check.at \in {"done", "generation"}, check.verdict # "damaged"
    PROVE  DamageInv
  BY DEF DamageInv, Phased, FirstRead, NoProblem, Walking

LEMMA NothingFoundNext ==
    check'.next = "list" /\ check'.at \in {"done", "generation"} /\ check'.verdict # "damaged"
        => DamageInv'
  BY DEF DamageInv, Phased, FirstRead, NoProblem, Walking

\* The steps of the pipeline.
LEMMA ElsewhereDamage ==
    ASSUME Inv, Inv', StoreInv, StoreInv', OrderInv, CheckInv, DamageInv, [Next]_vars, ~PowerLoss,
           UNCHANGED check
    PROVE  DamageInv'
  <1> PICK v : v = check.before
    OBVIOUS
  <1> PICK u : u = check.read
    OBVIOUS
  <1>1. v \in Views /\ u \in Views /\ check'.before = v /\ check'.read = u
    BY CheckIs
  <1>2. Phased'
    BY DEF DamageInv, Phased
  <1>3. FirstRead'
    <2>1. check.next = "list" /\ check.at = "look" => state'.now >= u.generation
      <3>1. state'.now >= state.now
        BY ViewMoves
      <3>2. state.now \in Nat /\ state'.now \in Nat /\ u.generation \in Nat
        <4>1. state.now \in {0} \cup Gens /\ state'.now \in {0} \cup Gens
          BY DEF Inv, DiskInv, DirsTyped, Names, Disk
        <4> QED BY <1>1, <4>1 DEF Gens, Views
      <3> QED BY <3>1, <3>2 DEF DamageInv, FirstRead
    <2>2. Holds(u) => Holds(u)'
      BY <1>1, HoldsStays
    <2>3. check.next = "list" /\ check.at = "load" /\ ~u.inProgress => Holds(u)'
      BY <2>2 DEF DamageInv, FirstRead
    <2>4. check.at = "list" => Holds(u)'
      BY <2>2 DEF DamageInv, FirstRead
    <2>5. Holds(check.read)' <=> Holds(u)'
      BY <1>1 DEF Holds, Floor, Lasts, Within
    <2> QED BY <1>1, <2>1, <2>3, <2>4, <2>5 DEF FirstRead
  <1>4. Floor(v) => Floor(v)' /\ (Lasts(v)' => Lasts(v))
    BY <1>1, FloorStays
  <1>5. /\ Floor(check.before)' <=> Floor(v)'
        /\ Lasts(check.before)' <=> Lasts(v)'
        /\ Within(check.before)' <=> Within(v)'
    BY <1>1 DEF Floor, Lasts, Within
  <1>6. NoProblem'
    <2>1. check.next = "compare" => Floor(v)' /\ (Lasts(v)' => ~check.problem)
      BY <1>4 DEF DamageInv, NoProblem
    <2>2. check'.next = "compare" =>
              Floor(check.before)' /\ (Lasts(check.before)' => ~check'.problem)
      BY <1>5, <2>1
    <2> QED BY <2>2 DEF DamageInv, NoProblem
  <1>7. Walking'
    <2> SUFFICES ASSUME check.at \in {"open", "build"}
                 PROVE  /\ check.listed \subseteq 1 .. Top'
                        /\ \A s \in check.asSkeleton : s \in 1 .. Top' /\ ~IsLanded(s)'
                        /\ Lasts(v)' =>
                              /\ Within(v)'
                              /\ (v.inProgress /\ v.through = Top') \/ Walk'
      BY <1>1, <1>5 DEF Walking
    <2>1. /\ Top \in Nat /\ Top' \in Nat /\ Top' >= Top
          /\ \A s \in 1 .. Top : IsLanded(s)' => IsLanded(s)
      BY FilesGo
    <2>2. /\ check.listed \subseteq 1 .. Top /\ Floor(v)
          /\ \A s \in check.asSkeleton : s \in 1 .. Top /\ ~IsLanded(s)
          /\ Lasts(v) => Within(v) /\ ((v.inProgress /\ v.through = Top) \/ Walk)
      BY DEF DamageInv, Walking, NoProblem, Phased
    <2>3. ASSUME Lasts(v)'
          PROVE  Within(v)' /\ ((v.inProgress /\ v.through = Top') \/ Walk')
      <3>1. Lasts(v) /\ Holds(v) /\ Within(v)
        BY <1>4, <2>2, <2>3 DEF Holds
      <3>2. Within(v)'
        BY <1>1, <2>3, <3>1, HoldsStays DEF Holds
      <3>3. CASE v.inProgress /\ v.through = Top
        BY <1>1, <2>2, <3>1, <3>2, <3>3, FilesStay
      <3>4. CASE ~(v.inProgress /\ v.through = Top)
        <4>1. Walk /\ \A s \in 1 .. Top : IsLanded(s)' = IsLanded(s)
          BY <1>1, <2>2, <3>1, <3>4, FilesStay
        <4>2. \A s \in check.listed : 1 .. s - 1 \subseteq 1 .. Top
          BY <2>1, <2>2
        <4>3. \A s \in check.listed : \A r \in 1 .. s - 1 :
                  r \in check.listed
                  \/ (IF IsLanded(r)' THEN r \in check.built ELSE r \in check.removed)
          BY <4>1, <4>2 DEF Walk
        <4>4. \A s \in check.removed : s \in 1 .. Top' /\ ~IsLanded(s)'
          BY <2>1, <4>1 DEF Walk
        <4>5. check.at = "build" => IsLanded(Least(check.listed))'
          <5> SUFFICES ASSUME check.at = "build" PROVE IsLanded(Least(check.listed))'
            OBVIOUS
          <5>1. Least(check.listed) \in 1 .. Top
            BY <2>2, LeastIn DEF CheckInv, CheckTyped
          <5> PICK s : s = Least(check.listed)
            OBVIOUS
          <5>2. IsLanded(s)'
            BY <4>1, <5>1 DEF Walk
          <5> QED BY <5>2
        <4>6. Walk'
          BY <4>3, <4>4, <4>5 DEF Walk
        <4> QED BY <3>2, <4>6
      <3> QED BY <3>3, <3>4
    <2> QED BY <2>1, <2>2, <2>3
  <1> QED BY <1>2, <1>3, <1>6, <1>7 DEF DamageInv

\* A step of the check leaves what the views say.
LEMMA CheckHolds ==
    ASSUME Inv, CheckKeeps, NEW v
    PROVE  /\ Floor(v)' <=> Floor(v)
           /\ Lasts(v)' <=> Lasts(v)
           /\ Within(v)' <=> Within(v)
           /\ Holds(v)' <=> Holds(v)
  <1>1. Marker' = Marker /\ View' = View
    BY CheckSees
  <1>2. UNCHANGED <<body, landed, state, tip, piece>>
    BY DEF CheckKeeps, disk
  <1>3. Intact' <=> Intact
    BY <1>2 DEF Intact, Top, IsLanded, HasTip
  <1> QED BY <1>1, <1>2, <1>3 DEF Holds, Floor, Lasts, Within

\* What a check has found, where it keeps what it went by.
LEMMA FindsNothing ==
    ASSUME Inv, NoProblem, CheckKeeps, check'.before = check.before, check'.next = check.next,
           check'.problem = check.problem
    PROVE  check'.next = "compare" =>
              Floor(check.before)' /\ (Lasts(check.before)' => ~check'.problem)
  <1> PICK v : v = check.before
    OBVIOUS
  <1>1. (Floor(v)' <=> Floor(v)) /\ (Lasts(v)' <=> Lasts(v))
    BY CheckHolds
  <1>2. (Floor(check.before)' <=> Floor(v)') /\ (Lasts(check.before)' <=> Lasts(v)')
    BY DEF Floor, Lasts
  <1> QED BY <1>1, <1>2 DEF NoProblem

LEMMA StartCheckDamage ==
    ASSUME StartCheck
    PROVE  DamageInv'
  <1>1. check'.next = "list" /\ check'.at = "generation" /\ check'.verdict # "damaged"
    BY DEF StartCheck, NoCheck
  <1> QED BY <1>1, NothingFoundNext

LEMMA ReadGenerationDamage ==
    ASSUME Inv, CheckInv, DamageInv, ReadGeneration
    PROVE  DamageInv'
  <1>1. /\ check.at = "generation" /\ CheckKeeps
        /\ check' = [check EXCEPT !.at = "look", !.read = [Unread EXCEPT !.generation = state.now]]
    BY DEF ReadGeneration
  <1>2. /\ check'.at = "look" /\ check'.next = check.next /\ check'.before = check.before
        /\ check'.problem = check.problem /\ check'.verdict = check.verdict
        /\ check'.read.generation = state.now
    BY <1>1 DEF CheckInv, CheckTyped, Unread
  <1>3. state' = state /\ state.now \in Nat
    BY <1>1, Held DEF CheckKeeps, disk, Gens
  <1>4. Phased' /\ FirstRead' /\ Walking'
    BY <1>2, <1>3 DEF Phased, FirstRead, Walking
  <1>5. check.next = "compare" /\ ~check.before.inProgress /\ state.now = check.before.generation
            => ~check.problem
    BY DEF DamageInv, NoProblem, Lasts
  <1>6. NoProblem'
    <2>1. check'.next = "compare" =>
              Floor(check.before)' /\ (Lasts(check.before)' => ~check'.problem)
      BY <1>1, <1>2, FindsNothing DEF DamageInv
    <2> QED BY <1>2, <1>5, <2>1 DEF NoProblem, DamageInv
  <1> QED BY <1>4, <1>6 DEF DamageInv

LEMMA LookForIntentDamage ==
    ASSUME Inv, StoreInv, CheckInv, DamageInv, LookForIntent
    PROVE  DamageInv'
  <1>1. /\ check.at = "look" /\ CheckKeeps /\ Removing \in BOOLEAN
        /\ check' = [check EXCEPT !.at = "load", !.read.inProgress = Removing]
    BY DEF LookForIntent, Removing
  <1>2. /\ check'.at = "load" /\ check'.next = check.next /\ check'.before = check.before
        /\ check'.problem = check.problem /\ check'.verdict = check.verdict
        /\ check'.read.generation = check.read.generation /\ check'.read.inProgress = Removing
    BY <1>1 DEF CheckInv, CheckTyped, Views
  <1> PICK u : u = check'.read
    OBVIOUS
  <1>3. check'.next = "list" /\ ~u.inProgress => Holds(u)
    <2> SUFFICES ASSUME check'.next = "list", ~u.inProgress PROVE Holds(u)
      OBVIOUS
    <2>1. ~Removing /\ state.now >= u.generation
      BY <1>1, <1>2 DEF DamageInv, FirstRead
    <2>2. Marker = 2 * state.now
      <3>1. state.now \in Nat
        BY Held DEF Gens
      <3> QED BY <2>1, <3>1 DEF Marker, Latest
    <2>3. Floor(u)
      BY <2>1, <2>2, <1>2, Held DEF Floor, Gens
    <2>4. Within(u)
      BY <2>1, RestIsIntact DEF Within
    <2> QED BY <2>3, <2>4 DEF Holds
  <1>4. Phased' /\ Walking'
    BY <1>2 DEF Phased, Walking
  <1>5. FirstRead'
    <2>1. check'.next = "list" /\ ~u.inProgress => Holds(u)'
      BY <1>1, <1>3, CheckHolds
    <2>2. Holds(check.read)' <=> Holds(u)'
      BY DEF Holds, Floor, Lasts, Within
    <2> QED BY <1>2, <2>1, <2>2 DEF FirstRead
  <1>6. NoProblem'
    <2>1. check'.next = "compare" =>
              Floor(check.before)' /\ (Lasts(check.before)' => ~check'.problem)
      BY <1>1, <1>2, FindsNothing DEF DamageInv
    <2> QED BY <1>1, <1>2, <2>1 DEF NoProblem, DamageInv
  <1> QED BY <1>4, <1>5, <1>6 DEF DamageInv

LEMMA LoadIntentDamage ==
    ASSUME Inv, StoreInv, CheckInv, DamageInv, LoadIntent
    PROVE  DamageInv'
  <1> PICK u : u = check'.read
    OBVIOUS
  <1>1. check.at = "load" /\ CheckKeeps
    BY DEF LoadIntent
  <1>2. /\ check'.next = check.next /\ check'.before = check.before
        /\ check'.problem = check.problem /\ check'.verdict = check.verdict
        /\ check'.at \in {"generation", check.next} /\ check.next \in {"list", "compare"}
    BY DEF LoadIntent, CheckInv, CheckTyped
  <1>3. Phased' /\ Walking'
    BY <1>2 DEF Phased, Walking
  <1>4. check'.at = "list" => Holds(u)
    <2>1. CASE Removing
      <3>1. u = View
        BY <2>1 DEF LoadIntent, View, CheckInv, CheckTyped
      <3>2. View.inProgress = TRUE /\ Marker = 2 * View.generation - 1 /\ Marker \in Int
        BY <2>1, ViewIs
      <3>3. Holds(View)
        BY <3>2 DEF Holds, Floor, Lasts, Within
      <3> QED BY <3>1, <3>3
    <2>2. CASE ~Removing
      <3>1. u = check.read /\ (check'.at = "list" => ~u.inProgress)
        BY <2>2 DEF LoadIntent, CheckInv, CheckTyped
      <3> QED BY <1>1, <1>2, <3>1 DEF DamageInv, FirstRead
    <2> QED BY <2>1, <2>2
  <1>5. FirstRead'
    <2>1. check'.at = "list" => Holds(u)'
      BY <1>1, <1>4, CheckHolds
    <2>2. Holds(check.read)' <=> Holds(u)'
      BY DEF Holds, Floor, Lasts, Within
    <2>3. check'.at \notin {"look", "load"}
      BY <1>2
    <2> QED BY <2>1, <2>2, <2>3 DEF FirstRead
  <1>6. check'.at = "compare" /\ u = check.before => ~check.problem
    <2> SUFFICES ASSUME check'.at = "compare", u = check.before PROVE ~check.problem
      OBVIOUS
    <2>1. check.next = "compare"
      BY <1>2
    <2>2. CASE Removing
      <3>1. u = View
        BY <2>2 DEF LoadIntent, View, CheckInv, CheckTyped
      <3>2. View.inProgress = TRUE /\ Marker = 2 * View.generation - 1
        BY <2>2, ViewIs
      <3>3. Lasts(check.before)
        BY <3>1, <3>2 DEF Lasts
      <3> QED BY <2>1, <3>3 DEF DamageInv, NoProblem
    <2>3. CASE ~Removing
      <3>1. u = check.read /\ ~u.inProgress
        BY <2>3 DEF LoadIntent, CheckInv, CheckTyped
      <3> QED BY <1>1, <2>1, <3>1 DEF DamageInv, NoProblem
    <2> QED BY <2>2, <2>3
  <1>7. NoProblem'
    <2>1. check'.next = "compare" =>
              Floor(check.before)' /\ (Lasts(check.before)' => ~check'.problem)
      BY <1>1, <1>2, FindsNothing DEF DamageInv
    <2>2. check'.at \notin {"look", "load"}
      BY <1>2
    <2> QED BY <1>2, <1>6, <2>1, <2>2 DEF NoProblem, DamageInv
  <1> QED BY <1>3, <1>5, <1>7 DEF DamageInv

\* Every body is listed, as a file or as a skeleton.
LEMMA ListDamage ==
    ASSUME Inv, StoreInv, CheckInv, DamageInv, List
    PROVE  DamageInv'
  <1> PICK u : u = check.read
    OBVIOUS
  <1>1. check.at = "list" /\ CheckKeeps
    BY DEF List
  <1>2. /\ check'.at = "open" /\ check'.next = "compare" /\ check'.before = u
        /\ check'.listed = {s \in 1 .. Top : IsLanded(s) \/ skeleton[s].now # Absent}
        /\ check'.asSkeleton = {s \in 1 .. Top : IsRemoved(s)}
        /\ check'.removed = {} /\ check'.built = {} /\ check'.problem = FALSE
        /\ check'.verdict = check.verdict
    BY DEF List, CheckInv, CheckTyped
  <1>3. Holds(u) /\ check.verdict # "damaged"
    BY <1>1 DEF DamageInv, FirstRead, NoProblem
  <1>4. Top' = Top /\ Top \in Nat /\ 1 .. Top \subseteq Seqs
        /\ \A s \in 1 .. Top : IsLanded(s)' = IsLanded(s)
    BY <1>1, CheckSees, Held
  <1>5. /\ Floor(u)' /\ (Lasts(u)' => Within(u)')
        /\ Floor(check.before)' <=> Floor(u)'
        /\ Lasts(check.before)' <=> Lasts(u)'
        /\ Within(check.before)' <=> Within(u)'
    <2>1. Floor(u)' /\ (Lasts(u)' => Within(u)')
      BY <1>1, <1>3, CheckHolds DEF Holds
    <2> QED BY <1>2, <2>1 DEF Floor, Lasts, Within
  <1>6. Phased' /\ FirstRead' /\ NoProblem'
    BY <1>2, <1>3, <1>5 DEF Phased, FirstRead, NoProblem
  <1>7. \A s \in 1 .. Top : s \in check'.listed
    <2> SUFFICES ASSUME NEW s \in 1 .. Top, ~IsLanded(s) PROVE skeleton[s].now # Absent
      BY <1>2
    <2>1. Safe(s) /\ skeleton[s].now \in skeleton[s].may
      BY <1>4, Held DEF Inv, DiskInv, Protected
    <2> QED BY <2>1 DEF Safe, Whole
  <1>8. Walk'
    <2>1. \A s \in check'.listed : \A r \in 1 .. s - 1 : r \in check'.listed
      <3> SUFFICES ASSUME NEW s \in check'.listed, NEW r \in 1 .. s - 1 PROVE r \in 1 .. Top
        BY <1>7
      <3>1. s \in 1 .. Top
        BY <1>2
      <3> QED BY <1>4, <3>1
    <2> QED BY <1>2, <2>1 DEF Walk
  <1>9. Walking'
    <2>1. \A s \in check'.asSkeleton : s \in 1 .. Top' /\ ~IsLanded(s)'
      BY <1>2, <1>4 DEF IsRemoved, IsLanded
    <2> QED BY <1>2, <1>4, <1>5, <1>8, <2>1 DEF Walking
  <1> QED BY <1>6, <1>9 DEF DamageInv

\* An attempt that goes on, and finds nothing more.
LEMMA GoesOn ==
    ASSUME Inv, CheckInv, DamageInv, CheckKeeps, check.at \in {"open", "build"},
           check'.at \in {"open", "build"}, check'.next = check.next, check'.before = check.before,
           check'.verdict = check.verdict, check'.asSkeleton = check.asSkeleton,
           check'.listed \subseteq check.listed,
           Lasts(check.before) => check'.problem = check.problem,
           Lasts(check.before) /\ ~(check.before.inProgress /\ check.before.through = Top)
               => Walk'
    PROVE  DamageInv'
  <1> PICK v : v = check.before
    OBVIOUS
  <1>1. Phased' /\ FirstRead'
    BY DEF DamageInv, Phased, FirstRead
  <1>2. /\ Floor(v)' <=> Floor(v)
        /\ Lasts(v)' <=> Lasts(v)
        /\ Within(v)' <=> Within(v)
        /\ Floor(check.before)' <=> Floor(v)'
        /\ Lasts(check.before)' <=> Lasts(v)'
        /\ Within(check.before)' <=> Within(v)'
    <2>1. /\ Floor(v)' <=> Floor(v)
          /\ Lasts(v)' <=> Lasts(v)
          /\ Within(v)' <=> Within(v)
      BY CheckHolds
    <2> QED BY <2>1 DEF Floor, Lasts, Within
  <1>3. check.next = "compare" /\ Floor(v) /\ (Lasts(v) => ~check.problem)
    BY DEF DamageInv, Phased, NoProblem
  <1>4. NoProblem'
    BY <1>2, <1>3 DEF NoProblem, DamageInv
  <1>5. Top' = Top /\ 1 .. Top \subseteq Seqs /\ \A s \in 1 .. Top : IsLanded(s)' = IsLanded(s)
    BY CheckSees, Held
  <1>6. Walking'
    <2>1. /\ check.listed \subseteq 1 .. Top
          /\ \A s \in check.asSkeleton : s \in 1 .. Top /\ ~IsLanded(s)
          /\ Lasts(v) => Within(v)
      BY DEF DamageInv, Walking
    <2>2. check'.listed \subseteq 1 .. Top'
          /\ \A s \in check'.asSkeleton : s \in 1 .. Top' /\ ~IsLanded(s)'
      BY <1>5, <2>1
    <2>3. Lasts(check.before)' =>
              Within(check.before)' /\ ((check'.before.inProgress /\ check'.before.through = Top') \/ Walk')
      BY <1>2, <1>5, <2>1
    <2> QED BY <2>2, <2>3 DEF Walking
  <1> QED BY <1>1, <1>4, <1>6 DEF DamageInv

\* OpenLanded: a file deleted since it was listed has its skeleton.
LEMMA OpenDamage ==
    ASSUME Inv, StoreInv, CheckInv, DamageInv, Open
    PROVE  DamageInv'
  <1> PICK s : s = Least(check.listed)
    OBVIOUS
  <1>1. check.at = "open" /\ CheckKeeps /\ check.listed # {}
    BY DEF Open
  <1>2. /\ s \in check.listed /\ (\A y \in check.listed : s <= y)
        /\ check.listed \subseteq 1 .. Top /\ s \in 1 .. Top /\ Top \in Nat
        /\ \A r \in check.asSkeleton : r \in 1 .. Top /\ ~IsLanded(r)
        /\ Lasts(check.before) =>
              (check.before.inProgress /\ check.before.through = Top) \/ Walk
    BY <1>1, LeastIn, Held DEF CheckInv, CheckTyped, DamageInv, Walking
  <1>3. Top' = Top /\ 1 .. Top \subseteq Seqs /\ \A r \in 1 .. Top : IsLanded(r)' = IsLanded(r)
    BY <1>1, CheckSees, Held
  <1>4. CASE IsLanded(s) /\ s \notin check.asSkeleton
    <2>1. check' = [check EXCEPT !.at = "build"]
      BY <1>4 DEF Open
    <2>2. /\ check'.at = "build" /\ check'.next = check.next /\ check'.before = check.before
          /\ check'.verdict = check.verdict /\ check'.asSkeleton = check.asSkeleton
          /\ check'.listed = check.listed /\ check'.problem = check.problem
          /\ check'.removed = check.removed /\ check'.built = check.built
      BY <2>1 DEF CheckInv, CheckTyped
    <2>3. ASSUME Walk PROVE Walk'
      <3>1. \A t \in check.listed : \A r \in 1 .. t - 1 : r \in 1 .. Top
        BY <1>2
      <3>2. \A t \in check.listed : \A r \in 1 .. t - 1 :
                r \in check.listed
                \/ (IF IsLanded(r)' THEN r \in check.built ELSE r \in check.removed)
        BY <1>3, <2>3, <3>1 DEF Walk
      <3>3. \A r \in check.removed : r \in 1 .. Top' /\ ~IsLanded(r)'
        BY <1>3, <2>3 DEF Walk
      <3>4. IsLanded(Least(check.listed))'
        <4>1. IsLanded(s)'
          BY <1>2, <1>3, <1>4
        <4>2. Least(check'.listed) = s
          BY <2>2
        <4> QED BY <4>1, <4>2 DEF IsLanded
      <3> QED BY <2>2, <3>2, <3>3, <3>4 DEF Walk
    <2> QED BY <1>1, <1>2, <2>2, <2>3, GoesOn
  <1>5. CASE ~(IsLanded(s) /\ s \notin check.asSkeleton)
    <2>1. check' = [check EXCEPT !.listed = @ \ {s}, !.removed = @ \cup {s},
                                 !.problem = @ \/ ~Whole(skeleton[s].now)]
      BY <1>5 DEF Open
    <2>2. ~IsLanded(s)
      BY <1>2, <1>5
    <2>3. Whole(skeleton[s].now)
      <3>1. Safe(s) /\ skeleton[s].now \in skeleton[s].may
        BY <1>2, <1>3, <2>2, Held DEF Inv, DiskInv, Protected
      <3> QED BY <3>1 DEF Safe
    <2>4. /\ check'.at = "open" /\ check'.next = check.next /\ check'.before = check.before
          /\ check'.verdict = check.verdict /\ check'.asSkeleton = check.asSkeleton
          /\ check'.listed = check.listed \ {s} /\ check'.removed = check.removed \cup {s}
          /\ check'.built = check.built
      BY <1>1, <2>1 DEF CheckInv, CheckTyped
    <2>5. check'.problem = check.problem
      <3>1. check'.problem = (check.problem \/ ~Whole(skeleton[s].now)) /\ check.problem \in BOOLEAN
        BY <2>1 DEF CheckInv, CheckTyped
      <3> QED BY <2>3, <3>1
    <2>6. ASSUME Walk PROVE Walk'
      <3>1. \A t \in check.listed : \A r \in 1 .. t - 1 : r \in 1 .. Top
        BY <1>2
      <3>2. ASSUME NEW t \in check'.listed, NEW r \in 1 .. t - 1
            PROVE  r \in check'.listed
                   \/ (IF IsLanded(r)' THEN r \in check'.built ELSE r \in check'.removed)
        <4>1. t \in check.listed /\ r \in 1 .. Top /\ IsLanded(r)' = IsLanded(r)
          BY <1>3, <2>4, <3>1, <3>2
        <4>2. r \in check.listed \/ (IF IsLanded(r) THEN r \in check.built ELSE r \in check.removed)
          BY <2>6, <4>1 DEF Walk
        <4> QED BY <2>2, <2>4, <4>1, <4>2
      <3>3. \A r \in check'.removed : r \in 1 .. Top' /\ ~IsLanded(r)'
        BY <1>2, <1>3, <2>2, <2>4, <2>6 DEF Walk
      <3> QED BY <2>4, <3>2, <3>3 DEF Walk
    <2> QED BY <1>1, <1>2, <2>4, <2>5, <2>6, GoesOn
  <1> QED BY <1>4, <1>5

\* A landed body that a check comes to builds from what it came to before.
LEMMA WalkedBuilds ==
    ASSUME Inv, StoreInv, CheckInv, Walk, Intact, check.at = "build", check.listed \subseteq 1 .. Top,
           NEW s, s = Least(check.listed)
    PROVE  /\ s \in 1 .. Top /\ IsLanded(s)
           /\ \/ body[s].base = 0
              \/ IF body[s].base \in check.removed THEN HasTip(body[s].base)
                 ELSE body[s].base \in check.built
           /\ \/ body[s].cites = 0
              \/ body[s].cites \in check.removed => piece[body[s].cites].now
  <1>1. PICK b \in 0 .. Top :
            /\ \A t \in 1 .. b : ~IsLanded(t)
            /\ \A t \in b + 1 .. Top :
                  IsLanded(t) /\ (body[t].cites \in 1 .. b => piece[body[t].cites].now)
            /\ b # 0 => HasTip(b)
    BY DEF Intact
  <1>2. /\ s \in check.listed /\ (\A y \in check.listed : s <= y)
        /\ s \in 1 .. Top /\ Top \in Nat /\ IsLanded(s)
    BY LeastIn, Held DEF CheckInv, CheckTyped, Walk
  <1>3. s \in b + 1 .. Top
    BY <1>1, <1>2
  <1>4. body[s].base \in {0, s - 1}
    BY <1>2 DEF StoreInv, StoreDisk, Shape
  <1>5. ASSUME body[s].base # 0
        PROVE  IF body[s].base \in check.removed THEN HasTip(body[s].base)
               ELSE body[s].base \in check.built
    <2> PICK r : r = s - 1
      OBVIOUS
    <2>1. body[s].base = r /\ r \in 1 .. s - 1 /\ r \in 1 .. Top /\ r \notin check.listed
      BY <1>2, <1>4, <1>5
    <2>2. IF IsLanded(r) THEN r \in check.built ELSE r \in check.removed
      BY <1>2, <2>1 DEF Walk
    <2>3. CASE IsLanded(r)
      BY <2>1, <2>2, <2>3 DEF Walk
    <2>4. CASE ~IsLanded(r)
      <3>1. r = b /\ b # 0
        BY <1>1, <1>3, <2>1, <2>4
      <3> QED BY <1>1, <2>1, <2>2, <2>4, <3>1
    <2> QED BY <2>3, <2>4
  <1>6. body[s].cites \in check.removed => piece[body[s].cites].now
    <2> SUFFICES ASSUME body[s].cites \in check.removed PROVE piece[body[s].cites].now
      OBVIOUS
    <2>1. body[s].cites \in 1 .. Top /\ ~IsLanded(body[s].cites)
      BY DEF Walk
    <2>2. body[s].cites \in 1 .. b
      BY <1>1, <2>1
    <2> QED BY <1>1, <1>3, <2>2
  <1> QED BY <1>2, <1>5, <1>6

LEMMA BuildDamage ==
    ASSUME Inv, StoreInv, CheckInv, DamageInv, Build
    PROVE  DamageInv'
  <1> PICK s : s = Least(check.listed)
    OBVIOUS
  <1> DEFINE builds ==
        /\ \/ body[s].base = 0
           \/ IF body[s].base \in check.removed THEN HasTip(body[s].base)
              ELSE body[s].base \in check.built
        /\ \/ body[s].cites = 0
           \/ body[s].cites \in check.removed => piece[body[s].cites].now
  <1>1. check.at = "build" /\ CheckKeeps
        /\ check' = [check EXCEPT !.at = "open", !.listed = @ \ {s},
                                  !.built = IF builds THEN @ \cup {s} ELSE @,
                                  !.problem = @ \/ (~builds /\ s > check.before.through)]
    BY DEF Build
  <1>2. /\ s \in check.listed /\ check.listed \subseteq 1 .. Top /\ s \in 1 .. Top /\ Top \in Nat
        /\ \A y \in check.listed : s <= y
    BY <1>1, LeastIn, Held DEF CheckInv, CheckTyped, DamageInv, Walking
  <1>3. Lasts(check.before) =>
            /\ Within(check.before)
            /\ (check.before.inProgress /\ check.before.through = Top) \/ Walk
    BY <1>1 DEF DamageInv, Walking
  <1>4. ASSUME Lasts(check.before), ~(check.before.inProgress /\ check.before.through = Top)
        PROVE  Walk /\ builds /\ IsLanded(s)
    <2>1. Walk /\ Within(check.before)
      BY <1>3, <1>4
    <2>2. Intact
      <3>1. CASE check.before.inProgress
        <4>1. View = check.before
          BY <2>1, <3>1 DEF Within
        <4>2. Removing /\ intent.now.through = check.before.through
          <5>1. Removing
            BY <3>1, <4>1, ViewShows DEF Shows
          <5> QED BY <4>1, <5>1 DEF View
        <4> QED BY <1>4, <3>1, <4>2, RestIsIntact
      <3>2. CASE ~check.before.inProgress
        BY <2>1, <3>2 DEF Within
      <3> QED BY <3>1, <3>2
    <2> QED BY <1>1, <1>2, <2>1, <2>2, WalkedBuilds
  <1> HIDE DEF builds
  <1>5. /\ check'.at = "open" /\ check'.next = check.next /\ check'.before = check.before
        /\ check'.verdict = check.verdict /\ check'.asSkeleton = check.asSkeleton
        /\ check'.listed = check.listed \ {s} /\ check'.removed = check.removed
        /\ builds => check'.built = check.built \cup {s}
    BY <1>1 DEF CheckInv, CheckTyped
  <1>6. Lasts(check.before) => check'.problem = check.problem
    <2> SUFFICES ASSUME Lasts(check.before) PROVE check'.problem = check.problem
      OBVIOUS
    <2>1. check'.problem = (check.problem \/ (~builds /\ s > check.before.through))
          /\ check.problem \in BOOLEAN
      BY <1>1 DEF CheckInv, CheckTyped
    <2>2. CASE check.before.inProgress /\ check.before.through = Top
      <3>1. ~(s > check.before.through)
        BY <1>2, <2>2
      <3> QED BY <2>1, <3>1
    <2>3. CASE ~(check.before.inProgress /\ check.before.through = Top)
      <3>1. builds
        BY <1>4, <2>3
      <3> QED BY <2>1, <3>1
    <2> QED BY <2>2, <2>3
  <1>7. Top' = Top /\ \A r \in 1 .. Top : IsLanded(r)' = IsLanded(r)
    <2>1. 1 .. Top \subseteq Seqs
      BY Held
    <2> QED BY <1>1, <2>1, CheckSees
  <1>8. ASSUME Walk, builds, IsLanded(s) PROVE Walk'
    <2>1. \A t \in check.listed : \A r \in 1 .. t - 1 : r \in 1 .. Top
      BY <1>2
    <2>2. ASSUME NEW t \in check'.listed, NEW r \in 1 .. t - 1
          PROVE  r \in check'.listed
                 \/ (IF IsLanded(r)' THEN r \in check'.built ELSE r \in check'.removed)
      <3>1. t \in check.listed /\ r \in 1 .. Top /\ IsLanded(r)' = IsLanded(r)
        BY <1>5, <1>7, <2>1, <2>2
      <3>2. r \in check.listed \/ (IF IsLanded(r) THEN r \in check.built ELSE r \in check.removed)
        BY <1>8, <3>1 DEF Walk
      <3> QED BY <1>5, <1>8, <3>1, <3>2
    <2>3. \A r \in check'.removed : r \in 1 .. Top' /\ ~IsLanded(r)'
      BY <1>5, <1>7, <1>8 DEF Walk
    <2> QED BY <1>5, <2>2, <2>3 DEF Walk
  <1>9. /\ check.at \in {"open", "build"} /\ check'.at \in {"open", "build"}
        /\ check'.listed \subseteq check.listed
    BY <1>1, <1>5
  <1>10. Lasts(check.before) /\ ~(check.before.inProgress /\ check.before.through = Top) => Walk'
    BY <1>4, <1>8
  <1> QED BY <1>1, <1>5, <1>6, <1>9, <1>10, GoesOn

LEMMA BuiltDamage ==
    ASSUME Inv, CheckInv, DamageInv, Built
    PROVE  DamageInv'
  <1>1. check.at = "open" /\ CheckKeeps
        /\ check' = [check EXCEPT !.at = "generation", !.asSkeleton = {}, !.removed = {}, !.built = {}]
    BY DEF Built
  <1>2. /\ check'.at = "generation" /\ check'.next = check.next /\ check'.before = check.before
        /\ check'.problem = check.problem /\ check'.verdict = check.verdict
    BY <1>1 DEF CheckInv, CheckTyped
  <1>3. Phased' /\ FirstRead' /\ Walking'
    BY <1>2 DEF Phased, FirstRead, Walking
  <1>4. NoProblem'
    <2>1. check'.next = "compare" =>
              Floor(check.before)' /\ (Lasts(check.before)' => ~check'.problem)
      BY <1>1, <1>2, FindsNothing DEF DamageInv
    <2> QED BY <1>2, <2>1 DEF NoProblem, DamageInv
  <1> QED BY <1>3, <1>4 DEF DamageInv

LEMMA CompareDamage ==
    ASSUME Inv, CheckInv, DamageInv, Compare
    PROVE  DamageInv'
  <1>1. check.at = "compare" /\ (check.read = check.before => ~check.problem)
        /\ check.attempt \in 1 .. Attempts /\ Attempts \in Nat
    BY RemovalAssumption DEF Compare, DamageInv, NoProblem, CheckInv, CheckMoves
  <1>2. CASE check.read = check.before
    <2>1. check' = [NoCheck EXCEPT !.verdict = IF check.problem THEN "damaged" ELSE "sound"]
      BY <1>2 DEF Compare
    <2>2. check'.next = "list" /\ check'.at = "done" /\ check'.verdict = "sound"
      BY <1>1, <1>2, <2>1 DEF NoCheck
    <2> QED BY <2>2, NothingFoundNext
  <1>3. CASE check.read # check.before /\ check.attempt = Attempts
    <2>1. ~(check.attempt < Attempts)
      BY <1>1, <1>3
    <2>2. check' = [NoCheck EXCEPT !.first = check.first, !.verdict = "inconclusive"]
      BY <1>3, <2>1 DEF Compare
    <2>3. check'.next = "list" /\ check'.at = "done" /\ check'.verdict # "damaged"
      BY <2>2 DEF NoCheck
    <2> QED BY <2>3, NothingFoundNext
  <1>4. CASE check.read # check.before /\ check.attempt < Attempts
    <2>1. check.attempt # Attempts
      BY <1>1, <1>4
    <2>2. check' = [NoCheck EXCEPT !.at = "generation", !.first = check.first,
                                   !.attempt = check.attempt + 1]
      BY <1>4, <2>1 DEF Compare
    <2>3. check'.next = "list" /\ check'.at = "generation" /\ check'.verdict # "damaged"
      BY <2>2 DEF NoCheck
    <2> QED BY <2>3, NothingFoundNext
  <1> QED BY <1>1, <1>2, <1>3, <1>4

LEMMA InitDamage == Init => DamageInv
  <1> SUFFICES ASSUME Init PROVE DamageInv
    OBVIOUS
  <1>1. check.next = "list" /\ check.at = "done" /\ check.verdict # "damaged"
    BY DEF Init, NoCheck
  <1> QED BY <1>1, NothingFound

LEMMA DamageStep ==
    ASSUME Inv, Inv', StoreInv, StoreInv', OrderInv, CheckInv, DamageInv, [Next]_vars
    PROVE  DamageInv'
  <1>1. CASE PowerLoss
    <2>1. check'.next = "list" /\ check'.at = "done" /\ check'.verdict # "damaged"
      BY <1>1 DEF PowerLoss, NoCheck
    <2> QED BY <2>1, NothingFoundNext
  <1>2. CASE Check
    BY <1>2, StartCheckDamage, ReadGenerationDamage, LookForIntentDamage, LoadIntentDamage,
       ListDamage, OpenDamage, BuildDamage, BuiltDamage, CompareDamage DEF Check
  <1>3. CASE ~PowerLoss /\ ~Check
    <2>1. UNCHANGED check
      BY <1>3, OnlyChecks
    <2> QED BY <1>3, <2>1, ElsewhereDamage
  <1> QED BY <1>1, <1>2, <1>3

\* Session, removalOf (internal/verify/session.go): asz verify, which reads a
\* session with no lock, never reports what a removal took for damage, in
\* whatever instance, and however the deletions fall between its reads.  The
\* hypotheses are those of FourAttempts: where a loss of power takes back what
\* a generation was given by, the next removal may have the same generation,
\* and two views of two removals be equal.
THEOREM NeverFalselyDamaged == Spec /\ []NoneStranded /\ LossesInOrder => []NoFalseDamage
  <1>1. Init => DamageInv
    BY InitDamage
  <1>2. (/\ Inv /\ Inv' /\ StoreInv /\ StoreInv' /\ OrderInv /\ CheckInv
         /\ DamageInv /\ [Next]_vars) => DamageInv'
    BY DamageStep
  <1>3. DamageInv => NoFalseDamage
    BY DEF DamageInv, NoProblem, NoFalseDamage
  <1> QED BY <1>1, <1>2, <1>3, Invariance, StoreInvariance, OrderInvariance, CheckInvariance, PTL
      DEF Spec

(***************************************************************************)
(* With no loss of power nothing is asked of one.                          *)
(***************************************************************************)

Faults == [failures : Nat, stops : Nat, losses : Nat, checks : Nat]
FaultsTyped == faults \in Faults

LEMMA CountedFaults ==
    ASSUME faults \in Faults, NEW o, NEW place, Counted(o, place)
    PROVE  faults' \in Faults
  BY DEF Counted, Faults

LEMMA FaultsCounted == Spec => []FaultsTyped
  <1>1. Init => FaultsTyped
    BY DEF Init, Faults, FaultsTyped
  <1>2. ASSUME faults \in Faults, [Next]_vars PROVE faults' \in Faults
    <2>1. ASSUME UNCHANGED faults PROVE faults' \in Faults
      BY <1>2, <2>1
    <2>2. CASE Pass
      <3>1. CASE StartPass \/ NothingToRecover \/ Recover \/ Parse \/ NothingToRemove \/ ReclaimTips
                 \/ ReclaimPieces
        BY <2>1, <3>1 DEF StartPass, NothingToRecover, Recover, Parse, NothingToRemove, ReclaimTips,
                          ReclaimPieces
      <3>2. CASE \E base, cites \in 0 .. MaxSeq : Land(base, cites)
        BY <2>1, <3>2 DEF Land
      <3>3. CASE \E base, cites \in 0 .. MaxSeq, o \in Outcomes, n \in 0 .. 1 : PieceNotKept(base, cites, o, n)
        BY <1>2, <3>3, CountedFaults DEF PieceNotKept
      <3>4. CASE \E o \in Outcomes, n \in 0 .. 2 : KeepTip(o, n)
        BY <1>2, <3>4, CountedFaults DEF KeepTip
      <3>5. CASE \E o \in Outcomes :
                    SaveIntent(o) \/ SavePhase(o) \/ SaveGeneration(o) \/ SyncDeleted(o) \/ RemoveIntent(o)
        BY <1>2, <3>5, CountedFaults DEF SaveIntent, SavePhase, SaveGeneration, SyncDeleted, RemoveIntent
      <3>6. CASE \E s \in Seqs, o \in Outcomes : WriteSkeleton(s, o)
        BY <1>2, <3>6, CountedFaults DEF WriteSkeleton
      <3>7. CASE \E s \in Seqs, left \in {Absent, Reserved} : SkeletonCutShort(s, left)
        BY <1>2, <3>7, CountedFaults DEF SkeletonCutShort
      <3>8. CASE \E s \in Seqs : Delete(s)
        BY <2>1, <3>8 DEF Delete
      <3> QED BY <2>2, <3>1, <3>2, <3>3, <3>4, <3>5, <3>6, <3>7, <3>8 DEF Pass
    <2>3. CASE Check
      <3>1. CASE StartCheck
        BY <1>2, <3>1 DEF StartCheck, Faults
      <3>2. CASE ReadGeneration \/ LookForIntent \/ LoadIntent \/ List \/ Open \/ Build \/ Built \/ Compare
        BY <2>1, <3>2 DEF ReadGeneration, LookForIntent, LoadIntent, List, Open, Build, Built, Compare
      <3> QED BY <2>3, <3>1, <3>2 DEF Check
    <2>4. CASE Stop \/ Fails
      BY <1>2, <2>4, CountedFaults DEF Stop, Fails
    <2>5. CASE PowerLoss
      BY <1>2, <2>5 DEF PowerLoss, Faults
    <2>6. CASE JudgeStart \/ JudgeEnd \/ UNCHANGED vars
      BY <2>1, <2>6 DEF JudgeStart, JudgeEnd, vars
    <2> QED BY <1>2, <2>2, <2>3, <2>4, <2>5, <2>6 DEF Next
  <1>3. FaultsTyped /\ [Next]_vars => FaultsTyped'
    BY <1>2 DEF FaultsTyped
  <1> QED BY <1>1, <1>3, PTL DEF Spec

LEMMA PowerStays == ASSUME MaxLosses = 0 PROVE Spec => LossesInOrder
  <1>1. FaultsTyped /\ [Next]_vars => [PowerLoss => InOrder' /\ Numbered']_vars
    <2>1. FaultsTyped => ~PowerLoss
      BY DEF PowerLoss, Faults, FaultsTyped
    <2> QED BY <2>1
  <1> QED BY <1>1, FaultsCounted, PTL DEF Spec, LossesInOrder

(***************************************************************************)
(* Where only the syncs of an intent, of the end of a removal and of a     *)
(* piece may fail, nothing is stranded: a removal that deletes is not      *)
(* under way while they are tried, or it ends.                             *)
(***************************************************************************)

SyncsHold == Fallible \cap {"tip", "skeleton", "phase", "generation", "deletions"} = {}

LEMMA NotFailed ==
    ASSUME SyncsHold, NEW place \in {"tip", "skeleton", "phase", "generation", "deletions"},
           NEW o, Counted(o, place)
    PROVE  o # "failed"
  BY DEF Counted, SyncsHold

\* A sync that does not fail strands nothing.
LEMMA NeverStuck ==
    ASSUME NEW S, NEW e \in Names(S), ~e.stuck, NEW o \in Outcomes, o # "failed"
    PROVE  ~Synced(o, e).stuck
  BY DEF Synced, Flushed, Settled, Outcomes

LEMMA FilesNeverStuck ==
    ASSUME Inv, NoneStranded, NEW o \in Outcomes, o # "failed", NEW k, ProviderSync(o, landed, k)
    PROVE  \A s \in Seqs : ~landed'[s].stuck
  <1> SUFFICES ASSUME NEW s \in Seqs PROVE ~landed'[s].stuck
    OBVIOUS
  <1>1. landed \in [Seqs -> Names(BOOLEAN)] /\ landed'[s] = Synced(o, landed[s])
    BY DEF Inv, DiskInv, DirsTyped, ProviderSync, EachSynced
  <1> QED BY <1>1, NeverStuck DEF NoneStranded

LEMMA IntentNeverStuck ==
    ASSUME NEW i \in Names(Intents), ~i.stuck, NEW st, NEW o \in Outcomes, o # "failed", SessionSync(o, i, st)
    PROVE  ~intent'.stuck
  BY NeverStuck DEF SessionSync

LEMMA StrandedStep ==
    ASSUME SyncsHold, Inv, NoneStranded, [Next]_vars
    PROVE  NoneStranded'
  <1>0. /\ landed \in [Seqs -> Names(BOOLEAN)] /\ intent \in Names(Intents)
        /\ state \in Names({0} \cup Gens) /\ NoIntent \in Intents /\ NoIntent.phase = "none"
    BY DEF Inv, DiskInv, DirsTyped, Intents, NoIntent
  <1>1. ASSUME UNCHANGED <<landed, intent>> PROVE NoneStranded'
    BY <1>1 DEF NoneStranded
  <1>2. ASSUME UNCHANGED landed, intent'.now.phase = "delete" => ~intent'.stuck PROVE NoneStranded'
    BY <1>2 DEF NoneStranded
  <1>3. CASE Pass
    <2>1. CASE StartPass \/ NothingToRecover \/ Recover \/ Parse \/ NothingToRemove
               \/ ReclaimTips \/ ReclaimPieces
      BY <1>1, <2>1 DEF StartPass, NothingToRecover, Recover, Parse, NothingToRemove, ReclaimTips,
                        ReclaimPieces, disk
    <2>2. ASSUME NEW base \in 0 .. MaxSeq, NEW cites \in 0 .. MaxSeq, Land(base, cites) PROVE NoneStranded'
      <3>1. intent'.now = NoIntent
        BY <2>2, LandedStore DEF Land, MayLand, Removing
      <3>2. landed' = [landed EXCEPT ![Top + 1] = Settled(TRUE)]
        BY <2>2 DEF Land
      <3>3. ASSUME NEW s \in Seqs PROVE ~landed'[s].stuck
        BY <1>0, <3>2 DEF NoneStranded, Settled
      <3> QED BY <1>0, <3>1, <3>3 DEF NoneStranded
    <2>3. ASSUME NEW base \in 0 .. MaxSeq, NEW cites \in 0 .. MaxSeq, NEW o \in Outcomes,
                 NEW n \in 0 .. 1, PieceNotKept(base, cites, o, n)
          PROVE  NoneStranded'
      <3>1. ParentsSync(o, n) /\ UNCHANGED <<landed, skeleton>> /\ intent.now = NoIntent
        BY <2>3 DEF PieceNotKept, MayLand, Removing
      <3>2. intent'.now = NoIntent
        BY <3>1, ParentsCalm DEF Inv, Calm
      <3> QED BY <1>0, <1>2, <3>1, <3>2
    <2>4. ASSUME NEW o \in Outcomes, NEW n \in 0 .. 2, KeepTip(o, n) PROVE NoneStranded'
      <3>1. ParentsSync(o, n) /\ UNCHANGED <<landed, skeleton>> /\ o # "failed"
        BY <2>4, NotFailed DEF KeepTip
      <3>2. intent'.now = intent.now
        BY <3>1, ParentsCalm DEF Inv, Calm
      <3>3. /\ SessionSync(Reached(o, n, 1), intent, state)
            /\ Reached(o, n, 1) \in Outcomes /\ Reached(o, n, 1) # "failed"
        BY <3>1 DEF ParentsSync, Reached, Outcomes
      <3>4. ~intent.stuck => ~intent'.stuck
        BY <1>0, <3>3, IntentNeverStuck
      <3> QED BY <1>2, <3>1, <3>2, <3>4 DEF NoneStranded
    <2>5. ASSUME NEW o \in Outcomes, SaveIntent(o) PROVE NoneStranded'
      <3> PICK v : v = [generation |-> job.generation, through |-> job.through, phase |-> "skeletons"]
        OBVIOUS
      <3>1. v \in Intents /\ v.phase = "skeletons"
        BY <2>5 DEF Inv, JobTyped, SaveIntent, Resting, Intents, Phases
      <3>2. Written(intent, v) \in Names(Intents) /\ Written(intent, v).now = v
        BY <1>0, <3>1, WrittenIntent
      <3>3. UNCHANGED landed /\ SessionSync(o, Written(intent, v), state)
        BY <2>5 DEF SaveIntent
      <3>4. intent'.now = v
        BY <1>0, <3>2, <3>3, SessionSynced
      <3> QED BY <1>2, <3>1, <3>3, <3>4
    <2>6. ASSUME NEW o \in Outcomes, SavePhase(o) PROVE NoneStranded'
      <3> PICK v : v = [generation |-> job.generation, through |-> job.through, phase |-> "delete"]
        OBVIOUS
      <3>1. v \in Intents
        BY <2>6 DEF Inv, JobTyped, SavePhase, Resting, Intents, Phases
      <3>2. Written(intent, v) \in Names(Intents) /\ Written(intent, v).stuck = FALSE
        BY <1>0, <3>1, WrittenIntent DEF Written
      <3>3. UNCHANGED landed /\ SessionSync(o, Written(intent, v), state) /\ o # "failed"
        BY <2>6, NotFailed DEF SavePhase
      <3>4. ~intent'.stuck
        BY <3>2, <3>3, IntentNeverStuck
      <3> QED BY <1>2, <3>3, <3>4
    <2>7. ASSUME NEW o \in Outcomes, SaveGeneration(o) PROVE NoneStranded'
      <3>1. UNCHANGED landed /\ SessionSync(o, intent, Written(state, job.generation)) /\ o # "failed"
        BY <2>7, NotFailed DEF SaveGeneration
      <3>2. intent'.now = intent.now
        BY <1>0, <3>1, SyncedName DEF SessionSync
      <3>3. ~intent.stuck => ~intent'.stuck
        BY <1>0, <3>1, IntentNeverStuck
      <3> QED BY <1>2, <3>1, <3>2, <3>3 DEF NoneStranded
    <2>8. ASSUME NEW o \in Outcomes, SyncDeleted(o) PROVE NoneStranded'
      <3>1. ProviderSync(o, landed, skeleton) /\ UNCHANGED intent /\ o # "failed"
        BY <2>8, NotFailed DEF SyncDeleted
      <3> QED BY <3>1, FilesNeverStuck DEF NoneStranded
    <2>9. ASSUME NEW o \in Outcomes, RemoveIntent(o) PROVE NoneStranded'
      <3>1. UNCHANGED landed /\ SessionSync(o, Written(intent, NoIntent), state)
        BY <2>9 DEF RemoveIntent
      <3>2. Written(intent, NoIntent) \in Names(Intents) /\ Written(intent, NoIntent).now = NoIntent
        BY <1>0, WrittenIntent
      <3>3. intent'.now = NoIntent
        BY <1>0, <3>1, <3>2, SessionSynced
      <3> QED BY <1>0, <1>2, <3>1, <3>3
    <2>10. ASSUME NEW s \in Seqs, NEW o \in Outcomes, WriteSkeleton(s, o) PROVE NoneStranded'
      <3>1. /\ ProviderSync(o, landed, [skeleton EXCEPT ![s] = Written(Cleared(s), job.generation)])
            /\ UNCHANGED intent /\ o # "failed"
        BY <2>10, NotFailed DEF WriteSkeleton
      <3> QED BY <3>1, FilesNeverStuck DEF NoneStranded
    <2>11. CASE \E s \in Seqs, left \in {Absent, Reserved} : SkeletonCutShort(s, left)
      BY <1>1, <2>11 DEF SkeletonCutShort
    <2>12. ASSUME NEW s \in Seqs, Delete(s) PROVE NoneStranded'
      <3>1. CASE UNCHANGED landed
        BY <1>1, <2>12, <3>1 DEF Delete
      <3>2. CASE landed' = [landed EXCEPT ![s] = Written(@, FALSE)]
        <4>1. ASSUME NEW t \in Seqs PROVE ~landed'[t].stuck
          BY <1>0, <3>2 DEF NoneStranded, Written
        <4> QED BY <2>12, <4>1 DEF Delete, NoneStranded
      <3> QED BY <2>12, <3>1, <3>2 DEF Delete
    <2> QED BY <1>3, <2>1, <2>2, <2>3, <2>4, <2>5, <2>6, <2>7, <2>8, <2>9, <2>10, <2>11, <2>12 DEF Pass
  <1>4. CASE Check
    <2>1. CheckKeeps
      BY <1>4 DEF Check, StartCheck, ReadGeneration, LookForIntent, LoadIntent, List, Open, Build,
                  Built, Compare
    <2> QED BY <1>1, <2>1 DEF CheckKeeps, disk
  <1>5. CASE Stop \/ Fails \/ JudgeStart \/ JudgeEnd \/ UNCHANGED vars
    BY <1>1, <1>5 DEF Stop, Fails, JudgeStart, JudgeEnd, vars, disk
  <1>6. CASE PowerLoss
    <2>1. PICK r \in Remains(landed, BOOLEAN) : landed' = Reset(r)
      BY <1>6 DEF PowerLoss
    <2>2. r \in [Seqs -> BOOLEAN]
      BY <1>0, <2>1 DEF Remains
    <2>3. \A s \in Seqs : landed'[s].stuck = FALSE
      BY <2>1, <2>2 DEF Reset, Settled
    <2>4. intent'.stuck = FALSE
      BY <1>6 DEF PowerLoss, Settled
    <2> QED BY <2>3, <2>4 DEF NoneStranded
  <1> QED BY <1>3, <1>4, <1>5, <1>6 DEF Next

\* finish (internal/retention/retention.go): where the syncs of the tip, the
\* skeletons, the phase, the generation and the deletions do not fail, no run
\* strands a deletion or its intent, and so no deleted file comes back with no
\* intent left, and what is left of the session builds.
THEOREM WhileSynced ==
    ASSUME SyncsHold
    PROVE  /\ Spec => []NoneStranded
           /\ Spec => []NoGhost
           /\ Spec => []StaysBuilt
  <1>1. Init => NoneStranded
    BY DEF Init, NoneStranded, Settled, NoIntent
  <1>2. Inv /\ NoneStranded /\ [Next]_vars => NoneStranded'
    BY StrandedStep
  <1>3. Spec => []NoneStranded
    BY <1>1, <1>2, Invariance, PTL DEF Spec
  <1>4. Spec => []NoGhost
    BY <1>3, NoneReturn, PTL
  <1>5. Spec => []StaysBuilt
    BY <1>3, StaysBuildable, PTL
  <1> QED BY <1>3, <1>4, <1>5

\* asz verify's two promises, with no hypothesis but on the constants: however
\* passes stop, and the other syncs fail, while the power stays.
THEOREM WhilePowerStays ==
    ASSUME SyncsHold, MaxLosses = 0
    PROVE  /\ Spec => []NoFalseDamage
           /\ Attempts >= 4 => (Spec => []Conclusive)
  <1>1. Spec => []NoFalseDamage
    BY PowerStays, WhileSynced, NeverFalselyDamaged, PTL
  <1>2. ASSUME Attempts >= 4 PROVE Spec => []Conclusive
    BY <1>2, PowerStays, WhileSynced, FourAttempts, PTL
  <1> QED BY <1>1, <1>2
=============================================================================
