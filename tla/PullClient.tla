----------------------------- MODULE PullClient -----------------------------
(***************************************************************************)
(* The copies of one remote conversation that a machine has pulled         *)
(* (internal/pull/client, internal/storage).  A pull asks for the head's   *)
(* manifest, takes the conversation's _pull, settles what an earlier       *)
(* command left, builds a snapshot in private from the newest copy here    *)
(* and what it fetches, and publishes it under a new tag.  A sweep takes   *)
(* _pull too and removes expired snapshots.  Readers (views, judge runs    *)
(* and their children) take no _pull: they hold a lease on a snapshot.     *)
(*                                                                         *)
(* What runs under the gate _admit and the conversation's _root is one     *)
(* action; the rest interleaves.  A record or a directory entry has two    *)
(* values, the one readers see and the one on the disk (see Write).        *)
(*                                                                         *)
(* Abstracted: evidence is its version; a tag is its publication time, a   *)
(* number; a private build has no name, since one command holds _pull.  A  *)
(* lease file no process holds admits nothing and is left out.             *)
(***************************************************************************)
EXTENDS Naturals, FiniteSets

CONSTANTS
    Commands,     \* processes that pull, sweep, or settle a publication
    Readers,      \* views, judge runs and their children
    None,
    TTL,          \* remote_snapshot_ttl
    MaxTime,      \* bound: the clock
    MaxTag,       \* bound: tags
    MaxVersion,   \* bound: versions of the remote's head
    MaxStops,     \* bound: processes killed, and losses of power
    MaxFaults     \* bound: writes, renames, deletions and fetches that fail

ASSUME ClientBounds ==
    /\ None \notin Commands
    /\ TTL \in Nat \ {0} /\ {MaxTime, MaxTag, MaxVersion, MaxStops, MaxFaults} \subseteq Nat

Tags == 1 .. MaxTag
Versions == 1 .. MaxVersion
Torn == 0            \* the content of a tree that is not whole

VARIABLES
    now, head,       \* the clock, which may go back; the remote's version
    outer,           \* the conversation's _copy: greatest, removed, pub
    tree,            \* each tag's tree: none, here, or in _removing
    content,         \* what each tree holds
    build,           \* the private build in _building
    evidence,        \* what was accepted for each tag when it was published
    pull,            \* who holds _pull
    cmd, lease,      \* each command's step, and the tags it holds leases on
    reader,          \* each reader's lease: kind and tag
    faults, stops

store == <<outer, tree, content, build, evidence>>
vars == <<now, head, store, pull, cmd, lease, reader, faults, stops>>

----------------------------------------------------------------------------
Rec(v) == [seen |-> v, disk |-> v]
Idle == [pc |-> "idle", mode |-> "none", m |-> 0, tag |-> 0, todo |-> {}]
Away == [kind |-> "none", tag |-> 0]
NoBuild == [ver |-> Torn, synced |-> FALSE]

(* The value after write number `at` of a transition whose write k fails   *)
(* (0: none): the failing one is perhaps seen, later ones are not made.    *)
Write(k, shown, at, old, v) ==
    IF k = 0 \/ at < k THEN Rec(v)
    ELSE IF at = k /\ shown THEN [old EXCEPT !.seen = v]
    ELSE old

Fails(k, shown) == IF k = 0 THEN shown /\ UNCHANGED faults
                   ELSE faults < MaxFaults /\ faults' = faults + 1

(* A durable write of _copy syncs the conversation's directory, and every  *)
(* entry in it.                                                            *)
Synced == [t \in Tags |-> Rec(tree[t].seen)]

Here(t) == tree[t].seen = "here"
Pub == outer.seen.pub
Listed(t) == t \in outer.seen.removed
Expired(t) == now >= t + TTL

(* What admission checks under the gate; its age separately.               *)
Entry(t) == Here(t) /\ t # Pub /\ t <= outer.seen.greatest /\ ~Listed(t)
Admissible(t) == Entry(t) /\ ~Expired(t)

\* Mutant: readers' leases are not asked for.
HeldByCommands(t) == \E p \in Commands : t \in lease[p]

Held(t) == (\E p \in Commands : t \in lease[p]) \/ (\E x \in Readers : reader[x].tag = t)

Newest(S) == {t \in S : \A u \in S : u <= t}

\* Mutant: the tag after the newest tree there is.
NextTagListed ==
    LET after == {now} \cup {t + 1 : t \in {u \in Tags : Here(u)}}
    IN  CHOOSE t \in Newest(after) : TRUE

NextTag == IF now > outer.seen.greatest THEN now ELSE outer.seen.greatest + 1

Step(p, pc) == cmd' = [cmd EXCEPT ![p].pc = pc]
At(p, pc) == cmd[p].pc = pc

(* A command that ends lets go of _pull and of its leases.                 *)
Ends(p) == /\ cmd' = [cmd EXCEPT ![p] = Idle]
           /\ pull' = None
           /\ lease' = [lease EXCEPT ![p] = {}]

----------------------------------------------------------------------------
(* Taking the conversation                                                 *)

(* A pull's manifest is asked for before the conversation is taken.        *)
Begin(p, mode) ==
    /\ At(p, "idle")
    /\ cmd' = [cmd EXCEPT ![p] = [Idle EXCEPT !.pc = "take", !.mode = mode, !.m = IF mode = "pull" THEN head ELSE 0]]
    /\ UNCHANGED <<now, head, store, pull, lease, reader, faults, stops>>

(* A pull waits for _pull a while, the others not at all; all give up.     *)
Take(p) ==
    /\ At(p, "take")
    /\ \/ pull = None /\ pull' = p /\ Step(p, "recover")
       \/ pull # None /\ pull' = pull /\ cmd' = [cmd EXCEPT ![p] = Idle]
    /\ UNCHANGED <<now, head, store, lease, reader, faults, stops>>

(* An unfinished publication's tag is recorded removed, with a fresh       *)
(* write, then its tree, if it got its name, is moved into _removing.      *)
Recover(p) ==
    /\ At(p, "recover")
    /\ \/ /\ Pub = 0 /\ Step(p, "clean")
          /\ UNCHANGED <<outer, tree, pull, lease, faults>>
       \/ /\ Pub # 0
          /\ \E k \in 0 .. 2, shown \in BOOLEAN :
              /\ (k = 2 => Here(Pub)) /\ Fails(k, shown)
              /\ outer' = Write(k, shown, 1, outer, [outer.seen EXCEPT !.removed = @ \cup {Pub}])
              /\ tree' = IF k = 1 THEN tree
                         ELSE [t \in Tags |-> IF t = Pub /\ Here(t)
                                              THEN Write(k, shown, 2, Rec("here"), "removing")
                                              ELSE Synced[t]]
              /\ IF k = 0 THEN Step(p, "discard") /\ UNCHANGED <<pull, lease>> ELSE Ends(p)
    /\ UNCHANGED <<now, head, content, build, evidence, reader, stops>>

(* Trees in _removing are deleted file by file: a deletion that fails, or  *)
(* whose command stops, leaves a torn tree there.                          *)
Deleted(ts) ==
    \/ /\ tree' = [t \in Tags |-> IF t \in ts THEN Rec("none") ELSE tree[t]]
       /\ content' = [t \in Tags |-> IF t \in ts THEN Rec(Torn) ELSE content[t]]
       /\ UNCHANGED faults
    \/ /\ ts # {} /\ Fails(1, TRUE) /\ tree' = tree
       /\ content' = [t \in Tags |-> IF t \in ts THEN Rec(Torn) ELSE content[t]]

(* The moved tree and the private build go.                                *)
DiscardTree(p) ==
    /\ At(p, "discard")
    /\ Deleted({t \in {Pub} : tree[t].seen = "removing"})
    /\ build' = NoBuild
    /\ IF faults' = faults THEN Step(p, "settle") /\ UNCHANGED <<pull, lease>> ELSE Ends(p)
    /\ UNCHANGED <<now, head, outer, evidence, reader, stops>>

(* The intent is cleared with a fresh write.                               *)
ClearIntent(p) ==
    /\ At(p, "settle")
    /\ \E k \in {0, 1}, shown \in BOOLEAN :
        /\ Fails(k, shown)
        /\ outer' = Write(k, shown, 1, outer, [outer.seen EXCEPT !.pub = 0])
        /\ tree' = IF k = 0 THEN Synced ELSE tree
        /\ IF k = 0 THEN Step(p, "clean") /\ UNCHANGED <<pull, lease>> ELSE Ends(p)
    /\ UNCHANGED <<now, head, content, build, evidence, reader, stops>>

After(mode) == IF mode = "pull" THEN "select" ELSE IF mode = "sweep" THEN "due" ELSE "end"

ToSweep(mode) == IF mode = "sweep" THEN {t \in Tags : Here(t)} ELSE {}

(* What earlier commands left: every build, and, behind a fresh write of   *)
(* _copy when there are any, every tree in _removing.                      *)
Clean(p) ==
    LET left == {t \in Tags : tree[t].seen = "removing"}
    IN  /\ At(p, "clean") /\ build' = NoBuild
        /\ \/ /\ left = {} /\ UNCHANGED <<outer, tree, faults, pull, lease>>
              /\ cmd' = [cmd EXCEPT ![p].pc = After(cmd[p].mode), ![p].todo = ToSweep(cmd[p].mode)]
           \/ /\ left # {}
              /\ \E k \in {0, 1}, shown \in BOOLEAN :
                  /\ Fails(k, shown)
                  /\ outer' = Write(k, shown, 1, outer, outer.seen)
                  /\ tree' = IF k = 0 THEN Synced ELSE tree
                  /\ IF k = 0 THEN Step(p, "empty") /\ UNCHANGED <<pull, lease>> ELSE Ends(p)
    /\ UNCHANGED <<now, head, content, evidence, reader, stops>>

EmptyRemoving(p) ==
    /\ At(p, "empty")
    /\ Deleted({t \in Tags : tree[t].seen = "removing"})
    /\ IF faults' = faults
       THEN /\ UNCHANGED <<pull, lease>>
            /\ cmd' = [cmd EXCEPT ![p].pc = After(cmd[p].mode), ![p].todo = ToSweep(cmd[p].mode)]
       ELSE Ends(p)
    /\ UNCHANGED <<now, head, outer, build, evidence, reader, stops>>

----------------------------------------------------------------------------
(* Pulling                                                                 *)

(* The base is the newest snapshot that admits a reader and holds whole    *)
(* evidence; the pull keeps a lease on it.  When it is the newest that     *)
(* admits one, and holds the manifest's evidence, it is the result.        *)
SelectBase(p) ==
    LET open == {t \in Tags : Admissible(t)}
        whole == {t \in open : content[t].seen # Torn}
        bases == IF whole = {} THEN {0} ELSE Newest(whole)
    IN  /\ At(p, "select")
        /\ \/ /\ \E base \in bases :
                  /\ lease' = [lease EXCEPT ![p] = {base} \ {0}]
                  /\ IF base \in Newest(open) /\ content[base].seen = cmd[p].m
                     THEN cmd' = [cmd EXCEPT ![p].pc = "handed", ![p].tag = base] /\ pull' = None
                     ELSE Step(p, "build") /\ UNCHANGED pull
              /\ UNCHANGED faults
           \/ Fails(1, TRUE) /\ Ends(p)    \* the manifest conflicts with the base's evidence
    /\ UNCHANGED <<now, head, store, reader, stops>>

(* A build that fails is deleted, all of it or not.                        *)
BuildFails(p) == Fails(1, TRUE) /\ build' \in {NoBuild, build} /\ Ends(p)

(* The manifest is saved, what the base holds is shared and the rest       *)
(* fetched; the build is accepted as whole evidence of the manifest.  A    *)
(* source that finds the head changed has the build discarded and made     *)
(* again from the manifest it now lists, base selection included, with     *)
(* _pull still held.                                                       *)
Fetch(p) ==
    /\ At(p, "build")
    /\ \/ /\ build' = [ver |-> cmd[p].m, synced |-> FALSE]
          /\ Step(p, "finish") /\ UNCHANGED <<pull, lease, faults>>
       \/ /\ head # cmd[p].m
          /\ cmd' = [cmd EXCEPT ![p].pc = "select", ![p].m = head]
          /\ build' = NoBuild /\ lease' = [lease EXCEPT ![p] = {}] /\ UNCHANGED <<pull, faults>>
       \/ BuildFails(p)
    /\ UNCHANGED <<now, head, outer, tree, content, evidence, reader, stops>>

\* Mutant: the tree is not made durable before it is published.
Unsynced(b) == b

Durable(b) == [b EXCEPT !.synced = TRUE]

(* The controls are made, the scratch removed, and the whole tree synced.  *)
FinishBuild(p) ==
    /\ At(p, "finish")
    /\ \/ build' = Durable(build) /\ Step(p, "reserve") /\ UNCHANGED <<pull, lease, faults>>
       \/ BuildFails(p)
    /\ UNCHANGED <<now, head, outer, tree, content, evidence, reader, stops>>

(* The next tag and the intent are written.                                *)
Reserve(p) ==
    /\ At(p, "reserve") /\ NextTag \in Tags
    /\ \/ /\ outer' = Rec([outer.seen EXCEPT !.greatest = NextTag, !.pub = NextTag])
          /\ tree' = Synced
          /\ cmd' = [cmd EXCEPT ![p].pc = "publish", ![p].tag = NextTag]
          /\ UNCHANGED <<build, pull, lease, faults>>
       \/ /\ outer' \in {outer, [outer EXCEPT !.seen = [@ EXCEPT !.greatest = NextTag, !.pub = NextTag]]}
          /\ BuildFails(p) /\ tree' = tree
    /\ UNCHANGED <<now, head, content, evidence, reader, stops>>

(* The build is renamed to its tag, and the intent cleared.  After a       *)
(* failure the intent stays, for recovery.                                 *)
Publish(p) ==
    LET t == cmd[p].tag
    IN  /\ At(p, "publish") /\ Pub = t
        /\ \E k \in 0 .. 2, shown \in BOOLEAN :
            LET named == k # 1 \/ shown
            IN  /\ Fails(k, shown)
                /\ tree' = IF k = 0 THEN [Synced EXCEPT ![t] = Rec("here")]
                           ELSE [tree EXCEPT ![t] = Write(k, shown, 1, @, "here")]
                /\ content' = IF ~named THEN content
                              ELSE [content EXCEPT ![t] = [seen |-> build.ver,
                                                           disk |-> IF build.synced THEN build.ver ELSE Torn]]
                /\ evidence' = IF named THEN [evidence EXCEPT ![t] = build.ver] ELSE evidence
                /\ build' = NoBuild
                /\ outer' = Write(k, shown, 2, outer, [outer.seen EXCEPT !.pub = 0])
                /\ IF k = 0 THEN Step(p, "admit") /\ UNCHANGED <<pull, lease>> ELSE Ends(p)
    /\ UNCHANGED <<now, head, reader, stops>>

(* The result is handed over admitted, the base's lease released; a        *)
(* snapshot that is past its age by now is published all the same.         *)
AdmitResult(p) ==
    LET t == cmd[p].tag
    IN  /\ At(p, "admit")
        /\ IF Admissible(t)
           THEN /\ Step(p, "handed") /\ pull' = None
                /\ lease' = [lease EXCEPT ![p] = {t}]
           ELSE Ends(p)
        /\ UNCHANGED <<now, head, store, reader, faults, stops>>

(* The caller has read the snapshot it was handed.                         *)
Release(p) ==
    /\ At(p, "handed")
    /\ cmd' = [cmd EXCEPT ![p] = Idle]
    /\ lease' = [lease EXCEPT ![p] = {}]
    /\ UNCHANGED <<now, head, store, pull, reader, faults, stops>>

----------------------------------------------------------------------------
(* Sweeping                                                                *)

(* A tag that has expired, or is listed removed, goes when no reader holds *)
(* it: its removal is written freshly, then its tree moved.                *)
RemoveIfDue(p) ==
    /\ At(p, "due")
    /\ \E t \in Newest(cmd[p].todo) :
        LET stays == t = Pub \/ (~Listed(t) /\ ~Expired(t)) \/ Held(t)
        IN  \/ /\ stays /\ cmd' = [cmd EXCEPT ![p].todo = @ \ {t}]
               /\ UNCHANGED <<outer, tree, pull, lease, faults>>
            \/ /\ ~stays
               /\ \E k \in 0 .. 2, shown \in BOOLEAN :
                   /\ Fails(k, shown)
                   /\ outer' = Write(k, shown, 1, outer, [outer.seen EXCEPT !.removed = @ \cup {t}])
                   /\ tree' = IF k = 1 THEN tree
                              ELSE [Synced EXCEPT ![t] = Write(k, shown, 2, Rec("here"), "removing")]
                   /\ IF k = 0 THEN cmd' = [cmd EXCEPT ![p].pc = "gone", ![p].tag = t] /\ UNCHANGED <<pull, lease>>
                      ELSE Ends(p)
    /\ UNCHANGED <<now, head, content, build, evidence, reader, stops>>

DeleteGone(p) ==
    /\ At(p, "gone")
    /\ Deleted({cmd[p].tag})
    /\ IF faults' = faults
       THEN cmd' = [cmd EXCEPT ![p].pc = "due", ![p].todo = @ \ {cmd[p].tag}] /\ UNCHANGED <<pull, lease>>
       ELSE Ends(p)
    /\ UNCHANGED <<now, head, outer, build, evidence, reader, stops>>

(* A sweep that has looked at every tag, or a publication settled, ends.   *)
Finish(p) ==
    /\ At(p, "end") \/ (At(p, "due") /\ cmd[p].todo = {})
    /\ Ends(p)
    /\ UNCHANGED <<now, head, store, reader, faults, stops>>

----------------------------------------------------------------------------
(* Readers                                                                 *)

Admit(x, t) ==
    /\ reader[x] = Away /\ Admissible(t)
    /\ reader' = [reader EXCEPT ![x] = [kind |-> "read", tag |-> t]]
    /\ UNCHANGED <<now, head, store, pull, cmd, lease, faults, stops>>

(* A judge run exchanges its read lease for a run lease, at any age.       *)
BindRun(x) ==
    /\ reader[x].kind = "read" /\ Here(reader[x].tag)
    /\ reader' = [reader EXCEPT ![x].kind = "run"]
    /\ UNCHANGED <<now, head, store, pull, cmd, lease, faults, stops>>

(* A child is admitted by its parent's held run lease, at any age.         *)
AdmitChild(x, y) ==
    /\ reader[x] = Away /\ reader[y].kind = "run" /\ Entry(reader[y].tag)
    /\ reader' = [reader EXCEPT ![x] = [kind |-> "child", tag |-> reader[y].tag]]
    /\ UNCHANGED <<now, head, store, pull, cmd, lease, faults, stops>>

Leave(x) ==
    /\ reader[x] # Away
    /\ reader' = [reader EXCEPT ![x] = Away]
    /\ UNCHANGED <<now, head, store, pull, cmd, lease, faults, stops>>

----------------------------------------------------------------------------
(* The world                                                               *)

Tick ==
    /\ now' \in {now - 1, now + 1} \cap 1 .. MaxTime
    /\ UNCHANGED <<head, store, pull, cmd, lease, reader, faults, stops>>

HeadMoves ==
    /\ head < MaxVersion /\ head' = head + 1
    /\ UNCHANGED <<now, store, pull, cmd, lease, reader, faults, stops>>

(* A command is killed: the system lets go of its locks.                   *)
Kill(p) ==
    /\ ~At(p, "idle") /\ stops < MaxStops /\ stops' = stops + 1
    /\ cmd' = [cmd EXCEPT ![p] = Idle]
    /\ pull' = IF pull = p THEN None ELSE pull
    /\ lease' = [lease EXCEPT ![p] = {}]
    /\ UNCHANGED <<now, head, store, reader, faults>>

PowerLoss ==
    /\ stops < MaxStops /\ stops' = stops + 1
    /\ outer' = Rec(outer.disk)
    /\ tree' = [t \in Tags |-> Rec(tree[t].disk)]
    /\ content' = [t \in Tags |-> Rec(content[t].disk)]
    /\ build' = NoBuild /\ evidence' = evidence
    /\ pull' = None
    /\ cmd' = [p \in Commands |-> Idle] /\ lease' = [p \in Commands |-> {}]
    /\ reader' = [x \in Readers |-> Away]
    /\ UNCHANGED <<now, head, faults>>

Init ==
    /\ now = 1 /\ head = 1
    /\ outer = Rec([greatest |-> 0, removed |-> {}, pub |-> 0])
    /\ tree = [t \in Tags |-> Rec("none")]
    /\ content = [t \in Tags |-> Rec(Torn)]
    /\ build = NoBuild
    /\ evidence = [t \in Tags |-> Torn]
    /\ pull = None
    /\ cmd = [p \in Commands |-> Idle] /\ lease = [p \in Commands |-> {}]
    /\ reader = [x \in Readers |-> Away]
    /\ faults = 0 /\ stops = 0

Next ==
    \/ \E p \in Commands :
        \/ \E mode \in {"pull", "sweep", "settle"} : Begin(p, mode)
        \/ Take(p) \/ Recover(p) \/ DiscardTree(p) \/ ClearIntent(p) \/ Clean(p) \/ EmptyRemoving(p)
        \/ SelectBase(p) \/ Fetch(p) \/ FinishBuild(p) \/ Reserve(p) \/ Publish(p) \/ AdmitResult(p) \/ Release(p)
        \/ RemoveIfDue(p) \/ DeleteGone(p) \/ Finish(p) \/ Kill(p)
    \/ \E x \in Readers : BindRun(x) \/ Leave(x)
    \/ \E x \in Readers, t \in Tags : Admit(x, t)
    \/ \E x \in Readers, y \in Readers : AdmitChild(x, y)
    \/ Tick \/ HeadMoves \/ PowerLoss

Spec == Init /\ [][Next]_vars

----------------------------------------------------------------------------
(* A held lease keeps its snapshot: the tree a reader or a pull works in   *)
(* stays where it is and whole, across expiry, sweeps and recoveries       *)
(* (admit.go:77-100, sweep.go:157-203).                                    *)
LeaseKeeps ==
    /\ \A x \in Readers : reader[x] # Away => Here(reader[x].tag) /\ content[reader[x].tag].seen # Torn
    /\ \A p \in Commands : \A t \in lease[p] : Here(t) /\ content[t].seen # Torn

(* What admits a reader is exactly what was published under the tag, also  *)
(* after a loss of power brings back a tree whose removal had begun        *)
(* (publish.go:68-136, 237-273).                                           *)
AdmitsWhole == \A t \in Tags : Entry(t) => content[t].seen = evidence[t] /\ evidence[t] # Torn

(* A tag is never published twice, though the clock goes back and power is *)
(* lost (tag.go:38-55, copy.go:144-158).                                   *)
TagsOnce == [][\A t \in Tags : evidence[t] # Torn => evidence'[t] = evidence[t]]_vars

=============================================================================
