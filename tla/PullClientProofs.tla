-------------------------- MODULE PullClientProofs --------------------------
(* Theorems of PullClient, for any commands, readers, tags, clock, faults   *)
(* and stops.                                                               *)
EXTENDS PullClient, TLAPS

Marker == [greatest : Nat, removed : SUBSET Tags, pub : 0 .. MaxTag]
PCs == {"idle", "take", "recover", "discard", "settle", "clean", "empty", "select", "build", "finish",
        "reserve", "publish", "admit", "handed", "due", "gone", "end"}
Modes == {"none", "pull", "sweep", "settle"}
Plan == [pc : PCs, mode : Modes, m : Nat, tag : Nat, todo : SUBSET Tags]
Places == {"none", "here", "removing"}
Trees == [Tags -> [seen : Places, disk : Places]]
Kinds == {"none", "read", "run", "child"}

\* Every variable holds a value of its kind.
StoreTypes ==
    /\ outer \in [seen : Marker, disk : Marker]
    /\ tree \in Trees
    /\ content \in [Tags -> [seen : Nat, disk : Nat]]
    /\ build \in [ver : Nat, synced : BOOLEAN]
    /\ evidence \in [Tags -> Nat]

Types ==
    /\ StoreTypes
    /\ now \in Nat /\ head \in Nat \ {0}
    /\ pull \in Commands \cup {None}
    /\ cmd \in [Commands -> Plan]
    /\ lease \in [Commands -> SUBSET Tags]
    /\ reader \in [Readers -> [kind : Kinds, tag : 0 .. MaxTag]]

\* The steps behind a settled publication, and all that hold the conversation.
Settled == {"clean", "empty", "select", "build", "finish", "reserve", "due", "gone", "end"}
Working == Settled \cup {"recover", "discard", "settle", "publish", "admit"}

\* One command works at a time, and a pull knows the manifest it is after.
Alone ==
    \A p \in Commands :
        /\ cmd[p].pc \in Working => pull = p
        /\ cmd[p].mode = "pull" => cmd[p].m # 0
        /\ cmd[p].pc \in {"select", "build"} => cmd[p].mode = "pull"

Gone(t) == tree[t].seen # "here" /\ tree[t].disk # "here"

\* What the command at work knows of the store, its build and its tag.
KnowsOf(p) ==
    /\ cmd[p].pc \in Settled => Pub = 0
    /\ cmd[p].pc \in {"discard", "settle"} =>
          Pub # 0 /\ outer.disk = outer.seen /\ Listed(Pub) /\ Gone(Pub)
    /\ cmd[p].pc = "empty" => \A t \in Tags : tree[t].seen = "removing" => Gone(t)
    /\ cmd[p].pc \in {"finish", "reserve", "publish"} => build.ver # Torn
    /\ cmd[p].pc \in {"reserve", "publish"} => build.synced = TRUE
    /\ cmd[p].pc = "publish" =>
          /\ cmd[p].tag \in Tags /\ cmd[p].tag <= outer.disk.greatest
          /\ outer.disk.pub = cmd[p].tag /\ evidence[cmd[p].tag] = Torn
    /\ cmd[p].pc = "admit" => cmd[p].tag \in Tags
    /\ cmd[p].pc = "due" => \A t \in cmd[p].todo : Here(t)
    /\ cmd[p].pc = "gone" =>
          cmd[p].tag \in Tags /\ Gone(cmd[p].tag) /\ \A t \in cmd[p].todo \ {cmd[p].tag} : Here(t)

Knows == \A p \in Commands : KnowsOf(p)

\* Every tag that ever named a tree is behind the greatest, also on the disk.
Ranked ==
    /\ outer.disk.greatest <= outer.seen.greatest
    /\ \A t \in Tags : tree[t].seen # "none" \/ tree[t].disk # "none" \/ evidence[t] # Torn
                          => t <= outer.disk.greatest

\* What would admit a reader after a loss of power.
EntryOnDisk(t) ==
    tree[t].disk = "here" /\ t # outer.disk.pub /\ t <= outer.disk.greatest /\ t \notin outer.disk.removed

Sound(t) == content[t].seen = evidence[t] /\ evidence[t] # Torn

Whole ==
    \A t \in Tags :
        /\ content[t].disk = content[t].seen
        /\ Entry(t) \/ EntryOnDisk(t) => Sound(t)

\* What a lease is on: there, whole, and of no unfinished publication.
Leased(t) == t \in Tags /\ Here(t) /\ t # Pub /\ t <= outer.seen.greatest /\ content[t].seen # Torn

Leases ==
    /\ \A x \in Readers : reader[x] # Away => Leased(reader[x].tag)
    /\ \A p \in Commands : \A t \in lease[p] : Leased(t)

\* What an action on the store has to keep, and what it does to held copies.
Store == StoreTypes /\ Ranked /\ Whole
KeepsHeld == \A t \in Tags : Leased(t) /\ Held(t) => Leased(t)'

IInv == Types /\ Alone /\ Knows /\ Ranked /\ Whole /\ Leases

-----------------------------------------------------------------------------
(* Records *)

LEMMA WriteCases ==
    ASSUME NEW k, NEW shown, NEW at, NEW old, NEW v
    PROVE  \/ Write(k, shown, at, old, v) = Rec(v)
           \/ Write(k, shown, at, old, v) = [old EXCEPT !.seen = v]
           \/ Write(k, shown, at, old, v) = old
    BY DEF Write

LEMMA RecFields ==
    ASSUME NEW S, NEW v \in S
    PROVE  Rec(v) \in [seen : S, disk : S] /\ Rec(v).seen = v /\ Rec(v).disk = v
    BY DEF Rec, Places

LEMMA SeenFields ==
    ASSUME NEW S, NEW old \in [seen : S, disk : S], NEW v \in S
    PROVE  /\ [old EXCEPT !.seen = v] \in [seen : S, disk : S]
           /\ [old EXCEPT !.seen = v].seen = v /\ [old EXCEPT !.seen = v].disk = old.disk
    OBVIOUS

LEMMA WriteType ==
    ASSUME NEW S, NEW old \in [seen : S, disk : S], NEW v \in S, NEW k, NEW shown, NEW at
    PROVE  Write(k, shown, at, old, v) \in [seen : S, disk : S]
    BY WriteCases, RecFields, SeenFields

\* A durable write of _copy, which is the first write of its transition.
LEMMA MarkWritten ==
    ASSUME StoreTypes, NEW k \in 0 .. 2, NEW shown, NEW v \in Marker,
           outer' = Write(k, shown, 1, outer, v)
    PROVE  /\ outer' \in [seen : Marker, disk : Marker]
           /\ k # 1 => outer'.seen = v /\ outer'.disk = v
           /\ k = 1 => outer'.seen \in {v, outer.seen} /\ outer'.disk = outer.disk
    <1>1. outer \in [seen : Marker, disk : Marker]
        BY DEF StoreTypes
    <1>2. outer' \in [seen : Marker, disk : Marker]
        BY <1>1, WriteType
    <1>3. CASE k # 1
        BY <1>2, <1>3, RecFields DEF Write
    <1>4. CASE k = 1
        BY <1>1, <1>2, <1>4, SeenFields DEF Write
    <1>5. QED
        BY <1>2, <1>3, <1>4

LEMMA MarkerFields ==
    ASSUME StoreTypes
    PROVE  /\ outer.seen \in Marker /\ outer.disk \in Marker
           /\ outer.seen.greatest \in Nat /\ outer.disk.greatest \in Nat
           /\ Pub \in 0 .. MaxTag /\ (Pub # 0 => Pub \in Tags)
    BY ClientBounds DEF StoreTypes, Marker, Pub, Tags

LEMMA RemovedFields ==
    ASSUME NEW m \in Marker, NEW t \in Tags, NEW n, n = [m EXCEPT !.removed = @ \cup {t}]
    PROVE  n \in Marker /\ n.greatest = m.greatest /\ n.pub = m.pub /\ n.removed = m.removed \cup {t}
    BY DEF Marker

LEMMA ClearedFields ==
    ASSUME NEW m \in Marker, NEW n, n = [m EXCEPT !.pub = 0]
    PROVE  n \in Marker /\ n.greatest = m.greatest /\ n.pub = 0 /\ n.removed = m.removed
    BY ClientBounds DEF Marker

LEMMA SyncedFields ==
    ASSUME StoreTypes
    PROVE  Synced \in Trees /\ \A t \in Tags : Synced[t].seen = tree[t].seen /\ Synced[t].disk = tree[t].seen
    BY DEF StoreTypes, Trees, Synced, Rec, Places

LEMMA TagsNat == \A t \in Tags : t \in Nat
    BY DEF Tags

LEMMA IdleFields == Idle \in Plan /\ Idle.pc = "idle" /\ Idle.mode = "none"
    BY DEF Idle, Plan, PCs, Modes

LEMMA StepFields ==
    ASSUME cmd \in [Commands -> Plan], NEW p \in Commands, NEW pc \in PCs, Step(p, pc)
    PROVE  /\ cmd' \in [Commands -> Plan]
           /\ cmd'[p].pc = pc /\ cmd'[p].mode = cmd[p].mode /\ cmd'[p].m = cmd[p].m
           /\ cmd'[p].tag = cmd[p].tag /\ cmd'[p].todo = cmd[p].todo
           /\ \A q \in Commands : q # p => cmd'[q] = cmd[q]
    BY DEF Step, Plan, PCs, Modes

-----------------------------------------------------------------------------
(* The store *)

\* An action that publishes nothing.
LEMMA StoreKept ==
    ASSUME StoreTypes, StoreTypes', Ranked, Whole, UNCHANGED <<content, evidence>>,
           outer.disk.greatest <= outer'.disk.greatest, outer'.disk.greatest <= outer'.seen.greatest,
           \A t \in Tags : tree'[t].seen # "none" \/ tree'[t].disk # "none"
                              => tree[t].seen # "none" \/ tree[t].disk # "none",
           \A t \in Tags : Entry(t)' \/ EntryOnDisk(t)' => Entry(t) \/ EntryOnDisk(t)
    PROVE  Store'
    <1>1. /\ outer.disk.greatest \in Nat /\ outer'.disk.greatest \in Nat
        BY DEF StoreTypes, Marker
    <1>2. ASSUME NEW t \in Tags, tree'[t].seen # "none" \/ tree'[t].disk # "none" \/ evidence'[t] # Torn
          PROVE  t <= outer'.disk.greatest
        <2>1. t <= outer.disk.greatest
            BY <1>2 DEF Ranked
        <2>2. QED
            BY <1>1, <2>1 DEF Tags
    <1>3. Ranked'
        BY <1>2 DEF Ranked
    <1>4. Whole'
        BY DEF Whole, Sound
    <1>5. QED
        BY <1>3, <1>4 DEF Store

\* An action that leaves _copy and the trees as they are.
LEMMA Unmoved ==
    ASSUME IInv, UNCHANGED <<outer, tree, content, evidence>>, build' \in [ver : Nat, synced : BOOLEAN]
    PROVE  Store' /\ KeepsHeld
    BY DEF IInv, Types, Store, StoreTypes, Ranked, Whole, KeepsHeld, Leased, Entry, EntryOnDisk, Sound,
           Here, Pub, Listed

LEMMA StoreSame ==
    ASSUME IInv, UNCHANGED store
    PROVE  Store' /\ KeepsHeld
    BY Unmoved DEF IInv, Types, StoreTypes, store

\* The trees that are deleted admit nobody, and nobody holds them.
LEMMA DeletedKeeps ==
    ASSUME IInv, NEW ts \in SUBSET Tags, Deleted(ts), \A t \in ts : Gone(t),
           UNCHANGED <<outer, evidence>>, build' \in [ver : Nat, synced : BOOLEAN]
    PROVE  /\ Store' /\ KeepsHeld
           /\ \A t \in Tags : Gone(t) => Gone(t)'
           /\ \A t \in Tags : Here(t) => Here(t)'
    <1>1. Torn \in Nat /\ Rec(Torn) \in [seen : Nat, disk : Nat] /\ Rec(Torn).seen = Torn /\ Rec(Torn).disk = Torn
          /\ Rec("none") \in [seen : Places, disk : Places] /\ Rec("none").seen = "none" /\ Rec("none").disk = "none"
        BY DEF Torn, Rec, Places
    <1>2. StoreTypes /\ Ranked /\ Whole
        BY DEF IInv, Types
    <1>3. /\ content' \in [Tags -> [seen : Nat, disk : Nat]]
          /\ \A t \in Tags : t \notin ts => content'[t] = content[t]
          /\ \A t \in ts : content'[t] = Rec(Torn)
        <2>1. content' = [t \in Tags |-> IF t \in ts THEN Rec(Torn) ELSE content[t]]
            BY DEF Deleted
        <2>2. QED
            BY <1>1, <1>2, <2>1 DEF StoreTypes
    <1>4. /\ tree' \in Trees
          /\ \A t \in Tags : t \notin ts => tree'[t] = tree[t]
          /\ \A t \in ts : tree'[t] = tree[t] \/ tree'[t] = Rec("none")
        <2>1. \/ tree' = [t \in Tags |-> IF t \in ts THEN Rec("none") ELSE tree[t]]
              \/ tree' = tree
            BY DEF Deleted
        <2>2. QED
            BY <1>1, <1>2, <2>1 DEF StoreTypes, Trees
    <1>5. StoreTypes'
        BY <1>2, <1>3, <1>4 DEF StoreTypes
    <1>6. /\ \A t \in Tags : tree'[t].seen = tree[t].seen \/ tree'[t].seen = "none"
          /\ \A t \in Tags : tree'[t].disk = tree[t].disk \/ tree'[t].disk = "none"
        BY <1>1, <1>4
    <1>7. Ranked'
        BY <1>2, <1>6 DEF Ranked
    <1>8. ASSUME NEW t \in ts PROVE tree'[t].seen # "here" /\ tree'[t].disk # "here"
        BY <1>6 DEF Gone
    <1>9. ASSUME NEW t \in Tags PROVE content'[t].disk = content'[t].seen
        BY <1>1, <1>2, <1>3 DEF Whole
    <1>10. ASSUME NEW t \in Tags, Entry(t)' \/ EntryOnDisk(t)' PROVE Sound(t)'
        <2>1. t \notin ts
            BY <1>8, <1>10 DEF Entry, EntryOnDisk, Here
        <2>2. tree'[t] = tree[t] /\ content'[t] = content[t]
            BY <1>3, <1>4, <2>1
        <2>3. Entry(t) \/ EntryOnDisk(t)
            BY <1>10, <2>2 DEF Entry, EntryOnDisk, Here, Pub, Listed
        <2>4. QED
            BY <1>2, <2>2, <2>3 DEF Whole, Sound
    <1>11. Whole'
        BY <1>9, <1>10 DEF Whole
    <1>12. ASSUME NEW t \in Tags, Here(t) PROVE Here(t)' /\ content'[t] = content[t]
        <2>1. t \notin ts
            BY <1>12 DEF Gone, Here
        <2>2. QED
            BY <1>3, <1>4, <1>12, <2>1 DEF Here
    <1>13. KeepsHeld
        BY <1>12 DEF KeepsHeld, Leased, Pub
    <1>14. \A t \in Tags : Gone(t) => Gone(t)'
        BY <1>6 DEF Gone
    <1>15. QED
        BY <1>5, <1>7, <1>11, <1>12, <1>13, <1>14 DEF Store

-----------------------------------------------------------------------------
(* Commands *)

\* No other command is at work.
LEMMA Others ==
    ASSUME Alone, NEW p \in Commands, cmd[p].pc \in Working, NEW q \in Commands, q # p
    PROVE  cmd[q].pc \notin Working
    BY DEF Alone

\* Leases stay good while what they are on does.
LEMMA LeasesKept ==
    ASSUME IInv, KeepsHeld, UNCHANGED reader, \A p \in Commands : lease'[p] \subseteq lease[p]
    PROVE  Leases'
    <1>1. ASSUME NEW x \in Readers, reader[x] # Away PROVE Leased(reader[x].tag)'
        <2>1. Leased(reader[x].tag) /\ Held(reader[x].tag)
            BY <1>1 DEF IInv, Leases, Held
        <2>2. reader[x].tag \in Tags
            BY <2>1 DEF Leased
        <2>3. QED
            BY <2>1, <2>2 DEF KeepsHeld, Leased, Here, Pub
    <1>2. ASSUME NEW p \in Commands, NEW t \in lease'[p] PROVE Leased(t)'
        <2>1. Leased(t) /\ Held(t)
            BY <1>2 DEF IInv, Leases, Held
        <2>2. QED
            BY <2>1 DEF KeepsHeld, Leased, Here, Pub
    <1>3. QED
        BY <1>1, <1>2 DEF Leases

\* A command that goes on to its next step.
LEMMA Goes ==
    ASSUME IInv, NEW p \in Commands, cmd[p].pc \in Working, UNCHANGED pull,
           cmd' \in [Commands -> Plan],
           cmd'[p].mode = "pull" => cmd'[p].m # 0,
           cmd'[p].pc \in {"select", "build"} => cmd'[p].mode = "pull",
           \A q \in Commands : q # p => cmd'[q] = cmd[q], KnowsOf(p)'
    PROVE  Alone' /\ Knows'
    <1>1. ASSUME NEW q \in Commands, q # p PROVE cmd'[q].pc \notin Working
        BY <1>1, Others DEF IInv
    <1>2. ASSUME NEW q \in Commands
          PROVE  /\ cmd'[q].pc \in Working => pull' = q
                 /\ cmd'[q].mode = "pull" => cmd'[q].m # 0
                 /\ cmd'[q].pc \in {"select", "build"} => cmd'[q].mode = "pull"
        BY <1>1 DEF IInv, Alone
    <1>3. ASSUME NEW q \in Commands, q # p PROVE KnowsOf(q)'
        BY <1>1, <1>3 DEF KnowsOf, Working, Settled
    <1>4. QED
        BY <1>2, <1>3 DEF Alone, Knows

LEMMA GoesOn ==
    ASSUME IInv, NEW p \in Commands, cmd[p].pc \in Working, UNCHANGED <<now, head, pull, reader, lease>>,
           Store', KeepsHeld, cmd' \in [Commands -> Plan],
           cmd'[p].mode = cmd[p].mode, cmd'[p].m = cmd[p].m,
           cmd'[p].pc \in {"select", "build"} => cmd[p].mode = "pull",
           \A q \in Commands : q # p => cmd'[q] = cmd[q], KnowsOf(p)'
    PROVE  IInv'
    <1>1. cmd'[p].mode = "pull" => cmd'[p].m # 0
        BY DEF IInv, Alone
    <1>2. Alone' /\ Knows'
        BY <1>1, Goes
    <1>3. Leases'
        BY LeasesKept
    <1>4. Types'
        BY DEF IInv, Types, Store
    <1>5. QED
        BY <1>2, <1>3, <1>4 DEF IInv, Store

\* A command that ends: none is at work.
LEMMA Ended ==
    ASSUME IInv, NEW p \in Commands, cmd[p].pc \in Working, Ends(p), UNCHANGED <<now, head, reader>>,
           Store', KeepsHeld
    PROVE  IInv'
    <1>1. ASSUME NEW q \in Commands PROVE cmd'[q].pc \notin Working
        <2>1. cmd \in [Commands -> Plan]
            BY DEF IInv, Types
        <2>2. CASE q = p
            BY <2>1, <2>2, IdleFields DEF Ends, Working, Settled
        <2>3. CASE q # p
            BY <2>1, <2>3, Others DEF IInv, Ends
        <2>4. QED
            BY <2>2, <2>3
    <1>2. Types'
        BY IdleFields DEF Ends, IInv, Types, Store
    <1>3. \A q \in Commands : lease'[q] \subseteq lease[q]
        BY DEF Ends, IInv, Types
    <1>4. ASSUME NEW q \in Commands
          PROVE  /\ cmd'[q].mode = "pull" => cmd'[q].m # 0
                 /\ cmd'[q].pc \in {"select", "build"} => cmd'[q].mode = "pull"
        <2>1. cmd'[q] = Idle \/ cmd'[q] = cmd[q]
            BY DEF Ends, IInv, Types
        <2>2. QED
            BY <2>1, IdleFields DEF IInv, Alone
    <1>5. Alone'
        BY <1>1, <1>4 DEF Alone
    <1>6. Knows'
        BY <1>1 DEF Knows, KnowsOf, Working, Settled
    <1>7. Leases'
        BY <1>3, LeasesKept
    <1>8. QED
        BY <1>2, <1>5, <1>6, <1>7 DEF IInv, Store

\* A command that holds no lease any more and does nothing.
LEMMA Stopped ==
    ASSUME IInv, NEW p \in Commands, UNCHANGED <<now, head, store, reader>>, Store', KeepsHeld,
           cmd' = [cmd EXCEPT ![p] = Idle], lease' = [lease EXCEPT ![p] = {}],
           (pull' = pull /\ cmd[p].pc \notin Working) \/ pull' = IF pull = p THEN None ELSE pull
    PROVE  IInv'
    <1>1. UNCHANGED <<outer, tree, content, build, evidence>>
        BY DEF store
    <1>2. /\ cmd' \in [Commands -> Plan] /\ cmd'[p] = Idle /\ \A q \in Commands : q # p => cmd'[q] = cmd[q]
          /\ lease' \in [Commands -> SUBSET Tags] /\ \A q \in Commands : lease'[q] \subseteq lease[q]
          /\ pull' \in Commands \cup {None}
        BY IdleFields DEF IInv, Types
    <1>3. Types'
        BY <1>2 DEF IInv, Types, Store
    <1>4. ASSUME NEW q \in Commands
          PROVE  /\ cmd'[q].pc \in Working => pull' = q
                 /\ cmd'[q].mode = "pull" => cmd'[q].m # 0
                 /\ cmd'[q].pc \in {"select", "build"} => cmd'[q].mode = "pull"
        BY <1>2, IdleFields DEF IInv, Alone, Working, Settled
    <1>5. ASSUME NEW q \in Commands PROVE KnowsOf(q)'
        <2>1. CASE q = p
            BY <1>2, <2>1, IdleFields DEF KnowsOf, Settled
        <2>2. CASE q # p
            BY <1>1, <1>2, <2>2 DEF IInv, Knows, KnowsOf, Pub, Listed, Gone, Here
        <2>3. QED
            BY <2>1, <2>2
    <1>6. Leases'
        BY <1>2, LeasesKept
    <1>7. QED
        BY <1>3, <1>4, <1>5, <1>6 DEF IInv, Alone, Knows, Store

\* A command that hands a leased copy over and lets go of the conversation.
LEMMA Handed ==
    ASSUME IInv, NEW p \in Commands, cmd[p].pc \in Working, UNCHANGED <<now, head, reader>>, Store', Leases',
           cmd' \in [Commands -> Plan], cmd'[p].pc = "handed", cmd'[p].mode = cmd[p].mode, cmd'[p].m = cmd[p].m,
           \A q \in Commands : q # p => cmd'[q] = cmd[q], lease' \in [Commands -> SUBSET Tags], pull' = None
    PROVE  IInv'
    <1>1. ASSUME NEW q \in Commands PROVE cmd'[q].pc \notin Working
        BY Others DEF IInv, Working, Settled
    <1>2. Knows'
        BY <1>1 DEF Knows, KnowsOf, Working, Settled
    <1>3. ASSUME NEW q \in Commands
          PROVE  /\ cmd'[q].mode = "pull" => cmd'[q].m # 0
                 /\ cmd'[q].pc \in {"select", "build"} => cmd'[q].mode = "pull"
        <2>1. CASE q = p
            BY <2>1 DEF IInv, Alone
        <2>2. CASE q # p
            BY <2>2 DEF IInv, Alone
        <2>3. QED
            BY <2>1, <2>2
    <1>4. Alone'
        BY <1>1, <1>3 DEF Alone
    <1>5. Types'
        BY DEF IInv, Types, Store
    <1>6. QED
        BY <1>2, <1>4, <1>5 DEF IInv, Store

-----------------------------------------------------------------------------
(* One lemma per action *)

LEMMA BeginStep ==
    ASSUME IInv, NEW p \in Commands, NEW mode \in {"pull", "sweep", "settle"}, Begin(p, mode)
    PROVE  IInv'
    <1>1. /\ cmd' \in [Commands -> Plan] /\ cmd'[p].pc = "take"
          /\ cmd'[p].mode = "pull" => cmd'[p].m # 0
          /\ \A q \in Commands : q # p => cmd'[q] = cmd[q]
        BY DEF Begin, IInv, Types, Idle, Plan, PCs, Modes
    <1>2. Store' /\ KeepsHeld
        BY StoreSame DEF Begin
    <1>3. Types'
        BY <1>1, <1>2 DEF Begin, IInv, Types, Store
    <1>4. Alone'
        BY <1>1 DEF Begin, IInv, Alone, Working, Settled
    <1>5. ASSUME NEW q \in Commands PROVE KnowsOf(q)'
        <2>1. CASE q = p
            BY <1>1, <2>1 DEF KnowsOf, Settled
        <2>2. CASE q # p
            BY <1>1, <2>2 DEF Begin, IInv, Knows, KnowsOf, store, Pub, Listed, Gone, Here
        <2>3. QED
            BY <2>1, <2>2
    <1>6. Leases'
        BY <1>2, LeasesKept DEF Begin
    <1>7. QED
        BY <1>2, <1>3, <1>4, <1>5, <1>6 DEF IInv, Knows, Store

LEMMA TakeStep ==
    ASSUME IInv, NEW p \in Commands, Take(p)
    PROVE  IInv'
    <1>1. /\ cmd' \in [Commands -> Plan] /\ cmd'[p].pc \in {"recover", "idle"}
          /\ cmd'[p].mode = "pull" => cmd'[p].m # 0
          /\ \A q \in Commands : q # p => cmd'[q] = cmd[q]
          /\ cmd'[p].pc = "recover" => pull = None /\ pull' = p
          /\ cmd'[p].pc = "idle" => pull' = pull
        BY IdleFields DEF Take, Step, IInv, Types, Alone, Plan, PCs, Modes
    <1>2. Store' /\ KeepsHeld
        BY StoreSame DEF Take
    <1>3. Types'
        BY <1>1, <1>2 DEF Take, IInv, Types, Store
    <1>4. ASSUME NEW q \in Commands, cmd'[q].pc \in Working PROVE pull' = q
        <2>1. CASE q = p
            BY <1>1, <1>4, <2>1 DEF Working, Settled
        <2>2. CASE q # p
            <3>1. pull = q
                BY <1>1, <1>4, <2>2 DEF IInv, Alone
            <3>2. QED
                BY <1>1, <3>1, ClientBounds
        <2>3. QED
            BY <2>1, <2>2
    <1>5. Alone'
        BY <1>1, <1>4 DEF IInv, Alone
    <1>6. ASSUME NEW q \in Commands PROVE KnowsOf(q)'
        <2>1. CASE q = p
            BY <1>1, <2>1 DEF KnowsOf, Settled
        <2>2. CASE q # p
            BY <1>1, <2>2 DEF Take, IInv, Knows, KnowsOf, store, Pub, Listed, Gone, Here
        <2>3. QED
            BY <2>1, <2>2
    <1>7. Leases'
        BY <1>2, LeasesKept DEF Take
    <1>8. QED
        BY <1>2, <1>3, <1>5, <1>6, <1>7 DEF IInv, Knows, Store

LEMMA RecoverStep ==
    ASSUME IInv, NEW p \in Commands, Recover(p)
    PROVE  IInv'
    <1>1. /\ cmd[p].pc = "recover" /\ cmd[p].pc \in Working
          /\ Types /\ StoreTypes /\ Ranked /\ Whole /\ cmd \in [Commands -> Plan]
        BY DEF Recover, At, IInv, Types, Working
    <1>2. UNCHANGED <<now, head, content, build, evidence, reader>>
        BY DEF Recover
    <1>3. CASE Pub = 0 /\ Step(p, "clean") /\ UNCHANGED <<outer, tree, pull, lease>>
        <2>1. Store' /\ KeepsHeld
            BY <1>2, <1>3, StoreSame DEF store
        <2>2. /\ cmd' \in [Commands -> Plan] /\ cmd'[p].pc = "clean" /\ cmd'[p].mode = cmd[p].mode
              /\ cmd'[p].m = cmd[p].m /\ \A q \in Commands : q # p => cmd'[q] = cmd[q]
            BY <1>1, <1>3, StepFields DEF PCs
        <2>3. KnowsOf(p)'
            BY <1>3, <2>2 DEF KnowsOf, Pub
        <2>4. QED
            BY <1>1, <1>2, <1>3, <2>1, <2>2, <2>3, GoesOn
    <1>4. CASE Pub # 0 /\ ~(Pub = 0 /\ Step(p, "clean") /\ UNCHANGED <<outer, tree, pull, lease>>)
        <2> DEFINE v == [outer.seen EXCEPT !.removed = @ \cup {Pub}]
        <2>1. PICK k \in 0 .. 2, shown \in BOOLEAN :
                   /\ outer' = Write(k, shown, 1, outer, v)
                   /\ tree' = IF k = 1 THEN tree
                              ELSE [t \in Tags |-> IF t = Pub /\ Here(t)
                                                   THEN Write(k, shown, 2, Rec("here"), "removing")
                                                   ELSE Synced[t]]
                   /\ IF k = 0 THEN Step(p, "discard") /\ UNCHANGED <<pull, lease>> ELSE Ends(p)
            BY <1>4 DEF Recover
        <2>2. Pub \in Tags /\ outer.seen \in Marker /\ outer.disk \in Marker
            BY <1>1, <1>4, MarkerFields
        <2>3. /\ v \in Marker /\ v.greatest = outer.seen.greatest /\ v.pub = Pub
              /\ v.removed = outer.seen.removed \cup {Pub}
            BY <2>2, RemovedFields DEF Pub
        <2> HIDE DEF v
        <2>4. /\ outer' \in [seen : Marker, disk : Marker]
              /\ k # 1 => outer'.seen = v /\ outer'.disk = v
              /\ k = 1 => outer'.seen \in {v, outer.seen} /\ outer'.disk = outer.disk
            BY <1>1, <2>1, <2>3, MarkWritten
        <2>5. /\ tree' \in Trees
              /\ k = 1 => tree' = tree
              /\ \A t \in Tags : t # Pub => tree'[t].seen = tree[t].seen /\ (k # 1 => tree'[t].disk = tree[t].seen)
              /\ tree[Pub].seen # "here" => tree'[Pub].seen # "here"
              /\ k = 0 => tree'[Pub].seen # "here" /\ tree'[Pub].disk # "here"
              /\ tree'[Pub].seen # "none" \/ tree'[Pub].disk # "none" => tree[Pub].seen # "none" \/ tree[Pub].disk # "none"
            <3>1. CASE k = 1
                BY <1>1, <2>1, <3>1 DEF StoreTypes
            <3>2. CASE k # 1
                <4> DEFINE w == Write(k, shown, 2, Rec("here"), "removing")
                <4>1. w \in [seen : Places, disk : Places]
                    BY RecFields, WriteType DEF Places
                <4>2. k = 0 => w.seen = "removing" /\ w.disk = "removing"
                    BY RecFields DEF Write
                <4>3. tree' = [t \in Tags |-> IF t = Pub /\ Here(t) THEN w ELSE Synced[t]]
                    BY <2>1, <3>2
                <4> HIDE DEF w
                <4>4. Synced \in Trees /\ \A t \in Tags : Synced[t].seen = tree[t].seen /\ Synced[t].disk = tree[t].seen
                    BY <1>1, SyncedFields
                <4>5. tree' \in Trees
                    BY <4>1, <4>3, <4>4 DEF Trees
                <4>6. \A t \in Tags : t # Pub => tree'[t].seen = tree[t].seen /\ tree'[t].disk = tree[t].seen
                    BY <4>3, <4>4
                <4>7. Here(Pub) => tree'[Pub] = w
                    BY <2>2, <4>3
                <4>8. ~Here(Pub) => tree'[Pub].seen = tree[Pub].seen /\ tree'[Pub].disk = tree[Pub].seen
                    BY <2>2, <4>3, <4>4
                <4>9. QED
                    BY <3>2, <4>2, <4>5, <4>6, <4>7, <4>8 DEF Here
            <3>3. QED
                BY <3>1, <3>2
        <2>6. /\ Pub' = Pub /\ outer'.seen.greatest = outer.seen.greatest
              /\ outer.seen.removed \subseteq outer'.seen.removed
              /\ k # 1 => outer'.disk = outer'.seen /\ Pub \in outer'.seen.removed
            BY <2>3, <2>4 DEF Pub
        <2>7. outer.disk.greatest <= outer'.disk.greatest /\ outer'.disk.greatest <= outer'.seen.greatest
            BY <1>1, <2>2, <2>3, <2>4, <2>6 DEF Ranked, Marker
        <2>8. ASSUME NEW t \in Tags, tree'[t].seen # "none" \/ tree'[t].disk # "none"
              PROVE  tree[t].seen # "none" \/ tree[t].disk # "none"
            BY <2>5, <2>8
        <2>9. ASSUME NEW t \in Tags, Entry(t)' PROVE Entry(t)
            <3>1. t # Pub
                BY <2>6, <2>9 DEF Entry
            <3>2. QED
                BY <2>5, <2>6, <2>9, <3>1 DEF Entry, Here, Listed
        <2>10. ASSUME NEW t \in Tags, EntryOnDisk(t)' PROVE Entry(t) \/ EntryOnDisk(t)
            <3>1. CASE k = 1
                BY <2>4, <2>5, <2>10, <3>1 DEF EntryOnDisk
            <3>2. CASE k # 1
                <4>1. t # Pub
                    BY <2>3, <2>4, <2>10, <3>2 DEF EntryOnDisk
                <4>2. QED
                    BY <2>3, <2>4, <2>5, <2>10, <3>2, <4>1 DEF EntryOnDisk, Entry, Here, Listed
            <3>3. QED
                BY <3>1, <3>2
        <2>11. StoreTypes'
            BY <1>1, <1>2, <2>4, <2>5 DEF StoreTypes
        <2>12. Store'
            BY <1>1, <1>2, <2>7, <2>8, <2>9, <2>10, <2>11, StoreKept
        <2>13. KeepsHeld
            BY <1>2, <2>5, <2>6 DEF KeepsHeld, Leased, Here
        <2>14. CASE k = 0
            <3>1. Step(p, "discard") /\ UNCHANGED <<pull, lease>>
                BY <2>1, <2>14
            <3>2. /\ cmd' \in [Commands -> Plan] /\ cmd'[p].pc = "discard" /\ cmd'[p].mode = cmd[p].mode
                  /\ cmd'[p].m = cmd[p].m /\ \A q \in Commands : q # p => cmd'[q] = cmd[q]
                BY <1>1, <3>1, StepFields DEF PCs
            <3>3. Pub' # 0 /\ outer'.disk = outer'.seen /\ Listed(Pub)' /\ Gone(Pub)'
                BY <1>4, <2>5, <2>6, <2>14 DEF Listed, Gone
            <3>4. KnowsOf(p)'
                BY <3>2, <3>3 DEF KnowsOf, Settled
            <3>5. QED
                BY <1>1, <1>2, <2>12, <2>13, <3>1, <3>2, <3>4, GoesOn
        <2>15. CASE k # 0
            <3>1. Ends(p)
                BY <2>1, <2>15
            <3>2. QED
                BY <1>1, <1>2, <2>12, <2>13, <3>1, Ended
        <2>16. QED
            BY <2>14, <2>15
    <1>5. QED
        BY <1>3, <1>4 DEF Recover

LEMMA DiscardTreeStep ==
    ASSUME IInv, NEW p \in Commands, DiscardTree(p)
    PROVE  IInv'
    <1>1. /\ cmd[p].pc = "discard" /\ cmd[p].pc \in Working /\ Types /\ StoreTypes /\ cmd \in [Commands -> Plan]
          /\ Pub # 0 /\ outer.disk = outer.seen /\ Listed(Pub) /\ Gone(Pub)
        BY DEF DiscardTree, At, IInv, Types, Working, Knows, KnowsOf
    <1>2. Pub \in Tags
        BY <1>1, MarkerFields
    <1>3. UNCHANGED <<now, head, outer, evidence, reader>>
        BY DEF DiscardTree
    <1>4. build' \in [ver : Nat, synced : BOOLEAN]
        BY DEF DiscardTree, NoBuild, Torn
    <1>5. PICK ts \in SUBSET Tags : Deleted(ts) /\ \A t \in ts : t = Pub
        BY <1>2 DEF DiscardTree
    <1>6. /\ Store' /\ KeepsHeld
          /\ \A t \in Tags : Gone(t) => Gone(t)'
        BY <1>1, <1>3, <1>4, <1>5, DeletedKeeps
    <1>7. CASE Step(p, "settle") /\ UNCHANGED <<pull, lease>>
        <2>1. /\ cmd' \in [Commands -> Plan] /\ cmd'[p].pc = "settle" /\ cmd'[p].mode = cmd[p].mode
              /\ cmd'[p].m = cmd[p].m /\ \A q \in Commands : q # p => cmd'[q] = cmd[q]
            BY <1>1, <1>7, StepFields DEF PCs
        <2>2. Pub' = Pub /\ Pub' # 0 /\ outer'.disk = outer'.seen /\ Listed(Pub)'
            BY <1>1, <1>3 DEF Listed, Pub
        <2>3. Gone(Pub)'
            BY <1>1, <1>2, <1>6, <2>2 DEF Gone
        <2>4. KnowsOf(p)'
            BY <2>1, <2>2, <2>3 DEF KnowsOf, Settled
        <2>5. QED
            BY <1>1, <1>3, <1>6, <1>7, <2>1, <2>4, GoesOn
    <1>8. CASE Ends(p)
        BY <1>1, <1>3, <1>6, <1>8, Ended
    <1>9. QED
        BY <1>7, <1>8 DEF DiscardTree

LEMMA ClearIntentStep ==
    ASSUME IInv, NEW p \in Commands, ClearIntent(p)
    PROVE  IInv'
    <1>1. /\ cmd[p].pc = "settle" /\ cmd[p].pc \in Working /\ Types /\ StoreTypes /\ Ranked /\ Whole
          /\ cmd \in [Commands -> Plan]
          /\ outer.disk = outer.seen /\ Listed(Pub)
        BY DEF ClearIntent, At, IInv, Types, Working, Knows, KnowsOf
    <1>2. UNCHANGED <<now, head, content, build, evidence, reader>>
        BY DEF ClearIntent
    <1> DEFINE v == [outer.seen EXCEPT !.pub = 0]
    <1>3. PICK k \in {0, 1}, shown \in BOOLEAN :
              /\ outer' = Write(k, shown, 1, outer, v)
              /\ tree' = IF k = 0 THEN Synced ELSE tree
              /\ IF k = 0 THEN Step(p, "clean") /\ UNCHANGED <<pull, lease>> ELSE Ends(p)
        BY DEF ClearIntent
    <1>4. /\ outer.seen \in Marker /\ v \in Marker /\ v.greatest = outer.seen.greatest /\ v.pub = 0
          /\ v.removed = outer.seen.removed
        BY <1>1, MarkerFields, ClearedFields
    <1> HIDE DEF v
    <1>5. /\ outer' \in [seen : Marker, disk : Marker]
          /\ k = 0 => outer'.seen = v /\ outer'.disk = v
          /\ k = 1 => outer'.seen \in {v, outer.seen} /\ outer'.disk = outer.disk
        BY <1>1, <1>3, <1>4, MarkWritten
    <1>6. /\ outer'.seen.greatest = outer.seen.greatest /\ outer'.disk.greatest = outer.seen.greatest
          /\ outer'.seen.removed = outer.seen.removed /\ outer'.disk.removed = outer.seen.removed
        BY <1>1, <1>3, <1>4, <1>5
    <1>7. /\ tree' \in Trees
          /\ \A t \in Tags : tree'[t].seen = tree[t].seen
          /\ \A t \in Tags : tree'[t].disk = tree[t].disk \/ (k = 0 /\ tree'[t].disk = tree[t].seen)
        BY <1>1, <1>3, SyncedFields DEF StoreTypes
    <1>8. \A t \in Tags : ~Listed(t) => t # Pub
        BY <1>1
    <1>9. ASSUME NEW t \in Tags, Entry(t)' PROVE Entry(t)
        BY <1>6, <1>7, <1>8, <1>9 DEF Entry, Here, Listed
    <1>10. ASSUME NEW t \in Tags, EntryOnDisk(t)' PROVE Entry(t) \/ EntryOnDisk(t)
        <2>1. t # Pub /\ ~Listed(t) /\ t <= outer.seen.greatest /\ t # outer.disk.pub
            BY <1>1, <1>6, <1>8, <1>10 DEF EntryOnDisk, Listed, Pub
        <2>2. QED
            BY <1>1, <1>7, <1>10, <2>1 DEF EntryOnDisk, Entry, Here, Listed
    <1>11. StoreTypes'
        BY <1>1, <1>2, <1>5, <1>7 DEF StoreTypes
    <1>12. outer.disk.greatest <= outer'.disk.greatest /\ outer'.disk.greatest <= outer'.seen.greatest
        BY <1>1, <1>4, <1>6 DEF Marker
    <1>13. Store'
        BY <1>1, <1>2, <1>7, <1>9, <1>10, <1>11, <1>12, StoreKept
    <1>14. KeepsHeld
        <2>1. ASSUME NEW t \in Tags, Leased(t) PROVE t # Pub'
            BY <1>4, <1>5, <2>1 DEF Leased, Pub, Tags
        <2>2. QED
            BY <1>2, <1>6, <1>7, <2>1 DEF KeepsHeld, Leased, Here
    <1>15. CASE k = 0
        <2>1. Step(p, "clean") /\ UNCHANGED <<pull, lease>>
            BY <1>3, <1>15
        <2>2. /\ cmd' \in [Commands -> Plan] /\ cmd'[p].pc = "clean" /\ cmd'[p].mode = cmd[p].mode
              /\ cmd'[p].m = cmd[p].m /\ \A q \in Commands : q # p => cmd'[q] = cmd[q]
            BY <1>1, <2>1, StepFields DEF PCs
        <2>3. KnowsOf(p)'
            BY <1>4, <1>5, <1>15, <2>2 DEF KnowsOf, Pub
        <2>4. QED
            BY <1>1, <1>2, <1>13, <1>14, <2>1, <2>2, <2>3, GoesOn
    <1>16. CASE k # 0
        BY <1>1, <1>2, <1>3, <1>13, <1>14, <1>16, Ended
    <1>17. QED
        BY <1>15, <1>16

\* A command that has cleaned up goes on to its own work.
LEMMA AfterCleaning ==
    ASSUME IInv, NEW p \in Commands, cmd[p].pc \in Working, Pub' = 0,
           cmd' = [cmd EXCEPT ![p].pc = After(cmd[p].mode), ![p].todo = ToSweep(cmd[p].mode)],
           \A t \in Tags : Here(t) => Here(t)'
    PROVE  /\ cmd' \in [Commands -> Plan] /\ cmd'[p].mode = cmd[p].mode /\ cmd'[p].m = cmd[p].m
           /\ cmd'[p].pc \in {"select", "build"} => cmd[p].mode = "pull"
           /\ \A q \in Commands : q # p => cmd'[q] = cmd[q]
           /\ KnowsOf(p)'
    <1>1. ToSweep(cmd[p].mode) \in SUBSET Tags /\ \A t \in ToSweep(cmd[p].mode) : t \in Tags /\ Here(t)
        BY DEF ToSweep
    <1>2. After(cmd[p].mode) \in PCs /\ After(cmd[p].mode) \in {"select", "due", "end"}
          /\ (After(cmd[p].mode) = "select" => cmd[p].mode = "pull")
        BY DEF After, PCs
    <1>3. cmd \in [Commands -> Plan]
        BY DEF IInv, Types
    <1>4. /\ cmd' \in [Commands -> Plan] /\ cmd'[p].mode = cmd[p].mode /\ cmd'[p].m = cmd[p].m
          /\ cmd'[p].pc = After(cmd[p].mode) /\ cmd'[p].todo = ToSweep(cmd[p].mode)
          /\ \A q \in Commands : q # p => cmd'[q] = cmd[q]
        BY <1>1, <1>2, <1>3 DEF Plan, PCs, Modes
    <1>5. KnowsOf(p)'
        BY <1>1, <1>2, <1>4 DEF KnowsOf
    <1>6. QED
        BY <1>2, <1>4, <1>5

LEMMA CleanStep ==
    ASSUME IInv, NEW p \in Commands, Clean(p)
    PROVE  IInv'
    <1>1. /\ cmd[p].pc = "clean" /\ cmd[p].pc \in Working /\ Types /\ StoreTypes /\ Ranked /\ Whole
          /\ cmd \in [Commands -> Plan] /\ Pub = 0
        BY DEF Clean, At, IInv, Types, Working, Settled, Knows, KnowsOf
    <1>2. UNCHANGED <<now, head, content, evidence, reader>>
        BY DEF Clean
    <1>3. build' \in [ver : Nat, synced : BOOLEAN]
        BY DEF Clean, NoBuild, Torn
    <1> DEFINE looks == cmd' = [cmd EXCEPT ![p].pc = After(cmd[p].mode), ![p].todo = ToSweep(cmd[p].mode)]
    <1>4. CASE UNCHANGED <<outer, tree, pull, lease>> /\ looks
        <2>1. Store' /\ KeepsHeld
            BY <1>1, <1>2, <1>3, <1>4 DEF Store, StoreTypes, Ranked, Whole, KeepsHeld, Leased, Entry, EntryOnDisk,
               Sound, Here, Pub, Listed
        <2>2. Pub' = 0 /\ \A t \in Tags : Here(t) => Here(t)'
            BY <1>1, <1>4 DEF Pub, Here
        <2>3. /\ cmd' \in [Commands -> Plan] /\ cmd'[p].mode = cmd[p].mode /\ cmd'[p].m = cmd[p].m
              /\ cmd'[p].pc \in {"select", "build"} => cmd[p].mode = "pull"
              /\ \A q \in Commands : q # p => cmd'[q] = cmd[q]
              /\ KnowsOf(p)'
            BY <1>1, <1>4, <2>2, AfterCleaning
        <2>4. QED
            BY <1>1, <1>2, <1>4, <2>1, <2>3, GoesOn
    <1>5. CASE \E k \in {0, 1}, shown \in BOOLEAN :
                  /\ outer' = Write(k, shown, 1, outer, outer.seen)
                  /\ tree' = IF k = 0 THEN Synced ELSE tree
                  /\ IF k = 0 THEN Step(p, "empty") /\ UNCHANGED <<pull, lease>> ELSE Ends(p)
        <2>1. PICK k \in {0, 1}, shown \in BOOLEAN :
                  /\ outer' = Write(k, shown, 1, outer, outer.seen)
                  /\ tree' = IF k = 0 THEN Synced ELSE tree
                  /\ IF k = 0 THEN Step(p, "empty") /\ UNCHANGED <<pull, lease>> ELSE Ends(p)
            BY <1>5
        <2>2. outer.seen \in Marker /\ outer.disk \in Marker
            BY <1>1, MarkerFields
        <2>3. /\ outer' \in [seen : Marker, disk : Marker] /\ outer'.seen = outer.seen
              /\ k = 0 => outer'.disk = outer.seen
              /\ k = 1 => outer'.disk = outer.disk
            BY <1>1, <2>1, <2>2, MarkWritten
        <2>4. /\ tree' \in Trees
              /\ \A t \in Tags : tree'[t].seen = tree[t].seen
              /\ \A t \in Tags : (k = 1 => tree'[t].disk = tree[t].disk) /\ (k = 0 => tree'[t].disk = tree[t].seen)
            BY <1>1, <2>1, SyncedFields DEF StoreTypes
        <2>5. StoreTypes'
            BY <1>1, <1>2, <1>3, <2>3, <2>4 DEF StoreTypes
        <2>6. outer.disk.greatest <= outer'.disk.greatest /\ outer'.disk.greatest <= outer'.seen.greatest
            BY <1>1, <2>2, <2>3 DEF Marker, Ranked
        <2>7. ASSUME NEW t \in Tags, tree'[t].seen # "none" \/ tree'[t].disk # "none"
              PROVE  tree[t].seen # "none" \/ tree[t].disk # "none"
            BY <2>1, <2>4, <2>7
        <2>8. ASSUME NEW t \in Tags, Entry(t)' PROVE Entry(t)
            BY <2>3, <2>4, <2>8 DEF Entry, Here, Listed, Pub
        <2>9. ASSUME NEW t \in Tags, EntryOnDisk(t)' PROVE Entry(t) \/ EntryOnDisk(t)
            BY <2>1, <2>3, <2>4, <2>9 DEF EntryOnDisk, Entry, Here, Listed, Pub
        <2>10. Store'
            BY <1>1, <1>2, <2>5, <2>6, <2>7, <2>8, <2>9, StoreKept
        <2>11. KeepsHeld
            BY <1>2, <2>3, <2>4 DEF KeepsHeld, Leased, Here, Pub
        <2>12. CASE k = 0
            <3>1. Step(p, "empty") /\ UNCHANGED <<pull, lease>>
                BY <2>1, <2>12
            <3>2. /\ cmd' \in [Commands -> Plan] /\ cmd'[p].pc = "empty" /\ cmd'[p].mode = cmd[p].mode
                  /\ cmd'[p].m = cmd[p].m /\ \A q \in Commands : q # p => cmd'[q] = cmd[q]
                BY <1>1, <3>1, StepFields DEF PCs
            <3>3. Pub' = 0 /\ \A t \in Tags : (tree[t].seen = "removing")' => Gone(t)'
                BY <1>1, <2>3, <2>4, <2>12 DEF Pub, Gone
            <3>4. KnowsOf(p)'
                BY <3>2, <3>3 DEF KnowsOf
            <3>5. QED
                BY <1>1, <1>2, <2>10, <2>11, <3>1, <3>2, <3>4, GoesOn
        <2>13. CASE k # 0
            BY <1>1, <1>2, <2>1, <2>10, <2>11, <2>13, Ended
        <2>14. QED
            BY <2>12, <2>13
    <1>6. QED
        BY <1>4, <1>5 DEF Clean

LEMMA EmptyRemovingStep ==
    ASSUME IInv, NEW p \in Commands, EmptyRemoving(p)
    PROVE  IInv'
    <1>1. /\ cmd[p].pc = "empty" /\ cmd[p].pc \in Working /\ Types /\ StoreTypes /\ Pub = 0
          /\ \A t \in Tags : tree[t].seen = "removing" => Gone(t)
        BY DEF EmptyRemoving, At, IInv, Types, Working, Settled, Knows, KnowsOf
    <1>2. UNCHANGED <<now, head, outer, build, evidence, reader>>
        BY DEF EmptyRemoving
    <1>3. PICK ts \in SUBSET Tags : Deleted(ts) /\ \A t \in ts : Gone(t)
        BY <1>1 DEF EmptyRemoving
    <1>4. build' \in [ver : Nat, synced : BOOLEAN]
        BY <1>1, <1>2 DEF StoreTypes
    <1>5. Store' /\ KeepsHeld /\ \A t \in Tags : Here(t) => Here(t)'
        BY <1>2, <1>3, <1>4, DeletedKeeps
    <1>6. CASE /\ UNCHANGED <<pull, lease>>
               /\ cmd' = [cmd EXCEPT ![p].pc = After(cmd[p].mode), ![p].todo = ToSweep(cmd[p].mode)]
        <2>1. Pub' = 0
            BY <1>1, <1>2 DEF Pub
        <2>2. /\ cmd' \in [Commands -> Plan] /\ cmd'[p].mode = cmd[p].mode /\ cmd'[p].m = cmd[p].m
              /\ cmd'[p].pc \in {"select", "build"} => cmd[p].mode = "pull"
              /\ \A q \in Commands : q # p => cmd'[q] = cmd[q]
              /\ KnowsOf(p)'
            BY <1>1, <1>5, <1>6, <2>1, AfterCleaning
        <2>3. QED
            BY <1>1, <1>2, <1>5, <1>6, <2>2, GoesOn
    <1>7. CASE Ends(p)
        BY <1>1, <1>2, <1>5, <1>7, Ended
    <1>8. QED
        BY <1>6, <1>7 DEF EmptyRemoving

LEMMA NewestIn == \A S : \A t \in Newest(S) : t \in S
    BY DEF Newest

\* What admits a reader is whole.
LEMMA EntryLeased ==
    ASSUME IInv, NEW t \in Tags, Entry(t)
    PROVE  Leased(t) /\ content[t].seen # Torn
    BY DEF IInv, Whole, Sound, Entry, Leased

LEMMA SelectBaseStep ==
    ASSUME IInv, NEW p \in Commands, SelectBase(p)
    PROVE  IInv'
    <1>1. /\ cmd[p].pc = "select" /\ cmd[p].pc \in Working /\ Types /\ StoreTypes /\ Pub = 0
          /\ cmd \in [Commands -> Plan] /\ cmd[p].mode = "pull" /\ lease \in [Commands -> SUBSET Tags] /\ pull = p
        BY DEF SelectBase, At, IInv, Types, Working, Settled, Knows, KnowsOf, Alone
    <1>2. UNCHANGED <<now, head, store, reader>>
        BY DEF SelectBase
    <1>3. Store' /\ KeepsHeld /\ UNCHANGED <<outer, tree, content, build, evidence>>
        BY <1>2, StoreSame DEF store
    <1>4. CASE Ends(p)
        BY <1>1, <1>2, <1>3, <1>4, Ended
    <1>5. CASE \E base : /\ base = 0 \/ (base \in Tags /\ Admissible(base))
                         /\ lease' = [lease EXCEPT ![p] = {base} \ {0}]
                         /\ \/ base \in Tags /\ cmd' = [cmd EXCEPT ![p].pc = "handed", ![p].tag = base] /\ pull' = None
                            \/ Step(p, "build") /\ UNCHANGED pull
        <2>1. PICK base : /\ base = 0 \/ (base \in Tags /\ Admissible(base))
                          /\ lease' = [lease EXCEPT ![p] = {base} \ {0}]
                          /\ \/ base \in Tags /\ cmd' = [cmd EXCEPT ![p].pc = "handed", ![p].tag = base] /\ pull' = None
                             \/ Step(p, "build") /\ UNCHANGED pull
            BY <1>5
        <2>2. \A t \in {base} \ {0} : t \in Tags /\ Leased(t)
            BY <2>1, EntryLeased DEF Admissible
        <2>3. lease' \in [Commands -> SUBSET Tags]
            BY <1>1, <2>1, <2>2
        <2>4. Leases'
            <3>1. ASSUME NEW t, Leased(t) PROVE Leased(t)'
                BY <1>3, <3>1 DEF Leased, Here, Pub
            <3>2. (\A x \in Readers : reader[x] # Away => Leased(reader[x].tag))'
                BY <1>2, <3>1 DEF IInv, Leases
            <3>3. ASSUME NEW q \in Commands, NEW t \in lease'[q] PROVE Leased(t)'
                <4>1. Leased(t)
                    BY <1>1, <2>1, <2>2, <3>3 DEF IInv, Leases
                <4>2. QED
                    BY <3>1, <4>1
            <3>4. QED
                BY <3>2, <3>3 DEF Leases
        <2>5. CASE Step(p, "build") /\ UNCHANGED pull
            <3>1. /\ cmd' \in [Commands -> Plan] /\ cmd'[p].pc = "build" /\ cmd'[p].mode = cmd[p].mode
                  /\ cmd'[p].m = cmd[p].m /\ \A q \in Commands : q # p => cmd'[q] = cmd[q]
                BY <1>1, <2>5, StepFields DEF PCs
            <3>2. KnowsOf(p)'
                BY <1>1, <1>3, <3>1 DEF KnowsOf, Pub
            <3>3. cmd'[p].mode = "pull" /\ cmd'[p].m # 0
                BY <1>1, <3>1 DEF IInv, Alone
            <3>4. Alone' /\ Knows'
                BY <1>1, <2>5, <3>1, <3>2, <3>3, Goes
            <3>5. Types'
                BY <1>1, <1>2, <1>3, <2>3, <2>5, <3>1 DEF Types, Store
            <3>6. QED
                BY <1>3, <2>4, <3>4, <3>5 DEF IInv, Store
        <2>6. CASE base \in Tags /\ cmd' = [cmd EXCEPT ![p].pc = "handed", ![p].tag = base] /\ pull' = None
            <3>1. /\ cmd' \in [Commands -> Plan] /\ cmd'[p].pc = "handed" /\ cmd'[p].mode = cmd[p].mode
                  /\ cmd'[p].m = cmd[p].m /\ \A q \in Commands : q # p => cmd'[q] = cmd[q]
                BY <1>1, <2>6, TagsNat DEF Plan, PCs
            <3>2. QED
                BY <1>1, <1>2, <1>3, <2>3, <2>4, <2>6, <3>1, Handed
        <2>7. QED
            BY <2>1, <2>5, <2>6
    <1>6. SelectBase(p) => Ends(p) \/ \E base :
                         /\ base = 0 \/ (base \in Tags /\ Admissible(base))
                         /\ lease' = [lease EXCEPT ![p] = {base} \ {0}]
                         /\ \/ base \in Tags /\ cmd' = [cmd EXCEPT ![p].pc = "handed", ![p].tag = base] /\ pull' = None
                            \/ Step(p, "build") /\ UNCHANGED pull
        <2> DEFINE open == {t \in Tags : Admissible(t)}
                   whole == {t \in open : content[t].seen # Torn}
                   bases == IF whole = {} THEN {0} ELSE Newest(whole)
        <2>1. \A t \in Newest(open) : t \in Tags
            BY NewestIn
        <2>2. \A b \in bases : b = 0 \/ (b \in Tags /\ Admissible(b))
            BY NewestIn
        <2>3. SelectBase(p) => Ends(p) \/ \E base \in bases :
                  /\ lease' = [lease EXCEPT ![p] = {base} \ {0}]
                  /\ IF base \in Newest(open) /\ content[base].seen = cmd[p].m
                     THEN cmd' = [cmd EXCEPT ![p].pc = "handed", ![p].tag = base] /\ pull' = None
                     ELSE Step(p, "build") /\ UNCHANGED pull
            BY DEF SelectBase
        <2> HIDE DEF bases, open
        <2>4. QED
            BY <2>1, <2>2, <2>3
    <1>7. QED
        BY <1>4, <1>5, <1>6

LEMMA BuildTypes ==
    ASSUME StoreTypes
    PROVE  /\ NoBuild \in [ver : Nat, synced : BOOLEAN] /\ build \in [ver : Nat, synced : BOOLEAN]
           /\ Durable(build) \in [ver : Nat, synced : BOOLEAN]
           /\ Durable(build).ver = build.ver /\ Durable(build).synced = TRUE
    BY DEF StoreTypes, NoBuild, Torn, Durable

LEMMA FetchStep ==
    ASSUME IInv, NEW p \in Commands, Fetch(p)
    PROVE  IInv'
    <1>1. /\ cmd[p].pc = "build" /\ cmd[p].pc \in Working /\ Types /\ StoreTypes /\ Pub = 0
          /\ cmd \in [Commands -> Plan] /\ cmd[p].mode = "pull" /\ cmd[p].m # 0 /\ cmd[p].m \in Nat
          /\ lease \in [Commands -> SUBSET Tags] /\ head \in Nat \ {0}
        BY DEF Fetch, At, IInv, Types, Working, Settled, Knows, KnowsOf, Alone, Plan, PCs, Modes
    <1>2. UNCHANGED <<now, head, outer, tree, content, evidence, reader>>
        BY DEF Fetch
    <1>3. Pub' = 0
        BY <1>1, <1>2 DEF Pub
    <1>4. CASE build' = [ver |-> cmd[p].m, synced |-> FALSE] /\ Step(p, "finish") /\ UNCHANGED <<pull, lease>>
        <2>1. build' \in [ver : Nat, synced : BOOLEAN] /\ build'.ver # Torn
            BY <1>1, <1>4 DEF Torn
        <2>2. Store' /\ KeepsHeld
            BY <1>2, <2>1, Unmoved
        <2>3. /\ cmd' \in [Commands -> Plan] /\ cmd'[p].pc = "finish" /\ cmd'[p].mode = cmd[p].mode
              /\ cmd'[p].m = cmd[p].m /\ \A q \in Commands : q # p => cmd'[q] = cmd[q]
            BY <1>1, <1>4, StepFields DEF PCs
        <2>4. KnowsOf(p)'
            BY <1>3, <2>1, <2>3 DEF KnowsOf
        <2>5. QED
            BY <1>1, <1>2, <1>4, <2>2, <2>3, <2>4, GoesOn
    <1>5. CASE /\ cmd' = [cmd EXCEPT ![p].pc = "select", ![p].m = head]
               /\ build' = NoBuild /\ lease' = [lease EXCEPT ![p] = {}] /\ UNCHANGED pull
        <2>1. Store' /\ KeepsHeld
            BY <1>1, <1>2, <1>5, BuildTypes, Unmoved
        <2>2. /\ cmd' \in [Commands -> Plan] /\ cmd'[p].pc = "select" /\ cmd'[p].mode = cmd[p].mode
              /\ cmd'[p].m = head /\ \A q \in Commands : q # p => cmd'[q] = cmd[q]
            BY <1>1, <1>5 DEF Plan, PCs, Modes
        <2>3. KnowsOf(p)'
            BY <1>3, <2>2 DEF KnowsOf
        <2>4. Alone' /\ Knows'
            BY <1>1, <1>5, <2>2, <2>3, Goes
        <2>5. lease' \in [Commands -> SUBSET Tags] /\ \A q \in Commands : lease'[q] \subseteq lease[q]
            BY <1>1, <1>5
        <2>6. Leases'
            BY <1>2, <2>1, <2>5, LeasesKept
        <2>7. Types'
            BY <1>1, <1>2, <1>5, <2>1, <2>2, <2>5 DEF Types, Store
        <2>8. QED
            BY <2>1, <2>4, <2>6, <2>7 DEF IInv, Store
    <1>6. CASE BuildFails(p)
        <2>1. build' \in [ver : Nat, synced : BOOLEAN] /\ Ends(p)
            BY <1>1, <1>6, BuildTypes DEF BuildFails
        <2>2. QED
            BY <1>1, <1>2, <2>1, Unmoved, Ended
    <1>7. QED
        BY <1>4, <1>5, <1>6 DEF Fetch

LEMMA FinishBuildStep ==
    ASSUME IInv, NEW p \in Commands, FinishBuild(p)
    PROVE  IInv'
    <1>1. /\ cmd[p].pc = "finish" /\ cmd[p].pc \in Working /\ Types /\ StoreTypes /\ Pub = 0
          /\ cmd \in [Commands -> Plan] /\ build.ver # Torn
        BY DEF FinishBuild, At, IInv, Types, Working, Settled, Knows, KnowsOf
    <1>2. UNCHANGED <<now, head, outer, tree, content, evidence, reader>>
        BY DEF FinishBuild
    <1>3. CASE build' = Durable(build) /\ Step(p, "reserve") /\ UNCHANGED <<pull, lease>>
        <2>1. Store' /\ KeepsHeld /\ build'.ver # Torn /\ build'.synced = TRUE
            BY <1>1, <1>2, <1>3, BuildTypes, Unmoved
        <2>2. /\ cmd' \in [Commands -> Plan] /\ cmd'[p].pc = "reserve" /\ cmd'[p].mode = cmd[p].mode
              /\ cmd'[p].m = cmd[p].m /\ \A q \in Commands : q # p => cmd'[q] = cmd[q]
            BY <1>1, <1>3, StepFields DEF PCs
        <2>3. Pub' = 0
            BY <1>1, <1>2 DEF Pub
        <2>4. KnowsOf(p)'
            BY <2>1, <2>2, <2>3 DEF KnowsOf
        <2>5. QED
            BY <1>1, <1>2, <1>3, <2>1, <2>2, <2>4, GoesOn
    <1>4. CASE BuildFails(p)
        <2>1. build' \in [ver : Nat, synced : BOOLEAN] /\ Ends(p)
            BY <1>1, <1>4, BuildTypes DEF BuildFails
        <2>2. QED
            BY <1>1, <1>2, <2>1, Unmoved, Ended
    <1>5. QED
        BY <1>3, <1>4 DEF FinishBuild

\* The tag a publication reserves is after every tag there was.
LEMMA NextTagAfter ==
    ASSUME StoreTypes, now \in Nat
    PROVE  NextTag \in Nat /\ NextTag > outer.seen.greatest
    BY MarkerFields DEF NextTag

LEMMA ReserveStep ==
    ASSUME IInv, NEW p \in Commands, Reserve(p)
    PROVE  IInv'
    <1> DEFINE t0 == NextTag
               v == [outer.seen EXCEPT !.greatest = t0, !.pub = t0]
    <1>1. /\ cmd[p].pc = "reserve" /\ cmd[p].pc \in Working /\ Types /\ StoreTypes /\ Ranked /\ Whole /\ Pub = 0
          /\ cmd \in [Commands -> Plan] /\ build.ver # Torn /\ build.synced = TRUE
        BY DEF Reserve, At, IInv, Types, Working, Settled, Knows, KnowsOf
    <1>2. UNCHANGED <<now, head, content, evidence, reader>>
        BY DEF Reserve
    <1>3. /\ t0 \in Tags /\ t0 > outer.seen.greatest
          /\ outer.seen \in Marker /\ outer.disk \in Marker
          /\ outer.seen.greatest \in Nat /\ outer.disk.greatest \in Nat /\ outer.disk.greatest <= outer.seen.greatest
        <2>1. now \in Nat /\ outer.disk.greatest <= outer.seen.greatest
            BY <1>1 DEF Types, Ranked
        <2>2. t0 \in Tags /\ t0 > outer.seen.greatest
            BY <1>1, <2>1, NextTagAfter DEF Reserve
        <2>3. QED
            BY <1>1, <2>1, <2>2, MarkerFields
    <1>4. v \in Marker /\ v.greatest = t0 /\ v.pub = t0 /\ v.removed = outer.seen.removed
        <2>1. v = [outer.seen EXCEPT !.greatest = t0, !.pub = t0]
            OBVIOUS
        <2> HIDE DEF t0, v
        <2>2. t0 \in Nat /\ t0 \in 0 .. MaxTag
            BY <1>3, ClientBounds DEF Tags
        <2>3. QED
            BY <1>3, <2>1, <2>2 DEF Marker
    <1>5. \/ /\ outer' = Rec(v) /\ tree' = Synced /\ UNCHANGED <<build, pull, lease>>
             /\ cmd' = [cmd EXCEPT ![p].pc = "publish", ![p].tag = t0]
          \/ outer' \in {outer, [outer EXCEPT !.seen = v]} /\ BuildFails(p) /\ tree' = tree
        BY DEF Reserve
    <1> HIDE DEF v
    <1>6. evidence[t0] = Torn
        BY <1>1, <1>3 DEF Ranked, Tags
    <1>7. /\ outer' \in [seen : Marker, disk : Marker]
          /\ outer'.seen \in {v, outer.seen} /\ outer'.disk \in {v, outer.disk}
          /\ outer'.disk = v => outer'.seen = v /\ outer' = Rec(v)
        <2>1. outer \in [seen : Marker, disk : Marker]
            BY <1>1 DEF StoreTypes
        <2>2. CASE outer' = Rec(v)
            BY <1>4, <2>2, RecFields
        <2>3. CASE outer' = outer
            BY <1>3, <1>4, <2>1, <2>3 DEF Tags
        <2>4. CASE outer' = [outer EXCEPT !.seen = v]
            <3>1. /\ outer' \in [seen : Marker, disk : Marker] /\ outer'.seen = v /\ outer'.disk = outer.disk
                BY <1>4, <2>1, <2>4, SeenFields
            <3>2. outer.disk # v
                BY <1>3, <1>4 DEF Tags
            <3>3. QED
                BY <3>1, <3>2
        <2>5. QED
            BY <1>5, <2>2, <2>3, <2>4
    <1>8. /\ tree' \in Trees
          /\ \A t \in Tags : tree'[t].seen = tree[t].seen
          /\ \A t \in Tags : tree'[t].disk \in {tree[t].disk, tree[t].seen}
          /\ outer'.disk # v => tree' = tree
        <2>1. CASE outer' = Rec(v) /\ tree' = Synced
            BY <1>1, <1>4, <2>1, SyncedFields, RecFields
        <2>2. CASE tree' = tree
            BY <1>1, <2>2 DEF StoreTypes
        <2>3. QED
            BY <1>5, <2>1, <2>2
    <1>9. outer.disk.greatest <= outer'.disk.greatest /\ outer'.disk.greatest <= outer'.seen.greatest
          /\ outer.seen.greatest <= outer'.seen.greatest
        BY <1>3, <1>4, <1>7 DEF Tags
    <1>10. ASSUME NEW t \in Tags, tree'[t].seen # "none" \/ tree'[t].disk # "none"
           PROVE  (tree[t].seen # "none" \/ tree[t].disk # "none") /\ t <= outer.disk.greatest
        BY <1>1, <1>8, <1>10 DEF Ranked
    <1>11. ASSUME NEW t \in Tags, Entry(t)' PROVE Entry(t)
        <2>1. Here(t) /\ t <= outer.disk.greatest
            BY <1>8, <1>10, <1>11 DEF Entry, Here
        <2>2. QED
            BY <1>1, <1>3, <1>4, <1>7, <1>11, <2>1 DEF Entry, Listed, Tags
    <1>12. ASSUME NEW t \in Tags, EntryOnDisk(t)' PROVE Entry(t) \/ EntryOnDisk(t)
        <2>1. CASE outer'.disk = v /\ tree' = Synced
            <3>1. Here(t)
                BY <1>1, <1>12, <2>1, SyncedFields DEF EntryOnDisk, Here
            <3>2. t <= outer.seen.greatest
                BY <1>3, <1>10, <1>12 DEF EntryOnDisk, Tags
            <3>3. QED
                BY <1>1, <1>4, <1>12, <2>1, <3>1, <3>2 DEF EntryOnDisk, Entry, Listed, Tags
        <2>2. CASE outer'.disk = outer.disk /\ tree' = tree
            BY <1>12, <2>2 DEF EntryOnDisk
        <2>3. CASE outer'.disk = v /\ tree' # Synced
            <3>1. outer' = Rec(v) /\ outer' # outer
                BY <1>3, <1>4, <1>7, <2>3 DEF Tags
            <3>2. outer' # [outer EXCEPT !.seen = v]
                <4>1. outer \in [seen : Marker, disk : Marker]
                    BY <1>1 DEF StoreTypes
                <4>2. [outer EXCEPT !.seen = v].disk = outer.disk
                    BY <1>4, <4>1, SeenFields
                <4>3. outer.disk # v
                    BY <1>3, <1>4 DEF Tags
                <4>4. QED
                    BY <2>3, <4>2, <4>3
            <3>3. QED
                BY <1>5, <2>3, <3>1, <3>2
        <2>4. QED
            BY <1>7, <1>8, <2>1, <2>2, <2>3
    <1>13. build' \in [ver : Nat, synced : BOOLEAN]
        BY <1>1, <1>5, BuildTypes DEF BuildFails
    <1>14. StoreTypes'
        BY <1>1, <1>2, <1>7, <1>8, <1>13 DEF StoreTypes
    <1>15. Store'
        BY <1>1, <1>2, <1>9, <1>10, <1>11, <1>12, <1>14, StoreKept
    <1>16. KeepsHeld
        <2>1. ASSUME NEW t \in Tags, Leased(t) PROVE t # Pub' /\ t <= outer'.seen.greatest
            BY <1>3, <1>4, <1>7, <1>9, <2>1 DEF Leased, Pub, Tags
        <2>2. QED
            BY <1>2, <1>8, <2>1 DEF KeepsHeld, Leased, Here
    <1>17. CASE BuildFails(p)
        BY <1>1, <1>2, <1>15, <1>16, <1>17, Ended DEF BuildFails
    <1>18. CASE /\ outer' = Rec(v) /\ tree' = Synced /\ UNCHANGED <<build, pull, lease>>
                /\ cmd' = [cmd EXCEPT ![p].pc = "publish", ![p].tag = t0]
        <2>1. /\ cmd' \in [Commands -> Plan] /\ cmd'[p].pc = "publish" /\ cmd'[p].mode = cmd[p].mode
              /\ cmd'[p].m = cmd[p].m /\ cmd'[p].tag = t0
              /\ \A q \in Commands : q # p => cmd'[q] = cmd[q]
            <3> HIDE DEF t0
            <3>1. t0 \in Nat
                BY <1>3 DEF Tags
            <3>2. QED
                BY <1>1, <1>18, <3>1 DEF Plan, PCs, Modes
        <2>2. outer'.disk.greatest = t0 /\ outer'.disk.pub = t0
            BY <1>4, <1>18, RecFields
        <2>3. KnowsOf(p)'
            <3> HIDE DEF t0
            <3>1. cmd'[p].tag \in Tags /\ cmd'[p].tag <= outer'.disk.greatest
                BY <1>3, <2>1, <2>2 DEF Tags
            <3>2. evidence'[cmd'[p].tag] = Torn /\ build'.ver # Torn /\ build'.synced = TRUE
                BY <1>1, <1>2, <1>6, <1>18, <2>1
            <3>3. QED
                BY <2>1, <2>2, <3>1, <3>2 DEF KnowsOf, Settled
        <2>4. QED
            BY <1>1, <1>2, <1>15, <1>16, <1>18, <2>1, <2>3, GoesOn
    <1>19. QED
        BY <1>5, <1>17, <1>18

LEMMA PublishStep ==
    ASSUME IInv, NEW p \in Commands, Publish(p)
    PROVE  IInv' /\ \A t \in Tags : evidence[t] # Torn => evidence'[t] = evidence[t]
    <1> DEFINE t0 == cmd[p].tag
               v == [outer.seen EXCEPT !.pub = 0]
    <1>1. /\ cmd[p].pc = "publish" /\ cmd[p].pc \in Working /\ Types /\ StoreTypes /\ Ranked /\ Whole
          /\ cmd \in [Commands -> Plan] /\ build.ver # Torn /\ build.synced = TRUE
          /\ t0 \in Tags /\ t0 <= outer.disk.greatest /\ outer.disk.pub = t0 /\ evidence[t0] = Torn /\ Pub = t0
        BY DEF Publish, At, IInv, Types, Working, Settled, Knows, KnowsOf
    <1>2. UNCHANGED <<now, head, reader>> /\ build' = NoBuild
        BY DEF Publish
    <1> DEFINE c == [seen |-> build.ver, disk |-> IF build.synced THEN build.ver ELSE Torn]
    <1>3. PICK k \in 0 .. 2, shown \in BOOLEAN :
              /\ tree' = IF k = 0 THEN [Synced EXCEPT ![t0] = Rec("here")]
                         ELSE [tree EXCEPT ![t0] = Write(k, shown, 1, @, "here")]
              /\ content' = IF ~(k # 1 \/ shown) THEN content ELSE [content EXCEPT ![t0] = c]
              /\ evidence' = IF k # 1 \/ shown THEN [evidence EXCEPT ![t0] = build.ver] ELSE evidence
              /\ outer' = Write(k, shown, 2, outer, v)
              /\ IF k = 0 THEN Step(p, "admit") /\ UNCHANGED <<pull, lease>> ELSE Ends(p)
        BY DEF Publish
    <1>4. c \in [seen : Nat, disk : Nat] /\ c.seen = build.ver /\ c.disk = build.ver /\ build.ver \in Nat
        BY <1>1 DEF StoreTypes
    <1>5. /\ outer.seen \in Marker /\ v \in Marker /\ v.greatest = outer.seen.greatest /\ v.pub = 0
          /\ v.removed = outer.seen.removed
        BY <1>1, MarkerFields, ClearedFields
    <1> HIDE DEF c, v, t0
    <1>6. /\ outer' \in [seen : Marker, disk : Marker]
          /\ outer'.seen.greatest = outer.seen.greatest /\ outer'.seen.removed = outer.seen.removed
          /\ k = 0 => outer'.seen = v /\ outer'.disk = v
          /\ k # 0 => outer'.disk = outer.disk /\ outer'.seen \in {v, outer.seen}
        <2>1. outer \in [seen : Marker, disk : Marker]
            BY <1>1 DEF StoreTypes
        <2>2. outer' \in [seen : Marker, disk : Marker]
            BY <1>3, <1>5, <2>1, WriteType
        <2>3. k = 0 => outer'.seen = v /\ outer'.disk = v
            BY <1>3, <1>5, RecFields DEF Write
        <2>4. k # 0 => outer'.disk = outer.disk /\ outer'.seen \in {v, outer.seen}
            BY <1>3, <1>5, <2>1, SeenFields DEF Write
        <2>5. QED
            BY <1>5, <2>2, <2>3, <2>4
    <1> DEFINE named == k # 1 \/ shown
    <1>7. /\ tree' \in Trees
          /\ \A t \in Tags : t # t0 => tree'[t].seen = tree[t].seen /\ tree'[t].disk \in {tree[t].disk, tree[t].seen}
          /\ k # 0 => \A t \in Tags : t # t0 => tree'[t] = tree[t]
          /\ ~named => tree' = tree
        <2>1. tree \in Trees
            BY <1>1 DEF StoreTypes
        <2>2. CASE k = 0
            <3>1. tree' = [Synced EXCEPT ![t0] = Rec("here")]
                BY <1>3, <2>2
            <3>2. Rec("here") \in [seen : Places, disk : Places]
                BY RecFields DEF Places
            <3>3. QED
                BY <1>1, <2>2, <3>1, <3>2, SyncedFields DEF Trees
        <2>3. CASE k # 0
            <3> DEFINE w == Write(k, shown, 1, tree[t0], "here")
            <3>1. w \in [seen : Places, disk : Places]
                BY <1>1, <2>1, WriteType DEF Trees, Places
            <3>2. ~named => w = tree[t0]
                BY <2>3 DEF Write
            <3>3. tree' = [tree EXCEPT ![t0] = w]
                BY <1>3, <2>3
            <3> HIDE DEF w
            <3>4. QED
                BY <1>1, <2>1, <2>3, <3>1, <3>2, <3>3 DEF Trees
        <2>4. QED
            BY <2>2, <2>3
    <1>8. /\ content' \in [Tags -> [seen : Nat, disk : Nat]] /\ evidence' \in [Tags -> Nat]
          /\ \A t \in Tags : t # t0 => content'[t] = content[t] /\ evidence'[t] = evidence[t]
          /\ named => content'[t0] = c /\ evidence'[t0] = build.ver
          /\ ~named => content' = content /\ evidence' = evidence
        BY <1>1, <1>3, <1>4 DEF StoreTypes
    <1>9. \A t \in Tags : evidence[t] # Torn => evidence'[t] = evidence[t]
        BY <1>1, <1>8
    <1>10. StoreTypes'
        BY <1>1, <1>2, <1>6, <1>7, <1>8, BuildTypes DEF StoreTypes
    <1>11. /\ outer'.disk.greatest <= outer'.seen.greatest /\ outer.disk.greatest <= outer'.disk.greatest
           /\ outer.disk.greatest \in Nat /\ outer'.disk.greatest \in Nat /\ outer.seen.greatest \in Nat
        BY <1>1, <1>5, <1>6, MarkerFields DEF Ranked, Marker
    <1>12. Ranked'
        <2>1. ASSUME NEW t \in Tags, tree'[t].seen # "none" \/ tree'[t].disk # "none" \/ evidence'[t] # Torn
              PROVE  t <= outer.disk.greatest
            BY <1>1, <1>7, <1>8, <2>1 DEF Ranked
        <2>2. ASSUME NEW t \in Tags, t <= outer.disk.greatest PROVE t <= outer'.disk.greatest
            BY <1>11, <2>2 DEF Tags
        <2>3. QED
            BY <1>11, <2>1, <2>2 DEF Ranked
    <1>13. ASSUME NEW t \in Tags, named \/ t # t0, Entry(t)' \/ EntryOnDisk(t)' PROVE Sound(t)'
        <2>1. CASE t = t0
            BY <1>1, <1>4, <1>8, <1>13, <2>1 DEF Sound
        <2>2. CASE t # t0
            <3>1. Entry(t)' => Entry(t)
                BY <1>1, <1>6, <1>7, <2>2 DEF Entry, Here, Listed
            <3>2. EntryOnDisk(t)' => Entry(t) \/ EntryOnDisk(t)
                <4>1. CASE k = 0
                    <5>1. tree'[t].disk = tree[t].seen
                        <6>1. tree' = [Synced EXCEPT ![t0] = Rec("here")]
                            BY <1>3, <4>1
                        <6>2. QED
                            BY <1>1, <2>2, <6>1, SyncedFields DEF Trees
                    <5>2. QED
                        BY <1>1, <1>5, <1>6, <2>2, <4>1, <5>1 DEF Entry, EntryOnDisk, Here, Listed
                <4>2. CASE k # 0
                    BY <1>6, <1>7, <2>2, <4>2 DEF EntryOnDisk
                <4>3. QED
                    BY <4>1, <4>2
            <3>3. QED
                BY <1>1, <1>8, <1>13, <2>2, <3>1, <3>2 DEF Whole, Sound
        <2>3. QED
            BY <2>1, <2>2
    <1>14. ASSUME ~named, NEW t \in Tags, t = t0 PROVE ~Entry(t)' /\ ~EntryOnDisk(t)'
        <2>1. k = 1 /\ outer' = outer
            BY <1>3, <1>14 DEF Write
        <2>2. QED
            BY <1>1, <1>14, <2>1 DEF Entry, EntryOnDisk, Pub
    <1>15. ASSUME NEW t \in Tags PROVE content'[t].disk = content'[t].seen
        BY <1>1, <1>4, <1>8 DEF Whole
    <1>16. Whole'
        BY <1>13, <1>14, <1>15 DEF Whole
    <1>17. Store'
        BY <1>10, <1>12, <1>16 DEF Store
    <1>18. KeepsHeld
        <2>1. ASSUME NEW t \in Tags, Leased(t) PROVE t # t0 /\ t # Pub'
            BY <1>1, <1>5, <1>6, <2>1 DEF Leased, Pub, Tags
        <2>2. QED
            BY <1>6, <1>7, <1>8, <2>1 DEF KeepsHeld, Leased, Here
    <1>19. CASE k = 0
        <2>1. Step(p, "admit") /\ UNCHANGED <<pull, lease>>
            BY <1>3, <1>19
        <2>2. /\ cmd' \in [Commands -> Plan] /\ cmd'[p].pc = "admit" /\ cmd'[p].mode = cmd[p].mode
              /\ cmd'[p].m = cmd[p].m /\ cmd'[p].tag = cmd[p].tag
              /\ \A q \in Commands : q # p => cmd'[q] = cmd[q]
            BY <1>1, <2>1, StepFields DEF PCs
        <2>3. KnowsOf(p)'
            BY <1>1, <2>2 DEF KnowsOf, Settled, t0
        <2>4. QED
            BY <1>1, <1>2, <1>9, <1>17, <1>18, <2>1, <2>2, <2>3, GoesOn
    <1>20. CASE k # 0
        <2>1. Ends(p)
            BY <1>3, <1>20
        <2>2. QED
            BY <1>1, <1>2, <1>9, <1>17, <1>18, <2>1, Ended
    <1>21. QED
        BY <1>19, <1>20

LEMMA AdmitResultStep ==
    ASSUME IInv, NEW p \in Commands, AdmitResult(p)
    PROVE  IInv'
    <1>1. /\ cmd[p].pc = "admit" /\ cmd[p].pc \in Working /\ Types /\ cmd[p].tag \in Tags
          /\ cmd \in [Commands -> Plan] /\ lease \in [Commands -> SUBSET Tags]
        BY DEF AdmitResult, At, IInv, Types, Working, Settled, Knows, KnowsOf
    <1>2. UNCHANGED <<now, head, store, reader>>
        BY DEF AdmitResult
    <1>3. Store' /\ KeepsHeld /\ UNCHANGED <<outer, tree, content, build, evidence>>
        BY <1>2, StoreSame DEF store
    <1>4. CASE Ends(p)
        BY <1>1, <1>2, <1>3, <1>4, Ended
    <1>5. CASE /\ Admissible(cmd[p].tag) /\ Step(p, "handed") /\ pull' = None
               /\ lease' = [lease EXCEPT ![p] = {cmd[p].tag}]
        <2>1. Leased(cmd[p].tag)
            BY <1>1, <1>5, EntryLeased DEF Admissible
        <2>2. lease' \in [Commands -> SUBSET Tags]
            BY <1>1, <1>5
        <2>3. /\ cmd' \in [Commands -> Plan] /\ cmd'[p].pc = "handed" /\ cmd'[p].mode = cmd[p].mode
              /\ cmd'[p].m = cmd[p].m /\ \A q \in Commands : q # p => cmd'[q] = cmd[q]
            BY <1>1, <1>5, StepFields DEF PCs
        <2>4. Leases'
            <3>1. ASSUME NEW t, Leased(t) PROVE Leased(t)'
                BY <1>3, <3>1 DEF Leased, Here, Pub
            <3>2. (\A x \in Readers : reader[x] # Away => Leased(reader[x].tag))'
                BY <1>2, <3>1 DEF IInv, Leases
            <3>3. ASSUME NEW q \in Commands, NEW t \in lease'[q] PROVE Leased(t)'
                <4>1. Leased(t)
                    BY <1>1, <1>5, <2>1, <3>3 DEF IInv, Leases
                <4>2. QED
                    BY <3>1, <4>1
            <3>4. QED
                BY <3>2, <3>3 DEF Leases
        <2>5. QED
            BY <1>1, <1>2, <1>3, <1>5, <2>2, <2>3, <2>4, Handed
    <1>6. QED
        BY <1>4, <1>5 DEF AdmitResult

LEMMA ReleaseStep ==
    ASSUME IInv, NEW p \in Commands, Release(p)
    PROVE  IInv'
    <1>1. /\ cmd[p].pc = "handed" /\ Types /\ cmd \in [Commands -> Plan] /\ lease \in [Commands -> SUBSET Tags]
        BY DEF Release, At, IInv, Types
    <1>2. UNCHANGED <<now, head, store, pull, reader>>
        BY DEF Release
    <1>3. Store' /\ KeepsHeld
        BY <1>2, StoreSame
    <1>4. cmd' = [cmd EXCEPT ![p] = Idle] /\ lease' = [lease EXCEPT ![p] = {}]
        BY DEF Release
    <1>5. pull' = pull /\ cmd[p].pc \notin Working
        BY <1>1, <1>2 DEF Working, Settled
    <1>6. QED
        BY <1>1, <1>2, <1>3, <1>4, <1>5, Stopped

LEMMA RemoveIfDueStep ==
    ASSUME IInv, NEW p \in Commands, RemoveIfDue(p)
    PROVE  IInv'
    <1>1. /\ cmd[p].pc = "due" /\ cmd[p].pc \in Working /\ Types /\ StoreTypes /\ Ranked /\ Whole /\ Pub = 0
          /\ cmd \in [Commands -> Plan] /\ cmd[p].todo \in SUBSET Tags /\ \A t \in cmd[p].todo : Here(t)
        BY DEF RemoveIfDue, At, IInv, Types, Working, Settled, Knows, KnowsOf, Plan, PCs, Modes
    <1>2. UNCHANGED <<now, head, content, build, evidence, reader>>
        BY DEF RemoveIfDue
    <1>3. PICK t0 \in Newest(cmd[p].todo) :
              \/ cmd' = [cmd EXCEPT ![p].todo = @ \ {t0}] /\ UNCHANGED <<outer, tree, pull, lease>>
              \/ /\ ~Held(t0)
                 /\ \E k \in 0 .. 2, shown \in BOOLEAN :
                      /\ outer' = Write(k, shown, 1, outer, [outer.seen EXCEPT !.removed = @ \cup {t0}])
                      /\ tree' = IF k = 1 THEN tree
                                 ELSE [Synced EXCEPT ![t0] = Write(k, shown, 2, Rec("here"), "removing")]
                      /\ IF k = 0 THEN cmd' = [cmd EXCEPT ![p].pc = "gone", ![p].tag = t0] /\ UNCHANGED <<pull, lease>>
                         ELSE Ends(p)
        BY DEF RemoveIfDue
    <1>4. t0 \in Tags /\ t0 \in cmd[p].todo /\ Here(t0)
        BY <1>1, <1>3, NewestIn
    <1>5. CASE cmd' = [cmd EXCEPT ![p].todo = @ \ {t0}] /\ UNCHANGED <<outer, tree, pull, lease>>
        <2>1. Store' /\ KeepsHeld
            BY <1>2, <1>5, StoreSame DEF store
        <2>2. /\ cmd' \in [Commands -> Plan] /\ cmd'[p].pc = "due" /\ cmd'[p].mode = cmd[p].mode
              /\ cmd'[p].m = cmd[p].m /\ cmd'[p].todo \subseteq cmd[p].todo
              /\ \A q \in Commands : q # p => cmd'[q] = cmd[q]
            BY <1>1, <1>5 DEF Plan, PCs, Modes
        <2>3. KnowsOf(p)'
            BY <1>1, <1>5, <2>2 DEF KnowsOf, Pub, Here
        <2>4. QED
            BY <1>1, <1>2, <1>5, <2>1, <2>2, <2>3, GoesOn
    <1>6. CASE /\ ~Held(t0)
               /\ \E k \in 0 .. 2, shown \in BOOLEAN :
                      /\ outer' = Write(k, shown, 1, outer, [outer.seen EXCEPT !.removed = @ \cup {t0}])
                      /\ tree' = IF k = 1 THEN tree
                                 ELSE [Synced EXCEPT ![t0] = Write(k, shown, 2, Rec("here"), "removing")]
                      /\ IF k = 0 THEN cmd' = [cmd EXCEPT ![p].pc = "gone", ![p].tag = t0] /\ UNCHANGED <<pull, lease>>
                         ELSE Ends(p)
        <2> DEFINE v == [outer.seen EXCEPT !.removed = @ \cup {t0}]
        <2>1. PICK k \in 0 .. 2, shown \in BOOLEAN :
                      /\ outer' = Write(k, shown, 1, outer, v)
                      /\ tree' = IF k = 1 THEN tree
                                 ELSE [Synced EXCEPT ![t0] = Write(k, shown, 2, Rec("here"), "removing")]
                      /\ IF k = 0 THEN cmd' = [cmd EXCEPT ![p].pc = "gone", ![p].tag = t0] /\ UNCHANGED <<pull, lease>>
                         ELSE Ends(p)
            BY <1>6
        <2>2. outer.seen \in Marker /\ outer.disk \in Marker
            BY <1>1, MarkerFields
        <2>3. /\ v \in Marker /\ v.greatest = outer.seen.greatest /\ v.pub = outer.seen.pub
              /\ v.removed = outer.seen.removed \cup {t0}
            BY <1>4, <2>2, RemovedFields
        <2> HIDE DEF v
        <2>4. /\ outer' \in [seen : Marker, disk : Marker]
              /\ k # 1 => outer'.seen = v /\ outer'.disk = v
              /\ k = 1 => outer'.seen \in {v, outer.seen} /\ outer'.disk = outer.disk
            BY <1>1, <2>1, <2>3, MarkWritten
        <2>5. /\ tree' \in Trees
              /\ k = 1 => tree' = tree
              /\ \A t \in Tags : t # t0 => tree'[t].seen = tree[t].seen /\ (k # 1 => tree'[t].disk = tree[t].seen)
              /\ k = 0 => tree'[t0].seen # "here" /\ tree'[t0].disk # "here"
            <3>1. CASE k = 1
                BY <1>1, <2>1, <3>1 DEF StoreTypes
            <3>2. CASE k # 1
                <4> DEFINE w == Write(k, shown, 2, Rec("here"), "removing")
                <4>1. w \in [seen : Places, disk : Places]
                    BY RecFields, WriteType DEF Places
                <4>2. k = 0 => w.seen = "removing" /\ w.disk = "removing"
                    BY RecFields DEF Write
                <4>3. tree' = [Synced EXCEPT ![t0] = w]
                    BY <2>1, <3>2
                <4> HIDE DEF w
                <4>4. QED
                    BY <1>1, <1>4, <3>2, <4>1, <4>2, <4>3, SyncedFields DEF Trees
            <3>3. QED
                BY <3>1, <3>2
        <2>6. /\ outer'.seen.greatest = outer.seen.greatest /\ outer'.seen.pub = outer.seen.pub
              /\ outer.seen.removed \subseteq outer'.seen.removed
            BY <2>3, <2>4
        <2>7. outer.disk.greatest <= outer'.disk.greatest /\ outer'.disk.greatest <= outer'.seen.greatest
            BY <1>1, <2>2, <2>3, <2>4, <2>6 DEF Ranked, Marker
        <2>8. ASSUME NEW t \in Tags, tree'[t].seen # "none" \/ tree'[t].disk # "none"
              PROVE  tree[t].seen # "none" \/ tree[t].disk # "none"
            BY <1>4, <2>5, <2>8 DEF Here
        <2>9. ASSUME NEW t \in Tags, Entry(t)' PROVE Entry(t)
            <3>1. CASE t = t0
                BY <1>4, <2>6, <2>9, <3>1 DEF Entry, Listed, Pub
            <3>2. CASE t # t0
                BY <2>5, <2>6, <2>9, <3>2 DEF Entry, Here, Listed, Pub
            <3>3. QED
                BY <3>1, <3>2
        <2>10. ASSUME NEW t \in Tags, EntryOnDisk(t)' PROVE Entry(t) \/ EntryOnDisk(t)
            <3>1. CASE k = 1
                BY <2>4, <2>5, <2>10, <3>1 DEF EntryOnDisk
            <3>2. CASE k # 1
                <4>1. t # t0
                    BY <2>3, <2>4, <2>10, <3>2 DEF EntryOnDisk
                <4>2. QED
                    BY <2>3, <2>4, <2>5, <2>10, <3>2, <4>1 DEF EntryOnDisk, Entry, Here, Listed, Pub
            <3>3. QED
                BY <3>1, <3>2
        <2>11. StoreTypes'
            BY <1>1, <1>2, <2>4, <2>5 DEF StoreTypes
        <2>12. Store'
            BY <1>1, <1>2, <2>7, <2>8, <2>9, <2>10, <2>11, StoreKept
        <2>13. KeepsHeld
            <3>1. ASSUME NEW t \in Tags, Leased(t), Held(t) PROVE Leased(t)'
                <4>1. t # t0
                    BY <1>6, <3>1
                <4>2. QED
                    BY <1>2, <2>5, <2>6, <3>1, <4>1 DEF Leased, Here, Pub
            <3>2. QED
                BY <3>1 DEF KeepsHeld
        <2>14. CASE k = 0
            <3>1. cmd' = [cmd EXCEPT ![p].pc = "gone", ![p].tag = t0] /\ UNCHANGED <<pull, lease>>
                BY <2>1, <2>14
            <3>2. /\ cmd' \in [Commands -> Plan] /\ cmd'[p].pc = "gone" /\ cmd'[p].mode = cmd[p].mode
                  /\ cmd'[p].m = cmd[p].m /\ cmd'[p].tag = t0 /\ cmd'[p].todo = cmd[p].todo
                  /\ \A q \in Commands : q # p => cmd'[q] = cmd[q]
                BY <1>1, <1>4, <3>1, TagsNat DEF Plan, PCs
            <3>3. Pub' = 0
                BY <1>1, <2>6 DEF Pub
            <3>4. Gone(t0)' /\ \A t \in cmd[p].todo \ {t0} : Here(t)'
                BY <1>1, <2>5, <2>14 DEF Gone, Here
            <3>5. KnowsOf(p)'
                BY <1>4, <3>2, <3>3, <3>4 DEF KnowsOf, Gone, Here
            <3>6. QED
                BY <1>1, <1>2, <2>12, <2>13, <3>1, <3>2, <3>5, GoesOn
        <2>15. CASE k # 0
            <3>1. Ends(p)
                BY <2>1, <2>15
            <3>2. QED
                BY <1>1, <1>2, <2>12, <2>13, <3>1, Ended
        <2>16. QED
            BY <2>14, <2>15
    <1>7. QED
        BY <1>3, <1>5, <1>6

LEMMA DeleteGoneStep ==
    ASSUME IInv, NEW p \in Commands, DeleteGone(p)
    PROVE  IInv'
    <1>1. /\ cmd[p].pc = "gone" /\ cmd[p].pc \in Working /\ Types /\ StoreTypes /\ Pub = 0
          /\ cmd \in [Commands -> Plan] /\ cmd[p].tag \in Tags /\ Gone(cmd[p].tag)
          /\ cmd[p].todo \in SUBSET Tags /\ \A t \in cmd[p].todo \ {cmd[p].tag} : Here(t)
        BY DEF DeleteGone, At, IInv, Types, Working, Settled, Knows, KnowsOf, Plan, PCs, Modes
    <1>2. UNCHANGED <<now, head, outer, build, evidence, reader>>
        BY DEF DeleteGone
    <1>3. build' \in [ver : Nat, synced : BOOLEAN]
        BY <1>1, <1>2 DEF StoreTypes
    <1>4. Store' /\ KeepsHeld /\ \A t \in Tags : Here(t) => Here(t)'
        <2>1. {cmd[p].tag} \in SUBSET Tags /\ \A t \in {cmd[p].tag} : Gone(t)
            BY <1>1
        <2>2. Deleted({cmd[p].tag})
            BY DEF DeleteGone
        <2>3. QED
            BY <1>2, <1>3, <2>1, <2>2, DeletedKeeps
    <1>5. CASE cmd' = [cmd EXCEPT ![p].pc = "due", ![p].todo = @ \ {cmd[p].tag}] /\ UNCHANGED <<pull, lease>>
        <2>1. /\ cmd' \in [Commands -> Plan] /\ cmd'[p].pc = "due" /\ cmd'[p].mode = cmd[p].mode
              /\ cmd'[p].m = cmd[p].m /\ cmd'[p].todo = cmd[p].todo \ {cmd[p].tag}
              /\ \A q \in Commands : q # p => cmd'[q] = cmd[q]
            BY <1>1, <1>5 DEF Plan, PCs, Modes
        <2>2. Pub' = 0
            BY <1>1, <1>2 DEF Pub
        <2>3. KnowsOf(p)'
            BY <1>1, <1>4, <2>1, <2>2 DEF KnowsOf
        <2>4. QED
            BY <1>1, <1>2, <1>4, <1>5, <2>1, <2>3, GoesOn
    <1>6. CASE Ends(p)
        BY <1>1, <1>2, <1>4, <1>6, Ended
    <1>7. QED
        BY <1>5, <1>6 DEF DeleteGone

LEMMA FinishStep ==
    ASSUME IInv, NEW p \in Commands, Finish(p)
    PROVE  IInv'
    <1>1. cmd[p].pc \in Working
        BY DEF Finish, At, Working, Settled
    <1>2. UNCHANGED <<now, head, store, reader>> /\ Ends(p)
        BY DEF Finish
    <1>3. QED
        BY <1>1, <1>2, StoreSame, Ended

-----------------------------------------------------------------------------
(* Readers and the world *)

\* A step of a reader or of the world that leaves the store as it is.
LEMMA Aside ==
    ASSUME IInv, UNCHANGED <<store, pull, cmd, lease>>, now' \in Nat, head' \in Nat \ {0},
           reader' \in [Readers -> [kind : Kinds, tag : 0 .. MaxTag]],
           \A x \in Readers : reader'[x] # Away => Leased(reader'[x].tag)
    PROVE  IInv'
    <1>1. Store' /\ UNCHANGED <<outer, tree, content, build, evidence, cmd, lease, pull>>
        BY StoreSame DEF store
    <1>2. Types'
        BY <1>1 DEF IInv, Types, Store
    <1>3. Alone' /\ Knows'
        BY <1>1 DEF IInv, Alone, Knows, KnowsOf, Pub, Listed, Gone, Here
    <1>4. ASSUME NEW t, Leased(t) PROVE Leased(t)'
        BY <1>1, <1>4 DEF Leased, Here, Pub
    <1>5. Leases'
        BY <1>1, <1>4 DEF IInv, Leases
    <1>6. QED
        BY <1>1, <1>2, <1>3, <1>5 DEF IInv, Store

LEMMA AdmitStep ==
    ASSUME IInv, NEW x \in Readers, NEW t \in Tags, Admit(x, t)
    PROVE  IInv'
    <1>1. Leased(t)
        BY EntryLeased DEF Admit, Admissible
    <1>2. /\ UNCHANGED <<store, pull, cmd, lease, now, head>>
          /\ reader' = [reader EXCEPT ![x] = [kind |-> "read", tag |-> t]]
        BY DEF Admit
    <1>3. /\ reader \in [Readers -> [kind : Kinds, tag : 0 .. MaxTag]] /\ now \in Nat /\ head \in Nat \ {0}
          /\ t \in 0 .. MaxTag
        BY DEF IInv, Types, Tags
    <1>4. reader' \in [Readers -> [kind : Kinds, tag : 0 .. MaxTag]]
        BY <1>2, <1>3 DEF Kinds
    <1>5. \A y \in Readers : reader'[y] # Away => Leased(reader'[y].tag)
        BY <1>1, <1>2, <1>3 DEF IInv, Leases
    <1>6. QED
        BY <1>2, <1>3, <1>4, <1>5, Aside

LEMMA BindRunStep ==
    ASSUME IInv, NEW x \in Readers, BindRun(x)
    PROVE  IInv'
    <1>1. /\ UNCHANGED <<store, pull, cmd, lease, now, head>>
          /\ reader' = [reader EXCEPT ![x].kind = "run"] /\ reader[x].kind = "read"
        BY DEF BindRun
    <1>2. reader \in [Readers -> [kind : Kinds, tag : 0 .. MaxTag]] /\ now \in Nat /\ head \in Nat \ {0}
        BY DEF IInv, Types
    <1>3. reader' \in [Readers -> [kind : Kinds, tag : 0 .. MaxTag]]
        BY <1>1, <1>2 DEF Kinds
    <1>4. reader[x] # Away
        BY <1>1 DEF Away
    <1>5. \A y \in Readers : reader'[y].tag = reader[y].tag /\ (y # x => reader'[y] = reader[y])
        BY <1>1, <1>2
    <1>6. \A y \in Readers : reader'[y] # Away => Leased(reader'[y].tag)
        BY <1>4, <1>5 DEF IInv, Leases
    <1>7. QED
        BY <1>1, <1>2, <1>3, <1>6, Aside

LEMMA AdmitChildStep ==
    ASSUME IInv, NEW x \in Readers, NEW y \in Readers, AdmitChild(x, y)
    PROVE  IInv'
    <1>1. /\ UNCHANGED <<store, pull, cmd, lease, now, head>>
          /\ reader' = [reader EXCEPT ![x] = [kind |-> "child", tag |-> reader[y].tag]] /\ reader[y].kind = "run"
        BY DEF AdmitChild
    <1>2. reader \in [Readers -> [kind : Kinds, tag : 0 .. MaxTag]] /\ now \in Nat /\ head \in Nat \ {0}
        BY DEF IInv, Types
    <1>3. Leased(reader[y].tag)
        BY <1>1 DEF IInv, Leases, Away
    <1>4. reader' \in [Readers -> [kind : Kinds, tag : 0 .. MaxTag]]
        BY <1>1, <1>2 DEF Kinds
    <1>5. \A z \in Readers : reader'[z] # Away => Leased(reader'[z].tag)
        BY <1>1, <1>2, <1>3 DEF IInv, Leases
    <1>6. QED
        BY <1>1, <1>2, <1>4, <1>5, Aside

LEMMA LeaveStep ==
    ASSUME IInv, NEW x \in Readers, Leave(x)
    PROVE  IInv'
    <1>1. UNCHANGED <<store, pull, cmd, lease, now, head>> /\ reader' = [reader EXCEPT ![x] = Away]
        BY DEF Leave
    <1>2. reader \in [Readers -> [kind : Kinds, tag : 0 .. MaxTag]] /\ now \in Nat /\ head \in Nat \ {0}
        BY DEF IInv, Types
    <1>3. Away \in [kind : Kinds, tag : 0 .. MaxTag]
        BY ClientBounds DEF Away, Kinds
    <1>4. reader' \in [Readers -> [kind : Kinds, tag : 0 .. MaxTag]]
        BY <1>1, <1>2, <1>3
    <1>5. \A z \in Readers : reader'[z] # Away => Leased(reader'[z].tag)
        BY <1>1, <1>2 DEF IInv, Leases
    <1>6. QED
        BY <1>1, <1>2, <1>4, <1>5, Aside

LEMMA WorldStep ==
    ASSUME IInv, Tick \/ HeadMoves
    PROVE  IInv'
    <1>1. UNCHANGED <<store, pull, cmd, lease, reader>>
        BY DEF Tick, HeadMoves
    <1>2. now' \in Nat /\ head' \in Nat \ {0}
        BY ClientBounds DEF Tick, HeadMoves, IInv, Types
    <1>3. reader' \in [Readers -> [kind : Kinds, tag : 0 .. MaxTag]]
          /\ \A x \in Readers : reader'[x] # Away => Leased(reader'[x].tag)
        BY <1>1 DEF IInv, Types, Leases
    <1>4. QED
        BY <1>1, <1>2, <1>3, Aside

LEMMA KillStep ==
    ASSUME IInv, NEW p \in Commands, Kill(p)
    PROVE  IInv'
    <1>1. /\ UNCHANGED <<now, head, store, reader>>
          /\ cmd' = [cmd EXCEPT ![p] = Idle] /\ lease' = [lease EXCEPT ![p] = {}]
          /\ pull' = IF pull = p THEN None ELSE pull
        BY DEF Kill
    <1>2. Store' /\ KeepsHeld
        BY <1>1, StoreSame
    <1>3. QED
        BY <1>1, <1>2, Stopped

LEMMA PowerLossStep ==
    ASSUME IInv, PowerLoss
    PROVE  IInv'
    <1>1. /\ outer' = Rec(outer.disk) /\ tree' = [t \in Tags |-> Rec(tree[t].disk)]
          /\ content' = [t \in Tags |-> Rec(content[t].disk)] /\ build' = NoBuild /\ evidence' = evidence
          /\ pull' = None /\ cmd' = [p \in Commands |-> Idle] /\ lease' = [p \in Commands |-> {}]
          /\ reader' = [x \in Readers |-> Away] /\ UNCHANGED <<now, head>>
        BY DEF PowerLoss
    <1>2. StoreTypes /\ Ranked /\ Whole /\ outer.disk \in Marker /\ outer.disk.greatest \in Nat
        BY MarkerFields DEF IInv, Types
    <1>3. outer' \in [seen : Marker, disk : Marker] /\ outer'.seen = outer.disk /\ outer'.disk = outer.disk
        BY <1>1, <1>2, RecFields
    <1>4. tree' \in Trees /\ \A t \in Tags : tree'[t].seen = tree[t].disk /\ tree'[t].disk = tree[t].disk
        BY <1>1, <1>2 DEF StoreTypes, Trees, Rec, Places
    <1>5. /\ content' \in [Tags -> [seen : Nat, disk : Nat]]
          /\ \A t \in Tags : content'[t].seen = content[t].disk /\ content'[t].disk = content[t].disk
        BY <1>1, <1>2 DEF StoreTypes, Rec, Places
    <1>6. StoreTypes'
        BY <1>1, <1>2, <1>3, <1>4, <1>5, BuildTypes DEF StoreTypes
    <1>7. Ranked'
        BY <1>1, <1>2, <1>3, <1>4 DEF Ranked
    <1>8. Whole'
        <2>1. ASSUME NEW t \in Tags, Entry(t)' \/ EntryOnDisk(t)' PROVE EntryOnDisk(t)
            BY <1>3, <1>4, <2>1 DEF Entry, EntryOnDisk, Here, Pub, Listed
        <2>2. QED
            BY <1>1, <1>2, <1>5, <2>1 DEF Whole, Sound
    <1>9. Away \in [kind : Kinds, tag : 0 .. MaxTag]
        BY ClientBounds DEF Away, Kinds
    <1>10. Types'
        BY <1>1, <1>6, <1>9, IdleFields DEF IInv, Types
    <1>11. Alone' /\ Knows'
        BY <1>1, IdleFields DEF Alone, Knows, KnowsOf, Working, Settled
    <1>12. Leases'
        BY <1>1 DEF Leases
    <1>13. QED
        BY <1>7, <1>8, <1>10, <1>11, <1>12 DEF IInv

-----------------------------------------------------------------------------
(* Theorems *)

\* The invariant holds of every state, and what was accepted under a tag stays.
LEMMA Inductive == Spec => []IInv
    <1>1. Init => IInv
        <2> SUFFICES ASSUME Init PROVE IInv
            OBVIOUS
        <2> DEFINE m0 == [greatest |-> 0, removed |-> {}, pub |-> 0]
        <2>1. m0 \in Marker /\ m0.greatest = 0 /\ m0.pub = 0 /\ m0.removed = {}
            BY ClientBounds DEF Marker
        <2>2. outer = Rec(m0)
            BY DEF Init
        <2> HIDE DEF m0
        <2>3. outer \in [seen : Marker, disk : Marker] /\ outer.seen = m0 /\ outer.disk = m0
            BY <2>1, <2>2, RecFields
        <2>4. tree \in Trees /\ \A t \in Tags : tree[t].seen = "none" /\ tree[t].disk = "none"
            BY DEF Init, Trees, Rec, Places
        <2>5. content \in [Tags -> [seen : Nat, disk : Nat]] /\ \A t \in Tags : content[t].seen = content[t].disk
            BY DEF Init, Rec, Torn, Places
        <2>6. StoreTypes
            BY <2>3, <2>4, <2>5 DEF StoreTypes, Init, NoBuild, Torn
        <2>7. Away \in [kind : Kinds, tag : 0 .. MaxTag]
            BY ClientBounds DEF Away, Kinds
        <2>8. Types
            BY <2>6, <2>7, IdleFields DEF Types, Init
        <2>9. Alone /\ Knows
            BY IdleFields DEF Init, Alone, Knows, KnowsOf, Working, Settled
        <2>10. Ranked
            BY <2>1, <2>3, <2>4 DEF Init, Ranked
        <2>11. Whole
            BY <2>4, <2>5 DEF Whole, Entry, EntryOnDisk, Here
        <2>12. Leases
            BY DEF Init, Leases
        <2>13. QED
            BY <2>8, <2>9, <2>10, <2>11, <2>12 DEF IInv
    <1>2. IInv /\ [Next]_vars => IInv'
        <2> SUFFICES ASSUME IInv, [Next]_vars PROVE IInv'
            OBVIOUS
        <2>1. CASE UNCHANGED vars
            <3>1. UNCHANGED <<store, pull, cmd, lease, reader, now, head>>
                BY <2>1 DEF vars
            <3>2. /\ now' \in Nat /\ head' \in Nat \ {0}
                  /\ reader' \in [Readers -> [kind : Kinds, tag : 0 .. MaxTag]]
                  /\ \A x \in Readers : reader'[x] # Away => Leased(reader'[x].tag)
                BY <3>1 DEF IInv, Types, Leases
            <3>3. QED
                BY <3>1, <3>2, Aside
        <2>2. ASSUME NEW p \in Commands, NEW mode \in {"pull", "sweep", "settle"}, Begin(p, mode) PROVE IInv'
            BY <2>2, BeginStep
        <2>3. ASSUME NEW p \in Commands, Take(p) \/ Recover(p) \/ DiscardTree(p) \/ ClearIntent(p) PROVE IInv'
            BY <2>3, TakeStep, RecoverStep, DiscardTreeStep, ClearIntentStep
        <2>4. ASSUME NEW p \in Commands, Clean(p) \/ EmptyRemoving(p) \/ SelectBase(p) \/ Fetch(p) PROVE IInv'
            BY <2>4, CleanStep, EmptyRemovingStep, SelectBaseStep, FetchStep
        <2>5. ASSUME NEW p \in Commands, FinishBuild(p) \/ Reserve(p) \/ Publish(p) \/ AdmitResult(p) PROVE IInv'
            BY <2>5, FinishBuildStep, ReserveStep, PublishStep, AdmitResultStep
        <2>6. ASSUME NEW p \in Commands, Release(p) \/ RemoveIfDue(p) \/ DeleteGone(p) \/ Finish(p) \/ Kill(p) PROVE IInv'
            BY <2>6, ReleaseStep, RemoveIfDueStep, DeleteGoneStep, FinishStep, KillStep
        <2>7. ASSUME NEW x \in Readers, BindRun(x) \/ Leave(x) PROVE IInv'
            BY <2>7, BindRunStep, LeaveStep
        <2>8. ASSUME NEW x \in Readers, NEW t \in Tags, Admit(x, t) PROVE IInv'
            BY <2>8, AdmitStep
        <2>9. ASSUME NEW x \in Readers, NEW y \in Readers, AdmitChild(x, y) PROVE IInv'
            BY <2>9, AdmitChildStep
        <2>10. QED
            BY <2>1, <2>2, <2>3, <2>4, <2>5, <2>6, <2>7, <2>8, <2>9, WorldStep, PowerLossStep DEF Next
    <1>3. QED
        BY <1>1, <1>2, PTL DEF Spec

(* A held lease keeps its snapshot where it is and whole, for any commands, *)
(* readers, clock, stops and failures: what a reader or a pull works in is  *)
(* not taken by a sweep or a recovery (sweep.go:157-203).                   *)
THEOREM LeasesHold == Spec => []LeaseKeeps
    <1>1. IInv => LeaseKeeps
        BY DEF IInv, Leases, Leased, LeaseKeeps
    <1>2. QED
        BY <1>1, Inductive, PTL

(* Whatever admits a reader is exactly what was published under its tag,    *)
(* also after a loss of power (publish.go:68-136).                          *)
THEOREM AdmitsOnlyWhole == Spec => []AdmitsWhole
    <1>1. IInv => AdmitsWhole
        BY DEF IInv, Whole, Sound, AdmitsWhole
    <1>2. QED
        BY <1>1, Inductive, PTL

(* No tag is ever published twice, though the clock goes back (tag.go:38-55). *)
THEOREM PublishedOnce == Spec => TagsOnce
    <1> DEFINE Stays == \A t \in Tags : evidence[t] # Torn => evidence'[t] = evidence[t]
    <1>1. IInv /\ [Next]_vars => Stays
        <2> SUFFICES ASSUME IInv, [Next]_vars PROVE Stays
            OBVIOUS
        <2>1. CASE evidence' = evidence
            BY <2>1
        <2>2. ASSUME NEW p \in Commands, Publish(p) PROVE Stays
            BY <2>2, PublishStep
        <2>3. ASSUME NEW p \in Commands,
                     \/ \E mode \in {"pull", "sweep", "settle"} : Begin(p, mode)
                     \/ Take(p) \/ Recover(p) \/ DiscardTree(p) \/ ClearIntent(p) \/ Clean(p) \/ EmptyRemoving(p)
                     \/ SelectBase(p) \/ Fetch(p) \/ FinishBuild(p) \/ Reserve(p) \/ AdmitResult(p) \/ Release(p)
                     \/ RemoveIfDue(p) \/ DeleteGone(p) \/ Finish(p) \/ Kill(p)
              PROVE  evidence' = evidence
            BY <2>3 DEF Begin, Take, Recover, DiscardTree, ClearIntent, Clean, EmptyRemoving, SelectBase, Fetch,
               FinishBuild, Reserve, AdmitResult, Release, RemoveIfDue, DeleteGone, Finish, Kill, store
        <2>4. ASSUME NEW x \in Readers, BindRun(x) \/ Leave(x) PROVE evidence' = evidence
            BY <2>4 DEF BindRun, Leave, store
        <2>5. ASSUME NEW x \in Readers, NEW t \in Tags, Admit(x, t) PROVE evidence' = evidence
            BY <2>5 DEF Admit, store
        <2>6. ASSUME NEW x \in Readers, NEW y \in Readers, AdmitChild(x, y) PROVE evidence' = evidence
            BY <2>6 DEF AdmitChild, store
        <2>7. ASSUME Tick \/ HeadMoves \/ PowerLoss \/ UNCHANGED vars PROVE evidence' = evidence
            BY <2>7 DEF Tick, HeadMoves, PowerLoss, vars, store
        <2> HIDE DEF Stays
        <2>8. QED
            BY <2>1, <2>2, <2>3, <2>4, <2>5, <2>6, <2>7 DEF Next
    <1>2. QED
        BY <1>1, Inductive, PTL DEF Spec, TagsOnce

=============================================================================
