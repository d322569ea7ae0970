------------------------------- MODULE Retire -------------------------------
(***************************************************************************)
(* Retention's level 2 (internal/retention/retire.go): an idle session is  *)
(* retired.  Its marker is made durable, every metrics request the         *)
(* receiver has not answered is written again from its receipt, its        *)
(* directories are renamed away and deleted, answered requests go, and at  *)
(* last push.state and metrics.state forget the session.  What another     *)
(* pass or command finds of a marked session it carries on.                *)
(*                                                                         *)
(* The derivation (Metrics) makes the requests and the push sends them,    *)
(* before and after the session is gone.  Retirement holds the metrics and *)
(* the export lock: neither runs beside it.                                *)
(*                                                                         *)
(* Abstractions.  The session's directory and its conversation's go the    *)
(* same way, one after the other, and are one name here.  push.state has   *)
(* the lines of the spool's requests and the owner.  A session is idle     *)
(* when a pass says so; no judge reads it.  The provider's table is left   *)
(* out.                                                                    *)
(***************************************************************************)
EXTENDS Metrics

CONSTANTS
    Owners,        \* the owners a configuration may name
    Configured,    \* the one it names first
    MaxReconfigs   \* bound: changes of it

VARIABLES
    retire,    \* what a retirement holds in memory
    settled,   \* Remover.settled: this process found the retirement finished
    line,      \* the requests push.state records
    owner,     \* the owner push.state has for the session
    config,    \* the owner the configuration names
    reconfigs, \* how often that changed
    push,      \* the request in hand
    taken,     \* the owners each request was ever taken under: history
    answered   \* the requests whose answer was ever recorded: history

retirement == <<retire, settled, line, owner, config, reconfigs, push, taken, answered>>
vars == <<landed, aged, receipt, spool, saved, pass, dir, marker, faults, named, retirement>>

ASSUME RetireAssumption ==
    /\ MaxFaults \in Nat /\ MaxReconfigs \in Nat
    /\ Configured \in Owners /\ None \notin Owners \cup Files

NotRetiring == [step |-> "idle", file |-> 1, sent |-> {}, tidy |-> {}]

Init ==
    /\ MetricsInit
    /\ retire = NotRetiring
    /\ settled = FALSE
    /\ line = {} /\ owner = None /\ config = Configured /\ reconfigs = 0 /\ push = None
    /\ taken = [f \in Files |-> {}] /\ answered = {}

InSession == <<landed, aged, receipt, pass>>
Sending == <<line, owner, config, reconfigs, push, taken, answered>>

\* Every command that writes to a root holds its lock: one thing at a time.
Free == pass.step = "idle" /\ retire.step = "idle" /\ push = None

LandFile == Free /\ Land /\ UNCHANGED retirement
DeriveFiles == Free /\ BeginPass /\ UNCHANGED retirement
Derive == PassSteps /\ UNCHANGED retirement
DeriveFails == Break /\ UNCHANGED retirement
Wait(f) == Age(f) /\ UNCHANGED retirement

-----------------------------------------------------------------------------
(* Sending the spool: pushSpool.                                             *)

\* A request not recorded goes to the session's owner only, which is recorded
\* before it goes.
Send(f) ==
    /\ Free
    /\ InSpool(f) /\ f \notin line /\ owner \in {None, config}
    /\ owner' = config /\ push' = f
    /\ UNCHANGED <<landed, aged, receipt, spool, saved, pass, dir, marker, faults, named,
                   retire, settled, line, config, reconfigs, taken, answered>>

Answered ==
    /\ push # None
    /\ taken' = [taken EXCEPT ![push] = @ \cup {config}]
    /\ line' = line \cup {push} /\ answered' = answered \cup {push} /\ push' = None
    /\ UNCHANGED <<landed, aged, receipt, spool, saved, pass, dir, marker, faults, named, retire, settled, owner, config, reconfigs>>

\* The receiver may have taken a request that is given up.
MayHaveTaken == taken' \in {taken, IF push = None THEN taken ELSE [taken EXCEPT ![push] = @ \cup {config}]}

\* No answer comes, or what it says cannot be saved.
Unanswered ==
    /\ push # None /\ Fault
    /\ MayHaveTaken /\ push' = None
    /\ UNCHANGED <<landed, aged, receipt, spool, saved, pass, dir, marker, named, retire, settled, line, owner, config, reconfigs, answered>>

\* Between two commands the configuration may name another owner.
Reconfigure ==
    /\ Free /\ reconfigs < MaxReconfigs /\ reconfigs' = reconfigs + 1
    /\ config' \in Owners \ {config}
    /\ UNCHANGED <<landed, aged, receipt, spool, saved, pass, dir, marker, faults, named, retire, settled, line, owner, push, taken, answered>>

-----------------------------------------------------------------------------
(* A retirement.                                                             *)

Goes(step) == retire' = [retire EXCEPT !.step = step]
GivesUp == retire' = NotRetiring

\* retirable: every landed file is derived, so that each has its request.
Retirable == ~Retired /\ Here /\ 1 .. landed \subseteq saved.derived
Unfinished == Retired /\ ~settled

\* retireOne: with nothing left of the session it only sees to the state. The
\* marker is written by every attempt that deletes anything.
BeginRetire ==
    /\ Free
    /\ Retirable \/ Unfinished
    /\ LET tidy == {f \in line : InSpool(f)}
           attempt == [NotRetiring EXCEPT !.sent = line, !.tidy = tidy]
       IN  IF Unfinished /\ dir.now = "gone" /\ tidy = {}
           THEN retire' = [attempt EXCEPT !.step = "sync"] /\ UNCHANGED marker
           ELSE retire' = [attempt EXCEPT !.step = "mark"] /\ marker' = Written(marker, TRUE)
    /\ UNCHANGED <<InSession, spool, saved, dir, faults, named, settled, Sending>>

MarkDurable ==
    /\ retire.step = "mark"
    /\ \/ marker' = Flushed(marker) /\ Goes("hand") /\ UNCHANGED faults
       \/ Fault /\ marker' = Failed(marker) /\ GivesUp
    /\ UNCHANGED <<InSession, spool, saved, dir, named, settled, Sending>>

\* Mutant: a request that is in the spool is not written again.
OwedMissing(f) == receipt[f].request # {} /\ f \notin retire.sent /\ ~InSpool(f)

Owed(f) == receipt[f].request # {} /\ f \notin retire.sent

\* HandOff, receipt by receipt: a request not answered is deleted, written
\* again and made durable. Only a session's directory has receipts.
HandOff ==
    /\ retire.step = "hand"
    /\ IF ~Here \/ retire.file > landed THEN Goes("rename") /\ UNCHANGED spool
       ELSE IF Owed(retire.file)
       THEN Goes("write") /\ spool' = [spool EXCEPT ![retire.file] = Written(@, {})]
       ELSE retire' = [retire EXCEPT !.file = @ + 1] /\ UNCHANGED spool
    /\ UNCHANGED <<InSession, saved, dir, marker, faults, named, settled, Sending>>

WriteAgain ==
    /\ retire.step = "write"
    /\ LET f == retire.file
           e == Written(spool[f], receipt[f].request)
       IN  /\ named' = [named EXCEPT ![f] = @ \cup {receipt[f].request}]
           /\ \/ /\ spool' = [spool EXCEPT ![f] = Flushed(e)] /\ UNCHANGED faults
                 /\ retire' = [retire EXCEPT !.step = "hand", !.file = @ + 1]
              \/ Fault /\ spool' = [spool EXCEPT ![f] = Failed(e)] /\ GivesUp
    /\ UNCHANGED <<InSession, saved, dir, marker, settled, Sending>>

\* RemoveDirDurable: one rename, the syncs of what it changed, the deletion.
Rename ==
    /\ retire.step = "rename"
    /\ IF Here THEN Goes("move") /\ dir' = Written(dir, "moved") ELSE Goes("delete") /\ UNCHANGED dir
    /\ UNCHANGED <<InSession, spool, saved, marker, faults, named, settled, Sending>>

MoveDurable ==
    /\ retire.step = "move"
    /\ \/ dir' = Flushed(dir) /\ Goes("delete") /\ UNCHANGED faults
       \/ Fault /\ GivesUp /\ UNCHANGED dir
    /\ UNCHANGED <<InSession, spool, saved, marker, named, settled, Sending>>

DeleteMoved ==
    /\ retire.step = "delete"
    /\ dir' = IF dir.now = "moved" THEN Written(dir, "gone") ELSE dir
    /\ Goes("tidy")
    /\ UNCHANGED <<InSession, spool, saved, marker, faults, named, settled, Sending>>

\* The requests the receiver has go, one by one.
Tidy ==
    /\ retire.step = "tidy"
    /\ LET left == {f \in retire.tidy : InSpool(f)}
       IN  IF left = {} THEN Goes("sync") /\ UNCHANGED spool
           ELSE \E f \in left : spool' = [spool EXCEPT ![f] = Written(@, {})] /\ UNCHANGED retire
    /\ UNCHANGED <<InSession, saved, dir, marker, faults, named, settled, Sending>>

\* Mutant: only an attempt that deleted something syncs.
SyncOwn ==
    /\ retire.step = "sync"
    /\ \/ /\ IF retire.tidy = {} THEN UNCHANGED <<spool, dir>>
             ELSE spool' = [f \in Files |-> Flushed(spool[f])] /\ dir' = Flushed(dir)
          /\ Goes("push") /\ UNCHANGED faults
       \/ Fault /\ GivesUp /\ UNCHANGED <<spool, dir>>
    /\ UNCHANGED <<InSession, saved, marker, named, settled, Sending>>

\* Every directory a retirement changes is synced before the state forgets, by
\* every attempt: after one that stopped, or whose sync of them failed, the next
\* sync is taken to settle what it left.
SyncChanged ==
    /\ retire.step = "sync"
    /\ \/ /\ spool' = [f \in Files |-> Flushed(spool[f])] /\ dir' = Flushed(dir)
          /\ Goes("push") /\ UNCHANGED faults
       \/ Fault /\ GivesUp /\ UNCHANGED <<spool, dir>>
    /\ UNCHANGED <<InSession, saved, marker, named, settled, Sending>>

\* ForgetGone: the line of a request that is gone, and the owner when nothing
\* of the session is left, no request of it waits and it has no line.
ForgetGone ==
    /\ retire.step = "push"
    /\ line' = {f \in line : InSpool(f)}
    /\ owner' = IF line' = {} /\ ~Here /\ \A f \in Files : ~InSpool(f) THEN None ELSE owner
    /\ Goes("metrics")
    /\ UNCHANGED <<InSession, spool, saved, dir, marker, faults, named, settled, config, reconfigs, push, taken, answered>>

\* Forget: what metrics.state says of files that are gone.
ForgetMetrics ==
    /\ retire.step = "metrics"
    /\ saved' = IF Here THEN saved ELSE [NothingSaved EXCEPT !.there = saved.there]
    /\ Goes("settle")
    /\ UNCHANGED <<InSession, spool, dir, marker, faults, named, settled, Sending>>

\* Mutant: also with a request that waits.
SettleAlways ==
    /\ retire.step = "settle"
    /\ settled' = TRUE
    /\ GivesUp
    /\ UNCHANGED <<InSession, spool, saved, dir, marker, faults, named, Sending>>

\* The process does not look at the session again, unless a request waits.
Settle ==
    /\ retire.step = "settle"
    /\ settled' = (settled \/ ~\E f \in Files \ retire.sent : InSpool(f))
    /\ GivesUp
    /\ UNCHANGED <<InSession, spool, saved, dir, marker, faults, named, Sending>>

Carry == MarkDurable \/ HandOff \/ WriteAgain \/ Rename \/ MoveDurable \/ DeleteMoved \/ Tidy
         \/ SyncChanged \/ ForgetGone \/ ForgetMetrics \/ Settle

-----------------------------------------------------------------------------
(* Stops and losses of power.                                                *)

Forgotten == pass' = NoPass /\ retire' = NotRetiring /\ settled' = FALSE /\ push' = None /\ MayHaveTaken

Stop ==
    /\ ~Free
    /\ Fault
    /\ Forgotten
    /\ UNCHANGED <<landed, aged, receipt, spool, saved, dir, marker, named, line, owner, config, reconfigs, answered>>

PowerLoss ==
    /\ Fault
    /\ Forgotten
    /\ \E d \in dir.may, m \in marker.may, s \in [Files -> UNION {spool[f].may : f \in Files}] :
           /\ \A f \in Files : s[f] \in spool[f].may
           /\ dir' = Settled(d) /\ marker' = Settled(m) /\ spool' = [f \in Files |-> Settled(s[f])]
    /\ UNCHANGED <<landed, aged, receipt, saved, named, line, owner, config, reconfigs, answered>>

Next ==
    \/ LandFile \/ DeriveFiles \/ Derive \/ DeriveFails
    \/ \E f \in Files : Wait(f) \/ Send(f)
    \/ Answered \/ Unanswered \/ Reconfigure
    \/ BeginRetire \/ Carry
    \/ Stop \/ PowerLoss

Spec == Init /\ [][Next]_vars

\* A watching pipeline runs pass after pass, and a derivation once begun ends:
\* no step of it waits, so this is what weak fairness of Derive would say. A
\* request is answered in the end, and time passes. Nothing is assumed of
\* landing, of idleness or of faults.
Fairness ==
    /\ WF_vars(DeriveFiles) /\ []<>(pass.step = "idle")
    /\ \A f \in Files : WF_vars(Wait(f))
    /\ WF_vars(Answered)
    /\ WF_vars(Unfinished /\ BeginRetire)
    /\ WF_vars(Carry)

FairSpec == Spec /\ Fairness

-----------------------------------------------------------------------------
(* Properties.                                                               *)

\* A request once derived reaches a receiver, or waits in the spool, or is in
\* the receipts a session's directory still has: a retirement never deletes the
\* last copy, also across stops, failed syncs and a loss of power
\* (receipt.go:146-155, retire.go:361-400).
RequestsKept ==
    \A f \in Files : receipt[f].request # {} => InSpool(f) \/ Here \/ taken[f] # {}

\* What a receiver answered is never sent again, and everything of the session
\* goes to one owner: also when a loss of power brings back a directory or a
\* deleted request after the state was to forget it (retire.go:207-228).
SentOnce ==
    [][\A f \in Files : push' = f /\ push = None =>
            f \notin answered /\ UNION {taken[g] : g \in Files} \subseteq {owner'}]_vars

\* A retirement once begun ends, whatever stopped it: the directories are gone,
\* what is left in the spool waits for its receiver, and push.state keeps
\* nothing of the session but the owner of what waits. Only a marker that was
\* lost with the power before anything went ends it otherwise
\* (retire.go:90-116, 349-360).
Over ==
    /\ dir.now = "gone" /\ line = {}
    /\ owner # None => \E f \in Files : InSpool(f)
RetirementEnds == Retired ~> (Over \/ (~Retired /\ Here))

\* Every file that landed is derived in the end, a file that waits for its
\* call's continuation and one that could not be read included.
DerivesAll == \A f \in Files : (landed >= f) ~> (f \in saved.derived \/ ~Here \/ Retired)
=============================================================================
