---------------------------- MODULE RetireProofs ----------------------------
(* Theorems of Retire and of the derivation it extends: that a retirement   *)
(* keeps every request, that what was answered stays answered, and that a   *)
(* call counts once, in windows that lie apart, for any files, owners,      *)
(* stops and losses of power.                                               *)
EXTENDS Retire, FiniteSetTheorems, WellFoundedInduction, TLAPS

RetireSteps == {"idle", "mark", "hand", "write", "rename", "move", "delete", "tidy", "sync",
                "push", "metrics", "settle"}
Attempt == [step : RetireSteps, file : Nat \ {0}, sent : SUBSET Files, tidy : SUBSET Files]

\* The kinds of values the argument is about.
Shape ==
    /\ landed \in Files
    /\ DOMAIN receipt = Files /\ DOMAIN spool = Files
    /\ taken \in [Files -> SUBSET Owners]
    /\ retire \in Attempt
    /\ line \in SUBSET Files /\ answered \in SUBSET Files
    /\ owner \in Owners \cup {None} /\ config \in Owners /\ push \in Files \cup {None}

\* What a process sees is one of what may be left, and no failed sync is held
\* against a name that reads as nothing.
Proper(e) == e.now \in e.may /\ e.stuck \in BOOLEAN /\ (e.stuck => e.now # {})
Entries ==
    /\ \A f \in Files : Proper(spool[f])
    /\ dir.now \in dir.may /\ dir.stuck = FALSE
    /\ Here => dir.may = {"session"}

\* The steps that come once the directory is renamed away.
After == {"move", "delete", "tidy", "sync", "push", "metrics", "settle"}

\* One thing at a time, and only a directory that is there is read.
Alone ==
    /\ pass.step # "idle" => Here /\ retire.step = "idle" /\ push = None
    /\ push # None => retire.step = "idle" /\ owner = config
    /\ retire.step \in After => ~Here
    /\ \A f \in Files : f > landed => receipt[f].request = {}
    /\ retire.step = "write" =>
           Here /\ retire.file \in Files /\ receipt[retire.file].request # {}

\* A request a deletion of the directory cannot cost.
Safe(f) == receipt[f].request = {} \/ taken[f] # {} \/ {} \notin spool[f].may

\* The hand-off makes the requests safe, file by file.
HandedOff ==
    /\ ~Here \/ retire.step = "rename" => \A f \in Files : Safe(f)
    /\ retire.step \in {"mark", "hand", "write"} => \A f \in Files : f < retire.file => Safe(f)

\* A request that no loss of power brings back, nor a directory that would.
Gone(f) == spool[f].may = {{}} /\ "session" \notin dir.may

\* What the state says of what was sent, and what it may forget.
Sent ==
    /\ line \subseteq answered
    /\ \A f \in answered : taken[f] # {} /\ (f \in line \/ Gone(f))
    /\ retire.sent \subseteq answered /\ retire.tidy \subseteq answered
    /\ (\A f \in Files : taken[f] \subseteq {owner}) \/ (\A f \in Files : Gone(f))

\* What the syncs before the state forgets have settled.
Synced ==
    retire.step = "push" =>
        /\ dir.may = {dir.now}
        /\ \A f \in Files : ~InSpool(f) => spool[f].may = {{}}

IInv == Shape /\ Entries /\ Alone /\ HandedOff /\ Sent /\ Synced
-----------------------------------------------------------------------------
(* Names on disk.                                                            *)

LEMMA SettledFields ==
    ASSUME NEW v
    PROVE  Settled(v).now = v /\ Settled(v).may = {v} /\ Settled(v).stuck = FALSE
    BY DEF Settled

LEMMA WrittenFields ==
    ASSUME NEW e, NEW v
    PROVE  /\ Written(e, v).now = v /\ Written(e, v).may = e.may \cup {v}
           /\ Written(e, v).stuck = FALSE
    BY DEF Written

LEMMA ProperSettled ==
    ASSUME NEW v
    PROVE  Proper(Settled(v))
    BY SettledFields DEF Proper

LEMMA ProperWritten ==
    ASSUME NEW e, NEW v
    PROVE  Proper(Written(e, v))
    BY Zenon DEF Proper, Written

LEMMA ProperFlushed ==
    ASSUME NEW e, Proper(e)
    PROVE  /\ Proper(Flushed(e)) /\ Flushed(e).now = e.now
           /\ e.now = {} => Flushed(e).may = {{}}
           /\ \A v : v \in Flushed(e).may => v \in e.may
    <1>1. CASE e.stuck
        <2>1. Flushed(e) = e
            BY <1>1 DEF Flushed
        <2>2. QED
            BY <1>1, <2>1 DEF Proper
    <1>2. CASE ~e.stuck
        <2>1. Flushed(e) = Settled(e.now)
            BY <1>2 DEF Flushed
        <2>2. e.now \in e.may
            BY DEF Proper
        <2>3. Proper(Settled(e.now))
            BY ProperSettled, Zenon
        <2>4. Settled(e.now).now = e.now /\ Settled(e.now).may = {e.now}
            BY SettledFields
        <2>5. QED
            BY <2>1, <2>2, <2>3, <2>4, Zenon
    <1>3. QED
        BY <1>1, <1>2

\* A name written just before it is flushed has no other value left.
LEMMA FlushedWritten ==
    ASSUME NEW e, NEW v
    PROVE  Flushed(Written(e, v)) = Settled(v)
    BY WrittenFields DEF Flushed

LEMMA ProperFailed ==
    ASSUME NEW e, NEW v, v # {}
    PROVE  /\ Proper(Failed(Written(e, v))) /\ Failed(Written(e, v)).now = v
           /\ Failed(Written(e, v)).may = e.may \cup {v}
    <1>1. Failed(Written(e, v)) =
              [now |-> v, may |-> e.may \cup {v}, stuck |-> (e.may \cup {v}) # {v}]
        BY DEF Failed, Written
    <1>2. ((e.may \cup {v}) # {v}) \in BOOLEAN
        OBVIOUS
    <1>3. QED
        BY <1>1, <1>2 DEF Proper

-----------------------------------------------------------------------------
(* Initially.                                                                *)

LEMMA RetireInit == Init => IInv
    <1> SUFFICES ASSUME Init PROVE IInv
        OBVIOUS
    <1> USE DEF Init, MetricsInit
    <1>1. Shape
        <2>1. NotRetiring \in Attempt
            BY DEF NotRetiring, Attempt, RetireSteps
        <2>2. QED
            BY <2>1, MetricsAssumption, RetireAssumption DEF Shape, Files
    <1>2. Entries
        BY ProperSettled, SettledFields DEF Entries, Here
    <1>3. Alone
        BY DEF Alone, NoPass, NotRetiring, After, NoReceipt
    <1>4. HandedOff
        BY SettledFields DEF HandedOff, Here, NotRetiring
    <1>5. Sent
        BY DEF Sent, NotRetiring
    <1>6. Synced
        BY DEF Synced, NotRetiring
    <1>7. QED
        BY <1>1, <1>2, <1>3, <1>4, <1>5, <1>6 DEF IInv

-----------------------------------------------------------------------------
(* Landing and deriving: all there is of a session that is not retired.      *)

\* What such a step does to what the argument is about.
InSessionStep ==
    /\ Here /\ retire.step = "idle" /\ push = None
    /\ UNCHANGED <<dir, retirement>>
    /\ landed' \in Files /\ landed <= landed'
    /\ DOMAIN receipt' = Files /\ DOMAIN spool' = Files
    /\ \A f \in Files : receipt'[f] = receipt[f] \/ f <= landed
    /\ \A f \in Files : spool'[f] = spool[f] \/ Proper(spool'[f])

LEMMA InSessionKeeps == IInv /\ InSessionStep => IInv'
    <1> SUFFICES ASSUME IInv, InSessionStep PROVE IInv'
        OBVIOUS
    <1> USE DEF InSessionStep, retirement
    <1>1. Shape'
        BY DEF IInv, Shape
    <1>2. Entries'
        BY DEF IInv, Entries, Here
    <1>3. Alone'
        <2>1. \A f \in Files : f > landed' => receipt'[f].request = {}
            BY DEF IInv, Shape, Alone, Files
        <2>2. QED
            BY <2>1 DEF IInv, Alone, Here, After
    <1>4. HandedOff'
        BY DEF IInv, HandedOff, Here
    <1>5. Sent'
        BY DEF IInv, Sent, Gone, Entries
    <1>6. Synced'
        BY DEF Synced
    <1>7. QED
        BY <1>1, <1>2, <1>3, <1>4, <1>5, <1>6 DEF IInv

LEMMA LandStep == IInv /\ LandFile => IInv'
    <1> SUFFICES ASSUME IInv, LandFile PROVE InSessionStep
        BY InSessionKeeps
    <1> QED
        BY MetricsAssumption DEF LandFile, Free, Land, InSessionStep, retirement, IInv, Shape, Files

LEMMA DeriveFilesStep == IInv /\ DeriveFiles => IInv'
    <1> SUFFICES ASSUME IInv, DeriveFiles PROVE InSessionStep
        BY InSessionKeeps
    <1> QED
        BY DEF DeriveFiles, Free, BeginPass, InSessionStep, retirement, IInv, Shape, Files

LEMMA WaitStep == ASSUME IInv, NEW f \in Files, Wait(f) PROVE IInv'
    <1>1. UNCHANGED <<dir, landed, receipt, spool, pass, retirement>>
        BY DEF Wait, Age
    <1>2. QED
        BY <1>1 DEF IInv, Shape, Entries, Alone, HandedOff, Sent, Synced, Here, InSpool, Gone, Safe,
                    retirement

\* A pass keeps the steps it takes to the session's receipts and its spool.
LEMMA DeriveStep == IInv /\ Derive => IInv'
    <1> SUFFICES ASSUME IInv, Derive PROVE InSessionStep
        BY InSessionKeeps
    <1>1. UNCHANGED <<dir, landed, retirement>> /\ landed' \in Files /\ landed <= landed'
        BY DEF Derive, PassSteps, PassOver, Defer, DeriveReceipt, Put, Save, IInv, Shape, Files
    <1>2. Here /\ retire.step = "idle" /\ push = None
        <2>1. pass.step # "idle"
            BY DEF Derive, PassSteps, PassOver, Defer, DeriveReceipt, Put, Save, AtFile
        <2>2. QED
            BY <2>1 DEF IInv, Alone
    <1>3. DOMAIN receipt' = Files /\ \A f \in Files : receipt'[f] = receipt[f] \/ f <= landed
        <2>1. CASE DeriveReceipt
            BY <2>1 DEF DeriveReceipt, AtFile, IInv, Shape
        <2>2. CASE PassOver \/ Defer \/ Put \/ Save
            BY <2>2 DEF PassOver, Defer, Put, Save, IInv, Shape
        <2>3. QED
            BY <2>1, <2>2 DEF Derive, PassSteps
    <1>4. DOMAIN spool' = Files /\ \A f \in Files : spool'[f] = spool[f] \/ Proper(spool'[f])
        <2>1. CASE Put
            <3> DEFINE request == receipt[pass.at].request
                       e == Written(spool[pass.at], request)
            <3>1. \/ spool' = spool
                  \/ /\ request # {}
                     /\ \/ spool' = [spool EXCEPT ![pass.at] = Flushed(e)]
                        \/ spool' = [spool EXCEPT ![pass.at] = Failed(e)]
                BY <2>1 DEF Put, PutNamed
            <3>2. Proper(Flushed(e))
                BY ProperWritten, ProperFlushed
            <3>3. request # {} => Proper(Failed(e))
                BY ProperFailed
            <3> HIDE DEF request, e
            <3>4. QED
                BY <3>1, <3>2, <3>3 DEF IInv, Shape
        <2>2. CASE PassOver \/ Defer \/ DeriveReceipt \/ Save
            BY <2>2 DEF PassOver, Defer, DeriveReceipt, Save, IInv, Shape
        <2>3. QED
            BY <2>1, <2>2 DEF Derive, PassSteps
    <1>5. QED
        BY <1>1, <1>2, <1>3, <1>4 DEF InSessionStep

LEMMA DeriveFailsStep == IInv /\ DeriveFails => IInv'
    <1> SUFFICES ASSUME IInv, DeriveFails PROVE InSessionStep
        BY InSessionKeeps
    <1>1. pass.step # "idle" /\ UNCHANGED <<dir, landed, receipt, spool, retirement>>
        BY DEF DeriveFails, Break, AtFile
    <1>2. QED
        BY <1>1 DEF InSessionStep, IInv, Shape, Alone, Files

-----------------------------------------------------------------------------
(* Sending.                                                                  *)

LEMMA SendStep == ASSUME IInv, NEW f \in Files, Send(f) PROVE IInv'
    <1>1. /\ UNCHANGED <<landed, receipt, spool, pass, dir, retire, line, config, taken, answered>>
          /\ Free /\ owner \in {None, config} /\ owner' = config /\ push' = f /\ InSpool(f)
        BY DEF Send
    <1>2. Shape'
        BY <1>1 DEF IInv, Shape
    <1>3. Entries' /\ HandedOff' /\ Synced'
        BY <1>1 DEF IInv, Entries, HandedOff, Synced, Here, Safe, InSpool, Free
    <1>4. Alone'
        BY <1>1 DEF IInv, Alone, Free, Here
    <1>5. \A g \in Files : taken[g] \subseteq {config}
        <2>1. ~Gone(f)
            BY <1>1 DEF IInv, Entries, Proper, Gone, InSpool
        <2>2. \A g \in Files : taken[g] \subseteq {owner}
            BY <2>1 DEF IInv, Sent
        <2>3. owner = None => \A g \in Files : taken[g] = {}
            BY <2>2, RetireAssumption DEF IInv, Shape
        <2>4. QED
            BY <1>1, <2>2, <2>3
    <1>6. Sent'
        BY <1>1, <1>5 DEF IInv, Sent, Gone
    <1>7. QED
        BY <1>2, <1>3, <1>4, <1>6 DEF IInv

\* The receiver takes the request in hand, or not: it is of the session's owner.
Takes ==
    \/ taken' = taken
    \/ push \in Files /\ taken' = [taken EXCEPT ![push] = @ \cup {config}]

LEMMA TakesFacts ==
    ASSUME IInv, Takes
    PROVE  /\ taken' \in [Files -> SUBSET Owners]
           /\ \A f \in Files : taken[f] \subseteq taken'[f]
           /\ (\A f \in Files : taken[f] \subseteq {owner}) =>
                  (\A f \in Files : taken'[f] \subseteq {owner})
    <1>1. taken \in [Files -> SUBSET Owners] /\ config \in Owners
        BY DEF IInv, Shape
    <1>2. push \in Files => owner = config
        BY RetireAssumption DEF IInv, Alone
    <1>3. CASE taken' = taken
        BY <1>1, <1>3
    <1>4. CASE push \in Files /\ taken' = [taken EXCEPT ![push] = @ \cup {config}]
        BY <1>1, <1>2, <1>4
    <1>5. QED
        BY <1>3, <1>4 DEF Takes

LEMMA AnsweredStep == IInv /\ Answered => IInv'
    <1> SUFFICES ASSUME IInv, Answered PROVE IInv'
        OBVIOUS
    <1>1. /\ UNCHANGED <<landed, receipt, spool, pass, dir, retire, owner, config>>
          /\ push # None /\ push' = None
          /\ line' = line \cup {push} /\ answered' = answered \cup {push}
          /\ taken' = [taken EXCEPT ![push] = @ \cup {config}]
        BY DEF Answered
    <1>2. push \in Files /\ taken \in [Files -> SUBSET Owners]
        BY <1>1 DEF IInv, Shape
    <1>3. Takes
        BY <1>1, <1>2 DEF Takes
    <1>4. Shape'
        BY <1>1, <1>2, <1>3, TakesFacts DEF IInv, Shape
    <1>5. Entries' /\ Synced'
        BY <1>1 DEF IInv, Entries, Synced, Here, InSpool
    <1>6. Alone'
        BY <1>1 DEF IInv, Alone, Here
    <1>7. HandedOff'
        BY <1>1, <1>3, TakesFacts DEF IInv, HandedOff, Safe, Here
    <1>8. Sent'
        <2>1. taken'[push] # {}
            BY <1>1, <1>2
        <2>2. \A f \in answered' : taken'[f] # {} /\ (f \in line' \/ Gone(f)')
            BY <1>1, <1>3, <2>1, TakesFacts DEF IInv, Sent, Gone, Shape
        <2>3. QED
            BY <1>1, <1>3, <2>2, TakesFacts DEF IInv, Sent, Gone
    <1>9. QED
        BY <1>4, <1>5, <1>6, <1>7, <1>8 DEF IInv

LEMMA MayHaveTakenTakes == IInv /\ MayHaveTaken => Takes
    BY DEF MayHaveTaken, Takes, IInv, Shape

LEMMA UnansweredStep == IInv /\ Unanswered => IInv'
    <1> SUFFICES ASSUME IInv, Unanswered PROVE IInv'
        OBVIOUS
    <1>1. /\ UNCHANGED <<landed, receipt, spool, pass, dir, retire, line, owner, config, answered>>
          /\ push' = None
        BY DEF Unanswered
    <1>2. Takes
        BY MayHaveTakenTakes DEF Unanswered
    <1>3. Shape'
        BY <1>1, <1>2, TakesFacts DEF IInv, Shape
    <1>4. Entries' /\ Synced'
        BY <1>1 DEF IInv, Entries, Synced, Here, InSpool
    <1>5. Alone'
        BY <1>1 DEF IInv, Alone, Here
    <1>6. HandedOff'
        BY <1>1, <1>2, TakesFacts DEF IInv, HandedOff, Safe, Here
    <1>7. Sent'
        BY <1>1, <1>2, TakesFacts DEF IInv, Sent, Gone, Shape
    <1>8. QED
        BY <1>3, <1>4, <1>5, <1>6, <1>7 DEF IInv

LEMMA ReconfigureStep == IInv /\ Reconfigure => IInv'
    <1> SUFFICES ASSUME IInv, Reconfigure PROVE IInv'
        OBVIOUS
    <1>1. /\ UNCHANGED <<landed, receipt, spool, pass, dir, retire, line, owner, push, taken, answered>>
          /\ Free /\ config' \in Owners
        BY DEF Reconfigure
    <1>2. QED
        BY <1>1 DEF IInv, Shape, Entries, Alone, HandedOff, Sent, Synced, Here, Safe, Gone, InSpool, Free

-----------------------------------------------------------------------------
(* A retirement.                                                             *)

LEMMA AttemptFields ==
    ASSUME NEW r \in Attempt, NEW step \in RetireSteps
    PROVE  /\ [r EXCEPT !.step = step] \in Attempt
           /\ [r EXCEPT !.step = step].step = step
           /\ [r EXCEPT !.step = step].file = r.file
           /\ [r EXCEPT !.step = step].sent = r.sent
           /\ [r EXCEPT !.step = step].tidy = r.tidy
    BY DEF Attempt

LEMMA GivenUp == NotRetiring \in Attempt /\ NotRetiring.step = "idle"
                 /\ NotRetiring.sent = {} /\ NotRetiring.tidy = {}
    BY DEF NotRetiring, Attempt, RetireSteps

LEMMA CarryAlone == IInv /\ Carry => pass.step = "idle" /\ push = None
    BY DEF IInv, Alone, Carry, MarkDurable, HandOff, WriteAgain, Rename, MoveDurable, DeleteMoved, Tidy,
           SyncChanged, ForgetGone, ForgetMetrics, Settle

\* A step that changes no name on disk, to a step that promises no more.
LEMMA StepOnly ==
    ASSUME IInv, pass.step = "idle", push = None,
           UNCHANGED <<landed, receipt, spool, pass, dir, line, owner, config, push, taken, answered>>,
           retire' \in Attempt,
           retire'.sent \subseteq answered, retire'.tidy \subseteq answered,
           retire'.step \in After => ~Here,
           retire'.step \notin {"write", "push"},
           retire'.step = "rename" => \A f \in Files : Safe(f),
           retire'.step \in {"mark", "hand"} => \A f \in Files : f < retire'.file => Safe(f)
    PROVE  IInv'
    <1>1. Shape'
        BY DEF IInv, Shape
    <1>2. Entries' /\ Synced'
        BY DEF IInv, Entries, Synced, Here
    <1>3. Alone'
        BY DEF IInv, Alone, Here
    <1>4. HandedOff'
        BY DEF IInv, HandedOff, Here, Safe
    <1>5. Sent'
        BY DEF IInv, Sent, Gone
    <1>6. QED
        BY <1>1, <1>2, <1>3, <1>4, <1>5 DEF IInv

LEMMA BegunFields ==
    ASSUME NEW S \in SUBSET Files, NEW T \in SUBSET Files
    PROVE  LET a == [NotRetiring EXCEPT !.sent = S, !.tidy = T]
           IN  a \in Attempt /\ a.file = 1 /\ a.sent = S /\ a.tidy = T
    BY GivenUp DEF NotRetiring, Attempt

LEMMA BeginRetireStep == IInv /\ BeginRetire => IInv'
    <1> SUFFICES ASSUME IInv, BeginRetire PROVE IInv'
        OBVIOUS
    <1> DEFINE tidy == {f \in line : InSpool(f)}
               attempt == [NotRetiring EXCEPT !.sent = line, !.tidy = tidy]
    <1>1. \/ retire' = [attempt EXCEPT !.step = "sync"] /\ dir.now = "gone"
          \/ retire' = [attempt EXCEPT !.step = "mark"]
        BY DEF BeginRetire
    <1>2. /\ UNCHANGED <<landed, receipt, spool, pass, dir, line, owner, config, push, taken, answered>>
          /\ Free
        BY DEF BeginRetire, InSession, Sending
    <1>3. line \subseteq answered /\ answered \subseteq Files
        BY DEF IInv, Sent, Shape
    <1>4. tidy \subseteq line
        OBVIOUS
    <1> HIDE DEF tidy
    <1>5. line \in SUBSET Files /\ tidy \in SUBSET Files
        BY <1>3, <1>4
    <1>6. /\ attempt \in Attempt
          /\ attempt.file = 1 /\ attempt.sent = line /\ attempt.tidy = tidy
        BY <1>5, BegunFields
    <1> HIDE DEF attempt
    <1>7. /\ retire' \in Attempt
          /\ retire'.file = 1 /\ retire'.sent = line /\ retire'.tidy = tidy
          /\ retire'.step = "mark" \/ (retire'.step = "sync" /\ dir.now = "gone")
        <2>1. "mark" \in RetireSteps /\ "sync" \in RetireSteps
            BY DEF RetireSteps
        <2>2. CASE retire' = [attempt EXCEPT !.step = "mark"]
            BY <1>6, <2>1, <2>2, AttemptFields
        <2>3. CASE retire' = [attempt EXCEPT !.step = "sync"] /\ dir.now = "gone"
            BY <1>6, <2>1, <2>3, AttemptFields
        <2>4. QED
            BY <1>1, <2>2, <2>3
    <1>8. retire'.step \in {"mark", "hand"} => \A f \in Files : f < retire'.file => Safe(f)
        BY <1>7 DEF Files
    <1>9. retire'.sent \subseteq answered /\ retire'.tidy \subseteq answered
        BY <1>3, <1>4, <1>7
    <1>10. /\ retire'.step \in After => ~Here
           /\ retire'.step \notin {"write", "push"} /\ retire'.step # "rename"
        BY <1>7 DEF Here, After
    <1>11. QED
        BY <1>2, <1>7, <1>8, <1>9, <1>10, StepOnly DEF Free

\* A step that only goes on from one step to the next, or gives the attempt up.
LEMMA GoesOn ==
    ASSUME IInv, pass.step = "idle", push = None, NEW step \in RetireSteps,
           UNCHANGED <<landed, receipt, spool, pass, dir, line, owner, config, push, taken, answered>>,
           retire' = [retire EXCEPT !.step = step] \/ retire' = NotRetiring,
           step \in After => ~Here,
           step \notin {"mark", "write", "push"},
           step = "rename" => \A f \in Files : Safe(f),
           step = "hand" => \A f \in Files : f < retire.file => Safe(f)
    PROVE  IInv'
    <1>1. retire \in Attempt /\ retire.sent \subseteq answered /\ retire.tidy \subseteq answered
        BY DEF IInv, Shape, Sent
    <1>2. CASE retire' = [retire EXCEPT !.step = step]
        <2>1. /\ retire' \in Attempt /\ retire'.step = step /\ retire'.file = retire.file
              /\ retire'.sent = retire.sent /\ retire'.tidy = retire.tidy
            BY <1>1, <1>2, AttemptFields
        <2>2. QED
            BY <1>1, <2>1, StepOnly
    <1>3. CASE retire' = NotRetiring
        <2>1. /\ retire' \in Attempt /\ retire'.step = "idle"
              /\ retire'.sent = {} /\ retire'.tidy = {}
            BY <1>3, GivenUp
        <2>2. QED
            BY <2>1, StepOnly DEF After
    <1>4. QED
        BY <1>2, <1>3

LEMMA MarkDurableStep == IInv /\ MarkDurable => IInv'
    <1> SUFFICES ASSUME IInv, MarkDurable PROVE IInv'
        OBVIOUS
    <1>1. UNCHANGED <<landed, receipt, spool, pass, dir, line, owner, config, push, taken, answered>>
        BY DEF MarkDurable, InSession, Sending
    <1>2. retire' = [retire EXCEPT !.step = "hand"] \/ retire' = NotRetiring
        BY DEF MarkDurable, Goes, GivesUp
    <1>3. pass.step = "idle" /\ push = None
        BY CarryAlone DEF Carry
    <1>4. \A f \in Files : f < retire.file => Safe(f)
        BY DEF MarkDurable, IInv, HandedOff
    <1>5. QED
        BY <1>1, <1>2, <1>3, <1>4, GoesOn DEF RetireSteps, After

\* What an attempt does to the spool, and to nothing else on disk.
LEMMA SpoolStep ==
    ASSUME IInv, pass.step = "idle", push = None,
           UNCHANGED <<landed, receipt, pass, dir, line, owner, config, push, taken, answered>>,
           retire' \in Attempt,
           retire'.sent \subseteq answered, retire'.tidy \subseteq answered,
           retire'.step \in After => ~Here,
           retire'.step = "write" => Here /\ retire'.file \in Files /\ receipt[retire'.file].request # {},
           DOMAIN spool' = Files,
           \A f \in Files : Proper(spool'[f]),
           \A f \in Files : spool[f].may = {{}} => Here \/ spool'[f].may = {{}},
           HandedOff', Synced'
    PROVE  IInv'
    <1>1. Shape'
        BY DEF IInv, Shape
    <1>2. Entries'
        BY DEF IInv, Entries, Here
    <1>3. Alone'
        BY DEF IInv, Alone, Here
    <1>4. Sent'
        <2>1. \A f \in Files : Gone(f) => Gone(f)'
            BY DEF IInv, Entries, Here, Gone
        <2>2. answered \subseteq Files
            BY DEF IInv, Shape
        <2>3. QED
            BY <2>1, <2>2 DEF IInv, Sent
    <1>5. QED
        BY <1>1, <1>2, <1>3, <1>4 DEF IInv

LEMMA AtFileFacts ==
    ASSUME IInv, retire.file <= landed
    PROVE  retire.file \in Files /\ retire \in Attempt
    <1>1. retire \in Attempt /\ landed \in Files
        BY DEF IInv, Shape
    <1>2. retire.file \in Nat \ {0}
        BY <1>1 DEF Attempt
    <1>3. QED
        BY <1>1, <1>2, MetricsAssumption DEF Files

LEMMA NextFileFields ==
    ASSUME NEW r \in Attempt
    PROVE  LET n == [r EXCEPT !.file = @ + 1]
           IN  /\ n \in Attempt /\ n.step = r.step /\ n.file = r.file + 1
               /\ n.sent = r.sent /\ n.tidy = r.tidy
    BY DEF Attempt

LEMMA FileFields ==
    ASSUME NEW r \in Attempt, NEW step \in RetireSteps
    PROVE  LET n == [r EXCEPT !.step = step, !.file = @ + 1]
           IN  /\ n \in Attempt /\ n.step = step /\ n.file = r.file + 1
               /\ n.sent = r.sent /\ n.tidy = r.tidy
    <1>1. ASSUME NEW k \in Nat \ {0}
          PROVE  [r EXCEPT !.step = step, !.file = k] \in Attempt
        BY DEF Attempt
    <1>2. r.file + 1 \in Nat \ {0}
        BY DEF Attempt
    <1>3. [r EXCEPT !.step = step, !.file = @ + 1] \in Attempt
        BY <1>1, <1>2
    <1>4. /\ [r EXCEPT !.step = step, !.file = @ + 1].step = step
          /\ [r EXCEPT !.step = step, !.file = @ + 1].file = r.file + 1
          /\ [r EXCEPT !.step = step, !.file = @ + 1].sent = r.sent
          /\ [r EXCEPT !.step = step, !.file = @ + 1].tidy = r.tidy
        BY DEF Attempt
    <1>5. QED
        BY <1>3, <1>4

LEMMA HandOffStep == IInv /\ HandOff => IInv'
    <1> SUFFICES ASSUME IInv, HandOff PROVE IInv'
        OBVIOUS
    <1>1. /\ UNCHANGED <<landed, receipt, pass, dir, line, owner, config, push, taken, answered>>
          /\ pass.step = "idle" /\ push = None /\ retire.step = "hand"
        BY CarryAlone DEF HandOff, InSession, Sending, Carry
    <1>2. retire \in Attempt /\ retire.sent \subseteq answered /\ retire.tidy \subseteq answered
        BY DEF IInv, Shape, Sent
    <1>3. \A f \in Files : f < retire.file => Safe(f)
        BY <1>1 DEF IInv, HandedOff
    <1>4. CASE ~Here \/ retire.file > landed
        <2>1. retire' = [retire EXCEPT !.step = "rename"] /\ spool' = spool
            BY <1>4 DEF HandOff, Goes
        <2>2. CASE Here
            <3>1. \A f \in Files : f > landed => Safe(f)
                BY DEF IInv, Alone, Safe
            <3>2. retire.file \in Nat /\ landed \in Nat /\ retire.file > landed
                BY <1>2, <1>4, <2>2 DEF IInv, Shape, Files, Attempt
            <3>3. \A f \in Files : f < retire.file \/ f > landed
                BY <3>2 DEF Files
            <3>4. \A f \in Files : Safe(f)
                BY <1>3, <3>1, <3>3
            <3>5. QED
                BY <1>1, <2>1, <3>4, GoesOn DEF RetireSteps, After
        <2>3. CASE ~Here
            <3>1. \A f \in Files : Safe(f)
                BY <2>3 DEF IInv, HandedOff
            <3>2. QED
                BY <1>1, <2>1, <3>1, GoesOn DEF RetireSteps, After
        <2>4. QED
            BY <2>2, <2>3
    <1>5. CASE Here /\ ~(retire.file > landed) /\ Owed(retire.file)
        <2>1. /\ retire' = [retire EXCEPT !.step = "write"]
              /\ spool' = [spool EXCEPT ![retire.file] = Written(@, {})]
            BY <1>5 DEF HandOff, Goes
        <2>2. retire.file <= landed
            BY <1>2, <1>5 DEF IInv, Shape, Files, Attempt
        <2>3. retire.file \in Files
            BY <2>2, AtFileFacts
        <2>4. /\ retire' \in Attempt /\ retire'.step = "write" /\ retire'.file = retire.file
              /\ retire'.sent = retire.sent /\ retire'.tidy = retire.tidy
            BY <1>2, <2>1, AttemptFields DEF RetireSteps
        <2>5. DOMAIN spool' = Files /\ \A f \in Files : f # retire.file => spool'[f] = spool[f]
            BY <2>1 DEF IInv, Shape
        <2>6. Proper(spool'[retire.file])
            BY <2>1, <2>3, ProperWritten DEF IInv, Shape
        <2>7. \A f \in Files : Proper(spool'[f])
            BY <2>5, <2>6 DEF IInv, Entries
        <2>8. HandedOff'
            <3>1. \A f \in Files : f < retire.file => f # retire.file
                BY <1>2 DEF Files, Attempt
            <3>2. \A f \in Files : f < retire.file => Safe(f)'
                BY <1>1, <1>3, <2>5, <3>1 DEF Safe
            <3>3. QED
                BY <1>1, <1>5, <2>4, <3>2 DEF HandedOff, Here
        <2>9. Synced'
            BY <2>4 DEF Synced
        <2>10. QED
            BY <1>1, <1>2, <1>5, <2>3, <2>4, <2>5, <2>7, <2>8, <2>9, SpoolStep DEF Owed, After
    <1>6. CASE Here /\ ~(retire.file > landed) /\ ~Owed(retire.file)
        <2>1. retire' = [retire EXCEPT !.file = @ + 1] /\ spool' = spool
            BY <1>6 DEF HandOff
        <2>2. /\ retire' \in Attempt /\ retire'.step = "hand" /\ retire'.file = retire.file + 1
              /\ retire'.sent = retire.sent /\ retire'.tidy = retire.tidy
            BY <1>1, <1>2, <2>1, NextFileFields
        <2>3. retire.file \in Files => Safe(retire.file)
            BY <1>2, <1>6 DEF Owed, Safe, IInv, Sent
        <2>4. \A f \in Files : f < retire'.file => Safe(f)
            <3>1. \A f \in Files : f < retire.file + 1 => f < retire.file \/ f = retire.file
                BY <1>2 DEF Files, Attempt
            <3>2. QED
                BY <1>3, <2>2, <2>3, <3>1
        <2>5. QED
            BY <1>1, <1>2, <2>1, <2>2, <2>4, StepOnly DEF After
    <1>7. QED
        BY <1>4, <1>5, <1>6

LEMMA WriteAgainStep == IInv /\ WriteAgain => IInv'
    <1> SUFFICES ASSUME IInv, WriteAgain PROVE IInv'
        OBVIOUS
    <1> DEFINE request == receipt[retire.file].request
               e == Written(spool[retire.file], request)
    <1>1. /\ UNCHANGED <<landed, receipt, pass, dir, line, owner, config, push, taken, answered>>
          /\ pass.step = "idle" /\ push = None /\ retire.step = "write"
        BY CarryAlone DEF WriteAgain, InSession, Sending, Carry
    <1>2. Here /\ retire.file \in Files /\ request # {}
        BY <1>1 DEF IInv, Alone
    <1>3. retire \in Attempt /\ retire.sent \subseteq answered /\ retire.tidy \subseteq answered
        BY DEF IInv, Shape, Sent
    <1>4. \/ /\ spool' = [spool EXCEPT ![retire.file] = Flushed(e)]
             /\ retire' = [retire EXCEPT !.step = "hand", !.file = @ + 1]
          \/ spool' = [spool EXCEPT ![retire.file] = Failed(e)] /\ retire' = NotRetiring
        BY DEF WriteAgain, GivesUp
    <1>5. Proper(Flushed(e)) /\ Proper(Failed(e)) /\ {} \notin Flushed(e).may
        <2>1. Flushed(e) = Settled(request)
            BY FlushedWritten
        <2>2. Proper(Failed(e))
            BY <1>2, ProperFailed
        <2> HIDE DEF request, e
        <2>3. Proper(Settled(request)) /\ Settled(request).may = {request}
            BY ProperSettled, SettledFields, Zenon
        <2>4. QED
            BY <1>2, <2>1, <2>2, <2>3
    <1> HIDE DEF request, e
    <1>6. DOMAIN spool' = Files /\ \A f \in Files : Proper(spool'[f])
        BY <1>4, <1>5 DEF IInv, Shape, Entries
    <1>7. /\ retire' \in Attempt /\ retire'.step \in {"hand", "idle"}
          /\ retire'.sent \subseteq answered /\ retire'.tidy \subseteq answered
        <2>1. CASE retire' = [retire EXCEPT !.step = "hand", !.file = @ + 1]
            BY <1>3, <2>1, FileFields DEF RetireSteps
        <2>2. CASE retire' = NotRetiring
            BY <2>2, GivenUp
        <2>3. QED
            BY <1>4, <2>1, <2>2
    <1>8. HandedOff'
        <2>1. CASE retire' = NotRetiring
            BY <1>1, <1>2, <2>1, GivenUp DEF HandedOff, Here
        <2>2. CASE /\ spool' = [spool EXCEPT ![retire.file] = Flushed(e)]
                   /\ retire' = [retire EXCEPT !.step = "hand", !.file = @ + 1]
            <3>1. retire'.step = "hand" /\ retire'.file = retire.file + 1
                BY <1>3, <2>2, FileFields DEF RetireSteps
            <3>2. \A f \in Files : f = retire.file => Safe(f)'
                BY <1>1, <1>5, <2>2 DEF Safe, IInv, Shape
            <3>3. \A f \in Files : f < retire.file => Safe(f)'
                <4>1. \A f \in Files : f < retire.file => spool'[f] = spool[f] /\ Safe(f)
                    BY <1>1, <1>3, <2>2 DEF IInv, Shape, HandedOff, Files, Attempt
                <4>2. QED
                    BY <1>1, <4>1 DEF Safe
            <3>4. \A f \in Files : f < retire.file + 1 => f < retire.file \/ f = retire.file
                BY <1>2 DEF Files
            <3>5. \A f \in Files : f < retire'.file => Safe(f)'
                BY <3>1, <3>2, <3>3, <3>4
            <3>6. QED
                BY <1>1, <1>2, <3>1, <3>5 DEF HandedOff, Here
        <2>3. QED
            BY <1>4, <2>1, <2>2
    <1>9. Synced'
        BY <1>7 DEF Synced
    <1>10. QED
        BY <1>1, <1>2, <1>6, <1>7, <1>8, <1>9, SpoolStep DEF After

\* What an attempt does to the directory, of which every request is safe.
LEMMA DirStep ==
    ASSUME IInv, pass.step = "idle", push = None,
           UNCHANGED <<landed, receipt, spool, pass, line, owner, config, push, taken, answered>>,
           retire' \in Attempt, retire'.step \notin {"write", "push"},
           retire'.sent \subseteq answered, retire'.tidy \subseteq answered,
           ~Here', dir'.now \in dir'.may, dir'.stuck = FALSE,
           "session" \notin dir.may => "session" \notin dir'.may,
           \A f \in Files : Safe(f)
    PROVE  IInv'
    <1>1. Shape'
        BY DEF IInv, Shape
    <1>2. Entries' /\ Synced'
        BY DEF IInv, Entries, Synced
    <1>3. Alone'
        BY DEF IInv, Alone
    <1>4. HandedOff'
        BY DEF HandedOff, Safe
    <1>5. Sent'
        <2>1. \A f \in Files : Gone(f) => Gone(f)'
            BY DEF Gone
        <2>2. answered \subseteq Files
            BY DEF IInv, Shape
        <2>3. QED
            BY <2>1, <2>2 DEF IInv, Sent
    <1>6. QED
        BY <1>1, <1>2, <1>3, <1>4, <1>5 DEF IInv

LEMMA RenameStep == IInv /\ Rename => IInv'
    <1> SUFFICES ASSUME IInv, Rename PROVE IInv'
        OBVIOUS
    <1>1. /\ UNCHANGED <<landed, receipt, spool, pass, line, owner, config, push, taken, answered>>
          /\ pass.step = "idle" /\ push = None /\ retire.step = "rename"
        BY CarryAlone DEF Rename, InSession, Sending, Carry
    <1>2. \A f \in Files : Safe(f)
        BY <1>1 DEF IInv, HandedOff
    <1>3. retire \in Attempt /\ retire.sent \subseteq answered /\ retire.tidy \subseteq answered
        BY DEF IInv, Shape, Sent
    <1>4. CASE Here
        <2>1. dir' = Written(dir, "moved") /\ retire' = [retire EXCEPT !.step = "move"]
            BY <1>4 DEF Rename, Goes
        <2>2. dir'.now = "moved" /\ dir'.may = dir.may \cup {"moved"} /\ dir'.stuck = FALSE
            BY <2>1 DEF Written
        <2>3. /\ retire' \in Attempt /\ retire'.step = "move"
              /\ retire'.sent = retire.sent /\ retire'.tidy = retire.tidy
            BY <1>3, <2>1, AttemptFields DEF RetireSteps
        <2>4. QED
            BY <1>1, <1>2, <1>3, <2>2, <2>3, DirStep DEF Here
    <1>5. CASE ~Here
        <2>1. dir' = dir /\ retire' = [retire EXCEPT !.step = "delete"]
            BY <1>5 DEF Rename, Goes
        <2>2. QED
            BY <1>1, <1>5, <2>1, GoesOn DEF RetireSteps, After
    <1>6. QED
        BY <1>4, <1>5

LEMMA MoveDurableStep == IInv /\ MoveDurable => IInv'
    <1> SUFFICES ASSUME IInv, MoveDurable PROVE IInv'
        OBVIOUS
    <1>1. /\ UNCHANGED <<landed, receipt, spool, pass, line, owner, config, push, taken, answered>>
          /\ pass.step = "idle" /\ push = None /\ retire.step = "move"
        BY CarryAlone DEF MoveDurable, InSession, Sending, Carry
    <1>2. ~Here
        BY <1>1 DEF IInv, Alone, After
    <1>3. \A f \in Files : Safe(f)
        BY <1>2 DEF IInv, HandedOff
    <1>4. retire \in Attempt /\ retire.sent \subseteq answered /\ retire.tidy \subseteq answered
        BY DEF IInv, Shape, Sent
    <1>5. CASE dir' = Flushed(dir) /\ retire' = [retire EXCEPT !.step = "delete"]
        <2>1. dir' = Settled(dir.now) /\ dir.now \in dir.may
            BY <1>5 DEF Flushed, IInv, Entries
        <2>2. dir'.now = dir.now /\ dir'.may = {dir.now} /\ dir'.stuck = FALSE
            BY <2>1, SettledFields
        <2>3. /\ retire' \in Attempt /\ retire'.step = "delete"
              /\ retire'.sent = retire.sent /\ retire'.tidy = retire.tidy
            BY <1>4, <1>5, AttemptFields DEF RetireSteps
        <2>4. QED
            BY <1>1, <1>2, <1>3, <1>4, <2>1, <2>2, <2>3, DirStep DEF Here
    <1>6. CASE dir' = dir /\ retire' = NotRetiring
        BY <1>1, <1>2, <1>6, GoesOn DEF RetireSteps, After
    <1>7. QED
        BY <1>5, <1>6 DEF MoveDurable, Goes, GivesUp

LEMMA DeleteMovedStep == IInv /\ DeleteMoved => IInv'
    <1> SUFFICES ASSUME IInv, DeleteMoved PROVE IInv'
        OBVIOUS
    <1>1. /\ UNCHANGED <<landed, receipt, spool, pass, line, owner, config, push, taken, answered>>
          /\ pass.step = "idle" /\ push = None /\ retire.step = "delete"
        BY CarryAlone DEF DeleteMoved, InSession, Sending, Carry
    <1>2. ~Here
        BY <1>1 DEF IInv, Alone, After
    <1>3. \A f \in Files : Safe(f)
        BY <1>2 DEF IInv, HandedOff
    <1>4. retire \in Attempt /\ retire.sent \subseteq answered /\ retire.tidy \subseteq answered
        BY DEF IInv, Shape, Sent
    <1>5. retire' = [retire EXCEPT !.step = "tidy"]
        BY DEF DeleteMoved, Goes
    <1>6. /\ retire' \in Attempt /\ retire'.step = "tidy"
          /\ retire'.sent = retire.sent /\ retire'.tidy = retire.tidy
        BY <1>4, <1>5, AttemptFields DEF RetireSteps
    <1>7. /\ dir'.now # "session" /\ dir'.now \in dir'.may /\ dir'.stuck = FALSE
          /\ "session" \notin dir.may => "session" \notin dir'.may
        <2>1. dir.now \in dir.may /\ dir.stuck = FALSE
            BY DEF IInv, Entries
        <2>2. CASE dir' = Written(dir, "gone")
            <3>1. dir'.now = "gone" /\ dir'.may = dir.may \cup {"gone"} /\ dir'.stuck = FALSE
                BY <2>2 DEF Written
            <3>2. QED
                BY <3>1
        <2>3. CASE dir' = dir
            BY <1>2, <2>1, <2>3 DEF Here
        <2>4. QED
            BY <2>2, <2>3 DEF DeleteMoved
    <1>8. QED
        BY <1>1, <1>3, <1>4, <1>6, <1>7, DirStep DEF Here

LEMMA TidyStep == IInv /\ Tidy => IInv'
    <1> SUFFICES ASSUME IInv, Tidy PROVE IInv'
        OBVIOUS
    <1>1. /\ UNCHANGED <<landed, receipt, pass, dir, line, owner, config, push, taken, answered>>
          /\ pass.step = "idle" /\ push = None /\ retire.step = "tidy"
        BY CarryAlone DEF Tidy, InSession, Sending, Carry
    <1>2. ~Here
        BY <1>1 DEF IInv, Alone, After
    <1>3. \A f \in Files : Safe(f)
        BY <1>2 DEF IInv, HandedOff
    <1>4. /\ retire \in Attempt /\ retire.sent \subseteq answered /\ retire.tidy \subseteq answered
          /\ answered \subseteq Files /\ \A f \in answered : taken[f] # {}
        BY DEF IInv, Shape, Sent
    <1>5. CASE retire' = [retire EXCEPT !.step = "sync"] /\ spool' = spool
        BY <1>1, <1>2, <1>5, GoesOn DEF RetireSteps, After
    <1>6. CASE \E f \in retire.tidy : spool' = [spool EXCEPT ![f] = Written(@, {})] /\ retire' = retire
        <2>1. PICK f \in retire.tidy : spool' = [spool EXCEPT ![f] = Written(@, {})] /\ retire' = retire
            BY <1>6
        <2>2. f \in Files /\ taken[f] # {}
            BY <1>4
        <2>3. /\ DOMAIN spool' = Files
              /\ spool'[f] = Written(spool[f], {})
              /\ \A g \in Files : g # f => spool'[g] = spool[g]
            BY <2>1, <2>2 DEF IInv, Shape
        <2>4. Proper(spool'[f]) /\ spool'[f].may = spool[f].may \cup {{}}
            <3>1. Proper(Written(spool[f], {}))
                BY ProperWritten
            <3>2. Written(spool[f], {}).may = spool[f].may \cup {{}}
                BY WrittenFields, Zenon
            <3>3. QED
                BY <2>3, <3>1, <3>2
        <2>5. \A g \in Files : Proper(spool'[g])
            BY <2>3, <2>4 DEF IInv, Entries
        <2>6. \A g \in Files : spool[g].may = {{}} => spool'[g].may = {{}}
            BY <2>3, <2>4
        <2>7. HandedOff'
            <3>1. \A g \in Files : Safe(g)'
                BY <1>1, <1>3, <2>2, <2>3 DEF Safe
            <3>2. QED
                BY <3>1 DEF HandedOff
        <2>8. Synced'
            BY <1>1, <2>1 DEF Synced
        <2>9. QED
            BY <1>1, <1>2, <1>4, <2>1, <2>3, <2>5, <2>6, <2>7, <2>8, SpoolStep
    <1>7. QED
        BY <1>5, <1>6 DEF Tidy, Goes

LEMMA SyncChangedStep == IInv /\ SyncChanged => IInv'
    <1> SUFFICES ASSUME IInv, SyncChanged PROVE IInv'
        OBVIOUS
    <1>1. /\ UNCHANGED <<landed, receipt, pass, line, owner, config, push, taken, answered>>
          /\ pass.step = "idle" /\ push = None /\ retire.step = "sync"
        BY CarryAlone DEF SyncChanged, InSession, Sending, Carry
    <1>2. ~Here
        BY <1>1 DEF IInv, Alone, After
    <1>3. CASE UNCHANGED <<spool, dir>> /\ retire' = NotRetiring
        BY <1>1, <1>2, <1>3, GoesOn DEF RetireSteps, After
    <1>4. CASE /\ spool' = [f \in Files |-> Flushed(spool[f])] /\ dir' = Flushed(dir)
               /\ retire' = [retire EXCEPT !.step = "push"]
        <2>1. \A f \in Files :
                  /\ Proper(spool'[f]) /\ spool'[f].now = spool[f].now
                  /\ spool[f].now = {} => spool'[f].may = {{}}
                  /\ \A v : v \in spool'[f].may => v \in spool[f].may
            BY <1>4, ProperFlushed DEF IInv, Entries
        <2>2. dir' = Settled(dir.now) /\ dir.now \in dir.may
            BY <1>4 DEF Flushed, IInv, Entries
        <2>3. dir'.now = dir.now /\ dir'.may = {dir.now} /\ dir'.stuck = FALSE
            BY <2>2, SettledFields
        <2>4. /\ retire \in Attempt /\ retire' \in Attempt /\ retire'.step = "push"
              /\ retire'.sent = retire.sent /\ retire'.tidy = retire.tidy
            BY <1>4, AttemptFields DEF RetireSteps, IInv, Shape
        <2>5. Shape'
            BY <1>1, <1>4, <2>4 DEF IInv, Shape
        <2>6. Entries'
            BY <1>2, <2>1, <2>3 DEF Entries, Here
        <2>7. Alone'
            BY <1>1, <1>2, <2>3, <2>4 DEF IInv, Alone, Here
        <2>8. HandedOff'
            <3>1. \A f \in Files : Safe(f)
                BY <1>2 DEF IInv, HandedOff
            <3>2. \A f \in Files : Safe(f)'
                BY <1>1, <2>1, <3>1 DEF Safe
            <3>3. QED
                BY <3>2 DEF HandedOff
        <2>9. Sent'
            <3>1. \A f \in Files : Gone(f) => Gone(f)'
                BY <2>1, <2>2, <2>3 DEF Gone, IInv, Entries, Proper
            <3>2. answered \subseteq Files
                BY DEF IInv, Shape
            <3>3. QED
                BY <1>1, <2>4, <3>1, <3>2 DEF IInv, Sent
        <2>10. Synced'
            BY <2>1, <2>3 DEF Synced, InSpool
        <2>11. QED
            BY <2>5, <2>6, <2>7, <2>8, <2>9, <2>10 DEF IInv
    <1>5. QED
        BY <1>3, <1>4 DEF SyncChanged, Goes, GivesUp

LEMMA ForgetGoneStep == IInv /\ ForgetGone => IInv'
    <1> SUFFICES ASSUME IInv, ForgetGone PROVE IInv'
        OBVIOUS
    <1>1. /\ UNCHANGED <<landed, receipt, spool, pass, dir, config, push, taken, answered>>
          /\ pass.step = "idle" /\ push = None /\ retire.step = "push"
          /\ line' \subseteq line /\ \A f \in line : f \in line' \/ ~InSpool(f)
          /\ retire' = [retire EXCEPT !.step = "metrics"]
        BY CarryAlone DEF ForgetGone, InSession, Carry, Goes
    <1>2. ~Here
        BY <1>1 DEF IInv, Alone, After
    <1>3. \A f \in Files : ~InSpool(f) => Gone(f)
        BY <1>1, <1>2 DEF IInv, Synced, Gone, Here
    <1>4. owner' = owner \/ (owner' = None /\ \A f \in Files : ~InSpool(f))
        BY DEF ForgetGone
    <1>5. /\ retire' \in Attempt /\ retire'.step = "metrics"
          /\ retire'.sent = retire.sent /\ retire'.tidy = retire.tidy
        BY <1>1, AttemptFields DEF RetireSteps, IInv, Shape
    <1>6. Shape'
        BY <1>1, <1>4, <1>5 DEF IInv, Shape
    <1>7. Entries' /\ Synced'
        BY <1>1, <1>5 DEF IInv, Entries, Synced, Here
    <1>8. Alone'
        BY <1>1, <1>2, <1>5 DEF IInv, Alone, Here
    <1>9. HandedOff'
        <2>1. \A f \in Files : Safe(f)'
            BY <1>1, <1>2 DEF IInv, HandedOff, Safe
        <2>2. QED
            BY <2>1 DEF HandedOff
    <1>10. Sent'
        <2>1. \A f \in Files : Gone(f) => Gone(f)'
            BY <1>1 DEF Gone
        <2>2. \A f \in answered' : taken'[f] # {} /\ (f \in line' \/ Gone(f)')
            BY <1>1, <1>3, <2>1 DEF IInv, Shape, Sent
        <2>3. (\A f \in Files : taken'[f] \subseteq {owner'}) \/ (\A f \in Files : Gone(f)')
            BY <1>1, <1>3, <1>4, <2>1 DEF IInv, Sent
        <2>4. QED
            BY <1>1, <1>5, <2>2, <2>3 DEF IInv, Sent
    <1>11. QED
        BY <1>6, <1>7, <1>8, <1>9, <1>10 DEF IInv

LEMMA ForgetMetricsStep == IInv /\ ForgetMetrics => IInv'
    <1> SUFFICES ASSUME IInv, ForgetMetrics PROVE IInv'
        OBVIOUS
    <1>1. /\ UNCHANGED <<landed, receipt, spool, pass, dir, line, owner, config, push, taken, answered>>
          /\ retire' = [retire EXCEPT !.step = "settle"]
          /\ pass.step = "idle" /\ push = None /\ retire.step = "metrics"
        BY CarryAlone DEF ForgetMetrics, InSession, Sending, Goes, Carry
    <1>2. ~Here
        BY <1>1 DEF IInv, Alone, After
    <1>3. QED
        BY <1>1, <1>2, GoesOn DEF RetireSteps, After

LEMMA SettleStep == IInv /\ Settle => IInv'
    <1> SUFFICES ASSUME IInv, Settle PROVE IInv'
        OBVIOUS
    <1>1. /\ UNCHANGED <<landed, receipt, spool, pass, dir, line, owner, config, push, taken, answered>>
          /\ retire' = NotRetiring
          /\ pass.step = "idle" /\ push = None
        BY CarryAlone DEF Settle, InSession, Sending, GivesUp, Carry
    <1>2. QED
        BY <1>1, GoesOn DEF RetireSteps, After

LEMMA CarryStep == IInv /\ Carry => IInv'
    BY MarkDurableStep, HandOffStep, WriteAgainStep, RenameStep, MoveDurableStep, DeleteMovedStep,
       TidyStep, SyncChangedStep, ForgetGoneStep, ForgetMetricsStep, SettleStep DEF Carry

-----------------------------------------------------------------------------
(* Stops and losses of power.                                                *)

\* Whatever a loss of power leaves of names was one they might have.
LEMMA ForgottenKeeps ==
    ASSUME IInv, Forgotten,
           UNCHANGED <<landed, receipt, line, owner, config, answered>>,
           dir' = dir \/ \E d \in dir.may : dir' = Settled(d),
           DOMAIN spool' = Files,
           \A f \in Files : spool'[f] = spool[f] \/ \E v \in spool[f].may : spool'[f] = Settled(v)
    PROVE  IInv'
    <1>1. pass'.step = "idle" /\ retire' = NotRetiring /\ push' = None /\ Takes
        BY MayHaveTakenTakes DEF Forgotten, NoPass
    <1>2. /\ retire' \in Attempt /\ retire'.step = "idle"
          /\ retire'.sent = {} /\ retire'.tidy = {}
        BY <1>1, GivenUp
    <1>3. \A f \in Files : /\ Proper(spool'[f])
                          /\ \A v : v \in spool'[f].may => v \in spool[f].may
        <2> TAKE f \in Files
        <2>1. CASE spool'[f] = spool[f]
            BY <2>1 DEF IInv, Entries
        <2>2. ASSUME NEW v \in spool[f].may, spool'[f] = Settled(v)
              PROVE  Proper(spool'[f]) /\ \A w : w \in spool'[f].may => w \in spool[f].may
            <3>1. Proper(Settled(v))
                BY ProperSettled
            <3>2. Settled(v).may = {v}
                BY SettledFields
            <3>3. QED
                BY <2>2, <3>1, <3>2
        <2>3. QED
            BY <2>1, <2>2
    <1>4. /\ dir'.now \in dir'.may /\ dir'.stuck = FALSE
          /\ \A v : v \in dir'.may => v \in dir.may
          /\ Here => Here'
          /\ Here' => dir'.may = {"session"}
        <2>1. CASE dir' = dir
            BY <2>1 DEF IInv, Entries, Here
        <2>2. ASSUME NEW d \in dir.may, dir' = Settled(d)
              PROVE  /\ dir'.now \in dir'.may /\ dir'.stuck = FALSE
                     /\ \A v : v \in dir'.may => v \in dir.may
                     /\ Here => Here'
                     /\ Here' => dir'.may = {"session"}
            <3>1. dir'.now = d /\ dir'.may = {d} /\ dir'.stuck = FALSE
                BY <2>2 DEF Settled
            <3>2. QED
                BY <3>1 DEF IInv, Entries, Here
        <2>3. QED
            BY <2>1, <2>2
    <1>5. Shape'
        BY <1>1, <1>2, TakesFacts DEF IInv, Shape
    <1>6. Entries'
        BY <1>3, <1>4 DEF Entries, Here
    <1>7. Alone'
        BY <1>1, <1>2 DEF IInv, Alone, After
    <1>8. HandedOff'
        <2>1. ~Here => \A f \in Files : Safe(f)'
            BY <1>1, <1>3, TakesFacts DEF IInv, HandedOff, Safe
        <2>2. QED
            BY <1>2, <1>4, <2>1 DEF HandedOff
    <1>9. Sent'
        <2>1. \A f \in Files : Gone(f) => Gone(f)'
            <3> TAKE f \in Files
            <3>1. spool'[f].now \in spool'[f].may
                BY <1>3 DEF Proper
            <3>2. spool[f].may = {{}} => spool'[f].may = {{}}
                BY <1>3, <3>1
            <3>3. QED
                BY <1>4, <3>2 DEF Gone
        <2>2. answered \subseteq Files
            BY DEF IInv, Shape
        <2>3. QED
            BY <1>1, <1>2, <2>1, <2>2, TakesFacts DEF IInv, Sent
    <1>10. Synced'
        BY <1>2 DEF Synced
    <1>11. QED
        BY <1>5, <1>6, <1>7, <1>8, <1>9, <1>10 DEF IInv

LEMMA StopStep == IInv /\ Stop => IInv'
    <1> SUFFICES ASSUME IInv, Stop PROVE IInv'
        OBVIOUS
    <1>1. Forgotten /\ UNCHANGED <<landed, receipt, line, owner, config, answered, dir, spool>>
        BY DEF Stop
    <1>2. DOMAIN spool' = Files
        BY <1>1 DEF IInv, Shape
    <1>3. QED
        BY <1>1, <1>2, ForgottenKeeps

LEMMA PowerLossStep == IInv /\ PowerLoss => IInv'
    <1> SUFFICES ASSUME IInv, PowerLoss PROVE IInv'
        OBVIOUS
    <1>1. Forgotten /\ UNCHANGED <<landed, receipt, line, owner, config, answered>>
        BY DEF PowerLoss
    <1>2. PICK d \in dir.may, s \in [Files -> UNION {spool[f].may : f \in Files}] :
              /\ \A f \in Files : s[f] \in spool[f].may
              /\ dir' = Settled(d) /\ spool' = [f \in Files |-> Settled(s[f])]
        BY DEF PowerLoss
    <1>3. /\ DOMAIN spool' = Files
          /\ \A f \in Files : \E v \in spool[f].may : spool'[f] = Settled(v)
        BY <1>2
    <1>4. QED
        BY <1>1, <1>2, <1>3, ForgottenKeeps

-----------------------------------------------------------------------------
(* The theorems.                                                             *)

LEMMA RetireStep == IInv /\ [Next]_vars => IInv'
    <1>1. IInv /\ UNCHANGED vars => IInv'
        BY DEF vars, retirement, IInv, Shape, Entries, Alone, HandedOff, Sent, Synced, Here, Safe, Gone,
               InSpool
    <1>2. QED
        BY <1>1, LandStep, DeriveFilesStep, DeriveStep, DeriveFailsStep, WaitStep, SendStep, AnsweredStep,
           UnansweredStep, ReconfigureStep, BeginRetireStep, CarryStep, StopStep, PowerLossStep DEF Next

LEMMA RetireInvariant == Spec => []IInv
    BY RetireInit, RetireStep, PTL DEF Spec

\* A retirement never deletes the last copy of a request, in whatever order its
\* deletions, rewrites and syncs are cut short, fail or are lost with the power:
\* the directory is renamed away only when each request was answered or its
\* rewritten file can no longer be lost (retire.go:361-400).
THEOREM RequestsAreKept == Spec => []RequestsKept
    <1>1. IInv => RequestsKept
        BY DEF IInv, HandedOff, Entries, Proper, Safe, RequestsKept, InSpool
    <1>2. QED
        BY <1>1, RetireInvariant, PTL

\* push.state forgets a line, or the owner, only of what no loss of power brings
\* back: so what was answered is not sent again, and nothing of a session goes
\* to a second owner, however often that changes (retire.go:207-228).
THEOREM SentOnceOnly == Spec => SentOnce
    <1>1. IInv /\ [Next]_vars =>
              [\A f \in Files : push' = f /\ push = None =>
                  f \notin answered /\ UNION {taken[g] : g \in Files} \subseteq {owner'}]_vars
        <2> SUFFICES ASSUME IInv, Next, NEW f \in Files, push' = f, push = None
                     PROVE  f \notin answered /\ UNION {taken[g] : g \in Files} \subseteq {owner'}
            OBVIOUS
        <2>1. f # None
            BY RetireAssumption
        <2>2. PICK g \in Files : Send(g)
            BY <2>1 DEF Next, LandFile, DeriveFiles, Derive, DeriveFails, Wait, Answered, Unanswered,
                        Reconfigure, BeginRetire, Carry, MarkDurable, HandOff, WriteAgain, Rename,
                        MoveDurable, DeleteMoved, Tidy, SyncChanged, ForgetGone, ForgetMetrics, Settle,
                        Stop, PowerLoss, Forgotten, Sending, retirement
        <2>3. g = f /\ InSpool(f) /\ f \notin line /\ owner \in {None, config} /\ owner' = config
            BY <2>2 DEF Send
        <2>4. ~Gone(f)
            BY <2>3 DEF IInv, Entries, Proper, Gone, InSpool
        <2>5. f \notin answered
            BY <2>3, <2>4 DEF IInv, Sent
        <2>6. \A h \in Files : taken[h] \subseteq {owner} /\ taken[h] \subseteq Owners
            BY <2>4 DEF IInv, Sent, Shape
        <2>7. \A h \in Files : taken[h] \subseteq {owner'}
            BY <2>3, <2>6, RetireAssumption
        <2>8. QED
            BY <2>5, <2>7
    <1>2. QED
        BY <1>1, RetireInvariant, PTL DEF Spec, SentOnce

-----------------------------------------------------------------------------
(* Windows: the least, the greatest and the number of a file's minutes.      *)

LEMMA LeastOf ==
    ASSUME NEW T, T \subseteq Nat, T # {}
    PROVE  \E x \in T : \A y \in T : x <= y
    <1>1. PICK x \in T : \A y \in T : ~(<<y, x>> \in OpToRel(<, Nat))
        BY NatLessThanWellFounded, WFMin, Zenon
    <1>2. \A y \in T : ~(y < x)
        BY <1>1 DEF OpToRel
    <1>3. QED
        BY <1>2

LEMMA MaxOf ==
    ASSUME NEW S, IsFiniteSet(S), S # {}, S \subseteq Nat
    PROVE  Max(S) \in S /\ \A y \in S : Max(S) >= y
    <1> DEFINE Greatest(R) == \E x \in R : \A y \in R : x >= y
               Bad == {R \in SUBSET S : R # {} /\ ~Greatest(R)}
    <1>1. \A R \in SUBSET S : IsFiniteSet(R) /\ Cardinality(R) \in Nat
        BY FS_Subset, FS_CardinalityType
    <1>2. Bad = {}
        <2> SUFFICES ASSUME Bad # {} PROVE FALSE
            OBVIOUS
        <2>1. PICK n \in {Cardinality(R) : R \in Bad} : \A m \in {Cardinality(R) : R \in Bad} : n <= m
            <3>1. {Cardinality(R) : R \in Bad} \subseteq Nat /\ {Cardinality(R) : R \in Bad} # {}
                BY <1>1
            <3>2. QED
                BY <3>1, LeastOf
        <2>2. PICK R \in Bad : Cardinality(R) = n
            BY <2>1
        <2>3. PICK x \in R : TRUE
            BY <2>2
        <2>4. R \in SUBSET S /\ ~Greatest(R) /\ x \in Nat
            BY <2>2, <2>3
        <2>5. Cardinality(R \ {x}) < Cardinality(R)
            BY <1>1, <2>3, <2>4, FS_RemoveElement
        <2>6. R \ {x} \notin Bad
            <3> SUFFICES ASSUME R \ {x} \in Bad PROVE FALSE
                OBVIOUS
            <3>1. n <= Cardinality(R \ {x})
                BY <2>1
            <3>2. Cardinality(R \ {x}) \in Nat /\ Cardinality(R) \in Nat
                BY <1>1, <2>4
            <3>3. QED
                BY <2>2, <2>5, <3>1, <3>2
        <2>7. CASE R \ {x} = {}
            BY <2>3, <2>4, <2>7
        <2>8. CASE R \ {x} # {}
            <3>1. PICK z \in R \ {x} : \A y \in R \ {x} : z >= y
                BY <2>4, <2>6, <2>8
            <3>2. z \in Nat
                BY <2>4, <3>1
            <3>3. CASE x >= z
                <4>1. \A y \in R : y \in Nat /\ x >= y
                    BY <2>4, <3>1, <3>2, <3>3
                <4>2. QED
                    BY <2>3, <2>4, <4>1
            <3>4. CASE ~(x >= z)
                <4>1. \A y \in R : z >= y
                    BY <2>4, <3>1, <3>2, <3>4
                <4>2. QED
                    BY <2>4, <3>1, <4>1
            <3>5. QED
                BY <3>3, <3>4
        <2>9. QED
            BY <2>7, <2>8
    <1>3. Greatest(S)
        BY <1>2
    <1>4. QED
        BY <1>3 DEF Max

\* What a finite set is mapped to is finite.
LEMMA FiniteImage ==
    ASSUME NEW S, IsFiniteSet(S), NEW f, DOMAIN f = S
    PROVE  IsFiniteSet({f[x] : x \in S})
    <1>1. [x \in S |-> f[x]] \in Surjection(S, {f[x] : x \in S})
        BY DEF Surjection
    <1>2. QED
        BY <1>1, FS_Surjection

\* The ends EndAfter takes the greatest of.
Ends(last, minutes) ==
    {last + Cardinality(minutes)} \cup
        {(m + 1) * Minute + Cardinality({k \in minutes : k > m}) : m \in minutes}

LEMMA EndsFinite ==
    ASSUME NEW last \in Nat, NEW minutes, minutes \subseteq Nat, IsFiniteSet(minutes)
    PROVE  /\ IsFiniteSet(Ends(last, minutes)) /\ Ends(last, minutes) \subseteq Nat
           /\ Cardinality(minutes) \in Nat
           /\ \A m \in minutes : Cardinality({k \in minutes : k > m}) \in Nat
    <1>1. /\ Cardinality(minutes) \in Nat
          /\ \A m \in minutes : Cardinality({k \in minutes : k > m}) \in Nat
        BY FS_Subset, FS_CardinalityType
    <1> DEFINE f == [m \in minutes |-> (m + 1) * Minute + Cardinality({k \in minutes : k > m})]
    <1>2. IsFiniteSet({f[m] : m \in minutes})
        BY FiniteImage
    <1>3. Ends(last, minutes) = {f[m] : m \in minutes} \cup {last + Cardinality(minutes)}
        BY DEF Ends
    <1>4. IsFiniteSet(Ends(last, minutes))
        BY <1>2, <1>3, FS_AddElement
    <1>5. \A m \in minutes : (m + 1) * Minute + Cardinality({k \in minutes : k > m}) \in Nat
        BY <1>1 DEF Minute
    <1>6. last + Cardinality(minutes) \in Nat
        BY <1>1
    <1>7. Ends(last, minutes) \subseteq Nat
        BY <1>5, <1>6 DEF Ends
    <1>8. QED
        BY <1>1, <1>4, <1>7

LEMMA EndAfterIs ==
    ASSUME NEW last \in Nat, NEW minutes, minutes \subseteq Nat, IsFiniteSet(minutes)
    PROVE  /\ EndAfter(last, minutes) \in Nat
           /\ EndAfter(last, minutes) \in Ends(last, minutes)
           /\ \A e \in Ends(last, minutes) : e <= EndAfter(last, minutes)
           /\ last <= EndAfter(last, minutes)
    <1>1. EndAfter(last, minutes) = Max(Ends(last, minutes))
        BY DEF EndAfter, Ends
    <1>2. Ends(last, minutes) # {} /\ last + Cardinality(minutes) \in Ends(last, minutes)
        BY DEF Ends
    <1>3. /\ IsFiniteSet(Ends(last, minutes)) /\ Ends(last, minutes) \subseteq Nat
          /\ Cardinality(minutes) \in Nat
        BY EndsFinite
    <1>4. /\ Max(Ends(last, minutes)) \in Ends(last, minutes)
          /\ \A e \in Ends(last, minutes) : Max(Ends(last, minutes)) >= e
        BY <1>2, <1>3, MaxOf
    <1>5. EndAfter(last, minutes) \in Nat /\ \A e \in Ends(last, minutes) : e \in Nat
        BY <1>1, <1>3, <1>4
    <1>6. \A e \in Ends(last, minutes) : e <= EndAfter(last, minutes)
        BY <1>1, <1>4, <1>5
    <1>7. last <= EndAfter(last, minutes)
        BY <1>2, <1>3, <1>5, <1>6
    <1>8. QED
        BY <1>1, <1>4, <1>5, <1>6, <1>7

\* A series that has more minutes' windows does not end before.
LEMMA EndAfterGrows ==
    ASSUME NEW last \in Nat, NEW minutes, minutes \subseteq Nat, IsFiniteSet(minutes),
           NEW fewer, fewer \subseteq minutes
    PROVE  EndAfter(last, fewer) <= EndAfter(last, minutes)
    <1>1. IsFiniteSet(fewer) /\ fewer \subseteq Nat /\ Cardinality(fewer) <= Cardinality(minutes)
        BY FS_Subset
    <1>2. \A m \in fewer :
              Cardinality({k \in fewer : k > m}) <= Cardinality({k \in minutes : k > m})
        <2> TAKE m \in fewer
        <2>1. IsFiniteSet({k \in minutes : k > m})
            BY FS_Subset
        <2>2. {k \in fewer : k > m} \in SUBSET {k \in minutes : k > m}
            OBVIOUS
        <2>3. QED
            BY <2>1, <2>2, FS_Subset
    <1>3. PICK e \in Ends(last, fewer) : e = EndAfter(last, fewer)
        BY <1>1, EndAfterIs
    <1>4. \E d \in Ends(last, minutes) : e <= d
        <2>1. CASE e = last + Cardinality(fewer)
            <3>1. last + Cardinality(minutes) \in Ends(last, minutes)
                BY DEF Ends
            <3>2. Cardinality(fewer) \in Nat /\ Cardinality(minutes) \in Nat
                BY <1>1, FS_CardinalityType
            <3>3. e <= last + Cardinality(minutes)
                BY <1>1, <2>1, <3>2
            <3>4. QED
                BY <3>1, <3>3
        <2>2. ASSUME NEW m \in fewer, e = (m + 1) * Minute + Cardinality({k \in fewer : k > m})
              PROVE  \E d \in Ends(last, minutes) : e <= d
            <3>1. m \in minutes /\ m \in Nat
                BY <1>1
            <3>2. (m + 1) * Minute + Cardinality({k \in minutes : k > m}) \in Ends(last, minutes)
                BY <3>1 DEF Ends
            <3>3. /\ Cardinality({k \in minutes : k > m}) \in Nat
                  /\ Cardinality({k \in fewer : k > m}) \in Nat
                BY <1>1, <3>1, EndsFinite
            <3>4. e <= (m + 1) * Minute + Cardinality({k \in minutes : k > m})
                <4> DEFINE few == Cardinality({k \in fewer : k > m})
                           more == Cardinality({k \in minutes : k > m})
                           start == (m + 1) * Minute
                <4>1. start \in Nat
                    BY <3>1 DEF Minute
                <4>2. few \in Nat /\ more \in Nat /\ few <= more
                    BY <1>2, <3>3
                <4>3. e = start + few
                    BY <2>2
                <4>4. e <= start + more
                    <5> HIDE DEF few, more, start
                    <5> QED
                        BY <4>1, <4>2, <4>3
                <4>5. QED
                    BY <4>4
            <3>5. QED
                BY <3>2, <3>4
        <2>3. QED
            BY <1>3, <2>1, <2>2 DEF Ends
    <1>5. PICK d \in Ends(last, minutes) : e <= d
        BY <1>4
    <1>6. d <= EndAfter(last, minutes) /\ EndAfter(last, minutes) \in Nat
        BY EndAfterIs
    <1>7. e \in Nat /\ d \in Nat
        <2>1. Ends(last, fewer) \subseteq Nat
            BY <1>1, EndsFinite
        <2>2. Ends(last, minutes) \subseteq Nat
            BY EndsFinite
        <2>3. QED
            BY <1>3, <1>5, <2>1, <2>2
    <1>8. e <= EndAfter(last, minutes)
        BY <1>5, <1>6, <1>7
    <1>9. QED
        BY <1>3, <1>8

\* A window lies between the series' end before the request and the one after
\* it, and the windows of two minutes in their order.
LEMMA WindowsOf ==
    ASSUME NEW f, NEW calls, NEW last \in Nat, NEW minutes, minutes \subseteq Nat,
           IsFiniteSet(minutes), NEW m \in minutes
    PROVE  /\ Point(f, calls, last, minutes, m).start \in Nat
           /\ Point(f, calls, last, minutes, m).end \in Nat
           /\ last <= Point(f, calls, last, minutes, m).start
           /\ Point(f, calls, last, minutes, m).end <= EndAfter(last, minutes)
           /\ \A l \in minutes : l < m =>
                  EndAfter(last, {k \in minutes : k <= l}) <= Point(f, calls, last, minutes, m).start
    <1> DEFINE before == {k \in minutes : k < m}
               upTo == {k \in minutes : k <= m}
               starts == {m * Minute, EndAfter(last, before)}
               p == Point(f, calls, last, minutes, m)
    <1>1. p.start = Max(starts) /\ p.end = EndAfter(last, upTo)
        BY DEF Point
    <1>2. /\ before \subseteq Nat /\ IsFiniteSet(before)
          /\ upTo \subseteq Nat /\ IsFiniteSet(upTo)
        BY FS_Subset
    <1>3. EndAfter(last, before) \in Nat /\ last <= EndAfter(last, before) /\ EndAfter(last, upTo) \in Nat
        BY <1>2, EndAfterIs
    <1>4. starts \subseteq Nat /\ IsFiniteSet(starts) /\ starts # {}
        <2>1. m * Minute \in Nat
            BY DEF Minute
        <2>2. IsFiniteSet({m * Minute}) /\ starts = {m * Minute} \cup {EndAfter(last, before)}
            BY FS_Singleton
        <2>3. IsFiniteSet(starts)
            BY <2>2, FS_AddElement
        <2>4. QED
            BY <1>3, <2>1, <2>3
    <1>5. Max(starts) \in Nat /\ Max(starts) >= EndAfter(last, before)
        BY <1>4, MaxOf
    <1>6. EndAfter(last, upTo) <= EndAfter(last, minutes)
        BY EndAfterGrows
    <1>7. ASSUME NEW l \in minutes, l < m
          PROVE  EndAfter(last, {k \in minutes : k <= l}) <= p.start
        <2> DEFINE upToL == {k \in minutes : k <= l}
        <2>1. upToL \subseteq before
            <3> SUFFICES ASSUME NEW k \in minutes, k <= l PROVE k < m
                OBVIOUS
            <3>1. k \in Nat /\ l \in Nat /\ m \in Nat
                OBVIOUS
            <3>2. QED
                BY <1>7, <3>1
        <2>2. EndAfter(last, upToL) <= EndAfter(last, before)
            BY <1>2, <2>1, EndAfterGrows
        <2>3. IsFiniteSet(upToL) /\ upToL \subseteq Nat
            BY FS_Subset
        <2>4. EndAfter(last, upToL) \in Nat
            BY <2>3, EndAfterIs
        <2> HIDE DEF upToL, before, starts, p
        <2>5. EndAfter(last, upToL) <= p.start
            BY <1>1, <1>3, <1>5, <2>2, <2>4
        <2>6. QED
            BY <2>5 DEF upToL
    <1> HIDE DEF before, upTo, starts, p
    <1>8. p.start \in Nat /\ p.end \in Nat /\ last <= p.start /\ p.end <= EndAfter(last, minutes)
        BY <1>1, <1>3, <1>5, <1>6
    <1>9. QED
        BY <1>7, <1>8 DEF p

-----------------------------------------------------------------------------
(* What a file counts.                                                       *)

LEMMA FileRecords ==
    ASSUME NEW f \in Files
    PROVE  /\ f \in Nat /\ IsFiniteSet(Files)
           /\ DOMAIN Content[f] = 1 .. Len(Content[f]) /\ Len(Content[f]) \in Nat
           /\ IsFiniteSet(DOMAIN Content[f])
           /\ \A i \in DOMAIN Content[f] : Content[f][i] \in Records /\ Content[f][i].at \in Nat
    <1>1. f \in Nat /\ Len(Content) \in Nat /\ Content[f] \in Seq(Records)
        BY MetricsAssumption DEF Files
    <1>2. DOMAIN Content[f] = 1 .. Len(Content[f]) /\ Len(Content[f]) \in Nat
        BY <1>1
    <1>3. IsFiniteSet(Files) /\ IsFiniteSet(DOMAIN Content[f])
        <2>1. \A k \in Nat : IsFiniteSet(1 .. k)
            BY FS_Interval
        <2>2. QED
            BY <1>1, <1>2, <2>1 DEF Files
    <1>4. \A i \in DOMAIN Content[f] : Content[f][i] \in Records
        BY DEF Records
    <1>5. QED
        BY <1>1, <1>2, <1>3, <1>4, MetricsAssumption

LEMMA CallsFinite ==
    ASSUME NEW f \in Files
    PROVE  IsFiniteSet(CallsIn(f))
    <1> DEFINE S == {j \in DOMAIN Content[f] : IsFragment(Content[f][j])}
               g == [i \in S |-> Content[f][i].call]
    <1>1. IsFiniteSet(S)
        BY FileRecords, FS_Subset
    <1>2. IsFiniteSet({g[i] : i \in S})
        BY <1>1, FiniteImage
    <1>3. {g[i] : i \in S} = CallsIn(f)
        BY DEF CallsIn
    <1>4. QED
        BY <1>2, <1>3

\* The minute of a call is that of one of its fragments.
LEMMA MinuteIs ==
    ASSUME NEW f \in Files, NEW n \in Files, NEW c \in CallsIn(f)
    PROVE  \E g \in Files : \E i \in DOMAIN Content[g] :
               Content[g][i].call = c /\ MinuteOf(f, n, c) = Content[g][i].at
    <1> DEFINE known == Known(f, n, c)
    <1>1. \A place \in known : \E g \in Files : \E i \in DOMAIN Content[g] :
              place = <<g, i>> /\ Content[g][i].call = c
        <2>1. \A g \in ReadAhead(f, n) : g \in Files
            BY MetricsAssumption DEF ReadAhead, Files
        <2>2. QED
            BY <2>1 DEF Known, FragmentsAhead, Fragments
    <1>2. known # {}
        <2>1. PICK j \in DOMAIN Content[f] : Content[f][j].call = c
            BY DEF CallsIn
        <2>2. j <= Len(Content[f])
            BY FileRecords
        <2>3. <<f, j>> \in Fragments(f, Len(Content[f]), c)
            BY <2>1, <2>2 DEF Fragments
        <2>4. QED
            BY <2>3 DEF Known
    <1> HIDE DEF known
    <1> DEFINE in == {place[1] : place \in known}
               last == Max(in)
               places == {i \in DOMAIN Content[last] : <<last, i>> \in known}
    <1>3. in \subseteq Files /\ in # {}
        BY <1>1, <1>2
    <1>4. IsFiniteSet(in) /\ in \subseteq Nat
        BY <1>3, FileRecords, FS_Subset
    <1>5. last \in in
        BY <1>3, <1>4, MaxOf
    <1>6. last \in Files
        BY <1>3, <1>5
    <1>7. places # {}
        <2>1. PICK place \in known : place[1] = last
            <3>1. \A l \in in : \E place \in known : place[1] = l
                OBVIOUS
            <3> HIDE DEF in, last
            <3>2. QED
                BY <1>5, <3>1
        <2>2. PICK g \in Files : \E i \in DOMAIN Content[g] : place = <<g, i>>
            BY <1>1, <2>1
        <2>3. PICK i \in DOMAIN Content[g] : place = <<g, i>>
            BY <2>2
        <2>4. g = last
            BY <2>1, <2>3
        <2>5. QED
            BY <2>1, <2>3, <2>4
    <1>8. IsFiniteSet(places) /\ places \subseteq Nat
        <2>1. DOMAIN Content[last] \subseteq Nat /\ IsFiniteSet(DOMAIN Content[last])
            <3>1. \A g \in Files : DOMAIN Content[g] \subseteq Nat /\ IsFiniteSet(DOMAIN Content[g])
                BY FileRecords
            <3> HIDE DEF last
            <3>2. QED
                BY <1>6, <3>1
        <2>2. places \in SUBSET DOMAIN Content[last]
            OBVIOUS
        <2> HIDE DEF places, last
        <2>3. QED
            BY <2>1, <2>2, FS_Subset
    <1>9. Max(places) \in places
        BY <1>7, <1>8, MaxOf
    <1>10. Content[last][Max(places)].call = c
        BY <1>1, <1>9
    <1>11. MinuteOf(f, n, c) = Content[last][Max(places)].at
        BY DEF MinuteOf, At, known
    <1>12. QED
        BY <1>6, <1>9, <1>10, <1>11

-----------------------------------------------------------------------------
(* What a receipt is.                                                        *)

HasOld(c) == \E r \in Records : r.call = c /\ Old(r.at)
Apart(p, q) == p.end <= q.start \/ q.end <= p.start

\* A receipt counts calls of its file, each in one point of its request or older
\* than the look-back, and its windows lie apart and before its series' end.
Honest(f, r) ==
    /\ r.end \in Nat
    /\ r.counted \subseteq CallsIn(f)
    /\ \A p \in r.request :
           /\ p.source = SourceOf(f) /\ p.calls \subseteq r.counted
           /\ p.start \in Nat /\ p.end \in Nat /\ p.end <= r.end
    /\ \A p, q \in r.request : p # q => p.calls \cap q.calls = {} /\ Apart(p, q)
    /\ \A c \in r.counted : HasOld(c) \/ \E p \in r.request : c \in p.calls
Spares(r) == \A p \in r.request : p.calls \cap OldCalls = {}

\* A receipt counts what no committed one does and its windows follow theirs.
LEMMA ReceiptIs ==
    ASSUME NEW f \in Files, NEW n \in Files, NEW p, p.ends \in [Sources -> Nat]
    PROVE  /\ Honest(f, Receipt(f, n, p))
           /\ Receipt(f, n, p).counted \cap p.calls = {}
           /\ \A q \in Receipt(f, n, p).request : p.ends[SourceOf(f)] <= q.start
           /\ p.ends[SourceOf(f)] <= Receipt(f, n, p).end
           /\ f # 1 \/ p.since = TRUE => Spares(Receipt(f, n, p))
    <1> DEFINE exported == Exported(f, n, p.calls, p.since)
               at == [c \in exported |-> MinuteOf(f, n, c)]
               minutes == {at[c] : c \in exported}
               last == p.ends[SourceOf(f)]
               calls(m) == {c \in exported : at[c] = m}
               pt(m) == Point(f, calls(m), last, minutes, m)
               r == Receipt(f, n, p)
    <1>1. /\ r.counted = CountedIn(f, n, p.calls)
          /\ r.request = {pt(m) : m \in minutes}
          /\ r.end = IF minutes = {} THEN last ELSE EndAfter(last, minutes)
        BY DEF Receipt
    <1>2. last \in Nat
        BY DEF Sources, SourceOf
    <1>3. /\ exported \subseteq r.counted /\ r.counted \subseteq CallsIn(f)
          /\ r.counted \cap p.calls = {}
        BY <1>1 DEF Exported, CountedIn
    <1>4. \A c \in exported : at[c] = MinuteOf(f, n, c)
        OBVIOUS
    <1>5. \A c \in r.counted \ exported : Old(MinuteOf(f, n, c))
        BY <1>1 DEF Exported
    <1>6. p.since = TRUE => \A c \in exported : ~Old(MinuteOf(f, n, c))
        BY DEF Exported
    <1>7. minutes \subseteq Nat
        <2>1. \A c \in CallsIn(f) : MinuteOf(f, n, c) \in Nat
            BY MinuteIs, FileRecords
        <2>2. \A c \in exported : at[c] \in Nat
            BY <1>3, <1>4, <2>1
        <2>3. QED
            BY <2>2
    <1>8. IsFiniteSet(minutes)
        <2>1. IsFiniteSet(exported)
            BY <1>3, CallsFinite, FS_Subset
        <2>2. DOMAIN at = exported
            OBVIOUS
        <2> HIDE DEF exported, at
        <2>3. QED
            BY <2>1, <2>2, FiniteImage
    <1>9. \A m \in minutes : \A a, w : Point(f, a, last, w, m).source = SourceOf(f)
                                       /\ Point(f, a, last, w, m).calls = a
        BY DEF Point
    <1>10. EndAfter(last, minutes) \in Nat /\ last <= EndAfter(last, minutes)
        <2> HIDE DEF last, minutes
        <2>1. QED
            BY <1>2, <1>7, <1>8, EndAfterIs
    <1>11. \A c \in exported : at[c] \in minutes
        OBVIOUS
    <1> HIDE DEF exported, at, minutes, last, r
    <1>12. \A m \in minutes :
               /\ pt(m).source = SourceOf(f) /\ pt(m).calls = calls(m)
               /\ pt(m).start \in Nat /\ pt(m).end \in Nat
               /\ last <= pt(m).start /\ pt(m).end <= EndAfter(last, minutes)
        BY <1>2, <1>7, <1>8, <1>9, WindowsOf
    <1>13. \A l, m \in minutes : l < m => pt(l).end <= pt(m).start
        <2> SUFFICES ASSUME NEW l \in minutes, NEW m \in minutes, l < m
                     PROVE  pt(l).end <= pt(m).start
            OBVIOUS
        <2>1. pt(l).end = EndAfter(last, {k \in minutes : k <= l})
            BY DEF Point
        <2>2. EndAfter(last, {k \in minutes : k <= l}) <= pt(m).start
            BY <1>2, <1>7, <1>8, WindowsOf
        <2>3. QED
            BY <2>1, <2>2
    <1>14. r.end \in Nat /\ last <= r.end /\ (minutes # {} => r.end = EndAfter(last, minutes))
        BY <1>1, <1>2, <1>10
    <1> HIDE DEF pt
    <1>15. \A q \in r.request :
               /\ q.source = SourceOf(f) /\ q.calls \subseteq r.counted
               /\ q.start \in Nat /\ q.end \in Nat /\ q.end <= r.end /\ last <= q.start
        BY <1>1, <1>3, <1>12, <1>14
    <1>16. ASSUME NEW q \in r.request, NEW s \in r.request, q # s
           PROVE  q.calls \cap s.calls = {} /\ Apart(q, s)
        <2>1. PICK l \in minutes : q = pt(l)
            BY <1>1
        <2>2. PICK m \in minutes : s = pt(m)
            BY <1>1
        <2>3. l # m
            BY <1>16, <2>1, <2>2
        <2>4. q.calls \cap s.calls = {}
            BY <1>12, <2>1, <2>2, <2>3
        <2>5. l < m \/ m < l
            BY <1>7, <2>3
        <2>6. QED
            BY <1>13, <2>1, <2>2, <2>4, <2>5 DEF Apart
    <1>17. ASSUME NEW c \in r.counted
           PROVE  HasOld(c) \/ \E q \in r.request : c \in q.calls
        <2>1. CASE c \in exported
            <3>1. at[c] \in minutes /\ c \in calls(at[c])
                BY <1>11, <2>1
            <3>2. pt(at[c]) \in r.request /\ pt(at[c]).calls = calls(at[c])
                BY <1>1, <1>12, <3>1
            <3>3. QED
                BY <3>1, <3>2
        <2>2. CASE c \notin exported
            <3>1. Old(MinuteOf(f, n, c)) /\ c \in CallsIn(f)
                BY <1>3, <1>5, <1>17, <2>2
            <3>2. PICK g \in Files : \E i \in DOMAIN Content[g] :
                      Content[g][i].call = c /\ MinuteOf(f, n, c) = Content[g][i].at
                BY <3>1, MinuteIs
            <3>3. PICK i \in DOMAIN Content[g] :
                      Content[g][i].call = c /\ MinuteOf(f, n, c) = Content[g][i].at
                BY <3>2
            <3>4. Content[g][i] \in Records /\ Old(Content[g][i].at)
                BY <3>1, <3>3, FileRecords
            <3>5. QED
                BY <3>3, <3>4 DEF HasOld
        <2>3. QED
            BY <2>1, <2>2
    <1>18. ASSUME f # 1 \/ p.since = TRUE, NEW q \in r.request, NEW c \in q.calls, c \in OldCalls
           PROVE  FALSE
        <2>1. c \in exported
            <3>1. PICK m \in minutes : q = pt(m)
                BY <1>1
            <3>2. QED
                BY <1>12, <1>18, <3>1
        <2>2. c \in CallsIn(f)
            BY <1>3, <2>1
        <2>3. \A g \in Files : \A i \in DOMAIN Content[g] :
                  Content[g][i].call = c => Old(Content[g][i].at)
            BY <1>18 DEF OldCalls
        <2>4. CASE f # 1
            <3>1. PICK i \in DOMAIN Content[f] : IsFragment(Content[f][i]) /\ Content[f][i].call = c
                BY <2>2 DEF CallsIn
            <3>2. QED
                BY <2>3, <2>4, <3>1, MetricsAssumption
        <2>5. CASE p.since = TRUE
            BY <1>6, <2>1, <2>2, <2>3, <2>5, MinuteIs
        <2>6. QED
            BY <1>18, <2>4, <2>5
    <1>19. Honest(f, r)
        BY <1>3, <1>14, <1>15, <1>16, <1>17 DEF Honest
    <1>20. f # 1 \/ p.since = TRUE => Spares(r)
        BY <1>18 DEF Spares
    <1>21. QED
        BY <1>3, <1>14, <1>15, <1>19, <1>20 DEF r, last

-----------------------------------------------------------------------------
(* The invariant of the derivation.                                          *)

Before(f, g) == \A q \in receipt[g].request : receipt[f].end <= q.start

\* No two receipts count the same call, and of one source the windows of the
\* one follow the series' end of the other.
ReceiptsInv ==
    /\ \A f \in Files : Receipts(f) => f <= landed /\ Honest(f, receipt[f]) /\ Spares(receipt[f])
    /\ \A f, g \in Files : f # g /\ Receipts(f) /\ Receipts(g) =>
           /\ receipt[f].counted \cap receipt[g].counted = {}
           /\ SourceOf(f) = SourceOf(g) => Before(f, g) \/ Before(g, f)

\* A spool file holds the request of its receipt, or none, wherever the power
\* is lost.
NamedInv ==
    /\ DOMAIN named = Files
    /\ \A f \in Files :
           /\ named[f] \subseteq {receipt[f].request}
           /\ ~Receipts(f) => named[f] = {}
           /\ \A v \in spool[f].may : v = {} \/ v \in named[f]

\* What a state says is derived has its request, and what it says is counted is
\* in a receipt; what it counts and where its series ended covers some files.
Backed(k) ==
    /\ k.derived \subseteq Files /\ k.ends \in [Sources -> Nat]
    /\ \A c \in k.calls : \E f \in Files : c \in receipt[f].counted
    /\ \A f \in k.derived :
           Receipts(f) /\ (receipt[f].request = {} \/ receipt[f].request \in named[f])
Covers(k, fs) ==
    \A f \in fs : receipt[f].counted \subseteq k.calls /\ receipt[f].end <= k.ends[SourceOf(f)]

SavedInv ==
    /\ saved.there \in BOOLEAN /\ saved.since \in BOOLEAN /\ saved.calls \subseteq Calls
    /\ Backed(saved) /\ Covers(saved, saved.derived)
    /\ saved.there = TRUE /\ saved.since = FALSE => Receipts(1)

\* A pass has all receipts before it writes one, but the one in hand, and the
\* look-back until the first file has its receipt.
PassType == [step : {"idle", "file", "put"}, at : Nat \ {0}, derived : SUBSET Files,
             calls : SUBSET Calls, ends : [Sources -> Nat], since : BOOLEAN, pending : BOOLEAN]
Passing ==
    /\ Backed(pass) /\ Covers(pass, pass.derived)
    /\ pass.since = TRUE \/ Receipts(1)
    /\ pass.at > 1 => pass.pending = TRUE \/ Receipts(1)
    /\ AtFile => Covers(pass, Files)
    /\ pass.step = "put" =>
           pass.at \in Files /\ Receipts(pass.at) /\ Covers(pass, Files \ {pass.at})
PassInv == pass \in PassType /\ (pass.step # "idle" => Passing)

\* A session is only ever marked once its first file has its receipt.
MarkInv ==
    /\ marker.now \in marker.may /\ (Receipts(1) \/ marker.may = {FALSE})
    /\ retire.step # "idle" => Receipts(1)

MInv == ReceiptsInv /\ NamedInv /\ SavedInv /\ PassInv /\ MarkInv

LEMMA FirstFile == 1 \in Files
    BY MetricsAssumption DEF Files

LEMMA CallsOf ==
    ASSUME NEW f \in Files
    PROVE  CallsIn(f) \subseteq Calls
    BY FileRecords DEF CallsIn, Calls, IsFragment

LEMMA MetricsInitially == Init => MInv
    <1> SUFFICES ASSUME Init PROVE MInv
        OBVIOUS
    <1> USE DEF Init, MetricsInit
    <1>1. \A f \in Files : receipt[f] = NoReceipt /\ ~Receipts(f)
        BY DEF Receipts
    <1>2. ReceiptsInv
        BY <1>1 DEF ReceiptsInv
    <1>3. NamedInv
        BY <1>1, SettledFields DEF NamedInv
    <1>4. SavedInv
        BY DEF SavedInv, NothingSaved, Backed, Covers
    <1>5. PassInv
        BY DEF PassInv, PassType, NoPass
    <1>6. MarkInv
        BY SettledFields DEF MarkInv, NotRetiring
    <1>7. QED
        BY <1>2, <1>3, <1>4, <1>5, <1>6 DEF MInv

\* A step that writes no receipt, no state and no new request.
QuietStep ==
    /\ UNCHANGED <<receipt, saved, named>>
    /\ landed' \in Nat /\ landed <= landed'
    /\ \/ pass' = NoPass
       \/ pass' = pass /\ (landed' = landed \/ pass.step = "idle")
    /\ \A f \in Files : \A v \in spool'[f].may : v = {} \/ v \in spool[f].may
    /\ marker'.now \in marker'.may /\ (Receipts(1) \/ marker'.may = {FALSE})
    /\ retire'.step # "idle" => Receipts(1)

LEMMA QuietKeeps == IInv /\ MInv /\ QuietStep => MInv'
    <1> SUFFICES ASSUME IInv, MInv, QuietStep PROVE MInv'
        OBVIOUS
    <1> USE DEF QuietStep
    <1>1. \A f \in Files : Receipts(f)' = Receipts(f)
        BY DEF Receipts
    <1>2. Receipts(1)' = Receipts(1)
        BY DEF Receipts
    <1>3. ReceiptsInv'
        <2>1. landed \in Nat /\ \A f \in Files : f \in Nat
            BY DEF IInv, Shape, Files
        <2>2. QED
            BY <1>1, <2>1 DEF MInv, ReceiptsInv, Before
    <1>4. NamedInv'
        BY <1>1 DEF MInv, NamedInv
    <1>5. SavedInv'
        BY <1>1, <1>2 DEF MInv, SavedInv, Backed, Covers
    <1>6. PassInv'
        <2>1. CASE pass' = NoPass
            BY <2>1 DEF PassInv, PassType, NoPass
        <2>2. CASE pass' = pass /\ pass.step = "idle"
            BY <2>2 DEF MInv, PassInv
        <2>3. CASE pass' = pass /\ landed' = landed
            <3>1. Passing => Passing'
                BY <1>1, <1>2, <2>3 DEF Passing, Backed, Covers, AtFile, MInv, PassInv, PassType
            <3>2. QED
                BY <2>3, <3>1 DEF MInv, PassInv
        <2>4. QED
            BY <2>1, <2>2, <2>3
    <1>7. MarkInv'
        BY <1>2 DEF MarkInv
    <1>8. QED
        BY <1>3, <1>4, <1>5, <1>6, <1>7 DEF MInv

-----------------------------------------------------------------------------
(* The steps that are quiet for the derivation.                              *)

\* One name of the spool changes, to one of what it may have been, or nothing.
LEMMA SpoolFades ==
    ASSUME IInv, NEW f \in Files, NEW e, spool' = [spool EXCEPT ![f] = e],
           \A v \in e.may : v = {} \/ v \in spool[f].may
    PROVE  \A g \in Files : \A v \in spool'[g].may : v = {} \/ v \in spool[g].may
    BY DEF IInv, Shape

LEMMA FlushedMay ==
    ASSUME NEW e, e.now \in e.may
    PROVE  /\ Flushed(e).now = e.now /\ e.now \in Flushed(e).may
           /\ \A v \in Flushed(e).may : v \in e.may
    BY DEF Flushed, Settled

LEMMA FailedMay ==
    ASSUME NEW e, NEW v
    PROVE  Failed(Written(e, v)).now = v /\ Failed(Written(e, v)).may = e.may \cup {v}
    BY DEF Failed, Written

LEMMA FailedMarker ==
    ASSUME marker.now \in marker.may, marker' = Failed(marker)
    PROVE  /\ marker'.may = {FALSE} \/ marker.may # {FALSE}
           /\ marker'.now \in marker'.may
    <1>1. marker' = [marker EXCEPT !.stuck = (marker.may # {marker.now})]
        BY DEF Failed
    <1>2. marker'.now = marker.now /\ marker'.may = marker.may
        BY <1>1
    <1>3. QED
        BY <1>2

LEMMA LandedNat == IInv => landed \in Nat
    BY MetricsAssumption DEF IInv, Shape, Files

\* What no later lemma has to say again of a step that is quiet.
LEMMA MarkStays ==
    ASSUME MInv, UNCHANGED <<marker, retire, receipt>>
    PROVE  /\ marker'.now \in marker'.may /\ (Receipts(1) \/ marker'.may = {FALSE})
           /\ retire'.step # "idle" => Receipts(1)
    <1>1. marker'.now \in marker'.may /\ (Receipts(1) \/ marker'.may = {FALSE})
        BY DEF MInv, MarkInv
    <1>2. retire'.step # "idle" => Receipts(1)
        BY DEF MInv, MarkInv
    <1>3. QED
        BY <1>1, <1>2

LEMMA Quietly ==
    ASSUME IInv, MInv, UNCHANGED <<landed, receipt, saved, named>>, pass' = pass \/ pass' = NoPass,
           \A f \in Files : \A v \in spool'[f].may : v = {} \/ v \in spool[f].may,
           marker'.now \in marker'.may, Receipts(1) \/ marker'.may = {FALSE},
           retire'.step # "idle" => Receipts(1)
    PROVE  QuietStep
    <1>1. landed' \in Nat /\ landed <= landed'
        BY LandedNat
    <1>2. \/ pass' = NoPass
          \/ pass' = pass /\ (landed' = landed \/ pass.step = "idle")
        OBVIOUS
    <1>3. QED
        BY <1>1, <1>2 DEF QuietStep

LEMMA LandQuiet == IInv /\ MInv /\ LandFile => QuietStep
    <1> SUFFICES ASSUME IInv, MInv, LandFile PROVE QuietStep
        OBVIOUS
    <1>1. /\ UNCHANGED <<receipt, saved, named, pass, spool, marker, retire>>
          /\ landed' = landed + 1 /\ pass.step = "idle"
        BY DEF LandFile, Free, Land, retirement
    <1>2. landed' \in Nat /\ landed <= landed'
        BY <1>1, LandedNat
    <1>3. \A f \in Files : \A v \in spool'[f].may : v = {} \/ v \in spool[f].may
        BY <1>1
    <1>4. QED
        BY <1>1, <1>2, <1>3, MarkStays DEF QuietStep

LEMMA WaitQuiet == ASSUME IInv, MInv, NEW f \in Files, Wait(f) PROVE QuietStep
    <1>1. UNCHANGED <<landed, receipt, spool, saved, pass, marker, named, retire>>
        BY DEF Wait, Age, retirement
    <1>2. \A g \in Files : \A v \in spool'[g].may : v = {} \/ v \in spool[g].may
        BY <1>1
    <1>3. QED
        BY <1>1, <1>2, MarkStays, Quietly

LEMMA SendingQuiet ==
    ASSUME IInv, MInv, (\E f \in Files : Send(f)) \/ Answered \/ Unanswered \/ Reconfigure
    PROVE  QuietStep
    <1>1. /\ UNCHANGED <<landed, receipt, spool, saved, pass, marker, named, retire>>
        BY DEF Send, Answered, Unanswered, Reconfigure
    <1>2. \A g \in Files : \A v \in spool'[g].may : v = {} \/ v \in spool[g].may
        BY <1>1
    <1>3. QED
        BY <1>1, <1>2, MarkStays, Quietly

LEMMA BeginRetireQuiet == IInv /\ MInv /\ BeginRetire => QuietStep
    <1> SUFFICES ASSUME IInv, MInv, BeginRetire PROVE QuietStep
        OBVIOUS
    <1>1. UNCHANGED <<landed, receipt, spool, saved, pass, named>>
        BY DEF BeginRetire, InSession
    <1>2. marker' = marker \/ marker' = Written(marker, TRUE)
        BY DEF BeginRetire
    <1>3. marker'.now \in marker'.may
        <2>1. Written(marker, TRUE).now \in Written(marker, TRUE).may
            BY DEF Written
        <2>2. marker.now \in marker.may
            BY DEF MInv, MarkInv
        <2>3. QED
            BY <1>2, <2>1, <2>2
    <1>4. Receipts(1)
        <2>1. CASE Retirable
            BY <2>1, FirstFile DEF Retirable, MInv, SavedInv, Backed, IInv, Shape, Files
        <2>2. CASE Unfinished
            BY <2>2 DEF Unfinished, Retired, MInv, MarkInv
        <2>3. QED
            BY <2>1, <2>2 DEF BeginRetire
    <1>5. \A g \in Files : \A v \in spool'[g].may : v = {} \/ v \in spool[g].may
        BY <1>1
    <1>6. QED
        BY <1>1, <1>3, <1>4, <1>5, Quietly

\* What the steps of a retirement do, but the two that write what counts.
CarryQuiet == MarkDurable \/ HandOff \/ Rename \/ MoveDurable \/ DeleteMoved \/ Tidy
              \/ SyncChanged \/ ForgetGone \/ Settle

LEMMA CarryIsQuiet == IInv /\ MInv /\ CarryQuiet => QuietStep
    <1> SUFFICES ASSUME IInv, MInv, CarryQuiet PROVE QuietStep
        OBVIOUS
    <1>1. UNCHANGED <<landed, receipt, saved, pass, named>>
        BY DEF CarryQuiet, MarkDurable, HandOff, Rename, MoveDurable, DeleteMoved, Tidy, SyncChanged,
               ForgetGone, Settle, InSession
    <1>2. retire.step # "idle"
        BY DEF CarryQuiet, MarkDurable, HandOff, Rename, MoveDurable, DeleteMoved, Tidy, SyncChanged,
               ForgetGone, Settle
    <1>3. Receipts(1)
        BY <1>2 DEF MInv, MarkInv
    <1>4. marker'.now \in marker'.may
        <2>1. CASE MarkDurable
            BY <2>1, FlushedMay, FailedMarker DEF MarkDurable, MInv, MarkInv
        <2>2. CASE ~MarkDurable
            BY <2>2 DEF CarryQuiet, HandOff, Rename, MoveDurable, DeleteMoved, Tidy, SyncChanged,
                        ForgetGone, Settle, MInv, MarkInv
        <2>3. QED
            BY <2>1, <2>2
    <1>5. \A f \in Files : \A v \in spool'[f].may : v = {} \/ v \in spool[f].may
        <2>1. ASSUME NEW f \in Files, spool' = [spool EXCEPT ![f] = Written(@, {})]
              PROVE  \A g \in Files : \A v \in spool'[g].may : v = {} \/ v \in spool[g].may
            <3>1. Written(spool[f], {}).may = spool[f].may \cup {{}}
                BY WrittenFields
            <3>2. QED
                BY <2>1, <3>1, SpoolFades
        <2>2. CASE HandOff
            <3>1. \/ spool' = spool
                  \/ retire.file \in Files /\ spool' = [spool EXCEPT ![retire.file] = Written(@, {})]
                BY <2>2 DEF HandOff, IInv, Shape, Attempt, Files
            <3>2. QED
                BY <2>1, <3>1
        <2>3. CASE Tidy
            <3>1. spool' = spool \/ \E f \in Files : spool' = [spool EXCEPT ![f] = Written(@, {})]
                BY <2>3 DEF Tidy, IInv, Shape, Attempt
            <3>2. QED
                BY <2>1, <3>1
        <2>4. CASE SyncChanged
            <3>1. spool' = spool \/ spool' = [f \in Files |-> Flushed(spool[f])]
                BY <2>4 DEF SyncChanged
            <3>2. \A f \in Files : spool[f].now \in spool[f].may
                BY DEF IInv, Entries, Proper
            <3>3. QED
                BY <3>1, <3>2, FlushedMay
        <2>5. CASE ~(HandOff \/ Tidy \/ SyncChanged)
            BY <2>5 DEF CarryQuiet, MarkDurable, Rename, MoveDurable, DeleteMoved, ForgetGone, Settle
        <2>6. QED
            BY <2>2, <2>3, <2>4, <2>5
    <1>6. QED
        BY <1>1, <1>3, <1>4, <1>5, Quietly

LEMMA StopQuiet == IInv /\ MInv /\ Stop => QuietStep
    <1> SUFFICES ASSUME IInv, MInv, Stop PROVE QuietStep
        OBVIOUS
    <1>1. /\ UNCHANGED <<landed, receipt, spool, saved, marker, named>> /\ pass' = NoPass
          /\ retire'.step = "idle"
        BY DEF Stop, Forgotten, NotRetiring
    <1>2. \A g \in Files : \A v \in spool'[g].may : v = {} \/ v \in spool[g].may
        BY <1>1
    <1>3. marker'.now \in marker'.may /\ (Receipts(1) \/ marker'.may = {FALSE})
        BY <1>1 DEF MInv, MarkInv
    <1>4. QED
        BY <1>1, <1>2, <1>3, Quietly

LEMMA PowerLossQuiet == IInv /\ MInv /\ PowerLoss => QuietStep
    <1> SUFFICES ASSUME IInv, MInv, PowerLoss PROVE QuietStep
        OBVIOUS
    <1>1. /\ UNCHANGED <<landed, receipt, saved, named>> /\ pass' = NoPass
          /\ retire'.step = "idle"
        BY DEF PowerLoss, Forgotten, NotRetiring
    <1>2. PICK m \in marker.may, s \in [Files -> UNION {spool[f].may : f \in Files}] :
              /\ \A f \in Files : s[f] \in spool[f].may
              /\ marker' = Settled(m) /\ spool' = [f \in Files |-> Settled(s[f])]
        BY DEF PowerLoss
    <1>3. marker'.now = m /\ marker'.may = {m}
        BY <1>2, SettledFields
    <1>4. marker'.now \in marker'.may /\ (Receipts(1) \/ marker'.may = {FALSE})
        BY <1>2, <1>3 DEF MInv, MarkInv
    <1>5. \A f \in Files : spool'[f].may = {s[f]}
        BY <1>2, SettledFields
    <1>6. \A f \in Files : \A v \in spool'[f].may : v = {} \/ v \in spool[f].may
        BY <1>2, <1>5
    <1>7. QED
        BY <1>1, <1>4, <1>6, Quietly

-----------------------------------------------------------------------------
(* The steps of a pass.                                                      *)

LEMMA ReceiptEnds ==
    ASSUME MInv, NEW f \in Files
    PROVE  /\ receipt[f].end \in Int /\ receipt[f].counted \subseteq Calls
           /\ Receipts(f) => receipt[f].end \in Nat
           /\ ~Receipts(f) => receipt[f].counted = {} /\ receipt[f].end = -1 /\ receipt[f].request = {}
    <1>1. CASE Receipts(f)
        <2>1. Honest(f, receipt[f])
            BY <1>1 DEF MInv, ReceiptsInv
        <2>2. QED
            BY <1>1, <2>1, CallsOf DEF Honest
    <1>2. CASE ~Receipts(f)
        BY <1>2 DEF Receipts, NoReceipt
    <1>3. QED
        BY <1>1, <1>2

LEMMA CommittedIs ==
    ASSUME MInv, NEW p \in PassType, NEW fs, fs \subseteq Files, \A f \in fs : Receipts(f)
    PROVE  /\ Committed(p, fs) \in PassType
           /\ Committed(p, fs).step = p.step /\ Committed(p, fs).at = p.at
           /\ Committed(p, fs).derived = p.derived
           /\ Committed(p, fs).since = p.since /\ Committed(p, fs).pending = p.pending
           /\ Committed(p, fs).calls = p.calls \cup UNION {receipt[f].counted : f \in fs}
           /\ \A s \in Sources : p.ends[s] <= Committed(p, fs).ends[s]
           /\ \A f \in fs : receipt[f].end <= Committed(p, fs).ends[SourceOf(f)]
    <1> DEFINE calls == p.calls \cup UNION {receipt[f].counted : f \in fs}
               of(s) == {p.ends[s]} \cup {receipt[f].end : f \in {g \in fs : SourceOf(g) = s}}
               ends == [s \in Sources |-> Max(of(s))]
    <1>1. Committed(p, fs) = [p EXCEPT !.calls = calls, !.ends = ends]
        BY DEF Committed, PassType
    <1>2. calls \subseteq Calls
        BY ReceiptEnds DEF PassType
    <1>3. ASSUME NEW s \in Sources
          PROVE  Max(of(s)) \in Nat /\ \A e \in of(s) : Max(of(s)) >= e
        <2> DEFINE gs == {g \in fs : SourceOf(g) = s}
                   h == [g \in gs |-> receipt[g].end]
        <2>1. IsFiniteSet(gs)
            BY FirstFile, FileRecords, FS_Subset
        <2>2. IsFiniteSet({h[g] : g \in gs})
            BY <2>1, FiniteImage
        <2>3. of(s) = {h[g] : g \in gs} \cup {p.ends[s]}
            OBVIOUS
        <2>4. IsFiniteSet(of(s))
            BY <2>2, <2>3, FS_AddElement
        <2>5. of(s) \subseteq Nat /\ of(s) # {}
            BY ReceiptEnds DEF PassType
        <2> HIDE DEF of
        <2>6. QED
            BY <2>4, <2>5, MaxOf
    <1>4. ends \in [Sources -> Nat]
        BY <1>3
    <1>5. \A s \in Sources : ends[s] = Max(of(s)) /\ p.ends[s] \in of(s)
        OBVIOUS
    <1>6. \A f \in fs : SourceOf(f) \in Sources /\ receipt[f].end \in of(SourceOf(f))
        BY DEF Sources, SourceOf
    <1>7. \A s \in Sources : \A e \in of(s) : e \in Nat
        BY ReceiptEnds DEF PassType
    <1> HIDE DEF calls, ends, of
    <1>8. \A s \in Sources : p.ends[s] <= ends[s]
        BY <1>3, <1>5, <1>7
    <1>9. \A f \in fs : receipt[f].end <= ends[SourceOf(f)]
        BY <1>3, <1>5, <1>6, <1>7
    <1>10. Committed(p, fs).calls = calls /\ Committed(p, fs).ends = ends
        BY <1>1 DEF PassType
    <1>11. /\ Committed(p, fs) \in PassType
           /\ Committed(p, fs).step = p.step /\ Committed(p, fs).at = p.at
           /\ Committed(p, fs).derived = p.derived
           /\ Committed(p, fs).since = p.since /\ Committed(p, fs).pending = p.pending
        BY <1>1, <1>2, <1>4 DEF PassType
    <1>12. QED
        BY <1>8, <1>9, <1>10, <1>11 DEF calls

\* What a pass covers it still covers, and the receipts committed to it too.
LEMMA CommittedCovers ==
    ASSUME MInv, NEW p \in PassType, NEW fs, fs \subseteq Files, \A f \in fs : Receipts(f),
           NEW gs, gs \subseteq Files, Covers(p, gs), Backed(p)
    PROVE  Covers(Committed(p, fs), gs \cup fs) /\ Backed(Committed(p, fs))
    <1> DEFINE q == Committed(p, fs)
    <1>1. /\ q \in PassType /\ q.derived = p.derived
          /\ q.calls = p.calls \cup UNION {receipt[f].counted : f \in fs}
          /\ \A s \in Sources : p.ends[s] <= q.ends[s]
          /\ \A f \in fs : receipt[f].end <= q.ends[SourceOf(f)]
        BY CommittedIs
    <1> HIDE DEF q
    <1>2. ASSUME NEW g \in gs
          PROVE  receipt[g].counted \subseteq q.calls /\ receipt[g].end <= q.ends[SourceOf(g)]
        <2>1. receipt[g].counted \subseteq p.calls /\ receipt[g].end <= p.ends[SourceOf(g)]
            BY DEF Covers
        <2>2. SourceOf(g) \in Sources /\ receipt[g].end \in Int
            BY ReceiptEnds DEF Sources, SourceOf
        <2>3. p.ends[SourceOf(g)] \in Nat /\ q.ends[SourceOf(g)] \in Nat
            BY <1>1, <2>2 DEF PassType
        <2>4. QED
            BY <1>1, <2>1, <2>2, <2>3
    <1>3. Covers(q, gs \cup fs)
        BY <1>1, <1>2 DEF Covers
    <1>4. Backed(q)
        BY <1>1 DEF Backed, PassType
    <1>5. QED
        BY <1>3, <1>4 DEF q

\* A step of the pass that writes neither a receipt nor a request nor a state.
LEMMA PassStep ==
    ASSUME IInv, MInv, UNCHANGED <<landed, receipt, saved, named, spool, marker, retire>>, PassInv'
    PROVE  MInv'
    <1>1. \A f \in Files : Receipts(f)' = Receipts(f)
        BY DEF Receipts
    <1>2. Receipts(1)' = Receipts(1)
        BY DEF Receipts
    <1>3. ReceiptsInv'
        BY <1>1 DEF MInv, ReceiptsInv, Before
    <1>4. NamedInv'
        BY <1>1 DEF MInv, NamedInv
    <1>5. SavedInv'
        BY <1>1, <1>2 DEF MInv, SavedInv, Backed, Covers
    <1>6. MarkInv'
        BY <1>2 DEF MInv, MarkInv
    <1>7. QED
        BY <1>3, <1>4, <1>5, <1>6 DEF MInv

LEMMA DeriveFilesMetrics == IInv /\ MInv /\ DeriveFiles => MInv'
    <1> SUFFICES ASSUME IInv, MInv, DeriveFiles PROVE MInv'
        OBVIOUS
    <1>1. UNCHANGED <<landed, receipt, saved, named, spool, marker, retire>> /\ BeginPass
        BY DEF DeriveFiles, BeginPass, retirement
    <1> DEFINE p == [NoPass EXCEPT !.step = "file", !.derived = saved.derived,
                                   !.calls = saved.calls, !.ends = saved.ends,
                                   !.since = saved.since \/ ~saved.there]
               fs == {f \in 1 .. landed \ saved.derived : Receipts(f)}
    <1>2. pass' = Committed(p, fs)
        BY <1>1 DEF BeginPass
    <1>3. /\ saved.derived \subseteq Files /\ saved.calls \subseteq Calls
          /\ saved.ends \in [Sources -> Nat] /\ saved.since \in BOOLEAN /\ saved.there \in BOOLEAN
        BY DEF MInv, SavedInv, Backed
    <1>4. p \in PassType
        <2>1. \A q \in PassType : \A b \in BOOLEAN :
                  [q EXCEPT !.step = "file", !.derived = saved.derived, !.calls = saved.calls,
                            !.ends = saved.ends, !.since = b] \in PassType
            BY <1>3 DEF PassType
        <2>2. NoPass \in PassType
            BY DEF PassType, NoPass
        <2>3. (saved.since \/ ~saved.there) \in BOOLEAN
            OBVIOUS
        <2>4. QED
            BY <2>1, <2>2, <2>3, Zenon
    <1>5. /\ p.step = "file" /\ p.at = 1 /\ p.derived = saved.derived /\ p.calls = saved.calls
          /\ p.ends = saved.ends /\ p.since = (saved.since \/ ~saved.there)
        BY DEF NoPass
    <1>6. fs \subseteq Files /\ \A f \in fs : Receipts(f)
        BY MetricsAssumption DEF IInv, Shape, Files
    <1> HIDE DEF p, fs
    <1>7. Covers(p, saved.derived) /\ Backed(p)
        BY <1>5 DEF MInv, SavedInv, Backed, Covers
    <1>8. Covers(pass', saved.derived \cup fs) /\ Backed(pass')
        BY <1>2, <1>3, <1>4, <1>6, <1>7, CommittedCovers
    <1>9. /\ pass' \in PassType /\ pass'.step = "file" /\ pass'.at = 1
          /\ pass'.derived = saved.derived /\ pass'.since = p.since
        BY <1>2, <1>4, <1>5, <1>6, CommittedIs
    <1>10. Covers(pass', Files)
        <2> SUFFICES ASSUME NEW f \in Files
                     PROVE  receipt[f].counted \subseteq pass'.calls
                            /\ receipt[f].end <= pass'.ends[SourceOf(f)]
            BY DEF Covers
        <2>1. CASE Receipts(f)
            <3>1. f \in saved.derived \cup fs
                BY <2>1 DEF fs, MInv, ReceiptsInv, Files
            <3>2. QED
                BY <1>8, <3>1 DEF Covers
        <2>2. CASE ~Receipts(f)
            <3>1. pass'.ends[SourceOf(f)] \in Nat
                BY <1>9 DEF PassType, Sources, SourceOf
            <3>2. QED
                BY <2>2, <3>1, ReceiptEnds
        <2>3. QED
            BY <2>1, <2>2
    <1>11. pass'.since = TRUE \/ Receipts(1)
        BY <1>3, <1>5, <1>9 DEF MInv, SavedInv
    <1>12. UNCHANGED <<receipt, named, landed>>
        BY <1>1
    <1>13. Passing'
        BY <1>8, <1>9, <1>10, <1>11, <1>12 DEF Passing, Backed, Covers, Receipts, AtFile
    <1>14. PassInv'
        BY <1>9, <1>13 DEF PassInv
    <1>15. QED
        BY <1>1, <1>14, PassStep

\* Passing over a file, leaving it for later, and giving the session up.
LEMMA GoesPast ==
    ASSUME IInv, MInv, AtFile \/ pass.step = "put",
           UNCHANGED <<landed, receipt, saved, named, spool, marker, retire>>,
           NEW at \in Nat \ {0}, NEW pending \in BOOLEAN,
           pass' = [pass EXCEPT !.step = "file", !.at = at, !.pending = pending],
           pending = TRUE \/ Receipts(1), pass.step = "put" => at > landed
    PROVE  MInv'
    <1>1. /\ pass' \in PassType /\ pass'.step = "file" /\ pass'.at = at /\ pass'.pending = pending
          /\ pass'.derived = pass.derived /\ pass'.calls = pass.calls /\ pass'.ends = pass.ends
          /\ pass'.since = pass.since
        BY DEF MInv, PassInv, PassType
    <1>2. Passing
        BY DEF AtFile, MInv, PassInv
    <1>3. Backed(pass)' /\ Covers(pass, pass.derived)'
        BY <1>1, <1>2 DEF Passing, Backed, Covers, Receipts
    <1>4. AtFile' => Covers(pass, Files)'
        BY <1>1, <1>2, LandedNat DEF Passing, AtFile, Covers
    <1>5. Passing'
        BY <1>1, <1>2, <1>3, <1>4 DEF Passing, Receipts
    <1>6. PassInv'
        BY <1>1, <1>5 DEF PassInv
    <1>7. QED
        BY <1>6, PassStep

LEMMA PassOverMetrics == IInv /\ MInv /\ Derive /\ PassOver => MInv'
    <1> SUFFICES ASSUME IInv, MInv, Derive, PassOver PROVE MInv'
        OBVIOUS
    <1>1. /\ AtFile /\ pass.at \in pass.derived /\ pass' = Passed(pass)
          /\ UNCHANGED <<landed, receipt, saved, named, spool, marker, retire>>
        BY DEF Derive, PassOver, retirement
    <1>2. pass \in PassType /\ Passing
        BY <1>1 DEF AtFile, MInv, PassInv
    <1>3. pass.pending = TRUE \/ Receipts(1)
        BY <1>1, <1>2 DEF Passing, Backed, PassType
    <1>4. pass' = [pass EXCEPT !.step = "file", !.at = pass.at + 1, !.pending = pass.pending]
        BY <1>1, <1>2 DEF Passed, PassType
    <1>5. pass.at + 1 \in Nat \ {0} /\ pass.pending \in BOOLEAN
        BY <1>2 DEF PassType
    <1>6. pass.step # "put"
        BY <1>1 DEF AtFile
    <1>7. QED
        BY <1>1, <1>3, <1>4, <1>5, <1>6, GoesPast

LEMMA DeferMetrics == IInv /\ MInv /\ Derive /\ Defer => MInv'
    <1> SUFFICES ASSUME IInv, MInv, Derive, Defer PROVE MInv'
        OBVIOUS
    <1>1. /\ AtFile /\ pass' = [Passed(pass) EXCEPT !.pending = TRUE]
          /\ UNCHANGED <<landed, receipt, saved, named, spool, marker, retire>>
        BY DEF Derive, Defer, retirement
    <1>2. pass \in PassType
        BY DEF MInv, PassInv
    <1>3. pass' = [pass EXCEPT !.step = "file", !.at = pass.at + 1, !.pending = TRUE]
        BY <1>1, <1>2 DEF Passed, PassType
    <1>4. pass.at + 1 \in Nat \ {0}
        BY <1>2 DEF PassType
    <1>5. pass.step # "put"
        BY <1>1 DEF AtFile
    <1>6. QED
        BY <1>1, <1>3, <1>4, <1>5, GoesPast

LEMMA DeriveFailsMetrics == IInv /\ MInv /\ DeriveFails => MInv'
    <1> SUFFICES ASSUME IInv, MInv, DeriveFails PROVE MInv'
        OBVIOUS
    <1>1. /\ AtFile \/ pass.step = "put"
          /\ pass' = Broken(pass)
          /\ UNCHANGED <<landed, receipt, saved, named, spool, marker, retire>>
        BY DEF DeriveFails, Break, retirement
    <1>2. pass' = [pass EXCEPT !.step = "file", !.at = landed + 1, !.pending = TRUE]
        BY <1>1 DEF Broken
    <1>3. landed + 1 \in Nat \ {0} /\ landed + 1 > landed
        BY LandedNat
    <1>4. QED
        BY <1>1, <1>2, <1>3, GoesPast

\* The receipt there is decides; a new one counts what no other does.
LEMMA DeriveReceiptMetrics == IInv /\ MInv /\ Derive /\ DeriveReceipt => MInv'
    <1> SUFFICES ASSUME IInv, MInv, Derive, DeriveReceipt PROVE MInv'
        OBVIOUS
    <1> DEFINE f == pass.at
               r == Receipt(pass.at, landed, pass)
    <1>1. /\ AtFile /\ f \notin pass.derived /\ pass' = [pass EXCEPT !.step = "put"]
          /\ UNCHANGED <<landed, saved, named, spool, marker, retire>>
          /\ IF Receipts(f) THEN receipt' = receipt ELSE receipt' = [receipt EXCEPT ![f] = r]
        BY DEF Derive, DeriveReceipt, retirement
    <1>2. pass \in PassType /\ Passing /\ Covers(pass, Files)
        BY <1>1 DEF AtFile, MInv, PassInv, Passing
    <1>3. f \in Files /\ f <= landed /\ landed \in Files
        BY <1>1, <1>2, MetricsAssumption DEF AtFile, PassType, IInv, Shape, Files
    <1>4. /\ pass' \in PassType /\ pass'.step = "put" /\ pass'.at = pass.at /\ pass'.derived = pass.derived
          /\ pass'.calls = pass.calls /\ pass'.ends = pass.ends
          /\ pass'.since = pass.since /\ pass'.pending = pass.pending
        BY <1>1, <1>2 DEF PassType
    <1>5. CASE Receipts(f)
        <2>1. UNCHANGED receipt
            BY <1>1, <1>5
        <2>2. Passing'
            <3>1. Backed(pass)' /\ Covers(pass, pass.derived)' /\ Covers(pass, Files \ {pass.at})'
                BY <1>1, <1>2, <1>4, <2>1 DEF Passing, Backed, Covers, Receipts
            <3>2. QED
                BY <1>2, <1>3, <1>4, <1>5, <2>1, <3>1 DEF Passing, Receipts, AtFile
        <2>3. PassInv'
            BY <1>4, <2>2 DEF PassInv
        <2>4. QED
            BY <1>1, <2>1, <2>3, PassStep
    <1>6. CASE ~Receipts(f)
        <2>1. receipt' = [receipt EXCEPT ![f] = r]
            BY <1>1, <1>6
        <2>2. /\ Honest(f, r) /\ r.counted \cap pass.calls = {}
              /\ \A q \in r.request : pass.ends[SourceOf(f)] <= q.start
              /\ f # 1 \/ pass.since = TRUE => Spares(r)
            BY <1>2, <1>3, ReceiptIs DEF PassType
        <2>3. Spares(r)
            BY <1>2, <1>6, <2>2 DEF Passing
        <2> HIDE DEF r, f
        <2>4. receipt'[f] = r /\ \A g \in Files \ {f} : receipt'[g] = receipt[g]
            BY <1>3, <2>1 DEF IInv, Shape
        <2>5. r # NoReceipt
            BY <2>2 DEF Honest, NoReceipt
        <2>6. \A g \in Files : /\ Receipts(g)' = (Receipts(g) \/ g = f)
                               /\ Receipts(g) => receipt'[g] = receipt[g]
            BY <1>6, <2>4, <2>5 DEF Receipts
        <2>7. receipt[f].counted = {} /\ named[f] = {}
            BY <1>3, <1>6, ReceiptEnds DEF MInv, NamedInv
        <2>8. ReceiptsInv'
            <3>1. \A g \in Files : Receipts(g)' =>
                      g <= landed /\ Honest(g, receipt'[g]) /\ Spares(receipt'[g])
                BY <1>3, <2>2, <2>3, <2>4, <2>6 DEF MInv, ReceiptsInv
            <3>2. ASSUME NEW g \in Files, g # f, Receipts(g)
                  PROVE  /\ receipt[g].counted \cap r.counted = {}
                         /\ SourceOf(g) = SourceOf(f) => \A q \in r.request : receipt[g].end <= q.start
                <4>1. receipt[g].counted \subseteq pass.calls /\ receipt[g].end <= pass.ends[SourceOf(g)]
                    BY <1>2 DEF Covers
                <4>2. receipt[g].end \in Int /\ pass.ends[SourceOf(f)] \in Nat
                    BY <1>2, <1>3, ReceiptEnds DEF PassType, Sources, SourceOf
                <4>3. \A q \in r.request : q.start \in Nat
                    BY <2>2 DEF Honest
                <4>4. QED
                    BY <2>2, <4>1, <4>2, <4>3
            <3>3. ASSUME NEW g \in Files, NEW h \in Files, g # h, Receipts(g)', Receipts(h)'
                  PROVE  /\ receipt'[g].counted \cap receipt'[h].counted = {}
                         /\ SourceOf(g) = SourceOf(h) => Before(g, h)' \/ Before(h, g)'
                <4>1. CASE g # f /\ h # f
                    <5>1. Receipts(g) /\ Receipts(h) /\ receipt'[g] = receipt[g] /\ receipt'[h] = receipt[h]
                        BY <2>6, <3>3, <4>1
                    <5>2. QED
                        BY <3>3, <5>1 DEF MInv, ReceiptsInv, Before
                <4>2. CASE h = f
                    BY <2>4, <2>6, <3>2, <3>3, <4>2 DEF Before
                <4>3. CASE g = f
                    BY <2>4, <2>6, <3>2, <3>3, <4>3 DEF Before
                <4>4. QED
                    BY <4>1, <4>2, <4>3
            <3>4. UNCHANGED landed
                BY <1>1
            <3>5. QED
                BY <3>1, <3>3, <3>4 DEF ReceiptsInv
        <2>9. NamedInv'
            BY <1>1, <2>4, <2>6, <2>7 DEF MInv, NamedInv
        <2>10. ASSUME NEW k, Backed(k)
               PROVE  /\ \A c \in k.calls : \E g \in Files : c \in receipt'[g].counted
                      /\ \A g \in k.derived : g \in Files /\ Receipts(g) /\ receipt'[g] = receipt[g]
            BY <2>4, <2>6, <2>7, <2>10 DEF Backed
        <2>11. SavedInv'
            <3>1. Backed(saved) /\ Covers(saved, saved.derived)
                BY DEF MInv, SavedInv
            <3>2. Backed(saved)' /\ Covers(saved, saved.derived)'
                BY <1>1, <2>6, <2>10, <3>1 DEF Backed, Covers
            <3>3. Receipts(1) => Receipts(1)'
                BY <2>6, FirstFile
            <3>4. QED
                BY <1>1, <3>2, <3>3 DEF MInv, SavedInv
        <2>12. PassInv'
            <3>1. Backed(pass) /\ Covers(pass, pass.derived)
                BY <1>2 DEF Passing
            <3>2. Backed(pass)' /\ Covers(pass, pass.derived)'
                BY <1>1, <1>4, <2>6, <2>10, <3>1 DEF Backed, Covers
            <3>3. Covers(pass, Files \ {pass.at})'
                BY <1>2, <1>4, <2>4 DEF Covers, f
            <3>4. Receipts(1) => Receipts(1)'
                BY <2>6, FirstFile
            <3>5. pass'.at \in Files /\ Receipts(pass.at)'
                <4>1. pass'.at = f
                    BY <1>4 DEF f
                <4>2. QED
                    BY <1>3, <2>6, <4>1
            <3>6. Passing'
                BY <1>2, <1>4, <3>2, <3>3, <3>4, <3>5 DEF Passing, AtFile
            <3>7. QED
                BY <1>4, <3>6 DEF PassInv
        <2>13. MarkInv'
            <3>1. Receipts(1) => Receipts(1)'
                BY <2>6, FirstFile
            <3>2. QED
                BY <1>1, <3>1 DEF MInv, MarkInv
        <2>14. QED
            BY <2>8, <2>9, <2>11, <2>12, <2>13 DEF MInv
    <1>7. QED
        BY <1>5, <1>6

LEMMA FlushedWrittenMay ==
    ASSUME NEW e, NEW v
    PROVE  Flushed(Written(e, v)).may = {v}
    <1>1. Flushed(Written(e, v)) = Settled(v)
        BY FlushedWritten
    <1>2. Settled(v).may = {v}
        BY SettledFields
    <1>3. QED
        BY <1>1, <1>2

\* A request put where its receipt says, beside or instead of nothing else.
LEMMA RequestNamed ==
    ASSUME IInv, MInv, NEW f \in Files, Receipts(f), UNCHANGED receipt,
           named' = [named EXCEPT ![f] = @ \cup {receipt[f].request}],
           NEW e, spool' = [spool EXCEPT ![f] = e],
           \A v \in e.may : v = receipt[f].request \/ v \in spool[f].may
    PROVE  /\ NamedInv' /\ receipt[f].request \in named'[f]
           /\ \A g \in Files : named[g] \subseteq named'[g]
    <1>1. /\ DOMAIN named' = Files
          /\ \A g \in Files : named'[g] = IF g = f THEN named[g] \cup {receipt[f].request} ELSE named[g]
        BY DEF MInv, NamedInv
    <1>2. \A g \in Files : spool'[g] = IF g = f THEN e ELSE spool[g]
        BY DEF IInv, Shape
    <1>3. \A g \in Files : Receipts(g)' = Receipts(g)
        BY DEF Receipts
    <1>4. NamedInv'
        <2> SUFFICES ASSUME NEW g \in Files
                     PROVE  /\ named'[g] \subseteq {receipt[g].request}
                            /\ ~Receipts(g) => named'[g] = {}
                            /\ \A v \in spool'[g].may : v = {} \/ v \in named'[g]
            BY <1>1, <1>3 DEF NamedInv
        <2>1. CASE g = f
            BY <1>1, <1>2, <2>1 DEF MInv, NamedInv
        <2>2. CASE g # f
            BY <1>1, <1>2, <2>2 DEF MInv, NamedInv
        <2>3. QED
            BY <2>1, <2>2
    <1>5. QED
        BY <1>1, <1>4

\* With the same receipts, what is backed stays so as more requests are named.
LEMMA BackedStays ==
    ASSUME NEW k, Backed(k), UNCHANGED <<receipt>>,
           \A g \in Files : named[g] \subseteq named'[g]
    PROVE  /\ k.derived \subseteq Files /\ k.ends \in [Sources -> Nat]
           /\ \A c \in k.calls : \E f \in Files : c \in receipt'[f].counted
           /\ \A f \in k.derived : /\ receipt'[f] # NoReceipt
                                   /\ receipt'[f].request = {} \/ receipt'[f].request \in named'[f]
    BY DEF Backed, Receipts

LEMMA PutMetrics == IInv /\ MInv /\ Derive /\ Put => MInv'
    <1> SUFFICES ASSUME IInv, MInv, Derive, Put PROVE MInv'
        OBVIOUS
    <1> DEFINE f == pass.at
               request == receipt[pass.at].request
               p == Committed(pass, {pass.at})
    <1>1. /\ pass.step = "put" /\ PutNamed(f, request)
          /\ pass' = [Passed(p) EXCEPT !.derived = @ \cup {f}]
          /\ UNCHANGED <<landed, receipt, saved, marker, retire>>
        BY DEF Derive, Put, retirement
    <1>2. /\ pass \in PassType /\ Passing /\ f \in Files /\ Receipts(f)
          /\ Covers(pass, Files \ {f})
        BY <1>1 DEF MInv, PassInv, Passing
    <1>3. /\ p \in PassType /\ p.at = f /\ p.derived = pass.derived
          /\ p.since = pass.since /\ p.pending = pass.pending
        BY <1>2, CommittedIs
    <1>4. Covers(p, Files) /\ Backed(p)
        <2>1. Covers(p, (Files \ {f}) \cup {f}) /\ Backed(p)
            BY <1>2, CommittedCovers DEF Passing
        <2>2. (Files \ {f}) \cup {f} = Files
            BY <1>2
        <2>3. QED
            BY <2>1, <2>2
    <1> HIDE DEF p
    <1>5. /\ pass' \in PassType /\ pass'.step = "file" /\ pass'.at = f + 1
          /\ pass'.derived = pass.derived \cup {f} /\ pass'.calls = p.calls /\ pass'.ends = p.ends
          /\ pass'.since = pass.since /\ pass'.pending = pass.pending
        <2> HIDE DEF f
        <2>1. /\ Passed(p) \in PassType /\ Passed(p).step = "file" /\ Passed(p).at = f + 1
              /\ Passed(p).derived = pass.derived /\ Passed(p).calls = p.calls
              /\ Passed(p).ends = p.ends /\ Passed(p).since = pass.since
              /\ Passed(p).pending = pass.pending
            <3>1. p.at + 1 \in Nat \ {0}
                BY <1>3 DEF PassType
            <3>2. Passed(p) = [p EXCEPT !.step = "file", !.at = p.at + 1]
                BY <1>3 DEF Passed, PassType
            <3>3. Passed(p) \in PassType
                BY <1>3, <3>1, <3>2 DEF PassType
            <3>4. QED
                BY <1>3, <3>2, <3>3 DEF PassType
        <2>2. pass.derived \cup {f} \in SUBSET Files
            BY <1>2 DEF PassType
        <2>3. pass' = [Passed(p) EXCEPT !.derived = pass.derived \cup {f}]
            BY <1>1, <2>1
        <2>4. QED
            BY <2>1, <2>2, <2>3 DEF PassType
    <1>6. /\ NamedInv' /\ (request = {} \/ request \in named'[f])
          /\ \A g \in Files : named[g] \subseteq named'[g]
        <2>1. CASE request = {} \/ InSpool(f)
            <3>1. UNCHANGED <<spool, named, receipt>>
                BY <1>1, <2>1 DEF PutNamed
            <3>2. NamedInv'
                BY <3>1 DEF MInv, NamedInv, Receipts
            <3>3. request = {} \/ request \in named[f]
                BY <1>2, <2>1 DEF MInv, NamedInv, InSpool, IInv, Entries, Proper
            <3>4. QED
                BY <3>1, <3>2, <3>3
        <2>2. CASE ~(request = {} \/ InSpool(f))
            <3>1. /\ named' = [named EXCEPT ![f] = @ \cup {request}]
                  /\ \/ spool' = [spool EXCEPT ![f] = Flushed(Written(@, request))]
                     \/ spool' = [spool EXCEPT ![f] = Failed(Written(@, request))]
                BY <1>1, <2>2 DEF PutNamed
            <3>2. Flushed(Written(spool[f], request)).may = {request}
                BY FlushedWrittenMay
            <3>3. Failed(Written(spool[f], request)).may = spool[f].may \cup {request}
                BY FailedMay
            <3>4. PICK e : /\ spool' = [spool EXCEPT ![f] = e]
                           /\ \A v \in e.may : v = request \/ v \in spool[f].may
                BY <3>1, <3>2, <3>3
            <3>5. UNCHANGED receipt
                BY <1>1
            <3>6. QED
                BY <1>2, <3>1, <3>4, <3>5, RequestNamed
        <2>3. QED
            BY <2>1, <2>2
    <1>7. \A g \in Files : Receipts(g)' = Receipts(g)
        BY <1>1 DEF Receipts
    <1>8. Receipts(1)' = Receipts(1)
        BY <1>1 DEF Receipts
    <1>9. UNCHANGED <<receipt>>
        BY <1>1
    <1>10. ReceiptsInv'
        BY <1>1, <1>7 DEF MInv, ReceiptsInv, Before
    <1>11. SavedInv'
        <2>1. Backed(saved)
            BY DEF MInv, SavedInv
        <2>2. Backed(saved)'
            BY <1>1, <1>6, <1>9, <2>1, BackedStays DEF Backed, Receipts
        <2>3. QED
            BY <1>1, <1>8, <2>2 DEF MInv, SavedInv, Covers
    <1>12. PassInv'
        <2>1. Backed(pass)
            BY <1>2 DEF Passing
        <2>2. \A g \in pass.derived : /\ receipt'[g] # NoReceipt
                                      /\ receipt'[g].request = {} \/ receipt'[g].request \in named'[g]
            BY <1>6, <1>9, <2>1, BackedStays
        <2>3. \A c \in pass'.calls : \E g \in Files : c \in receipt'[g].counted
            BY <1>4, <1>5, <1>9 DEF Backed
        <2>4. Backed(pass)'
            BY <1>2, <1>5, <1>6, <1>9, <2>2, <2>3 DEF Backed, Receipts, PassType
        <2>5. Covers(pass, Files)'
            BY <1>4, <1>5, <1>9 DEF Covers
        <2>6. Covers(pass, pass.derived)'
            BY <2>4, <2>5 DEF Covers, Backed
        <2>7. pass'.at > 1 => pass'.pending = TRUE \/ Receipts(1)
            <3>1. f > 1 => pass.pending = TRUE \/ Receipts(1)
                BY <1>2 DEF Passing
            <3>2. f = 1 => Receipts(1)
                BY <1>2
            <3>3. f \in Nat \ {0}
                BY <1>2 DEF PassType
            <3>4. QED
                BY <1>5, <3>1, <3>2, <3>3
        <2>8. Passing'
            BY <1>2, <1>5, <1>8, <2>4, <2>5, <2>6, <2>7 DEF Passing
        <2>9. QED
            BY <1>5, <2>8 DEF PassInv
    <1>13. MarkInv'
        BY <1>1, <1>8 DEF MInv, MarkInv
    <1>14. QED
        BY <1>6, <1>10, <1>11, <1>12, <1>13 DEF MInv

\* A state is saved that a pass carried through: also the look-back's end.
LEMMA SaveMetrics == IInv /\ MInv /\ Derive /\ Save => MInv'
    <1> SUFFICES ASSUME IInv, MInv, Derive, Save PROVE MInv'
        OBVIOUS
    <1>1. /\ pass.step = "file" /\ pass.at > landed /\ pass' = NoPass
          /\ UNCHANGED <<landed, receipt, named, spool, marker, retire>>
          /\ saved'.there = TRUE /\ saved'.derived = pass.derived /\ saved'.calls = pass.calls
          /\ saved'.ends = pass.ends /\ saved'.since = (pass.since /\ pass.pending)
        BY DEF Derive, Save, retirement
    <1>2. pass \in PassType /\ Passing
        BY <1>1 DEF MInv, PassInv
    <1>3. \A f \in Files : Receipts(f)' = Receipts(f)
        BY <1>1 DEF Receipts
    <1>4. Receipts(1)' = Receipts(1)
        BY <1>1 DEF Receipts
    <1>5. saved'.since \in BOOLEAN /\ (saved'.since = FALSE => Receipts(1))
        <2>1. pass.at > 1
            BY <1>1, <1>2, MetricsAssumption DEF IInv, Shape, Files, PassType
        <2>2. (pass.since = TRUE \/ Receipts(1)) /\ (pass.pending = TRUE \/ Receipts(1))
            BY <1>2, <2>1 DEF Passing
        <2>3. (pass.since /\ pass.pending) \in BOOLEAN
            OBVIOUS
        <2>4. (pass.since /\ pass.pending) = FALSE => Receipts(1)
            BY <2>2, Zenon
        <2>5. QED
            BY <1>1, <2>3, <2>4
    <1>6. ReceiptsInv'
        BY <1>1, <1>3 DEF MInv, ReceiptsInv, Before
    <1>7. NamedInv'
        BY <1>1, <1>3 DEF MInv, NamedInv
    <1>8. SavedInv'
        <2>1. Backed(saved)' /\ Covers(saved, saved.derived)'
            BY <1>1, <1>2 DEF Passing, Backed, Covers, Receipts
        <2>2. saved'.calls \subseteq Calls
            BY <1>1, <1>2 DEF PassType
        <2>3. QED
            BY <1>1, <1>4, <1>5, <2>1, <2>2 DEF SavedInv
    <1>9. PassInv'
        BY <1>1 DEF PassInv, PassType, NoPass
    <1>10. MarkInv'
        BY <1>1, <1>4 DEF MInv, MarkInv
    <1>11. QED
        BY <1>6, <1>7, <1>8, <1>9, <1>10 DEF MInv

-----------------------------------------------------------------------------
(* The steps of a retirement that write what counts.                         *)

LEMMA WriteAgainMetrics == IInv /\ MInv /\ WriteAgain => MInv'
    <1> SUFFICES ASSUME IInv, MInv, WriteAgain PROVE MInv'
        OBVIOUS
    <1> DEFINE f == retire.file
               request == receipt[retire.file].request
    <1>1. /\ retire.step = "write" /\ named' = [named EXCEPT ![f] = @ \cup {request}]
          /\ \/ spool' = [spool EXCEPT ![f] = Flushed(Written(spool[f], request))]
             \/ spool' = [spool EXCEPT ![f] = Failed(Written(spool[f], request))]
          /\ UNCHANGED <<landed, receipt, saved, pass, marker>>
        BY DEF WriteAgain, InSession
    <1>2. f \in Files /\ Receipts(f) /\ pass.step = "idle"
        <2>1. f \in Files /\ request # {}
            BY <1>1 DEF IInv, Alone
        <2>2. Receipts(f)
            BY <2>1 DEF Receipts, NoReceipt
        <2>3. pass.step = "idle"
            BY <1>1 DEF IInv, Alone
        <2>4. QED
            BY <2>1, <2>2, <2>3
    <1>3. PICK e : /\ spool' = [spool EXCEPT ![f] = e]
                   /\ \A v \in e.may : v = request \/ v \in spool[f].may
        <2>1. Flushed(Written(spool[f], request)).may = {request}
            BY FlushedWrittenMay
        <2>2. Failed(Written(spool[f], request)).may = spool[f].may \cup {request}
            BY FailedMay
        <2>3. QED
            BY <1>1, <2>1, <2>2
    <1>4. UNCHANGED <<receipt>>
        BY <1>1
    <1>5. NamedInv' /\ \A g \in Files : named[g] \subseteq named'[g]
        BY <1>1, <1>2, <1>3, <1>4, RequestNamed
    <1>6. \A g \in Files : Receipts(g)' = Receipts(g)
        BY <1>4 DEF Receipts
    <1>7. Receipts(1)' = Receipts(1)
        BY <1>4 DEF Receipts
    <1>8. ReceiptsInv'
        BY <1>1, <1>6 DEF MInv, ReceiptsInv, Before
    <1>9. SavedInv'
        <2>1. Backed(saved)
            BY DEF MInv, SavedInv
        <2>2. Backed(saved)'
            BY <1>1, <1>4, <1>5, <2>1, BackedStays DEF Backed, Receipts
        <2>3. QED
            BY <1>1, <1>7, <2>2 DEF MInv, SavedInv, Covers
    <1>10. PassInv'
        BY <1>1, <1>2 DEF MInv, PassInv
    <1>11. MarkInv'
        BY <1>1, <1>7 DEF MInv, MarkInv
    <1>12. QED
        BY <1>5, <1>8, <1>9, <1>10, <1>11 DEF MInv

LEMMA ForgetMetricsMetrics == IInv /\ MInv /\ ForgetMetrics => MInv'
    <1> SUFFICES ASSUME IInv, MInv, ForgetMetrics PROVE MInv'
        OBVIOUS
    <1>1. /\ UNCHANGED <<landed, receipt, named, spool, marker, pass>> /\ retire.step = "metrics"
          /\ saved' = saved \/ saved' = [NothingSaved EXCEPT !.there = saved.there]
        BY DEF ForgetMetrics, InSession
    <1>2. Receipts(1) /\ Receipts(1)'
        BY <1>1 DEF MInv, MarkInv, Receipts
    <1>3. \A g \in Files : Receipts(g)' = Receipts(g)
        BY <1>1 DEF Receipts
    <1>4. ReceiptsInv'
        BY <1>1, <1>3 DEF MInv, ReceiptsInv, Before
    <1>5. NamedInv'
        BY <1>1, <1>3 DEF MInv, NamedInv
    <1>6. SavedInv'
        <2>1. CASE saved' = saved
            BY <1>1, <1>2, <2>1 DEF MInv, SavedInv, Backed, Covers, Receipts
        <2>2. CASE saved' = [NothingSaved EXCEPT !.there = saved.there]
            <3>1. /\ saved'.there = saved.there /\ saved'.since = FALSE /\ saved'.calls = {}
                  /\ saved'.derived = {} /\ saved'.ends = [s \in Sources |-> 0]
                BY <2>2 DEF NothingSaved
            <3>2. saved.there \in BOOLEAN
                BY DEF MInv, SavedInv
            <3>3. [s \in Sources |-> 0] \in [Sources -> Nat]
                OBVIOUS
            <3>4. Backed(saved)' /\ Covers(saved, saved.derived)'
                BY <3>1, <3>3 DEF Backed, Covers
            <3>5. QED
                BY <1>2, <3>1, <3>2, <3>4 DEF SavedInv
        <2>3. QED
            BY <1>1, <2>1, <2>2
    <1>7. PassInv'
        <2>1. pass.step = "idle"
            BY <1>1 DEF IInv, Alone
        <2>2. QED
            BY <1>1, <2>1 DEF MInv, PassInv
    <1>8. MarkInv'
        BY <1>1, <1>2 DEF MInv, MarkInv
    <1>9. QED
        BY <1>4, <1>5, <1>6, <1>7, <1>8 DEF MInv

-----------------------------------------------------------------------------
(* The theorems of the derivation.                                           *)

LEMMA MetricsStep == IInv /\ MInv /\ [Next]_vars => MInv'
    <1> SUFFICES ASSUME IInv, MInv, [Next]_vars PROVE MInv'
        OBVIOUS
    <1>1. CASE UNCHANGED vars
        <2>1. UNCHANGED <<landed, receipt, saved, named, spool, marker, retire>> /\ UNCHANGED pass
            BY <1>1 DEF vars, retirement
        <2>2. \A g \in Files : \A v \in spool'[g].may : v = {} \/ v \in spool[g].may
            BY <2>1
        <2>3. QED
            BY <2>1, <2>2, MarkStays, Quietly, QuietKeeps
    <1>2. CASE Derive
        BY <1>2, PassOverMetrics, DeferMetrics, DeriveReceiptMetrics, PutMetrics, SaveMetrics
           DEF Derive, PassSteps
    <1>3. CASE Carry
        BY <1>3, CarryIsQuiet, QuietKeeps, WriteAgainMetrics, ForgetMetricsMetrics DEF Carry, CarryQuiet
    <1>4. CASE LandFile \/ (\E f \in Files : Wait(f) \/ Send(f)) \/ Answered \/ Unanswered \/ Reconfigure
               \/ BeginRetire \/ Stop \/ PowerLoss
        BY <1>4, LandQuiet, WaitQuiet, SendingQuiet, BeginRetireQuiet, StopQuiet, PowerLossQuiet, QuietKeeps
    <1>5. QED
        BY <1>1, <1>2, <1>3, <1>4, DeriveFilesMetrics, DeriveFailsMetrics DEF Next

LEMMA MetricsInvariant == Spec => []MInv
    BY RetireInvariant, MetricsInitially, MetricsStep, PTL DEF Spec

\* A point was ever put in the spool only as its receipt says.
LEMMA PointsOfReceipts ==
    ASSUME MInv, NEW p \in Points
    PROVE  \E f \in Files : Receipts(f) /\ p \in receipt[f].request
    <1>1. PICK f \in Files : \E request \in named[f] : p \in request
        BY DEF Points
    <1>2. QED
        BY <1>1 DEF MInv, NamedInv

\* Two points of two files count no call twice and lie apart; nor do two of one.
LEMMA TwoPoints ==
    ASSUME MInv, NEW f \in Files, NEW g \in Files, Receipts(f), Receipts(g),
           NEW p \in receipt[f].request, NEW q \in receipt[g].request, p # q
    PROVE  p.calls \cap q.calls = {} /\ (p.source = q.source => Apart(p, q))
    <1>1. Honest(f, receipt[f]) /\ Honest(g, receipt[g])
        BY DEF MInv, ReceiptsInv
    <1>2. CASE f = g
        BY <1>1, <1>2 DEF Honest
    <1>3. CASE f # g
        <2>1. p.calls \subseteq receipt[f].counted /\ q.calls \subseteq receipt[g].counted
            BY <1>1 DEF Honest
        <2>2. receipt[f].counted \cap receipt[g].counted = {}
            BY <1>3 DEF MInv, ReceiptsInv
        <2>3. ASSUME p.source = q.source
              PROVE  Apart(p, q)
            <3>1. Before(f, g) \/ Before(g, f)
                BY <1>1, <1>3, <2>3 DEF MInv, ReceiptsInv, Honest
            <3>2. /\ receipt[f].end \in Nat /\ p.end \in Nat /\ p.end <= receipt[f].end /\ p.start \in Nat
                  /\ receipt[g].end \in Nat /\ q.end \in Nat /\ q.end <= receipt[g].end /\ q.start \in Nat
                BY <1>1 DEF Honest
            <3>3. CASE Before(f, g)
                BY <3>2, <3>3 DEF Before, Apart
            <3>4. CASE Before(g, f)
                BY <3>2, <3>4 DEF Before, Apart
            <3>5. QED
                BY <3>1, <3>3, <3>4
        <2>4. QED
            BY <2>1, <2>2, <2>3
    <1>4. QED
        BY <1>2, <1>3

\* The windows of one series lie apart: whatever files wait for their grace,
\* whatever passes stop, and however many windows a minute's followers push on
\* (metrics.go:270-283, 586-618).
THEOREM WindowsStayApart == Spec => []WindowsApart
    <1>1. MInv => WindowsApart
        <2> SUFFICES ASSUME MInv, NEW p \in Points, NEW q \in Points, p # q, p.source = q.source
                     PROVE  Apart(p, q)
            BY DEF WindowsApart, Apart
        <2>1. PICK f \in Files : Receipts(f) /\ p \in receipt[f].request
            BY PointsOfReceipts
        <2>2. PICK g \in Files : Receipts(g) /\ q \in receipt[g].request
            BY PointsOfReceipts
        <2>3. QED
            BY <2>1, <2>2, TwoPoints
    <1>2. QED
        BY <1>1, MetricsInvariant, PTL

\* No call is in two points and none that a state counts is lost, wherever a
\* pass stopped and whatever landed before the next: the receipts of the files
\* no saved pass derived are committed before another is written, so they count
\* apart (receipt.go:37-41, 66-72).
THEOREM CountedOnceOnly == Spec => []CountedOnce
    <1>1. MInv => CountedOnce
        <2> SUFFICES ASSUME MInv PROVE CountedOnce
            OBVIOUS
        <2>1. \A f \in Files : \A a, b \in named[f] : a = b
            BY DEF MInv, NamedInv
        <2>2. ASSUME NEW p \in Points, NEW q \in Points, p.calls \cap q.calls # {}
              PROVE  p = q
            <3>1. PICK f \in Files : Receipts(f) /\ p \in receipt[f].request
                BY PointsOfReceipts
            <3>2. PICK g \in Files : Receipts(g) /\ q \in receipt[g].request
                BY PointsOfReceipts
            <3>3. QED
                BY <2>2, <3>1, <3>2, TwoPoints
        <2>3. ASSUME NEW c \in saved.calls, ~HasOld(c)
              PROVE  \E p \in Points \cup UNION {receipt[f].request : f \in Files \ saved.derived} :
                         c \in p.calls
            <3>1. PICK f \in Files : c \in receipt[f].counted
                BY DEF MInv, SavedInv, Backed
            <3>2. Receipts(f)
                BY <3>1, ReceiptEnds
            <3>3. PICK p \in receipt[f].request : c \in p.calls
                BY <2>3, <3>1, <3>2 DEF MInv, ReceiptsInv, Honest
            <3>4. CASE f \in saved.derived
                <4>1. receipt[f].request \in named[f]
                    BY <3>3, <3>4 DEF MInv, SavedInv, Backed
                <4>2. p \in Points
                    BY <3>3, <4>1 DEF Points
                <4>3. QED
                    BY <3>3, <4>2
            <3>5. CASE f \notin saved.derived
                BY <3>3, <3>5
            <3>6. QED
                BY <3>4, <3>5
        <2>4. QED
            BY <2>1, <2>2, <2>3 DEF CountedOnce, HasOld
    <1>2. QED
        BY <1>1, MetricsInvariant, PTL

\* No call all of which is older than the first pass looks back is exported, by
\* whichever pass derives its file: the look-back goes with the state until a
\* pass went through all files (metrics.go:240-249).
THEOREM LookbackIsKept == Spec => []LookbackKept
    <1>1. MInv => LookbackKept
        <2> SUFFICES ASSUME MInv, NEW p \in Points PROVE p.calls \cap OldCalls = {}
            BY DEF LookbackKept
        <2>1. PICK f \in Files : Receipts(f) /\ p \in receipt[f].request
            BY PointsOfReceipts
        <2>2. QED
            BY <2>1 DEF MInv, ReceiptsInv, Spares
    <1>2. QED
        BY <1>1, MetricsInvariant, PTL
=============================================================================
