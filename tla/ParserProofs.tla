---------------------------- MODULE ParserProofs ----------------------------
(***************************************************************************)
(* What holds of Parser for every number of parsers, every set of          *)
(* entities, every budget and every bound: the rounds are one chain, each  *)
(* binds the evidence through its watermark, and the saved head is one of  *)
(* them; a round that brings evidence leaves the conversation saying what  *)
(* is assembled from it, and so does a call that leaves nothing for later. *)
(* The first part, Inv, depends only on the window a round is given, and   *)
(* the second, WholeInv, on what its frames say.                           *)
(***************************************************************************)
EXTENDS Parser, SequenceTheorems, FiniteSetTheorems, WellFoundedInduction, TLAPS

(* What the chain is between two steps of a parser. *)

\* The variables the chain rests on are what they are declared to be.
Typed ==
    /\ files \in Seq(File)
    /\ \E R : rounds \in Seq(R)
    /\ \A i \in DOMAIN rounds : rounds[i].through \in Nat
    /\ pc \in [Parsers -> {"idle", "index", "assemble", "publish", "write", "state"}]
    /\ \E R, M : pass \in [Parsers -> [r : R, indexed : Nat, more : M]]

\* A parser inside a call holds the chain, so there is one at most.
LockHeld == \A p \in Parsers : pc[p] # "idle" => lock = p

\* The index a parser read covers files that have landed.
IndexBehind == \A p \in Parsers : pass[p].indexed <= Len(files)

\* The round r is the next one.
Follows(r) ==
    /\ r.round = Len(rounds) + 1
    /\ r.prev = Len(rounds)
    /\ r.from = Last.through + 1
    /\ r.through \in Nat
    /\ r.through \in Last.through .. Len(files)
    /\ r.input = Append(Last.input, r.from .. r.through)

\* A decided round follows the chain until it is written; then it is the last.
DecidedFollows == \A p \in Parsers : pc[p] \in {"publish", "write"} => Follows(pass[p].r)

WrittenIsLast ==
    \A p \in Parsers : pc[p] = "state" => rounds # <<>> /\ rounds[Len(rounds)] = pass[p].r

Inv == Typed /\ LockHeld /\ IndexBehind /\ DecidedFollows /\ WrittenIsLast
       /\ ChainLinked /\ InputBound /\ StateBehindChain

-----------------------------------------------------------------------------
(* The operators the actions are built from. *)

\* The last round's watermark and input are those the invariant speaks of.
LEMMA LastFacts ==
    ASSUME Inv
    PROVE  /\ Last.round = Len(rounds)
           /\ Last.through \in Nat
           /\ Last.through <= Len(files)
           /\ Last.input = [j \in 1 .. Len(rounds) |-> rounds[j].from .. rounds[j].through]
  <1>1. CASE rounds = <<>>
    <2>1. Last = NoRound /\ Len(files) \in Nat
      BY <1>1, LenProperties DEF Last, Inv, Typed
    <2> QED BY <1>1, <2>1 DEF NoRound
  <1>2. CASE rounds # <<>>
    <2>1. PICK R : rounds \in Seq(R)
      BY DEF Inv, Typed
    <2>2. Len(rounds) \in DOMAIN rounds
      BY <1>2, <2>1, LenProperties, EmptySeq
    <2> DEFINE n == Len(rounds)
               x == rounds[n]
    <2>3. Last = x
      BY <1>2 DEF Last
    <2>4. x.through \in Nat
      BY <2>2 DEF Inv, Typed
    <2>5. x.round = n /\ x.through <= Len(files)
      BY <2>2 DEF Inv, ChainLinked
    <2>6. x.input = [j \in 1 .. n |-> rounds[j].from .. rounds[j].through]
      BY <2>2 DEF Inv, InputBound
    <2> QED BY <2>3, <2>4, <2>5, <2>6
  <1> QED BY <1>1, <1>2

\* A round takes a window that begins where the chain ends, within the index.
LEMMA DraftWindow ==
    ASSUME NEW view, NEW b, NEW through \in Nat, NEW indexed \in Nat, NEW first,
           NEW x \in Drafts(view, b, through, indexed, first)
    PROVE  x.through \in through .. indexed
  <1>1. PICK t \in Windows(view, b, through, indexed) :
            \/ x = [through |-> t, frames |-> Diff(view, Assembly(b, t)),
                    more |-> More(t, indexed, Diff(view, Assembly(b, t)),
                                  Diff(view, Assembly(b, t)))]
            \/ \E f : x = [through |-> through, frames |-> f,
                    more |-> More(through, indexed, f, Diff(view, Assembly(b, through)))]
    BY DEF Drafts
  <1>2. t \in through .. indexed
    BY DEF Windows
  <1> QED BY <1>1, <1>2

-----------------------------------------------------------------------------
(* What each step leaves alone. *)

\* The part of the invariant that speaks of the chain and of what has landed.
Chain == /\ \E R : rounds \in Seq(R)
         /\ \A i \in DOMAIN rounds : rounds[i].through \in Nat
         /\ ChainLinked /\ InputBound

\* While nothing is published, the chain is what it was.
LEMMA ChainKept ==
    ASSUME Inv, rounds' = rounds, files' = files \/ \E f \in File : files' = Append(files, f)
    PROVE  Chain' /\ files' \in Seq(File) /\ Len(files') >= Len(files)
  <1>1. files' \in Seq(File) /\ Len(files') >= Len(files) /\ Len(files) \in Nat
        /\ Len(files') \in Nat
    <2>1. files \in Seq(File) /\ Len(files) \in Nat
      BY LenProperties DEF Inv, Typed
    <2>2. CASE files' = files
      BY <2>1, <2>2
    <2>3. ASSUME NEW f \in File, files' = Append(files, f)
          PROVE  files' \in Seq(File) /\ Len(files') = Len(files) + 1
      BY <2>1, <2>3, AppendProperties
    <2> QED BY <2>1, <2>2, <2>3
  <1>2. \A i \in DOMAIN rounds : rounds[i].from - 1 \in Int
    <2> TAKE i \in DOMAIN rounds
    <2>1. CASE i = 1
      BY <2>1 DEF Inv, ChainLinked
    <2>2. CASE i # 1
      <3>1. PICK R : rounds \in Seq(R)
        BY DEF Inv, Typed
      <3>2. i - 1 \in DOMAIN rounds
        BY <2>2, <3>1, LenProperties
      <3>3. rounds[i - 1].through \in Nat
        BY <3>2 DEF Inv, Typed
      <3> QED BY <2>2, <3>3 DEF Inv, ChainLinked
    <2> QED BY <2>1, <2>2
  <1>3. ChainLinked'
    BY <1>1, <1>2 DEF Inv, ChainLinked
  <1>4. InputBound'
    BY DEF Inv, InputBound
  <1> QED BY <1>1, <1>3, <1>4 DEF Inv, Typed, Chain

\* A round that follows the chain still does when a file lands.
LEMMA FollowsKept ==
    ASSUME Inv, NEW r, Follows(r), rounds' = rounds, Len(files') >= Len(files),
           Len(files') \in Nat
    PROVE  Follows(r)'
  <1>1. Last' = Last /\ Last.through \in Nat /\ Len(files) \in Nat
    BY LastFacts, LenProperties DEF Last, Inv, Typed
  <1> QED BY <1>1 DEF Follows

-----------------------------------------------------------------------------
(* One lemma for each step. *)

LEMMA InitInv == Init => Inv
  <1> SUFFICES ASSUME Init PROVE Inv
    OBVIOUS
  <1>1. files = <<>> /\ rounds = <<>> /\ pass = [p \in Parsers |-> NoPass]
        /\ pc = [p \in Parsers |-> "idle"] /\ headState.head = 0
    BY DEF Init
  <1>2. pass \in [Parsers -> [r : {NoRound}, indexed : Nat, more : {FALSE}]]
    BY <1>1 DEF NoPass
  <1>3. rounds \in Seq({}) /\ files \in Seq(File) /\ DOMAIN rounds = {} /\ Len(files) = 0
    BY <1>1, EmptySeq
  <1>4. Typed
    BY <1>1, <1>2, <1>3 DEF Typed
  <1>5. IndexBehind
    BY <1>1, <1>3 DEF IndexBehind, NoPass
  <1> QED BY <1>1, <1>3, <1>4, <1>5 DEF Inv, LockHeld, DecidedFollows, WrittenIsLast,
                                    ChainLinked, InputBound, StateBehindChain

LEMMA CollectStep ==
    ASSUME Inv, Collect
    PROVE  Inv'
  <1>1. rounds' = rounds /\ pc' = pc /\ pass' = pass /\ lock' = lock /\ headState' = headState
        /\ \E f \in File : files' = Append(files, f)
    BY DEF Collect
  <1>2. Chain' /\ files' \in Seq(File) /\ Len(files') >= Len(files)
    BY <1>1, ChainKept
  <1>3. Len(files) \in Nat /\ Len(files') \in Nat
    BY <1>2, LenProperties DEF Inv, Typed
  <1>4. Typed'
    BY <1>1, <1>2 DEF Inv, Typed, Chain
  <1>5. IndexBehind'
    <2>1. \A p \in Parsers : pass[p].indexed \in Nat
      BY DEF Inv, Typed
    <2> QED BY <1>1, <1>2, <1>3, <2>1 DEF Inv, IndexBehind
  <1>6. DecidedFollows'
    <2> SUFFICES ASSUME NEW p \in Parsers, pc[p] \in {"publish", "write"}
                 PROVE  Follows(pass[p].r)'
      BY <1>1 DEF DecidedFollows
    <2>1. Follows(pass[p].r)
      BY DEF Inv, DecidedFollows
    <2> DEFINE r == pass[p].r
    <2>2. r' = r
      BY <1>1
    <2> HIDE DEF r
    <2>3. \A x : Follows(x) => Follows(x)'
      BY <1>1, <1>2, <1>3, FollowsKept
    <2> QED BY <2>1, <2>2, <2>3 DEF r
  <1> QED BY <1>1, <1>2, <1>4, <1>5, <1>6 DEF Inv, LockHeld, WrittenIsLast, Chain, StateBehindChain
\* A step that leaves the files, the rounds and the head, and what each parser
\* holds, and brings no parser to where it relies on more, keeps the invariant.
LEMMA QuietStep ==
    ASSUME Inv, files' = files, rounds' = rounds, headState' = headState,
           Typed', LockHeld', IndexBehind',
           \A p \in Parsers :
               /\ pc'[p] \in {"publish", "write"} =>
                        Follows(pass'[p].r)
               /\ pc'[p] = "state" => pc[p] = "state" /\ pass'[p] = pass[p]
    PROVE  Inv'
  <1>1. Chain'
    BY ChainKept
  <1>2. DecidedFollows'
    BY DEF DecidedFollows, Follows, Last
  <1>3. WrittenIsLast'
    BY DEF Inv, WrittenIsLast
  <1>4. StateBehindChain'
    BY DEF Inv, StateBehindChain
  <1> QED BY <1>1, <1>2, <1>3, <1>4 DEF Inv, Chain

LEMMA UpgradeStep ==
    ASSUME Inv, Upgrade
    PROVE  Inv'
  <1>1. UNCHANGED <<files, rounds, headState, lock, pc, pass>>
    BY DEF Upgrade
  <1>2. Typed' /\ LockHeld' /\ IndexBehind'
    BY <1>1 DEF Inv, Typed, LockHeld, IndexBehind
  <1> QED BY <1>1, <1>2, QuietStep DEF Inv, DecidedFollows

LEMMA BeginStep ==
    ASSUME Inv, NEW p \in Parsers, Begin(p)
    PROVE  Inv'
  <1>1. /\ UNCHANGED <<files, rounds, headState, pass>>
        /\ pc' = [pc EXCEPT ![p] = "index"]
        /\ lock = NoProc /\ lock' = p
    BY DEF Begin, LockChain
  <1>2. \A q \in Parsers : pc[q] = "idle"
    BY <1>1, ParserAssumption DEF Inv, LockHeld
  <1>3. \A q \in Parsers : pc'[q] = IF q = p THEN "index" ELSE "idle"
    BY <1>1, <1>2 DEF Inv, Typed
  <1>4. Typed' /\ LockHeld' /\ IndexBehind'
    BY <1>1, <1>3 DEF Inv, Typed, LockHeld, IndexBehind
  <1> QED BY <1>1, <1>3, <1>4, QuietStep

LEMMA CaughtUpStep ==
    ASSUME Inv, NEW p \in Parsers, CaughtUp(p)
    PROVE  Inv'
  <1>1. /\ UNCHANGED <<files, rounds, headState, lock>>
        /\ pc[p] = "index" /\ pc' = [pc EXCEPT ![p] = "assemble"]
        /\ pass' = [pass EXCEPT ![p].indexed = Len(files)]
    BY DEF CaughtUp
  <1>2. Len(files) \in Nat
    BY LenProperties DEF Inv, Typed
  <1>3. \A q \in Parsers : pc'[q] = IF q = p THEN "assemble" ELSE pc[q]
    BY <1>1 DEF Inv, Typed
  <1>4. PICK R, M : pass \in [Parsers -> [r : R, indexed : Nat, more : M]]
    BY DEF Inv, Typed
  <1>5. pass' \in [Parsers -> [r : R, indexed : Nat, more : M]]
    BY <1>1, <1>2, <1>4
  <1>6. /\ \A q \in Parsers : q # p => pass'[q] = pass[q]
        /\ pass'[p].indexed = Len(files)
    BY <1>1, <1>4
  <1>7. Typed'
    BY <1>1, <1>5 DEF Inv, Typed
  <1>8. LockHeld' /\ IndexBehind'
    BY <1>1, <1>2, <1>3, <1>6 DEF Inv, LockHeld, IndexBehind
  <1> QED BY <1>1, <1>3, <1>6, <1>7, <1>8, QuietStep DEF Inv, DecidedFollows

\* A call that ends forgets its round.
LEMMA LetGo ==
    ASSUME Inv, NEW p \in Parsers,
           pc' = [pc EXCEPT ![p] = "idle"], pass' = [pass EXCEPT ![p] = NoPass],
           rounds' = rounds /\ files' = files
    PROVE  Typed' /\ IndexBehind'
  <1>1. PICK R, M : pass \in [Parsers -> [r : R, indexed : Nat, more : M]]
    BY DEF Inv, Typed
  <1>2. NoPass \in [r : R \cup {NoRound}, indexed : Nat, more : M \cup {FALSE}]
    BY DEF NoPass
  <1>3. /\ pass' \in [Parsers -> [r : R \cup {NoRound}, indexed : Nat, more : M \cup {FALSE}]]
        /\ \A q \in Parsers : pass'[q] = IF q = p THEN NoPass ELSE pass[q]
    BY <1>1, <1>2
  <1>4. Typed'
    BY <1>3 DEF Inv, Typed
  <1>5. IndexBehind'
    <2>1. Len(files) \in Nat
      BY LenProperties DEF Inv, Typed
    <2> QED BY <1>3, <2>1 DEF Inv, IndexBehind, NoPass
  <1> QED BY <1>4, <1>5

LEMMA AssembleStep ==
    ASSUME Inv, NEW p \in Parsers, Assemble(p)
    PROVE  Inv'
  <1>1. UNCHANGED <<files, rounds, headState>> /\ pc[p] = "assemble"
    BY DEF Assemble
  <1>2. lock = p /\ \A q \in Parsers : q # p => pc[q] = "idle"
    BY <1>1 DEF Inv, LockHeld
  <1>3. CASE /\ pc' = [pc EXCEPT ![p] = "idle"] /\ lock' = NoProc
             /\ pass' = [pass EXCEPT ![p] = NoPass]
    <2>1. \A q \in Parsers : pc'[q] = "idle"
      BY <1>2, <1>3 DEF Inv, Typed
    <2>2. Typed' /\ IndexBehind'
      BY <1>1, <1>3, LetGo
    <2>3. LockHeld'
      BY <2>1 DEF LockHeld
    <2> QED BY <1>1, <2>1, <2>2, <2>3, QuietStep
  <1>4. ASSUME NEW x \in Drafts(View, build, Last.through, pass[p].indexed, rounds = <<>>),
               pc' = [pc EXCEPT ![p] = "publish"], lock' = lock,
               pass' = [pass EXCEPT ![p].more = x.more, ![p].r =
                      [round |-> Last.round + 1, prev |-> Len(rounds),
                       from |-> Last.through + 1, through |-> x.through,
                       input |-> Append(PreviousInput, Last.through + 1 .. x.through),
                       frames |-> x.frames]]
        PROVE  Inv'
    <2> DEFINE y == [round |-> Last.round + 1, prev |-> Len(rounds),
                     from |-> Last.through + 1, through |-> x.through,
                     input |-> Append(PreviousInput, Last.through + 1 .. x.through),
                     frames |-> x.frames]
    <2>1. PICK R, M : pass \in [Parsers -> [r : R, indexed : Nat, more : M]]
      BY DEF Inv, Typed
    <2>2. /\ pass' \in [Parsers -> [r : R \cup {y}, indexed : Nat, more : M \cup {x.more}]]
          /\ pass'[p].r = y /\ pass'[p].indexed = pass[p].indexed
          /\ \A q \in Parsers : q # p => pass'[q] = pass[q]
      <3> HIDE DEF y
      <3>1. pass' = [pass EXCEPT ![p].more = x.more, ![p].r = y]
        BY <1>4 DEF y
      <3> QED BY <2>1, <3>1
    <2>3. \A q \in Parsers : pc'[q] = IF q = p THEN "publish" ELSE "idle"
      BY <1>2, <1>4 DEF Inv, Typed
    <2>4. Follows(y)
      <3>1. /\ Last.round = Len(rounds) /\ Last.through \in Nat
            /\ Last.through <= Len(files)
        BY LastFacts
      <3>2. pass[p].indexed \in Nat /\ pass[p].indexed <= Len(files) /\ Len(files) \in Nat
        BY <2>1, LenProperties DEF Inv, Typed, IndexBehind
      <3>3. x.through \in Last.through .. pass[p].indexed
        BY <1>4, <3>1, <3>2, DraftWindow
      <3>4. x.through \in Nat /\ x.through \in Last.through .. Len(files)
        BY <3>1, <3>2, <3>3
      <3> QED BY <3>1, <3>4 DEF Follows, PreviousInput
    <2>5. Typed'
      BY <1>1, <1>4, <2>2 DEF Inv, Typed
    <2>6. LockHeld' /\ IndexBehind'
      BY <1>1, <1>2, <1>4, <2>2, <2>3 DEF Inv, LockHeld, IndexBehind
    <2> HIDE DEF y
    <2> QED BY <1>1, <2>2, <2>3, <2>4, <2>5, <2>6, QuietStep
  <1> QED BY <1>3, <1>4 DEF Assemble

LEMMA CheckHeadStep ==
    ASSUME Inv, NEW p \in Parsers, CheckHead(p)
    PROVE  Inv'
  <1>1. /\ UNCHANGED <<files, rounds, headState, pass>> /\ pc[p] = "publish"
        /\ \/ pc' = [pc EXCEPT ![p] = "write"] /\ lock' = lock
           \/ pc' = [pc EXCEPT ![p] = "idle"] /\ lock' = NoProc
    BY DEF CheckHead
  <1>2. lock = p /\ \A q \in Parsers : q # p => pc[q] = "idle"
    BY <1>1 DEF Inv, LockHeld
  <1>3. Follows(pass[p].r)
    BY <1>1 DEF Inv, DecidedFollows
  <1>4. /\ \A q \in Parsers : q # p => pc'[q] = "idle"
        /\ (pc'[p] = "write" /\ lock' = p) \/ pc'[p] = "idle"
    BY <1>1, <1>2 DEF Inv, Typed
  <1>5. Typed' /\ LockHeld' /\ IndexBehind'
    BY <1>1, <1>4 DEF Inv, Typed, LockHeld, IndexBehind
  <1> QED BY <1>1, <1>3, <1>4, <1>5, QuietStep

\* The round that follows makes the chain one longer, and is its last.
LEMMA ChainGrows ==
    ASSUME Inv, NEW r, Follows(r), rounds' = Append(rounds, r), files' = files,
           headState' = headState
    PROVE  /\ Chain' /\ StateBehindChain'
           /\ rounds' # <<>> /\ rounds'[Len(rounds')] = r
  <1> DEFINE n == Len(rounds)
  <1>1. PICK R : rounds \in Seq(R)
    BY DEF Inv, Typed
  <1>2. rounds \in Seq(R \cup {r}) /\ n \in Nat /\ DOMAIN rounds = 1 .. n
    BY <1>1, LenProperties
  <1>3. /\ rounds' \in Seq(R \cup {r}) /\ rounds' # <<>>
        /\ Len(rounds') = n + 1 /\ DOMAIN rounds' = 1 .. n + 1
        /\ rounds'[n + 1] = r
        /\ \A i \in 1 .. n : rounds'[i] = rounds[i]
    BY <1>2, AppendProperties, LenProperties
  <1>4. /\ r.round = n + 1 /\ r.prev = n /\ r.from = Last.through + 1
        /\ r.through \in Nat /\ r.through \in Last.through .. Len(files)
        /\ r.input = Append(Last.input, r.from .. r.through)
    BY DEF Follows
  <1>5. Last.through = IF n = 0 THEN 0 ELSE rounds[n].through
    <2>1. (rounds = <<>>) <=> (n = 0)
      BY <1>2, EmptySeq
    <2> QED BY <2>1 DEF Last, NoRound
  <1>6. Last.through \in Nat
    BY LastFacts
  <1>7. /\ \A i \in 1 .. n : rounds[i].through \in Nat
        /\ \A i \in 1 .. n :
              rounds[i].input = [j \in 1 .. i |-> rounds[j].from .. rounds[j].through]
        /\ \A i \in 1 .. n :
              /\ rounds[i].round = i
              /\ rounds[i].prev = i - 1
              /\ rounds[i].from = (IF i = 1 THEN 1 ELSE rounds[i - 1].through + 1)
              /\ rounds[i].through \in rounds[i].from - 1 .. Len(files)
    BY <1>2 DEF Inv, Typed, InputBound, ChainLinked
  <1> HIDE DEF n
  <1>8. \A i \in 1 .. n + 1 : i = n + 1 \/ i \in 1 .. n
    BY <1>2
  <1>9. \A i \in DOMAIN rounds' : rounds'[i].through \in Nat
    BY <1>3, <1>4, <1>7, <1>8
  <1>10. InputBound'
    <2> DEFINE w == [j \in 1 .. n |-> rounds[j].from .. rounds[j].through]
               W(i) == [j \in 1 .. i |-> rounds'[j].from .. rounds'[j].through]
    <2>1. \A i \in 1 .. n : rounds'[i].input = W(i)
      BY <1>2, <1>3, <1>7
    <2>2. Last.input = w
      BY LastFacts DEF n
    <2>3. w \in Seq({rounds[j].from .. rounds[j].through : j \in 1 .. n}) /\ Len(w) = n
      BY <1>2, IsASeq
    <2> DEFINE v == Append(w, r.from .. r.through)
    <2>4. /\ v = [j \in 1 .. n + 1 |-> IF j = n + 1 THEN r.from .. r.through ELSE w[j]]
      <3> HIDE DEF w
      <3> QED BY <1>2, <2>3
    <2>5. v = W(n + 1)
      BY <1>2, <1>3, <2>4
    <2>6. rounds'[n + 1].input = W(n + 1)
      BY <1>3, <1>4, <2>2, <2>5
    <2> QED BY <1>3, <1>8, <2>1, <2>6 DEF InputBound
  <1>11. ChainLinked'
    <2> SUFFICES ASSUME NEW i \in 1 .. n + 1
                 PROVE  /\ rounds'[i].round = i
                        /\ rounds'[i].prev = i - 1
                        /\ rounds'[i].from = (IF i = 1 THEN 1 ELSE rounds'[i - 1].through + 1)
                        /\ rounds'[i].through \in rounds'[i].from - 1 .. Len(files)
      BY <1>3 DEF ChainLinked
    <2>1. CASE i \in 1 .. n
      <3>1. rounds'[i] = rounds[i] /\ (i # 1 => i - 1 \in 1 .. n)
        BY <1>2, <1>3, <2>1
      <3>2. i # 1 => rounds'[i - 1] = rounds[i - 1]
        BY <1>3, <3>1
      <3> QED BY <1>7, <2>1, <3>1, <3>2
    <2>2. CASE i = n + 1
      <3>1. rounds'[i] = r
        BY <1>3, <2>2
      <3>2. r.from = IF i = 1 THEN 1 ELSE rounds'[i - 1].through + 1
        <4>1. CASE n = 0
          BY <1>4, <1>5, <2>2, <4>1
        <4>2. CASE n # 0
          <5>1. n \in 1 .. n /\ i - 1 = n /\ i # 1
            BY <1>2, <2>2, <4>2
          <5>2. rounds'[i - 1] = rounds[n]
            BY <1>3, <5>1
          <5> QED BY <1>4, <1>5, <4>2, <5>1, <5>2
        <4> QED BY <4>1, <4>2
      <3>3. r.from - 1 = Last.through
        BY <1>4, <1>6
      <3>4. i - 1 = n
        BY <1>2, <2>2
      <3> QED BY <1>4, <2>2, <3>1, <3>2, <3>3, <3>4
    <2> QED BY <1>8, <2>1, <2>2
  <1>12. StateBehindChain'
    <2> SUFFICES ASSUME headState.head > 0
                 PROVE  \E i \in DOMAIN rounds' :
                            /\ rounds'[i].round = headState.head
                            /\ rounds'[i].through = headState.through
                            /\ rounds'[i].input = headState.input
      BY DEF StateBehindChain
    <2>1. PICK i \in DOMAIN rounds :
              /\ rounds[i].round = headState.head
              /\ rounds[i].through = headState.through
              /\ rounds[i].input = headState.input
      BY DEF Inv, StateBehindChain
    <2>2. i \in DOMAIN rounds' /\ rounds'[i] = rounds[i]
      BY <1>2, <1>3, <2>1
    <2> QED BY <2>1, <2>2
  <1> QED BY <1>3, <1>9, <1>10, <1>11, <1>12 DEF Chain

LEMMA WriteRoundStep ==
    ASSUME Inv, NEW p \in Parsers, WriteRound(p)
    PROVE  Inv'
  <1>1. /\ UNCHANGED <<files, headState, lock, pass>> /\ pc[p] = "write"
        /\ rounds' = Append(rounds, pass[p].r) /\ pc' = [pc EXCEPT ![p] = "state"]
    BY DEF WriteRound
  <1>2. lock = p /\ \A q \in Parsers : q # p => pc[q] = "idle"
    BY <1>1 DEF Inv, LockHeld
  <1>3. \A q \in Parsers : pc'[q] = IF q = p THEN "state" ELSE "idle"
    BY <1>1, <1>2 DEF Inv, Typed
  <1>4. Follows(pass[p].r)
    BY <1>1 DEF Inv, DecidedFollows
  <1>5. Chain' /\ StateBehindChain' /\ rounds' # <<>> /\ rounds'[Len(rounds')] = pass[p].r
    BY <1>1, <1>4, ChainGrows
  <1>6. Typed'
    BY <1>1, <1>5 DEF Inv, Typed, Chain
  <1>7. LockHeld' /\ IndexBehind' /\ DecidedFollows' /\ WrittenIsLast'
    BY <1>1, <1>2, <1>3, <1>5 DEF Inv, LockHeld, IndexBehind, DecidedFollows, WrittenIsLast
  <1> QED BY <1>5, <1>6, <1>7 DEF Inv, Chain

LEMMA SaveStateStep ==
    ASSUME Inv, NEW p \in Parsers, SaveState(p)
    PROVE  Inv'
  <1>1. /\ UNCHANGED <<files, rounds>> /\ pc[p] = "state" /\ lock' = NoProc
        /\ headState' = SavedHead(p) /\ pc' = [pc EXCEPT ![p] = "idle"]
        /\ pass' = [pass EXCEPT ![p] = NoPass]
    BY DEF SaveState
  <1>2. \A q \in Parsers : pc'[q] = "idle"
    BY <1>1 DEF Inv, LockHeld, Typed
  <1>3. Chain' /\ Typed' /\ IndexBehind'
    <2>1. Chain'
      BY <1>1, ChainKept
    <2> QED BY <1>1, <2>1, LetGo
  <1>4. StateBehindChain'
    <2>1. rounds # <<>> /\ rounds[Len(rounds)] = pass[p].r
      BY <1>1 DEF Inv, WrittenIsLast
    <2>2. Len(rounds) \in DOMAIN rounds
      <3>1. PICK R : rounds \in Seq(R)
        BY DEF Inv, Typed
      <3> QED BY <2>1, <3>1, LenProperties, EmptySeq
    <2> QED BY <1>1, <2>1, <2>2 DEF StateBehindChain, SavedHead
  <1>5. LockHeld' /\ DecidedFollows' /\ WrittenIsLast'
    BY <1>2 DEF LockHeld, DecidedFollows, WrittenIsLast
  <1> QED BY <1>3, <1>4, <1>5 DEF Inv, Chain

LEMMA CrashStep ==
    ASSUME Inv, NEW p \in Parsers, Crash(p)
    PROVE  Inv'
  <1>1. /\ UNCHANGED <<files, rounds, headState>> /\ pc[p] # "idle"
        /\ pc' = [pc EXCEPT ![p] = "idle"] /\ pass' = [pass EXCEPT ![p] = NoPass]
    BY DEF Crash
  <1>2. \A q \in Parsers : pc'[q] = "idle"
    BY <1>1 DEF Inv, LockHeld, Typed
  <1>6. Typed' /\ IndexBehind'
    BY <1>1, LetGo
  <1>8. LockHeld'
    BY <1>2 DEF LockHeld
  <1> QED BY <1>1, <1>2, <1>6, <1>8, QuietStep

-----------------------------------------------------------------------------

LEMMA InvStep == Inv /\ [Next]_vars => Inv'
  <1> SUFFICES ASSUME Inv, [Next]_vars PROVE Inv'
    OBVIOUS
  <1>1. CASE Collect
    BY <1>1, CollectStep
  <1>2. CASE UNCHANGED vars
    <2>1. UNCHANGED <<files, rounds, headState, lock, pc, pass>>
      BY <1>2 DEF vars
    <2>2. Typed' /\ LockHeld' /\ IndexBehind'
      BY <2>1 DEF Inv, Typed, LockHeld, IndexBehind
    <2> QED BY <2>1, <2>2, QuietStep DEF Inv, DecidedFollows
  <1>3. ASSUME NEW p \in Parsers, Step(p) \/ Crash(p) PROVE Inv'
    BY <1>3, BeginStep, CaughtUpStep, AssembleStep, CheckHeadStep,
       WriteRoundStep, SaveStateStep, CrashStep DEF Step
  <1>4. CASE Upgrade
    BY <1>4, UpgradeStep
  <1> QED BY <1>1, <1>2, <1>3, <1>4 DEF Next

\* The invariant holds in every reachable state: what parse.Session relies on
\* between two of its steps, under the lock of the chain.
THEOREM Invariance == Spec => []Inv
  BY InitInv, InvStep, PTL DEF Spec

\* However many processes parse a session, and wherever they stop, its rounds
\* are one unbroken chain (chain.go Lock, Publish, Verify).
THEOREM NeverForks == Spec => []ChainLinked
  <1>1. Inv => ChainLinked
    BY DEF Inv
  <1> QED BY <1>1, Invariance, PTL

\* A round's input digest binds every file through its watermark, each once
\* (parse.go inputDigestFor).
THEOREM BindsEvidence == Spec => []InputBound
  <1>1. Inv => InputBound
    BY DEF Inv
  <1> QED BY <1>1, Invariance, PTL

\* The saved head never names a round that is not on disk (parse.go Session:
\* the state is saved after the round).
THEOREM HeadExists == Spec => []StateBehindChain
  <1>1. Inv => StateBehindChain
    BY DEF Inv
  <1> QED BY <1>1, Invariance, PTL

(***************************************************************************)
(* What the conversation says.  The fold is a recursive function, and what *)
(* it comes to can be said without recursion, as the assembly is said of   *)
(* the files: of each entity, what the last round that mentions it says.   *)
(***************************************************************************)

Views == UNION {[E -> Entry] : E \in SUBSET Entities}

\* A set of naturals that is not empty has a least member.
LEMMA LeastOne ==
    ASSUME NEW T, T \subseteq Nat, T # {}
    PROVE  \E x \in T : \A y \in T : x <= y
  <1>1. PICK x \in T : \A y \in T : ~(<<y, x>> \in OpToRel(<, Nat))
    BY NatLessThanWellFounded, WFMin, Zenon
  <1>2. \A y \in T : ~(y < x)
    BY <1>1 DEF OpToRel
  <1> QED BY <1>2

\* The last of the places 1 .. q that is in S, or 0.
IsLastOf(S, q, i) == (i > 0 => i \in S) /\ \A j \in i + 1 .. q : j \notin S

LastOf(S, q) == CHOOSE i \in 0 .. q : IsLastOf(S, q, i)

LEMMA LastOfFacts ==
    ASSUME NEW S, NEW q \in Nat
    PROVE  /\ LastOf(S, q) \in 0 .. q /\ IsLastOf(S, q, LastOf(S, q))
           /\ \A i \in 0 .. q : IsLastOf(S, q, i) => i = LastOf(S, q)
  <1>1. \E i \in 0 .. q : IsLastOf(S, q, i)
    <2> DEFINE T == {k \in Nat : \A j \in k + 1 .. q : j \notin S}
    <2>1. q \in T
      OBVIOUS
    <2>2. PICK i \in T : \A k \in T : i <= k
      <3> HIDE DEF T
      <3>1. T \subseteq Nat
        BY DEF T
      <3> QED BY <2>1, <3>1, LeastOne
    <2>3. i \in 0 .. q
      BY <2>1, <2>2
    <2>4. i > 0 => i \in S
      <3> SUFFICES ASSUME i > 0, i \notin S PROVE FALSE
        OBVIOUS
      <3>1. i - 1 \in Nat /\ \A j \in (i - 1) + 1 .. q : j = i \/ j \in i + 1 .. q
        BY <2>2
      <3>2. i - 1 \in T
        BY <2>2, <3>1
      <3> QED BY <2>2, <3>2
    <2> QED BY <2>2, <2>3, <2>4 DEF IsLastOf
  <1>2. \A i, k \in 0 .. q : IsLastOf(S, q, i) /\ IsLastOf(S, q, k) => i = k
    BY DEF IsLastOf
  <1>3. LastOf(S, q) \in 0 .. q /\ IsLastOf(S, q, LastOf(S, q))
    BY <1>1 DEF LastOf
  <1> QED BY <1>2, <1>3

\* One place more: it is the last, or the last is where it was.
LEMMA LastOfNext ==
    ASSUME NEW S, NEW n \in Nat, n # 0
    PROVE  LastOf(S, n) = IF n \in S THEN n ELSE LastOf(S, n - 1)
  <1> DEFINE k == LastOf(S, n - 1)
  <1>1. n - 1 \in Nat /\ k \in 0 .. n - 1 /\ IsLastOf(S, n - 1, k)
    BY LastOfFacts
  <1> HIDE DEF k
  <1>2. CASE n \in S
    <2>1. n \in 0 .. n /\ IsLastOf(S, n, n)
      BY <1>2 DEF IsLastOf
    <2> QED BY <1>2, <2>1, LastOfFacts
  <1>3. CASE n \notin S
    <2>1. k \in 0 .. n /\ IsLastOf(S, n, k)
      BY <1>1, <1>3 DEF IsLastOf
    <2> QED BY <1>3, <2>1, LastOfFacts DEF k
  <1> QED BY <1>2, <1>3

\* The last place depends only on which of 1 .. q are in the set.
LEMMA LastOfSame ==
    ASSUME NEW S, NEW T, NEW q \in Nat, \A i \in 1 .. q : i \in S <=> i \in T
    PROVE  LastOf(S, q) = LastOf(T, q)
  <1>1. \A i \in 0 .. q : IsLastOf(S, q, i) => IsLastOf(T, q, i)
    BY DEF IsLastOf
  <1> QED BY <1>1, LastOfFacts

\* The rounds of rs that mention an entity, and what they come to.
Mentions(rs, e) == {i \in Nat : e \in DOMAIN rs[i].frames}

Final(rs, n, e) == rs[LastOf(Mentions(rs, e), n)].frames[e]

Mentioned(rs, n) == UNION {DOMAIN rs[i].frames : i \in 1 .. n}

Folded(rs, n) ==
    [e \in {e \in Mentioned(rs, n) : Final(rs, n, e) # Tombstone} |-> Final(rs, n, e)]

FoldOf(rs) == CHOOSE f : f = [n \in Nat |->
                IF n = 0 THEN <<>> ELSE Apply(f[n - 1], rs[n].frames)]

\* One round more is applied to what the rounds before it came to.
LEMMA FoldedNext ==
    ASSUME NEW rs, NEW n \in Nat, n # 0
    PROVE  Folded(rs, n) = Apply(Folded(rs, n - 1), rs[n].frames)
  <1> DEFINE F == rs[n].frames
             V == Folded(rs, n - 1)
             D == {e \in Mentioned(rs, n) : Final(rs, n, e) # Tombstone}
             U == (DOMAIN V \cup DOMAIN F) \ {e \in DOMAIN F : F[e] = Tombstone}
  <1>1. \A e : Final(rs, n, e) = IF e \in DOMAIN F THEN F[e] ELSE Final(rs, n - 1, e)
    <2> TAKE e
    <2>1. n \in Mentions(rs, e) <=> e \in DOMAIN F
      BY DEF Mentions
    <2>2. LastOf(Mentions(rs, e), n) = IF e \in DOMAIN F THEN n ELSE LastOf(Mentions(rs, e), n - 1)
      BY <2>1, LastOfNext
    <2> QED BY <2>2 DEF Final
  <1>2. Mentioned(rs, n) = Mentioned(rs, n - 1) \cup DOMAIN F
    <2>1. \A i : i \in 1 .. n <=> i \in 1 .. n - 1 \/ i = n
      OBVIOUS
    <2> QED BY <2>1 DEF Mentioned
  <1>3. /\ DOMAIN V = {e \in Mentioned(rs, n - 1) : Final(rs, n - 1, e) # Tombstone}
        /\ \A e \in DOMAIN V : V[e] = Final(rs, n - 1, e)
    BY DEF Folded
  <1>4. Folded(rs, n) = [e \in D |-> Final(rs, n, e)]
    BY DEF Folded
  <1>5. Apply(V, F) = [e \in U |-> IF e \in DOMAIN F THEN F[e] ELSE V[e]]
    BY DEF Apply
  <1> HIDE DEF F, V
  <1>6. D = U
    BY <1>1, <1>2, <1>3
  <1>7. \A e \in U : Final(rs, n, e) = IF e \in DOMAIN F THEN F[e] ELSE V[e]
    BY <1>1, <1>3
  <1> HIDE DEF D, U
  <1>8. Folded(rs, n) = Apply(V, F)
    BY <1>4, <1>5, <1>6, <1>7
  <1> QED BY <1>8 DEF V, F

\* The fold is what each entity's last mention says.
LEMMA FoldIs ==
    ASSUME NEW rs, NEW m \in Nat
    PROVE  FoldOf(rs)[m] = Folded(rs, m)
  <1> DEFINE g == [n \in Nat |-> Folded(rs, n)]
             f == FoldOf(rs)
  <1>1. Folded(rs, 0) = <<>>
    <2>1. Mentioned(rs, 0) = {}
      BY DEF Mentioned
    <2>2. DOMAIN Folded(rs, 0) = {} /\ Folded(rs, 0) = [e \in {} |-> Final(rs, 0, e)]
      BY <2>1 DEF Folded
    <2> QED BY <2>2
  <1>2. g = [n \in Nat |-> IF n = 0 THEN <<>> ELSE Apply(g[n - 1], rs[n].frames)]
    <2>1. \A n \in Nat : Folded(rs, n) = IF n = 0 THEN <<>> ELSE Apply(g[n - 1], rs[n].frames)
      <3> TAKE n \in Nat
      <3>1. n # 0 => g[n - 1] = Folded(rs, n - 1)
        OBVIOUS
      <3> QED BY <1>1, <3>1, FoldedNext
    <2> QED BY <2>1
  <1>3. f = [n \in Nat |-> IF n = 0 THEN <<>> ELSE Apply(f[n - 1], rs[n].frames)]
    <2> HIDE DEF g
    <2> QED BY <1>2 DEF FoldOf
  <1>4. \A n \in Nat : f[n] = IF n = 0 THEN <<>> ELSE Apply(f[n - 1], rs[n].frames)
    <2> HIDE DEF f
    <2> QED BY <1>3
  <1> DEFINE T == {n \in Nat : f[n] # Folded(rs, n)}
  <1> HIDE DEF f
  <1>5. T = {}
    <2> SUFFICES ASSUME T # {} PROVE FALSE
      OBVIOUS
    <2>1. PICK n \in T : \A k \in T : n <= k
      <3>1. T \subseteq Nat
        OBVIOUS
      <3> HIDE DEF T
      <3> QED BY <3>1, LeastOne
    <2>2. n # 0
      BY <1>1, <1>4, <2>1
    <2>3. n - 1 \in Nat /\ n - 1 \notin T
      BY <2>1, <2>2
    <2>4. f[n - 1] = Folded(rs, n - 1)
      BY <2>3
    <2>5. f[n] = Folded(rs, n)
      BY <1>4, <2>1, <2>2, <2>4, FoldedNext
    <2> QED BY <2>1, <2>5
  <1> QED BY <1>5 DEF f

\* The assembly of the files fs, in the words of Parser.
SaidAt(fs, e, q) ==
    CHOOSE i \in 0 .. q :
        /\ i > 0 => e \in DOMAIN fs[i]
        /\ \A j \in i + 1 .. q : e \notin DOMAIN fs[j]

AssemblyOf(fs, b, q) ==
    [e \in {e \in Entities : SaidAt(fs, e, q) > 0 /\ fs[SaidAt(fs, e, q)][e] # Dropped} |->
        [build |-> b, value |-> fs[SaidAt(fs, e, q)][e], open |-> TRUE]]

LEMMA SaidAtIs ==
    ASSUME NEW fs, NEW e, NEW q \in Nat
    PROVE  SaidAt(fs, e, q) = LastOf({i \in Nat : e \in DOMAIN fs[i]}, q)
  <1> DEFINE S == {i \in Nat : e \in DOMAIN fs[i]}
             k == SaidAt(fs, e, q)
             Q(i) == /\ i > 0 => e \in DOMAIN fs[i]
                     /\ \A j \in i + 1 .. q : e \notin DOMAIN fs[j]
  <1>1. \A i \in 0 .. q : IsLastOf(S, q, i) <=> Q(i)
    BY DEF IsLastOf
  <1>2. \E i \in 0 .. q : Q(i)
    BY <1>1, LastOfFacts
  <1>3. k \in 0 .. q /\ Q(k)
    BY <1>2 DEF SaidAt
  <1> HIDE DEF S, k
  <1>4. k = LastOf(S, q)
    BY <1>1, <1>3, LastOfFacts
  <1> QED BY <1>4 DEF S, k

\* The assembly through a file is the same when one more lands.
LEMMA AssemblyKept ==
    ASSUME NEW fs \in Seq(File), NEW f \in File, NEW b, NEW q \in Nat, q <= Len(fs)
    PROVE  AssemblyOf(Append(fs, f), b, q) = AssemblyOf(fs, b, q)
  <1> DEFINE gs == Append(fs, f)
  <1>1. \A i \in 1 .. q : gs[i] = fs[i]
    BY AppendProperties, LenProperties
  <1> HIDE DEF gs
  <1>2. \A e : SaidAt(gs, e, q) = SaidAt(fs, e, q) /\ SaidAt(fs, e, q) \in 0 .. q
    <2> TAKE e
    <2> DEFINE S == {i \in Nat : e \in DOMAIN fs[i]}
               T == {i \in Nat : e \in DOMAIN gs[i]}
    <2>1. \A i \in 1 .. q : i \in T <=> i \in S
      BY <1>1
    <2>2. SaidAt(gs, e, q) = LastOf(T, q) /\ SaidAt(fs, e, q) = LastOf(S, q)
      BY SaidAtIs
    <2> HIDE DEF S, T
    <2> QED BY <2>1, <2>2, LastOfSame, LastOfFacts
  <1>3. \A e : SaidAt(gs, e, q) > 0 => gs[SaidAt(gs, e, q)] = fs[SaidAt(fs, e, q)]
    BY <1>1, <1>2
  <1>4. AssemblyOf(gs, b, q) = AssemblyOf(fs, b, q)
    <2> DEFINE D(hs) == {e \in Entities : SaidAt(hs, e, q) > 0 /\ hs[SaidAt(hs, e, q)][e] # Dropped}
    <2>1. D(gs) = D(fs)
      BY <1>2, <1>3
    <2>2. \A e \in D(fs) : gs[SaidAt(gs, e, q)] = fs[SaidAt(fs, e, q)]
      BY <1>2, <1>3
    <2>3. \A hs : AssemblyOf(hs, b, q) =
              [e \in D(hs) |-> [build |-> b, value |-> hs[SaidAt(hs, e, q)][e], open |-> TRUE]]
      BY DEF AssemblyOf
    <2> HIDE DEF D
    <2> QED BY <2>1, <2>2, <2>3
  <1> QED BY <1>4 DEF gs

LEMMA AssemblyType ==
    ASSUME NEW fs \in Seq(File), NEW b \in 1 .. MaxBuild, NEW q \in Nat, q <= Len(fs)
    PROVE  AssemblyOf(fs, b, q) \in Views
  <1> DEFINE D == {e \in Entities : SaidAt(fs, e, q) > 0 /\ fs[SaidAt(fs, e, q)][e] # Dropped}
  <1>1. ASSUME NEW e \in D
        PROVE  [build |-> b, value |-> fs[SaidAt(fs, e, q)][e], open |-> TRUE] \in Entry
    <2> DEFINE S == {i \in Nat : e \in DOMAIN fs[i]}
               k == SaidAt(fs, e, q)
    <2>1. k \in 0 .. q /\ k > 0 /\ k \in S
      <3>1. k = LastOf(S, q) /\ k > 0
        BY SaidAtIs
      <3> HIDE DEF S, k
      <3> QED BY <3>1, LastOfFacts DEF IsLastOf
    <2>2. fs[k] \in File
      BY <2>1, LenProperties
    <2>3. fs[k][e] \in Said
      BY <2>1, <2>2 DEF File
    <2>4. fs[k][e] \in Values
      BY <2>3 DEF Said
    <2> QED BY <2>4 DEF Entry
  <1>2. AssemblyOf(fs, b, q) =
          [e \in D |-> [build |-> b, value |-> fs[SaidAt(fs, e, q)][e], open |-> TRUE]]
    BY DEF AssemblyOf
  <1>3. D \subseteq Entities
    OBVIOUS
  <1> HIDE DEF D
  <1>4. AssemblyOf(fs, b, q) \in [D -> Entry]
    BY <1>1, <1>2
  <1> QED BY <1>3, <1>4 DEF Views

\* What the fold comes to is typed when each frame is.
LEMMA FoldedType ==
    ASSUME NEW rs, NEW n \in Nat, \A i \in 1 .. n : rs[i].frames \in Deltas
    PROVE  Folded(rs, n) \in Views
  <1> DEFINE D == {e \in Mentioned(rs, n) : Final(rs, n, e) # Tombstone}
  <1>1. \A i \in 1 .. n : DOMAIN rs[i].frames \subseteq Entities
                          /\ \A e \in DOMAIN rs[i].frames : rs[i].frames[e] \in Entry \cup {Tombstone}
    BY DEF Deltas
  <1>2. D \subseteq Entities
    BY <1>1 DEF Mentioned
  <1>3. ASSUME NEW e \in D PROVE Final(rs, n, e) \in Entry
    <2> DEFINE k == LastOf(Mentions(rs, e), n)
    <2>1. PICK i \in 1 .. n : i \in Mentions(rs, e)
      BY DEF Mentioned, Mentions
    <2>2. k \in 0 .. n /\ IsLastOf(Mentions(rs, e), n, k)
      BY LastOfFacts
    <2> HIDE DEF k
    <2>3. k \in 1 .. n /\ k \in Mentions(rs, e)
      BY <2>1, <2>2 DEF IsLastOf
    <2>4. Final(rs, n, e) = rs[k].frames[e]
      BY DEF Final, k
    <2> QED BY <1>1, <2>3, <2>4 DEF Mentions
  <1>4. Folded(rs, n) = [e \in D |-> Final(rs, n, e)]
    BY DEF Folded
  <1> HIDE DEF D
  <1>5. Folded(rs, n) \in [D -> Entry]
    BY <1>3, <1>4
  <1> QED BY <1>2, <1>5 DEF Views

\* The fold through a round is the same when one more is published.
LEMMA FoldedSame ==
    ASSUME NEW rs, NEW ss, NEW n \in Nat, \A i \in 1 .. n : rs[i] = ss[i]
    PROVE  Folded(rs, n) = Folded(ss, n)
  <1>1. Mentioned(rs, n) = Mentioned(ss, n)
    BY DEF Mentioned
  <1>2. \A e \in Mentioned(rs, n) : Final(rs, n, e) = Final(ss, n, e)
    <2> TAKE e \in Mentioned(rs, n)
    <2>1. \A i \in 1 .. n : i \in Mentions(rs, e) <=> i \in Mentions(ss, e)
      BY DEF Mentions
    <2>2. LastOf(Mentions(rs, e), n) = LastOf(Mentions(ss, e), n)
      BY <2>1, LastOfSame
    <2>3. PICK i \in 1 .. n : i \in Mentions(rs, e)
      BY DEF Mentioned, Mentions
    <2>4. LastOf(Mentions(rs, e), n) \in 1 .. n
      BY <2>3, LastOfFacts DEF IsLastOf
    <2> QED BY <2>2, <2>4 DEF Final
  <1>3. {e \in Mentioned(rs, n) : Final(rs, n, e) # Tombstone} =
        {e \in Mentioned(ss, n) : Final(ss, n, e) # Tombstone}
    BY <1>1, <1>2
  <1> DEFINE D(xs) == {e \in Mentioned(xs, n) : Final(xs, n, e) # Tombstone}
  <1>4. \A xs : Folded(xs, n) = [e \in D(xs) |-> Final(xs, n, e)]
    BY DEF Folded
  <1>5. D(rs) = D(ss) /\ \A e \in D(rs) : Final(rs, n, e) = Final(ss, n, e)
    BY <1>2, <1>3
  <1> HIDE DEF D
  <1> QED BY <1>4, <1>5

\* What differs, applied, says what is assembled; and is a delta.
LEMMA DiffWhole ==
    ASSUME NEW V \in Views, NEW A \in Views
    PROVE  /\ Diff(V, A) \in Deltas
           /\ Says(Apply(V, Diff(V, A)), A)
           /\ Diff(V, A) = <<>> => Says(V, A)
  <1> DEFINE changed == {e \in DOMAIN A : e \notin DOMAIN V \/ V[e] # A[e]}
             removed == (DOMAIN V \cap Nodes) \ DOMAIN A
             closed == {g \in (DOMAIN V \cap Gaps) \ DOMAIN A : V[g].open}
             C == changed \cup removed \cup closed
             d == Diff(V, A)
             W == Apply(V, d)
             dead == {e \in DOMAIN d : d[e] = Tombstone}
  <1>1. /\ DOMAIN V \subseteq Entities /\ \A e \in DOMAIN V : V[e] \in Entry
        /\ DOMAIN A \subseteq Entities /\ \A e \in DOMAIN A : A[e] \in Entry
    BY DEF Views
  <1>2. \A x \in Entry : /\ [x EXCEPT !.open = FALSE] \in Entry
                         /\ [x EXCEPT !.open = FALSE].open = FALSE
    BY DEF Entry
  <1>3. d = [e \in C |-> IF e \in changed THEN A[e]
                         ELSE IF e \in removed THEN Tombstone
                         ELSE [V[e] EXCEPT !.open = FALSE]]
    BY DEF Diff
  <1>4. W = [e \in (DOMAIN V \cup DOMAIN d) \ dead |->
                IF e \in DOMAIN d THEN d[e] ELSE V[e]]
    BY DEF Apply
  <1> HIDE DEF d, W
  <1>5. C \subseteq Entities /\ closed \subseteq DOMAIN V /\ changed \subseteq DOMAIN A
    BY <1>1
  <1>6. DOMAIN d = C
    BY <1>3
  <1>7. \A e \in C : /\ e \in changed => d[e] = A[e]
                     /\ e \notin changed /\ e \in removed => d[e] = Tombstone
                     /\ e \notin changed /\ e \notin removed => d[e] = [V[e] EXCEPT !.open = FALSE]
    BY <1>3
  <1>8. \A e \in C : d[e] \in Entry \cup {Tombstone}
    BY <1>1, <1>2, <1>5, <1>7
  <1>9. d \in Deltas
    <2> HIDE DEF C
    <2>1. d = [e \in C |-> d[e]]
      BY <1>3
    <2> QED BY <1>5, <1>8, <2>1 DEF Deltas
  <1>10. dead = removed
    <2>1. \A e \in removed : e \notin changed /\ d[e] = Tombstone
      BY <1>7
    <2>2. \A e \in changed : d[e] \in Entry
      BY <1>1, <1>7
    <2>3. \A e \in closed : e \in DOMAIN V /\ e \notin changed /\ (e \notin removed => d[e] \in Entry)
      BY <1>1, <1>2, <1>7
    <2> QED BY <1>6, <2>1, <2>2, <2>3, ParserAssumption
  <1>11. DOMAIN W = (DOMAIN V \cup C) \ removed
    BY <1>4, <1>6, <1>10
  <1>12. \A e \in DOMAIN W : W[e] = IF e \in C THEN d[e] ELSE V[e]
    BY <1>4, <1>6
  <1>13. DOMAIN A \subseteq DOMAIN W /\ \A e \in DOMAIN A : W[e] = A[e]
    <2> SUFFICES ASSUME NEW e \in DOMAIN A PROVE e \in DOMAIN W /\ W[e] = A[e]
      OBVIOUS
    <2>1. e \notin removed /\ e \notin closed
      OBVIOUS
    <2>2. CASE e \in changed
      BY <1>7, <1>11, <1>12, <2>1, <2>2
    <2>3. CASE e \notin changed
      <3>1. e \in DOMAIN V /\ V[e] = A[e] /\ e \notin C
        BY <2>1, <2>3
      <3> QED BY <1>11, <1>12, <2>1, <3>1
    <2> QED BY <2>2, <2>3
  <1>14. \A e \in DOMAIN W \ DOMAIN A : e \in Gaps /\ ~W[e].open
    <2> SUFFICES ASSUME NEW e \in DOMAIN W \ DOMAIN A PROVE e \in Gaps /\ ~W[e].open
      OBVIOUS
    <2>1. e \in DOMAIN V /\ e \notin Nodes /\ e \in Gaps /\ e \notin changed /\ e \notin removed
      BY <1>1, <1>5, <1>11 DEF Entities
    <2>2. CASE e \in closed
      <3>1. W[e] = [V[e] EXCEPT !.open = FALSE]
        BY <1>7, <1>12, <2>1, <2>2
      <3>2. W[e].open = FALSE
        BY <1>1, <1>2, <2>1, <3>1
      <3> QED BY <2>1, <3>2, Zenon
    <2>3. CASE e \notin closed
      <3>1. ~V[e].open /\ e \notin C
        BY <2>1, <2>3
      <3> QED BY <1>12, <2>1, <3>1
    <2> QED BY <2>1, <2>2, <2>3
  <1>15. Says(W, A)
    BY <1>13, <1>14 DEF Says
  <1>16. ASSUME d = <<>> PROVE Says(V, A)
    <2>1. C = {}
      BY <1>6, <1>16
    <2>2. DOMAIN A \subseteq DOMAIN V /\ \A e \in DOMAIN A : V[e] = A[e]
      BY <2>1
    <2>3. \A e \in DOMAIN V \ DOMAIN A : e \in Gaps /\ ~V[e].open
      BY <1>1, <2>1 DEF Entities
    <2> QED BY <2>2, <2>3 DEF Says
  <1> QED BY <1>9, <1>15, <1>16 DEF d, W

\* A part of a delta is a delta, and is the whole of it when it has as many
\* frames.
LEMMA FittingPart ==
    ASSUME NEW d \in Deltas, NEW f \in Fitting(d)
    PROVE  f \in Deltas /\ (~(Frames(f) < Frames(d)) => f = d)
  <1>1. PICK E \in SUBSET DOMAIN d : f = [e \in E |-> d[e]]
    BY DEF Fitting
  <1>2. PICK D \in SUBSET Entities : d \in [D -> Entry \cup {Tombstone}]
    BY DEF Deltas
  <1>3. DOMAIN d = D /\ d = [e \in D |-> d[e]] /\ DOMAIN f = E
    BY <1>1, <1>2
  <1>4. f \in [E -> Entry \cup {Tombstone}] /\ E \in SUBSET Entities
    BY <1>1, <1>2, <1>3
  <1>5. f \in Deltas
    BY <1>4 DEF Deltas
  <1>6. IsFiniteSet(D) /\ IsFiniteSet(E)
    <2>1. IsFiniteSet(Entities)
      BY ParserAssumption, FS_Union DEF Entities
    <2> QED BY <1>4, <2>1, FS_Subset
  <1>7. Cardinality(D) \in Nat /\ Cardinality(E) \in Nat
    BY <1>6, FS_CardinalityType
  <1>8. ASSUME ~(Frames(f) < Frames(d)) PROVE f = d
    <2>1. Cardinality(E) <= Cardinality(D) /\ (Cardinality(D) = Cardinality(E) => D = E)
      BY <1>3, <1>6, FS_Subset
    <2>2. ~(Cardinality(E) < Cardinality(D))
      BY <1>3, <1>8 DEF Frames
    <2>3. D = E
      BY <1>7, <2>1, <2>2
    <2> QED BY <1>1, <1>3, <2>3
  <1> QED BY <1>5, <1>8

\* A round that brings evidence, or leaves nothing for later, is all that
\* differs at its watermark; one that leaves nothing is through the index.
LEMMA DraftWhole ==
    ASSUME NEW view \in Views, NEW b, NEW through \in Nat, NEW indexed \in Nat, NEW first,
           \A t \in through .. indexed : Assembly(b, t) \in Views,
           NEW x \in Drafts(view, b, through, indexed, first)
    PROVE  /\ x.frames \in Deltas
           /\ x.through > through \/ ~x.more => x.frames = Diff(view, Assembly(b, x.through))
           /\ ~x.more => x.through = indexed
  <1> DEFINE D(t) == Diff(view, Assembly(b, t))
  <1>1. PICK t \in Windows(view, b, through, indexed) :
            \/ x = [through |-> t, frames |-> D(t), more |-> More(t, indexed, D(t), D(t))]
            \/ \E f \in Fitting(D(through)) :
                  x = [through |-> through, frames |-> f, more |-> More(through, indexed, f, D(through))]
    BY DEF Drafts
  <1>2. t \in through .. indexed /\ through \in through .. indexed
    BY DEF Windows
  <1>3. D(t) \in Deltas /\ D(through) \in Deltas
    BY <1>2, DiffWhole
  <1> HIDE DEF D
  <1>4. CASE x = [through |-> t, frames |-> D(t), more |-> More(t, indexed, D(t), D(t))]
    <2>1. x.through = t /\ x.frames = D(t) /\ x.more = More(t, indexed, D(t), D(t))
      BY <1>4
    <2>2. ~More(t, indexed, D(t), D(t)) => t = indexed
      BY <1>2 DEF More
    <2> QED BY <1>3, <2>1, <2>2 DEF D
  <1>5. ASSUME NEW f \in Fitting(D(through)),
               x = [through |-> through, frames |-> f, more |-> More(through, indexed, f, D(through))]
        PROVE  /\ x.frames \in Deltas
               /\ x.through > through \/ ~x.more => x.frames = D(x.through)
               /\ ~x.more => x.through = indexed
    <2>1. x.through = through /\ x.frames = f /\ x.more = More(through, indexed, f, D(through))
      BY <1>5
    <2>2. f \in Deltas /\ (~(Frames(f) < Frames(D(through))) => f = D(through))
      BY <1>3, FittingPart
    <2>3. ~More(through, indexed, f, D(through)) =>
              through = indexed /\ ~(Frames(f) < Frames(D(through)))
      BY <1>2 DEF More
    <2>4. ~(through > through)
      OBVIOUS
    <2> QED BY <2>1, <2>2, <2>3, <2>4
  <1> QED BY <1>1, <1>4, <1>5 DEF D

-----------------------------------------------------------------------------
(* What a parser relies on of what the conversation says. *)

\* A round decided over the view V: all that differs from the assembly at its
\* watermark, when it brings evidence or leaves nothing for later.
WholeRound(r, more, indexed, V, b, fs) ==
    /\ r.frames \in Deltas
    /\ r.through >= r.from \/ ~more => r.frames = Diff(V, AssemblyOf(fs, b, r.through))
    /\ ~more => r.through = indexed

\* The same of a round that is published, V being the view that has it.
WholeView(r, more, indexed, V, b, fs) ==
    /\ r.through >= r.from \/ ~more => Says(V, AssemblyOf(fs, b, r.through))
    /\ ~more => r.through = indexed

Conversation == Folded(rounds, Len(rounds))

WholeInv ==
    /\ build \in 1 .. MaxBuild /\ faults \in Nat
    /\ \A i \in DOMAIN rounds : rounds[i].frames \in Deltas
    /\ \A p \in Parsers :
          /\ pc[p] \in {"publish", "write"} =>
                WholeRound(pass[p].r, pass[p].more, pass[p].indexed, Conversation, build, files)
          /\ pc[p] = "state" =>
                WholeView(pass[p].r, pass[p].more, pass[p].indexed, Conversation, build, files)

LEMMA ViewIs ==
    ASSUME Inv
    PROVE  /\ View = Conversation
           /\ \A b, q : Assembly(b, q) = AssemblyOf(files, b, q)
  <1>1. Len(rounds) \in Nat
    BY LenProperties DEF Inv, Typed
  <1>2. Fold = FoldOf(rounds)
    BY DEF Fold, FoldOf
  <1>3. View = Conversation
    BY <1>1, <1>2, FoldIs DEF View, Conversation
  <1>4. \A e, q : LastSaying(e, q) = SaidAt(files, e, q)
    BY DEF LastSaying, SaidAt
  <1>5. \A b, q : Assembly(b, q) = AssemblyOf(files, b, q)
    BY <1>4 DEF Assembly, Alive, AssemblyOf
  <1> QED BY <1>3, <1>5

LEMMA ConversationType ==
    ASSUME Inv, WholeInv
    PROVE  Conversation \in Views
  <1>1. Len(rounds) \in Nat /\ DOMAIN rounds = 1 .. Len(rounds)
    BY LenProperties DEF Inv, Typed
  <1> QED BY <1>1, FoldedType DEF Conversation, WholeInv

\* A step that leaves the chain, the files and the build, and brings no parser
\* to where it relies on more.
LEMMA WholeQuiet ==
    ASSUME WholeInv, UNCHANGED <<files, rounds, build>>, faults' \in Nat,
           \A p \in Parsers :
               /\ pc'[p] \in {"publish", "write"} => pc[p] \in {"publish", "write"} /\ pass'[p] = pass[p]
               /\ pc'[p] = "state" => pc[p] = "state" /\ pass'[p] = pass[p]
    PROVE  WholeInv'
  <1>1. Conversation' = Conversation
    BY DEF Conversation
  <1> QED BY <1>1 DEF WholeInv

LEMMA WholeCollect ==
    ASSUME Inv, WholeInv, Collect
    PROVE  WholeInv'
  <1>1. /\ UNCHANGED <<rounds, pc, pass, build, faults>>
        /\ files \in Seq(File)
    BY DEF Collect, Inv, Typed
  <1>2. PICK f \in File : files' = Append(files, f)
    BY DEF Collect
  <1>3. Conversation' = Conversation
    BY <1>1 DEF Conversation
  <1>4. \A q \in Nat : q <= Len(files) =>
            AssemblyOf(files', build, q) = AssemblyOf(files, build, q)
    BY <1>1, <1>2, AssemblyKept
  <1>5. \A p \in Parsers : pc[p] \in {"publish", "write", "state"} =>
            pass[p].r.through \in Nat /\ pass[p].r.through <= Len(files)
    <2> SUFFICES ASSUME NEW p \in Parsers, pc[p] \in {"publish", "write", "state"}
                 PROVE  pass[p].r.through \in Nat /\ pass[p].r.through <= Len(files)
      OBVIOUS
    <2>1. CASE pc[p] \in {"publish", "write"}
      BY <2>1 DEF Inv, DecidedFollows, Follows
    <2>2. CASE pc[p] = "state"
      <3>1. rounds # <<>> /\ rounds[Len(rounds)] = pass[p].r
        BY <2>2 DEF Inv, WrittenIsLast
      <3>2. Last = pass[p].r
        BY <3>1 DEF Last
      <3> QED BY <3>2, LastFacts
    <2> QED BY <2>1, <2>2
  <1>6. ASSUME NEW p \in Parsers, pc[p] \in {"publish", "write"}
        PROVE  WholeRound(pass[p].r, pass[p].more, pass[p].indexed, Conversation, build, files')
    <2>1. WholeRound(pass[p].r, pass[p].more, pass[p].indexed, Conversation, build, files)
      BY <1>6 DEF WholeInv
    <2> QED BY <1>4, <1>5, <1>6, <2>1 DEF WholeRound
  <1>7. ASSUME NEW p \in Parsers, pc[p] = "state"
        PROVE  WholeView(pass[p].r, pass[p].more, pass[p].indexed, Conversation, build, files')
    <2>1. WholeView(pass[p].r, pass[p].more, pass[p].indexed, Conversation, build, files)
      BY <1>7 DEF WholeInv
    <2> QED BY <1>4, <1>5, <1>7, <2>1 DEF WholeView
  <1> QED BY <1>1, <1>3, <1>6, <1>7 DEF WholeInv

LEMMA WholeAssemble ==
    ASSUME Inv, WholeInv, NEW p \in Parsers, Assemble(p)
    PROVE  WholeInv'
  <1>1. UNCHANGED <<files, rounds, build, faults>> /\ pc[p] = "assemble"
    BY DEF Assemble
  <1>2. \A q \in Parsers : q # p => pc[q] = "idle"
    BY <1>1 DEF Inv, LockHeld
  <1>3. CASE pc' = [pc EXCEPT ![p] = "idle"]
    <2>1. \A q \in Parsers : pc'[q] = "idle"
      BY <1>2, <1>3 DEF Inv, Typed
    <2> QED BY <1>1, <2>1, WholeQuiet DEF WholeInv
  <1>4. ASSUME NEW x \in Drafts(View, build, Last.through, pass[p].indexed, rounds = <<>>),
               pc' = [pc EXCEPT ![p] = "publish"],
               pass' = [pass EXCEPT ![p].more = x.more, ![p].r =
                      [round |-> Last.round + 1, prev |-> Len(rounds),
                       from |-> Last.through + 1, through |-> x.through,
                       input |-> Append(PreviousInput, Last.through + 1 .. x.through),
                       frames |-> x.frames]]
        PROVE  WholeInv'
    <2> DEFINE y == [round |-> Last.round + 1, prev |-> Len(rounds),
                     from |-> Last.through + 1, through |-> x.through,
                     input |-> Append(PreviousInput, Last.through + 1 .. x.through),
                     frames |-> x.frames]
    <2>1. PICK R, M : pass \in [Parsers -> [r : R, indexed : Nat, more : M]]
      BY DEF Inv, Typed
    <2>2. pass'[p].r = y /\ pass'[p].indexed = pass[p].indexed /\ pass'[p].more = x.more
      <3> HIDE DEF y
      <3>1. pass' = [pass EXCEPT ![p].more = x.more, ![p].r = y]
        BY <1>4 DEF y
      <3> QED BY <2>1, <3>1
    <2>3. \A q \in Parsers : pc'[q] = IF q = p THEN "publish" ELSE "idle"
      BY <1>2, <1>4 DEF Inv, Typed
    <2>4. Last.through \in Nat /\ pass[p].indexed \in Nat /\ pass[p].indexed <= Len(files)
          /\ files \in Seq(File) /\ Len(files) \in Nat
      BY <2>1, LastFacts, LenProperties DEF Inv, Typed, IndexBehind
    <2>5. View = Conversation /\ Conversation \in Views
          /\ \A b, q : Assembly(b, q) = AssemblyOf(files, b, q)
      BY ViewIs, ConversationType
    <2>6. \A t \in Last.through .. pass[p].indexed : Assembly(build, t) \in Views
      <3> TAKE t \in Last.through .. pass[p].indexed
      <3>1. t \in Nat /\ t <= Len(files)
        BY <2>4
      <3> QED BY <2>4, <2>5, <3>1, AssemblyType DEF WholeInv
    <2>7. /\ x.frames \in Deltas
          /\ x.through > Last.through \/ ~x.more =>
                x.frames = Diff(View, Assembly(build, x.through))
          /\ ~x.more => x.through = pass[p].indexed
          /\ x.through \in Last.through .. pass[p].indexed
      <3> DEFINE ix == pass[p].indexed
                 lt == Last.through
                 fi == (rounds = <<>>)
      <3>1. ix \in Nat /\ lt \in Nat /\ View \in Views /\ x \in Drafts(View, build, lt, ix, fi)
            /\ \A t \in lt .. ix : Assembly(build, t) \in Views
        BY <1>4, <2>4, <2>5, <2>6
      <3> HIDE DEF ix, lt, fi
      <3>2. /\ x.frames \in Deltas
            /\ x.through > lt \/ ~x.more => x.frames = Diff(View, Assembly(build, x.through))
            /\ ~x.more => x.through = ix
        BY <3>1, DraftWhole
      <3>3. x.through \in lt .. ix
        BY <3>1, DraftWindow
      <3> QED BY <3>2, <3>3 DEF ix, lt
    <2>8. y.from = Last.through + 1 /\ y.through = x.through /\ y.frames = x.frames
      OBVIOUS
    <2> HIDE DEF y
    <2>9. WholeRound(y, x.more, pass[p].indexed, Conversation, build, files)
      <3>1. y.through >= y.from => x.through > Last.through
        BY <2>4, <2>7, <2>8
      <3> QED BY <2>5, <2>7, <2>8, <3>1 DEF WholeRound
    <2>10. Conversation' = Conversation
      BY <1>1 DEF Conversation
    <2>11. WholeRound(pass'[p].r, pass'[p].more, pass'[p].indexed, Conversation, build, files)
      BY <2>2, <2>9
    <2> QED BY <1>1, <2>3, <2>10, <2>11 DEF WholeInv
  <1> QED BY <1>3, <1>4 DEF Assemble

LEMMA WholeWrite ==
    ASSUME Inv, WholeInv, NEW p \in Parsers, WriteRound(p)
    PROVE  WholeInv'
  <1> DEFINE n == Len(rounds)
             r == pass[p].r
  <1>1. /\ UNCHANGED <<files, pass, build, faults>> /\ pc[p] = "write"
        /\ rounds' = Append(rounds, r) /\ pc' = [pc EXCEPT ![p] = "state"]
    BY DEF WriteRound
  <1>2. \A q \in Parsers : pc'[q] = IF q = p THEN "state" ELSE "idle"
    BY <1>1 DEF Inv, LockHeld, Typed
  <1>3. PICK R : rounds \in Seq(R)
    BY DEF Inv, Typed
  <1>4. /\ n \in Nat /\ Len(rounds') = n + 1
        /\ DOMAIN rounds = 1 .. n /\ DOMAIN rounds' = 1 .. n + 1
        /\ rounds'[n + 1] = r /\ \A i \in 1 .. n : rounds'[i] = rounds[i]
    <2>1. rounds \in Seq(R \cup {r})
      BY <1>3
    <2> HIDE DEF r
    <2> QED BY <1>1, <2>1, AppendProperties, LenProperties
  <1>5. WholeRound(r, pass[p].more, pass[p].indexed, Conversation, build, files)
    BY <1>1 DEF WholeInv
  <1>6. \A i \in DOMAIN rounds' : rounds'[i].frames \in Deltas
    <2>1. \A i \in 1 .. n + 1 : i = n + 1 \/ i \in 1 .. n
      BY <1>4
    <2> QED BY <1>4, <1>5, <2>1 DEF WholeInv, WholeRound
  <1>7. Conversation' = Apply(Conversation, r.frames)
    <2> DEFINE rs == rounds'
    <2>1. Folded(rounds', n + 1) = Apply(Folded(rounds', n), rounds'[n + 1].frames)
      <3>1. n + 1 \in Nat /\ n + 1 # 0 /\ (n + 1) - 1 = n
        BY <1>4
      <3> HIDE DEF n
      <3> QED BY <3>1, FoldedNext
    <2>2. Folded(rounds', n) = Folded(rounds, n)
      BY <1>4, FoldedSame
    <2> QED BY <1>4, <2>1, <2>2 DEF Conversation
  <1>8. r.through \in Nat /\ r.through <= Len(files) /\ files \in Seq(File)
    BY <1>1 DEF Inv, DecidedFollows, Follows, Typed
  <1>9. WholeView(r, pass[p].more, pass[p].indexed, Conversation', build, files)
    <2>1. AssemblyOf(files, build, r.through) \in Views /\ Conversation \in Views
      BY <1>8, AssemblyType, ConversationType DEF WholeInv
    <2>2. Says(Apply(Conversation, Diff(Conversation, AssemblyOf(files, build, r.through))),
               AssemblyOf(files, build, r.through))
      BY <2>1, DiffWhole
    <2> HIDE DEF r
    <2> QED BY <1>5, <1>7, <2>2 DEF WholeRound, WholeView
  <1> QED BY <1>1, <1>2, <1>6, <1>9 DEF WholeInv

LEMMA WholeInit == Init => WholeInv
  <1> SUFFICES ASSUME Init PROVE WholeInv
    OBVIOUS
  <1>1. rounds = <<>> /\ pc = [p \in Parsers |-> "idle"] /\ build = 1 /\ faults = 0
    BY DEF Init
  <1>2. 1 \in 1 .. MaxBuild
    BY ParserAssumption
  <1> QED BY <1>1, <1>2 DEF WholeInv

LEMMA WholeStep == Inv /\ WholeInv /\ [Next]_vars => WholeInv'
  <1> SUFFICES ASSUME Inv, WholeInv, [Next]_vars PROVE WholeInv'
    OBVIOUS
  <1>1. CASE Collect
    BY <1>1, WholeCollect
  <1>2. CASE Upgrade
    <2>1. /\ UNCHANGED <<files, rounds, pc, pass, faults>>
          /\ lock = NoProc /\ build' = build + 1 /\ build < MaxBuild
      BY <1>2 DEF Upgrade
    <2>2. \A p \in Parsers : pc[p] = "idle"
      BY <2>1, ParserAssumption DEF Inv, LockHeld
    <2>3. build' \in 1 .. MaxBuild
      BY <2>1, ParserAssumption DEF WholeInv
    <2> QED BY <2>1, <2>2, <2>3 DEF WholeInv
  <1>3. CASE UNCHANGED vars
    BY <1>3, WholeQuiet DEF vars, WholeInv
  <1>4. ASSUME NEW p \in Parsers, Step(p) \/ Crash(p) PROVE WholeInv'
    <2>1. CASE Begin(p)
      <3>1. UNCHANGED <<files, rounds, pass, build, faults>> /\ pc' = [pc EXCEPT ![p] = "index"]
        BY <2>1 DEF Begin
      <3>2. \A q \in Parsers : pc'[q] = IF q = p THEN "index" ELSE pc[q]
        BY <3>1 DEF Inv, Typed
      <3> QED BY <3>1, <3>2, WholeQuiet DEF WholeInv
    <2>2. CASE CaughtUp(p)
      <3>1. /\ UNCHANGED <<files, rounds, build, faults>> /\ pc' = [pc EXCEPT ![p] = "assemble"]
            /\ pass' = [pass EXCEPT ![p].indexed = Len(files)]
        BY <2>2 DEF CaughtUp
      <3>2. \A q \in Parsers : /\ pc'[q] = IF q = p THEN "assemble" ELSE pc[q]
                               /\ q # p => pass'[q] = pass[q]
        BY <3>1 DEF Inv, Typed
      <3> QED BY <3>1, <3>2, WholeQuiet DEF WholeInv
    <2>3. CASE Assemble(p)
      BY <2>3, WholeAssemble
    <2>4. CASE CheckHead(p)
      <3>1. /\ UNCHANGED <<files, rounds, pass, build, faults>> /\ pc[p] = "publish"
            /\ pc' = [pc EXCEPT ![p] = "write"] \/ pc' = [pc EXCEPT ![p] = "idle"]
        BY <2>4 DEF CheckHead
      <3>2. /\ \A q \in Parsers : q # p => pc'[q] = pc[q]
            /\ pc'[p] \in {"write", "idle"}
        BY <3>1 DEF Inv, Typed
      <3> QED BY <3>1, <3>2, WholeQuiet DEF WholeInv
    <2>5. CASE WriteRound(p)
      BY <2>5, WholeWrite
    <2>6. CASE SaveState(p) \/ Crash(p)
      <3>1. /\ UNCHANGED <<files, rounds, build>> /\ faults' \in Nat
            /\ pc' = [pc EXCEPT ![p] = "idle"] /\ pass' = [pass EXCEPT ![p] = NoPass]
        BY <2>6 DEF SaveState, Crash, WholeInv
      <3>2. \A q \in Parsers : /\ pc'[q] = IF q = p THEN "idle" ELSE pc[q]
                               /\ q # p => pass'[q] = pass[q]
        BY <3>1 DEF Inv, Typed
      <3> QED BY <3>1, <3>2, WholeQuiet
    <2> QED BY <1>4, <2>1, <2>2, <2>3, <2>4, <2>5, <2>6 DEF Step
  <1> QED BY <1>1, <1>2, <1>3, <1>4 DEF Next

LEMMA WholeInvariance == Spec => []WholeInv
  BY WholeInit, WholeStep, Invariance, PTL DEF Spec

\* A round that brings evidence is written when its frames are all that the
\* fold and the assembly at its watermark differ in (parse.go Session, the cut
\* to the budget): whoever reads the conversation at it reads one body of
\* evidence, also when a file or an upgrade comes between two rounds.
THEOREM WholeEvidence == Spec => []EvidenceIsWhole
  <1>1. Inv /\ WholeInv => EvidenceIsWhole
    <2> SUFFICES ASSUME Inv, WholeInv, NEW p \in Parsers, pc[p] = "state",
                        pass[p].r.through >= pass[p].r.from
                 PROVE  Says(View, Assembly(build, pass[p].r.through))
      BY DEF EvidenceIsWhole
    <2>1. Says(Conversation, AssemblyOf(files, build, pass[p].r.through))
      BY DEF WholeInv, WholeView
    <2> QED BY <2>1, ViewIs
  <1> QED BY <1>1, Invariance, WholeInvariance, PTL

\* A call that ends with nothing left to publish (parse.go Session, More) leaves
\* a chain whose fold is the session's assembly through every file its index
\* covered, however the budget and earlier builds cut the rounds before it.
THEOREM WholeWhenDone == Spec => DoneMeansWhole
  <1> DEFINE Done(p) == Returns(p) /\ (pc[p] = "assemble" \/ ~pass[p].more)
                            => Says(View, Assembly(build, pass[p].indexed))
  <1>1. Inv /\ WholeInv /\ [Next]_vars => [\A p \in Parsers : Done(p)]_vars
    <2> SUFFICES ASSUME Inv, WholeInv, Next, NEW p \in Parsers,
                        Returns(p), pc[p] = "assemble" \/ ~pass[p].more
                 PROVE  Says(View, Assembly(build, pass[p].indexed))
      OBVIOUS
    <2>1. pc[p] \in {"assemble", "state"} /\ pc'[p] = "idle" /\ faults' = faults
      BY DEF Returns
    <2>2. lock = p /\ \A q \in Parsers : q # p => pc[q] = "idle"
      BY <2>1 DEF Inv, LockHeld
    <2>3. Assemble(p) \/ SaveState(p)
      <3>1. ~Collect /\ ~Upgrade
        BY <2>1 DEF Collect, Upgrade
      <3>2. ASSUME NEW q \in Parsers, Step(q) \/ Crash(q) PROVE q = p
        <4>1. CASE Begin(q)
          BY <2>2, <4>1, ParserAssumption DEF Begin, LockChain
        <4>2. CASE ~Begin(q)
          <5>1. pc[q] # "idle"
            BY <3>2, <4>2 DEF Step, CaughtUp, Assemble, CheckHead, WriteRound, SaveState, Crash
          <5> QED BY <2>2, <5>1
        <4> QED BY <4>1, <4>2
      <3>3. Step(p) \/ Crash(p)
        BY <3>1, <3>2 DEF Next
      <3>4. ~Crash(p)
        BY <2>1 DEF Crash, WholeInv
      <3>5. ~Begin(p) /\ ~CaughtUp(p) /\ ~CheckHead(p) /\ ~WriteRound(p)
        BY <2>1 DEF Begin, CaughtUp, CheckHead, WriteRound
      <3> QED BY <3>3, <3>4, <3>5 DEF Step
    <2>4. View = Conversation /\ Conversation \in Views
          /\ \A b, q : Assembly(b, q) = AssemblyOf(files, b, q)
      BY ViewIs, ConversationType
    <2>5. CASE Assemble(p)
      <3>1. Diff(View, Assembly(build, pass[p].indexed)) = <<>>
        <4>1. ASSUME pc' = [pc EXCEPT ![p] = "publish"] PROVE FALSE
          BY <2>1, <4>1 DEF Inv, Typed
        <4> QED BY <2>5, <4>1 DEF Assemble, NothingNew
      <3>2. Assembly(build, pass[p].indexed) \in Views
        <4>1. pass[p].indexed \in Nat /\ pass[p].indexed <= Len(files) /\ files \in Seq(File)
          BY DEF Inv, Typed, IndexBehind
        <4> QED BY <2>4, <4>1, AssemblyType DEF WholeInv
      <3> QED BY <2>4, <3>1, <3>2, DiffWhole
    <2>6. CASE SaveState(p)
      <3>1. pc[p] = "state" /\ ~pass[p].more
        BY <2>6 DEF SaveState
      <3>2. WholeView(pass[p].r, pass[p].more, pass[p].indexed, Conversation, build, files)
        BY <3>1 DEF WholeInv
      <3> QED BY <2>4, <3>1, <3>2 DEF WholeView
    <2> QED BY <2>3, <2>5, <2>6
  <1> QED BY <1>1, Invariance, WholeInvariance, PTL DEF Spec, DoneMeansWhole
=============================================================================
