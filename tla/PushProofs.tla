----------------------------- MODULE PushProofs -----------------------------
(* Theorems of Push, for any sessions, receivers, files, budget and faults. *)
EXTENDS Push, FiniteSetTheorems, TLAPS

\* The lists of a pass are what it has not sent yet, and what it sends.
Lists ==
    /\ pc = "idle" => left = {} /\ batch = {}
    /\ left \cap batch = {} /\ left \cap mem.files = {}
    /\ IF pc = "save" THEN batch \subseteq mem.files ELSE batch \cap mem.files = {}

\* A pass knows what is on the disk, and the owners exactly.
Books ==
    pc # "idle" => mem.owners = state.owners /\ state.files \subseteq mem.files

\* What was taken is in the root, and what counts as sent was taken.
Attributed ==
    /\ \A p \in taken : p[2] \in root
    /\ \A i \in state.files \cup mem.files : \E o \in Owners : <<o, i>> \in taken

\* Every owner a receiver saw is on the disk, and is the one a request goes under.
Owned ==
    /\ ~older => \A p \in taken : state.owners[p[2].session] = p[1]
    /\ \A i \in batch : Claim(i.session)
    /\ pc = "send" => \A i \in batch : mem.owners[i.session] = config

CloseReady == \A i \in batch : i.kind = "close" => Stages(i.session) \subseteq mem.files

\* What is neither rejected nor at an unknown receiver is at one of those named.
Somewhere(s) ==
    \A i \in s.files \ s.rejected :
        \/ Unknown \in s.endpoints
        \/ \E o \in Owners : Endpoint[o] \in s.endpoints /\ <<o, i>> \in kept

Held == Somewhere(mem) /\ Somewhere(LoadState(state))

\* A file that is not recorded as sent was taken for faults only.
Counted ==
    \A i \in Items :
        times[i] <= faults + (IF i \in state.files \/ (pc = "save" /\ i \in batch) THEN 1 ELSE 0)

-----------------------------------------------------------------------------
(* Types. *)

LEMMA MarkType ==
    ASSUME NEW s \in PushState, NEW sent \in SUBSET Items, NEW rejecting \in BOOLEAN, config \in Owners
    PROVE  Mark(s, sent, rejecting) \in PushState
    BY PushAssumption DEF Mark, PushState, Endpoints

LEMMA LoadType ==
    ASSUME NEW s \in PushState
    PROVE  LoadState(s) \in PushState
    BY DEF LoadState, PushState

LEMMA NothingType == NothingSent \in PushState
    BY DEF NothingSent, PushState

LEMMA ItemType ==
    ASSUME NEW i \in Items
    PROVE  i.session \in Sessions
    BY PushAssumption

LEMMA LoadFields ==
    ASSUME NEW s \in PushState
    PROVE  /\ LoadState(s).files = s.files
           /\ LoadState(s).owners = s.owners
           /\ LoadState(s).rejected = s.rejected
           /\ s.files # {} /\ s.endpoints = {} => LoadState(s).endpoints = {Unknown}
           /\ s.files = {} \/ s.endpoints # {} => LoadState(s).endpoints = s.endpoints
    BY DEF LoadState, PushState

LEMMA NothingFields ==
    /\ NothingSent.files = {} /\ NothingSent.rejected = {} /\ NothingSent.endpoints = {}
    /\ NothingSent.owners = [s \in Sessions |-> NoOwner]
    BY DEF NothingSent

\* Pin gives an owner to the sessions of the request that have none.
LEMMA PinFields ==
    ASSUME TypeOK, Pin
    PROVE  /\ mem'.files = mem.files /\ mem'.rejected = mem.rejected
           /\ mem'.endpoints = mem.endpoints
           /\ mem'.owners =
                [s \in Sessions |-> IF s \in Unpinned THEN config ELSE mem.owners[s]]
           /\ Unpinned = {} => mem'.owners = mem.owners
<1>1. /\ mem'.files = mem.files /\ mem'.rejected = mem.rejected
      /\ mem'.endpoints = mem.endpoints
      /\ mem'.owners = [s \in Sessions |-> IF s \in Unpinned THEN config ELSE mem.owners[s]]
    BY DEF Pin, TypeOK, PushState
<1>2. mem.owners \in [Sessions -> Owners \cup {NoOwner}]
    BY DEF TypeOK, PushState
<1> QED
    BY <1>1, <1>2

LEMMA Answer ==
    ASSUME TypeOK, Answered
    PROVE  \E rejects \in SUBSET batch :
             /\ Receive(rejects)
             /\ mem'.files = mem.files \cup batch
             /\ mem'.owners = mem.owners
             /\ mem'.endpoints = mem.endpoints \cup {Endpoint[config]}
             /\ mem'.rejected = IF rejects # {} THEN mem.rejected \cup batch ELSE mem.rejected
<1>1. PICK rejects \in SUBSET batch : Receive(rejects) /\ mem' = Mark(mem, batch, rejects # {})
    BY DEF Answered
<1>2. mem \in PushState
    BY DEF TypeOK
<1> QED
    BY <1>1, <1>2 DEF Mark, PushState

-----------------------------------------------------------------------------
(* Every step preserves each part of the invariant. *)

\* Every step keeps every type.
LEMMA TypeStep ==
    ASSUME TypeOK, [Next]_vars
    PROVE  TypeOK'
<1>1. CASE Start
  <2>1. LoadState(state) \in PushState
    BY LoadType DEF TypeOK
  <2> QED
    BY <1>1, <2>1 DEF Start, TypeOK, disk, receivers, bounds
<1>2. CASE Finish
    BY <1>2, NothingType DEF Finish, Forget, TypeOK, disk, receivers, bounds
<1>3. CASE Flush
    BY <1>3 DEF Flush, TypeOK, disk, receivers, bounds
<1>4. CASE Pin
  <2>1. mem' \in PushState
    BY <1>4 DEF Pin, TypeOK, PushState
  <2> QED
    BY <1>4, <2>1 DEF Pin, TypeOK, disk, receivers, bounds
<1>5. CASE Answered
  <2> PICK rejects \in SUBSET batch :
        /\ Receive(rejects)
        /\ mem' = Mark(mem, batch, rejects # {})
    BY <1>5 DEF Answered
  <2>1. mem' \in PushState
    BY MarkType DEF TypeOK
  <2>2. taken' \in SUBSET (Owners \X Items) /\ kept' \in SUBSET taken' /\ times' \in [Items -> Nat]
    BY DEF TypeOK, Receive
  <2> QED
    BY <1>5, <2>1, <2>2 DEF Answered, TypeOK, disk, bounds
<1>6. CASE Save
    BY <1>6 DEF Save, TypeOK, disk, receivers, bounds
<1>7. CASE ReadFails
    BY <1>7 DEF ReadFails, Fault, TypeOK, disk, receivers
<1>8. CASE PinFails
    BY <1>8 DEF PinFails, Fault, TypeOK, disk, receivers
<1>9. CASE Unanswered
  <2> PICK rejects \in SUBSET batch : Receive(rejects)
    BY <1>9 DEF Unanswered
  <2>1. taken' \in SUBSET (Owners \X Items) /\ kept' \in SUBSET taken' /\ times' \in [Items -> Nat]
    BY DEF TypeOK, Receive
  <2> QED
    BY <1>9, <2>1 DEF Unanswered, Fault, TypeOK, disk
<1>10. CASE Refused
    BY <1>10 DEF Refused, Fault, TypeOK, disk, receivers
<1>11. CASE Throttled
    BY <1>11 DEF Throttled, Fault, TypeOK, disk, receivers
<1>12. CASE SaveFails
    BY <1>12 DEF SaveFails, Fault, TypeOK, disk, receivers
<1>13. CASE Stop
  <2>1. mem' \in PushState /\ pc' = "idle" /\ left' = {} /\ batch' = {} /\ tried' = FALSE
    BY <1>13, NothingType DEF Stop, Forget
  <2>2. faults' \in Nat /\ UNCHANGED <<disk, state, config, receivers, older, reconfigs>>
    BY <1>13 DEF Stop, Fault, TypeOK
  <2> QED
    BY <2>1, <2>2 DEF TypeOK, disk, receivers
<1>14. CASE OlderSaves
  <2>1. state' \in PushState
    BY <1>14 DEF OlderSaves, NothingSent, TypeOK, PushState
  <2> QED
    BY <1>14, <2>1 DEF OlderSaves, Fault, TypeOK, disk, pass, receivers
<1>15. CASE UNCHANGED vars
    BY <1>15 DEF TypeOK, vars, disk, pass, receivers, bounds
<1>16. ASSUME NEW i \in Items, PassOver(i)
     PROVE  TypeOK'
    BY <1>16 DEF PassOver, Upcoming, TypeOK, disk, receivers, bounds
<1>17. ASSUME NEW i \in Items, Add(i)
     PROVE  TypeOK'
    BY <1>17 DEF Add, Upcoming, TypeOK, disk, receivers, bounds
<1>18. ASSUME NEW i \in Items, TakeRequest(i)
     PROVE  TypeOK'
    BY <1>18 DEF TakeRequest, Upcoming, TypeOK, disk, receivers, bounds
<1>19. ASSUME NEW i \in Items, Write(i)
     PROVE  TypeOK'
  <2>1. 1 + Cardinality({s \in Sessions : born[s] > 0}) \in Nat
    BY PushAssumption, FS_Subset, FS_CardinalityType
  <2>2. born' \in [Sessions -> Nat]
    BY <1>19, <2>1 DEF Write, TypeOK
  <2> QED
    BY <1>19, <2>2 DEF Write, TypeOK, pass, receivers, bounds
<1>20. ASSUME NEW s \in Sessions, Retire(s)
     PROVE  TypeOK'
    BY <1>20 DEF Retire, TypeOK, pass, receivers, bounds
<1>21. ASSUME NEW o \in Owners, Reconfigure(o)
     PROVE  TypeOK'
    BY <1>21 DEF Reconfigure, TypeOK, disk, pass, receivers
<1> QED
    BY <1>1, <1>2, <1>3, <1>4, <1>5, <1>6, <1>7, <1>8, <1>9, <1>10, <1>11, <1>12, <1>13,
       <1>14, <1>15, <1>16, <1>17, <1>18, <1>19, <1>20, <1>21
    DEF Next, PassStep, FaultStep

\* A file is in one list at a time, and leaves them once it is recorded.
LEMMA ListsStep ==
    ASSUME TypeOK, Lists, [Next]_vars
    PROVE  Lists'
<1>1. CASE Start
    BY <1>1, LoadFields DEF Start, Lists, TypeOK
<1>2. CASE Finish
    BY <1>2, NothingFields DEF Finish, Forget, Lists
<1>3. CASE Flush
    BY <1>3 DEF Flush, Lists
<1>4. CASE Pin
    BY <1>4, PinFields DEF Pin, Lists
<1>5. CASE Answered
    BY <1>5, Answer DEF Answered, Lists
<1>6. CASE Save
    BY <1>6 DEF Save, Lists
<1>7. CASE ReadFails
    BY <1>7 DEF ReadFails, Lists
<1>8. CASE PinFails
    BY <1>8 DEF PinFails, Lists
<1>9. CASE Unanswered
    BY <1>9 DEF Unanswered, Lists
<1>10. CASE Refused
    BY <1>10 DEF Refused, Lists
<1>11. CASE Throttled
    BY <1>11 DEF Throttled, Lists
<1>12. CASE SaveFails
    BY <1>12 DEF SaveFails, Lists
<1>13. CASE Stop
    BY <1>13, NothingFields DEF Stop, Forget, Lists
<1>14. CASE OlderSaves
    BY <1>14 DEF OlderSaves, Lists, pass
<1>15. CASE UNCHANGED vars
    BY <1>15 DEF Lists, vars, pass
<1>16. ASSUME NEW i \in Items, PassOver(i)
     PROVE  Lists'
    BY <1>16 DEF PassOver, Lists
<1>17. ASSUME NEW i \in Items, Add(i)
     PROVE  Lists'
    BY <1>17 DEF Add, Upcoming, Lists
<1>18. ASSUME NEW i \in Items, TakeRequest(i)
     PROVE  Lists'
    BY <1>18 DEF TakeRequest, Upcoming, Lists
<1>19. ASSUME NEW i \in Items, Write(i)
     PROVE  Lists'
    BY <1>19 DEF Write, Lists, pass
<1>20. ASSUME NEW s \in Sessions, Retire(s)
     PROVE  Lists'
    BY <1>20 DEF Retire, Lists, pass
<1>21. ASSUME NEW o \in Owners, Reconfigure(o)
     PROVE  Lists'
    BY <1>21 DEF Reconfigure, Lists, pass
<1> QED
    BY <1>1, <1>2, <1>3, <1>4, <1>5, <1>6, <1>7, <1>8, <1>9, <1>10, <1>11, <1>12, <1>13,
       <1>14, <1>15, <1>16, <1>17, <1>18, <1>19, <1>20, <1>21
    DEF Next, PassStep, FaultStep

\* Only a pass writes push.state while it runs, and never behind what it knows.
LEMMA BooksStep ==
    ASSUME TypeOK, Lists, Books, [Next]_vars
    PROVE  Books'
<1>1. CASE Start
    BY <1>1, LoadFields DEF Start, Books, TypeOK
<1>2. CASE Finish
    BY <1>2 DEF Finish, Forget, Books
<1>3. CASE Flush
    BY <1>3 DEF Flush, Books
<1>4. CASE Pin
  <2>1. CASE Unpinned = {}
    BY <1>4, <2>1, PinFields DEF Pin, Books
  <2>2. CASE Unpinned # {}
    BY <1>4, <2>2, PinFields DEF Pin, Books
  <2> QED
    BY <2>1, <2>2
<1>5. CASE Answered
    BY <1>5, Answer DEF Answered, Books
<1>6. CASE Save
    BY <1>6 DEF Save, Books
<1>7. CASE ReadFails
    BY <1>7 DEF ReadFails, Books
<1>8. CASE PinFails
    BY <1>8 DEF PinFails, Books
<1>9. CASE Unanswered
    BY <1>9 DEF Unanswered, Books
<1>10. CASE Refused
    BY <1>10 DEF Refused, Books
<1>11. CASE Throttled
    BY <1>11 DEF Throttled, Books
<1>12. CASE SaveFails
    BY <1>12 DEF SaveFails, Books
<1>13. CASE Stop
    BY <1>13 DEF Stop, Forget, Books
<1>14. CASE OlderSaves
    BY <1>14 DEF OlderSaves, Books, pass
<1>15. CASE UNCHANGED vars
    BY <1>15 DEF Books, vars, pass
<1>16. ASSUME NEW i \in Items, PassOver(i)
     PROVE  Books'
    BY <1>16 DEF PassOver, Books
<1>17. ASSUME NEW i \in Items, Add(i)
     PROVE  Books'
    BY <1>17 DEF Add, Books
<1>18. ASSUME NEW i \in Items, TakeRequest(i)
     PROVE  Books'
    BY <1>18 DEF TakeRequest, Books
<1>19. ASSUME NEW i \in Items, Write(i)
     PROVE  Books'
    BY <1>19 DEF Write, Books, pass
<1>20. ASSUME NEW s \in Sessions, Retire(s)
     PROVE  Books'
    BY <1>20 DEF Retire, Books, pass
<1>21. ASSUME NEW o \in Owners, Reconfigure(o)
     PROVE  Books'
    BY <1>21 DEF Reconfigure, Books, pass
<1> QED
    BY <1>1, <1>2, <1>3, <1>4, <1>5, <1>6, <1>7, <1>8, <1>9, <1>10, <1>11, <1>12, <1>13,
       <1>14, <1>15, <1>16, <1>17, <1>18, <1>19, <1>20, <1>21
    DEF Next, PassStep, FaultStep

\* A file is recorded once the request that carried it was taken.
LEMMA AttributedStep ==
    ASSUME TypeOK, Lists, Books, Attributed, [Next]_vars
    PROVE  Attributed'
<1>1. CASE Start
    BY <1>1, LoadFields DEF Start, Attributed, TypeOK, disk, receivers
<1>2. CASE Finish
    BY <1>2, NothingFields DEF Finish, Forget, Attributed, disk, receivers
<1>3. CASE Flush
    BY <1>3 DEF Flush, Attributed, disk, receivers
<1>4. CASE Pin
  <2>1. state'.files \subseteq state.files \cup mem.files
    BY <1>4, PinFields DEF Pin
  <2> QED
    BY <1>4, <2>1, PinFields DEF Pin, Attributed, disk, receivers
<1>5. CASE Answered
  <2>1. PICK rejects \in SUBSET batch : Receive(rejects) /\ mem'.files = mem.files \cup batch
    BY <1>5, Answer
  <2>2. taken' = taken \cup ({config} \X batch)
    BY <2>1 DEF Receive
  <2>3. \A i \in batch : <<config, i>> \in taken' /\ config \in Owners /\ i \in root
    BY <2>2 DEF TypeOK
  <2> QED
    BY <1>5, <2>1, <2>2, <2>3 DEF Answered, Attributed, disk
<1>6. CASE Save
    BY <1>6 DEF Save, Attributed, disk, receivers
<1>7. CASE ReadFails
    BY <1>7 DEF ReadFails, Attributed, disk, receivers
<1>8. CASE PinFails
    BY <1>8 DEF PinFails, Attributed, disk, receivers
<1>9. CASE Unanswered
  <2>1. PICK rejects \in SUBSET batch : Receive(rejects)
    BY <1>9 DEF Unanswered
  <2>2. taken' = taken \cup ({config} \X batch)
    BY <2>1 DEF Receive
  <2> QED
    BY <1>9, <2>2 DEF Unanswered, Attributed, TypeOK, disk
<1>10. CASE Refused
    BY <1>10 DEF Refused, Attributed, disk, receivers
<1>11. CASE Throttled
    BY <1>11 DEF Throttled, Attributed, disk, receivers
<1>12. CASE SaveFails
    BY <1>12 DEF SaveFails, Attributed, disk, receivers
<1>13. CASE Stop
    BY <1>13, NothingFields DEF Stop, Forget, Attributed, disk, receivers
<1>14. CASE OlderSaves
  <2>1. state'.files = state.files
    BY <1>14 DEF OlderSaves, NothingSent
  <2> QED
    BY <1>14, <2>1 DEF OlderSaves, Attributed, disk, pass, receivers
<1>15. CASE UNCHANGED vars
    BY <1>15 DEF Attributed, vars, disk, pass, receivers
<1>16. ASSUME NEW i \in Items, PassOver(i)
     PROVE  Attributed'
    BY <1>16 DEF PassOver, Attributed, disk, receivers
<1>17. ASSUME NEW i \in Items, Add(i)
     PROVE  Attributed'
    BY <1>17 DEF Add, Attributed, disk, receivers
<1>18. ASSUME NEW i \in Items, TakeRequest(i)
     PROVE  Attributed'
    BY <1>18 DEF TakeRequest, Attributed, disk, receivers
<1>19. ASSUME NEW i \in Items, Write(i)
     PROVE  Attributed'
    BY <1>19 DEF Write, Attributed, pass, receivers
<1>20. ASSUME NEW s \in Sessions, Retire(s)
     PROVE  Attributed'
    BY <1>20 DEF Retire, Attributed, pass, receivers
<1>21. ASSUME NEW o \in Owners, Reconfigure(o)
     PROVE  Attributed'
    BY <1>21 DEF Reconfigure, Attributed, disk, pass, receivers
<1> QED
    BY <1>1, <1>2, <1>3, <1>4, <1>5, <1>6, <1>7, <1>8, <1>9, <1>10, <1>11, <1>12, <1>13,
       <1>14, <1>15, <1>16, <1>17, <1>18, <1>19, <1>20, <1>21
    DEF Next, PassStep, FaultStep

\* An owner is on the disk before the first request under it.
LEMMA OwnedStep ==
    ASSUME TypeOK, Lists, Books, Owned, [Next]_vars
    PROVE  Owned'
<1>1. CASE Start
    BY <1>1 DEF Start, Lists, Owned, disk, receivers, bounds
<1>2. CASE Finish
    BY <1>2 DEF Finish, Forget, Owned, receivers, bounds
<1>3. CASE Flush
    BY <1>3 DEF Flush, Claim, Owned, receivers, bounds
<1>4. CASE Pin
  <2>1. mem.owners = state.owners /\ mem.owners \in [Sessions -> Owners \cup {NoOwner}]
    BY <1>4 DEF Pin, Books, TypeOK, PushState
  <2>2. state'.owners = mem'.owners
    BY <1>4, <2>1, PinFields DEF Pin
  <2>3. ASSUME ~older', NEW p \in taken
        PROVE  state'.owners[p[2].session] = p[1]
    <3>1. p[1] \in Owners /\ p[2].session \in Sessions
      BY PushAssumption DEF TypeOK
    <3>2. mem.owners[p[2].session] = p[1]
      BY <1>4, <2>1, <2>3 DEF Pin, Owned, bounds
    <3>3. p[2].session \notin Unpinned
      BY <3>1, <3>2, PushAssumption DEF Unpinned
    <3> QED
      BY <1>4, <2>2, <3>1, <3>2, <3>3, PinFields
  <2>4. ASSUME NEW i \in batch
        PROVE  mem'.owners[i.session] = config
    <3>1. i.session \in Sessions /\ i.session \in InBatch
      BY ItemType DEF TypeOK, InBatch
    <3>2. mem.owners[i.session] \in {NoOwner, config}
      BY DEF Owned, Claim
    <3> QED
      BY <1>4, <3>1, <3>2, PinFields DEF Unpinned
  <2> QED
    BY <1>4, <2>3, <2>4 DEF Pin, Owned, Claim, receivers
<1>5. CASE Answered
  <2>1. PICK rejects \in SUBSET batch : Receive(rejects) /\ mem'.owners = mem.owners
    BY <1>5, Answer
  <2>2. taken' = taken \cup ({config} \X batch)
    BY <2>1 DEF Receive
  <2>3. \A i \in batch : state.owners[i.session] = config
    BY <1>5 DEF Answered, Owned, Books
  <2> QED
    BY <1>5, <2>1, <2>2, <2>3 DEF Answered, Owned, Claim, bounds
<1>6. CASE Save
    BY <1>6 DEF Save, Books, Claim, Owned, receivers, bounds
<1>7. CASE ReadFails
    BY <1>7 DEF ReadFails, Fault, Claim, Owned, receivers
<1>8. CASE PinFails
    BY <1>8 DEF PinFails, Fault, Claim, Owned, receivers
<1>9. CASE Unanswered
  <2>1. PICK rejects \in SUBSET batch : Receive(rejects)
    BY <1>9 DEF Unanswered
  <2>2. taken' = taken \cup ({config} \X batch)
    BY <2>1 DEF Receive
  <2>3. \A i \in batch : state.owners[i.session] = config
    BY <1>9 DEF Unanswered, Owned, Books
  <2> QED
    BY <1>9, <2>2, <2>3 DEF Unanswered, Owned
<1>10. CASE Refused
    BY <1>10 DEF Refused, Fault, Claim, Owned, receivers
<1>11. CASE Throttled
    BY <1>11 DEF Throttled, Fault, Claim, Owned, receivers
<1>12. CASE SaveFails
    BY <1>12 DEF SaveFails, Fault, Claim, Owned, receivers
<1>13. CASE Stop
    BY <1>13 DEF Stop, Forget, Fault, Owned, receivers
<1>14. CASE OlderSaves
    BY <1>14 DEF OlderSaves, Lists, Owned, pass, receivers
<1>15. CASE UNCHANGED vars
    BY <1>15 DEF Claim, Owned, vars, pass, receivers, bounds
<1>16. ASSUME NEW i \in Items, PassOver(i)
     PROVE  Owned'
    BY <1>16 DEF PassOver, Claim, Owned, receivers, bounds
<1>17. ASSUME NEW i \in Items, Add(i)
     PROVE  Owned'
    BY <1>17 DEF Add, Wanted, Claim, Owned, receivers, bounds
<1>18. ASSUME NEW i \in Items, TakeRequest(i)
     PROVE  Owned'
    BY <1>18 DEF TakeRequest, Wanted, Claim, Owned, receivers, bounds
<1>19. ASSUME NEW i \in Items, Write(i)
     PROVE  Owned'
    BY <1>19 DEF Write, Claim, Owned, pass, receivers, bounds
<1>20. ASSUME NEW s \in Sessions, Retire(s)
     PROVE  Owned'
    BY <1>20 DEF Retire, Claim, Owned, pass, receivers, bounds
<1>21. ASSUME NEW o \in Owners, Reconfigure(o)
     PROVE  Owned'
    BY <1>21 DEF Reconfigure, Lists, Owned, pass, receivers
<1> QED
    BY <1>1, <1>2, <1>3, <1>4, <1>5, <1>6, <1>7, <1>8, <1>9, <1>10, <1>11, <1>12, <1>13,
       <1>14, <1>15, <1>16, <1>17, <1>18, <1>19, <1>20, <1>21
    DEF Next, PassStep, FaultStep

\* A close joins a batch once its stages are recorded, and no stage is written in a pass.
LEMMA CloseReadyStep ==
    ASSUME TypeOK, Lists, CloseReady, [Next]_vars
    PROVE  CloseReady'
<1>1. CASE Start
    BY <1>1 DEF Start, Lists, CloseReady, disk
<1>2. CASE Finish
    BY <1>2 DEF Finish, Forget, CloseReady, disk
<1>3. CASE Flush
    BY <1>3 DEF Flush, Stages, CloseReady, disk
<1>4. CASE Pin
    BY <1>4, PinFields DEF Pin, Stages, CloseReady, disk
<1>5. CASE Answered
  <2>1. mem.files \subseteq mem'.files
    BY <1>5, Answer
  <2> QED
    BY <1>5, <2>1 DEF Answered, CloseReady, Stages, disk
<1>6. CASE Save
    BY <1>6 DEF Save, Stages, CloseReady, disk
<1>7. CASE ReadFails
    BY <1>7 DEF ReadFails, Stages, CloseReady, disk
<1>8. CASE PinFails
    BY <1>8 DEF PinFails, CloseReady, disk
<1>9. CASE Unanswered
    BY <1>9 DEF Unanswered, CloseReady, disk
<1>10. CASE Refused
    BY <1>10 DEF Refused, CloseReady, disk
<1>11. CASE Throttled
    BY <1>11 DEF Throttled, CloseReady, disk
<1>12. CASE SaveFails
    BY <1>12 DEF SaveFails, CloseReady, disk
<1>13. CASE Stop
    BY <1>13 DEF Stop, Forget, Fault, CloseReady, disk
<1>14. CASE OlderSaves
    BY <1>14 DEF OlderSaves, Stages, CloseReady, disk, pass
<1>15. CASE UNCHANGED vars
    BY <1>15 DEF Stages, CloseReady, vars, disk, pass
<1>16. ASSUME NEW i \in Items, PassOver(i)
     PROVE  CloseReady'
    BY <1>16 DEF PassOver, Stages, CloseReady, disk
<1>17. ASSUME NEW i \in Items, Add(i)
     PROVE  CloseReady'
    BY <1>17 DEF Add, Wanted, Stages, CloseReady, disk
<1>18. ASSUME NEW i \in Items, TakeRequest(i)
     PROVE  CloseReady'
    BY <1>18 DEF TakeRequest, Stages, CloseReady, disk
<1>19. ASSUME NEW i \in Items, Write(i)
     PROVE  CloseReady'
    BY <1>19 DEF Write, Lists, Stages, CloseReady, pass
<1>20. ASSUME NEW s \in Sessions, Retire(s)
     PROVE  CloseReady'
    BY <1>20 DEF Retire, Stages, CloseReady, pass
<1>21. ASSUME NEW o \in Owners, Reconfigure(o)
     PROVE  CloseReady'
    BY <1>21 DEF Reconfigure, Stages, CloseReady, disk, pass
<1> QED
    BY <1>1, <1>2, <1>3, <1>4, <1>5, <1>6, <1>7, <1>8, <1>9, <1>10, <1>11, <1>12, <1>13,
       <1>14, <1>15, <1>16, <1>17, <1>18, <1>19, <1>20, <1>21
    DEF Next, PassStep, FaultStep

\* The stages of a close in the request were taken by its owner.
LEMMA StagesTaken ==
    ASSUME Attributed, Owned, CloseReady, ~older, mem.owners = state.owners,
           NEW c \in batch, c.kind = "close", mem.owners[c.session] = config,
           NEW i \in Stages(c.session)
    PROVE  <<config, i>> \in taken
<1>1. i \in mem.files
    BY DEF CloseReady
<1>2. PICK o \in Owners : <<o, i>> \in taken
    BY <1>1 DEF Attributed
<1>3. state.owners[i.session] = o
    BY <1>2 DEF Owned
<1>4. i.session = c.session
    BY DEF Stages
<1> QED
    BY <1>2, <1>3, <1>4

\* The stages of a close in a request went under the same owner.
LEMMA CloseAfterStagesStep ==
    ASSUME TypeOK, Lists, Books, Attributed, Owned, CloseReady, CloseAfterStages, [Next]_vars
    PROVE  CloseAfterStages'
<1>1. CASE Start
    BY <1>1 DEF Start, CloseAfterStages, Stages, disk, receivers, bounds
<1>2. CASE Finish
    BY <1>2 DEF Finish, Forget, CloseAfterStages, Stages, disk, receivers, bounds
<1>3. CASE Flush
    BY <1>3 DEF Flush, CloseAfterStages, Stages, disk, receivers, bounds
<1>4. CASE Pin
    BY <1>4 DEF Pin, CloseAfterStages, Stages, disk, receivers, bounds
<1>5. CASE Answered
  <2>1. PICK rejects \in SUBSET batch : Receive(rejects)
    BY <1>5 DEF Answered
  <2>2. taken' = taken \cup ({config} \X batch) /\ root' = root /\ older' = older
    BY <1>5, <2>1 DEF Receive, Answered, disk, bounds
  <2>3. \A i \in batch : mem.owners[i.session] = config /\ mem.owners = state.owners
    BY <1>5 DEF Answered, Owned, Books
  <2> QED
    BY <2>2, <2>3, StagesTaken DEF CloseAfterStages, Stages
<1>6. CASE Save
    BY <1>6 DEF Save, CloseAfterStages, Stages, disk, receivers, bounds
<1>7. CASE ReadFails
    BY <1>7 DEF ReadFails, Fault, CloseAfterStages, Stages, disk, receivers
<1>8. CASE PinFails
    BY <1>8 DEF PinFails, Fault, CloseAfterStages, Stages, disk, receivers
<1>9. CASE Unanswered
  <2>1. PICK rejects \in SUBSET batch : Receive(rejects)
    BY <1>9 DEF Unanswered
  <2>2. taken' = taken \cup ({config} \X batch) /\ root' = root /\ older' = older
    BY <1>9, <2>1 DEF Receive, Unanswered, disk, bounds
  <2>3. \A i \in batch : mem.owners[i.session] = config /\ mem.owners = state.owners
    BY <1>9 DEF Unanswered, Owned, Books
  <2> QED
    BY <2>2, <2>3, StagesTaken DEF CloseAfterStages, Stages
<1>10. CASE Refused
    BY <1>10 DEF Refused, Fault, CloseAfterStages, Stages, disk, receivers
<1>11. CASE Throttled
    BY <1>11 DEF Throttled, Fault, CloseAfterStages, Stages, disk, receivers
<1>12. CASE SaveFails
    BY <1>12 DEF SaveFails, Fault, CloseAfterStages, Stages, disk, receivers
<1>13. CASE Stop
    BY <1>13 DEF Stop, Forget, Fault, CloseAfterStages, Stages, disk, receivers
<1>14. CASE OlderSaves
    BY <1>14 DEF OlderSaves, CloseAfterStages, Stages, disk, receivers
<1>15. CASE UNCHANGED vars
    BY <1>15 DEF CloseAfterStages, Stages, vars, disk, receivers, bounds
<1>16. ASSUME NEW i \in Items, PassOver(i)
     PROVE  CloseAfterStages'
    BY <1>16 DEF PassOver, CloseAfterStages, Stages, disk, receivers, bounds
<1>17. ASSUME NEW i \in Items, Add(i)
     PROVE  CloseAfterStages'
    BY <1>17 DEF Add, CloseAfterStages, Stages, disk, receivers, bounds
<1>18. ASSUME NEW i \in Items, TakeRequest(i)
     PROVE  CloseAfterStages'
    BY <1>18 DEF TakeRequest, CloseAfterStages, Stages, disk, receivers, bounds
<1>19. ASSUME NEW i \in Items, Write(i)
     PROVE  CloseAfterStages'
  <2>1. root' = root \cup {i} /\ taken' = taken /\ older' = older
    BY <1>19 DEF Write, receivers, bounds
  <2>2. ASSUME NEW p \in taken, p[2].kind = "close", i \in Stages(p[2].session)'
        PROVE  i \in Stages(p[2].session)
    <3>1. Closed(p[2].session)
      BY <2>2 DEF Closed, Attributed
    <3>2. i.kind = "stage" /\ i.session = p[2].session
      BY <2>2 DEF Stages
    <3>3. ~MayWrite(i)
      BY <3>1, <3>2 DEF MayWrite
    <3> QED
      BY <1>19, <3>3 DEF Write
  <2> QED
    BY <2>1, <2>2 DEF CloseAfterStages, Stages
<1>20. ASSUME NEW s \in Sessions, Retire(s)
     PROVE  CloseAfterStages'
    BY <1>20 DEF Retire, CloseAfterStages, Stages, receivers, bounds
<1>21. ASSUME NEW o \in Owners, Reconfigure(o)
     PROVE  CloseAfterStages'
    BY <1>21 DEF Reconfigure, CloseAfterStages, Stages, disk, receivers
<1> QED
    BY <1>1, <1>2, <1>3, <1>4, <1>5, <1>6, <1>7, <1>8, <1>9, <1>10, <1>11, <1>12, <1>13,
       <1>14, <1>15, <1>16, <1>17, <1>18, <1>19, <1>20, <1>21
    DEF Next, PassStep, FaultStep

\* A receiver that is made up for a file is unknown.
LEMMA LoadSomewhere ==
    ASSUME NEW s \in PushState, Somewhere(s)
    PROVE  Somewhere(LoadState(s))
<1>1. CASE s.files # {} /\ s.endpoints = {}
    BY <1>1, LoadFields DEF Somewhere
<1>2. CASE s.files = {} \/ s.endpoints # {}
    BY <1>2, LoadFields DEF Somewhere
<1> QED
    BY <1>1, <1>2

\* What counts as sent is with a receiver recorded beside it, or with none known.
LEMMA HeldStep ==
    ASSUME TypeOK, TypeOK', Held, [Next]_vars
    PROVE  Held'
<1>1. CASE Start
  <2>1. mem' = LoadState(state) /\ state' = state /\ kept' = kept
    BY <1>1 DEF Start, receivers
  <2> QED
    BY <2>1 DEF Held, Somewhere, LoadState
<1>2. CASE Finish
  <2>1. mem'.files = {} /\ state' = state /\ kept' = kept
    BY <1>2, NothingFields DEF Finish, Forget, receivers
  <2> QED
    BY <2>1 DEF Held, Somewhere, LoadState
<1>3. CASE Flush
  <2>1. mem' = mem /\ state' = state /\ kept' = kept
    BY <1>3 DEF Flush, receivers
  <2> QED
    BY <2>1 DEF Held, Somewhere, LoadState
<1>4. CASE Pin
  <2>1. kept' = kept /\ (state' = state \/ state' = mem')
    BY <1>4 DEF Pin, receivers
  <2>2. Somewhere(mem')
    BY <1>4, PinFields DEF Held, Somewhere
  <2>3. Somewhere(LoadState(mem')) /\ Somewhere(LoadState(state))
    BY <2>2, LoadSomewhere DEF Held, TypeOK
  <2> QED
    BY <2>1, <2>2, <2>3 DEF Held, Somewhere, LoadState
<1>5. CASE Answered
  <2>1. PICK rejects \in SUBSET batch :
          /\ Receive(rejects)
          /\ mem'.files = mem.files \cup batch
          /\ mem'.endpoints = mem.endpoints \cup {Endpoint[config]}
          /\ mem'.rejected = IF rejects # {} THEN mem.rejected \cup batch ELSE mem.rejected
    BY <1>5, Answer
  <2>2. kept' = kept \cup ({config} \X (batch \ rejects)) /\ state' = state
    BY <1>5, <2>1 DEF Answered, Receive
  <2>3. Somewhere(LoadState(state))'
    BY <2>2 DEF Held, Somewhere, LoadState
  <2>4. ASSUME NEW i \in mem'.files \ mem'.rejected, Unknown \notin mem'.endpoints
        PROVE  \E o \in Owners : Endpoint[o] \in mem'.endpoints /\ <<o, i>> \in kept'
    <3>1. CASE i \in mem.files
      BY <2>1, <2>2, <2>4, <3>1 DEF Held, Somewhere
    <3>2. CASE i \in batch
      BY <2>1, <2>2, <2>4, <3>2 DEF TypeOK
    <3> QED
      BY <2>1, <3>1, <3>2
  <2> QED
    BY <2>3, <2>4 DEF Held, Somewhere
<1>6. CASE Save
  <2>1. kept' = kept /\ state' = mem /\ mem' = mem
    BY <1>6 DEF Save, receivers
  <2>2. Somewhere(LoadState(mem))
    BY LoadSomewhere DEF Held, TypeOK
  <2> QED
    BY <2>1, <2>2 DEF Held, Somewhere, LoadState
<1>7. CASE ReadFails
  <2>1. mem' = mem /\ state' = state /\ kept' = kept
    BY <1>7 DEF ReadFails, receivers
  <2> QED
    BY <2>1 DEF Held, Somewhere, LoadState
<1>8. CASE PinFails
  <2>1. mem' = mem /\ state' = state /\ kept' = kept
    BY <1>8 DEF PinFails, receivers
  <2> QED
    BY <2>1 DEF Held, Somewhere, LoadState
<1>9. CASE Unanswered
  <2>1. PICK rejects \in SUBSET batch : Receive(rejects)
    BY <1>9 DEF Unanswered
  <2>2. kept \subseteq kept' /\ state' = state /\ mem' = mem
    BY <1>9, <2>1 DEF Unanswered, Receive
  <2> QED
    BY <2>2 DEF Held, Somewhere, LoadState
<1>10. CASE Refused
  <2>1. mem' = mem /\ state' = state /\ kept' = kept
    BY <1>10 DEF Refused, receivers
  <2> QED
    BY <2>1 DEF Held, Somewhere, LoadState
<1>11. CASE Throttled
  <2>1. mem' = mem /\ state' = state /\ kept' = kept
    BY <1>11 DEF Throttled, receivers
  <2> QED
    BY <2>1 DEF Held, Somewhere, LoadState
<1>12. CASE SaveFails
  <2>1. mem' = mem /\ state' = state /\ kept' = kept
    BY <1>12 DEF SaveFails, receivers
  <2> QED
    BY <2>1 DEF Held, Somewhere, LoadState
<1>13. CASE Stop
  <2>1. mem'.files = {} /\ state' = state /\ kept' = kept
    BY <1>13, NothingFields DEF Stop, Forget, receivers
  <2> QED
    BY <2>1 DEF Held, Somewhere, LoadState
<1>14. CASE OlderSaves
  <2>1. state'.endpoints = {} /\ kept' = kept /\ mem' = mem
    BY <1>14 DEF OlderSaves, NothingSent, pass, receivers
  <2>2. \/ LoadState(state').files = {}
        \/ LoadState(state').endpoints = {Unknown}
    BY <2>1, LoadFields DEF TypeOK
  <2> QED
    BY <2>1, <2>2 DEF Held, Somewhere, LoadState
<1>15. CASE UNCHANGED vars
  <2>1. mem' = mem /\ state' = state /\ kept' = kept
    BY <1>15 DEF vars, pass, receivers
  <2> QED
    BY <2>1 DEF Held, Somewhere, LoadState
<1>16. ASSUME NEW i \in Items, PassOver(i)
     PROVE  Held'
  <2>1. mem' = mem /\ state' = state /\ kept' = kept
    BY <1>16 DEF PassOver, receivers
  <2> QED
    BY <2>1 DEF Held, Somewhere, LoadState
<1>17. ASSUME NEW i \in Items, Add(i)
     PROVE  Held'
  <2>1. mem' = mem /\ state' = state /\ kept' = kept
    BY <1>17 DEF Add, receivers
  <2> QED
    BY <2>1 DEF Held, Somewhere, LoadState
<1>18. ASSUME NEW i \in Items, TakeRequest(i)
     PROVE  Held'
  <2>1. mem' = mem /\ state' = state /\ kept' = kept
    BY <1>18 DEF TakeRequest, receivers
  <2> QED
    BY <2>1 DEF Held, Somewhere, LoadState
<1>19. ASSUME NEW i \in Items, Write(i)
     PROVE  Held'
  <2>1. mem' = mem /\ state' = state /\ kept' = kept
    BY <1>19 DEF Write, pass, receivers
  <2> QED
    BY <2>1 DEF Held, Somewhere, LoadState
<1>20. ASSUME NEW s \in Sessions, Retire(s)
     PROVE  Held'
  <2>1. mem' = mem /\ state' = state /\ kept' = kept
    BY <1>20 DEF Retire, pass, receivers
  <2> QED
    BY <2>1 DEF Held, Somewhere, LoadState
<1>21. ASSUME NEW o \in Owners, Reconfigure(o)
     PROVE  Held'
  <2>1. mem' = mem /\ state' = state /\ kept' = kept
    BY <1>21 DEF Reconfigure, pass, receivers
  <2> QED
    BY <2>1 DEF Held, Somewhere, LoadState
<1> QED
    BY <1>1, <1>2, <1>3, <1>4, <1>5, <1>6, <1>7, <1>8, <1>9, <1>10, <1>11, <1>12, <1>13,
       <1>14, <1>15, <1>16, <1>17, <1>18, <1>19, <1>20, <1>21
    DEF Next, PassStep, FaultStep

\* A file that is taken again was lost by a fault: its answer, its save or its pass.
LEMMA CountedStep ==
    ASSUME TypeOK, TypeOK', Lists, Books, Counted, [Next]_vars
    PROVE  Counted'
<1>1. CASE Start
    BY <1>1 DEF Start, Lists, Counted, receivers, bounds
<1>2. CASE Finish
    BY <1>2 DEF Finish, Forget, Counted, receivers, bounds
<1>3. CASE Flush
    BY <1>3 DEF Flush, Counted, receivers, bounds
<1>4. CASE Pin
  <2>1. state.files \subseteq state'.files
    BY <1>4, PinFields DEF Pin, Books
  <2> QED
    BY <1>4, <2>1 DEF Pin, Counted, TypeOK, receivers, bounds
<1>5. CASE Answered
  <2>1. PICK rejects \in SUBSET batch : Receive(rejects)
    BY <1>5 DEF Answered
  <2>2. ASSUME NEW i \in Items
        PROVE  times'[i] = IF i \in batch THEN times[i] + 1 ELSE times[i]
    BY <2>1 DEF Receive
  <2>3. \A i \in batch : i \notin state.files
    BY <1>5 DEF Answered, Lists, Books
  <2> QED
    BY <1>5, <2>2, <2>3 DEF Answered, bounds, Counted, TypeOK
<1>6. CASE Save
    BY <1>6 DEF Save, Lists, Books, Counted, TypeOK, receivers, bounds
<1>7. CASE ReadFails
    BY <1>7 DEF ReadFails, Fault, Counted, TypeOK, receivers
<1>8. CASE PinFails
    BY <1>8 DEF PinFails, Fault, Counted, TypeOK, receivers
<1>9. CASE Unanswered
  <2>1. PICK rejects \in SUBSET batch : Receive(rejects)
    BY <1>9 DEF Unanswered
  <2>2. ASSUME NEW i \in Items
        PROVE  times'[i] = IF i \in batch THEN times[i] + 1 ELSE times[i]
    BY <2>1 DEF Receive
  <2>3. \A i \in batch : i \notin state.files
    BY <1>9 DEF Unanswered, Lists, Books
  <2> QED
    BY <1>9, <2>2, <2>3 DEF Unanswered, Fault, Counted, TypeOK
<1>10. CASE Refused
    BY <1>10 DEF Refused, Fault, Counted, TypeOK, receivers
<1>11. CASE Throttled
    BY <1>11 DEF Throttled, Fault, Counted, TypeOK, receivers
<1>12. CASE SaveFails
    BY <1>12 DEF SaveFails, Fault, Counted, TypeOK, receivers
<1>13. CASE Stop
    BY <1>13 DEF Stop, Forget, Fault, Counted, TypeOK, receivers
<1>14. CASE OlderSaves
  <2>1. state'.files = state.files
    BY <1>14 DEF OlderSaves, NothingSent
  <2> QED
    BY <1>14, <2>1 DEF OlderSaves, Fault, Counted, TypeOK, pass, receivers
<1>15. CASE UNCHANGED vars
    BY <1>15 DEF Counted, vars, pass, receivers, bounds
<1>16. ASSUME NEW i \in Items, PassOver(i)
     PROVE  Counted'
    BY <1>16 DEF PassOver, Counted, receivers, bounds
<1>17. ASSUME NEW i \in Items, Add(i)
     PROVE  Counted'
    BY <1>17 DEF Add, Counted, receivers, bounds
<1>18. ASSUME NEW i \in Items, TakeRequest(i)
     PROVE  Counted'
    BY <1>18 DEF TakeRequest, Counted, receivers, bounds
<1>19. ASSUME NEW i \in Items, Write(i)
     PROVE  Counted'
    BY <1>19 DEF Write, Lists, Counted, pass, receivers, bounds
<1>20. ASSUME NEW s \in Sessions, Retire(s)
     PROVE  Counted'
    BY <1>20 DEF Retire, Lists, Counted, pass, receivers, bounds
<1>21. ASSUME NEW o \in Owners, Reconfigure(o)
     PROVE  Counted'
    BY <1>21 DEF Reconfigure, Lists, Counted, pass, receivers
<1> QED
    BY <1>1, <1>2, <1>3, <1>4, <1>5, <1>6, <1>7, <1>8, <1>9, <1>10, <1>11, <1>12, <1>13,
       <1>14, <1>15, <1>16, <1>17, <1>18, <1>19, <1>20, <1>21
    DEF Next, PassStep, FaultStep

-----------------------------------------------------------------------------
(* Theorems. *)

IInv ==
    /\ TypeOK /\ Lists /\ Books /\ Attributed /\ Owned /\ CloseReady /\ CloseAfterStages
    /\ Held /\ Counted

LEMMA Initially == Init => IInv
<1> SUFFICES ASSUME Init
             PROVE  IInv
    OBVIOUS
<1>1. TypeOK
    BY PushAssumption, NothingType DEF Init, TypeOK
<1>2. Lists /\ Books /\ Attributed /\ Owned /\ CloseReady /\ CloseAfterStages
    BY NothingFields DEF Init, Lists, Books, Attributed, Owned, CloseReady, CloseAfterStages
<1>3. Held
    BY NothingFields, NothingType, LoadFields DEF Init, Held, Somewhere
<1>4. Counted
    BY DEF Init, Counted
<1> QED
    BY <1>1, <1>2, <1>3, <1>4 DEF IInv

LEMMA Inductive == IInv /\ [Next]_vars => IInv'
<1> SUFFICES ASSUME IInv, [Next]_vars
             PROVE  IInv'
    OBVIOUS
<1> USE DEF IInv
<1>1. TypeOK'
    BY TypeStep
<1>2. Lists' /\ Books' /\ Attributed' /\ Owned' /\ CloseReady' /\ CloseAfterStages'
    BY ListsStep, BooksStep, AttributedStep, OwnedStep, CloseReadyStep, CloseAfterStagesStep
<1>3. Held' /\ Counted'
    BY <1>1, HeldStep, CountedStep
<1> QED
    BY <1>1, <1>2, <1>3

\* The invariant holds always: what a pass knows, and what was taken, agree
\* with push.state between any two steps (Pass, flush, pin, loadState).
THEOREM Invariant == Spec => []IInv
    BY Initially, Inductive, PTL DEF Spec

\* Every variable keeps its type, for any number of sessions and receivers.
THEOREM TypeCorrect == Spec => []TypeOK
<1>1. IInv => TypeOK
    BY DEF IInv
<1> QED
    BY <1>1, Invariant, PTL

\* What push.state records was taken, whatever was lost on the way (flush).
THEOREM RecordsTruth == Spec => []RecordedWasTaken
<1>1. IInv => RecordedWasTaken
    BY DEF IInv, Attributed, RecordedWasTaken
<1> QED
    BY <1>1, Invariant, PTL

\* A session is at one owner, through stops, lost answers and any number of
\* changes of the configuration (pin, claim).
THEOREM OneOwner == Spec => []OneReceiver
<1>1. IInv => OneReceiver
    BY DEF IInv, Owned, OneReceiver
<1> QED
    BY <1>1, Invariant, PTL

\* Nothing is taken twice but for as many faults (pushed, mark, save).
THEOREM OnceEach == Spec => []OnceUnlessFaults
<1>1. IInv => OnceUnlessFaults
    BY DEF IInv, TypeOK, Counted, OnceUnlessFaults
<1> QED
    BY <1>1, Invariant, PTL

\* A close is never at a receiver before its stages (addJudgments).
THEOREM StagesBeforeClose == Spec => []CloseAfterStages
<1>1. IInv => CloseAfterStages
    BY DEF IInv
<1> QED
    BY <1>1, Invariant, PTL

\* What removal may take for sent is whole at the receiver it asks about
\* (SentTo), also after an older asz saved push.state.
THEOREM SentIsThere == Spec => []SentMeansKept
<1>1. IInv => SentMeansKept
  <2> SUFFICES ASSUME IInv, NEW e \in Endpoints, NEW i \in Items, SentTo(LoadState(state), e, i)
               PROVE  \E o \in Owners : Endpoint[o] = e /\ <<o, i>> \in kept
    BY DEF SentMeansKept
  <2> QED
    BY DEF IInv, Held, Somewhere, SentTo
<1> QED
    BY <1>1, Invariant, PTL
=============================================================================
