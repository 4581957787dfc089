---------------------------- MODULE EpollProofs ----------------------------
(***************************************************************************)
(* Proofs about Epoll, for any objects, any descriptor numbers and any     *)
(* number of calls: its types, that the kernel's set and fd_lookup agree,  *)
(* and that only broken descriptors cost their objects.                    *)
(***************************************************************************)
EXTENDS Epoll, TLAPS

\* What the events of a batch say is true of their objects, unless these were
\* destroyed.
BatchTrue(b) ==
  \A e \in b : \/ place[e.obj] = "destroyed"
               \/ /\ place[e.obj] \in Live /\ fd[e.obj] = e.fd
                  /\ e.kind = "hup" => ready[e.obj] = "hup"

\* Live objects have a key, and a descriptor number has one object at most;
\* what EPoll owns is what the kernel watches; the object whose action runs is
\* owned.
EpollInv ==
  /\ EpollTypeOK
  /\ \A o \in Obj : place[o] \in Live => fd[o] # NoFd
  /\ \A o, p \in Obj : fd[o] = fd[p] /\ fd[o] \in Fd => o = p
  /\ WatchedAreOwned
  /\ at = "acting" => cur \in Obj /\ place[cur] = "lookup"
  /\ BatchTrue(batch)

LEMMA EpollInitInv == Init => EpollInv
BY ObjAssumption, FdAssumption
   DEF Init, EpollInv, BatchTrue, EpollTypeOK, WatchedAreOwned, Live, Blocker, Event

\* An event of the batch is about an object of EPoll, or one that is destroyed.
LEMMA EventsObject ==
  ASSUME EpollInv, NEW e \in batch
  PROVE  /\ e \in Event /\ e.obj \in Obj /\ e.fd \in Fd
         /\ \A o \in At(e.fd) : o \in Obj /\ (e.obj = o \/ place[e.obj] = "destroyed")
BY DEF EpollInv, EpollTypeOK, BatchTrue, At, Event

\* add watches a descriptor that no other object has; if the key is taken, it
\* is always_block_code, and the new object is destroyed.
LEMMA AddStep == ASSUME EpollInv, NEW o \in Obj, add(o) PROVE EpollInv'
<1> USE FdAssumption DEF EpollInv, EpollTypeOK, Live, Blocker
<1>1. /\ place[o] = "caller" /\ fd[o] \in Fd \cup {Blocks}
      /\ o \notin watched
  BY DEF add, WatchedAreOwned
<1>2. CASE At(fd[o]) = {}
  <2>1. /\ place' = [place EXCEPT ![o] = "lookup"]
        /\ fd' = fd /\ ready' = ready
        /\ UNCHANGED waitVars /\ stale' = stale /\ dropped' = dropped \ {o}
        /\ watched' = IF fd[o] = Blocks THEN watched ELSE watched \cup {o}
        /\ max_events' \in Nat
    BY <1>2 DEF add, Emplaced, Destroyed, Watch, waitVars
  <2>2. \A p \in Obj : place[p] = "lookup" => fd[p] # fd[o]
    BY <1>2 DEF At
  <2>3. WatchedAreOwned'  BY <1>1, <2>1, <2>2 DEF WatchedAreOwned
  <2>4. EpollTypeOK'  BY <2>1 DEF waitVars
  <2> QED BY <1>1, <2>1, <2>3, <2>4 DEF waitVars, BatchTrue
<1>3. CASE At(fd[o]) # {}
  <2>1. PICK p \in Obj : place[p] = "lookup" /\ fd[p] = fd[o]  BY <1>3 DEF At
  <2>2. fd[o] = Blocks  BY <1>1, <2>1
  <2>3. /\ place' = [place EXCEPT ![o] = "destroyed"]
        /\ fd' = [p1 \in Obj |-> IF p1 = o THEN NoFd ELSE fd[p1]]
        /\ ready' = [p1 \in Obj |-> IF p1 = o THEN "no" ELSE ready[p1]]
        /\ UNCHANGED waitVars /\ stale' = stale /\ dropped' = dropped \ {o}
        /\ watched' = watched
        /\ max_events' \in Nat
    <3>1. Emplaced(o) = "destroyed"  BY <1>3 DEF Emplaced
    <3> QED BY <2>2, <3>1 DEF add, Destroyed, Watch
  <2>4. WatchedAreOwned'  BY <1>1, <2>3 DEF WatchedAreOwned
  <2>5. EpollTypeOK'  BY <2>3 DEF waitVars
  <2>6. \A p1, q \in Obj : fd'[p1] = fd'[q] /\ fd'[p1] \in Fd => p1 = q
    BY <2>3
  <2>7. at = "acting" => cur # o  BY <1>1
  <2>8. BatchTrue(batch)'
    <3>1. \A e \in batch : e.obj \in Obj /\ e.fd \in Fd  BY EventsObject
    <3> QED BY <2>2, <2>3, <3>1 DEF BatchTrue, waitVars
  <2> QED BY <1>1, <2>3, <2>4, <2>5, <2>6, <2>7, <2>8 DEF BatchTrue, waitVars
<1> QED BY <1>2, <1>3

LEMMA EpollStep == EpollInv /\ [Next]_vars => EpollInv'
<1> SUFFICES ASSUME EpollInv, [Next]_vars PROVE EpollInv'
  OBVIOUS
<1> USE FdAssumption, ObjAssumption DEF EpollInv, EpollTypeOK, Live, Blocker
<1>0. \A e \in batch : e \in Event /\ e.obj \in Obj /\ e.fd \in Fd
  BY EventsObject
<1>1. ASSUME NEW o \in Obj, MakeObject(o) PROVE EpollInv'
  <2>1. /\ place[o] = "none" /\ place' = [place EXCEPT ![o] = "caller"]
        /\ \E f \in (Fd \ InUse) \cup {Blocks} : fd' = [fd EXCEPT ![o] = f]
        /\ UNCHANGED <<ready, watched, max_events, at, batch, cur, stale, dropped>>
    BY <1>1 DEF MakeObject, waitVars
  <2>2. WatchedAreOwned'  BY <2>1 DEF WatchedAreOwned
  <2>3. EpollTypeOK'  BY <2>1
  <2>4. \A p, q \in Obj : fd'[p] = fd'[q] /\ fd'[p] \in Fd => p = q
    BY <2>1 DEF InUse
  <2>5. BatchTrue(batch)'  BY <1>0, <2>1 DEF BatchTrue
  <2> QED BY <2>1, <2>2, <2>3, <2>4, <2>5 DEF BatchTrue
<1>2. ASSUME NEW o \in Obj, DestroyObject(o) PROVE EpollInv'
  <2>1. /\ place[o] = "caller" /\ place' = [place EXCEPT ![o] = "destroyed"]
        /\ fd' = [p \in Obj |-> IF p = o THEN NoFd ELSE fd[p]]
        /\ ready' = [p \in Obj |-> IF p = o THEN "no" ELSE ready[p]]
        /\ UNCHANGED <<watched, max_events, at, batch, cur, stale, dropped>>
    BY <1>2 DEF DestroyObject, Destroyed, waitVars
  <2>2. WatchedAreOwned'  BY <2>1 DEF WatchedAreOwned
  <2>3. EpollTypeOK'  BY <2>1
  <2>4. BatchTrue(batch)'  BY <1>0, <2>1 DEF BatchTrue
  <2> QED BY <2>1, <2>2, <2>3, <2>4 DEF BatchTrue
<1>3. ASSUME NEW o \in Obj, add(o) PROVE EpollInv'
  BY <1>3, AddStep
<1>4. ASSUME NEW o \in Obj, remove(o) PROVE EpollInv'
  <2>1. /\ place[o] = "lookup" /\ o # cur /\ place' = [place EXCEPT ![o] = "caller"]
        /\ watched' = {p \in watched : fd[p] # fd[o]}
        /\ UNCHANGED <<fd, ready, max_events, at, batch, cur, stale, dropped>>
    BY <1>4 DEF remove, Unwatch, waitVars
  <2>2. WatchedAreOwned'  BY <2>1 DEF WatchedAreOwned
  <2>3. EpollTypeOK'  BY <2>1
  <2>4. BatchTrue(batch)'  BY <1>0, <2>1 DEF BatchTrue
  <2> QED BY <2>1, <2>2, <2>3, <2>4 DEF BatchTrue
<1>5. ASSUME NEW o \in Obj, NEW state \in {"in", "hup"}, BecomesReady(o, state)
      PROVE  EpollInv'
  <2>1. /\ ready[o] # "hup" /\ ready' = [ready EXCEPT ![o] = state]
        /\ UNCHANGED <<place, fd, watched, max_events, at, batch, cur, stale, dropped>>
    BY <1>5 DEF BecomesReady, objVars, waitVars
  <2>2. WatchedAreOwned'  BY <2>1 DEF WatchedAreOwned
  <2>3. EpollTypeOK'  BY <2>1
  <2>4. BatchTrue(batch)'  BY <1>0, <2>1 DEF BatchTrue
  <2> QED BY <2>1, <2>2, <2>3, <2>4 DEF BatchTrue
<1>6. ASSUME EpollWait PROVE EpollInv'
  <2>1. /\ at' = "batch" /\ batch' \in SUBSET ReadyEvents
        /\ UNCHANGED <<place, fd, ready, watched, max_events, cur, stale, dropped>>
    BY <1>6 DEF EpollWait, objVars
  <2>2. \A e \in ReadyEvents :
          /\ e \in Event /\ place[e.obj] = "lookup"
          /\ fd[e.obj] = e.fd /\ ready[e.obj] = e.kind
    BY DEF ReadyEvents, Event, WatchedAreOwned
  <2>3. WatchedAreOwned'  BY <2>1 DEF WatchedAreOwned
  <2>4. EpollTypeOK'  BY <2>1, <2>2
  <2> QED BY <2>1, <2>2, <2>3, <2>4 DEF BatchTrue
<1>7. ASSUME NEW e \in batch, TakeEvent(e)
      PROVE  /\ at = "batch" /\ batch' = batch \ {e}
             /\ stale' \in SUBSET (Obj \X Obj) /\ e.obj \in Obj /\ e.fd \in Fd
  BY <1>0, <1>7 DEF TakeEvent, At
<1>8. ASSUME NEW e \in batch, EraseBroken(e) PROVE EpollInv'
  <2>1. /\ at = "batch" /\ batch' = batch \ {e} /\ stale' \in SUBSET (Obj \X Obj)
        /\ place' = [o \in Obj |-> IF o \in At(e.fd) THEN "destroyed" ELSE place[o]]
        /\ fd' = [o \in Obj |-> IF o \in At(e.fd) THEN NoFd ELSE fd[o]]
        /\ ready' = [o \in Obj |-> IF o \in At(e.fd) THEN "no" ELSE ready[o]]
        /\ watched' = watched \ At(e.fd)
        /\ UNCHANGED <<max_events, at, cur, dropped>>
    BY <1>7, <1>8 DEF EraseBroken, Destroyed
  <2>2. WatchedAreOwned'  BY <2>1 DEF WatchedAreOwned
  <2>3. EpollTypeOK'  BY <2>1
  <2>4. BatchTrue(batch)'  BY <1>0, <2>1 DEF BatchTrue
  <2> QED BY <2>1, <2>2, <2>3, <2>4 DEF BatchTrue
<1>9. ASSUME NEW e \in batch, CallAction(e) PROVE EpollInv'
  <2>1. /\ batch' = batch \ {e} /\ stale' \in SUBSET (Obj \X Obj)
        /\ at' = "acting" /\ cur' \in Obj /\ place[cur'] = "lookup"
        /\ UNCHANGED <<place, fd, ready, watched, max_events, dropped>>
    BY <1>7, <1>9 DEF CallAction, At, objVars
  <2>2. WatchedAreOwned'  BY <2>1 DEF WatchedAreOwned
  <2>3. EpollTypeOK'  BY <2>1
  <2> QED BY <2>1, <2>2, <2>3 DEF BatchTrue
<1>10. ASSUME NEW e \in batch, NoSuchObject(e) PROVE EpollInv'
  <2>1. /\ at = "batch" /\ batch' = batch \ {e} /\ stale' \in SUBSET (Obj \X Obj)
        /\ At(e.fd) = {} /\ watched' = {o \in watched : fd[o] # e.fd}
        /\ UNCHANGED <<place, fd, ready, max_events, at, cur, dropped>>
    BY <1>7, <1>10 DEF NoSuchObject, Unwatch, objVars
  <2>2. WatchedAreOwned'  BY <2>1 DEF WatchedAreOwned, At
  <2>3. EpollTypeOK'  BY <2>1
  <2> QED BY <2>1, <2>2, <2>3 DEF BatchTrue
<1>11. ASSUME BatchDone PROVE EpollInv'
  BY <1>11 DEF BatchDone, objVars, WatchedAreOwned, BatchTrue
<1>12. ASSUME ActionReturns PROVE EpollInv'
  <2>1. /\ at = "acting" /\ at' = "batch" /\ cur' = NoObj
        /\ ready' = ready \/ (ready[cur] = "in" /\ ready' = [ready EXCEPT ![cur] = "no"])
        /\ UNCHANGED <<place, fd, watched, max_events, batch, stale, dropped>>
    BY <1>12 DEF ActionReturns, objVars
  <2>2. WatchedAreOwned'  BY <2>1 DEF WatchedAreOwned
  <2>3. EpollTypeOK'  BY <2>1
  <2>4. BatchTrue(batch)'  BY <1>0, <2>1 DEF BatchTrue
  <2> QED BY <2>1, <2>2, <2>3, <2>4 DEF BatchTrue
<1>13. ASSUME ActionOutOfRange PROVE EpollInv'
  <2>1. /\ at = "acting" /\ at' = "batch" /\ cur' = NoObj
        /\ watched' = {o \in watched : fd[o] # fd[cur]}
        /\ dropped' = dropped \cup {cur}
        /\ UNCHANGED <<place, fd, ready, max_events, batch, stale>>
    BY <1>13 DEF ActionOutOfRange, Unwatch, objVars
  <2>2. WatchedAreOwned'  BY <2>1 DEF WatchedAreOwned
  <2>3. EpollTypeOK'  BY <2>1
  <2>4. BatchTrue(batch)'  BY <1>0, <2>1 DEF BatchTrue
  <2> QED BY <2>1, <2>2, <2>3, <2>4 DEF BatchTrue
<1>14. ASSUME ActionThrows PROVE EpollInv'
  <2>1. /\ at = "acting" /\ at' = "outside" /\ batch' = {} /\ cur' = NoObj
        /\ place' = [place EXCEPT ![cur] = "caller"]
        /\ watched' = {o \in watched : fd[o] # fd[cur]}
        /\ UNCHANGED <<fd, ready, max_events, stale, dropped>>
    BY <1>14 DEF ActionThrows, LeaveWait, Unwatch
  <2>2. WatchedAreOwned'  BY <2>1 DEF WatchedAreOwned
  <2>3. EpollTypeOK'  BY <2>1
  <2> QED BY <2>1, <2>2, <2>3 DEF BatchTrue
<1>15. CASE UNCHANGED vars
  BY <1>15 DEF vars, objVars, waitVars, WatchedAreOwned, BatchTrue
<1> QED BY <1>1, <1>2, <1>3, <1>4, <1>5, <1>6, <1>8, <1>9, <1>10, <1>11, <1>12,
           <1>13, <1>14, <1>15 DEF Next, User, Kernel, HandleEvent, ActionEnds

LEMMA EpollInvariant == Spec => []EpollInv
BY EpollInitInv, EpollStep, PTL DEF Spec

\* Every variable keeps its type; the events of a batch name descriptors, never
\* always_block_code.
THEOREM EpollTypeCorrect == Spec => []EpollTypeOK
<1>1. EpollInv => EpollTypeOK  BY DEF EpollInv
<1> QED BY <1>1, EpollInvariant, PTL

\* The kernel's set and fd_lookup agree, for any number of objects.
THEOREM WatchedAlwaysOwned == Spec => []WatchedAreOwned
<1>1. EpollInv => WatchedAreOwned  BY DEF EpollInv
<1> QED BY <1>1, EpollInvariant, PTL

\* EPoll destroys an object only if its descriptor broke or a stale event of a
\* destroyed object hit it.
THEOREM OnlyBrokenErased == Spec => ErasedOnlyIfBroken
<1> DEFINE Erased(o) == place[o] = "lookup" /\ place'[o] = "destroyed"
           Excuse(o) == \/ ready[o] = "hup"
                        \/ \E p \in Obj : <<p, o>> \in stale' /\ place[p] = "destroyed"
<1>1. ASSUME EpollInv, Next, NEW o \in Obj, Erased(o) PROVE Excuse(o)
  <2>1. PICK e \in batch : EraseBroken(e) /\ o \in At(e.fd)
    <3>1. \A p \in Obj : ~MakeObject(p) /\ ~DestroyObject(p) /\ ~add(p) /\ ~remove(p)
      BY <1>1 DEF MakeObject, DestroyObject, add, remove, EpollInv, EpollTypeOK
    <3>2. ~Kernel /\ ~EpollWait /\ ~BatchDone /\ ~ActionEnds
      BY <1>1 DEF Kernel, BecomesReady, EpollWait, BatchDone, ActionEnds, objVars,
         ActionReturns, ActionOutOfRange, ActionThrows, EpollInv, EpollTypeOK
    <3>3. \A e \in batch : ~CallAction(e) /\ ~NoSuchObject(e)
      BY <1>1 DEF CallAction, NoSuchObject, objVars
    <3> QED BY <1>1, <3>1, <3>2, <3>3 DEF Next, User, HandleEvent, EraseBroken
  <2>2. e.obj = o \/ place[e.obj] = "destroyed"  BY <1>1, <2>1, EventsObject
  <2>3. CASE e.obj = o
    BY <1>1, <2>1, <2>3 DEF EpollInv, EraseBroken, BatchTrue
  <2>4. CASE e.obj # o
    <3>1. <<e.obj, o>> \in stale'
      BY <2>1, <2>4 DEF EraseBroken, TakeEvent
    <3> QED BY <1>1, <2>2, <2>4, <3>1, EventsObject
  <2> QED BY <2>3, <2>4
<1>2. EpollInv /\ [Next]_vars => [\A o \in Obj : Erased(o) => Excuse(o)]_vars
  BY <1>1
<1> QED BY <1>2, EpollInvariant, PTL DEF Spec, ErasedOnlyIfBroken
=============================================================================
