------------------------------- MODULE Epoll -------------------------------
(***************************************************************************)
(* EPoll (epoll.cpp, epoll.hpp): owns objects that have a descriptor, has  *)
(* the kernel watch these, and calls an object's action when it is ready.  *)
(* One thread uses it.  wait() takes a batch of events from the kernel and *)
(* works it off; meanwhile the actions it calls may add objects, remove    *)
(* other objects, and throw.                                               *)
(*                                                                         *)
(* An object lives with the caller (in a unique_ptr, or in the exception   *)
(* that wait threw) or in fd_lookup.  Its descriptor is closed when it is  *)
(* destroyed, and only then the kernel gives the number to another.  An    *)
(* object without a descriptor has the key always_block_code.              *)
(*                                                                         *)
(* Assumed of the users: an action does not remove its own object, which   *)
(* would destroy the function that runs, and does not call wait.           *)
(*                                                                         *)
(* A few definitions stand next to faulty variants of themselves; the      *)
(* specification uses none of these.                                       *)
(***************************************************************************)
EXTENDS Naturals, FiniteSets

CONSTANTS
  Obj,       \* the objects users make
  Fd,        \* descriptor numbers
  Blocks,    \* always_block_code
  NoFd, NoObj,
  MaxAdds    \* bound: calls of add

ASSUME ObjAssumption == IsFiniteSet(Obj) /\ NoObj \notin Obj
ASSUME FdAssumption == Blocks \notin Fd /\ NoFd \notin Fd /\ NoFd # Blocks
ASSUME AddsAssumption == MaxAdds \in Nat

VARIABLES
  place,      \* where each object is: "none", "caller", "lookup", "destroyed"
  fd,         \* its descriptor
  ready,      \* its descriptor's state: "no", "in" (readable), "hup" (broken)
  watched,    \* the objects whose descriptor the kernel watches
  max_events,
  at,         \* "outside", "batch" (in wait), "acting" (in an action)
  batch,      \* events of the batch not yet worked off; obj is a history
  cur,        \* the object whose action runs
  stale,      \* history: objects hit by the event of another
  dropped     \* history: objects whose own action threw out_of_range

objVars  == <<place, fd>>
waitVars == <<at, batch, cur>>
vars == <<objVars, ready, watched, max_events, waitVars, stale, dropped>>

Live == {"caller", "lookup"}
Event == [fd : Fd, kind : {"in", "hup"}, obj : Obj]

EpollTypeOK ==
  /\ place \in [Obj -> {"none", "destroyed"} \cup Live]
  /\ fd \in [Obj -> Fd \cup {Blocks, NoFd}]
  /\ ready \in [Obj -> {"no", "in", "hup"}]
  /\ watched \in SUBSET Obj
  /\ max_events \in Nat
  /\ at \in {"outside", "batch", "acting"}
  /\ batch \in SUBSET Event
  /\ cur \in Obj \cup {NoObj}
  /\ stale \in SUBSET (Obj \X Obj)
  /\ dropped \in SUBSET Obj

Init ==
  /\ place = [o \in Obj |-> "none"]
  /\ fd = [o \in Obj |-> NoFd]
  /\ ready = [o \in Obj |-> "no"]
  /\ watched = {} /\ max_events = 0
  /\ at = "outside" /\ batch = {} /\ cur = NoObj
  /\ stale = {} /\ dropped = {}

\* What a user does, between two waits or in an action.
UserRuns == at \in {"outside", "acting"}

----------------------------------------------------------------------------
(* The users' objects and the kernel's descriptors.                        *)

InUse == {fd[o] : o \in Obj} \cap Fd
Blocker == {o \in Obj : fd[o] = Blocks}

\* An object is made with a descriptor of its own, or without one.
MakeObject(o) ==
  /\ UserRuns /\ place[o] = "none"
  /\ place' = [place EXCEPT ![o] = "caller"]
  /\ \E f \in (Fd \ InUse) \cup {Blocks} : fd' = [fd EXCEPT ![o] = f]
  /\ UNCHANGED <<ready, watched, max_events, waitVars, stale, dropped>>

\* An object that is destroyed closes its descriptor, and the kernel forgets it.
Destroyed(set) ==
  /\ fd' = [o \in Obj |-> IF o \in set THEN NoFd ELSE fd[o]]
  /\ ready' = [o \in Obj |-> IF o \in set THEN "no" ELSE ready[o]]

DestroyObject(o) ==
  /\ UserRuns /\ place[o] = "caller"
  /\ place' = [place EXCEPT ![o] = "destroyed"]
  /\ Destroyed({o})
  /\ UNCHANGED <<watched, max_events, waitVars, stale, dropped>>

BecomesReady(o, state) ==
  /\ place[o] \in Live /\ o \notin Blocker /\ ready[o] # "hup"
  /\ ready' = [ready EXCEPT ![o] = state]
  /\ UNCHANGED <<objVars, watched, max_events, waitVars, stale, dropped>>

----------------------------------------------------------------------------
(* add and remove.                                                         *)

At(f) == {o \in Obj : place[o] = "lookup" /\ fd[o] = f}

\* emplace: a second object with a key that is taken is not stored, and the
\* epoll_action that was made for it destroys it.
Emplaced(o) == IF At(fd[o]) = {} THEN "lookup" ELSE "destroyed"

Watch(o) == watched' = IF fd[o] = Blocks THEN watched ELSE watched \cup {o}

add(o) ==
  /\ UserRuns /\ place[o] = "caller" /\ max_events < MaxAdds
  /\ Watch(o)
  /\ max_events' = max_events + 1
  /\ place' = [place EXCEPT ![o] = Emplaced(o)]
  /\ Destroyed(IF Emplaced(o) = "destroyed" THEN {o} ELSE {})
  /\ dropped' = dropped \ {o}
  /\ UNCHANGED <<waitVars, stale>>

\* EPOLL_CTL_DEL names a number: whichever object has it is not watched any more.
UnwatchNothing(f) == UNCHANGED watched
Unwatch(f) == watched' = {o \in watched : fd[o] # f}

remove(o) ==
  /\ UserRuns /\ place[o] = "lookup" /\ o # cur
  /\ place' = [place EXCEPT ![o] = "caller"]
  /\ Unwatch(fd[o])
  /\ UNCHANGED <<fd, ready, max_events, waitVars, stale, dropped>>

----------------------------------------------------------------------------
(* wait.                                                                   *)

ReadyEvents ==
  {[fd |-> fd[o], kind |-> ready[o], obj |-> o] : o \in {p \in watched : ready[p] # "no"}}

AtMostOne == 1
AtMost == max_events

\* epoll_wait: as many of the ready descriptors as fit, in any order.
EpollWait ==
  /\ at = "outside" /\ at' = "batch"
  /\ batch' \in SUBSET ReadyEvents
  /\ batch' # {}
  /\ Cardinality(batch') <= AtMost
  /\ Cardinality(batch') < AtMost => batch' = ReadyEvents
  /\ UNCHANGED <<objVars, ready, watched, max_events, cur, stale, dropped>>

\* An event taken from the batch reaches the object that has its number now.
TakeEvent(e) ==
  /\ at = "batch" /\ e \in batch
  /\ batch' = batch \ {e}
  /\ stale' = stale \cup {<<e.obj, o>> : o \in At(e.fd) \ {e.obj}}

\* EPOLLERR or EPOLLHUP: erased, which destroys the object.
EraseBroken(e) ==
  /\ TakeEvent(e) /\ e.kind = "hup"
  /\ place' = [o \in Obj |-> IF o \in At(e.fd) THEN "destroyed" ELSE place[o]]
  /\ Destroyed(At(e.fd))
  /\ watched' = watched \ At(e.fd)
  /\ UNCHANGED <<max_events, at, cur, dropped>>

CallAction(e) ==
  /\ TakeEvent(e) /\ e.kind = "in"
  /\ cur' \in At(e.fd)
  /\ at' = "acting"
  /\ UNCHANGED <<objVars, ready, watched, max_events, dropped>>

\* fd_lookup.at throws out_of_range.
NoSuchObject(e) ==
  /\ TakeEvent(e) /\ e.kind = "in" /\ At(e.fd) = {}
  /\ Unwatch(e.fd)
  /\ UNCHANGED <<objVars, ready, max_events, at, cur, dropped>>

BatchDone ==
  /\ at = "batch" /\ batch = {} /\ at' = "outside"
  /\ UNCHANGED <<objVars, ready, watched, max_events, batch, cur, stale, dropped>>

\* An action returns; it has read what was there, or not.
ActionReturns ==
  /\ at = "acting" /\ at' = "batch" /\ cur' = NoObj
  /\ \/ UNCHANGED ready
     \/ ready[cur] = "in" /\ ready' = [ready EXCEPT ![cur] = "no"]
  /\ UNCHANGED <<objVars, watched, max_events, batch, stale, dropped>>

\* It throws out_of_range, which wait takes for its own: the object stays in
\* fd_lookup, but is not watched any more.
ActionOutOfRange ==
  /\ at = "acting" /\ at' = "batch" /\ cur' = NoObj
  /\ Unwatch(fd[cur])
  /\ dropped' = dropped \cup {cur}
  /\ UNCHANGED <<objVars, ready, max_events, batch, stale>>

\* epoll_removed_exception leaves wait; the rest of the batch is forgotten.
LeaveWait == at' = "outside" /\ batch' = {}

ActionDestroys ==
  /\ at = "acting" /\ cur' = NoObj
  /\ place' = [place EXCEPT ![cur] = "destroyed"]
  /\ Destroyed({cur})
  /\ watched' = watched \ {cur}
  /\ LeaveWait
  /\ UNCHANGED <<max_events, stale, dropped>>

\* It throws something else: the object goes to the caller in the exception.
ActionThrows ==
  /\ at = "acting" /\ cur' = NoObj
  /\ place' = [place EXCEPT ![cur] = "caller"]
  /\ Unwatch(fd[cur])
  /\ LeaveWait
  /\ UNCHANGED <<fd, ready, max_events, stale, dropped>>

----------------------------------------------------------------------------

User == \E o \in Obj : MakeObject(o) \/ DestroyObject(o) \/ add(o) \/ remove(o)
Kernel == \E o \in Obj : \E state \in {"in", "hup"} : BecomesReady(o, state)

HandleEvent ==
  \E e \in batch : EraseBroken(e) \/ CallAction(e) \/ NoSuchObject(e)
ActionEnds == ActionReturns \/ ActionOutOfRange \/ ActionThrows

Next == User \/ Kernel \/ EpollWait \/ HandleEvent \/ BatchDone \/ ActionEnds

Spec == Init /\ [][Next]_vars

\* The thread runs and calls wait again and again, and actions end.  The
\* kernel puts a level-triggered descriptor it has reported at the end of its
\* list, so one that stays ready comes first some time.
Fairness ==
  /\ WF_vars(EpollWait) /\ WF_vars(HandleEvent) /\ WF_vars(BatchDone)
  /\ WF_vars(ActionEnds)
  /\ \A o \in Obj : SF_vars(\E e \in batch : e.obj = o /\ CallAction(e))

FairSpec == Spec /\ Fairness
----------------------------------------------------------------------------
(* Properties.                                                             *)

\* The kernel's set and fd_lookup agree, through broken descriptors, reused
\* numbers, keys that collide and actions that throw: only objects that EPoll
\* owns are watched; every object it owns is watched, except one without
\* descriptor and one whose own action threw out_of_range; and no two of them
\* have one key (epoll.cpp 37-63, epoll.hpp 95-131).
WatchedAreOwned ==
  /\ \A o \in watched : place[o] = "lookup" /\ o \notin Blocker
  /\ \A o \in Obj : place[o] = "lookup" => o \in watched \cup Blocker \cup dropped
  /\ \A o, p \in Obj :
       place[o] = "lookup" /\ place[p] = "lookup" /\ fd[o] = fd[p] => o = p

\* EPoll destroys an object of its own only because its descriptor broke, or
\* because the event of a broken one hit it that was destroyed in the same
\* batch and whose number it got; an object whose action throws is "removed
\* from epoll set and returned to caller" (epoll.cpp 31-42, 54-63, epoll.hpp 75).
ErasedOnlyIfBroken ==
  [][\A o \in Obj : place[o] = "lookup" /\ place'[o] = "destroyed" =>
       \/ ready[o] = "hup"
       \/ \E p \in Obj : <<p, o>> \in stale' /\ place[p] = "destroyed"]_vars

\* An object that is ready is served, although actions of others throw and
\* the rest of their batch is forgotten (epoll.cpp 54-64).
ReadyServed ==
  \A o \in Obj :
    (o \in watched /\ ready[o] = "in") ~> (cur = o \/ o \notin watched \/ ready[o] # "in")
=============================================================================
