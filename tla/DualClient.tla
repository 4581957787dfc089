----------------------------- MODULE DualClient -----------------------------
(***************************************************************************)
(* dual_connection on the client: a data and a control connection over one *)
(* SocketBundle (BatchedClient), the user's thread, which receives on the  *)
(* data connection, and the one thread of the pool check_control_exn,      *)
(* which waits for something to arrive on the control connection, sets     *)
(* control_exn_thrown and interrupts the data connection.  The user's      *)
(* thread then throws a ControlChannel: while that object lives the user   *)
(* may read the control connection, and its destructor resets everything   *)
(* and sends the pool's thread back to wait.                               *)
(***************************************************************************)
EXTENDS BatchedClient

CONSTANTS Data, Ctl

ASSUME DualAssumption == Conn = {Data, Ctl} /\ Data # Ctl /\ 0 \in Requests

VARIABLES
  exn,     \* control_exn_thrown
  active,  \* holder of control_channel_active: "nobody", "user" or "pool"
  user,    \* where the user's thread is
  pool,    \* where the pool's thread is
  tasks    \* copies of check_control_fun in the pool's queue

dualVars == <<exn, active, user, pool, tasks>>
allVars  == <<vars, dualVars>>

\* The user's thread: outside; about to read the flag; about to throw because
\* it was set; in data->raw_receive; in the catch block; with a ControlChannel
\* in hand; reading from that; in its destructor; in ~dual_connection; after.
UserPlaces == {"out", "check", "rethrow", "data", "caught", "handling", "reading",
               "reset", "push", "clear", "dying", "gone"}
\* ~ControlChannel, and the whole life of the ControlChannel.
Destroying == {"reset", "push", "clear"}
InChannel  == {"handling", "reading"} \cup Destroying

DualTypeOK ==
  /\ TypeOK
  /\ exn \in BOOLEAN
  /\ active \in {"nobody", "user", "pool"}
  /\ user \in UserPlaces
  /\ pool \in {"idle", "peek", "set", "interrupt"}
  /\ tasks \in Nat

DualInit ==
  /\ Init
  /\ exn = FALSE /\ active = "nobody" /\ user = "out" /\ pool = "idle"
  /\ tasks = 1

UserGoto(from, to) == user = from /\ user' = to

----------------------------------------------------------------------------
(* dual_connection::raw_receive.                                           *)

DualReceive ==
  /\ UserGoto("out", "check")
  /\ UNCHANGED <<vars, exn, active, pool, tasks>>

\* The flag, read under control_channel_active: if it is clear the thread
\* goes on to receive data ...
CheckClear(n) ==
  /\ UserGoto("check", "data")
  /\ active = "nobody" /\ ~exn
  /\ Call(Data, n)
  /\ UNCHANGED <<exn, active, pool, tasks>>

\* ... and if it is set, releases the lock and takes it again to throw.
CheckSet ==
  /\ UserGoto("check", "rethrow")
  /\ active = "nobody" /\ exn
  /\ UNCHANGED <<vars, exn, active, pool, tasks>>

ThrowChannel ==
  /\ UserGoto("rethrow", "handling")
  /\ active = "nobody" /\ active' = "user"
  /\ UNCHANGED <<vars, exn, pool, tasks>>

\* data->raw_receive returned, or threw something other than an interruption.
DataDone ==
  /\ UserGoto("data", "out")
  /\ pc[Data] \in {"returned", "failed"}
  /\ UNCHANGED <<vars, exn, active, pool, tasks>>

DataInterrupted ==
  /\ UserGoto("data", "caught")
  /\ pc[Data] = "interrupted"
  /\ UNCHANGED <<vars, exn, active, pool, tasks>>

\* The catch block: takes the lock, asserts the flag, throws.
CatchThrow ==
  /\ UserGoto("caught", "handling")
  /\ active = "nobody" /\ active' = "user"
  /\ UNCHANGED <<vars, exn, pool, tasks>>

----------------------------------------------------------------------------
(* The life of a ControlChannel.                                           *)

ControlReceive(n) ==
  /\ UserGoto("handling", "reading")
  /\ Call(Ctl, n)
  /\ UNCHANGED <<exn, active, pool, tasks>>

ControlDone ==
  /\ UserGoto("reading", "handling")
  /\ pc[Ctl] \in Outside
  /\ UNCHANGED <<vars, exn, active, pool, tasks>>

\* The destructor's body, then that of its member, the lock.
LeaveHandler ==
  /\ UserGoto("handling", "reset")
  /\ UNCHANGED <<vars, exn, active, pool, tasks>>

ResetExn ==
  /\ UserGoto("reset", "push")
  /\ exn' = FALSE
  /\ UNCHANGED <<vars, active, pool, tasks>>

PushCheck ==
  /\ UserGoto("push", "clear")
  /\ tasks' = tasks + 1
  /\ UNCHANGED <<vars, exn, active, pool>>

ClearAndRelease ==
  /\ UserGoto("clear", "out")
  /\ ClearInterrupt(Data)
  /\ active' = "nobody"
  /\ UNCHANGED <<exn, pool, tasks>>

----------------------------------------------------------------------------
(* ~dual_connection, and the join in the destructor of the pool.           *)

DestroySilently ==
  UserGoto("out", "dying") /\ UNCHANGED <<vars, exn, active, pool, tasks>>
Destroy ==
  /\ UserGoto("out", "dying")
  /\ Interrupt(Ctl)
  /\ UNCHANGED <<exn, active, pool, tasks>>

Joined ==
  /\ UserGoto("dying", "gone")
  /\ pool = "idle" /\ tasks = 0
  /\ UNCHANGED <<vars, exn, active, pool, tasks>>

----------------------------------------------------------------------------
(* check_control_fun in the pool's thread.                                 *)

TaskReady == tasks > 0

TakeTask ==
  /\ pool = "idle" /\ TaskReady
  /\ pool' = "peek" /\ tasks' = tasks - 1
  /\ Call(Ctl, 0)
  /\ UNCHANGED <<exn, active, user>>

PeekReturned ==
  /\ pool = "peek" /\ pc[Ctl] = "returned"
  /\ pool' = "set"
  /\ UNCHANGED <<vars, exn, active, user, tasks>>

\* The peek threw: the exception ends in the task's future, unread.
PeekThrew ==
  /\ pool = "peek" /\ pc[Ctl] \in {"interrupted", "failed"}
  /\ pool' = "idle"
  /\ UNCHANGED <<vars, exn, active, user, tasks>>

SetExnUnlocked ==
  /\ pool = "set" /\ pool' = "interrupt" /\ exn' = TRUE
  /\ UNCHANGED <<vars, active, user, tasks>>
SetExn ==
  /\ pool = "set" /\ active = "nobody"
  /\ pool' = "interrupt" /\ active' = "pool"
  /\ exn' = TRUE
  /\ UNCHANGED <<vars, user, tasks>>

InterruptDataAndWait ==
  /\ pool = "interrupt"
  /\ pool' = "idle" /\ active' = "nobody" /\ tasks' = tasks + 1
  /\ Interrupt(Data)
  /\ UNCHANGED <<exn, user>>
InterruptData ==
  /\ pool = "interrupt"
  /\ pool' = "idle" /\ active' = "nobody"
  /\ Interrupt(Data)
  /\ UNCHANGED <<exn, user, tasks>>

----------------------------------------------------------------------------

\* What the code does by itself; the user decides when to receive, to read
\* the control connection, and to destroy the dual_connection.
UserStep ==
  \/ (\E n \in Requests \ {0} : CheckClear(n)) \/ CheckSet \/ ThrowChannel
  \/ DataDone \/ DataInterrupted \/ CatchThrow
  \/ ControlDone \/ ResetExn \/ PushCheck \/ ClearAndRelease \/ Joined

UserChoice ==
  \/ DualReceive \/ LeaveHandler \/ Destroy
  \/ \E n \in Requests : ControlReceive(n)

PoolStep == TakeTask \/ PeekReturned \/ PeekThrew \/ SetExn \/ InterruptData

Below == (Server \/ \E c \in Conn : Step(c)) /\ UNCHANGED dualVars

\* After the destructor, or the dead_code of an oversized request that nobody
\* catches, there is nothing left to do.
Terminated ==
  /\ user = "gone" \/ \E c \in Conn : pc[c] = "dead"
  /\ UNCHANGED allVars

DualNext == Below \/ UserStep \/ UserChoice \/ PoolStep \/ Terminated

DualSpec == DualInit /\ [][DualNext]_allVars

\* The operating system keeps running the user's and the pool's thread, in
\* this module's code and in raw_receive; the network delivers.
DualFairSpec ==
  /\ DualSpec
  /\ \A c \in Conn : WF_allVars(Step(c) /\ UNCHANGED dualVars)
  /\ SF_allVars((\E c \in Conn : Drain(c)) /\ UNCHANGED dualVars)
  /\ WF_allVars(UserStep) /\ WF_allVars(PoolStep)

----------------------------------------------------------------------------
(* Properties.                                                             *)

\* "this means we must have gotten a response on the control channel": a
\* ReadInterruptedException reaches the catch block only after the pool's
\* thread set control_exn_thrown, never because of an interrupt left over from
\* an earlier ControlChannel (the assert at dual_connection.cpp 78-81).
InterruptMeansControl == user = "caught" => exn

\* The control connection has no lock of its own against two readers: the
\* user's thread and the pool's thread are never in its raw_receive together
\* (dual_connection.cpp 12-14, 32-36, 50).
OneControlReader == user \in InChannel \ {"clear"} => pool = "idle" /\ tasks = 0

\* Between two receives the data connection's interrupt flag and
\* control_exn_thrown say the same, so a control message is reported by the
\* next receive and by no later one (dual_connection.cpp 32-36, 49-54, 63-76).
FlagsAgree ==
  user \in {"out", "check", "rethrow"} /\ active = "nobody" =>
    (interrupted[Data] <=> exn)

\* "this socket is ready for reading and contains the message": when a
\* ControlChannel is about to be thrown, the message it was thrown for is in
\* the control connection's queue; the peek of the pool's thread did not
\* consume it (dual_connection.hpp 17; a message of size 0 would be consumed).
ChannelReady == user \in {"rethrow", "caught"} => queue[Ctl] # <<>>

\* A control message is there when its whole frame reached this process.
ControlArrived == queue[Ctl] # <<>>

\* "throw this when we get a message on the control channel": a thread that
\* waits for data comes out of its receive once a control message has arrived,
\* or dies of an oversized request (dual_connection.hpp 15, dual_connection.cpp
\* 49-83).
ControlSurfaces ==
  (ControlArrived /\ user = "data") ~> (user # "data" \/ \E c \in Conn : pc[c] = "dead")

\* ~dual_connection ends: the pool's thread, waiting for a control message
\* that never comes, is got out of its receive.
DestructorEnds == (user = "dying") ~> (user = "gone")
=============================================================================
