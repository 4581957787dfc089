-------------------------------- MODULE Fifo --------------------------------
(***************************************************************************)
(* What a queue of one producer and one consumer promises, whatever blocks *)
(* and indices lie below.  Items are numbered in the order they are put.   *)
(* A get takes or looks at the oldest item; it may say that the queue is   *)
(* empty if it was when the get was called.  A put may be refused only if  *)
(* the queue held Capacity items when the put was called.                  *)
(***************************************************************************)
EXTENDS Naturals, Sequences

VARIABLES
  capacity,  \* the number of items it was made for
  contents,  \* the items put and not taken, oldest first
  puts,      \* items put so far
  putting,   \* a put is in progress
  held,      \* the number of items when it was called
  getting,   \* "no", "take" or "look"
  wasEmpty,  \* there was no item when it was called
  answer     \* the item the last get saw, 0 for none

vars == <<capacity, contents, puts, putting, held, getting, wasEmpty, answer>>

Init ==
  /\ capacity \in Nat
  /\ contents = <<>> /\ puts = 0
  /\ putting = FALSE /\ held = 0
  /\ getting = "no" /\ wasEmpty = FALSE /\ answer = 0

CallPut ==
  /\ ~putting /\ putting' = TRUE
  /\ held' = Len(contents)
  /\ UNCHANGED <<capacity, contents, puts, getting, wasEmpty, answer>>

Put ==
  /\ putting /\ putting' = FALSE
  /\ contents' = Append(contents, puts + 1)
  /\ puts' = puts + 1 /\ held' = 0
  /\ UNCHANGED <<capacity, getting, wasEmpty, answer>>

Refuse ==
  /\ putting /\ putting' = FALSE
  /\ held >= capacity /\ held' = 0
  /\ UNCHANGED <<capacity, contents, puts, getting, wasEmpty, answer>>

CallGet(op) ==
  /\ getting = "no" /\ getting' = op
  /\ wasEmpty' = (contents = <<>>)
  /\ answer' = 0
  /\ UNCHANGED <<capacity, contents, puts, putting, held>>

Take ==
  /\ getting = "take" /\ getting' = "no" /\ wasEmpty' = FALSE
  /\ contents # <<>>
  /\ answer' = Head(contents) /\ contents' = Tail(contents)
  /\ UNCHANGED <<capacity, puts, putting, held>>

Look ==
  /\ getting = "look" /\ getting' = "no" /\ wasEmpty' = FALSE
  /\ contents # <<>>
  /\ answer' = Head(contents)
  /\ UNCHANGED <<capacity, contents, puts, putting, held>>

SayEmpty ==
  /\ getting # "no" /\ getting' = "no" /\ wasEmpty' = FALSE
  /\ wasEmpty
  /\ UNCHANGED <<capacity, contents, puts, putting, held, answer>>

\* The queue is destroyed with what is in it.
Destroy ==
  /\ ~putting /\ getting = "no"
  /\ contents' = <<>>
  /\ UNCHANGED <<capacity, puts, putting, held, getting, wasEmpty, answer>>

Next ==
  \/ CallPut \/ Put \/ Refuse
  \/ (\E op \in {"take", "look"} : CallGet(op)) \/ Take \/ Look \/ SayEmpty
  \/ Destroy

Spec == Init /\ [][Next]_vars
=============================================================================
