------------------------------ MODULE MCQueue ------------------------------
(***************************************************************************)
(* SpscQueue and BlockingQueue for TLC.                                    *)
(***************************************************************************)
EXTENDS BlockingQueue

Plain(size, blocks, items) ==
  [maxSize |-> size, MAX_BLOCK_SIZE |-> blocks, blocking |-> FALSE, maxItems |-> items]

\* One block that fills and forces a second, larger or not, and a third; the
\* circle of five blocks that the constructor makes for four items, used more
\* than once round; and a queue whose consumer waits.
MCQueues ==
  {Plain(1, 2, 5), Plain(1, 4, 4), Plain(2, 4, 5), Plain(4, 2, 6),
   [Plain(1, 2, 3) EXCEPT !.blocking = TRUE]}
=============================================================================
