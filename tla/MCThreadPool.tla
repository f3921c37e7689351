---------------------------- MODULE MCThreadPool ----------------------------
(***************************************************************************)
(* A pool of two workers, two calling threads and four tasks, one of them  *)
(* a receive loop that keeps its worker until the socket is closed.        *)
(***************************************************************************)
EXTENDS ThreadPool, TLC

CONSTANTS w1, w2, c1, c2, t1, t2, t3, loop

MCWorkers == {w1, w2}
MCCallers == {c1, c2}
MCTasks == {t1, t2, t3, loop}
MCLoopTasks == {loop}
=============================================================================
