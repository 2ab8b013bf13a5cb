------------------------- MODULE CooperativeScheduler -------------------------
(***************************************************************************)
(* What the thread library of a1-chenz347 promises: one thread runs, the   *)
(* others that are alive wait in the order they will run, and control      *)
(* changes hands only when the running thread says so.                     *)
(***************************************************************************)
EXTENDS SequencesExt

CONSTANTS Tids, Main, NULL

VARIABLES
    running,    \* the thread that runs
    waiting,    \* the threads that are ready, the next one first
    ended       \* the program has exited

schedulerVars == <<running, waiting, ended>>

Alive(t) == t = running \/ Contains(waiting, t)

SchedInit ==
    /\ running = Main
    /\ waiting = <<>>
    /\ ended = FALSE

Create(t) ==
    /\ ~ Alive(t)
    /\ waiting' = Append(waiting, t)
    /\ UNCHANGED <<running, ended>>

Kill(t) ==
    /\ Contains(waiting, t)
    /\ waiting' = RemoveFirst(waiting, t)
    /\ UNCHANGED <<running, ended>>

\* The next thread runs; the last one ends the program.
Exit ==
    IF waiting = <<>>
    THEN /\ running' = NULL
         /\ ended' = TRUE
         /\ UNCHANGED waiting
    ELSE /\ running' = Head(waiting)
         /\ waiting' = Tail(waiting)
         /\ UNCHANGED ended

\* The caller runs again after all threads that are ready now.
YieldTo(t) ==
    /\ Contains(waiting, t)
    /\ running' = t
    /\ waiting' = Append(RemoveFirst(waiting, t), running)
    /\ UNCHANGED ended

Yield == waiting # <<>> /\ YieldTo(Head(waiting))

SchedNext ==
    /\ ~ ended
    /\ \/ Exit
       \/ Yield
       \/ \E t \in Tids : Create(t) \/ Kill(t) \/ YieldTo(t)

SchedSpec == SchedInit /\ [][SchedNext]_schedulerVars
=============================================================================
