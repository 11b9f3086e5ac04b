------------------------------ MODULE FailSafe ------------------------------
(***************************************************************************)
(* What the perception-host navigation watchdog promises to its clients,   *)
(* without services, tokens or time.  NavWatchdog (the model of            *)
(* scripts/run_nav_watchdog.py) is shown to implement this specification.  *)
(*                                                                         *)
(*   - arming is possible only outside a reset and never out of a trip;    *)
(*   - only a tripped watchdog that is not being reset starts cancel RPCs; *)
(*   - a trip ends in one way: a reset completes, which it does only when  *)
(*     no cancel RPC is outstanding.                                       *)
(***************************************************************************)
VARIABLES mode,        \* "disarmed", "armed" or "tripped"
          draining,    \* a reset was requested and has not completed
          outstanding  \* some cancel RPC was sent and its answer not yet taken

vars == <<mode, draining, outstanding>>

Init == /\ mode = "disarmed"
        /\ draining = FALSE
        /\ outstanding = FALSE

\* A heartbeat arms the watchdog.
Arm == /\ mode # "tripped"
       /\ ~draining
       /\ mode' = "armed"
       /\ UNCHANGED <<draining, outstanding>>

\* The heartbeat went stale; the first round of cancel RPCs may start at once.
Trip == /\ mode = "armed"
        /\ ~draining
        /\ mode' = "tripped"
        /\ outstanding' \in BOOLEAN
        /\ UNCHANGED draining

\* Another round of cancel RPCs, answers being collected on the way.
CancelRound == /\ mode = "tripped"
               /\ ~draining
               /\ outstanding' \in BOOLEAN
               /\ UNCHANGED <<mode, draining>>

\* The last outstanding answer is collected while a reset is waiting for it.
Drain == /\ draining
         /\ outstanding
         /\ outstanding' = FALSE
         /\ UNCHANGED <<mode, draining>>

\* A client disarms or asks for a reset.  A trip stays in force meanwhile.
BeginReset == /\ draining' = TRUE
              /\ mode' = IF mode = "armed" THEN "disarmed" ELSE mode
              /\ UNCHANGED outstanding

CompleteReset == /\ draining
                 /\ ~outstanding
                 /\ draining' = FALSE
                 /\ mode' = "disarmed"
                 /\ UNCHANGED outstanding

Next == Arm \/ Trip \/ CancelRound \/ Drain \/ BeginReset \/ CompleteReset

Spec == Init /\ [][Next]_vars

-----------------------------------------------------------------------------
\* A cancel RPC that could still take effect exists only under the trip that
\* sent it: whoever sees the watchdog untripped cannot lose a goal to it.
CancelOnlyWhileTripped == outstanding => mode = "tripped"
=============================================================================
