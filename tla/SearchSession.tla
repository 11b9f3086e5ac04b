---------------------------- MODULE SearchSession ----------------------------
(***************************************************************************)
(* What the mission layer may rely on when it asks for a search: each      *)
(* event is taken at most once, at most one search runs, and a search that *)
(* ends is either answered once, for the event that asked for it, or       *)
(* dropped without an answer.                                              *)
(***************************************************************************)

CONSTANTS
    Events,    \* detection events that may trigger a search
    Outcomes,  \* what an answer may say
    NoEvent

VARIABLES
    session,   \* the event whose search runs, or NoEvent
    taken,     \* events that were offered and will not be taken again
    answers    \* <<event, outcome>> pairs reported so far

svars == <<session, taken, answers>>

SessionInit ==
    /\ session = NoEvent
    /\ taken = {}
    /\ answers = {}

Begin(e) ==
    /\ session = NoEvent
    /\ e \notin taken
    /\ session' = e
    /\ taken' = taken \union {e}
    /\ UNCHANGED answers

\* An event that arrives while another search runs is used up.
Coalesce(e) ==
    /\ session # NoEvent
    /\ e \notin taken
    /\ taken' = taken \union {e}
    /\ UNCHANGED <<session, answers>>

Answer(outcome) ==
    /\ session # NoEvent
    /\ answers' = answers \union {<<session, outcome>>}
    /\ session' = NoEvent
    /\ UNCHANGED taken

Drop ==
    /\ session # NoEvent
    /\ session' = NoEvent
    /\ UNCHANGED <<taken, answers>>

SessionNext ==
    \/ \E e \in Events : Begin(e) \/ Coalesce(e)
    \/ \E outcome \in Outcomes : Answer(outcome)
    \/ Drop

SessionSpec == SessionInit /\ [][SessionNext]_svars

=============================================================================
