------------------------ MODULE CoyoteMission_proofs ------------------------
(***************************************************************************)
(* Proofs about one Coyote mission after the other, for any events, any    *)
(* outcomes of a search and any number of Stand/Sit commands under way.    *)
(***************************************************************************)
EXTENDS CoyoteMission, FiniteSetTheorems, TLAPS

-----------------------------------------------------------------------------
(* The inductive invariant.                                                *)

SessionTypeOK ==
  session \in MaybeEvent /\ taken \subseteq Events /\ answers \subseteq Events \X Outcomes

\* The toggles are counted from the decision to stand up.
TogglesCounted == start \in {"speaking", "deciding"} => attempt = 0

\* The stages of a mission take turns: while one is on, those before and after
\* it are empty, and all of them carry the event of the slot.
Turns ==
  /\ start # "none" => /\ slot # NoEvent /\ ordered = {} /\ session = NoEvent
                       /\ complete = {} /\ work = NoWork
  /\ ordered # {} => ordered = {slot} /\ session = NoEvent /\ complete = {} /\ work = NoWork
  /\ session # NoEvent => session = slot /\ complete = {} /\ work = NoWork
  /\ complete # {} => work = NoWork /\ \E o \in Outcomes : complete = {<<slot, o>>}
  /\ work # NoWork => work.event = slot

\* Each stage finds the cues of the stage before it switched off.
CuesInTurn ==
  /\ start # "none" => armedCue = NoEvent /\ barking = {}
  /\ complete # {} => led = NoEvent
  /\ work # NoWork => led = NoEvent /\ armedCue = NoEvent /\ barking = {}

\* What is under way to be reported has been answered by the search.
ReportsAnswered ==
  /\ complete \subseteq answers
  /\ work.step \in {"capture", "gesture", "cue"} => <<work.event, "TARGET_REACHED">> \in answers

\* A search that will be refused is refused because of a fault.
RefusalsAreFaults ==
  /\ latched => faulted
  /\ (start # "none" \/ ordered # {}) /\ slot \in taken => faulted

\* Nobody works for the slot any more only after a fault, or on the way home of
\* a search without a target.
SomebodyWorks ==
  slot # NoEvent =>
    \/ start # "none" \/ ordered # {} \/ session # NoEvent \/ complete # {} \/ work # NoWork
    \/ faulted \/ <<slot, "NOT_FOUND">> \in answers

\* The life of a mission.
Life ==
  /\ Turns /\ CuesInTurn /\ CuesBelongToSlot /\ ReportsAnswered /\ CompleteBeforeHome
  /\ RefusalsAreFaults /\ SomebodyWorks

MissionIInv == MissionTypeOK /\ SessionTypeOK /\ TogglesCounted /\ Life

-----------------------------------------------------------------------------
(* What the invariant says in the terms of the properties.                 *)

\* A set whose members are all equal to one of them has one member.
LEMMA OneMember ==
  ASSUME NEW S, NEW a \in S, \A b \in S : b = a
  PROVE  Cardinality(S) = 1
<1>1. S = {a}
  OBVIOUS
<1> QED  BY <1>1, FS_Singleton

LEMMA TurnsMeanOneMover ==
  ASSUME MissionTypeOK, SessionTypeOK, Turns
  PROVE  OneMover
<1> SUFFICES ASSUME NEW e \in Events, NEW a \in Doing(e)
             PROVE  slot = e /\ \A b \in Doing(e) : b = a
  BY OneMember DEF OneMover
<1>0. e # NoEvent /\ NoWork.event = NoEvent
  BY MissionAssumption DEF MissionAssumption, NoWork
<1>1. a \in {"stand", "order", "search", "report", "work"}
  BY DEF Doing
<1>2. slot = e
  <2>1. CASE a = "stand"
    BY <2>1 DEF Doing
  <2>2. CASE a = "order"
    BY <2>2 DEF Doing, Turns
  <2>3. CASE a = "search"
    BY <1>0, <2>3 DEF Doing, Turns
  <2>4. CASE a = "report"
    <3>1. PICK o \in Outcomes : <<e, o>> \in complete
      BY <2>4 DEF Doing
    <3>2. PICK p \in Outcomes : complete = {<<slot, p>>}
      BY <3>1 DEF Turns
    <3> QED  BY <3>1, <3>2
  <2>5. CASE a = "work"
    BY <1>0, <2>5 DEF Doing, Turns
  <2> QED  BY <1>1, <2>1, <2>2, <2>3, <2>4, <2>5
<1>3. "stand" \in Doing(e) => start # "none"
  BY DEF Doing
<1>4. "order" \in Doing(e) => ordered # {}
  BY DEF Doing
<1>5. "search" \in Doing(e) => session # NoEvent
  BY <1>0 DEF Doing
<1>6. "report" \in Doing(e) => complete # {}
  BY DEF Doing
<1>7. "work" \in Doing(e) => work # NoWork
  BY <1>0 DEF Doing
<1>8. \A b \in Doing(e) : b \in {"stand", "order", "search", "report", "work"}
  BY DEF Doing
<1> QED  BY <1>1, <1>2, <1>3, <1>4, <1>5, <1>6, <1>7, <1>8 DEF Turns

LEMMA StrandedMeaning ==
  ASSUME MissionTypeOK, SessionTypeOK, Turns, SomebodyWorks
  PROVE  StrandedOnlyByFault
<1> SUFFICES ASSUME NEW e \in Events, slot = e, Doing(e) = {}
             PROVE  faulted \/ <<e, "NOT_FOUND">> \in answers
  BY DEF StrandedOnlyByFault, Stranded
<1>0. e # NoEvent
  BY MissionAssumption DEF MissionAssumption
<1>1. \A a \in {"stand", "order", "search", "report", "work"} : a \notin Doing(e)
  OBVIOUS
<1>2. start = "none"
  BY <1>1 DEF Doing
<1>3. ordered = {}
  BY <1>1 DEF Doing, Turns
<1>4. session = NoEvent
  BY <1>1 DEF Doing, Turns
<1>5. complete = {}
  BY <1>1 DEF Doing, Turns
<1>6. work = NoWork
  BY <1>1 DEF Doing, Turns
<1> QED  BY <1>0, <1>2, <1>3, <1>4, <1>5, <1>6 DEF SomebodyWorks

-----------------------------------------------------------------------------
(* The stand routine.                                                      *)

\* A mission takes a free slot: nothing of an earlier one is left.
LEMMA TriggerLife ==
  ASSUME MissionTypeOK, SessionTypeOK, Life, NEW e \in Events, Trigger(e)
  PROVE  Life'
<1> USE DEF Life
<1>1. /\ slot = NoEvent /\ slot' = e /\ led' = e /\ start' = "speaking"
      /\ UNCHANGED <<session, taken, answers, toggled, ordered, complete, work, armedCue,
                     barking, published, latched>>
  BY DEF Trigger, Accept, LedOn, svars, audio, mqtt
<1>9. (faulted => faulted') /\ (e \in taken => faulted')
  BY DEF Trigger
<1>2. e # NoEvent
  BY MissionAssumption DEF MissionAssumption
<1>3. start = "none" /\ ordered = {} /\ session = NoEvent /\ complete = {} /\ work = NoWork
  <2>1. /\ start = "none" /\ session = NoEvent
    BY <1>1 DEF Turns
  <2>2. ordered = {}
    BY <1>1, MissionAssumption DEF Turns, MissionTypeOK, MissionAssumption
  <2>3. complete = {}
    BY <1>1, MissionAssumption DEF Turns, MissionTypeOK, MissionAssumption
  <2>4. work = NoWork
    BY <1>1, MissionAssumption DEF Turns, MissionTypeOK, MissionAssumption
  <2> QED  BY <2>1, <2>2, <2>3, <2>4
<1>4. led = NoEvent /\ toggled = NoEvent /\ armedCue = NoEvent /\ barking = {}
  BY <1>1, MissionAssumption DEF CuesBelongToSlot, MissionTypeOK, MissionAssumption
<1>5. Turns' /\ CuesInTurn' /\ CuesBelongToSlot'
  BY <1>1, <1>2, <1>3, <1>4 DEF Turns, CuesInTurn, CuesBelongToSlot
<1>6. ReportsAnswered' /\ CompleteBeforeHome'
  BY <1>1 DEF ReportsAnswered, CompleteBeforeHome
<1>7. RefusalsAreFaults'
  BY <1>1, <1>9 DEF RefusalsAreFaults
<1> QED  BY <1>1, <1>5, <1>6, <1>7 DEF SomebodyWorks
\* What the stand routine leaves alone while it runs.
StandOnly ==
  /\ slot' = slot /\ start' # "none" /\ toggled' \in {toggled, slot}
  /\ (faulted => faulted')
  /\ UNCHANGED <<session, taken, answers, ordered, complete, work, led, armedCue, barking,
                 published, latched>>

LEMMA StandOnlyLife ==
  ASSUME Life, start # "none", StandOnly
  PROVE  Life'
<1>1. Turns' /\ CuesInTurn' /\ CuesBelongToSlot'
  BY DEF Life, StandOnly, Turns, CuesInTurn, CuesBelongToSlot
<1>2. ReportsAnswered' /\ CompleteBeforeHome'
  BY DEF Life, StandOnly, ReportsAnswered, CompleteBeforeHome
<1>3. RefusalsAreFaults'
  BY DEF Life, StandOnly, RefusalsAreFaults
<1> QED  BY <1>1, <1>2, <1>3 DEF Life, StandOnly, SomebodyWorks

\* The mission fails in the stand routine, and gives everything back.
LEMMA MissionFailsLife ==
  ASSUME MissionTypeOK, Life, start # "none", MissionFails, faulted',
         UNCHANGED <<session, taken, answers, ordered, complete, work, armedCue, barking,
                     published, latched>>
  PROVE  Life'
<1>1. slot' = NoEvent /\ toggled' = NoEvent /\ start' = "none" /\ led' = IF led = slot THEN NoEvent ELSE led
  BY DEF MissionFails, LedOff
<1>2. led' = NoEvent
  BY <1>1 DEF Life, CuesBelongToSlot
<1>3. Turns' /\ CuesInTurn' /\ CuesBelongToSlot'
  BY <1>1, <1>2 DEF Life, Turns, CuesInTurn, CuesBelongToSlot
<1>4. ReportsAnswered' /\ CompleteBeforeHome'
  BY DEF Life, ReportsAnswered, CompleteBeforeHome
<1> QED  BY <1>1, <1>3, <1>4 DEF Life, RefusalsAreFaults, SomebodyWorks

\* The search is ordered, and the cue armed.
LEMMA ReadyToSearchLife ==
  ASSUME MissionTypeOK, Life, ReadyToSearch
  PROVE  Life'
<1>1. /\ start # "none" /\ start' = "none" /\ armedCue' = slot /\ ordered' = ordered \cup {slot}
      /\ UNCHANGED <<session, taken, answers, slot, toggled, complete, work, led, barking,
                     published, latched, faulted>>
  BY DEF ReadyToSearch, svars, mqtt
<1>2. slot # NoEvent /\ ordered' = {slot} /\ session = NoEvent /\ complete = {} /\ work = NoWork
  BY <1>1 DEF Life, Turns
<1>3. Turns' /\ CuesInTurn' /\ CuesBelongToSlot'
  BY <1>1, <1>2 DEF Life, Turns, CuesInTurn, CuesBelongToSlot
<1>4. ReportsAnswered' /\ CompleteBeforeHome'
  BY <1>1 DEF Life, ReportsAnswered, CompleteBeforeHome
<1> QED  BY <1>1, <1>2, <1>3, <1>4 DEF Life, RefusalsAreFaults, SomebodyWorks

LEMMA StandThreadLife ==
  ASSUME MissionTypeOK, Life, StandThread
  PROVE  Life'
<1>1. CASE ReadyToSearch
  BY <1>1, ReadyToSearchLife
<1>2. CASE SpeechEnds
  <2>1. start # "none" /\ StandOnly
    BY <1>2 DEF SpeechEnds, StandOnly, others, svars, audio, mqtt
  <2> QED  BY <2>1, StandOnlyLife
<1>3. CASE SpeechFails
  BY <1>3, MissionFailsLife DEF SpeechFails, Fault, others, svars, audio, mqtt
<1>4. CASE AskToStand
  <2>1. start # "none" /\ StandOnly
    BY <1>4 DEF AskToStand, Proceed, ToggleToStand, StandOnly, others, svars, audio, mqtt
  <2> QED  BY <2>1, StandOnlyLife
<1>5. CASE StandObserved
  <2>1. start # "none" /\ StandOnly
    BY <1>5 DEF StandObserved, Proceed, StandOnly, others, svars, audio, mqtt
  <2> QED  BY <2>1, StandOnlyLife
<1>6. CASE StandTimeout
  <2>1. /\ start # "none" /\ faulted'
        /\ UNCHANGED <<session, taken, answers, ordered, complete, work, armedCue, barking,
                       published, latched>>
    BY <1>6 DEF StandTimeout, Fault, others, svars, audio, mqtt
  <2>2. CASE MissionFails
    BY <2>1, <2>2, MissionFailsLife
  <2>3. CASE ToggleToStand
    <3>1. StandOnly
      BY <2>1, <2>3 DEF ToggleToStand, StandOnly
    <3> QED  BY <2>1, <3>1, StandOnlyLife
  <2> QED  BY <1>6, <2>2, <2>3 DEF StandTimeout
<1> QED  BY <1>1, <1>2, <1>3, <1>4, <1>5, <1>6 DEF StandThread
-----------------------------------------------------------------------------
(* The executor's callbacks.                                               *)

LEMMA TakeOrderLife ==
  ASSUME MissionTypeOK, SessionTypeOK, Life, NEW e \in Events, TakeOrder(e)
  PROVE  Life' /\ SessionTypeOK'
<1>1. /\ e \in ordered /\ ordered' = ordered \ {e}
      /\ UNCHANGED <<slot, toggled, start, work, armedCue, barking, published, complete, led,
                     latched, faulted>>
  BY DEF TakeOrder, notSearch, mission, audio
<1>2. /\ ordered = {slot} /\ e = slot /\ start = "none" /\ session = NoEvent /\ complete = {}
      /\ work = NoWork
  BY <1>1 DEF Life, Turns
<1>3. e # NoEvent
  BY MissionAssumption DEF MissionAssumption
<1>4. \/ faulted /\ UNCHANGED svars
      \/ Begin(e)
  <2>1. latched \/ e \in taken => faulted
    BY <1>1, <1>2 DEF Life, RefusalsAreFaults
  <2>2. latched \/ e \in taken => UNCHANGED svars
    BY DEF TakeOrder
  <2>3. ~(latched \/ e \in taken) => Begin(e)
    BY <1>2 DEF TakeOrder
  <2> QED  BY <2>1, <2>2, <2>3
<1>5. /\ answers' = answers /\ ordered' = {}
      /\ (faulted /\ session' = session /\ taken' = taken)
           \/ (session' = e /\ taken' = taken \cup {e})
  BY <1>1, <1>2, <1>4 DEF Begin, svars
<1>6. SessionTypeOK'
  BY <1>5 DEF SessionTypeOK, MaybeEvent
<1>7. Turns' /\ CuesInTurn' /\ CuesBelongToSlot'
  BY <1>1, <1>2, <1>5 DEF Life, Turns, CuesInTurn, CuesBelongToSlot
<1>8. ReportsAnswered' /\ CompleteBeforeHome'
  BY <1>1, <1>5 DEF Life, ReportsAnswered, CompleteBeforeHome
<1>9. RefusalsAreFaults'
  BY <1>1, <1>2, <1>5 DEF Life, RefusalsAreFaults
<1> QED  BY <1>1, <1>2, <1>3, <1>5, <1>6, <1>7, <1>8, <1>9 DEF Life, SomebodyWorks

\* The answer passes from the search to the COMPLETE event.
LEMMA SearchAnswersLife ==
  ASSUME MissionTypeOK, SessionTypeOK, Life, NEW outcome \in Outcomes, SearchAnswers(outcome)
  PROVE  Life' /\ SessionTypeOK'
<1>1. /\ session # NoEvent /\ session' = NoEvent
      /\ answers' = answers \cup {<<session, outcome>>} /\ taken' = taken
      /\ complete' = complete \cup {<<session, outcome>>}
      /\ led' = IF led = session THEN NoEvent ELSE led
      /\ UNCHANGED <<slot, toggled, start, work, armedCue, barking, published, ordered, latched,
                     faulted>>
  BY DEF SearchAnswers, Answer, LedOff, notSearch, mission, audio
<1>2. /\ session = slot /\ start = "none" /\ ordered = {} /\ complete = {} /\ work = NoWork
  BY <1>1 DEF Life, Turns
<1>3. led' = NoEvent /\ complete' = {<<slot, outcome>>}
  BY <1>1, <1>2 DEF Life, CuesBelongToSlot
<1>4. SessionTypeOK'
  BY <1>1 DEF SessionTypeOK, MaybeEvent
<1>5. Turns'
  BY <1>1, <1>2, <1>3 DEF Turns
<1>6. CuesInTurn' /\ CuesBelongToSlot'
  BY <1>1, <1>2, <1>3 DEF Life, CuesInTurn, CuesBelongToSlot
<1>7. ReportsAnswered' /\ CompleteBeforeHome'
  BY <1>1 DEF Life, ReportsAnswered, CompleteBeforeHome
<1>8. RefusalsAreFaults'
  BY <1>1, <1>2 DEF Life, RefusalsAreFaults
<1> QED  BY <1>3, <1>4, <1>5, <1>6, <1>7, <1>8 DEF Life, SomebodyWorks

\* A search that ends without an answer strands its mission: a fault.
LEMMA DropLife ==
  ASSUME SessionTypeOK, Life, Drop, faulted',
         UNCHANGED <<slot, toggled, start, work, led, armedCue, barking, published, ordered,
                     complete>>
  PROVE  Life' /\ SessionTypeOK'
<1>1. session' = NoEvent /\ answers' = answers /\ taken' = taken
  BY DEF Drop
<1>2. SessionTypeOK'
  BY <1>1 DEF SessionTypeOK, MaybeEvent
<1>3. Turns' /\ CuesInTurn' /\ CuesBelongToSlot'
  BY <1>1 DEF Life, Turns, CuesInTurn, CuesBelongToSlot
<1>4. ReportsAnswered' /\ CompleteBeforeHome'
  BY <1>1 DEF Life, ReportsAnswered, CompleteBeforeHome
<1> QED  BY <1>2, <1>3, <1>4 DEF Life, RefusalsAreFaults, SomebodyWorks

\* The bark loop belongs to the armed event, hence to the slot.
LEMMA BarkLife ==
  ASSUME Life, Bark
  PROVE  Life'
<1>1. /\ armedCue # NoEvent /\ barking' = barking \cup {armedCue}
      /\ UNCHANGED <<session, taken, answers, slot, toggled, start, ordered, complete, work, led,
                     armedCue, published, latched, faulted>>
  BY DEF Bark, svars, mission, mqtt
<1>2. Turns' /\ CuesInTurn' /\ CuesBelongToSlot'
  BY <1>1 DEF Life, Turns, CuesInTurn, CuesBelongToSlot
<1>3. ReportsAnswered' /\ CompleteBeforeHome'
  BY <1>1 DEF Life, ReportsAnswered, CompleteBeforeHome
<1> QED  BY <1>1, <1>2, <1>3 DEF Life, RefusalsAreFaults, SomebodyWorks

\* COMPLETE passes from its topic to the work of the mission.
LEMMA TakeCompleteLife ==
  ASSUME MissionTypeOK, SessionTypeOK, Life, NEW e \in Events, NEW outcome \in Outcomes,
         TakeComplete(e, outcome)
  PROVE  Life'
<1>1. /\ <<e, outcome>> \in complete /\ complete' = complete \ {<<e, outcome>>}
      /\ barking' = barking \ {e}
      /\ armedCue' = IF armedCue = e THEN NoEvent ELSE armedCue
      /\ UNCHANGED <<session, taken, answers, slot, toggled, start, ordered, led, latched>>
  BY DEF TakeComplete, svars, mission
<1>2. /\ complete = {<<slot, outcome>>} /\ e = slot
      /\ start = "none" /\ ordered = {} /\ session = NoEvent /\ work = NoWork
  <2>1. PICK o \in Outcomes : complete = {<<slot, o>>}
    BY <1>1 DEF Life, Turns
  <2>2. e = slot /\ o = outcome
    BY <1>1, <2>1
  <2> QED  BY <1>1, <2>1, <2>2 DEF Life, Turns
<1>3. complete' = {} /\ <<e, outcome>> \in answers /\ e # NoEvent
  BY <1>1, <1>2, MissionAssumption DEF Life, ReportsAnswered, MissionAssumption
<1>4. led' = NoEvent /\ armedCue' = NoEvent /\ barking' = {}
  BY <1>1, <1>2 DEF Life, CuesInTurn, CuesBelongToSlot
<1>5. CASE /\ outcome = "TARGET_REACHED"
           /\ work' = [event |-> e, step |-> "capture"]
           /\ UNCHANGED <<published, faulted>>
  <2>1. work'.event = e /\ work'.step = "capture"
    BY <1>5
  <2>2. work' # NoWork
    BY <1>3, <2>1 DEF NoWork
  <2>3. Turns' /\ CuesInTurn' /\ CuesBelongToSlot'
    BY <1>1, <1>2, <1>3, <1>4, <2>1, <2>2 DEF Life, Turns, CuesInTurn, CuesBelongToSlot
  <2>4. ReportsAnswered' /\ CompleteBeforeHome'
    BY <1>1, <1>3, <1>5, <2>1 DEF Life, ReportsAnswered, CompleteBeforeHome
  <2> QED  BY <1>1, <1>2, <1>5, <2>2, <2>3, <2>4 DEF Life, RefusalsAreFaults, SomebodyWorks
<1>6. CASE /\ outcome = "NOT_FOUND"
           /\ published' = published \cup {<<e, outcome>>}
           /\ work' = [event |-> e, step |-> "homing"]
           /\ UNCHANGED faulted
  <2>1. work'.event = e /\ work'.step = "homing"
    BY <1>6
  <2>2. work' # NoWork
    BY <1>3, <2>1 DEF NoWork
  <2>3. Turns' /\ CuesInTurn' /\ CuesBelongToSlot'
    BY <1>1, <1>2, <1>3, <1>4, <2>1, <2>2 DEF Life, Turns, CuesInTurn, CuesBelongToSlot
  <2>4. ReportsAnswered' /\ CompleteBeforeHome'
    BY <1>1, <1>3, <1>6, <2>1 DEF Life, ReportsAnswered, CompleteBeforeHome
  <2> QED  BY <1>1, <1>2, <1>6, <2>2, <2>3, <2>4 DEF Life, RefusalsAreFaults, SomebodyWorks
<1>7. CASE outcome = "NOT_FOUND" /\ faulted' /\ UNCHANGED <<work, published>>
  <2>1. Turns' /\ CuesInTurn' /\ CuesBelongToSlot'
    BY <1>1, <1>2, <1>3, <1>4, <1>7 DEF Life, Turns, CuesInTurn, CuesBelongToSlot
  <2>2. ReportsAnswered' /\ CompleteBeforeHome'
    BY <1>1, <1>3, <1>7 DEF Life, ReportsAnswered, CompleteBeforeHome
  <2> QED  BY <1>7, <2>1, <2>2 DEF Life, RefusalsAreFaults, SomebodyWorks
<1> QED  BY <1>5, <1>6, <1>7 DEF TakeComplete, NoFault, Fault
-----------------------------------------------------------------------------
(* The way home.                                                           *)

\* Work that is on its way has an event and a step.
LEMMA WorkUnderWay ==
  ASSUME MissionTypeOK, work.step # "none"
  PROVE  /\ work \in [event : Events, step : Steps] /\ work # NoWork /\ work.event # NoEvent
         /\ \A step : /\ [work EXCEPT !.step = step].event = work.event
                     /\ [work EXCEPT !.step = step].step = step
                     /\ [work EXCEPT !.step = step] # NoWork
<1>1. work # NoWork
  BY DEF NoWork
<1>2. work \in [event : Events, step : Steps]
  BY <1>1 DEF MissionTypeOK
<1>3. work.event # NoEvent
  BY <1>2, MissionAssumption DEF MissionAssumption
<1>4. \A step : /\ [work EXCEPT !.step = step].event = work.event
               /\ [work EXCEPT !.step = step].step = step
  BY <1>2
<1> QED  BY <1>1, <1>2, <1>3, <1>4 DEF NoWork

\* What the work leaves alone.
WorkOnly ==
  /\ start' = start /\ (faulted => faulted')
  /\ UNCHANGED <<session, taken, answers, ordered, complete, led, armedCue, barking, latched>>

\* The work goes one step on.
LEMMA WorkGoesOn ==
  ASSUME MissionTypeOK, Life, WorkOnly, work.step # "none", NEW next \in Steps \ {"capture"},
         Goto(next), UNCHANGED <<slot, toggled>>,
         published' \subseteq answers,
         next \in {"gesture", "cue"} => work.step \in {"capture", "gesture"},
         next \notin {"gesture", "cue"} => \E o \in Outcomes : <<work.event, o>> \in published'
  PROVE  Life'
<1>1. work # NoWork /\ work' # NoWork /\ work'.event = work.event /\ work'.step = next
  BY WorkUnderWay DEF Goto
<1>2. Turns' /\ CuesInTurn' /\ CuesBelongToSlot'
  BY <1>1 DEF Life, WorkOnly, Turns, CuesInTurn, CuesBelongToSlot
<1>3. ReportsAnswered'
  BY <1>1 DEF Life, WorkOnly, ReportsAnswered
<1>4. CompleteBeforeHome'
  BY <1>1 DEF Life, WorkOnly, CompleteBeforeHome
<1>5. RefusalsAreFaults'
  BY DEF Life, WorkOnly, RefusalsAreFaults
<1> QED  BY <1>1, <1>2, <1>3, <1>4, <1>5 DEF Life, SomebodyWorks

\* The work is abandoned, after a fault or on the executor's own thread.
LEMMA AbandonLife ==
  ASSUME MissionTypeOK, Life, WorkOnly, work.step # "none", Abandon,
         UNCHANGED <<slot, toggled, published>>, faulted' \/ ExecutorBusy
  PROVE  Life'
<1>1. work # NoWork /\ work' = NoWork /\ NoWork.step = "none"
  BY WorkUnderWay DEF Abandon, NoWork
<1>2. Turns' /\ CuesInTurn' /\ CuesBelongToSlot'
  BY <1>1 DEF Life, WorkOnly, Turns, CuesInTurn, CuesBelongToSlot
<1>3. ReportsAnswered' /\ CompleteBeforeHome'
  BY <1>1 DEF Life, WorkOnly, ReportsAnswered, CompleteBeforeHome, Steps
<1>4. RefusalsAreFaults'
  BY DEF Life, WorkOnly, RefusalsAreFaults
<1>5. faulted' \/ <<slot, "NOT_FOUND">> \in answers
  BY <1>1 DEF ExecutorBusy, Life, Turns
<1> QED  BY <1>2, <1>3, <1>4, <1>5 DEF Life, WorkOnly, SomebodyWorks

\* The mission is over, and gives back what it holds.
LEMMA FreeSlotLife ==
  ASSUME MissionTypeOK, Life, work.step # "none", FreeSlot, (faulted => faulted'),
         UNCHANGED <<session, taken, answers, ordered, complete, led, armedCue, barking, latched,
                     published>>
  PROVE  Life'
<1>1. /\ work # NoWork /\ work' = NoWork /\ work.event = slot /\ NoWork.step = "none"
      /\ start = "none" /\ ordered = {} /\ session = NoEvent /\ complete = {}
  BY WorkUnderWay DEF FreeSlot, Life, Turns, NoWork
<1>2. slot' = NoEvent /\ toggled' = NoEvent /\ start' = start
  BY <1>1 DEF FreeSlot, Life, CuesBelongToSlot
<1>3. Turns' /\ CuesInTurn' /\ CuesBelongToSlot'
  BY <1>1, <1>2 DEF Life, Turns, CuesInTurn, CuesBelongToSlot
<1>4. ReportsAnswered' /\ CompleteBeforeHome'
  BY <1>1 DEF Life, ReportsAnswered, CompleteBeforeHome, Steps
<1>5. RefusalsAreFaults'
  BY <1>1, <1>2 DEF Life, RefusalsAreFaults
<1> QED  BY <1>2, <1>3, <1>4, <1>5 DEF Life, SomebodyWorks

LEMMA WorkThreadLife ==
  ASSUME MissionTypeOK, SessionTypeOK, Life, WorkThread
  PROVE  Life'
<1> USE DEF notWork, svars, audio, mission
<1>0. work.step \in Steps \ {"capture", "gesture", "cue"}
        => \E o \in Outcomes : <<work.event, o>> \in published
  BY DEF Life, CompleteBeforeHome
<1>1. published \subseteq answers
  BY DEF Life, CompleteBeforeHome
<1>2. CASE FinishCapture
  <2>1. /\ work.step = "capture" /\ Goto("gesture") /\ WorkOnly
        /\ UNCHANGED <<slot, toggled, published>>
    BY <1>2 DEF FinishCapture, WorkOnly
  <2> QED  BY <1>1, <2>1, WorkGoesOn DEF Steps
<1>3. CASE FastAndSlow
  <2>1. /\ work.step = "gesture" /\ Goto("cue") /\ WorkOnly
        /\ UNCHANGED <<slot, toggled, published>>
    BY <1>3 DEF FastAndSlow, WorkOnly
  <2> QED  BY <1>1, <2>1, WorkGoesOn DEF Steps
<1>4. CASE CueEnds
  <2>1. work.step = "cue" /\ UNCHANGED <<slot, toggled>> /\ <<work.event, "TARGET_REACHED">> \in answers
    BY <1>4 DEF CueEnds, Life, ReportsAnswered
  <2>2. CASE Abandon /\ Fault /\ UNCHANGED published
    <3>1. WorkOnly /\ faulted'
      BY <1>4, <2>2 DEF CueEnds, WorkOnly, Fault
    <3> QED  BY <2>1, <2>2, <3>1, AbandonLife
  <2>3. CASE /\ published' = published \cup {<<work.event, "TARGET_REACHED">>}
             /\ Goto("turn") /\ NoFault
    <3>1. WorkOnly
      BY <1>4, <2>3 DEF CueEnds, WorkOnly, NoFault
    <3>2. "TARGET_REACHED" \in Outcomes
      BY <2>1 DEF SessionTypeOK
    <3>3. published' \subseteq answers /\ \E o \in Outcomes : <<work.event, o>> \in published'
      BY <1>1, <2>1, <2>3, <3>2
    <3> QED  BY <2>1, <2>3, <3>1, <3>3, WorkGoesOn DEF Steps
  <2> QED  BY <1>4, <2>2, <2>3 DEF CueEnds
<1>5. CASE Hello
  <2>1. /\ work.step = "hello" /\ Goto("homing") /\ WorkOnly
        /\ UNCHANGED <<slot, toggled, published>>
    BY <1>5 DEF Hello, WorkOnly
  <2> QED  BY <1>0, <1>1, <2>1, WorkGoesOn DEF Steps
<1>6. CASE Homing
  <2>1. /\ work.step = "homing" /\ WorkOnly
        /\ UNCHANGED <<slot, toggled, published>>
    BY <1>6 DEF Homing, WorkOnly
  <2>2. Goto("driving") \/ Goto("sit")
    BY <1>6 DEF Homing
  <2> QED  BY <1>0, <1>1, <2>1, <2>2, WorkGoesOn DEF Steps
<1>7. CASE Moved
  <2>1. /\ work.step \in {"turn", "driving", "facing"} /\ WorkOnly
        /\ UNCHANGED <<slot, toggled, published>>
    BY <1>7 DEF Moved, WorkOnly, After
  <2>2. After[work.step] \in {"hello", "facing", "sit"}
    BY <2>1 DEF After
  <2>3. Goto(After[work.step])
    BY <1>7 DEF Moved
  <2> DEFINE next == After[work.step]
  <2> HIDE DEF next
  <2> QED  BY <1>0, <1>1, <2>1, <2>2, <2>3, WorkGoesOn DEF Steps, next
<1>8. CASE MoveFails
  <2>1. (faulted => faulted') /\ (faulted' \/ ExecutorBusy)
    BY <1>8, Zenon DEF MoveFails
  <2>2. /\ work.step # "none" /\ Abandon
        /\ UNCHANGED <<notWork, mission, published>>
    BY <1>8 DEF MoveFails, After
  <2>3. WorkOnly
    BY <2>1, <2>2 DEF WorkOnly
  <2> QED  BY <2>1, <2>2, <2>3, AbandonLife
<1>9. CASE SitDown
  <2>1. work.step = "sit" /\ UNCHANGED <<published, faulted>>
    BY <1>9 DEF SitDown
  <2>2. CASE Goto("sitting") /\ UNCHANGED mission
    <3>1. WorkOnly /\ UNCHANGED <<slot, toggled>>
      BY <1>9, <2>2 DEF SitDown, WorkOnly
    <3> QED  BY <1>0, <1>1, <2>1, <2>2, <3>1, WorkGoesOn DEF Steps
  <2>3. CASE FreeSlot
    BY <1>9, <2>1, <2>3, FreeSlotLife DEF SitDown
  <2> QED  BY <1>9, <2>2, <2>3 DEF SitDown
<1>10. CASE SitConfirmed
  BY <1>10, FreeSlotLife DEF SitConfirmed
<1>11. CASE SitTimeout
  BY <1>11, FreeSlotLife DEF SitTimeout
<1> QED
  BY <1>2, <1>3, <1>4, <1>5, <1>6, <1>7, <1>8, <1>9, <1>10, <1>11 DEF WorkThread
-----------------------------------------------------------------------------
(* The types.                                                              *)

LEMMA TriggerTypes ==
  ASSUME MissionTypeOK, NEW e \in Events, Trigger(e)
  PROVE  MissionTypeOK' /\ TogglesCounted'
BY DEF MissionTypeOK, MaybeEvent, TogglesCounted, Trigger, Accept, LedOn, audio, captures,
   robot, mqtt

LEMMA StandTypes ==
  ASSUME MissionTypeOK, TogglesCounted, Life, StandThread
  PROVE  MissionTypeOK' /\ TogglesCounted'
<1> USE DEF MissionTypeOK, MaybeEvent, TogglesCounted,
            others, svars, mission, audio, captures, robot, mqtt
<1>0. ASSUME SendToggle
      PROVE  toggles' \in 0 .. MaxToggles
  BY <1>0, MissionAssumption DEF SendToggle, MissionAssumption
<1>2. CASE SpeechEnds
  BY <1>2 DEF SpeechEnds
<1>3. CASE SpeechFails
  BY <1>3 DEF SpeechFails, MissionFails, LedOff, Fault
<1>4. CASE AskToStand
  <2>1. CASE Proceed("gait")
    BY <1>4, <2>1 DEF AskToStand, Proceed
  <2>2. CASE ToggleToStand
    <3>1. attempt' \in 0 .. 2
      BY <1>4, <2>2 DEF AskToStand, ToggleToStand
    <3>2. toggles' \in 0 .. MaxToggles
      BY <1>0, <2>2 DEF ToggleToStand
    <3> QED  BY <1>4, <2>2, <3>1, <3>2 DEF AskToStand, ToggleToStand
  <2> QED  BY <1>4, <2>1, <2>2 DEF AskToStand
<1>5. CASE StandObserved
  BY <1>5 DEF StandObserved, Proceed
<1>6. CASE StandTimeout
  <2>1. CASE attempt = 1 /\ ToggleToStand
    <3>1. attempt' \in 0 .. 2
      BY <2>1 DEF ToggleToStand
    <3>2. toggles' \in 0 .. MaxToggles
      BY <1>0, <2>1 DEF ToggleToStand
    <3> QED  BY <1>6, <2>1, <3>1, <3>2 DEF StandTimeout, ToggleToStand, Fault
  <2>2. CASE MissionFails /\ UNCHANGED robot
    BY <1>6, <2>2 DEF StandTimeout, MissionFails, LedOff, Fault
  <2> QED  BY <1>6, <2>1, <2>2 DEF StandTimeout
<1>7. CASE ReadyToSearch
  <2>1. /\ start' = "none" /\ attempt' = 0
        /\ capture' = [capture EXCEPT ![slot] = IF @ = "none" THEN "pending" ELSE @]
        /\ homes' = IF poseKnown THEN homes \union {slot} ELSE homes
        /\ armedCue' = slot
        /\ ordered' = ordered \union {slot}
        /\ UNCHANGED <<slot, toggled, complete, work, led, barking, vectors, robot, mqtt, faulted>>
    BY <1>7 DEF ReadyToSearch
  <2>2. slot \in Events
    BY <1>7 DEF ReadyToSearch, Life, Turns
  <2>3. capture' \in [Events -> {"none", "pending", "done"}]
    BY <2>1, <2>2
  <2>4. homes' \subseteq Events /\ ordered' \subseteq Events /\ armedCue' \in Events
    BY <2>1, <2>2
  <2> QED  BY <2>1, <2>3, <2>4
<1> QED  BY <1>2, <1>3, <1>4, <1>5, <1>6, <1>7 DEF StandThread

\* The executor's callbacks about the search.
LEMMA CallbackTypes ==
  ASSUME MissionTypeOK, SessionTypeOK, TogglesCounted, NEW e \in Events, NEW o \in Outcomes,
         TakeOrder(e) \/ SearchAnswers(o) \/ TakeComplete(e, o)
  PROVE  MissionTypeOK' /\ TogglesCounted'
<1> USE DEF MissionTypeOK, MaybeEvent, TogglesCounted,
            notSearch, svars, mission, audio, captures, robot, mqtt
<1>1. CASE TakeOrder(e)
  BY <1>1 DEF TakeOrder
<1>2. CASE SearchAnswers(o)
  <2>1. <<session, o>> \in Events \X Outcomes
    BY <1>2 DEF SearchAnswers, Answer, SessionTypeOK
  <2> QED  BY <1>2, <2>1 DEF SearchAnswers, LedOff
<1>3. CASE TakeComplete(e, o)
  <2>1. UNCHANGED <<svars, mission, ordered, led, captures, robot, connected, latched>>
    BY <1>3 DEF TakeComplete
  <2>2. complete' \subseteq Events \X Outcomes /\ barking' \subseteq Events /\ armedCue' \in Events \cup {NoEvent}
    BY <1>3 DEF TakeComplete
  <2>3. work' \in [event : Events, step : Steps] \cup {NoWork}
    BY <1>3 DEF TakeComplete, Steps
  <2>4. published' \subseteq Events \X Outcomes
    BY <1>3 DEF TakeComplete
  <2>5. faulted' \in BOOLEAN
    BY <1>3 DEF TakeComplete, Fault, NoFault
  <2> QED  BY <2>1, <2>2, <2>3, <2>4, <2>5
<1> QED  BY <1>1, <1>2, <1>3

\* The way home.
LEMMA WorkTypes ==
  ASSUME MissionTypeOK, SessionTypeOK, Life, TogglesCounted, WorkThread
  PROVE  MissionTypeOK' /\ TogglesCounted'
<1> USE DEF MissionTypeOK, MaybeEvent, TogglesCounted
<1>1. UNCHANGED notWork /\ UNCHANGED <<start, attempt, posture, seen, poseKnown>>
  BY DEF WorkThread, FinishCapture, FastAndSlow, CueEnds, Hello, Homing, Moved, MoveFails,
     SitDown, SitConfirmed, SitTimeout, FreeSlot, mission, robot
<1>2. slot' \in Events \cup {NoEvent} /\ toggled' \in Events \cup {NoEvent}
  BY DEF WorkThread, FinishCapture, FastAndSlow, CueEnds, Hello, Homing, Moved, MoveFails,
     SitDown, SitConfirmed, SitTimeout, FreeSlot, mission
<1>3. work' \in [event : Events, step : Steps] \cup {NoWork}
  <2>1. work.step # "none"
    BY DEF WorkThread, FinishCapture, FastAndSlow, CueEnds, Hello, Homing, Moved, MoveFails,
       SitDown, SitConfirmed, SitTimeout, After
  <2>2. \/ work' = NoWork
        \/ \E step \in Steps : Goto(step)
    <3>1. work.step \in DOMAIN After => After[work.step] \in Steps
      BY DEF After, Steps
    <3> QED
      BY <3>1 DEF WorkThread, FinishCapture, FastAndSlow, CueEnds, Hello, Homing, Moved, MoveFails,
         SitDown, SitConfirmed, SitTimeout, FreeSlot, Abandon, Steps
  <2> QED  BY <2>1, <2>2, WorkUnderWay DEF Goto
<1>4. toggles' \in 0 .. MaxToggles
  BY MissionAssumption
  DEF WorkThread, FinishCapture, FastAndSlow, CueEnds, Hello, Homing, Moved, MoveFails,
      SitDown, SitConfirmed, SitTimeout, SendToggle, robot, MissionAssumption
<1>5. vectors' \subseteq Events
  <2>1. CASE FinishCapture
    BY <2>1, WorkUnderWay DEF FinishCapture
  <2> QED
    BY <2>1 DEF WorkThread, FastAndSlow, CueEnds, Hello, Homing, Moved, MoveFails,
       SitDown, SitConfirmed, SitTimeout
<1>6. published' \subseteq Events \X Outcomes
  <2>1. CASE CueEnds
    BY <2>1 DEF CueEnds, Life, ReportsAnswered, SessionTypeOK
  <2> QED
    BY <2>1 DEF WorkThread, FinishCapture, FastAndSlow, Hello, Homing, Moved, MoveFails,
       SitDown, SitConfirmed, SitTimeout
<1>7. faulted' \in BOOLEAN
  BY DEF WorkThread, FinishCapture, FastAndSlow, CueEnds, Hello, Homing, Moved, MoveFails,
     SitDown, SitConfirmed, SitTimeout, Fault, NoFault
<1> QED  BY <1>1, <1>2, <1>3, <1>4, <1>5, <1>6, <1>7 DEF notWork, audio

\* The MQTT client, Motion Host and the callbacks that only listen.
LEMMA HostTypes ==
  ASSUME MissionTypeOK, TogglesCounted,
         \/ LoseConnection \/ Reconnect \/ HostToggles \/ ToggleLost \/ HostStands
         \/ SearchDropped \/ Bark \/ PostureArrives \/ PoseArrives
  PROVE  MissionTypeOK' /\ TogglesCounted'
<1> USE DEF MissionTypeOK, TogglesCounted, MaybeEvent, notRobot, notSearch, svars, mission, audio, captures, robot, mqtt
<1>1. CASE LoseConnection
  <2>1. /\ connected' \in BOOLEAN /\ latched' \in BOOLEAN /\ faulted' \in BOOLEAN
        /\ UNCHANGED <<mission, ordered, complete, work, led, audio, captures, robot, published>>
    BY <1>1 DEF LoseConnection, Fault
  <2> QED  BY <2>1
<1>2. CASE Reconnect
  BY <1>2 DEF Reconnect
<1>3. CASE HostToggles
  <2>1. toggles' \in 0 .. MaxToggles
    BY <1>3, MissionAssumption DEF HostToggles, MissionAssumption
  <2>2. posture' \in {"sitting", "rising", "standing"}
    BY <1>3 DEF HostToggles
  <2> QED  BY <1>3, <2>1, <2>2 DEF HostToggles
<1>4. CASE ToggleLost
  <2>1. toggles' \in 0 .. MaxToggles
    BY <1>4, MissionAssumption DEF ToggleLost, MissionAssumption
  <2> QED  BY <1>4, <2>1 DEF ToggleLost, Fault
<1>5. CASE HostStands
  BY <1>5 DEF HostStands
<1>6. CASE SearchDropped
  BY <1>6 DEF SearchDropped, Fault
<1>7. CASE Bark
  BY <1>7 DEF Bark
<1>8. CASE PostureArrives
  BY <1>8 DEF PostureArrives
<1>9. CASE PoseArrives
  BY <1>9 DEF PoseArrives
<1> QED  BY <1>1, <1>2, <1>3, <1>4, <1>5, <1>6, <1>7, <1>8, <1>9

LEMMA CaptureTypes ==
  ASSUME MissionTypeOK, TogglesCounted, NEW e \in Events, CaptureStart(e)
  PROVE  MissionTypeOK' /\ TogglesCounted'
BY DEF MissionTypeOK, MaybeEvent, TogglesCounted, CaptureStart, svars, mission, audio, robot, mqtt
-----------------------------------------------------------------------------
(* The theorems.                                                           *)

LEMMA MissionInvInit == Init => MissionIInv
<1> SUFFICES ASSUME Init
             PROVE  MissionIInv
  OBVIOUS
<1>1. NoWork.step = "none" /\ NoWork.event = NoEvent
  BY DEF NoWork
<1>2. MissionTypeOK
  <2>1. attempt \in 0 .. 2 /\ toggles \in 0 .. MaxToggles
    BY MissionAssumption DEF Init, MissionAssumption
  <2>2. capture \in [Events -> {"none", "pending", "done"}]
    BY DEF Init
  <2>3. poseKnown \in BOOLEAN /\ connected \in BOOLEAN /\ latched \in BOOLEAN /\ faulted \in BOOLEAN
    BY DEF Init
  <2> QED  BY <2>1, <2>2, <2>3 DEF Init, MissionTypeOK, MaybeEvent
<1>3. SessionTypeOK /\ TogglesCounted
  BY DEF Init, SessionInit, SessionTypeOK, MaybeEvent, TogglesCounted
<1>4. Turns /\ CuesInTurn /\ CuesBelongToSlot
  BY DEF Init, SessionInit, Turns, CuesInTurn, CuesBelongToSlot
<1>5. ReportsAnswered /\ CompleteBeforeHome
  BY <1>1 DEF Init, ReportsAnswered, CompleteBeforeHome, Steps
<1>6. RefusalsAreFaults /\ SomebodyWorks
  BY DEF Init, SessionInit, RefusalsAreFaults, SomebodyWorks
<1> QED  BY <1>2, <1>3, <1>4, <1>5, <1>6 DEF MissionIInv, Life

\* Steps the life of a mission does not show in.
LEMMA LifeUnchanged ==
  ASSUME Life, UNCHANGED <<svars, mission, ordered, complete, work, led, audio, published, latched>>,
         faulted => faulted'
  PROVE  Life'
<1> USE DEF svars, mission, audio
<1>1. Turns' /\ CuesInTurn' /\ CuesBelongToSlot'
  BY DEF Life, Turns, CuesInTurn, CuesBelongToSlot
<1>2. ReportsAnswered' /\ CompleteBeforeHome'
  BY DEF Life, ReportsAnswered, CompleteBeforeHome
<1> QED  BY <1>1, <1>2 DEF Life, RefusalsAreFaults, SomebodyWorks

\* The connection is lost while a search runs, or while none does.
LEMMA LoseConnectionLife ==
  ASSUME SessionTypeOK, Life, LoseConnection
  PROVE  Life' /\ SessionTypeOK'
<1>1. /\ faulted'
      /\ UNCHANGED <<slot, toggled, start, work, led, armedCue, barking, published, ordered,
                     complete>>
  BY DEF LoseConnection, Fault, mission, audio
<1>2. CASE Drop
  BY <1>1, <1>2, DropLife
<1>3. CASE UNCHANGED svars
  <2>1. session' = session /\ taken' = taken /\ answers' = answers
    BY <1>3 DEF svars
  <2>2. Turns' /\ CuesInTurn' /\ CuesBelongToSlot'
    BY <1>1, <2>1 DEF Life, Turns, CuesInTurn, CuesBelongToSlot
  <2>3. ReportsAnswered' /\ CompleteBeforeHome'
    BY <1>1, <2>1 DEF Life, ReportsAnswered, CompleteBeforeHome
  <2>4. RefusalsAreFaults' /\ SomebodyWorks'
    BY <1>1 DEF RefusalsAreFaults, SomebodyWorks
  <2> QED  BY <2>1, <2>2, <2>3, <2>4 DEF Life, SessionTypeOK
<1> QED  BY <1>2, <1>3 DEF LoseConnection

LEMMA MissionInvStep == MissionIInv /\ [Next]_vars => MissionIInv'
<1> SUFFICES ASSUME MissionTypeOK, SessionTypeOK, TogglesCounted, Life, [Next]_vars
             PROVE  (MissionTypeOK' /\ TogglesCounted') /\ SessionTypeOK' /\ Life'
  BY DEF MissionIInv
<1>1. ASSUME UNCHANGED svars
      PROVE  SessionTypeOK'
  BY <1>1 DEF SessionTypeOK, svars
<1>2. CASE UNCHANGED vars
  <2>1. MissionTypeOK' /\ TogglesCounted'
    BY <1>2 DEF vars, MissionTypeOK, TogglesCounted, mission, audio, captures, robot, mqtt
  <2>2. UNCHANGED <<svars, mission, ordered, complete, work, led, audio, published, latched, faulted>>
    BY <1>2 DEF vars, mqtt
  <2> QED  BY <1>1, <2>1, <2>2, LifeUnchanged
<1>3. ASSUME NEW e \in Events, Trigger(e)
      PROVE  (MissionTypeOK' /\ TogglesCounted') /\ SessionTypeOK' /\ Life'
  <2>1. UNCHANGED svars
    BY <1>3 DEF Trigger
  <2> QED  BY <1>1, <1>3, <2>1, TriggerTypes, TriggerLife
<1>4. CASE StandThread
  <2>1. UNCHANGED svars
    BY <1>4 DEF StandThread, SpeechEnds, SpeechFails, AskToStand, StandObserved, StandTimeout,
       ReadyToSearch, others
  <2> QED  BY <1>1, <1>4, <2>1, StandTypes, StandThreadLife
<1>5. CASE WorkThread
  <2>1. UNCHANGED svars
    BY <1>5 DEF WorkThread, FinishCapture, FastAndSlow, CueEnds, Hello, Homing, Moved, MoveFails,
       SitDown, SitConfirmed, SitTimeout, notWork
  <2> QED  BY <1>1, <1>5, <2>1, WorkTypes, WorkThreadLife
<1>6. ASSUME NEW e \in Events, TakeOrder(e)
      PROVE  (MissionTypeOK' /\ TogglesCounted') /\ SessionTypeOK' /\ Life'
  <2>1. MissionTypeOK' /\ TogglesCounted'
    BY <1>6 DEF TakeOrder, MissionTypeOK, TogglesCounted, notSearch, mission, audio, captures,
       robot
  <2> QED  BY <1>6, <2>1, TakeOrderLife
<1>7. ASSUME NEW e \in Events, NEW o \in Outcomes, TakeComplete(e, o)
      PROVE  (MissionTypeOK' /\ TogglesCounted') /\ SessionTypeOK' /\ Life'
  <2>1. UNCHANGED svars
    BY <1>7 DEF TakeComplete
  <2> QED  BY <1>1, <1>7, <2>1, CallbackTypes, TakeCompleteLife
<1>8. ASSUME NEW o \in Outcomes, SearchAnswers(o)
      PROVE  (MissionTypeOK' /\ TogglesCounted') /\ SessionTypeOK' /\ Life'
  <2>1. session \in Events
    BY <1>8 DEF SearchAnswers, Answer, SessionTypeOK, MaybeEvent
  <2> QED  BY <1>8, <2>1, CallbackTypes, SearchAnswersLife
<1>9. CASE SearchDropped
  <2>1. /\ Drop /\ faulted'
        /\ UNCHANGED <<slot, toggled, start, work, led, armedCue, barking, published, ordered,
                       complete>>
    BY <1>9 DEF SearchDropped, Fault, notSearch, mission, audio
  <2> QED  BY <1>9, <2>1, HostTypes, DropLife
<1>10. CASE Bark
  <2>1. UNCHANGED svars
    BY <1>10 DEF Bark
  <2> QED  BY <1>1, <1>10, <2>1, HostTypes, BarkLife
<1>11. ASSUME NEW e \in Events, CaptureStart(e)
       PROVE  (MissionTypeOK' /\ TogglesCounted') /\ SessionTypeOK' /\ Life'
  <2>1. UNCHANGED <<svars, mission, ordered, complete, work, led, audio, published, latched, faulted>>
    BY <1>11 DEF CaptureStart, mqtt
  <2> QED  BY <1>1, <1>11, <2>1, CaptureTypes, LifeUnchanged
<1>12. CASE LoseConnection
  BY <1>12, HostTypes, LoseConnectionLife
<1>13. CASE PostureArrives \/ PoseArrives \/ Reconnect \/ HostToggles \/ ToggleLost \/ HostStands
  <2>1. UNCHANGED <<svars, mission, ordered, complete, work, led, audio, published, latched>>
    BY <1>13 DEF PostureArrives, PoseArrives, Reconnect, HostToggles, ToggleLost, HostStands,
       notRobot, robot, mqtt
  <2>2. faulted => faulted'
    BY <1>13 DEF PostureArrives, PoseArrives, Reconnect, HostToggles, ToggleLost, HostStands,
       notRobot, Fault
  <2> QED  BY <1>1, <1>13, <2>1, <2>2, HostTypes, LifeUnchanged
<1> QED
  BY <1>2, <1>3, <1>4, <1>5, <1>6, <1>7, <1>8, <1>9, <1>10, <1>11, <1>12, <1>13 DEF Next, Callback

\* Whatever the order of triggers, answers, failures and lost connections, the
\* stages of a mission take turns and hand each other a clean slot.
THEOREM MissionInvariant == Spec => []MissionIInv
<1> QED  BY MissionInvInit, MissionInvStep, PTL DEF Spec

\* The stand routine, the search, the gesture and the way home never move the
\* robot at the same time, and all act for the event that holds the slot.
THEOREM OneMissionMoves == Spec => []MissionInv
<1>1. MissionIInv => MissionInv
  BY TurnsMeanOneMover DEF MissionIInv, Life, MissionInv
<1> QED  BY <1>1, MissionInvariant, PTL

\* A slot is never given back with its lamp, its bark loop, its armed cue or its
\* Stand toggle left behind for the next mission.
THEOREM CuesEndWithMission == Spec => []CuesBelongToSlot
<1>1. MissionIInv => CuesBelongToSlot
  BY DEF MissionIInv, Life
<1> QED  BY <1>1, MissionInvariant, PTL

\* No way home begins before the answer of the search was handed to MQTT.
THEOREM HomeAfterComplete == Spec => []CompleteBeforeHome
<1>1. MissionIInv => CompleteBeforeHome
  BY DEF MissionIInv, Life
<1> QED  BY <1>1, MissionInvariant, PTL

\* A slot nobody works for any more is the work of a fault, or of a way home on
\* the executor's own thread.
THEOREM StrandingNeedsFault == Spec => []StrandedOnlyByFault
<1>1. MissionIInv => StrandedOnlyByFault
  BY StrandedMeaning DEF MissionIInv, Life
<1> QED  BY <1>1, MissionInvariant, PTL

-----------------------------------------------------------------------------
(* One answer for each event.                                              *)

\* An answered event is used up, and its search is over.
AnsweredOnce ==
  /\ \A a \in answers : a[1] \in taken /\ a[1] # session
  /\ \A a, b \in answers : a[1] = b[1] => a = b
  /\ session # NoEvent => session \in taken

LEMMA SessionAnswersOnce ==
  ASSUME SessionTypeOK, AnsweredOnce, [SessionNext]_svars
  PROVE  AnsweredOnce'
<1> USE DEF AnsweredOnce
<1>1. CASE UNCHANGED svars
  BY <1>1 DEF svars
<1>2. ASSUME NEW e \in Events, Begin(e)
      PROVE  AnsweredOnce'
  BY <1>2 DEF Begin
<1>3. ASSUME NEW e \in Events, Coalesce(e)
      PROVE  AnsweredOnce'
  BY <1>3 DEF Coalesce
<1>4. ASSUME NEW outcome \in Outcomes, Answer(outcome)
      PROVE  AnsweredOnce'
  <2>1. /\ session \in Events /\ session' = NoEvent /\ taken' = taken
        /\ answers' = answers \cup {<<session, outcome>>}
    BY <1>4 DEF Answer, SessionTypeOK, MaybeEvent
  <2>2. \A a \in answers' : a[1] \in taken /\ a[1] \in Events
    <3>1. \A a \in answers : a[1] \in Events
      BY DEF SessionTypeOK
    <3>2. session \in taken /\ <<session, outcome>>[1] = session
      BY <1>4 DEF Answer
    <3> QED  BY <2>1, <3>1, <3>2
  <2>3. \A a, b \in answers' : a[1] = b[1] => a = b
    BY <2>1
  <2> QED  BY <2>1, <2>2, <2>3, MissionAssumption DEF MissionAssumption
<1>5. CASE Drop
  <2>1. \A a \in answers : a[1] \in Events
    BY DEF SessionTypeOK
  <2> QED  BY <1>5, <2>1, MissionAssumption DEF Drop, MissionAssumption
<1> QED  BY <1>1, <1>2, <1>3, <1>4, <1>5 DEF SessionNext

\* A step of the mission is a step of the search, or none.
LEMMA MissionStepsSession == [Next]_vars => [SessionNext]_svars
<1> SUFFICES ASSUME [Next]_vars
             PROVE  [SessionNext]_svars
  OBVIOUS
<1>1. CASE StandThread
  BY <1>1 DEF StandThread, SpeechEnds, SpeechFails, AskToStand, StandObserved, StandTimeout,
     ReadyToSearch, others
<1>2. CASE WorkThread
  BY <1>2 DEF WorkThread, FinishCapture, FastAndSlow, CueEnds, Hello, Homing, Moved, MoveFails,
     SitDown, SitConfirmed, SitTimeout, notWork
<1>3. ASSUME NEW e \in Events, Trigger(e) \/ CaptureStart(e)
      PROVE  UNCHANGED svars
  BY <1>3 DEF Trigger, CaptureStart
<1>4. ASSUME NEW e \in Events, TakeOrder(e)
      PROVE  [SessionNext]_svars
  BY <1>4 DEF TakeOrder, SessionNext
<1>5. ASSUME NEW e \in Events, NEW o \in Outcomes, TakeComplete(e, o)
      PROVE  UNCHANGED svars
  BY <1>5 DEF TakeComplete
<1>6. ASSUME NEW o \in Outcomes, SearchAnswers(o)
      PROVE  SessionNext
  BY <1>6 DEF SearchAnswers, SessionNext
<1>7. CASE SearchDropped \/ LoseConnection
  BY <1>7 DEF SearchDropped, LoseConnection, SessionNext
<1>8. CASE \/ UNCHANGED vars \/ Bark \/ PostureArrives \/ PoseArrives \/ Reconnect
           \/ HostToggles \/ ToggleLost \/ HostStands
  BY <1>8 DEF vars, Bark, PostureArrives, PoseArrives, Reconnect, HostToggles, ToggleLost,
     HostStands, notRobot
<1> QED
  BY <1>1, <1>2, <1>3, <1>4, <1>5, <1>6, <1>7, <1>8 DEF Next, Callback

\* Every behaviour of a mission is one of the search as the mission layer knows
\* it: what SearchSession promises, the missions are held to as well.
THEOREM MissionRunsSession == Spec => SessionSpec
<1>1. Init => SessionInit
  BY DEF Init
<1> QED  BY <1>1, MissionStepsSession, PTL DEF Spec, SessionSpec

\* MQTT is told at most one outcome of each event, however often the event is
\* triggered (publish_coyote_complete_mqtt).
OneCompleteEach ==
  \A e \in Events, o, p \in Outcomes :
    <<e, o>> \in published /\ <<e, p>> \in published => o = p

\* The external COMPLETE of an event is never contradicted by a later one.
THEOREM CompleteIsFinal == Spec => []OneCompleteEach
<1>1. Init => AnsweredOnce
  BY DEF Init, SessionInit, AnsweredOnce
<1>2. MissionIInv /\ AnsweredOnce /\ [Next]_vars => AnsweredOnce'
  BY MissionStepsSession, SessionAnswersOnce DEF MissionIInv
<1>3. MissionIInv /\ AnsweredOnce => OneCompleteEach
  <2> SUFFICES ASSUME MissionIInv, AnsweredOnce, NEW e \in Events, NEW o \in Outcomes,
                      NEW p \in Outcomes, <<e, o>> \in published, <<e, p>> \in published
               PROVE  o = p
    BY DEF OneCompleteEach
  <2>1. <<e, o>> \in answers /\ <<e, p>> \in answers
    BY DEF MissionIInv, Life, CompleteBeforeHome
  <2>2. <<e, o>> = <<e, p>>
    BY <2>1 DEF AnsweredOnce
  <2> QED  BY <2>2
<1> QED  BY <1>1, <1>2, <1>3, MissionInvariant, PTL DEF Spec
=============================================================================
