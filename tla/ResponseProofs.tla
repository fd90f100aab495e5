--------------------------- MODULE ResponseProofs ---------------------------
(***************************************************************************)
(* For any number of responses and interrupting coroutines: the three      *)
(* tests of _current() agree, undisturbed responses close their streams,   *)
(* and ResponseCoordinator implements SpeechWire.                          *)
(***************************************************************************)
EXTENDS ResponseCoordinator, TLAPS

Started == {d \in Response : pc[d] # "idle"}

(* A response that is awaiting its prologue has no stream yet.             *)
Prologue == {"idle", "text", "speaking"}

Epilogue == {"ended", "failed", "reported", "done"}

(* What deliver() knows of the wire from where it is: it has opened its    *)
(* stream once it is past the prologue, and only its epilogue or its       *)
(* cancellation goes with a stream that was closed.                        *)
StreamShape ==
  /\ \A d \in opened : pc[d] \notin Prologue
  /\ \A d \in Response : pc[d] = "streaming" => d \in opened
  /\ \A d \in closed : d \in cancelled \/ pc[d] \in Epilogue
  /\ \A d \in open : pc[d] \in {"streaming", "done"}

(* Only responses that have started are active or cancelled, and one that  *)
(* is under way but lost its place was disturbed.                          *)
FloorShape ==
  /\ active # Nobody => active \in Started
  /\ cancelled \subseteq Started
  /\ \A d \in Started : connected => (active = d \/ d \in disturbed \/ pc[d] = "done")

IInv == TypeOK /\ ActiveIsCurrent /\ FloorShape /\ StreamShape /\ UndisturbedStreamsClose

-----------------------------------------------------------------------------
(* The state keeps its types.                                              *)
LEMMA TypeStep == TypeOK /\ [Next]_vars => TypeOK'
<1> SUFFICES ASSUME TypeOK, [Next]_vars PROVE TypeOK'
  OBVIOUS
<1> USE NobodyAssumption DEF TypeOK, Goto, SendEnd, ctl, wire
<1>1. ASSUME NEW d \in Response, Deliver(d) PROVE TypeOK'
  BY <1>1 DEF Deliver
<1>2. ASSUME NEW d \in Response, TextOnly(d) PROVE TypeOK'
  BY <1>2 DEF TextOnly
<1>3. ASSUME NEW d \in Response, Prepare(d) PROVE TypeOK'
  BY <1>3 DEF Prepare
<1>4. ASSUME NEW d \in Response, StartStream(d) PROVE TypeOK'
  BY <1>4 DEF StartStream
<1>5. ASSUME NEW d \in Response, Chunk(d) PROVE TypeOK'
  BY <1>5 DEF Chunk
<1>6. ASSUME NEW d \in Response, Complete(d) PROVE TypeOK'
  BY <1>6 DEF Complete
<1>7. ASSUME NEW d \in Response, Fail(d) PROVE TypeOK'
  BY <1>7 DEF Fail
<1>8. ASSUME NEW d \in Response, Report(d) PROVE TypeOK'
  BY <1>8 DEF Report
<1>9. ASSUME NEW d \in Response, Return(d) PROVE TypeOK'
  BY <1>9 DEF Return
<1>10. ASSUME NEW d \in Response, Crash(d) PROVE TypeOK'
  BY <1>10 DEF Crash
<1>11. ASSUME NEW i \in Interrupter, Interrupt(i) PROVE TypeOK'
  BY <1>11 DEF Interrupt
<1>12. ASSUME NEW i \in Interrupter, ShowInterrupted(i) PROVE TypeOK'
  BY <1>12 DEF ShowInterrupted
<1>13. CASE Disconnect
  <2>1. connected' \in BOOLEAN
    <3>1. connected' = FALSE
      BY <1>13, Zenon DEF Disconnect
    <3> QED
      BY <3>1, Zenon
  <2>2. /\ voice' \in BOOLEAN /\ active' = Nobody /\ revision' \in Nat
        /\ rev' = rev /\ pc' = pc /\ intPc' = intPc
    BY <1>13 DEF Disconnect
  <2>3. /\ cancelled' \subseteq Response /\ streamId' = streamId
        /\ opened' = opened /\ closed' = closed /\ open' = open
        /\ disturbed' \subseteq Response
        /\ sent' = sent /\ shown' = shown
    BY <1>13 DEF Disconnect
  <2> QED
    BY <2>1, <2>2, <2>3
<1>14. CASE Drop
  BY <1>14 DEF Drop
<1>15. CASE UNCHANGED vars
  BY <1>15 DEF vars
<1> QED
  BY <1>1, <1>2, <1>3, <1>4, <1>5, <1>6, <1>7, <1>8, <1>9, <1>10, <1>11,
     <1>12, <1>13, <1>14, <1>15 DEF Next, Resume

-----------------------------------------------------------------------------
(* The invariant holds in every step.                                      *)
LEMMA InvStep == IInv /\ [Next]_vars => IInv'
<1> SUFFICES ASSUME IInv, [Next]_vars PROVE IInv'
  OBVIOUS
<1>0. TypeOK /\ TypeOK'
  BY TypeStep DEF IInv
<1> DEFINE Rest == ActiveIsCurrent /\ FloorShape /\ StreamShape /\ UndisturbedStreamsClose
<1>a. Rest
  BY DEF IInv
<1> SUFFICES Rest'
  BY <1>0 DEF IInv
<1> USE <1>0, <1>a, NobodyAssumption
    DEF TypeOK, ActiveIsCurrent, FloorShape, StreamShape, UndisturbedStreamsClose,
        Started, Prologue, Epilogue, Current, Goto, SendEnd, ctl, wire
<1>1. ASSUME NEW d \in Response, Deliver(d) PROVE Rest'
  BY <1>1 DEF Deliver
<1>2. ASSUME NEW d \in Response, TextOnly(d) PROVE Rest'
  BY <1>2 DEF TextOnly
<1>3. ASSUME NEW d \in Response, Prepare(d) PROVE Rest'
  BY <1>3 DEF Prepare
<1>4. ASSUME NEW d \in Response, StartStream(d) PROVE Rest'
  BY <1>4 DEF StartStream
<1>5. ASSUME NEW d \in Response, Chunk(d) PROVE Rest'
  BY <1>5 DEF Chunk
<1>6. ASSUME NEW d \in Response, Complete(d) PROVE Rest'
  BY <1>6 DEF Complete
<1>7. ASSUME NEW d \in Response, Fail(d) PROVE Rest'
  BY <1>7 DEF Fail
<1>8. ASSUME NEW d \in Response, Report(d) PROVE Rest'
  BY <1>8 DEF Report
<1>9. ASSUME NEW d \in Response, Return(d) PROVE Rest'
  BY <1>9 DEF Return
<1>10. ASSUME NEW d \in Response, Crash(d) PROVE Rest'
  BY <1>10 DEF Crash
<1>11. ASSUME NEW i \in Interrupter, Interrupt(i) PROVE Rest'
  BY <1>11 DEF Interrupt
<1>12. ASSUME NEW i \in Interrupter, ShowInterrupted(i) PROVE Rest'
  BY <1>12 DEF ShowInterrupted
<1>13. CASE Disconnect
  BY <1>13 DEF Disconnect
<1>14. CASE Drop
  BY <1>14 DEF Drop
<1>15. CASE UNCHANGED vars
  BY <1>15 DEF vars
<1> HIDE DEF Rest
<1> QED
  BY <1>1, <1>2, <1>3, <1>4, <1>5, <1>6, <1>7, <1>8, <1>9, <1>10, <1>11,
     <1>12, <1>13, <1>14, <1>15 DEF Next, Resume

LEMMA InvInit == Init => IInv
  BY NobodyAssumption DEF Init, IInv, TypeOK, ActiveIsCurrent, FloorShape, StreamShape,
     UndisturbedStreamsClose, Started

LEMMA Invariance == Spec => []IInv
  BY InvInit, InvStep, PTL DEF Spec

(* The containers and program counters of response.py keep their types.    *)
THEOREM TypesHold == Spec => []TypeOK
<1>1. IInv => TypeOK
  BY DEF IInv
<1> QED
  BY <1>1, Invariance, PTL

(* _current() never disagrees with itself about the active response.       *)
THEOREM ActiveResponseIsCurrent == Spec => []ActiveIsCurrent
<1>1. IInv => ActiveIsCurrent
  BY DEF IInv
<1> QED
  BY <1>1, Invariance, PTL

(* A response that was left alone closes the stream it opened.             *)
THEOREM StreamsClose == Spec => []UndisturbedStreamsClose
<1>1. IInv => UndisturbedStreamsClose
  BY DEF IInv
<1> QED
  BY <1>1, Invariance, PTL

-----------------------------------------------------------------------------
(* The interface rests once everything is over.  It shows a speaker only   *)
(* while somebody has the floor, and an interruption only if somebody was  *)
(* interrupted.                                                            *)
ShownShape ==
  /\ \A i \in Interrupter : intPc[i] = "ending" => disturbed # {}
  /\ shown = "interrupted" => disturbed # {}
  /\ connected /\ disturbed = {} /\ active = Nobody => shown # "speaking"

LEMMA ShownStep == IInv /\ ShownShape /\ [Next]_vars => ShownShape'
<1> SUFFICES ASSUME IInv, ShownShape, [Next]_vars PROVE ShownShape'
  OBVIOUS
<1>0. TypeOK /\ FloorShape
  BY DEF IInv
<1> USE <1>0, NobodyAssumption DEF TypeOK, FloorShape, ShownShape, Started, Goto, ctl, wire
<1>1. ASSUME NEW d \in Response, Deliver(d) PROVE ShownShape'
  BY <1>1 DEF Deliver
<1>2. ASSUME NEW d \in Response, TextOnly(d) PROVE ShownShape'
  BY <1>2 DEF TextOnly
<1>3. ASSUME NEW d \in Response, Prepare(d) PROVE ShownShape'
  <2>1. active = d \/ d \in disturbed
    BY <1>3 DEF Prepare
  <2> QED
    BY <1>3, <2>1 DEF Prepare
<1>4. ASSUME NEW d \in Response,
             StartStream(d) \/ Chunk(d) \/ Complete(d) \/ Fail(d) \/ Report(d)
      PROVE  ShownShape'
  BY <1>4 DEF StartStream, Chunk, Complete, Fail, Report
<1>5. ASSUME NEW d \in Response, Return(d) PROVE ShownShape'
  BY <1>5 DEF Return
<1>6. ASSUME NEW d \in Response, Crash(d) PROVE ShownShape'
  BY <1>6 DEF Crash
<1>7. ASSUME NEW i \in Interrupter, Interrupt(i) PROVE ShownShape'
  BY <1>7 DEF Interrupt
<1>8. ASSUME NEW i \in Interrupter, ShowInterrupted(i) PROVE ShownShape'
  BY <1>8 DEF ShowInterrupted
<1>9. CASE Disconnect
  BY <1>9 DEF Disconnect
<1>10. CASE Drop
  BY <1>10 DEF Drop
<1>11. CASE UNCHANGED vars
  BY <1>11 DEF vars
<1> QED
  BY <1>1, <1>2, <1>3, <1>4, <1>5, <1>6, <1>7, <1>8, <1>9, <1>10, <1>11 DEF Next, Resume

(* When every response is over and none was disturbed, the interface shows *)
(* a resting agent: whoever gives the floor back says so, and the state    *)
(* "speaking" is announced only by who has it.                             *)
THEOREM ResponsesSettle == Spec => []SettlesWhenUndisturbed
<1>1. Init => ShownShape
  BY DEF Init, ShownShape
<1>2. IInv /\ ShownShape => SettlesWhenUndisturbed
  BY DEF IInv, TypeOK, ShownShape, SettlesWhenUndisturbed, Quiet
<1> QED
  BY <1>1, <1>2, ShownStep, Invariance, PTL DEF Spec

-----------------------------------------------------------------------------
(* Implementation of SpeechWire.  Except for the start of a response, an   *)
(* action leaves the set of started ones alone.                            *)

Steady == Started' = Started

LEMMA MovesAreSteady ==
  ASSUME TypeOK, NEW d \in Response, NEW where, pc[d] # "idle", where # "idle", Goto(d, where)
  PROVE  Steady
  BY DEF TypeOK, Goto, Steady, Started

(* Every step of the coordinator is a step of the wire, or none.           *)
LEMMA WireStep == IInv /\ [Next]_vars => [Wire!Next]_(Wire!vars)
<1> SUFFICES ASSUME IInv, [Next]_vars PROVE [Wire!Next]_(Wire!vars)
  OBVIOUS
<1>0. /\ TypeOK /\ FloorShape /\ StreamShape /\ NobodyAssumption
      /\ \A d \in Response : (active = d /\ pc[d] = "streaming") => d \in opened \ closed
  BY NobodyAssumption
     DEF IInv, FloorShape, StreamShape, ActiveIsCurrent, Current, Epilogue, TypeOK
<1> DEFINE Goal == Wire!Next \/ UNCHANGED Wire!vars
<1> SUFFICES Goal
  OBVIOUS
<1>q. (Steady /\ UNCHANGED <<active, opened, closed, sent>>) => Goal
  BY DEF Wire!vars, Steady, Started
<1>y. (Steady /\ active' = Nobody /\ UNCHANGED <<opened, closed, sent>>) => Goal
  BY DEF Wire!Next, Wire!Yield, Steady, Started
<1>c. ASSUME NEW d \in Response, active = d, Steady, active' \in {d, Nobody}, SendEnd(d)
      PROVE  Goal
  <2>1. Wire!Close(d)
    BY <1>c DEF Wire!Close, SendEnd, Steady, Started
  <2> QED
    BY <2>1 DEF Wire!Next
<1>1. ASSUME NEW d \in Response, Deliver(d) PROVE Goal
  <2>1. d \notin Started /\ Started' = Started \cup {d}
    BY <1>0, <1>1 DEF Deliver, Goto, Started, TypeOK
  <2>2. active' = d /\ UNCHANGED <<opened, closed, sent>>
    BY <1>1 DEF Deliver, wire
  <2>3. Wire!TakeFloor(d)
    BY <2>1, <2>2 DEF Wire!TakeFloor, Started
  <2> QED
    BY <2>3 DEF Wire!Next
<1>2. ASSUME NEW d \in Response, TextOnly(d) PROVE Goal
  <2>1. Steady
    BY <1>0, <1>2, MovesAreSteady DEF TextOnly
  <2>2. active' \in {active, Nobody} /\ UNCHANGED <<opened, closed, sent>>
    BY <1>2 DEF TextOnly, wire
  <2> QED
    BY <2>1, <2>2, <1>q, <1>y
<1>3. ASSUME NEW d \in Response, Prepare(d) PROVE Goal
  <2>1. Steady
    BY <1>0, <1>3, MovesAreSteady DEF Prepare
  <2> QED
    BY <2>1, <1>3, <1>q DEF Prepare, wire
<1>4. ASSUME NEW d \in Response, StartStream(d) PROVE Goal
  <2>1. Steady /\ d \in Started /\ d \notin opened
    BY <1>0, <1>4, MovesAreSteady DEF StartStream, Started, StreamShape, Prologue
  <2>2. Wire!Open(d)
    BY <2>1, <1>4 DEF Wire!Open, StartStream, Steady, Started, ctl
  <2> QED
    BY <2>2 DEF Wire!Next
<1>5. ASSUME NEW d \in Response, Chunk(d) PROVE Goal
  <2>1. Steady /\ active = d /\ pc[d] = "streaming"
    BY <1>5 DEF Chunk, Current, Steady, Started
  <2>2. Wire!Speak(d)
    BY <1>0, <2>1, <1>5 DEF Wire!Speak, Chunk, Steady, Started, ctl
  <2> QED
    BY <2>2 DEF Wire!Next
<1>6. ASSUME NEW d \in Response, Complete(d) \/ Fail(d) PROVE Goal
  <2>1. Steady
    BY <1>0, <1>6, MovesAreSteady DEF Complete, Fail
  <2>2. active = d /\ active' = active /\ SendEnd(d)
    BY <1>6 DEF Complete, Fail, Current, ctl
  <2> QED
    BY <2>1, <2>2, <1>c
<1>8. ASSUME NEW d \in Response, Report(d) PROVE Goal
  <2>1. Steady
    BY <1>0, <1>8, MovesAreSteady DEF Report
  <2> QED
    BY <2>1, <1>8, <1>q DEF Report, wire
<1>9. ASSUME NEW d \in Response, Return(d) PROVE Goal
  <2>1. Steady
    BY <1>0, <1>9, MovesAreSteady DEF Return
  <2>2. active' \in {active, Nobody} /\ UNCHANGED <<opened, closed, sent>>
    BY <1>9 DEF Return, wire
  <2> QED
    BY <2>1, <2>2, <1>q, <1>y
<1>10. ASSUME NEW d \in Response, Crash(d) PROVE Goal
  <2>1. Steady
    BY <1>0, <1>10, MovesAreSteady DEF Crash
  <2> QED
    BY <2>1, <1>10, <1>q DEF Crash, ctl, wire
<1>11. ASSUME NEW i \in Interrupter, Interrupt(i) PROVE Goal
  <2>1. Steady
    BY <1>11 DEF Interrupt, Steady, Started
  <2>2. CASE active = Nobody \/ active \notin streamId
    <3>1. active' = Nobody /\ UNCHANGED <<opened, closed, sent>>
      BY <1>11, <2>2 DEF Interrupt, wire
    <3> QED
      BY <2>1, <3>1, <1>y
  <2>3. CASE active # Nobody /\ active \in streamId
    <3>1. active' = Nobody /\ SendEnd(active)
      BY <1>11, <2>3 DEF Interrupt
    <3>2. active \in Response
      BY <1>0, <2>3 DEF TypeOK
    <3> QED
      BY <2>1, <3>1, <3>2, <1>c
  <2> QED
    BY <2>2, <2>3
<1>12. ASSUME NEW i \in Interrupter, ShowInterrupted(i) PROVE Goal
  BY <1>12, <1>q DEF ShowInterrupted, ctl, wire, Steady, Started
<1>13. CASE Disconnect
  BY <1>13, <1>y DEF Disconnect, wire, Steady, Started
<1>14. CASE Drop
  <2>1. Steady
    BY <1>0, <1>14, MovesAreSteady DEF Drop, Steady, Started
  <2> QED
    BY <2>1, <1>14, <1>q DEF Drop, ctl, wire
<1>15. CASE UNCHANGED vars
  BY <1>15, <1>q DEF vars, Steady, Started
<1> HIDE DEF Goal
<1> QED
  BY <1>1, <1>2, <1>3, <1>4, <1>5, <1>6, <1>8, <1>9, <1>10, <1>11,
     <1>12, <1>13, <1>14, <1>15 DEF Next, Resume

(* The coordinator implements SpeechWire: audio goes out only for the      *)
(* response that has the floor and on its open stream, and a response that *)
(* was superseded, interrupted or abandoned never speaks again.            *)
THEOREM SpeaksByTheRules == Spec => ImplementsSpeechWire
<1>1. Init => Wire!Init
  BY DEF Init, Wire!Init
<1> QED
  BY <1>1, WireStep, Invariance, PTL DEF Spec, ImplementsSpeechWire, Wire!Spec
=============================================================================
