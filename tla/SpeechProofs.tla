---------------------------- MODULE SpeechProofs ----------------------------
(***************************************************************************)
(* PlacesAreCounted and FullMeansFull for any number of calls, threads and *)
(* places, of deaths of the service and of broken connections.             *)
(***************************************************************************)
EXTENDS SpeechService, FiniteSetTheorems, TLAPS

Holding == {c \in Call : handler[c] \in InService}
Using == {c \in Call : handler[c] = "inferring"}

(* A call has a handler only once its thread has sent the request, and a   *)
(* thread only once it was made: a request never takes over a handler that *)
(* holds a place.                                                          *)
ThreadsInv ==
  /\ caller \in [Call -> {"idle", "waiting"} \cup Ended]
  /\ thread \in [Call -> {"none", "queued", "sent", "over"}]
  /\ handler \in [Call -> {"none", "received", "admitted", "inferring", "leaving", "replying"}]
  /\ \A c \in Call : caller[c] = "idle" => thread[c] = "none"
  /\ \A c \in Call : thread[c] \in {"none", "queued"} => handler[c] = "none"

(* What holds of the service's state.  That no two handlers use the model  *)
(* is said of each two of them, and counted in the end.                    *)
PlacesInv ==
  /\ handler \in [Call -> {"none", "received", "admitted", "inferring", "leaving", "replying"}]
  /\ waiting = Cardinality(Holding)
  /\ waiting <= MaxWaiting
  /\ \A b, c \in Call : handler[b] = "inferring" /\ handler[c] = "inferring" => b = c

LEMMA HoldingFinite ==
  ASSUME IsFiniteSet(Call)
  PROVE  /\ IsFiniteSet(Holding) /\ Cardinality(Holding) \in Nat
         /\ IsFiniteSet(Holding')
<1>1. Holding \subseteq Call /\ Holding' \subseteq Call
  BY DEF Holding
<1> QED
  BY <1>1, FS_Subset, FS_CardinalityType

(* A step that moves handlers only among the places, or only outside them. *)
LEMMA PlacesStay ==
  ASSUME PlacesInv, UNCHANGED waiting,
         handler' \in [Call -> {"none", "received", "admitted", "inferring", "leaving", "replying"}],
         \A c \in Call : handler'[c] \in InService <=> handler[c] \in InService,
         \A b, c \in Call : handler'[b] = "inferring" /\ handler'[c] = "inferring" => b = c
  PROVE  PlacesInv'
<1>1. Holding' = Holding
  BY DEF Holding, PlacesInv, InService
<1> QED
  BY <1>1 DEF PlacesInv

(* The service's steps.                                                    *)
LEMMA AdmitStep ==
  ASSUME IsFiniteSet(Call), PlacesInv, NEW c \in Call, Admit(c)
  PROVE  PlacesInv'
<1> USE LimitsAssumption
<1>1. CASE waiting >= MaxWaiting
  BY <1>1, PlacesStay DEF Admit, PlacesInv, InService
<1>2. CASE ~(waiting >= MaxWaiting)
  <2>1. /\ handler' = [handler EXCEPT ![c] = "admitted"]
        /\ waiting' = waiting + 1 /\ handler[c] = "received"
    BY <1>2 DEF Admit
  <2>2. c \notin Holding
    BY <2>1 DEF Holding, InService
  <2>3. Holding' = Holding \cup {c}
    BY <2>1 DEF Holding, InService, PlacesInv
  <2>4. Cardinality(Holding') = Cardinality(Holding) + 1
    BY <2>2, <2>3, HoldingFinite, FS_AddElement
  <2>5. waiting \in Nat /\ waiting' <= MaxWaiting
    BY <1>2, <2>1, HoldingFinite DEF PlacesInv
  <2> QED
    BY <2>1, <2>4, <2>5 DEF PlacesInv
<1> QED
  BY <1>1, <1>2

LEMMA LeaveStep ==
  ASSUME IsFiniteSet(Call), PlacesInv, NEW c \in Call, Leave(c)
  PROVE  PlacesInv'
<1> USE LimitsAssumption
<1>1. /\ handler' = [handler EXCEPT ![c] = "replying"]
      /\ waiting' = waiting - 1 /\ handler[c] = "leaving"
  BY DEF Leave
<1>2. c \in Holding
  BY <1>1 DEF Holding, InService
<1>3. Holding' = Holding \ {c}
  BY <1>1 DEF Holding, InService, PlacesInv
<1>4. Cardinality(Holding') = Cardinality(Holding) - 1
  BY <1>2, <1>3, HoldingFinite, FS_RemoveElement
<1>5. waiting \in Nat /\ waiting' <= MaxWaiting
  BY <1>1, HoldingFinite DEF PlacesInv
<1> QED
  BY <1>1, <1>4, <1>5 DEF PlacesInv

LEMMA DieStep ==
  ASSUME PlacesInv, Die
  PROVE  PlacesInv'
<1>1. Holding' = {}
  BY DEF Die, Holding, InService
<1>2. Cardinality(Holding') = 0
  BY <1>1, FS_EmptySet
<1> QED
  BY <1>2, LimitsAssumption DEF Die, PlacesInv

LEMMA ThreadsStep ==
  ASSUME ThreadsInv, [Next]_vars
  PROVE  ThreadsInv'
<1> USE DEF ThreadsInv, Ended
<1>1. CASE Start
  BY <1>1 DEF Start, service
<1>2. CASE Die
  BY <1>2 DEF Die
<1>3. ASSUME NEW c \in Call, AnswerLocally(c) PROVE ThreadsInv'
  BY <1>3 DEF AnswerLocally, service
<1>4. ASSUME NEW c \in Call, Synthesize(c) PROVE ThreadsInv'
  BY <1>4 DEF Synthesize, service
<1>5. ASSUME NEW c \in Call, Send(c) PROVE ThreadsInv'
  BY <1>5 DEF Send
<1>6. ASSUME NEW c \in Call, Refused(c) \/ SocketTimeout(c) \/ Cut(c) PROVE ThreadsInv'
  BY <1>6 DEF Refused, SocketTimeout, Cut, Broken, Return, service
<1>7. ASSUME NEW c \in Call, Deadline(c) \/ Abandon(c) PROVE ThreadsInv'
  BY <1>7 DEF Deadline, Abandon, GivenUp, service
<1>8. ASSUME NEW c \in Call, Admit(c) \/ Infer(c) \/ Inferred(c) \/ Leave(c)
      PROVE  ThreadsInv'
  BY <1>8 DEF Admit, Infer, Inferred, Leave
<1>9. ASSUME NEW c \in Call, Reply(c) PROVE ThreadsInv'
  BY <1>9 DEF Reply, Return
<1>10. CASE UNCHANGED vars
  BY <1>10 DEF vars
<1> QED
  BY <1>1, <1>2, <1>3, <1>4, <1>5, <1>6, <1>7, <1>8, <1>9, <1>10 DEF Next

LEMMA PlacesHold == IsFiniteSet(Call) => (Spec => [](ThreadsInv /\ PlacesInv))
<1> SUFFICES ASSUME IsFiniteSet(Call) PROVE Spec => [](ThreadsInv /\ PlacesInv)
  OBVIOUS
<1>1. Init => PlacesInv
  <2> SUFFICES ASSUME Init PROVE PlacesInv
    OBVIOUS
  <2>1. Holding = {}
    BY DEF Init, Holding, InService
  <2> QED
    BY <2>1, FS_EmptySet, LimitsAssumption DEF Init, PlacesInv
<1>2. Init => ThreadsInv
  BY DEF Init, ThreadsInv
<1>3. ThreadsInv /\ [Next]_vars => ThreadsInv'
  BY ThreadsStep
<1>4. ThreadsInv /\ PlacesInv /\ [Next]_vars => PlacesInv'
  <2> SUFFICES ASSUME ThreadsInv, PlacesInv, [Next]_vars PROVE PlacesInv'
    OBVIOUS
  <2> USE DEF InService
  <2>1. CASE UNCHANGED <<handler, waiting>>
    BY <2>1, PlacesStay DEF PlacesInv
  <2>2. CASE Start
    BY <2>1, <2>2 DEF Start, service
  <2>3. CASE Die
    BY <2>3, DieStep
  <2>4. ASSUME NEW c \in Call,
               \/ AnswerLocally(c) \/ Synthesize(c) \/ Refused(c)
               \/ Deadline(c) \/ Abandon(c) \/ SocketTimeout(c) \/ Cut(c)
        PROVE  PlacesInv'
    BY <2>1, <2>4 DEF AnswerLocally, Synthesize, Refused, Deadline, Abandon, GivenUp,
                      SocketTimeout, Cut, service
  <2>5. ASSUME NEW c \in Call, Send(c) PROVE PlacesInv'
    BY <2>5, PlacesStay DEF Send, PlacesInv, ThreadsInv
  <2>6. ASSUME NEW c \in Call, Infer(c) PROVE PlacesInv'
    BY <2>6, PlacesStay DEF Infer, PlacesInv
  <2>7. ASSUME NEW c \in Call, Inferred(c) PROVE PlacesInv'
    BY <2>7, PlacesStay DEF Inferred, PlacesInv
  <2>8. ASSUME NEW c \in Call, Reply(c) PROVE PlacesInv'
    BY <2>8, PlacesStay DEF Reply, PlacesInv
  <2>9. CASE UNCHANGED vars
    BY <2>1, <2>9 DEF vars
  <2> QED
    BY <2>2, <2>3, <2>4, <2>5, <2>6, <2>7, <2>8, <2>9, AdmitStep, LeaveStep DEF Next
<1> QED
  BY <1>1, <1>2, <1>3, <1>4, PTL DEF Spec

(* The counter is right, no limit is passed, and the model has one user.   *)
THEOREM PlacesAlwaysCounted == IsFiniteSet(Call) => (Spec => []PlacesAreCounted)
<1>1. PlacesInv => PlacesAreCounted
  <2> SUFFICES ASSUME PlacesInv PROVE Cardinality(Using) <= 1
    BY DEF PlacesInv, PlacesAreCounted, Holding, Using
  <2>1. CASE Using = {}
    BY <2>1, FS_EmptySet
  <2>2. CASE Using # {}
    <3>1. PICK c \in Using : TRUE
      BY <2>2
    <3>2. Using = {c}
      BY <3>1 DEF Using, PlacesInv
    <3>3. Cardinality(Using) = 1
      BY <3>2, FS_Singleton
    <3> QED
      BY <3>3
  <2> QED
    BY <2>1, <2>2
<1> QED
  BY <1>1, PlacesHold, PTL

-----------------------------------------------------------------------------
(* A Kokoro service refuses a call with 429 only while the other calls     *)
(* hold all its places.                                                    *)
Refuses(c) == adapter = "kokoro-loopback" /\ status[c] # "full" /\ status'[c] = "full"

LEMMA OnlyAdmitRefuses ==
  ASSUME status \in [Call -> {"none", "ok", "full", "failed"}], [Next]_vars,
         NEW c \in Call, Refuses(c)
  PROVE  Admit(c) /\ waiting >= MaxWaiting
<1> USE DEF Refuses
<1>1. CASE Start \/ Die \/ UNCHANGED vars
  BY <1>1 DEF Start, Die, service, vars
<1>2. ASSUME NEW b \in Call,
             \/ AnswerLocally(b) \/ Synthesize(b) \/ Send(b) \/ Refused(b) \/ Deadline(b)
             \/ Abandon(b) \/ SocketTimeout(b) \/ Cut(b) \/ Infer(b)
      PROVE  FALSE
  BY <1>2 DEF AnswerLocally, Synthesize, Send, Refused, Deadline, Abandon, GivenUp,
              SocketTimeout, Cut, Infer, service
<1>3. ASSUME NEW b \in Call, Inferred(b) PROVE FALSE
  BY <1>3 DEF Inferred, StatusOf, KokoroStatus
<1>4. ASSUME NEW b \in Call, Leave(b) \/ Reply(b) PROVE FALSE
  BY <1>4 DEF Leave, Reply, StatusOf, KokoroStatus
<1>5. ASSUME NEW b \in Call, Admit(b) PROVE Admit(c) /\ waiting >= MaxWaiting
  BY <1>5 DEF Admit
<1> QED
  BY <1>1, <1>2, <1>3, <1>4, <1>5 DEF Next

LEMMA StatusStep ==
  ASSUME status \in [Call -> {"none", "ok", "full", "failed"}], [Next]_vars
  PROVE  status' \in [Call -> {"none", "ok", "full", "failed"}]
<1>1. CASE Start \/ Die \/ UNCHANGED vars
  BY <1>1 DEF Start, Die, service, vars
<1>2. ASSUME NEW b \in Call,
             \/ AnswerLocally(b) \/ Synthesize(b) \/ Send(b) \/ Refused(b) \/ Deadline(b)
             \/ Abandon(b) \/ SocketTimeout(b) \/ Cut(b) \/ Infer(b)
      PROVE  UNCHANGED status
  BY <1>2 DEF AnswerLocally, Synthesize, Send, Refused, Deadline, Abandon, GivenUp,
              SocketTimeout, Cut, Infer, service
<1>3. ASSUME NEW b \in Call, Inferred(b) \/ Leave(b) \/ Reply(b) \/ Admit(b)
      PROVE  UNCHANGED status \/
             \E to \in {"none", "ok", "full", "failed"} : status' = [status EXCEPT ![b] = to]
  BY <1>3 DEF Inferred, Leave, Reply, Admit, StatusOf, KokoroStatus, QwenStatus
<1> QED
  BY <1>1, <1>2, <1>3 DEF Next

(* The Kokoro service answers "queue full" to a call only when the others  *)
(* hold every place that there is.                                         *)
THEOREM FullIsFull == IsFiniteSet(Call) => (Spec => FullMeansFull)
<1> SUFFICES ASSUME IsFiniteSet(Call) PROVE Spec => FullMeansFull
  OBVIOUS
<1> DEFINE Statuses == status \in [Call -> {"none", "ok", "full", "failed"}]
           Full(c) == Cardinality({b \in Call \ {c} : handler[b] \in InService}) = MaxWaiting
<1>1. Init => Statuses
  BY DEF Init
<1>2. Statuses /\ [Next]_vars => Statuses'
  BY StatusStep
<1>3. PlacesInv /\ Statuses /\ [Next]_vars => [\A c \in Call : Refuses(c) => Full(c)]_vars
  <2> SUFFICES ASSUME PlacesInv, Statuses, [Next]_vars, NEW c \in Call, Refuses(c)
               PROVE  Full(c)
    OBVIOUS
  <2>1. Admit(c) /\ waiting >= MaxWaiting
    BY OnlyAdmitRefuses
  <2>2. {b \in Call \ {c} : handler[b] \in InService} = Holding
    BY <2>1 DEF Admit, Holding, InService
  <2>3. waiting = MaxWaiting
    BY <2>1, HoldingFinite, LimitsAssumption DEF PlacesInv
  <2> QED
    BY <2>2, <2>3 DEF PlacesInv
<1>4. [\A c \in Call : Refuses(c) => Full(c)]_vars =>
      [\A c \in Call :
         (adapter = "kokoro-loopback" /\ status[c] # "full" /\ status'[c] = "full")
         => Cardinality({b \in Call \ {c} : handler[b] \in InService}) = MaxWaiting]_vars
  BY DEF Refuses
<1> QED
  BY <1>1, <1>2, <1>3, <1>4, PlacesHold, PTL DEF Spec, FullMeansFull
=============================================================================
