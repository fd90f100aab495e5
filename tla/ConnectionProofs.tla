-------------------------- MODULE ConnectionProofs --------------------------
(***************************************************************************)
(* Proofs about Connection: that CLIENT_HELLO is the first message a       *)
(* handler gets from the browser, and that a capture does not outlive its  *)
(* connection, for any number of sockets, faults and messages.             *)
(***************************************************************************)
EXTENDS Connection, SequenceTheorems, TLAPS

-----------------------------------------------------------------------------
(* Types.                                                                  *)

(* A loop's fields keep their types.                                       *)
LEMMA LoopUpdates ==
  ASSUME NEW c \in Loop
  PROVE  /\ \A steps \in Seq(Step) : [c EXCEPT !.todo = steps] \in Loop
         /\ \A running \in SUBSET Nat :
              /\ [c EXCEPT !.live = running] \in Loop
              /\ [Silent EXCEPT !.at = "gone", !.live = running] \in Loop
         /\ [c EXCEPT !.at = "on"] \in Loop
         /\ \A v \in {0, 1, 2}, n \in Nat, steps \in Seq(Step) :
              [c EXCEPT !.version = v, !.session = n, !.todo = steps] \in Loop
<1>1. <<>> \in Seq(Step)
  OBVIOUS
<1>2. \A steps \in Seq(Step) : [c EXCEPT !.todo = steps] \in Loop
  BY DEF Loop
<1>3. \A running \in SUBSET Nat : [c EXCEPT !.live = running] \in Loop
  BY DEF Loop
<1>4. [c EXCEPT !.at = "on"] \in Loop
  BY DEF Loop
<1>5. \A v \in {0, 1, 2}, n \in Nat, steps \in Seq(Step) :
        [c EXCEPT !.version = v, !.session = n, !.todo = steps] \in Loop
  BY DEF Loop
<1>6. \A running \in SUBSET Nat : [Silent EXCEPT !.at = "gone", !.live = running] \in Loop
  BY <1>1 DEF Loop, Silent
<1> QED BY <1>2, <1>3, <1>4, <1>5, <1>6

LEMMA StepsTyped ==
  {<<>>, <<"event">>, <<"quit">>, <<"join">>, <<"event", "quit">>, <<"event", "close">>}
    \subseteq Seq(Step)
<1>1. <<>> \in Seq(Step)
  OBVIOUS
<1>2. \A x \in Step : <<x>> \in Seq(Step)
  OBVIOUS
<1>3. \A x, y \in Step : <<x, y>> \in Seq(Step)
  OBVIOUS
<1> QED BY <1>1, <1>2, <1>3 DEF Step

LEMMA ServerTyped ==
  ASSUME TypeOK, NEW s \in Socket, NEW c \in Loop, server' = [server EXCEPT ![s] = c]
  PROVE  server' \in [Socket -> Loop]
BY DEF TypeOK

(* What a message leads to is again a state of the loop.                   *)
LEMMA ReactTyped ==
  ASSUME NEW c \in Loop, NEW m \in Message, NEW d \in React(c, m)
  PROVE  d \in Loop
<1>1. \A steps \in {<<>>, <<"event">>, <<"quit">>, <<"join">>, <<"event", "quit">>,
                    <<"event", "close">>} : Reply(c, steps) \in Loop
  BY LoopUpdates, StepsTyped DEF Reply
<1>2. Error(c) \in Loop
  BY <1>1 DEF Error
<1>3. \A v \in {1, 2, 99} : Greet(c, v) \in Loop
  <2> SUFFICES ASSUME NEW v \in {1, 2, 99} PROVE Greet(c, v) \in Loop
    OBVIOUS
  <2>1. CASE v = 99
    BY <1>1, <2>1 DEF Greet
  <2>2. CASE v # 99
    <3> DEFINE n == IF v = 2 THEN c.session + 1 ELSE c.session
    <3>1. n \in Nat /\ v \in {0, 1, 2}
      BY <2>2 DEF Loop
    <3>2. [c EXCEPT !.version = v, !.session = n, !.todo = <<"event">>] \in Loop
      <4> HIDE DEF n
      <4>1. <<"event">> \in Seq(Step)
        BY StepsTyped
      <4>2. \A w \in {0, 1, 2}, k \in Nat, steps \in Seq(Step) :
              [c EXCEPT !.version = w, !.session = k, !.todo = steps] \in Loop
        BY LoopUpdates
      <4> QED BY <3>1, <4>1, <4>2
    <3> QED BY <2>2, <3>2 DEF Greet
  <2> QED BY <2>1, <2>2
<1>4. [c EXCEPT !.live = @ \cup {c.session}] \in Loop
  <2>1. c.live \cup {c.session} \in SUBSET Nat
    BY DEF Loop
  <2> QED BY <2>1, LoopUpdates
<1>5. CASE m[1] = "AUDIO"
  BY <1>1, <1>2, <1>5 DEF React, AcceptAudio
<1>6. CASE m[1] = "GARBLED"
  BY <1>1, <1>2, <1>6 DEF React
<1>7. CASE m[1] = "PING"
  BY <1>7 DEF React
<1>8. CASE m[1] = "CLIENT_HELLO"
  <2>1. m[2] \in {1, 2, 99}
    BY <1>8 DEF Message, Sayings, Anything, Hello
  <2> QED BY <1>3, <1>8, <2>1 DEF React
<1>9. CASE m[1] \notin {"AUDIO", "GARBLED", "PING", "CLIENT_HELLO"}
  <2>1. m[1] \in {"CAPTURE_START", "CAPTURE_END", "USER_TEXT", "USER_INTERRUPT",
                  "TASK_CANCEL", "USER_TARGET", "UNKNOWN"}
    BY <1>9 DEF Message, Sayings, Anything, Hello
  <2>2. d = Error(c) \/ d \in Handle(c, m[1])
    BY <1>9 DEF React
  <2>3. ASSUME d \in Handle(c, m[1]) PROVE d \in Loop
    BY <1>1, <1>2, <1>4, <2>1, <2>3 DEF Handle, StartCapture, EndCapture
  <2> QED BY <1>2, <2>2, <2>3
<1> QED BY <1>5, <1>6, <1>7, <1>8, <1>9

LEMMA MessagesTyped ==
  ASSUME TypeOK, NEW s \in Socket \cup {None}, NEW m \in Message
  PROVE  Through(s, m) \in [Socket -> Seq(Message)]
BY DEF TypeOK, Through, None

(* Reading takes the first message and leaves the rest.                    *)
LEMMA HeadTyped ==
  ASSUME NEW S, NEW q \in Seq(S), q # <<>>
  PROVE  Head(q) \in S /\ Tail(q) \in Seq(S)
BY HeadTailProperties

LEMMA ConnectTyped ==
  ASSUME TypeOK, ConnectionAssumption,
         NEW w \in Socket \cup {None},
         NEW st \in {"disconnected", "connecting", "connected", "reconnecting", "error"},
         NEW ph \in [Socket -> {"none", "connecting", "open", "closing", "closed"}],
         Connect(w, st, ph)
  PROVE  /\ ws' \in Socket \cup {None}
         /\ state' \in {"disconnected", "connecting", "connected", "reconnecting", "error"}
         /\ intentional' \in BOOLEAN /\ timer' \in BOOLEAN
         /\ beat' \in {"off", "on", "waiting"}
         /\ phase' \in [Socket -> {"none", "connecting", "open", "closing", "closed"}]
         /\ faults' \in Nat
<1>1. ASSUME UNCHANGED faults PROVE faults' \in Nat
  BY <1>1 DEF TypeOK
<1>2. CASE st = "connected" /\ w # None
  BY <1>1, <1>2 DEF Connect
<1>3. CASE /\ ~(st = "connected" /\ w # None)
           /\ \E s \in Unopened :
               /\ ws' = s /\ phase' = [ph EXCEPT ![s] = "connecting"]
               /\ state' = "connecting" /\ timer' = FALSE
               /\ UNCHANGED faults
  BY <1>1, <1>3 DEF Connect, Unopened
<1>4. CASE /\ ~(st = "connected" /\ w # None)
           /\ faults' = faults + 1
           /\ ws' = w /\ phase' = ph
           /\ state' = "error" /\ timer' = TRUE
  <2>1. faults' \in Nat
    BY <1>4 DEF TypeOK
  <2>2. intentional' = FALSE /\ beat' = "off"
    BY DEF Connect
  <2> QED BY <1>4, <2>1, <2>2
<1> QED BY <1>2, <1>3, <1>4 DEF Connect

LEMMA ClosingTyped ==
  ASSUME TypeOK
  PROVE  Closing \in [Socket -> {"none", "connecting", "open", "closing", "closed"}]
BY DEF TypeOK, Closing, None

LEMMA StepTypes ==
  ASSUME TypeOK, ConnectionAssumption, [Next]_vars
  PROVE  TypeOK'
<1> DEFINE Phases == {"none", "connecting", "open", "closing", "closed"}
<1>h. Hello(2) \in Message /\ <<"PING">> \in Message /\ Sayings \subseteq Message
  BY DEF Message, Anything, Sayings
<1>1. CASE UNCHANGED vars
  BY <1>1 DEF TypeOK, vars, client, net
<1>2. CASE Mount
  <2>1. Connect(ws, state, phase)
    BY <1>2 DEF Mount
  <2> QED BY <1>2, <2>1, ConnectTyped DEF Mount, TypeOK
<1>3. CASE Retarget
  <2>1. Connect(None, "disconnected", Closing)
    BY <1>3 DEF Retarget
  <2>2. /\ ws' \in Socket \cup {None}
        /\ state' \in {"disconnected", "connecting", "connected", "reconnecting", "error"}
        /\ intentional' \in BOOLEAN /\ timer' \in BOOLEAN
        /\ beat' \in {"off", "on", "waiting"}
        /\ phase' \in [Socket -> Phases]
        /\ faults' \in Nat
    BY <2>1, ConnectTyped, ClosingTyped
  <2> QED BY <1>3, <2>2 DEF Retarget, TypeOK
<1>4. CASE Unmount
  <2>1. phase' \in [Socket -> Phases]
    BY <1>4, ClosingTyped DEF Unmount
  <2>2. disconnects' \in Nat
    BY <1>4 DEF Unmount, TypeOK
  <2> QED BY <1>4, <2>1, <2>2 DEF Unmount, TypeOK
<1>5. CASE TimerFires
  <2>1. Connect(ws, state, phase)
    BY <1>5 DEF TimerFires
  <2> QED BY <1>5, <2>1, ConnectTyped DEF TimerFires, TypeOK
<1>6. CASE Ping
  BY <1>6, <1>h, MessagesTyped DEF Ping, TypeOK
<1>7. CASE PongTimeout
  <2>1. faults' \in Nat
    BY <1>7 DEF PongTimeout, TypeOK
  <2> QED BY <1>7, <2>1, ClosingTyped DEF PongTimeout, TypeOK
<1>8. ASSUME NEW m \in Sayings, Say(m) PROVE TypeOK'
  BY <1>8, <1>h, MessagesTyped DEF Say, TypeOK, client
<1>9. CASE ToolConnects
  BY <1>9 DEF ToolConnects, TypeOK, client, Loop
<1>10. CASE ToolLeaves
  BY <1>10 DEF ToolLeaves, TypeOK, client
<1>11. ASSUME NEW m \in Anything, ToolSends(m) PROVE TypeOK'
  <2>1. up' = [up EXCEPT ![1] = Append(@, m)] /\ m \in Message
    BY <1>11 DEF ToolSends, Message
  <2>2. up' \in [Socket -> Seq(Message)]
    <3>1. CASE 1 \in Socket
      <4>1. Append(up[1], m) \in Seq(Message)
        BY <2>1, <3>1 DEF TypeOK
      <4> QED BY <2>1, <4>1 DEF TypeOK
    <3>2. CASE 1 \notin Socket
      <4>1. up' = up
        BY <2>1, <3>2 DEF TypeOK
      <4> QED BY <4>1 DEF TypeOK
    <3> QED BY <3>1, <3>2
  <2> QED BY <1>11, <2>2 DEF ToolSends, TypeOK, client
<1>12. ASSUME NEW s \in Socket, Opened(s) PROVE TypeOK'
  <2>1. up' \in [Socket -> Seq(Message)]
    BY <1>12, <1>h, MessagesTyped DEF Opened, TypeOK
  <2>2. server' \in [Socket -> Loop]
    BY <1>12 DEF Opened, Accepted, TypeOK, Loop
  <2> QED BY <1>12, <2>1, <2>2 DEF Opened, Accepted, TypeOK
<1>13. ASSUME NEW s \in Socket, Closed(s) PROVE TypeOK'
  <2>1. timer' \in BOOLEAN /\ state' \in {"disconnected", "reconnecting"}
    BY <1>13 DEF Closed, TypeOK
  <2> QED BY <1>13, <2>1 DEF Closed, TypeOK
<1>14. ASSUME NEW s \in Socket, Drop(s) \/ Deafen(s) PROVE TypeOK'
  BY <1>14 DEF Drop, Deafen, TypeOK, client
<1>15. ASSUME NEW s \in Socket, Handler(s) PROVE TypeOK'
  <2>0. server[s] \in Loop /\ up[s] \in Seq(Message)
    BY DEF TypeOK
  <2>l. \A x : server[s].live \ {x} \in SUBSET Nat
    BY <2>0 DEF Loop
  <2>e. ASSUME server' \in [Socket -> Loop],
               UNCHANGED <<peer, client, net, disconnects, faults, sends, refused>>
        PROVE  TypeOK'
    BY <2>e DEF TypeOK, client, net
  <2>1. CASE Read(s)
    <3> DEFINE m == Head(up[s])
    <3>1. up[s] # <<>>
      BY <2>1 DEF Read
    <3>2. m \in Message /\ Tail(up[s]) \in Seq(Message)
      BY <2>0, <3>1, HeadTyped
    <3>3. PICK c \in React(server[s], m) : server' = [server EXCEPT ![s] = c]
      BY <2>1 DEF Read
    <3>4. c \in Loop
      BY <2>0, <3>2, <3>3, ReactTyped
    <3>5. server' \in [Socket -> Loop]
      BY <3>3, <3>4 DEF TypeOK
    <3>6. up' \in [Socket -> Seq(Message)]
      BY <2>1, <3>2 DEF Read, TypeOK
    <3>7. refused' \in BOOLEAN /\ beat' \in {"off", "on", "waiting"}
      BY <2>1 DEF Read, TypeOK
    <3> QED BY <2>1, <3>5, <3>6, <3>7 DEF Read, TypeOK
  <2>2. CASE SendEvent(s)
    <3> DEFINE steps == IF Lost(s) THEN <<"quit">> ELSE Tail(server[s].todo)
    <3>1. server[s].todo \in Seq(Step)
      BY <2>0 DEF Loop
    <3>2. steps \in Seq(Step)
      BY <2>2, <3>1, HeadTyped, StepsTyped DEF SendEvent, Owes
    <3>3. server' \in [Socket -> Loop]
      <4> HIDE DEF steps
      <4>1. [server[s] EXCEPT !.todo = steps] \in Loop
        BY <2>0, <3>2, LoopUpdates
      <4>2. server' = [server EXCEPT ![s] = [server[s] EXCEPT !.todo = steps]]
        BY <2>2 DEF SendEvent, steps
      <4> QED BY <4>1, <4>2, ServerTyped
    <3> QED BY <2>2, <2>e, <3>3 DEF SendEvent
  <2>3. CASE AfterBackpressure(s)
    <3> DEFINE c == Reply(CloseSession(server[s]), <<>>)
    <3>0. c \in Loop
      BY <2>0, <2>l, LoopUpdates, StepsTyped DEF Reply, CloseSession
    <3>1. server' \in [Socket -> Loop]
      BY <2>3, <3>0, ServerTyped DEF AfterBackpressure
    <3> QED BY <2>3, <2>e, <3>1 DEF AfterBackpressure
  <2>4. CASE Joined(s)
    <3> DEFINE c == [server[s] EXCEPT !.todo = <<>>]
    <3>0. c \in Loop
      BY <2>0, LoopUpdates, StepsTyped
    <3>1. server' \in [Socket -> Loop]
      BY <2>4, <3>0, ServerTyped DEF Joined
    <3> QED BY <2>4, <2>e, <3>1 DEF Joined
  <2>5. CASE Leave(s)
    <3> DEFINE c == [Silent EXCEPT !.at = "gone", !.live = CloseSession(server[s]).live]
    <3>1. CloseSession(server[s]).live \in SUBSET Nat
      BY <2>0, <2>l DEF CloseSession, Loop
    <3>3. c \in Loop
      BY <2>0, <3>1, LoopUpdates, StepsTyped
    <3>2. server' \in [Socket -> Loop]
      BY <2>5, <3>3, ServerTyped DEF Leave, Done
    <3> QED BY <2>5, <3>2 DEF Leave, Done, TypeOK, client
  <2>6. CASE CaptureOver(s)
    <3>0. PICK v \in server[s].live : server' = [server EXCEPT ![s].live = @ \ {v}]
      BY <2>6 DEF CaptureOver
    <3> DEFINE c == [server[s] EXCEPT !.live = server[s].live \ {v}]
    <3>2. c \in Loop
      BY <2>0, <2>l, LoopUpdates, StepsTyped
    <3>1. server' \in [Socket -> Loop]
      BY <3>0, <3>2, ServerTyped
    <3> QED BY <2>6, <2>e, <3>1 DEF CaptureOver
  <2> QED BY <1>15, <2>1, <2>2, <2>3, <2>4, <2>5, <2>6 DEF Handler
<1> QED
  BY <1>1, <1>2, <1>3, <1>4, <1>5, <1>6, <1>7, <1>8, <1>9, <1>10, <1>11, <1>12, <1>13,
     <1>14, <1>15 DEF Next

LEMMA InitTypes == Init => TypeOK
<1> SUFFICES ASSUME Init PROVE TypeOK
  OBVIOUS
<1>1. Silent \in Loop
  BY StepsTyped DEF Silent, Loop
<1>2. server \in [Socket -> Loop]
  BY <1>1 DEF Init
<1>3. up \in [Socket -> Seq(Message)]
  BY DEF Init
<1> QED BY <1>2, <1>3 DEF Init, TypeOK

(* What the client, the network and the handlers hold has its type.        *)
THEOREM TypesHold == Spec => []TypeOK
<1>1. TypeOK /\ [Next]_vars => TypeOK'
  BY StepTypes, ConnectionAssumption
<1> QED BY InitTypes, <1>1, PTL DEF Spec

-----------------------------------------------------------------------------
(* The greeting.  A handler of the browser that has not been greeted finds *)
(* CLIENT_HELLO on the wire before anything that needs it; and it does     *)
(* find one as soon as this.ws lets the user speak.                        *)

BrowserMessage == {Hello(2), <<"PING">>, <<"CAPTURE_START">>}

(* Nothing has happened on a socket that is not open yet.                  *)
Untouched(s) ==
  phase[s] \in {"none", "connecting"} =>
    server[s] = Silent /\ up[s] = <<>> /\ s \notin deaf

Waiting(s) == server[s].at = "on" /\ server[s].version = 0

GreetsFirst(s) ==
  \A i \in DOMAIN up[s] :
    up[s][i] = <<"CAPTURE_START">> => \E j \in 1 .. i - 1 : up[s][j] = Hello(2)

Usable(s) == ws = s /\ phase[s] = "open" /\ s \notin deaf

HasGreeting(s) == \E j \in DOMAIN up[s] : up[s][j] = Hello(2)

Greeted(s) ==
  /\ Untouched(s)
  /\ up[s] \in Seq(BrowserMessage)
  /\ server[s].version \in {0, 2}
  /\ Waiting(s) => GreetsFirst(s)
  /\ Waiting(s) /\ Usable(s) => HasGreeting(s)

GreetInv == ~refused /\ (peer = "browser" => \A s \in Socket : Greeted(s))

LEMMA MessagesDiffer ==
  /\ Hello(2)[1] = "CLIENT_HELLO" /\ Hello(2)[2] = 2
  /\ <<"PING">>[1] = "PING" /\ <<"CAPTURE_START">>[1] = "CAPTURE_START"
  /\ Hello(2) # <<"PING">> /\ Hello(2) # <<"CAPTURE_START">>
  /\ <<"PING">> # <<"CAPTURE_START">>
BY DEF Hello

(* What a message of the browser changes of the loop.                      *)
LEMMA ReactEffect ==
  ASSUME NEW c \in Loop, NEW m \in BrowserMessage, NEW d \in React(c, m)
  PROVE  /\ d.at = c.at
         /\ m = Hello(2) => d.version = 2 /\ d.session = c.session + 1 /\ d.live = c.live
         /\ m # Hello(2) => d.version = c.version /\ d.session = c.session
         /\ d.live = c.live \/ (c.version = 2 /\ d.live = c.live \cup {c.session})
<1>1. \A steps : /\ Reply(c, steps).at = c.at /\ Reply(c, steps).version = c.version
                 /\ Reply(c, steps).session = c.session /\ Reply(c, steps).live = c.live
  BY DEF Reply, Loop
<1>2. CASE m = Hello(2)
  <2>1. d = [c EXCEPT !.version = 2, !.session = @ + 1, !.todo = <<"event">>]
    BY <1>2, MessagesDiffer DEF React, Greet
  <2> QED BY <1>2, <2>1 DEF Loop
<1>3. CASE m = <<"PING">>
  <2>1. d = c
    BY <1>3, MessagesDiffer DEF React
  <2> QED BY <1>3, <2>1, MessagesDiffer
<1>4. CASE m = <<"CAPTURE_START">>
  <2>1. d = Error(c) \/ d \in StartCapture(c)
    BY <1>4, MessagesDiffer DEF React, Handle
  <2>2. d = Error(c) \/ (c.version = 2 /\ d = [c EXCEPT !.live = @ \cup {c.session}])
    BY <2>1 DEF StartCapture
  <2>3. CASE d = Error(c)
    BY <1>1, <1>4, <2>3, MessagesDiffer DEF Error
  <2>4. CASE c.version = 2 /\ d = [c EXCEPT !.live = @ \cup {c.session}]
    BY <1>4, <2>4, MessagesDiffer DEF Loop
  <2> QED BY <2>2, <2>3, <2>4
<1> QED BY <1>2, <1>3, <1>4 DEF BrowserMessage

(* A socket on which nothing changes, but perhaps its phase.               *)
LEMMA GreetedUndisturbed ==
  ASSUME NEW t \in Socket, Greeted(t), up'[t] = up[t],
         server'[t].at = server[t].at, server'[t].version = server[t].version,
         Untouched(t)', Usable(t)' => Usable(t)
  PROVE  Greeted(t)'
BY DEF Greeted, Waiting, GreetsFirst, HasGreeting

LEMMA GreetedPhases ==
  ASSUME TypeOK, GreetInv, UNCHANGED <<peer, up, server, refused>>,
         \A t \in Socket :
           /\ phase'[t] \in {"none", "connecting"} => phase[t] \in {"none", "connecting"}
           /\ phase'[t] \in {"none", "connecting"} /\ t \in deaf' => t \in deaf
           /\ Usable(t)' => Usable(t)
  PROVE  GreetInv'
<1> SUFFICES ASSUME NEW t \in Socket, peer = "browser" PROVE Greeted(t)'
  BY DEF GreetInv
<1>1. Greeted(t)
  BY DEF GreetInv
<1>2. Untouched(t)'
  BY <1>1 DEF Greeted, Untouched
<1> QED BY <1>1, <1>2, GreetedUndisturbed

(* A message that leaves by this.ws.                                       *)
LEMMA GreetedThrough ==
  ASSUME TypeOK, NEW t \in Socket, Greeted(t), NEW m \in BrowserMessage,
         up' = Through(ws, m),
         ws' = ws, phase'[t] = phase[t], deaf' = deaf, server'[t] = server[t],
         m = <<"CAPTURE_START">> => Open(ws), Open(ws)
  PROVE  Greeted(t)'
<1>0. up[t] \in Seq(BrowserMessage) /\ t # None
  BY DEF Greeted, Socket, None
<1>1. CASE up'[t] = up[t]
  BY <1>1, GreetedUndisturbed DEF Greeted, Untouched, Usable
<1>2. CASE ~(ws = t /\ t \notin deaf)
  BY <1>1, <1>2 DEF Through, TypeOK
<1>3. CASE ws = t /\ t \notin deaf
  <2>1. up'[t] = Append(up[t], m)
    BY <1>0, <1>3 DEF Through, TypeOK
  <2>2. Usable(t)
    BY <1>3 DEF Open, Usable
  <2>3. up'[t] \in Seq(BrowserMessage)
    BY <1>0, <2>1
  <2>4. /\ Len(up'[t]) = Len(up[t]) + 1 /\ DOMAIN up'[t] = 1 .. Len(up[t]) + 1
        /\ DOMAIN up[t] = 1 .. Len(up[t]) /\ Len(up[t]) \in Nat
        /\ \A i \in 1 .. Len(up[t]) : up'[t][i] = up[t][i]
        /\ up'[t][Len(up[t]) + 1] = m
    BY <1>0, <2>1
  <2>5. ASSUME Waiting(t)' PROVE GreetsFirst(t)' /\ HasGreeting(t)'
    <3>1. Waiting(t)
      BY <2>5 DEF Waiting
    <3>2. GreetsFirst(t)
      BY <3>1 DEF Greeted
    <3>3. PICK j \in 1 .. Len(up[t]) : up[t][j] = Hello(2)
      BY <2>2, <2>4, <3>1 DEF Greeted, HasGreeting
    <3>4. up'[t][j] = Hello(2)
      BY <2>4, <3>3
    <3>5. ASSUME NEW i \in 1 .. Len(up[t]) + 1, up'[t][i] = <<"CAPTURE_START">>
          PROVE  \E k \in 1 .. i - 1 : up'[t][k] = Hello(2)
      <4>1. CASE i = Len(up[t]) + 1
        BY <2>4, <3>4, <4>1
      <4>2. CASE i \in 1 .. Len(up[t])
        <5>1. PICK k \in 1 .. i - 1 : up[t][k] = Hello(2)
          BY <2>4, <3>2, <3>5, <4>2 DEF GreetsFirst
        <5>2. up'[t][k] = Hello(2)
          BY <2>4, <4>2, <5>1
        <5> QED BY <5>1, <5>2
      <4> QED BY <2>4, <4>1, <4>2
    <3>6. GreetsFirst(t)'
      BY <2>4, <3>5 DEF GreetsFirst
    <3>7. HasGreeting(t)'
      BY <2>4, <3>3, <3>4 DEF HasGreeting
    <3> QED BY <3>6, <3>7
  <2> QED BY <2>2, <2>3, <2>5 DEF Greeted, Untouched, Usable
<1> QED BY <1>2, <1>3

LEMMA ConnectPhases ==
  ASSUME TypeOK, NEW w, NEW st, NEW ph, Connect(w, st, ph),
         ph \in [Socket -> {"none", "connecting", "open", "closing", "closed"}],
         \A t \in Socket : /\ ph[t] \in {"none", "connecting"} => phase[t] \in {"none", "connecting"}
                           /\ ph[t] = "open" => phase[t] = "open",
         w = None \/ w = ws,
         NEW t \in Socket
  PROVE  /\ phase'[t] \in {"none", "connecting"} => phase[t] \in {"none", "connecting"}
         /\ ws' = t /\ phase'[t] = "open" => ws = t /\ phase[t] = "open"
<1>0. t # None
  BY DEF Socket, None
<1>1. CASE ws' = w /\ phase' = ph
  BY <1>0, <1>1
<1>2. ASSUME NEW s \in Unopened, ws' = s, phase' = [ph EXCEPT ![s] = "connecting"]
      PROVE  /\ phase'[t] \in {"none", "connecting"} => phase[t] \in {"none", "connecting"}
             /\ ~(ws' = t /\ phase'[t] = "open")
  <2>1. CASE s = t
    BY <1>2, <2>1 DEF Unopened
  <2>2. CASE s # t
    BY <1>2, <2>2 DEF Unopened
  <2> QED BY <2>1, <2>2
<1> QED BY <1>1, <1>2 DEF Connect

LEMMA ClosingPhases ==
  ASSUME TypeOK, NEW t \in Socket
  PROVE  /\ Closing[t] = phase[t] \/ (t = ws /\ Closing[t] = "closing")
BY DEF TypeOK, Closing, None

(* A message that the server reads.                                        *)
LEMMA GreetedRead ==
  ASSUME TypeOK, GreetInv, NEW s \in Socket, Read(s), peer = "browser"
  PROVE  ~refused' /\ Greeted(s)'
<1> DEFINE m == Head(up[s])
<1>0. /\ Greeted(s) /\ server[s] \in Loop /\ up[s] \in Seq(BrowserMessage)
      /\ up[s] # <<>> /\ server[s].at = "on" /\ ~refused
  BY DEF GreetInv, Greeted, TypeOK, Read, Reading, On
<1>1. m \in BrowserMessage /\ Tail(up[s]) \in Seq(BrowserMessage)
  BY <1>0, HeadTyped
<1>2. /\ Len(up[s]) \in Nat /\ DOMAIN up[s] = 1 .. Len(up[s]) /\ m = up[s][1] /\ Len(up[s]) >= 1
      /\ DOMAIN Tail(up[s]) = 1 .. Len(up[s]) - 1
      /\ \A i \in 1 .. Len(up[s]) - 1 : Tail(up[s])[i] = up[s][i + 1]
  BY <1>0
<1>3. PICK c \in React(server[s], m) : server' = [server EXCEPT ![s] = c]
  BY DEF Read
<1>4. server'[s] = c /\ up'[s] = Tail(up[s])
  BY <1>0, <1>3 DEF Read, TypeOK
<1>5. /\ c.at = "on"
      /\ m = Hello(2) => c.version = 2
      /\ m # Hello(2) => c.version = server[s].version
  BY <1>0, <1>1, <1>3, ReactEffect
<1>6. server[s].version = 0 => m # <<"CAPTURE_START">>
  BY <1>0, <1>2 DEF Greeted, Waiting, GreetsFirst
<1>7. ~refused'
  BY <1>0, <1>1, <1>6, MessagesDiffer DEF Read, BrowserMessage
<1>8. Untouched(s)'
  BY <1>0 DEF Greeted, Untouched, Silent, Read
<1>9. ASSUME Waiting(s)' PROVE GreetsFirst(s)' /\ (Usable(s)' => HasGreeting(s)')
  <2>1. m # Hello(2) /\ Waiting(s)
    BY <1>0, <1>4, <1>5, <1>9 DEF Waiting
  <2>2. GreetsFirst(s) /\ (Usable(s) => HasGreeting(s))
    BY <1>0, <2>1 DEF Greeted
  <2>3. \A j \in 1 .. Len(up[s]) : up[s][j] = Hello(2) =>
          j - 1 \in 1 .. Len(up[s]) - 1 /\ up'[s][j - 1] = Hello(2)
    BY <1>2, <1>4, <2>1
  <2>4. GreetsFirst(s)'
    <3> SUFFICES ASSUME NEW i \in 1 .. Len(up[s]) - 1, up'[s][i] = <<"CAPTURE_START">>
                 PROVE  \E j \in 1 .. i - 1 : up'[s][j] = Hello(2)
      BY <1>2, <1>4 DEF GreetsFirst
    <3>1. up[s][i + 1] = <<"CAPTURE_START">> /\ i + 1 \in 1 .. Len(up[s])
      BY <1>2, <1>4
    <3>2. PICK j \in 1 .. (i + 1) - 1 : up[s][j] = Hello(2)
      BY <1>2, <2>2, <3>1 DEF GreetsFirst
    <3>3. j \in 1 .. Len(up[s])
      BY <1>2
    <3> QED BY <2>3, <3>2, <3>3
  <2>5. Usable(s)' => HasGreeting(s)'
    <3> SUFFICES ASSUME Usable(s)' PROVE HasGreeting(s)'
      OBVIOUS
    <3>1. Usable(s)
      BY DEF Usable, Read
    <3>2. PICK j \in 1 .. Len(up[s]) : up[s][j] = Hello(2)
      BY <1>2, <2>2, <3>1 DEF HasGreeting
    <3> QED BY <1>2, <1>4, <2>3, <3>2 DEF HasGreeting
  <2> QED BY <2>4, <2>5
<1>10. up'[s] \in Seq(BrowserMessage) /\ server'[s].version \in {0, 2}
  BY <1>0, <1>1, <1>4, <1>5 DEF Greeted
<1> QED BY <1>7, <1>8, <1>9, <1>10 DEF Greeted

(* A step of one handler does not concern another.                         *)
LEMMA OtherHandlers ==
  ASSUME TypeOK, NEW s \in Socket, Handler(s), NEW t \in Socket, t # s
  PROVE  /\ server'[t] = server[t] /\ up'[t] = up[t] /\ phase'[t] = phase[t]
         /\ ws' = ws /\ deaf' = deaf /\ peer' = peer
<1>1. CASE Read(s)
  BY <1>1 DEF Read, TypeOK
<1>2. CASE SendEvent(s)
  BY <1>2 DEF SendEvent, TypeOK, client, net
<1>3. CASE AfterBackpressure(s)
  BY <1>3 DEF AfterBackpressure, TypeOK, client, net
<1>4. CASE Joined(s)
  BY <1>4 DEF Joined, TypeOK, client, net
<1>5. CASE Leave(s)
  BY <1>5 DEF Leave, Done, TypeOK, client
<1>6. CASE CaptureOver(s)
  BY <1>6 DEF CaptureOver, TypeOK, client, net
<1> QED BY <1>1, <1>2, <1>3, <1>4, <1>5, <1>6 DEF Handler

(* What the steps of a handler that read no message change of it.          *)
LEMMA SameHandler ==
  ASSUME TypeOK, NEW s \in Socket,
         SendEvent(s) \/ AfterBackpressure(s) \/ Joined(s) \/ CaptureOver(s)
  PROVE  /\ server'[s].at = server[s].at /\ server'[s].version = server[s].version
         /\ server'[s].session = server[s].session
         /\ server'[s].live \subseteq server[s].live
         /\ server[s] = Silent => FALSE
         /\ UNCHANGED <<peer, client, net, disconnects, faults, sends, refused>>
<1>0. server[s] \in Loop
  BY DEF TypeOK
<1>1. CASE SendEvent(s)
  <2>1. server'[s] = [server[s] EXCEPT !.todo = server'[s].todo] /\ server[s].at = "on"
    BY <1>0, <1>1 DEF SendEvent, Owes, On, TypeOK, Loop
  <2> QED BY <1>0, <1>1, <2>1 DEF SendEvent, Silent, Loop
<1>2. CASE AfterBackpressure(s)
  <2>1. server'[s] = [server[s] EXCEPT !.live = @ \ {server[s].session}, !.todo = <<>>]
        /\ server[s].at = "on"
    BY <1>0, <1>2 DEF AfterBackpressure, Owes, On, TypeOK, Loop, Reply, CloseSession
  <2>2. /\ server'[s].at = server[s].at /\ server'[s].version = server[s].version
        /\ server'[s].session = server[s].session
        /\ server'[s].live = server[s].live \ {server[s].session}
    BY <1>0, <2>1 DEF Loop
  <2> QED BY <1>2, <2>1, <2>2 DEF AfterBackpressure, Silent
<1>3. CASE Joined(s)
  <2>1. server'[s] = [server[s] EXCEPT !.todo = <<>>] /\ server[s].at = "on"
    BY <1>0, <1>3 DEF Joined, Owes, On, TypeOK, Loop
  <2> QED BY <1>0, <1>3, <2>1 DEF Joined, Silent, Loop
<1>4. CASE CaptureOver(s)
  <2>1. PICK v \in server[s].live : server' = [server EXCEPT ![s].live = @ \ {v}]
    BY <1>4 DEF CaptureOver
  <2>2. server'[s] = [server[s] EXCEPT !.live = @ \ {v}] /\ server[s].live # {}
    BY <1>0, <2>1 DEF TypeOK, Loop
  <2> QED BY <1>0, <1>4, <2>2 DEF CaptureOver, Silent, Loop
<1> QED BY <1>1, <1>2, <1>3, <1>4

(* The loop ends.                                                          *)
LEMMA LeaveEffect ==
  ASSUME TypeOK, NEW s \in Socket, Leave(s)
  PROVE  /\ server[s].at = "on"
         /\ server'[s].at = "gone" /\ server'[s].version = 0 /\ server'[s].session = 0
         /\ server'[s].live = server[s].live \ {server[s].session}
         /\ up'[s] = <<>>
         /\ phase'[s] = phase[s] \/ (phase[s] = "open" /\ phase'[s] = "closing")
         /\ UNCHANGED <<peer, client, deaf, disconnects, faults, sends, refused>>
<1>0. server[s] \in Loop
  BY DEF TypeOK
<1>1. server[s].at = "on"
  BY DEF Leave, Done, Reading, Owes, On
<1>2. CloseSession(server[s]).live = server[s].live \ {server[s].session}
  BY <1>0 DEF CloseSession, Loop
<1>3. server'[s] = [Silent EXCEPT !.at = "gone", !.live = server[s].live \ {server[s].session}]
  BY <1>2 DEF Leave, Done, TypeOK
<1>4. up'[s] = <<>> /\ (phase'[s] = phase[s] \/ (phase[s] = "open" /\ phase'[s] = "closing"))
  BY DEF Leave, Done, TypeOK
<1>5. /\ server'[s].at = "gone" /\ server'[s].version = 0 /\ server'[s].session = 0
      /\ server'[s].live = server[s].live \ {server[s].session}
  BY <1>3 DEF Silent
<1>6. UNCHANGED <<peer, client, deaf, disconnects, faults, sends, refused>>
  BY DEF Leave, Done
<1> QED BY <1>1, <1>4, <1>5, <1>6

LEMMA StepGreets ==
  ASSUME TypeOK, GreetInv, ConnectionAssumption, [Next]_vars
  PROVE  GreetInv'
<1>t. CASE peer # "browser"
  <2>1. peer' = peer
    BY DEF Next, vars, Mount, Retarget, Unmount, TimerFires, Ping, PongTimeout, Say, ToolConnects,
       ToolLeaves, ToolSends, Opened, Closed, Drop, Deafen, Handler, Read, SendEvent,
       AfterBackpressure, Joined, Leave, Done, CaptureOver
  <2>2. refused' = refused
    BY <1>t DEF Next, vars, Mount, Retarget, Unmount, TimerFires, Ping, PongTimeout, Say,
       ToolConnects, ToolLeaves, ToolSends, Opened, Closed, Drop, Deafen, Handler, Read,
       SendEvent, AfterBackpressure, Joined, Leave, Done, CaptureOver, TypeOK
  <2> QED BY <1>t, <2>1, <2>2 DEF GreetInv
<1> SUFFICES ASSUME peer = "browser" PROVE GreetInv'
  BY <1>t
<1>g. ~refused /\ \A t \in Socket : Greeted(t)
  BY DEF GreetInv
<1>h. Hello(2) \in BrowserMessage /\ <<"PING">> \in BrowserMessage
      /\ Sayings \subseteq BrowserMessage
  BY DEF BrowserMessage, Sayings
<1>1. CASE UNCHANGED vars
  BY <1>1, GreetedPhases DEF vars, client, net, Usable
<1>c. ASSUME NEW w, NEW st, NEW ph, Connect(w, st, ph), w = None \/ w = ws,
             ph = phase \/ ph = Closing, UNCHANGED <<peer, deaf, up, server, refused>>
      PROVE  GreetInv'
  <2>1. ph \in [Socket -> {"none", "connecting", "open", "closing", "closed"}]
    BY <1>c, ClosingTyped DEF TypeOK
  <2>2. \A t \in Socket :
          /\ ph[t] \in {"none", "connecting"} => phase[t] \in {"none", "connecting"}
          /\ ph[t] = "open" => phase[t] = "open"
    BY <1>c, ClosingPhases
  <2>3. \A t \in Socket :
          /\ phase'[t] \in {"none", "connecting"} => phase[t] \in {"none", "connecting"}
          /\ ws' = t /\ phase'[t] = "open" => ws = t /\ phase[t] = "open"
    BY <1>c, <2>1, <2>2, ConnectPhases
  <2> QED BY <1>c, <2>3, GreetedPhases DEF Usable
<1>2. CASE Mount
  BY <1>2, <1>c DEF Mount
<1>3. CASE Retarget
  <2>1. Connect(None, "disconnected", Closing)
    BY <1>3 DEF Retarget
  <2> QED BY <1>3, <1>c, <2>1 DEF Retarget
<1>4. CASE TimerFires
  BY <1>4, <1>c DEF TimerFires
<1>5. CASE Unmount
  <2>1. \A t \in Socket : t # None
    BY DEF Socket, None
  <2> QED BY <1>5, <2>1, ClosingPhases, GreetedPhases DEF Unmount, Usable
<1>6. CASE Ping
  <2>1. CASE Open(ws)
    <3> SUFFICES ASSUME NEW t \in Socket PROVE Greeted(t)'
      BY <1>6, <1>g DEF Ping, GreetInv
    <3>1. up' = Through(ws, <<"PING">>)
      BY <1>6, <2>1 DEF Ping
    <3> QED BY <1>6, <1>g, <1>h, <2>1, <3>1, GreetedThrough, MessagesDiffer DEF Ping
  <2>2. CASE ~Open(ws)
    BY <1>6, <2>2, GreetedPhases DEF Ping, Usable
  <2> QED BY <2>1, <2>2
<1>7. CASE PongTimeout
  BY <1>7, ClosingPhases, GreetedPhases DEF PongTimeout, Usable
<1>8. ASSUME NEW m \in Sayings, Say(m) PROVE GreetInv'
  <2> SUFFICES ASSUME NEW t \in Socket PROVE Greeted(t)'
    BY <1>8, <1>g DEF Say, GreetInv
  <2> QED BY <1>8, <1>g, <1>h, GreetedThrough DEF Say, client
<1>9. CASE ToolConnects \/ ToolLeaves \/ \E m \in Anything : ToolSends(m)
  BY <1>9 DEF ToolConnects, ToolLeaves, ToolSends
<1>10. ASSUME NEW s \in Socket, Opened(s) PROVE GreetInv'
  <2> SUFFICES ASSUME NEW t \in Socket PROVE Greeted(t)'
    BY <1>10, <1>g DEF Opened, GreetInv
  <2>1. server[s] = Silent /\ up[s] = <<>> /\ s \notin deaf /\ phase[s] = "connecting"
    BY <1>10, <1>g DEF Opened, Accepted, Greeted, Untouched
  <2>2. /\ phase' = [phase EXCEPT ![s] = "open"] /\ server' = [server EXCEPT ![s].at = "on"]
        /\ ws' = ws /\ deaf' = deaf
    BY <1>10 DEF Opened, Accepted
  <2>3. CASE t = s
    <3>1. /\ phase'[s] = "open" /\ server'[s].at = "on" /\ server'[s].version = 0
      BY <2>1, <2>2 DEF TypeOK, Loop, Silent
    <3>2. CASE ws = s
      <4>1. up'[s] = <<Hello(2)>>
        BY <1>10, <2>1, <3>2 DEF Opened, Through, TypeOK, None, Socket
      <4>2. /\ up'[s] \in Seq(BrowserMessage) /\ DOMAIN up'[s] = {1} /\ up'[s][1] = Hello(2)
        BY <1>h, <4>1
      <4>3. GreetsFirst(s)' /\ HasGreeting(s)'
        BY <4>2, MessagesDiffer DEF GreetsFirst, HasGreeting
      <4> QED BY <2>3, <3>1, <4>2, <4>3 DEF Greeted, Untouched
    <3>3. CASE ws # s
      <4>1. up'[s] = <<>>
        BY <1>10, <2>1, <3>3 DEF Opened, Through, TypeOK
      <4>2. up'[s] \in Seq(BrowserMessage) /\ DOMAIN up'[s] = {}
        BY <4>1
      <4> QED BY <2>2, <2>3, <3>1, <3>3, <4>2 DEF Greeted, Untouched, GreetsFirst, Usable
    <3> QED BY <3>2, <3>3
  <2>4. CASE t # s
    <3>1. phase'[t] = phase[t] /\ server'[t] = server[t]
      BY <2>2, <2>4 DEF TypeOK
    <3>2. CASE Open(ws)
      <4>1. up' = Through(ws, Hello(2))
        BY <1>10, <3>2 DEF Opened
      <4> QED BY <1>g, <1>h, <2>2, <3>1, <3>2, <4>1, GreetedThrough, MessagesDiffer
    <3>3. CASE ~Open(ws)
      <4>1. up'[t] = up[t]
        BY <1>10, <2>4, <3>3 DEF Opened, Through, TypeOK
      <4> QED BY <1>g, <2>2, <3>1, <4>1, GreetedUndisturbed DEF Greeted, Untouched, Usable
    <3> QED BY <3>2, <3>3
  <2> QED BY <2>3, <2>4
<1>11. ASSUME NEW s \in Socket, Closed(s) PROVE GreetInv'
  <2>1. \A t \in Socket : /\ phase'[t] = phase[t] \/ phase'[t] = "closed"
                          /\ t # None
    BY <1>11 DEF Closed, TypeOK, Socket, None
  <2> QED BY <1>11, <2>1, GreetedPhases DEF Closed, Usable
<1>12. ASSUME NEW s \in Socket, Drop(s) PROVE GreetInv'
  <2>1. \A t \in Socket : phase'[t] = phase[t] \/ phase'[t] = "closing"
    BY <1>12 DEF Drop, TypeOK
  <2> QED BY <1>12, <2>1, GreetedPhases DEF Drop, Usable, client
<1>13. ASSUME NEW s \in Socket, Deafen(s) PROVE GreetInv'
  <2>1. phase[s] = "open"
    BY <1>13 DEF Deafen
  <2> QED BY <1>13, <2>1, GreetedPhases DEF Deafen, Usable, client
<1>14. ASSUME NEW s \in Socket, Handler(s) PROVE GreetInv'
  <2>1. ~refused' /\ Greeted(s)'
    <3>1. CASE Read(s)
      BY <3>1, GreetedRead
    <3>2. CASE SendEvent(s) \/ AfterBackpressure(s) \/ Joined(s) \/ CaptureOver(s)
      <4>1. /\ server'[s].at = server[s].at /\ server'[s].version = server[s].version
            /\ server[s] # Silent
            /\ UNCHANGED <<peer, client, net, refused>>
        BY <3>2, SameHandler
      <4>2. Untouched(s)'
        BY <1>g, <4>1 DEF Greeted, Untouched, net
      <4> QED BY <1>g, <4>1, <4>2, GreetedUndisturbed DEF client, net, Usable
    <3>3. CASE Leave(s)
      <4>1. /\ server[s].at = "on" /\ server'[s].at = "gone" /\ server'[s].version = 0
            /\ up'[s] = <<>>
            /\ phase'[s] = phase[s] \/ (phase[s] = "open" /\ phase'[s] = "closing")
            /\ refused' = refused
        BY <3>3, LeaveEffect
      <4>2. phase'[s] \notin {"none", "connecting"}
        BY <1>g, <4>1 DEF Greeted, Untouched, Silent
      <4> QED BY <1>g, <4>1, <4>2 DEF Greeted, Untouched, Waiting
    <3> QED BY <1>14, <3>1, <3>2, <3>3 DEF Handler
  <2>2. ASSUME NEW t \in Socket, t # s PROVE Greeted(t)'
    <3>1. /\ server'[t] = server[t] /\ up'[t] = up[t] /\ phase'[t] = phase[t]
          /\ ws' = ws /\ deaf' = deaf
      BY <1>14, <2>2, OtherHandlers
    <3> QED BY <1>g, <3>1, GreetedUndisturbed DEF Greeted, Untouched, Usable
  <2> QED BY <2>1, <2>2 DEF GreetInv
<1> QED
  BY <1>1, <1>2, <1>3, <1>4, <1>5, <1>6, <1>7, <1>8, <1>9, <1>10, <1>11, <1>12, <1>13, <1>14
  DEF Next

LEMMA InitGreets == Init => GreetInv
BY DEF Init, GreetInv, Greeted, Untouched, Waiting, Silent

(* The browser never has a message refused for want of a greeting,         *)
(* whatever other sockets open, close or hang meanwhile: handleOpen() and  *)
(* sendEvent() of HermesClient.ts, against the handler() of server.py.     *)
THEOREM GreetingIsFirst == Spec => []GreetingComesFirst
<1>1. TypeOK /\ GreetInv /\ [Next]_vars => GreetInv'
  BY StepGreets, ConnectionAssumption
<1>2. GreetInv => GreetingComesFirst
  BY DEF GreetInv, GreetingComesFirst
<1> QED BY TypesHold, InitGreets, <1>1, <1>2, PTL DEF Spec

-----------------------------------------------------------------------------
(* Captures.  As long as the client is undisturbed there is no socket but  *)
(* this.ws, so that each handler is greeted at most once and has a single  *)
(* voice session: the one that its finally clause closes.                  *)

Undone(s) == phase[s] \in {"connecting", "open", "closing"}

Single ==
  /\ timer => ws = None /\ ~intentional
  /\ intentional => ws = None
  /\ ws # None => phase[ws] # "none"
  /\ phase[1] = "none" => \A s \in Socket : phase[s] = "none"
  /\ \A s \in Socket : Undone(s) => ws = s \/ (intentional /\ phase[s] = "closing")

GreetedOnce(s) ==
  /\ \A i, j \in DOMAIN up[s] : up[s][i] = Hello(2) /\ up[s][j] = Hello(2) => i = j
  /\ server[s].session > 0 => ~HasGreeting(s)

OneSession(s) ==
  /\ server[s].session \in {0, 1}
  /\ server[s].version = 2 => server[s].session = 1
  /\ server[s].live \subseteq {1}
  /\ server[s].session = 0 => server[s].live = {}
  /\ server[s].at = "gone" => server[s].session = 0

CaptureInv == Undisturbed => Single /\ \A s \in Socket : GreetedOnce(s) /\ OneSession(s)

(* Only the socket that has just been made, if any, is not closed.         *)
LEMMA SingleConnect ==
  ASSUME TypeOK, ConnectionAssumption, Undisturbed', Undisturbed, Single, ws = None,
         ~intentional, Connect(ws, state, phase)
  PROVE  Single'
<1>0. \A s \in Socket : ~Undone(s) /\ s # None
  BY DEF Single, Socket, None
<1>1. CASE ws' = ws /\ phase' = phase /\ timer' = TRUE
  BY <1>0, <1>1 DEF Single, Connect, Undone
<1>2. ASSUME NEW s \in Unopened, IsNext(s), ws' = s, timer' = FALSE,
             phase' = [phase EXCEPT ![s] = "connecting"]
      PROVE  Single'
  <2>1. s \in Socket /\ phase[s] = "none"
    BY DEF Unopened
  <2>2. intentional' = FALSE
    BY DEF Connect
  <2>3. phase'[s] = "connecting" /\ \A t \in Socket \ {s} : phase'[t] = phase[t]
    BY <1>2, <2>1 DEF TypeOK
  <2>4. phase'[1] = "none" => \A t \in Socket : phase'[t] = "none"
    <3>1. 1 \in Socket
      BY <2>1, ConnectionAssumption DEF ConnectionAssumption, Socket
    <3>2. CASE phase[1] = "none"
      <4>1. s = 1
        BY <1>2, <2>1, <3>1, <3>2 DEF IsNext, Unopened, Socket
      <4> QED BY <2>3, <4>1
    <3>3. CASE phase[1] # "none"
      BY <2>1, <2>3, <3>1, <3>3
    <3> QED BY <3>2, <3>3
  <2>5. \A t \in Socket : Undone(t)' => t = s
    BY <1>0, <2>3 DEF Undone
  <2> QED BY <1>0, <1>2, <2>1, <2>2, <2>3, <2>4, <2>5 DEF Single
<1> QED BY <1>0, <1>1, <1>2 DEF Connect

(* A step that leaves a handler and its wire alone.                        *)
LEMMA CapturesStay ==
  ASSUME NEW t \in Socket, GreetedOnce(t), OneSession(t), up'[t] = up[t], server'[t] = server[t]
  PROVE  GreetedOnce(t)' /\ OneSession(t)'
BY DEF GreetedOnce, OneSession, HasGreeting

(* Steps that close sockets, and leave this.ws and the timer alone.        *)
LEMMA SingleCloses ==
  ASSUME TypeOK, Single, UNCHANGED <<ws, timer, intentional>>,
         \A s \in Socket : phase'[s] = phase[s] \/ (Undone(s) /\ phase'[s] = "closing")
  PROVE  Single'
<1>1. \A s \in Socket : /\ Undone(s)' => Undone(s) /\ (phase[s] = "closing" => phase'[s] = "closing")
                        /\ phase'[s] = "none" => phase[s] = "none"
  BY DEF Undone
<1>2. \A s \in Socket : phase[s] # "none" => phase'[s] # "none"
  BY DEF Undone
<1>3. phase'[1] = "none" => \A s \in Socket : phase'[s] = "none"
  <2>1. CASE 1 \in Socket
    <3> SUFFICES ASSUME phase'[1] = "none", NEW s \in Socket PROVE phase'[s] = "none"
      OBVIOUS
    <3>1. phase[s] = "none"
      BY <1>1, <2>1 DEF Single
    <3> QED BY <3>1 DEF Undone
  <2>2. CASE 1 \notin Socket
    BY <2>2, ConnectionAssumption DEF ConnectionAssumption, Socket
  <2> QED BY <2>1, <2>2
<1>4. ws # None => phase'[ws] # "none"
  BY <1>2 DEF Single, TypeOK
<1>5. \A s \in Socket : Undone(s)' => ws' = s \/ (intentional' /\ phase'[s] = "closing")
  BY <1>1 DEF Single
<1> QED BY <1>3, <1>4, <1>5 DEF Single

(* A message other than a greeting, sent by this.ws.                       *)
LEMMA NoSecondGreeting ==
  ASSUME TypeOK, NEW t \in Socket, GreetedOnce(t), NEW m \in Message, m # Hello(2),
         up' = Through(ws, m), server'[t] = server[t]
  PROVE  GreetedOnce(t)'
<1>1. CASE up'[t] = up[t]
  BY <1>1 DEF GreetedOnce, HasGreeting
<1>2. CASE up'[t] = Append(up[t], m)
  <2>1. /\ DOMAIN up'[t] = 1 .. Len(up[t]) + 1 /\ DOMAIN up[t] = 1 .. Len(up[t])
        /\ Len(up[t]) \in Nat
        /\ \A i \in 1 .. Len(up[t]) : up'[t][i] = up[t][i]
        /\ up'[t][Len(up[t]) + 1] = m
    BY <1>2 DEF TypeOK
  <2>2. \A i \in DOMAIN up'[t] : up'[t][i] = Hello(2) => i \in DOMAIN up[t] /\ up[t][i] = Hello(2)
    BY <2>1
  <2> QED BY <2>2 DEF GreetedOnce, HasGreeting
<1>3. up'[t] = up[t] \/ up'[t] = Append(up[t], m)
  BY DEF Through, TypeOK
<1> QED BY <1>1, <1>2, <1>3

LEMMA CaptureRead ==
  ASSUME TypeOK, GreetInv, peer = "browser", NEW s \in Socket, Read(s),
         GreetedOnce(s), OneSession(s)
  PROVE  GreetedOnce(s)' /\ OneSession(s)'
<1> DEFINE m == Head(up[s])
<1>0. /\ server[s] \in Loop /\ up[s] \in Seq(BrowserMessage)
      /\ up[s] # <<>> /\ server[s].at = "on"
  BY DEF GreetInv, Greeted, TypeOK, Read, Reading, On
<1>1. m \in BrowserMessage
  BY <1>0, HeadTyped
<1>2. /\ Len(up[s]) \in Nat /\ DOMAIN up[s] = 1 .. Len(up[s]) /\ m = up[s][1] /\ Len(up[s]) >= 1
      /\ DOMAIN Tail(up[s]) = 1 .. Len(up[s]) - 1
      /\ \A i \in 1 .. Len(up[s]) - 1 : Tail(up[s])[i] = up[s][i + 1]
  BY <1>0
<1>3. PICK c \in React(server[s], m) : server' = [server EXCEPT ![s] = c]
  BY DEF Read
<1>4. server'[s] = c /\ up'[s] = Tail(up[s])
  BY <1>0, <1>3 DEF Read, TypeOK
<1>5. /\ c.at = "on"
      /\ m = Hello(2) => c.version = 2 /\ c.session = server[s].session + 1 /\ c.live = server[s].live
      /\ m # Hello(2) => c.version = server[s].version /\ c.session = server[s].session
      /\ \/ c.live = server[s].live
         \/ server[s].version = 2 /\ c.live = server[s].live \cup {server[s].session}
  BY <1>0, <1>1, <1>3, ReactEffect
<1>6. \A i \in DOMAIN up'[s] :
        up'[s][i] = Hello(2) => i + 1 \in DOMAIN up[s] /\ up[s][i + 1] = Hello(2)
  BY <1>2, <1>4
<1>7. \A i, j \in DOMAIN up'[s] : up'[s][i] = Hello(2) /\ up'[s][j] = Hello(2) => i = j
  BY <1>2, <1>4, <1>6 DEF GreetedOnce
<1>8. CASE m = Hello(2)
  <2>1. HasGreeting(s)
    BY <1>2, <1>8 DEF HasGreeting
  <2>2. server[s].session = 0 /\ server[s].live = {}
    BY <2>1 DEF GreetedOnce, OneSession
  <2>3. \A i \in DOMAIN up'[s] : up'[s][i] # Hello(2)
    <3> SUFFICES ASSUME NEW i \in DOMAIN up'[s], up'[s][i] = Hello(2) PROVE FALSE
      OBVIOUS
    <3>1. i + 1 \in DOMAIN up[s] /\ up[s][i + 1] = Hello(2) /\ 1 \in DOMAIN up[s]
      BY <1>2, <1>6
    <3>2. i + 1 = 1
      BY <1>2, <1>8, <3>1 DEF GreetedOnce
    <3> QED BY <1>2, <1>4, <3>2
  <2>4. GreetedOnce(s)'
    BY <1>7, <2>3 DEF GreetedOnce, HasGreeting
  <2> QED BY <1>4, <1>5, <1>8, <2>2, <2>4 DEF OneSession
<1>9. CASE m # Hello(2)
  <2>1. HasGreeting(s)' => HasGreeting(s)
    BY <1>6 DEF HasGreeting
  <2>2. GreetedOnce(s)'
    BY <1>4, <1>5, <1>7, <1>9, <2>1 DEF GreetedOnce
  <2>3. OneSession(s)'
    BY <1>4, <1>5, <1>9 DEF OneSession
  <2> QED BY <2>2, <2>3
<1> QED BY <1>8, <1>9

LEMMA StepCaptures ==
  ASSUME TypeOK, GreetInv, CaptureInv, ConnectionAssumption, [Next]_vars
  PROVE  CaptureInv'
<1> SUFFICES ASSUME Undisturbed'
             PROVE  Single' /\ \A s \in Socket : GreetedOnce(s)' /\ OneSession(s)'
  BY DEF CaptureInv
<1>a. ASSUME Undisturbed PROVE Single /\ \A s \in Socket : GreetedOnce(s) /\ OneSession(s)
  BY <1>a DEF CaptureInv
<1>b. ASSUME UNCHANGED <<peer, disconnects, intentional>>
      PROVE  /\ Undisturbed /\ Single /\ peer = "browser"
             /\ \A s \in Socket : GreetedOnce(s) /\ OneSession(s) /\ Greeted(s)
  <2>1. Undisturbed
    BY <1>b DEF Undisturbed
  <2> QED BY <1>a, <2>1 DEF Undisturbed, GreetInv
<1>m. Hello(2) \in Message /\ <<"PING">> \in Message /\ Sayings \subseteq Message
      /\ Sayings = {<<"CAPTURE_START">>}
  BY DEF Message, Anything, Sayings
<1>u. ASSUME Undisturbed, UNCHANGED <<up, server>>, Single'
      PROVE  Single' /\ \A s \in Socket : GreetedOnce(s)' /\ OneSession(s)'
  BY <1>a, <1>u, CapturesStay
<1>1. CASE UNCHANGED vars
  <2>1. Undisturbed /\ Single
    BY <1>1, <1>b DEF vars, client
  <2>2. Single'
    BY <1>1, <2>1 DEF Single, Undone, vars, client, net
  <2> QED BY <1>1, <1>u, <2>1, <2>2 DEF vars, net
<1>c. ASSUME Connect(ws, state, phase), UNCHANGED <<peer, disconnects, up, server>>,
             \/ phase[1] = "none" /\ ~intentional
             \/ timer
      PROVE  Single' /\ \A s \in Socket : GreetedOnce(s)' /\ OneSession(s)'
  <2>1. intentional' = FALSE
    BY <1>c DEF Connect
  <2>2. Undisturbed
    BY <1>c, <2>1 DEF Undisturbed
  <2>3. Single
    BY <1>a, <2>2
  <2>4. ws = None /\ ~intentional
    BY <1>c, <2>3 DEF Single, TypeOK
  <2>5. Single'
    BY <1>c, <2>2, <2>3, <2>4, SingleConnect
  <2> QED BY <1>c, <1>u, <2>2, <2>5
<1>2. CASE Mount
  BY <1>2, <1>c DEF Mount
<1>3. CASE Retarget
  <2>1. intentional' = FALSE /\ disconnects' = disconnects + 1 /\ disconnects \in Nat
    BY <1>3 DEF Retarget, Connect, TypeOK
  <2> QED BY <2>1 DEF Undisturbed
<1>4. CASE TimerFires
  BY <1>4, <1>c DEF TimerFires
<1>5. CASE Unmount
  <2>1. disconnects = 0 /\ peer = "browser"
    BY <1>5 DEF Unmount, Undisturbed, TypeOK
  <2>2. Undisturbed /\ Single
    BY <1>a, <2>1 DEF Undisturbed
  <2>3. /\ phase[1] # "none" /\ ws' = None /\ intentional' = TRUE /\ timer' = FALSE
        /\ phase' = Closing /\ ~intentional
    BY <1>5 DEF Unmount
  <2>4. \A s \in Socket : Undone(s)' => phase'[s] = "closing"
    <3> SUFFICES ASSUME NEW s \in Socket, Undone(s)' PROVE phase'[s] = "closing"
      OBVIOUS
    <3>1. phase'[s] = phase[s] \/ phase'[s] = "closing"
      BY <2>3, ClosingPhases
    <3>2. CASE phase'[s] = phase[s]
      <4>1. ws = s /\ s # None
        BY <2>2, <2>3, <3>2 DEF Single, Undone, Socket, None
      <4>2. phase[s] # "closed"
        BY <3>2 DEF Undone
      <4> QED BY <2>3, <4>1, <4>2 DEF Closing, TypeOK
    <3> QED BY <3>1, <3>2
  <2>5. phase'[1] = "none" => \A s \in Socket : phase'[s] = "none"
    <3>1. CASE 1 \in Socket
      BY <2>3, <3>1, ClosingPhases
    <3>2. CASE 1 \notin Socket
      BY <3>2, ConnectionAssumption DEF ConnectionAssumption, Socket
    <3> QED BY <3>1, <3>2
  <2>6. Single'
    BY <2>3, <2>4, <2>5 DEF Single
  <2> QED BY <1>5, <1>u, <2>2, <2>6 DEF Unmount
<1>6. CASE Ping
  <2>1. Undisturbed /\ Single /\ \A s \in Socket : GreetedOnce(s) /\ OneSession(s)
    BY <1>6, <1>b DEF Ping
  <2>2. Single'
    BY <1>6, <2>1 DEF Ping, Single, Undone
  <2>3. ASSUME NEW s \in Socket PROVE GreetedOnce(s)' /\ OneSession(s)'
    <3>1. OneSession(s)'
      BY <1>6, <2>1 DEF Ping, OneSession
    <3>2. CASE up' = up
      BY <1>6, <2>1, <3>2, CapturesStay DEF Ping
    <3>3. CASE up' = Through(ws, <<"PING">>)
      BY <1>6, <1>m, <2>1, <3>1, <3>3, NoSecondGreeting, MessagesDiffer DEF Ping
    <3> QED BY <1>6, <3>2, <3>3 DEF Ping
  <2> QED BY <2>2, <2>3
<1>7. CASE PongTimeout
  <2>1. Undisturbed /\ Single
    BY <1>7, <1>b DEF PongTimeout
  <2>2. \A s \in Socket : phase'[s] = phase[s] \/ (Undone(s) /\ phase'[s] = "closing")
    <3> SUFFICES ASSUME NEW s \in Socket, phase'[s] # phase[s]
                 PROVE  Undone(s) /\ phase'[s] = "closing"
      OBVIOUS
    <3>1. s = ws /\ phase'[s] = "closing"
      BY <1>7, ClosingPhases DEF PongTimeout
    <3>2. phase[s] # "none" /\ s # None
      BY <2>1, <3>1 DEF Single, Socket, None
    <3>3. phase[s] # "closed"
      BY <1>7, <3>1, <3>2 DEF PongTimeout, Closing
    <3>4. phase[s] \in {"none", "connecting", "open", "closing", "closed"}
      BY DEF TypeOK
    <3> QED BY <3>1, <3>2, <3>3, <3>4 DEF Undone
  <2>3. Single'
    BY <1>7, <2>1, <2>2, SingleCloses DEF PongTimeout
  <2> QED BY <1>7, <1>u, <2>1, <2>3 DEF PongTimeout
<1>8. ASSUME NEW m \in Sayings, Say(m)
      PROVE  Single' /\ \A s \in Socket : GreetedOnce(s)' /\ OneSession(s)'
  <2>0. UNCHANGED <<peer, ws, timer, intentional, phase, server, disconnects>>
        /\ up' = Through(ws, m)
    BY <1>8 DEF Say, client
  <2>1. Undisturbed /\ Single /\ \A s \in Socket : GreetedOnce(s) /\ OneSession(s)
    BY <1>b, <2>0
  <2>2. Single'
    BY <2>0, <2>1 DEF Single, Undone
  <2>3. ASSUME NEW s \in Socket PROVE GreetedOnce(s)' /\ OneSession(s)'
    <3>1. OneSession(s)'
      BY <2>0, <2>1 DEF OneSession
    <3> QED BY <1>m, <2>0, <2>1, <3>1, NoSecondGreeting, MessagesDiffer
  <2> QED BY <2>2, <2>3
<1>9. CASE ToolConnects \/ ToolLeaves \/ \E m \in Anything : ToolSends(m)
  BY <1>9 DEF ToolConnects, ToolLeaves, ToolSends, Undisturbed
<1>10. ASSUME NEW s \in Socket, Opened(s)
       PROVE  Single' /\ \A t \in Socket : GreetedOnce(t)' /\ OneSession(t)'
  <2>0. /\ UNCHANGED <<peer, ws, timer, intentional, disconnects>>
        /\ phase' = [phase EXCEPT ![s] = "open"] /\ server' = [server EXCEPT ![s].at = "on"]
        /\ phase[s] = "connecting"
    BY <1>10 DEF Opened, Accepted
  <2>1. Undisturbed /\ Single /\ \A t \in Socket : GreetedOnce(t) /\ OneSession(t) /\ Greeted(t)
    BY <1>b, <2>0
  <2>2. ws = s /\ s # None
    BY <2>0, <2>1 DEF Single, Undone, Socket, None
  <2>3. server[s] = Silent /\ up[s] = <<>> /\ s \notin deaf
    BY <2>0, <2>1 DEF Greeted, Untouched
  <2>4. phase'[s] = "open" /\ \A t \in Socket \ {s} : phase'[t] = phase[t]
    BY <2>0 DEF TypeOK
  <2>5. phase'[1] = "none" => \A t \in Socket : phase'[t] = "none"
    <3>1. 1 \in Socket
      BY ConnectionAssumption DEF ConnectionAssumption, Socket
    <3> QED BY <2>0, <2>1, <2>4, <3>1 DEF Single
  <2>6. Single'
    BY <2>0, <2>1, <2>2, <2>4, <2>5 DEF Single, Undone
  <2>7. GreetedOnce(s)' /\ OneSession(s)'
    <3>1. up'[s] = <<Hello(2)>>
      BY <1>10, <2>2, <2>3 DEF Opened, Through, TypeOK
    <3>2. DOMAIN up'[s] = {1}
      BY <3>1
    <3>3. /\ server'[s].session = 0 /\ server'[s].version = 0 /\ server'[s].live = {}
          /\ server'[s].at = "on"
      BY <2>0, <2>3 DEF TypeOK, Silent
    <3> QED BY <3>2, <3>3 DEF GreetedOnce, OneSession
  <2>8. ASSUME NEW t \in Socket, t # s PROVE GreetedOnce(t)' /\ OneSession(t)'
    <3>1. up'[t] = up[t] /\ server'[t] = server[t]
      BY <1>10, <2>0, <2>2, <2>8 DEF Opened, Through, TypeOK
    <3> QED BY <2>1, <3>1, CapturesStay
  <2> QED BY <2>6, <2>7, <2>8
<1>11. ASSUME NEW s \in Socket, Closed(s)
       PROVE  Single' /\ \A t \in Socket : GreetedOnce(t)' /\ OneSession(t)'
  <2>0. /\ UNCHANGED <<peer, intentional, disconnects, up, server>>
        /\ ws' = None /\ phase[s] = "closing"
    BY <1>11 DEF Closed
  <2>1. Undisturbed /\ Single
    BY <1>b, <2>0
  <2>2. phase'[s] = "closed" /\ \A t \in Socket \ {s} : phase'[t] = phase[t]
    BY <1>11 DEF Closed, TypeOK
  <2>3. timer' => ~intentional'
    BY <1>11, <2>1 DEF Closed, Single
  <2>4. phase'[1] = "none" => \A t \in Socket : phase'[t] = "none"
    <3>1. 1 \in Socket
      BY ConnectionAssumption DEF ConnectionAssumption, Socket
    <3> QED BY <2>0, <2>1, <2>2, <3>1 DEF Single
  <2>5. \A t \in Socket : Undone(t)' => intentional' /\ phase'[t] = "closing"
    <3> SUFFICES ASSUME NEW t \in Socket, Undone(t)' PROVE intentional' /\ phase'[t] = "closing"
      OBVIOUS
    <3>1. t # s /\ phase'[t] = phase[t] /\ Undone(t)
      BY <2>2 DEF Undone
    <3>2. ws = t \/ (intentional /\ phase[t] = "closing")
      BY <2>1, <3>1 DEF Single
    <3>3. ws = s \/ intentional
      BY <2>0, <2>1 DEF Single, Undone
    <3>4. intentional => ws = None
      BY <2>1 DEF Single
    <3>5. t # None
      BY DEF Socket, None
    <3> QED BY <2>0, <3>1, <3>2, <3>3, <3>4, <3>5
  <2>6. Single'
    BY <2>0, <2>3, <2>4, <2>5 DEF Single
  <2> QED BY <1>u, <2>0, <2>1, <2>6
<1>12. ASSUME NEW s \in Socket, Drop(s) \/ Deafen(s)
       PROVE  Single' /\ \A t \in Socket : GreetedOnce(t)' /\ OneSession(t)'
  <2>0. UNCHANGED <<peer, ws, timer, intentional, disconnects, up, server>>
    BY <1>12 DEF Drop, Deafen, client
  <2>1. Undisturbed /\ Single
    BY <1>b, <2>0
  <2>2. \A t \in Socket : phase'[t] = phase[t] \/ (Undone(t) /\ phase'[t] = "closing")
    BY <1>12 DEF Drop, Deafen, TypeOK, Undone
  <2>3. Single'
    BY <2>0, <2>1, <2>2, SingleCloses
  <2> QED BY <1>u, <2>0, <2>1, <2>3
<1>13. ASSUME NEW s \in Socket, Handler(s)
       PROVE  Single' /\ \A t \in Socket : GreetedOnce(t)' /\ OneSession(t)'
  <2>0. UNCHANGED <<peer, ws, timer, intentional, disconnects>>
    BY <1>13 DEF Handler, Read, SendEvent, AfterBackpressure, Joined, Leave, Done, CaptureOver,
       client
  <2>1. /\ Undisturbed /\ Single /\ peer = "browser"
        /\ \A t \in Socket : GreetedOnce(t) /\ OneSession(t) /\ Greeted(t)
    BY <1>b, <2>0
  <2>2. ASSUME NEW t \in Socket, t # s PROVE GreetedOnce(t)' /\ OneSession(t)'
    BY <1>13, <2>1, <2>2, OtherHandlers, CapturesStay
  <2>3. CASE Read(s)
    <3>1. phase' = phase
      BY <2>3 DEF Read
    <3>2. Single'
      BY <2>0, <2>1, <3>1 DEF Single, Undone
    <3> QED BY <2>1, <2>2, <2>3, <3>2, CaptureRead
  <2>4. CASE SendEvent(s) \/ AfterBackpressure(s) \/ Joined(s) \/ CaptureOver(s)
    <3>1. /\ server'[s].at = server[s].at /\ server'[s].version = server[s].version
          /\ server'[s].session = server[s].session
          /\ server'[s].live \subseteq server[s].live
          /\ UNCHANGED net
      BY <2>4, SameHandler
    <3>2. Single'
      BY <2>0, <2>1, <3>1 DEF Single, Undone, net
    <3>3. GreetedOnce(s)'
      BY <2>1, <3>1 DEF GreetedOnce, HasGreeting, net
    <3>4. OneSession(s)'
      BY <2>1, <3>1 DEF OneSession
    <3> QED BY <2>2, <3>2, <3>3, <3>4
  <2>5. CASE Leave(s)
    <3>1. /\ server'[s].at = "gone" /\ server'[s].version = 0 /\ server'[s].session = 0
          /\ server'[s].live = server[s].live \ {server[s].session}
          /\ up'[s] = <<>>
          /\ phase'[s] = phase[s] \/ (phase[s] = "open" /\ phase'[s] = "closing")
      BY <2>5, LeaveEffect
    <3>2. \A t \in Socket : phase'[t] = phase[t] \/ (Undone(t) /\ phase'[t] = "closing")
      BY <1>13, <3>1, OtherHandlers DEF Undone
    <3>3. Single'
      BY <2>0, <2>1, <3>2, SingleCloses
    <3>4. server'[s].live = {}
      BY <2>1, <3>1 DEF OneSession
    <3>5. GreetedOnce(s)' /\ OneSession(s)'
      <4>1. DOMAIN up'[s] = {}
        BY <3>1
      <4> QED BY <3>1, <3>4, <4>1 DEF GreetedOnce, OneSession
    <3> QED BY <2>2, <3>3, <3>5
  <2> QED BY <1>13, <2>3, <2>4, <2>5 DEF Handler
<1> QED
  BY <1>1, <1>2, <1>3, <1>4, <1>5, <1>6, <1>7, <1>8, <1>9, <1>10, <1>11, <1>12, <1>13 DEF Next

LEMMA InitCaptures == Init => CaptureInv
<1> SUFFICES ASSUME Init PROVE CaptureInv
  OBVIOUS
<1>1. Single
  BY DEF Init, Single, Undone
<1>2. \A s \in Socket : GreetedOnce(s) /\ OneSession(s)
  BY DEF Init, GreetedOnce, OneSession, HasGreeting, Silent
<1> QED BY <1>1, <1>2 DEF CaptureInv

(* No capture of the browser outlives its connection, as long as the only  *)
(* disconnect() is the one for good: the voice session that the finally    *)
(* clause of handler() closes is the only one it ever had.                 *)
THEOREM CapturesEnd == Spec => []CapturesEndWithTheirConnection
<1>1. TypeOK /\ GreetInv /\ CaptureInv /\ [Next]_vars => CaptureInv'
  BY StepCaptures, ConnectionAssumption
<1>2. TypeOK /\ GreetInv /\ [Next]_vars => GreetInv'
  BY StepGreets, ConnectionAssumption
<1>3. CaptureInv => CapturesEndWithTheirConnection
  BY DEF CaptureInv, OneSession, CapturesEndWithTheirConnection
<1> QED BY TypesHold, InitGreets, InitCaptures, <1>1, <1>2, <1>3, PTL DEF Spec
=============================================================================
