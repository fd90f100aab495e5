----------------------------- MODULE Connection -----------------------------
(***************************************************************************)
(* The WebSocket between the browser and the local runtime: HermesClient   *)
(* (protocol/HermesClient.ts) with its reconnection timer and heartbeat,   *)
(* and one handler() of server.py for each socket.                         *)
(*                                                                         *)
(* What a turn, a response or a capture does is in Orchestrator,           *)
(* ResponseCoordinator and VoiceSession.  Here a turn is only started, and *)
(* a capture is a consumer that runs until it ends.                        *)
(*                                                                         *)
(* Init chooses whether the peer is the browser or a tool, a client of     *)
(* another kind that opens one socket and need not follow the protocol.    *)
(* The network may drop a socket or leave it half open; close() of a       *)
(* socket and its close event are apart.                                   *)
(***************************************************************************)
EXTENDS Integers, Sequences, FiniteSets

CONSTANTS
  MaxSockets,    (* bound: sockets opened; enough for every reconnection    *)
  MaxDisconnects, (* bound: calls of disconnect()                           *)
  MaxFaults,     (* bound: faults of the network, and timeouts that close a *)
                 (* healthy socket                                          *)
  MaxSayings,    (* bound: messages of the user                             *)
  MaxSends       (* bound: messages of the tool                             *)

ASSUME ConnectionAssumption ==
  {MaxSockets, MaxDisconnects, MaxFaults, MaxSayings, MaxSends} \subseteq Nat

VARIABLES
  peer,          (* "browser" or "tool"                                    *)
  (* HermesClient.                                                         *)
  ws,            (* this.ws: a socket, or None                             *)
  state,         (* ConnectionState                                        *)
  intentional,   (* isIntentionallyClosed                                  *)
  timer,         (* the reconnection timer is set                          *)
  beat,          (* the heartbeat: off, on, or waiting for a PONG          *)
  (* The network.                                                          *)
  phase,         (* of each socket, as the browser sees it                 *)
  deaf,          (* half-open sockets: nothing arrives any more            *)
  up,            (* messages on their way to the server                    *)
  server,        (* a handler for each socket                              *)
  (* Bounds and history.                                                   *)
  disconnects, faults, sends,
  refused        (* the browser was told HANDSHAKE_REQUIRED                *)

client == <<ws, state, intentional, timer, beat>>
net    == <<phase, deaf, up>>
vars == <<peer, client, net, server, disconnects, faults, sends, refused>>

Socket == 1 .. MaxSockets
None == 0

Silent ==
  [at      |-> "absent",  (* absent, on, or gone                            *)
   version |-> 0,         (* protocol_version; 0: no CLIENT_HELLO yet       *)
   session |-> 0,         (* voice_session: the newest one                  *)
   live    |-> {},        (* voice sessions whose consumer runs             *)
   todo    |-> <<>>]      (* what the loop has left of the message in hand  *)

Init ==
  /\ peer \in {"browser", "tool"}
  /\ ws = None /\ state = "disconnected" /\ intentional = FALSE
  /\ timer = FALSE /\ beat = "off"
  /\ phase = [s \in Socket |-> "none"] /\ deaf = {}
  /\ up = [s \in Socket |-> <<>>]
  /\ server = [s \in Socket |-> Silent]
  /\ disconnects = 0 /\ faults = 0 /\ sends = 0
  /\ refused = FALSE

-----------------------------------------------------------------------------
(* HermesClient.                                                           *)

Hello(version) == <<"CLIENT_HELLO", version>>

Open(s) == s # None /\ phase[s] = "open"

(* sendEvent(), sendAudio() and sendPing(): only through this.ws, and only *)
(* if that one is open.                                                    *)
Through(s, m) == IF s = None \/ s \in deaf THEN up ELSE [up EXCEPT ![s] = Append(@, m)]

Unopened == {s \in Socket : phase[s] = "none"}
IsNext(s) == \A t \in Unopened : s <= t

(* connect(), with the phases it finds.  A constructor that throws also    *)
(* leads to a timer.                                                       *)
Connect(oldWs, oldState, oldPhase) ==
  /\ intentional' = FALSE
  /\ beat' = "off"
  /\ IF oldState = "connected" /\ oldWs # None
     THEN /\ ws' = oldWs /\ state' = oldState /\ phase' = oldPhase
          /\ timer' = FALSE
          /\ UNCHANGED faults
     ELSE \/ \E s \in Unopened :
               /\ IsNext(s)
               /\ ws' = s /\ phase' = [oldPhase EXCEPT ![s] = "connecting"]
               /\ state' = "connecting" /\ timer' = FALSE
               /\ UNCHANGED faults
          \/ /\ faults < MaxFaults
             /\ faults' = faults + 1
             /\ ws' = oldWs /\ phase' = oldPhase
             /\ state' = "error" /\ timer' = TRUE

(* The phases after this.ws.close().                                       *)
Closing == IF ws = None \/ phase[ws] = "closed" THEN phase
           ELSE [phase EXCEPT ![ws] = "closing"]

(* App mounts.                                                             *)
Mount ==
  /\ peer = "browser" /\ phase[1] = "none" /\ ~timer /\ ~intentional
  /\ Connect(ws, state, phase)
  /\ UNCHANGED <<peer, deaf, up, server, disconnects, sends, refused>>

(* disconnect() and connect(), for another URL or as a component mounts    *)
(* again.                                                                  *)
Retarget ==
  /\ peer = "browser" /\ phase[1] # "none" /\ ~intentional
  /\ disconnects < MaxDisconnects
  /\ disconnects' = disconnects + 1
  /\ Connect(None, "disconnected", Closing)
  /\ UNCHANGED <<peer, deaf, up, server, sends, refused>>

(* disconnect(), as App unmounts.                                          *)
Unmount ==
  /\ peer = "browser" /\ phase[1] # "none" /\ ~intentional
  /\ disconnects < MaxDisconnects
  /\ disconnects' = disconnects + 1
  /\ intentional' = TRUE
  /\ timer' = FALSE /\ beat' = "off"
  /\ phase' = Closing
  /\ ws' = None /\ state' = "disconnected"
  /\ UNCHANGED <<peer, deaf, up, server, faults, sends, refused>>

(* The opening handshake: a handler starts, and the browser's socket opens.*)
Accepted(s) ==
  /\ phase[s] = "connecting"
  /\ phase' = [phase EXCEPT ![s] = "open"]
  /\ server' = [server EXCEPT ![s].at = "on"]

(* Mutant: the greeting is sent only once.                                 *)
OpenedOnce(s) ==
  /\ Accepted(s)
  /\ state' = "connected" /\ beat' = "on"
  /\ up' = IF ws = s /\ s = 1 THEN Through(ws, Hello(2)) ELSE up
  /\ UNCHANGED <<peer, ws, intentional, timer, deaf, disconnects, faults, sends, refused>>

(* handleOpen(), of whichever socket: the greeting goes to this.ws, if     *)
(* that one is open.                                                       *)
Opened(s) ==
  /\ Accepted(s)
  /\ state' = "connected" /\ beat' = "on"
  /\ up' = IF ws = s \/ Open(ws) THEN Through(ws, Hello(2)) ELSE up
  /\ UNCHANGED <<peer, ws, intentional, timer, deaf, disconnects, faults, sends, refused>>

(* handleClose(), of whichever socket.                                     *)
Closed(s) ==
  /\ peer = "browser" /\ phase[s] = "closing"
  /\ phase' = [phase EXCEPT ![s] = "closed"]
  /\ deaf' = deaf \ {s}
  /\ beat' = "off" /\ ws' = None
  /\ IF intentional THEN state' = "disconnected" /\ UNCHANGED timer
     ELSE state' = "reconnecting" /\ timer' = TRUE
  /\ UNCHANGED <<peer, intentional, up, server, disconnects, faults, sends, refused>>

(* Mutant: connect() does nothing while the state is connected.            *)
TimerGivesUp ==
  /\ timer
  /\ IF state = "connected"
     THEN /\ timer' = FALSE /\ beat' = "off"
          /\ UNCHANGED <<ws, state, intentional, phase, faults>>
     ELSE Connect(ws, state, phase)
  /\ UNCHANGED <<peer, deaf, up, server, disconnects, sends, refused>>

(* The reconnection timer.                                                 *)
TimerFires ==
  /\ timer
  /\ Connect(ws, state, phase)
  /\ UNCHANGED <<peer, deaf, up, server, disconnects, sends, refused>>

(* The interval: a PING, if this.ws is open, and a timeout in any case.    *)
Ping ==
  /\ beat = "on" /\ state = "connected"
  /\ beat' = "waiting"
  /\ up' = IF Open(ws) THEN Through(ws, <<"PING">>) ELSE up
  /\ UNCHANGED <<peer, ws, state, intentional, timer, phase, deaf, server, disconnects, faults,
                 sends, refused>>

(* The timeout, also when the PONG is late or this.ws is slow to open.     *)
PongTimeout ==
  /\ beat = "waiting"
  /\ beat' = "on"
  /\ phase' = Closing
  /\ IF ws = None \/ ws \in deaf \/ phase[ws] = "closing" THEN UNCHANGED faults
     ELSE faults < MaxFaults /\ faults' = faults + 1
  /\ UNCHANGED <<peer, ws, state, intentional, timer, deaf, up, server, disconnects, sends,
                 refused>>

(* The user writes something, or begins to speak.                          *)
Sayings == {<<"CAPTURE_START">>}

Say(m) ==
  /\ peer = "browser" /\ sends < MaxSayings /\ Open(ws)
  /\ sends' = sends + 1
  /\ up' = Through(ws, m)
  /\ UNCHANGED <<peer, client, phase, deaf, server, disconnects, faults, refused>>

-----------------------------------------------------------------------------
(* A tool, on socket 1, with one message on its way at a time.             *)

ToolConnects ==
  /\ peer = "tool" /\ phase[1] = "none"
  /\ phase' = [phase EXCEPT ![1] = "open"]
  /\ server' = [server EXCEPT ![1].at = "on"]
  /\ UNCHANGED <<peer, client, deaf, up, disconnects, faults, sends, refused>>

Anything == {<<"USER_TEXT">>, <<"CAPTURE_START">>} \cup {Hello(v) : v \in {1, 2, 99}}
  \cup {<<"AUDIO">>, <<"CAPTURE_END">>, <<"PING">>, <<"USER_TARGET">>, <<"USER_INTERRUPT">>,
        <<"TASK_CANCEL">>, <<"UNKNOWN">>, <<"GARBLED">>}

ToolSends(m) ==
  /\ peer = "tool" /\ phase[1] = "open" /\ sends < MaxSends /\ up[1] = <<>>
  /\ sends' = sends + 1
  /\ up' = [up EXCEPT ![1] = Append(@, m)]
  /\ UNCHANGED <<peer, client, phase, deaf, server, disconnects, faults, refused>>

ToolLeaves ==
  /\ peer = "tool" /\ phase[1] = "open"
  /\ phase' = [phase EXCEPT ![1] = "closing"]
  /\ UNCHANGED <<peer, client, deaf, up, server, disconnects, faults, sends, refused>>

-----------------------------------------------------------------------------
(* The network.                                                            *)

Drop(s) ==
  /\ phase[s] \in {"connecting", "open"} /\ faults < MaxFaults
  /\ faults' = faults + 1
  /\ phase' = [phase EXCEPT ![s] = "closing"]
  /\ UNCHANGED <<peer, client, deaf, up, server, disconnects, sends, refused>>

Deafen(s) ==
  /\ phase[s] = "open" /\ s \notin deaf /\ faults < MaxFaults
  /\ faults' = faults + 1
  /\ deaf' = deaf \cup {s}
  /\ UNCHANGED <<peer, client, phase, up, server, disconnects, sends, refused>>

(* The server's end is closed, or its own keepalive gives up.              *)
Lost(s) == phase[s] \in {"closing", "closed"} \/ s \in deaf

-----------------------------------------------------------------------------
(* handler(): its loop.  What a message leads to is a list of steps: send  *)
(* an event, close the voice session or wait for it, quit.                 *)

On(s) == server[s].at = "on"
Reading(s) == On(s) /\ server[s].todo = <<>>

Reply(c, steps) == [c EXCEPT !.todo = steps]
Error(c) == Reply(c, <<"event">>)

(* CLIENT_HELLO: a second one replaces the voice session.  The manifest    *)
(* and the agent's state are one step.                                     *)
Greet(c, version) ==
  IF version \notin {1, 2} THEN Reply(c, <<"event", "quit">>)
  ELSE [c EXCEPT !.version = version,
                 !.session = IF version = 2 THEN @ + 1 ELSE @,
                 !.todo = <<"event">>]

(* start_capture() raises in a capture or at a wrong format; it cancels    *)
(* the consumer of an earlier one.                                         *)
StartCapture(c) ==
  IF c.version # 2 THEN {Error(c)}
  ELSE {Error(c)} \cup {[c EXCEPT !.live = @ \cup {c.session}]}

(* accept_audio() raises outside a capture, or at a wrong size; or the     *)
(* queue is full, and the session is closed.                               *)
AcceptAudio(c) ==
  IF c.version # 2 \/ c.session \notin c.live THEN {Error(c)}
  ELSE {c, Error(c), Reply(c, <<"event", "close">>)}

EndCapture(c) ==
  IF c.version # 2 \/ c.session \notin c.live THEN {Error(c)}
  ELSE {Reply(c, <<"join">>)}

(* After a CLIENT_HELLO.  A text is echoed, and its turn is started; an    *)
(* interruption or a cancellation is acknowledged.                         *)
Handle(c, type) ==
  CASE type = "CAPTURE_START" -> StartCapture(c)
    [] type = "CAPTURE_END" -> EndCapture(c)
    [] type \in {"USER_TEXT", "USER_INTERRUPT", "TASK_CANCEL"} -> {Reply(c, <<"event">>)}
    [] type = "USER_TARGET" -> {c, Error(c)}
    [] type = "UNKNOWN" -> {c}

React(c, m) ==
  CASE m[1] = "AUDIO" -> AcceptAudio(c)
    [] m[1] = "GARBLED" -> {Error(c), Reply(c, <<"quit">>)}
    [] m[1] = "PING" -> {c}
    [] m[1] = "CLIENT_HELLO" -> {Greet(c, m[2])}
    [] OTHER -> IF c.version = 0 THEN {Error(c)} ELSE Handle(c, m[1])

(* A PONG that arrives clears the timeout, whichever socket it came by.    *)
Read(s) ==
  /\ Reading(s) /\ ~Lost(s) /\ up[s] # <<>>
  /\ LET m == Head(up[s]) IN
     /\ \E c \in React(server[s], m) : server' = [server EXCEPT ![s] = c]
     /\ refused' = (refused \/ (peer = "browser" /\ server[s].version = 0
                                /\ m[1] \notin {"PING", "CLIENT_HELLO"}))
     /\ beat' = IF m[1] = "PING" /\ beat = "waiting" THEN "on" ELSE beat
  /\ up' = [up EXCEPT ![s] = Tail(@)]
  /\ UNCHANGED <<peer, ws, state, intentional, timer, phase, deaf, disconnects, faults, sends>>

Owes(s, step) == On(s) /\ server[s].todo # <<>> /\ Head(server[s].todo) = step

(* An event of the loop: sent, or ConnectionClosed ends the loop.          *)
SendEvent(s) ==
  /\ Owes(s, "event")
  /\ server' = [server EXCEPT ![s].todo = IF Lost(s) THEN <<"quit">> ELSE Tail(@)]
  /\ UNCHANGED <<peer, client, net, disconnects, faults, sends, refused>>

(* VoiceSession.close(): its consumer is cancelled.                        *)
CloseSession(c) == [c EXCEPT !.live = @ \ {c.session}]

AfterBackpressure(s) ==
  /\ Owes(s, "close")
  /\ server' = [server EXCEPT ![s] = Reply(CloseSession(@), <<>>)]
  /\ UNCHANGED <<peer, client, net, disconnects, faults, sends, refused>>

Joined(s) ==
  /\ Owes(s, "join") /\ server[s].session \notin server[s].live
  /\ server' = [server EXCEPT ![s].todo = <<>>]
  /\ UNCHANGED <<peer, client, net, disconnects, faults, sends, refused>>

(* The loop ends.                                                          *)
Done(s, live) ==
  /\ \/ Reading(s) /\ Lost(s)
     \/ Owes(s, "quit")
  /\ server' = [server EXCEPT ![s] = [Silent EXCEPT !.at = "gone", !.live = live]]
  /\ up' = [up EXCEPT ![s] = <<>>]
  /\ phase' = IF phase[s] = "open" /\ s \notin deaf THEN [phase EXCEPT ![s] = "closing"]
              ELSE phase
  /\ UNCHANGED <<peer, client, deaf, disconnects, faults, sends, refused>>

(* Mutant: the handler has no finally clause.                              *)
LeaveAsItIs(s) == Done(s, server[s].live)

(* The finally clause closes the voice session that the loop knows.        *)
Leave(s) == Done(s, CloseSession(server[s]).live)

(* A capture is over: by its CAPTURE_END, or by an error.                  *)
CaptureOver(s) ==
  /\ \E v \in server[s].live : server' = [server EXCEPT ![s].live = @ \ {v}]
  /\ UNCHANGED <<peer, client, net, disconnects, faults, sends, refused>>

-----------------------------------------------------------------------------
Handler(s) ==
  \/ Read(s) \/ SendEvent(s) \/ AfterBackpressure(s) \/ Joined(s) \/ Leave(s)
  \/ CaptureOver(s)

Next ==
  \/ Mount \/ Retarget \/ Unmount \/ TimerFires \/ Ping \/ PongTimeout
  \/ \E m \in Sayings : Say(m)
  \/ ToolConnects \/ ToolLeaves
  \/ \E m \in Anything : ToolSends(m)
  \/ \E s \in Socket : \/ Opened(s) \/ Closed(s) \/ Drop(s) \/ Deafen(s) \/ Handler(s)

(* The browser dispatches events and timers, asyncio runs what can go on,  *)
(* and an utterance ends.  Users, tools and faults have no fairness.       *)
Fairness ==
  /\ WF_vars(Mount) /\ WF_vars(TimerFires) /\ WF_vars(Ping) /\ WF_vars(PongTimeout)
  /\ \A s \in Socket :
       /\ WF_vars(Opened(s)) /\ WF_vars(Closed(s))
       /\ WF_vars(Handler(s))

Spec == Init /\ [][Next]_vars /\ Fairness

-----------------------------------------------------------------------------
Message == Sayings \cup Anything
Step == {"event", "close", "join", "quit"}
Loop == [at: {"absent", "on", "gone"}, version: {0, 1, 2}, session: Nat, live: SUBSET Nat,
         todo: Seq(Step)]

TypeOK ==
  /\ peer \in {"browser", "tool"}
  /\ ws \in Socket \cup {None}
  /\ state \in {"disconnected", "connecting", "connected", "reconnecting", "error"}
  /\ intentional \in BOOLEAN /\ timer \in BOOLEAN
  /\ beat \in {"off", "on", "waiting"}
  /\ phase \in [Socket -> {"none", "connecting", "open", "closing", "closed"}]
  /\ deaf \subseteq Socket
  /\ up \in [Socket -> Seq(Message)]
  /\ server \in [Socket -> Loop]
  /\ disconnects \in Nat /\ faults \in Nat /\ sends \in Nat
  /\ refused \in BOOLEAN

(* The browser never has a message refused for want of a greeting:         *)
(* whatever other sockets open or close meanwhile, CLIENT_HELLO is the     *)
(* first that this.ws gets.                                                *)
GreetingComesFirst == ~refused

(* No capture of the browser outlives its connection, as long as the       *)
(* client has never been disconnected and connected again at once: the     *)
(* only disconnect(), if any, is the one for good.                         *)
Undisturbed == peer = "browser" /\ (disconnects = 0 \/ (disconnects = 1 /\ intentional))
CapturesEndWithTheirConnection ==
  Undisturbed => \A s \in Socket : server[s].at = "gone" => server[s].live = {}

(* Once the network behaves, and until the App unmounts, the browser is    *)
(* connected in the end: this.ws is open and its handler has been greeted. *)
(* This also holds after a change of the URL, which leaves an old socket   *)
(* to close and to call handleClose() later.                               *)
Served == /\ Open(ws) /\ ws \notin deaf
          /\ server[ws].at = "on" /\ server[ws].version = 2
Reconnects == <>[](peer = "tool" \/ intentional \/ Served)
=============================================================================
