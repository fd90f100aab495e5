------------------------ MODULE ResponseCoordinator ------------------------
(***************************************************************************)
(* runtime/response.py: the responses of one connection.  Every turn that  *)
(* has something to say runs deliver() in its own task; the reader loop,   *)
(* the voice activity detector and the STOP_SPEAKING command run           *)
(* interrupt().  They interleave at every await.                           *)
(*                                                                         *)
(* The server sends under an asyncio.Lock, which is fair, so what is sent  *)
(* reaches the wire in the order of the calls: a send is part of the       *)
(* action that makes the call, and the next action of the same coroutine   *)
(* is what runs once the send has returned.                                *)
(*                                                                         *)
(* Inside the try block the coroutine awaits synthesis, a prefetched       *)
(* clause, a chunk or a pause; between any two of them it sends at most    *)
(* one chunk, after looking at _current().  Clauses are not told apart:    *)
(* what matters is that a response sends some chunks, fails, or stops.  No *)
(* caller passes a text without a clause, so the early return for one is   *)
(* not modelled.                                                           *)
(***************************************************************************)
EXTENDS Naturals, FiniteSets

CONSTANTS
  Response,        (* calls of deliver(), one per turn that answers        *)
  Interrupter,     (* coroutines that call interrupt()                     *)
  Nobody,
  MaxChunks,       (* bound: chunks of one response                        *)
  MaxRevision      (* bound: interrupt() is called while below it          *)

ASSUME NobodyAssumption == Nobody \notin Response

VARIABLES
  voice,      (* the TTS adapter is not the disabled one                   *)
  connected,  (* abandon() has not been called                             *)
  active,     (* self.active: a response, or Nobody                        *)
  revision,   (* self.revision                                             *)
  rev,        (* ActiveResponse.revision                                   *)
  cancelled,  (* responses whose cancellation event is set                 *)
  streamId,   (* responses whose stream_id is set                          *)
  pc,         (* the await each deliver() is in                            *)
  intPc,      (* "idle", or "ending" while TTS_END(INTERRUPTED) is sent    *)
  (* What the wire has carried.                                            *)
  opened,     (* responses whose TTS_START was sent                        *)
  closed,     (* responses whose TTS_END was sent                          *)
  open,       (* responses whose last stream event is TTS_START            *)
  sent,       (* chunks of each response                                   *)
  shown,      (* the last AGENT_STATE                                      *)
  disturbed   (* history: responses superseded, interrupted or crashed     *)

ctl  == <<voice, connected, active, revision, rev, cancelled, streamId>>
wire == <<opened, closed, open, sent>>
vars == <<voice, connected, active, revision, rev, cancelled, streamId,
          pc, intPc, opened, closed, open, sent, shown, disturbed>>

Init ==
  /\ voice \in BOOLEAN
  /\ connected = TRUE
  /\ active = Nobody
  /\ revision = 0
  /\ rev = [d \in Response |-> 0]
  /\ cancelled = {} /\ streamId = {}
  /\ pc = [d \in Response |-> "idle"]
  /\ intPc = [i \in Interrupter |-> "idle"]
  /\ opened = {} /\ closed = {} /\ open = {}
  /\ sent = [d \in Response |-> 0]
  /\ shown = "none"
  /\ disturbed = {}

Goto(d, where) == pc' = [pc EXCEPT ![d] = where]

Current(d) == active = d /\ revision = rev[d] /\ d \notin cancelled

SendEnd(d) == closed' = closed \cup {d} /\ open' = open \ {d} /\ UNCHANGED <<opened, sent>>

-----------------------------------------------------------------------------
(* deliver().                                                              *)

(* Mutant: the previous response is cancelled even when there is none.     *)
DeliverCancelsNobody(d) ==
  /\ pc[d] = "idle"
  /\ revision' = revision + 1
  /\ rev' = [rev EXCEPT ![d] = revision + 1]
  /\ cancelled' = cancelled \cup {active}
  /\ disturbed' = disturbed \cup ({active} \ {Nobody})
  /\ active' = d
  /\ Goto(d, "text")
  /\ UNCHANGED <<voice, connected, streamId, intPc, wire, shown>>

(* The new response replaces the active one, for whose stream nothing is   *)
(* sent, and its text goes out.                                            *)
Deliver(d) ==
  /\ pc[d] = "idle"
  /\ revision' = revision + 1
  /\ rev' = [rev EXCEPT ![d] = revision + 1]
  /\ cancelled' = cancelled \cup ({active} \ {Nobody})
  /\ disturbed' = disturbed \cup ({active} \ {Nobody})
  /\ active' = d
  /\ Goto(d, "text")
  /\ UNCHANGED <<voice, connected, streamId, intPc, wire, shown>>

(* Without voice the response is over with its text.                       *)
TextOnly(d) ==
  /\ connected /\ pc[d] = "text" /\ ~voice
  /\ Goto(d, "done")
  /\ \/ active = d /\ active' = Nobody /\ shown' = "idle"
     \/ active # d /\ UNCHANGED <<active, shown>>
  /\ UNCHANGED <<voice, connected, revision, rev, cancelled, streamId, intPc, wire, disturbed>>

(* With voice it gets a stream.  Nothing asks whether it is still current. *)
Prepare(d) ==
  /\ connected /\ pc[d] = "text" /\ voice
  /\ streamId' = streamId \cup {d}
  /\ shown' = "speaking"
  /\ Goto(d, "speaking")
  /\ UNCHANGED <<voice, connected, active, revision, rev, cancelled, intPc, wire, disturbed>>

StartStream(d) ==
  /\ connected /\ pc[d] = "speaking"
  /\ opened' = opened \cup {d}
  /\ open' = open \cup {d}
  /\ Goto(d, "streaming")
  /\ UNCHANGED <<ctl, intPc, closed, sent, shown, disturbed>>

(* Mutant: nothing is asked between two chunks.                            *)
ChunkUnchecked(d) ==
  /\ connected /\ pc[d] = "streaming" /\ sent[d] < MaxChunks
  /\ sent' = [sent EXCEPT ![d] = @ + 1]
  /\ UNCHANGED <<ctl, pc, intPc, opened, closed, open, shown, disturbed>>

Chunk(d) ==
  /\ connected /\ pc[d] = "streaming" /\ sent[d] < MaxChunks
  /\ Current(d)
  /\ sent' = [sent EXCEPT ![d] = @ + 1]
  /\ UNCHANGED <<ctl, pc, intPc, opened, closed, open, shown, disturbed>>

(* All clauses are out.  Audio is never empty, so there was a chunk.       *)
Complete(d) ==
  /\ connected /\ pc[d] = "streaming" /\ sent[d] > 0
  /\ Current(d)
  /\ SendEnd(d)
  /\ Goto(d, "ended")
  /\ UNCHANGED <<ctl, intPc, shown, disturbed>>

(* Mutant: a failure is reported without closing the stream.               *)
FailSilently(d) ==
  /\ connected /\ pc[d] = "streaming"
  /\ Current(d)
  /\ Goto(d, "failed")
  /\ UNCHANGED <<ctl, intPc, wire, shown, disturbed>>

(* TimeoutError, TtsError or ValueError while the response is current.     *)
Fail(d) ==
  /\ connected /\ pc[d] = "streaming"
  /\ Current(d)
  /\ SendEnd(d)
  /\ Goto(d, "failed")
  /\ UNCHANGED <<ctl, intPc, shown, disturbed>>

(* Mutant: the error path returns without giving the floor back.           *)
ReportAndReturn(d) ==
  /\ connected /\ pc[d] = "failed"
  /\ streamId' = streamId \ {d}
  /\ Goto(d, "done")
  /\ UNCHANGED <<voice, connected, active, revision, rev, cancelled, intPc, wire, shown, disturbed>>

(* TTS_END(FAILED) is out: the stream is forgotten and ERROR is sent.      *)
Report(d) ==
  /\ connected /\ pc[d] = "failed"
  /\ streamId' = streamId \ {d}
  /\ Goto(d, "reported")
  /\ UNCHANGED <<voice, connected, active, revision, rev, cancelled, intPc, wire, shown, disturbed>>

(* Mutant: the end of a response does not rest the agent.                  *)
ReturnSilently(d) ==
  /\ connected
  /\ \/ pc[d] \in {"ended", "reported"}
     \/ pc[d] = "streaming" /\ ~Current(d)
  /\ streamId' = IF pc[d] = "ended" THEN streamId \ {d} ELSE streamId
  /\ Goto(d, "done")
  /\ active' = IF active = d THEN Nobody ELSE active
  /\ UNCHANGED <<voice, connected, revision, rev, cancelled, intPc, wire, shown, disturbed>>

(* The last lines of deliver(), after TTS_END(COMPLETED), after ERROR, or  *)
(* because the response is no longer current.                              *)
Return(d) ==
  /\ connected
  /\ \/ pc[d] \in {"ended", "reported"}
     \/ pc[d] = "streaming" /\ ~Current(d)
  /\ streamId' = IF pc[d] = "ended" THEN streamId \ {d} ELSE streamId
  /\ Goto(d, "done")
  /\ \/ active = d /\ active' = Nobody /\ shown' = "idle"
     \/ active # d /\ UNCHANGED <<active, shown>>
  /\ UNCHANGED <<voice, connected, revision, rev, cancelled, intPc, wire, disturbed>>

(* Any other exception of the adapter leaves deliver() at once, and leaves *)
(* the response active and its stream open.                                *)
Crash(d) ==
  /\ connected /\ pc[d] = "streaming"
  /\ Goto(d, "done")
  /\ disturbed' = disturbed \cup {d}
  /\ UNCHANGED <<ctl, intPc, wire, shown>>

-----------------------------------------------------------------------------
(* interrupt() and abandon().                                              *)

(* The caller's next await: TTS_END(INTERRUPTED), if there is a stream to  *)
(* end, or else AGENT_STATE at once.                                       *)
Interrupt(i) ==
  /\ connected /\ intPc[i] = "idle" /\ revision < MaxRevision
  /\ revision' = revision + 1
  /\ \/ /\ active = Nobody
        /\ UNCHANGED <<active, cancelled, disturbed, intPc, wire, shown>>
     \/ /\ active # Nobody
        /\ active' = Nobody
        /\ cancelled' = cancelled \cup {active}
        /\ disturbed' = disturbed \cup {active}
        /\ \/ /\ active \in streamId
              /\ SendEnd(active)
              /\ intPc' = [intPc EXCEPT ![i] = "ending"]
              /\ UNCHANGED shown
           \/ /\ active \notin streamId
              /\ shown' = "interrupted"
              /\ UNCHANGED <<intPc, wire>>
  /\ UNCHANGED <<voice, connected, rev, streamId, pc>>

ShowInterrupted(i) ==
  /\ connected /\ intPc[i] = "ending"
  /\ shown' = "interrupted"
  /\ intPc' = [intPc EXCEPT ![i] = "idle"]
  /\ UNCHANGED <<ctl, pc, wire, disturbed>>

(* Mutant: abandon() cancels the response but leaves it active.            *)
DisconnectKeepsActive ==
  /\ connected
  /\ connected' = FALSE
  /\ revision' = revision + 1
  /\ cancelled' = cancelled \cup ({active} \ {Nobody})
  /\ disturbed' = disturbed \cup ({active} \ {Nobody})
  /\ UNCHANGED <<voice, active, rev, streamId, pc, intPc, wire, shown>>

(* The handler ends: abandon().  From here on every send raises.           *)
Disconnect ==
  /\ connected
  /\ connected' = FALSE
  /\ revision' = revision + 1
  /\ cancelled' = cancelled \cup ({active} \ {Nobody})
  /\ disturbed' = disturbed \cup ({active} \ {Nobody})
  /\ active' = Nobody
  /\ UNCHANGED <<voice, rev, streamId, pc, intPc, wire, shown>>

(* The send or the wait a coroutine was in raises ConnectionClosed, or its *)
(* next send does.                                                         *)
Drop ==
  /\ ~connected
  /\ \/ \E d \in Response : pc[d] \notin {"idle", "done"} /\ Goto(d, "done") /\ UNCHANGED intPc
     \/ \E i \in Interrupter : /\ intPc[i] # "idle"
                               /\ intPc' = [intPc EXCEPT ![i] = "idle"]
                               /\ UNCHANGED pc
  /\ UNCHANGED <<ctl, wire, shown, disturbed>>

Resume(d) ==
  \/ TextOnly(d) \/ Prepare(d) \/ StartStream(d)
  \/ Chunk(d) \/ Complete(d) \/ Fail(d) \/ Report(d) \/ Return(d)

Next ==
  \/ \E d \in Response : Deliver(d)
  \/ \E d \in Response : Resume(d)
  \/ \E d \in Response : Crash(d)
  \/ \E i \in Interrupter : Interrupt(i)
  \/ \E i \in Interrupter : ShowInterrupted(i)
  \/ Disconnect
  \/ Drop

(* Every await of deliver() and interrupt() ends: synthesis has a timeout, *)
(* audio is bounded, sends drain or raise.                                 *)
Fairness ==
  /\ \A d \in Response : WF_vars(Resume(d))
  /\ \A i \in Interrupter : WF_vars(ShowInterrupted(i))
  /\ WF_vars(Drop)

Spec == Init /\ [][Next]_vars /\ Fairness

-----------------------------------------------------------------------------
(* Properties.                                                             *)

TypeOK ==
  /\ voice \in BOOLEAN /\ connected \in BOOLEAN
  /\ active \in Response \cup {Nobody}
  /\ revision \in Nat /\ rev \in [Response -> Nat]
  /\ pc \in [Response -> {"idle", "text", "speaking", "streaming", "ended",
                          "failed", "reported", "done"}]
  /\ intPc \in [Interrupter -> {"idle", "ending"}]
  /\ cancelled \subseteq Response /\ streamId \subseteq Response
  /\ opened \subseteq Response /\ closed \subseteq Response /\ open \subseteq Response
  /\ disturbed \subseteq Response
  /\ sent \in [Response -> Nat]
  /\ shown \in {"none", "idle", "speaking", "interrupted"}

(* The three tests of _current() never disagree about the active response: *)
(* whoever replaces, interrupts or abandons it withdraws its revision, its *)
(* event and the reference together.                                       *)
ActiveIsCurrent == active # Nobody => Current(active)

(* Nothing is running and nothing is left to send.                         *)
Quiet ==
  /\ connected /\ active = Nobody
  /\ \A d \in Response : pc[d] \in {"idle", "done"}
  /\ \A i \in Interrupter : intPc[i] = "idle"

(* A response that nobody replaced, interrupted or crashed closes the      *)
(* stream it opened, whether synthesis succeeds or fails.                  *)
UndisturbedStreamsClose ==
  \A d \in Response : (connected /\ pc[d] = "done" /\ d \in open) => d \in disturbed

(* Once every response is over the interface shows a resting agent, unless *)
(* some response was disturbed.                                            *)
SettlesWhenUndisturbed == (Quiet /\ disturbed = {}) => shown \in {"none", "idle"}

(* Binary chunks are heard only from the response that has the floor, on   *)
(* its open stream; no response regains a floor it lost ("zero stale       *)
(* responses spoken").                                                     *)
Wire == INSTANCE SpeechWire WITH
  floor <- active, taken <- {d \in Response : pc[d] # "idle"}

ImplementsSpeechWire == Wire!Spec

(* While the connection lasts deliver() gives the floor back, whatever     *)
(* synthesis does, unless it crashed.                                      *)
FloorIsGivenBack ==
  \A d \in Response :
    (active = d) ~> (active # d \/ d \in disturbed \/ ~connected)

(* docs/api-contracts/hermes-protocol.md, "TTS_START opens one active      *)
(* stream; TTS_END closes it": when every response is over, no stream is   *)
(* left open.                                                              *)
NoStreamLeftOpen == Quiet => open = {}
=============================================================================
