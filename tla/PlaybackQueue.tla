--------------------------- MODULE PlaybackQueue ---------------------------
(***************************************************************************)
(* Voice output in the browser: AudioPlaybackQueue, the audio worklet that *)
(* renders (public/audio-playback-worklet.js), and the two message ports   *)
(* between them.                                                           *)
(*                                                                         *)
(* The socket is first in, first out and the browser handles one message   *)
(* at a time without asking the server anything, so that sending a message *)
(* and handling it are one action.  The server is the one of               *)
(* ResponseCoordinator: it sends on one stream at a time, but may go on to *)
(* the next without closing the one before.                                *)
(*                                                                         *)
(* A chunk stands for its samples.  isPlaying goes with activeStreamId     *)
(* everywhere and is left out, as are the metrics messages, which set      *)
(* nothing else.                                                           *)
(***************************************************************************)
EXTENDS Integers, Sequences

CONSTANTS
  Stream, NoStream,
  PendingLimit,    (* MAX_PENDING_CHUNKS                                   *)
  Capacity,        (* CAPACITY_FRAMES, in chunks                           *)
  Watermark,       (* START_WATERMARK_FRAMES, in chunks                    *)
  MaxNodes,        (* bound: worklet nodes                                 *)
  MaxChunks,       (* bound: chunks of a stream                            *)
  MaxGeneration    (* bound: the user interrupts while below it            *)

ASSUME PlaybackAssumption ==
  /\ NoStream \notin Stream
  /\ {PendingLimit, Capacity, Watermark, MaxNodes, MaxChunks} \subseteq Nat \ {0}

Node == 1 .. MaxNodes
NoNode == 0

VARIABLES
  (* The server.                                                           *)
  onAir,           (* the stream it sends on                               *)
  sent,            (* chunks sent on each stream; -1 before TTS_START      *)
  (* AudioPlaybackQueue.                                                   *)
  activeStreamId, generation, pending, ready, endRequested,
  (* BrowserAudioWorkletBackend.                                           *)
  node,            (* the node it posts to, or NoNode                      *)
  created,         (* nodes created so far                                 *)
  prepares,        (* calls of prepare() that have not settled             *)
  (* Worklet nodes and their ports.                                        *)
  worklet, down, up,
  (* History.                                                              *)
  heard,           (* chunks of each stream that were rendered             *)
  lost,            (* chunks dropped because something was full            *)
  refused,         (* streams whose TTS_START was refused                  *)
  replaced,        (* a node was created after another one                 *)
  finished         (* streams that ended because they drained              *)

server  == <<onAir, sent>>
queue   == <<activeStreamId, generation, pending, ready, endRequested>>
backend == <<node, created, prepares>>
history == <<heard, lost, refused, replaced, finished>>
vars == <<onAir, sent, activeStreamId, generation, pending, ready, endRequested,
          node, created, prepares, worklet, down, up,
          heard, lost, refused, replaced, finished>>

Chunk == [stream: Stream, index: 1 .. MaxChunks]

Silent(g) == [gen |-> g, ring |-> <<>>, started |-> FALSE, ended |-> FALSE]

Configure(g) == [type |-> "configure", gen |-> g]
StopAt(g)    == [type |-> "stop", gen |-> g]
End(g)       == [type |-> "end", gen |-> g]
Samples(g, c) == [type |-> "samples", gen |-> g, chunk |-> c]

(* A page that has had a node from an earlier gesture, or one that has not. *)
Init ==
  /\ onAir = NoStream
  /\ sent = [s \in Stream |-> -1]
  /\ activeStreamId = NoStream /\ generation = 0 /\ pending = <<>>
  /\ ready = FALSE /\ endRequested = FALSE
  /\ node \in {NoNode, 1} /\ created = node /\ prepares = {}
  /\ worklet = [n \in Node |-> Silent(0)]
  /\ down = [n \in Node |-> <<>>] /\ up = [n \in Node |-> <<>>]
  /\ heard = [s \in Stream |-> 0] /\ lost = [s \in Stream |-> 0]
  /\ refused = {} /\ replaced = FALSE /\ finished = {}

-----------------------------------------------------------------------------
(* The queue.                                                              *)

(* this.node?.port.postMessage(), for each message.                        *)
PostAll(messages) ==
  down' = IF node = NoNode THEN down ELSE [down EXCEPT ![node] = @ \o messages]

Clear == activeStreamId' = NoStream /\ pending' = <<>> /\ ready' = FALSE /\ endRequested' = FALSE

Stop ==
  /\ generation' = generation + 1
  /\ PostAll(<<StopAt(generation + 1)>>)
  /\ Clear

(* startStream(): a stream is refused while another has not drained.       *)
(* Otherwise stop() comes first, and the rest waits for prepare().         *)
StartStream(s) ==
  \/ /\ activeStreamId # NoStream
     /\ refused' = refused \cup {s}
     /\ UNCHANGED <<queue, prepares, down>>
  \/ /\ activeStreamId = NoStream
     /\ PostAll(<<StopAt(generation + 1)>>)
     /\ generation' = generation + 2
     /\ activeStreamId' = s
     /\ pending' = <<>> /\ ready' = FALSE /\ endRequested' = FALSE
     /\ prepares' = prepares \cup
          {[gen |-> generation + 2, stream |-> s, loading |-> node = NoNode]}
     /\ UNCHANGED refused

TtsStart(s) ==
  /\ sent[s] = -1
  /\ onAir' = s
  /\ sent' = [sent EXCEPT ![s] = 0]
  /\ StartStream(s)
  /\ UNCHANGED <<node, created, worklet, up, heard, lost, replaced, finished>>

(* enqueueChunk(): chunks carry no stream; they belong to the active one.  *)
EnqueueChunk(c) ==
  \/ /\ activeStreamId = NoStream
     /\ UNCHANGED <<queue, down, lost>>
  \/ /\ activeStreamId # NoStream /\ ready
     /\ PostAll(<<Samples(generation, c)>>)
     /\ UNCHANGED <<queue, lost>>
  \/ /\ activeStreamId # NoStream /\ ~ready
     /\ \/ /\ Len(pending) < PendingLimit
           /\ pending' = Append(pending, c)
           /\ UNCHANGED lost
        \/ /\ Len(pending) >= PendingLimit
           /\ pending' = Append(Tail(pending), c)
           /\ lost' = [lost EXCEPT ![Head(pending).stream] = @ + 1]
     /\ UNCHANGED <<activeStreamId, generation, ready, endRequested, down>>

Binary(s) ==
  /\ onAir = s /\ sent[s] < MaxChunks
  /\ sent' = [sent EXCEPT ![s] = @ + 1]
  /\ EnqueueChunk([stream |-> s, index |-> sent[s] + 1])
  /\ UNCHANGED <<onAir, backend, worklet, up, heard, refused, replaced, finished>>

(* endStream(): a completed stream drains, any other is cut off.           *)
EndStream(s, outcome) ==
  \/ /\ activeStreamId # s
     /\ UNCHANGED <<queue, down>>
  \/ /\ activeStreamId = s /\ outcome = "COMPLETED" /\ ready
     /\ PostAll(<<End(generation)>>)
     /\ UNCHANGED queue
  \/ /\ activeStreamId = s /\ outcome = "COMPLETED" /\ ~ready
     /\ endRequested' = TRUE
     /\ UNCHANGED <<activeStreamId, generation, pending, ready, down>>
  \/ /\ activeStreamId = s /\ outcome # "COMPLETED"
     /\ Stop

TtsEnd(s, outcome) ==
  /\ onAir = s
  /\ outcome = "COMPLETED" => sent[s] > 0
  /\ onAir' = NoStream
  /\ EndStream(s, outcome)
  /\ UNCHANGED <<sent, backend, worklet, up, history>>

(* stop() as triggerInterruption() calls it.                               *)
Interrupt ==
  /\ generation < MaxGeneration
  /\ Stop
  /\ UNCHANGED <<server, backend, worklet, up, history>>

-----------------------------------------------------------------------------
(* prepare() and what waits for it.                                        *)

(* startListening() and sendText() prepare the audio too, for no stream.   *)
Gesture ==
  /\ node = NoNode
  /\ prepares' = prepares \cup {[gen |-> 0, stream |-> NoStream, loading |-> TRUE]}
  /\ UNCHANGED <<server, queue, node, created, worklet, down, up, history>>

(* addModule() has resolved: the call creates its node, whether or not     *)
(* another call has created one since.                                     *)
Load(p) ==
  /\ p \in prepares /\ p.loading /\ created < MaxNodes
  /\ created' = created + 1
  /\ node' = created + 1
  /\ replaced' = (replaced \/ node # NoNode)
  /\ prepares' = (prepares \ {p}) \cup {[p EXCEPT !.loading = FALSE]}
  /\ UNCHANGED <<server, queue, worklet, down, up, heard, lost, refused, finished>>

Wanted(p) == p.stream # NoStream /\ p.gen = generation /\ activeStreamId = p.stream

(* Mutant: a TTS_END that came before prepare() resolved is forgotten.     *)
BacklogWithoutEnd == [i \in DOMAIN pending |-> Samples(generation, pending[i])]

(* What waited for prepare().                                              *)
Backlog ==
  [i \in DOMAIN pending |-> Samples(generation, pending[i])]
  \o (IF endRequested THEN <<End(generation)>> ELSE <<>>)

(* prepare() resolves: the stream that still wants it is configured and    *)
(* gets its backlog.                                                       *)
Prepared(p) ==
  /\ p \in prepares /\ ~p.loading
  /\ prepares' = prepares \ {p}
  /\ \/ /\ ~Wanted(p)
        /\ UNCHANGED <<queue, down>>
     \/ /\ Wanted(p)
        /\ ready' = TRUE
        /\ pending' = <<>>
        /\ PostAll(<<Configure(generation)>> \o Backlog)
        /\ UNCHANGED <<activeStreamId, generation, endRequested>>
  /\ UNCHANGED <<server, node, created, worklet, up, history>>

(* prepare() rejects: no AudioContext, no module.                          *)
PrepareFails(p) ==
  /\ p \in prepares
  /\ prepares' = prepares \ {p}
  /\ \/ p.gen = generation /\ p.stream # NoStream /\ Stop
     \/ (p.gen # generation \/ p.stream = NoStream) /\ UNCHANGED <<queue, down>>
  /\ UNCHANGED <<server, node, created, worklet, up, history>>

-----------------------------------------------------------------------------
(* The worklet.                                                            *)

(* Mutant: stop changes the generation but keeps the ring.                 *)
ResetKeepsRing(w, g) == [w EXCEPT !.gen = g, !.started = FALSE, !.ended = FALSE]

Reset(w, g) == Silent(g)

Full(w) == Len(w.ring) >= Capacity

(* Mutant: samples are written where the next ones are read.               *)
WrittenAtRead(w, c) == [w EXCEPT !.ring = <<c>> \o @]

Written(w, c) == [w EXCEPT !.ring = Append(@, c)]

(* configure and stop reset everything; what is left of another generation *)
(* is ignored; samples that do not fit are cut off.                        *)
HandleMessage(n, m) ==
  LET w == worklet[n]
      current == m.gen = w.gen
      samples == m.type = "samples" /\ current
  IN
  /\ worklet' = [worklet EXCEPT ![n] =
       CASE m.type \in {"configure", "stop"} -> Reset(w, m.gen)
         [] samples /\ ~Full(w)              -> Written(w, m.chunk)
         [] m.type = "end" /\ current        -> [w EXCEPT !.ended = TRUE]
         [] OTHER                            -> w]
  /\ lost' = IF samples /\ Full(w) THEN [lost EXCEPT ![m.chunk.stream] = @ + 1] ELSE lost

OnPort(n) ==
  /\ down[n] # <<>>
  /\ HandleMessage(n, Head(down[n]))
  /\ down' = [down EXCEPT ![n] = Tail(@)]
  /\ UNCHANGED <<server, queue, backend, up, heard, refused, replaced, finished>>

(* process(): rendering starts at the watermark or at the end of a short   *)
(* stream, and says so when the last chunk of an ended one is out.         *)
Process(n) ==
  LET w == worklet[n]
      started == \/ w.started
                 \/ Len(w.ring) >= Watermark
                 \/ w.ended /\ w.ring # <<>>
      renders == started /\ w.ring # <<>>
      ring == IF renders THEN Tail(w.ring) ELSE w.ring
      drained == w.ended /\ started /\ ring = <<>>
  IN
  /\ started /\ (renders \/ drained)
  /\ worklet' = [worklet EXCEPT ![n].ring = ring,
                                ![n].started = started /\ ~drained,
                                ![n].ended = w.ended /\ ~drained]
  /\ heard' = IF renders THEN [heard EXCEPT ![Head(w.ring).stream] = @ + 1] ELSE heard
  /\ up' = IF drained THEN [up EXCEPT ![n] = Append(@, w.gen)] ELSE up
  /\ UNCHANGED <<server, queue, backend, down, lost, refused, replaced, finished>>

(* Mutant: handleWorkletMessage() that does not compare generations.       *)
DrainedAtAnyTime(g) ==
  /\ activeStreamId' = NoStream
  /\ ready' = FALSE
  /\ finished' = finished \cup ({activeStreamId} \ {NoStream})
  /\ UNCHANGED <<generation, pending, endRequested>>

(* handleWorkletMessage(): drained.                                        *)
Drained(g) ==
  \/ /\ g # generation
     /\ UNCHANGED <<queue, finished>>
  \/ /\ g = generation
     /\ activeStreamId' = NoStream
     /\ ready' = FALSE
     /\ finished' = finished \cup ({activeStreamId} \ {NoStream})
     /\ UNCHANGED <<generation, pending, endRequested>>

OnWorkletMessage(n) ==
  /\ up[n] # <<>>
  /\ Drained(Head(up[n]))
  /\ up' = [up EXCEPT ![n] = Tail(@)]
  /\ UNCHANGED <<server, backend, worklet, down, heard, lost, refused, replaced>>

Settle == \E p \in prepares : Load(p) \/ Prepared(p)

Next ==
  \/ \E s \in Stream : TtsStart(s)
  \/ \E s \in Stream : Binary(s)
  \/ \E s \in Stream, outcome \in {"COMPLETED", "INTERRUPTED", "FAILED"} : TtsEnd(s, outcome)
  \/ Interrupt
  \/ Gesture
  \/ Settle
  \/ \E p \in prepares : PrepareFails(p)
  \/ \E n \in Node : OnPort(n)
  \/ \E n \in Node : Process(n)
  \/ \E n \in Node : OnWorkletMessage(n)

(* Ports deliver, the audio thread runs, and prepare() settles: it is      *)
(* called from a gesture, which lets the AudioContext run.                 *)
Fairness ==
  /\ WF_vars(Settle)
  /\ \A n \in Node : WF_vars(OnPort(n)) /\ WF_vars(Process(n)) /\ WF_vars(OnWorkletMessage(n))

Spec == Init /\ [][Next]_vars /\ Fairness

-----------------------------------------------------------------------------
(* Properties.                                                             *)

Message ==
  [type: {"configure", "stop", "end"}, gen: Nat] \cup
  [type: {"samples"}, gen: Nat, chunk: Chunk]

Worklet == [gen: Nat, ring: Seq(Chunk), started: BOOLEAN, ended: BOOLEAN]
Preparation == [gen: Nat, stream: Stream \cup {NoStream}, loading: BOOLEAN]

TypeOK ==
  /\ onAir \in Stream \cup {NoStream}
  /\ sent \in [Stream -> -1 .. MaxChunks]
  /\ activeStreamId \in Stream \cup {NoStream}
  /\ generation \in Nat /\ pending \in Seq(Chunk) /\ Len(pending) <= PendingLimit
  /\ ready \in BOOLEAN /\ endRequested \in BOOLEAN
  /\ node \in Node \cup {NoNode} /\ created \in 0 .. MaxNodes
  /\ prepares \subseteq Preparation
  /\ worklet \in [Node -> Worklet] /\ \A n \in Node : Len(worklet[n].ring) <= Capacity
  /\ down \in [Node -> Seq(Message)] /\ up \in [Node -> Seq(Nat)]
  /\ heard \in [Stream -> Nat] /\ lost \in [Stream -> Nat]
  /\ refused \subseteq Stream /\ replaced \in BOOLEAN /\ finished \subseteq Stream

(* No stream was refused and no node was replaced.                         *)
Orderly == refused = {} /\ ~replaced

(* What is on its way to the speaker, the first to be heard first.         *)
InTransit ==
  LET Kept(chunks) == [i \in DOMAIN chunks |-> Samples(generation, chunks[i])]
  IN  IF node = NoNode THEN Kept(pending)
      ELSE Kept(worklet[node].ring) \o down[node] \o Kept(pending)

(* The chunks of a stream keep their order from the socket to the speaker, *)
(* through the pending list, the port and the ring, also when some of them *)
(* are dropped because the list or the ring is full.                       *)
Before(c, d) == c.stream = d.stream => c.index < d.index
OrderKept ==
  LET all == InTransit IN
  \A i, j \in DOMAIN all :
    (i < j /\ all[i].type = "samples" /\ all[j].type = "samples")
      => Before(all[i].chunk, all[j].chunk)

(* Nothing is left to be heard once no stream is active and the worklet    *)
(* has read its port: not after an interruption, not after a failure, not  *)
(* when prepare() resolves for a stream that was stopped meanwhile.        *)
RestIsSilent ==
  (Orderly /\ activeStreamId = NoStream /\ node # NoNode /\ down[node] = <<>>)
  => worklet[node].ring = <<>>

(* A stream that ended because it drained was heard to the end: every      *)
(* chunk that was not dropped for lack of room has been rendered.  A       *)
(* drained message from before an interruption does not end its successor. *)
CompletedIsHeard ==
  Orderly => \A s \in finished : heard[s] + lost[s] = sent[s]

(* The stream has been closed as completed while it was active.            *)
Closing(s) ==
  /\ activeStreamId = s
  /\ \/ endRequested
     \/ /\ node # NoNode
        /\ \/ worklet[node].gen = generation /\ worklet[node].ended
           \/ \E i \in DOMAIN down[node] : down[node][i] = End(generation)

(* A completed stream gives the queue back, whenever its TTS_END comes:    *)
(* before the audio is prepared, before the watermark, or while it plays.  *)
PlaybackEnds ==
  \A s \in Stream : Closing(s) ~> (activeStreamId # s \/ ~Orderly)

(* docs/api-contracts/hermes-protocol.md, "Ordered binary messages ...     *)
(* belong to the stream between its markers": what the active stream plays *)
(* is its own.                                                             *)
StreamsDoNotMix ==
  activeStreamId # NoStream =>
    /\ \A i \in DOMAIN pending : pending[i].stream = activeStreamId
    /\ (node # NoNode /\ worklet[node].gen = generation) =>
         \A i \in DOMAIN worklet[node].ring : worklet[node].ring[i].stream = activeStreamId
=============================================================================
