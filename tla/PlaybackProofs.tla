--------------------------- MODULE PlaybackProofs ---------------------------
(***************************************************************************)
(* Proofs about PlaybackQueue: that chunks keep their order, that nothing  *)
(* is left to be heard once no stream is active, and that a stream that    *)
(* ended because it drained was heard to the end.                          *)
(***************************************************************************)
EXTENDS PlaybackQueue, SequenceTheorems, TLAPS

USE PlaybackAssumption DEF PlaybackAssumption

-----------------------------------------------------------------------------
(* Types.                                                                  *)

Outcome == {"COMPLETED", "INTERRUPTED", "FAILED"}

IsSamples(m) == m.type = "samples"

LEMMA MessagesTyped ==
  /\ \A m \in Message : m.gen \in Nat /\ (IsSamples(m) => m.chunk \in Chunk)
  /\ \A g \in Nat : Configure(g) \in Message /\ StopAt(g) \in Message /\ End(g) \in Message
  /\ \A g \in Nat, c \in Chunk : Samples(g, c) \in Message
BY DEF Message, IsSamples, Configure, StopAt, End, Samples

LEMMA MessageFields ==
  /\ \A g : /\ Configure(g).type = "configure" /\ Configure(g).gen = g
            /\ StopAt(g).type = "stop" /\ StopAt(g).gen = g
            /\ End(g).type = "end" /\ End(g).gen = g
  /\ \A g, c : Samples(g, c).type = "samples" /\ Samples(g, c).gen = g /\ Samples(g, c).chunk = c
BY DEF Configure, StopAt, End, Samples

LEMMA HeadTyped ==
  ASSUME NEW S, NEW q \in Seq(S), q # <<>>
  PROVE  /\ Head(q) \in S /\ Tail(q) \in Seq(S) /\ Head(q) = q[1]
         /\ Len(q) \in Nat \ {0} /\ DOMAIN q = 1 .. Len(q)
         /\ Len(Tail(q)) = Len(q) - 1 /\ DOMAIN Tail(q) = 1 .. Len(q) - 1
         /\ \A i \in 1 .. Len(q) - 1 : Tail(q)[i] = q[i + 1]
<1>1. Len(q) \in Nat \ {0} /\ DOMAIN q = 1 .. Len(q)
  BY EmptySeq
<1> QED BY <1>1, HeadTailProperties

LEMMA AppendTyped ==
  ASSUME NEW S, NEW q \in Seq(S), NEW x \in S
  PROVE  /\ Append(q, x) \in Seq(S) /\ Len(q) \in Nat
         /\ DOMAIN q = 1 .. Len(q) /\ DOMAIN Append(q, x) = 1 .. Len(q) + 1
         /\ Len(Append(q, x)) = Len(q) + 1 /\ Append(q, x)[Len(q) + 1] = x
         /\ \A i \in 1 .. Len(q) : Append(q, x)[i] = q[i]
BY AppendProperties

LEMMA ConcatTyped ==
  ASSUME NEW S, NEW q \in Seq(S), NEW r \in Seq(S)
  PROVE  /\ q \o r \in Seq(S) /\ Len(q) \in Nat /\ Len(r) \in Nat
         /\ Len(q \o r) = Len(q) + Len(r)
         /\ DOMAIN q = 1 .. Len(q) /\ DOMAIN r = 1 .. Len(r)
         /\ DOMAIN (q \o r) = 1 .. Len(q) + Len(r)
         /\ \A i \in 1 .. Len(q) : (q \o r)[i] = q[i]
         /\ \A i \in 1 .. Len(r) : (q \o r)[Len(q) + i] = r[i]
<1>1. /\ q \o r \in Seq(S) /\ Len(q \o r) = Len(q) + Len(r)
      /\ Len(q) \in Nat /\ Len(r) \in Nat
      /\ \A i \in 1 .. Len(q) + Len(r) :
           (q \o r)[i] = IF i <= Len(q) THEN q[i] ELSE r[i - Len(q)]
  BY ConcatProperties
<1>2. DOMAIN (q \o r) = 1 .. Len(q) + Len(r)
  BY <1>1
<1>3. \A i \in 1 .. Len(r) : (q \o r)[Len(q) + i] = r[i]
  <2> SUFFICES ASSUME NEW i \in 1 .. Len(r) PROVE (q \o r)[Len(q) + i] = r[i]
    OBVIOUS
  <2>1. Len(q) + i \in 1 .. Len(q) + Len(r) /\ ~(Len(q) + i <= Len(q)) /\ Len(q) + i - Len(q) = i
    BY <1>1
  <2> QED BY <1>1, <2>1
<1> QED BY <1>1, <1>2, <1>3

LEMMA OneMore ==
  ASSUME NEW f \in [Stream -> Nat], NEW s \in Stream
  PROVE  [f EXCEPT ![s] = @ + 1] \in [Stream -> Nat]
OBVIOUS

(* What waited for prepare(): the pending chunks, then perhaps the end.    *)
Ends == IF endRequested THEN 1 ELSE 0

LEMMA BacklogTyped ==
  ASSUME TypeOK
  PROVE  /\ Backlog \in Seq(Message) /\ Len(pending) \in Nat
         /\ DOMAIN pending = 1 .. Len(pending)
         /\ Len(Backlog) = Len(pending) + Ends
         /\ \A i \in 1 .. Len(pending) : Backlog[i] = Samples(generation, pending[i])
         /\ Ends = 1 => Backlog[Len(pending) + 1] = End(generation)
         /\ Ends \in {0, 1} /\ (Ends = 1) = endRequested
<1> DEFINE kept == [i \in DOMAIN pending |-> Samples(generation, pending[i])]
           tail == IF endRequested THEN <<End(generation)>> ELSE <<>>
<1>1. pending \in Seq(Chunk) /\ Len(pending) \in Nat /\ DOMAIN pending = 1 .. Len(pending)
      /\ generation \in Nat
  BY DEF TypeOK
<1>2. kept \in Seq(Message) /\ Len(kept) = Len(pending)
  <2>1. \A i \in 1 .. Len(pending) : Samples(generation, pending[i]) \in Message
    BY <1>1, MessagesTyped
  <2> QED BY <1>1, <2>1
<1>e. Ends \in {0, 1} /\ (Ends = 1) = endRequested
  BY DEF Ends, TypeOK
<1>3. tail \in Seq(Message) /\ Len(tail) = Ends
  BY <1>1, MessagesTyped DEF Ends
<1>4. endRequested => tail[1] = End(generation)
  OBVIOUS
<1>5. \A i \in 1 .. Len(pending) : kept[i] = Samples(generation, pending[i])
  BY <1>1
<1>6. Backlog = kept \o tail
  BY DEF Backlog
<1> HIDE DEF kept, tail
<1>7. /\ kept \o tail \in Seq(Message) /\ Len(kept \o tail) = Len(kept) + Len(tail)
      /\ \A i \in 1 .. Len(kept) : (kept \o tail)[i] = kept[i]
      /\ \A i \in 1 .. Len(tail) : (kept \o tail)[Len(kept) + i] = tail[i]
  <2>1. kept \in Seq(Message) /\ tail \in Seq(Message)
    BY <1>2, <1>3
  <2> QED BY ONLY <2>1, ConcatTyped
<1>8. Ends = 1 => Backlog[Len(pending) + 1] = End(generation)
  <2> SUFFICES ASSUME Ends = 1 PROVE Backlog[Len(pending) + 1] = End(generation)
    OBVIOUS
  <2>1. tail[1] = End(generation) /\ Len(tail) = 1 /\ Len(kept) = Len(pending)
    BY <1>2, <1>3, <1>4, <1>e
  <2> QED BY <1>6, <1>7, <2>1
<1> QED BY <1>1, <1>2, <1>3, <1>5, <1>6, <1>7, <1>8, <1>e

(* What is posted goes to the end of the node's port.                      *)
LEMMA PostTyped ==
  ASSUME TypeOK, NEW ms \in Seq(Message), PostAll(ms)
  PROVE  down' \in [Node -> Seq(Message)]
<1>1. CASE node = NoNode
  BY <1>1 DEF PostAll, TypeOK
<1>2. CASE node # NoNode
  <2>1. node \in Node /\ down[node] \in Seq(Message)
    BY <1>2 DEF TypeOK
  <2>2. down[node] \o ms \in Seq(Message)
    BY <2>1, ConcatTyped
  <2> QED BY <1>2, <2>1, <2>2 DEF PostAll, TypeOK
<1> QED BY <1>1, <1>2

QueueTyped ==
  /\ activeStreamId \in Stream \cup {NoStream}
  /\ generation \in Nat /\ pending \in Seq(Chunk) /\ Len(pending) <= PendingLimit
  /\ ready \in BOOLEAN /\ endRequested \in BOOLEAN
  /\ down \in [Node -> Seq(Message)]

LEMMA StopTyped ==
  ASSUME TypeOK, Stop
  PROVE  QueueTyped'
<1>1. generation + 1 \in Nat
  BY DEF TypeOK
<1>2. <<StopAt(generation + 1)>> \in Seq(Message)
  BY <1>1, MessagesTyped
<1>3. down' \in [Node -> Seq(Message)]
  BY <1>2, PostTyped DEF Stop
<1>4. pending' \in Seq(Chunk) /\ Len(pending') <= PendingLimit
  BY DEF Stop, Clear
<1> QED BY <1>1, <1>3, <1>4 DEF Stop, Clear, QueueTyped

(* A stream on the air has begun.                                          *)
OnAirBegun == \A s \in Stream : onAir = s => sent[s] >= 0

LEMMA StepTypes ==
  ASSUME TypeOK, OnAirBegun, [Next]_vars
  PROVE  TypeOK' /\ OnAirBegun'
<1>g. generation \in Nat /\ generation + 1 \in Nat /\ generation + 2 \in Nat
  BY DEF TypeOK
<1>q. ASSUME UNCHANGED <<queue, down>> PROVE QueueTyped'
  BY <1>q DEF TypeOK, queue, QueueTyped
<1>1. CASE UNCHANGED vars
  BY <1>1 DEF TypeOK, OnAirBegun, vars
<1>2. ASSUME NEW s \in Stream, TtsStart(s) PROVE TypeOK' /\ OnAirBegun'
  <2>1. sent' \in [Stream -> -1 .. MaxChunks] /\ sent'[s] = 0 /\ onAir' = s
    BY <1>2 DEF TtsStart, TypeOK
  <2>2. OnAirBegun'
    BY <2>1 DEF OnAirBegun
  <2>3. CASE activeStreamId # NoStream /\ refused' = refused \cup {s}
             /\ UNCHANGED <<queue, prepares, down>>
    BY <1>2, <1>q, <2>1, <2>2, <2>3 DEF TtsStart, TypeOK, QueueTyped
  <2>4. CASE activeStreamId = NoStream /\ StartStream(s)
    <3>1. <<StopAt(generation + 1)>> \in Seq(Message)
      BY <1>g, MessagesTyped
    <3>2. down' \in [Node -> Seq(Message)]
      BY <2>4, <3>1, PostTyped DEF StartStream
    <3>3. [gen |-> generation + 2, stream |-> s, loading |-> node = NoNode] \in Preparation
      BY <1>g DEF Preparation
    <3>4. prepares' \subseteq Preparation
      BY <2>4, <3>3 DEF StartStream, TypeOK
    <3>5. pending' \in Seq(Chunk) /\ Len(pending') <= PendingLimit
      BY <2>4 DEF StartStream
    <3>6. /\ generation' \in Nat /\ activeStreamId' \in Stream /\ ready' = FALSE
          /\ endRequested' = FALSE /\ refused' = refused
      BY <1>g, <2>4 DEF StartStream
    <3> QED BY <1>2, <2>1, <2>2, <3>2, <3>4, <3>5, <3>6 DEF TtsStart, TypeOK
  <2> QED BY <1>2, <2>3, <2>4 DEF TtsStart, StartStream
<1>3. ASSUME NEW s \in Stream, Binary(s) PROVE TypeOK' /\ OnAirBegun'
  <2> DEFINE c == [stream |-> s, index |-> sent[s] + 1]
  <2>1. sent[s] \in 0 .. MaxChunks - 1 /\ sent[s] + 1 \in 1 .. MaxChunks
    BY <1>3 DEF Binary, TypeOK, OnAirBegun
  <2>2. sent' \in [Stream -> -1 .. MaxChunks] /\ OnAirBegun'
    BY <1>3, <2>1 DEF Binary, TypeOK, OnAirBegun
  <2>3. c \in Chunk
    BY <2>1 DEF Chunk
  <2>4. QueueTyped' /\ lost' \in [Stream -> Nat]
    <3> HIDE DEF c
    <3>0. EnqueueChunk(c)
      BY <1>3 DEF Binary, c
    <3>1. CASE UNCHANGED <<queue, down, lost>>
      BY <1>q, <3>1 DEF TypeOK
    <3>2. CASE PostAll(<<Samples(generation, c)>>) /\ UNCHANGED <<queue, lost>>
      <4>1. <<Samples(generation, c)>> \in Seq(Message)
        BY <1>g, <2>3, MessagesTyped
      <4>2. down' \in [Node -> Seq(Message)]
        BY <3>2, <4>1, PostTyped
      <4> QED BY <3>2, <4>2 DEF TypeOK, QueueTyped, queue
    <3>3. CASE Len(pending) < PendingLimit /\ pending' = Append(pending, c) /\ UNCHANGED lost
               /\ UNCHANGED <<activeStreamId, generation, ready, endRequested, down>>
      <4>1. pending' \in Seq(Chunk) /\ Len(pending') <= PendingLimit
        BY <2>3, <3>3, AppendTyped DEF TypeOK
      <4> QED BY <3>3, <4>1 DEF TypeOK, QueueTyped
    <3>4. CASE /\ Len(pending) >= PendingLimit /\ pending' = Append(Tail(pending), c)
               /\ lost' = [lost EXCEPT ![Head(pending).stream] = @ + 1]
               /\ UNCHANGED <<activeStreamId, generation, ready, endRequested, down>>
      <4>0. pending \in Seq(Chunk) /\ pending # <<>>
        BY <3>4 DEF TypeOK
      <4>1. /\ Head(pending) \in Chunk /\ Tail(pending) \in Seq(Chunk)
            /\ Len(Tail(pending)) = Len(pending) - 1
        BY <4>0, HeadTyped
      <4>2. pending' \in Seq(Chunk) /\ Len(pending') <= PendingLimit
        BY <2>3, <3>4, <4>1, AppendTyped DEF TypeOK
      <4>3. Head(pending).stream \in Stream
        BY <4>1 DEF Chunk
      <4>4. lost' \in [Stream -> Nat]
        BY <3>4, <4>3, OneMore DEF TypeOK
      <4> QED BY <3>4, <4>2, <4>4 DEF TypeOK, QueueTyped
    <3> QED BY <3>0, <3>1, <3>2, <3>3, <3>4 DEF EnqueueChunk
  <2> QED BY <1>3, <2>2, <2>4 DEF Binary, TypeOK, QueueTyped, backend
<1>4. ASSUME NEW s \in Stream, NEW outcome \in Outcome, TtsEnd(s, outcome)
      PROVE  TypeOK' /\ OnAirBegun'
  <2>1. OnAirBegun'
    BY <1>4 DEF TtsEnd, OnAirBegun
  <2>2. QueueTyped'
    <3>1. CASE UNCHANGED <<queue, down>>
      BY <1>q, <3>1
    <3>2. CASE PostAll(<<End(generation)>>) /\ UNCHANGED queue
      <4>1. <<End(generation)>> \in Seq(Message)
        BY <1>g, MessagesTyped
      <4>2. down' \in [Node -> Seq(Message)]
        BY <3>2, <4>1, PostTyped
      <4> QED BY <3>2, <4>2 DEF TypeOK, QueueTyped, queue
    <3>3. CASE endRequested' = TRUE
               /\ UNCHANGED <<activeStreamId, generation, pending, ready, down>>
      BY <3>3 DEF TypeOK, QueueTyped
    <3>4. CASE Stop
      BY <3>4, StopTyped
    <3> QED BY <1>4, <3>1, <3>2, <3>3, <3>4 DEF TtsEnd, EndStream
  <2> QED BY <1>4, <2>1, <2>2 DEF TtsEnd, TypeOK, QueueTyped, backend, history
<1>5. CASE Interrupt
  <2>1. QueueTyped'
    BY <1>5, StopTyped DEF Interrupt
  <2> QED BY <1>5, <2>1
      DEF Interrupt, TypeOK, QueueTyped, OnAirBegun, server, backend, history
<1>6. CASE Gesture
  <2>0. [gen |-> 0, stream |-> NoStream, loading |-> TRUE] \in Preparation
    BY DEF Preparation
  <2>1. prepares' \subseteq Preparation
    BY <1>6, <2>0 DEF Gesture, TypeOK
  <2> QED BY <1>6, <2>1 DEF Gesture, TypeOK, OnAirBegun, server, queue, history
<1>7. ASSUME NEW p \in prepares, Load(p) PROVE TypeOK' /\ OnAirBegun'
  <2>1. p \in Preparation
    BY DEF TypeOK
  <2>2. [p EXCEPT !.loading = FALSE] \in Preparation
    BY <2>1 DEF Preparation
  <2>3. prepares' \subseteq Preparation
    BY <1>7, <2>2 DEF Load, TypeOK
  <2>4. created' \in 0 .. MaxNodes /\ node' \in Node
    BY <1>7 DEF Load, TypeOK, Node
  <2> QED BY <1>7, <2>3, <2>4 DEF Load, TypeOK, OnAirBegun, server, queue
<1>8. ASSUME NEW p \in prepares, Prepared(p) PROVE TypeOK' /\ OnAirBegun'
  <2>1. prepares' \subseteq Preparation
    BY <1>8 DEF Prepared, TypeOK
  <2>2. QueueTyped'
    <3>1. CASE UNCHANGED <<queue, down>>
      BY <1>q, <3>1
    <3>2. CASE /\ ready' = TRUE /\ pending' = <<>>
               /\ PostAll(<<Configure(generation)>> \o Backlog)
               /\ UNCHANGED <<activeStreamId, generation, endRequested>>
      <4>1. <<Configure(generation)>> \in Seq(Message)
        BY <1>g, MessagesTyped
      <4>2. <<Configure(generation)>> \o Backlog \in Seq(Message)
        BY <4>1, BacklogTyped, ConcatTyped
      <4>3. down' \in [Node -> Seq(Message)]
        BY <3>2, <4>2, PostTyped
      <4> QED BY <3>2, <4>3 DEF TypeOK, QueueTyped
    <3> QED BY <1>8, <3>1, <3>2 DEF Prepared
  <2> QED BY <1>8, <2>1, <2>2 DEF Prepared, TypeOK, QueueTyped, OnAirBegun, server, history
<1>9. ASSUME NEW p \in prepares, PrepareFails(p) PROVE TypeOK' /\ OnAirBegun'
  <2>1. prepares' \subseteq Preparation
    BY <1>9 DEF PrepareFails, TypeOK
  <2>2. QueueTyped'
    BY <1>9, <1>q, StopTyped DEF PrepareFails
  <2> QED BY <1>9, <2>1, <2>2 DEF PrepareFails, TypeOK, QueueTyped, OnAirBegun, server, history
<1>10. ASSUME NEW n \in Node, OnPort(n) PROVE TypeOK' /\ OnAirBegun'
  <2> DEFINE m == Head(down[n])
  <2>0. down[n] \in Seq(Message) /\ down[n] # <<>> /\ worklet[n] \in Worklet
        /\ Len(worklet[n].ring) <= Capacity
    BY <1>10 DEF OnPort, TypeOK
  <2>1. m \in Message /\ Tail(down[n]) \in Seq(Message)
    BY <2>0, HeadTyped
  <2>2. down' \in [Node -> Seq(Message)]
    BY <1>10, <2>1 DEF OnPort, TypeOK
  <2>3. lost' \in [Stream -> Nat]
    <3>1. CASE IsSamples(m) /\ lost' = [lost EXCEPT ![m.chunk.stream] = @ + 1]
      <4>1. m.chunk.stream \in Stream
        BY <2>1, <3>1, MessagesTyped DEF Chunk
      <4> QED BY <3>1, <4>1, OneMore DEF TypeOK
    <3>2. CASE lost' = lost
      BY <3>2 DEF TypeOK
    <3> QED BY <1>10, <3>1, <3>2 DEF OnPort, HandleMessage, IsSamples
  <2>4. PICK w : worklet' = [worklet EXCEPT ![n] = w] /\
          \/ w = Reset(worklet[n], m.gen)
          \/ IsSamples(m) /\ ~Full(worklet[n]) /\ w = Written(worklet[n], m.chunk)
          \/ w = [worklet[n] EXCEPT !.ended = TRUE]
          \/ w = worklet[n]
    BY <1>10 DEF OnPort, HandleMessage, IsSamples
  <2>5. w \in Worklet /\ Len(w.ring) <= Capacity
    <3>1. CASE w = Reset(worklet[n], m.gen)
      BY <2>1, <3>1, MessagesTyped DEF Reset, Silent, Worklet
    <3>2. CASE IsSamples(m) /\ ~Full(worklet[n]) /\ w = Written(worklet[n], m.chunk)
      <4>1. m.chunk \in Chunk /\ worklet[n].ring \in Seq(Chunk)
        BY <2>0, <2>1, <3>2, MessagesTyped DEF Worklet
      <4>2. Append(worklet[n].ring, m.chunk) \in Seq(Chunk)
            /\ Len(Append(worklet[n].ring, m.chunk)) <= Capacity
        BY <3>2, <4>1, AppendTyped DEF Full
      <4> QED BY <2>0, <3>2, <4>2 DEF Written, Worklet
    <3>3. CASE w = [worklet[n] EXCEPT !.ended = TRUE]
      BY <2>0, <3>3 DEF Worklet
    <3> QED BY <2>0, <2>4, <3>1, <3>2, <3>3
  <2>6. worklet' \in [Node -> Worklet] /\ \A k \in Node : Len(worklet'[k].ring) <= Capacity
    BY <2>4, <2>5 DEF TypeOK
  <2> QED BY <1>10, <2>2, <2>3, <2>6 DEF OnPort, TypeOK, OnAirBegun, server, queue, backend
<1>11. ASSUME NEW n \in Node, Process(n) PROVE TypeOK' /\ OnAirBegun'
  <2>0. worklet[n] \in Worklet /\ worklet[n].ring \in Seq(Chunk)
        /\ Len(worklet[n].ring) <= Capacity
    BY DEF TypeOK, Worklet
  <2>1. worklet[n].ring # <<>> =>
          /\ Head(worklet[n].ring) \in Chunk /\ Tail(worklet[n].ring) \in Seq(Chunk)
          /\ Len(Tail(worklet[n].ring)) <= Capacity
    BY <2>0, HeadTyped
  <2>2. PICK ring, started, ended :
          /\ worklet' = [worklet EXCEPT ![n].ring = ring, ![n].started = started,
                                       ![n].ended = ended]
          /\ started \in BOOLEAN /\ ended \in BOOLEAN
          /\ ring = worklet[n].ring \/ (worklet[n].ring # <<>> /\ ring = Tail(worklet[n].ring))
    <3> DEFINE begun == \/ worklet[n].started \/ Len(worklet[n].ring) >= Watermark
                        \/ worklet[n].ended /\ worklet[n].ring # <<>>
               renders == begun /\ worklet[n].ring # <<>>
               left == IF renders THEN Tail(worklet[n].ring) ELSE worklet[n].ring
               drained == worklet[n].ended /\ begun /\ left = <<>>
    <3>1. worklet' = [worklet EXCEPT ![n].ring = left, ![n].started = begun /\ ~drained,
                                     ![n].ended = worklet[n].ended /\ ~drained]
      BY <1>11 DEF Process
    <3>2. (begun /\ ~drained) \in BOOLEAN /\ (worklet[n].ended /\ ~drained) \in BOOLEAN
      OBVIOUS
    <3>3. left = worklet[n].ring \/ (worklet[n].ring # <<>> /\ left = Tail(worklet[n].ring))
      OBVIOUS
    <3> HIDE DEF begun, renders, left, drained
    <3> QED BY <3>1, <3>2, <3>3
  <2>3. ring \in Seq(Chunk) /\ Len(ring) <= Capacity
    BY <2>0, <2>1, <2>2
  <2>4. worklet' \in [Node -> Worklet] /\ \A k \in Node : Len(worklet'[k].ring) <= Capacity
    <3> DEFINE w == [worklet[n] EXCEPT !.ring = ring, !.started = started, !.ended = ended]
    <3>1. w \in Worklet /\ w.ring = ring
      BY <2>0, <2>2, <2>3 DEF Worklet
    <3>2. worklet' = [worklet EXCEPT ![n] = w]
      BY <2>2 DEF TypeOK
    <3> HIDE DEF w
    <3> QED BY <2>3, <3>1, <3>2 DEF TypeOK
  <2>5. heard' \in [Stream -> Nat]
    <3>1. worklet[n].ring # <<>> => Head(worklet[n].ring).stream \in Stream
      BY <2>1 DEF Chunk
    <3>2. \/ heard' = heard
          \/ /\ worklet[n].ring # <<>>
             /\ heard' = [heard EXCEPT ![Head(worklet[n].ring).stream] = @ + 1]
      BY <1>11 DEF Process
    <3>3. heard \in [Stream -> Nat]
      BY DEF TypeOK
    <3>4. \A x \in Stream : [heard EXCEPT ![x] = @ + 1] \in [Stream -> Nat]
      BY <3>3, OneMore
    <3> QED BY <3>1, <3>2, <3>3, <3>4
  <2>6. up' \in [Node -> Seq(Nat)]
    <3>1. worklet[n].gen \in Nat
      BY <2>0 DEF Worklet
    <3>2. Append(up[n], worklet[n].gen) \in Seq(Nat)
      BY <3>1, AppendTyped DEF TypeOK
    <3> QED BY <1>11, <3>2 DEF Process, TypeOK
  <2> QED BY <1>11, <2>4, <2>5, <2>6 DEF Process, TypeOK, OnAirBegun, server, queue, backend
<1>12. ASSUME NEW n \in Node, OnWorkletMessage(n) PROVE TypeOK' /\ OnAirBegun'
  <2>0. up[n] \in Seq(Nat) /\ up[n] # <<>>
    BY <1>12 DEF OnWorkletMessage, TypeOK
  <2>1. Tail(up[n]) \in Seq(Nat)
    BY <2>0, HeadTyped
  <2>2. up' \in [Node -> Seq(Nat)]
    BY <1>12, <2>1 DEF OnWorkletMessage, TypeOK
  <2>3. CASE UNCHANGED <<queue, finished>>
    BY <1>12, <2>2, <2>3 DEF OnWorkletMessage, TypeOK, OnAirBegun, server, backend, queue
  <2>4. CASE /\ activeStreamId' = NoStream /\ ready' = FALSE
             /\ finished' = finished \cup ({activeStreamId} \ {NoStream})
             /\ UNCHANGED <<generation, pending, endRequested>>
    BY <1>12, <2>2, <2>4 DEF OnWorkletMessage, TypeOK, OnAirBegun, server, backend
  <2> QED BY <1>12, <2>3, <2>4 DEF OnWorkletMessage, Drained
<1> QED
  BY <1>1, <1>2, <1>3, <1>4, <1>5, <1>6, <1>7, <1>8, <1>9, <1>10, <1>11, <1>12
  DEF Next, Settle, Outcome

LEMMA InitTypes == Init => TypeOK /\ OnAirBegun
<1> SUFFICES ASSUME Init PROVE TypeOK /\ OnAirBegun
  OBVIOUS
<1>1. Silent(0) \in Worklet /\ Len(Silent(0).ring) = 0
  BY DEF Silent, Worklet
<1>2. worklet \in [Node -> Worklet] /\ \A n \in Node : Len(worklet[n].ring) <= Capacity
  BY <1>1 DEF Init
<1>3. down \in [Node -> Seq(Message)] /\ up \in [Node -> Seq(Nat)] /\ pending \in Seq(Chunk)
      /\ Len(pending) <= PendingLimit
  BY DEF Init
<1>4. sent \in [Stream -> -1 .. MaxChunks]
  BY DEF Init
<1>5. node \in Node \cup {NoNode} /\ created \in 0 .. MaxNodes
  BY DEF Init, Node, NoNode
<1> QED BY <1>2, <1>3, <1>4, <1>5 DEF Init, TypeOK, OnAirBegun

(* The queue, the ports and the worklet nodes keep their types; the list   *)
(* of pending chunks and the ring keep their limits.                       *)
THEOREM TypesHold == Spec => []TypeOK
<1>1. TypeOK /\ OnAirBegun /\ [Next]_vars => TypeOK' /\ OnAirBegun'
  BY StepTypes
<1> QED BY InitTypes, <1>1, PTL DEF Spec

-----------------------------------------------------------------------------
(* What the worklet does with a message, and with the next samples.        *)

LEMMA PortEffect ==
  ASSUME TypeOK, NEW n \in Node, OnPort(n)
  PROVE  LET m == Head(down[n])  w == worklet[n]  v == worklet'[n] IN
         /\ m \in Message /\ down[n] # <<>> /\ down'[n] = Tail(down[n])
         /\ \A k \in Node \ {n} : worklet'[k] = worklet[k] /\ down'[k] = down[k]
         /\ \/ m.type \in {"configure", "stop"} /\ v = Silent(m.gen) /\ lost' = lost
            \/ /\ IsSamples(m) /\ m.gen = w.gen /\ lost' = lost
               /\ v.ring = Append(w.ring, m.chunk) /\ v.gen = w.gen /\ v.ended = w.ended
            \/ /\ IsSamples(m) /\ m.gen = w.gen /\ v = w
               /\ lost' = [lost EXCEPT ![m.chunk.stream] = @ + 1]
            \/ IsSamples(m) /\ m.gen # w.gen /\ v = w /\ lost' = lost
            \/ /\ m.type = "end" /\ m.gen = w.gen /\ lost' = lost
               /\ v.ring = w.ring /\ v.gen = w.gen /\ v.ended = TRUE
            \/ m.type = "end" /\ m.gen # w.gen /\ v = w /\ lost' = lost
         /\ UNCHANGED <<onAir, sent, activeStreamId, generation, pending, ready, endRequested,
                        node, created, prepares, up, heard, refused, replaced, finished>>
<1> DEFINE m == Head(down[n])
           w == worklet[n]
           v == worklet'[n]
<1>0. /\ down[n] \in Seq(Message) /\ down[n] # <<>> /\ w \in Worklet
      /\ worklet \in [Node -> Worklet] /\ down \in [Node -> Seq(Message)]
  BY DEF OnPort, TypeOK
<1>1. m \in Message /\ m.type \in {"configure", "stop", "end", "samples"}
  <2>1. m \in Message
    BY <1>0, HeadTyped
  <2> QED BY <2>1 DEF Message
<1>2. down'[n] = Tail(down[n]) /\ \A k \in Node \ {n} : down'[k] = down[k]
  BY <1>0 DEF OnPort
<1>3. \A k \in Node \ {n} : worklet'[k] = worklet[k]
  BY <1>0 DEF OnPort, HandleMessage
<1>7. \/ m.type \in {"configure", "stop"} /\ v = Silent(m.gen) /\ lost' = lost
      \/ /\ IsSamples(m) /\ m.gen = w.gen /\ lost' = lost
         /\ v.ring = Append(w.ring, m.chunk) /\ v.gen = w.gen /\ v.ended = w.ended
      \/ /\ IsSamples(m) /\ m.gen = w.gen /\ v = w
         /\ lost' = [lost EXCEPT ![m.chunk.stream] = @ + 1]
      \/ IsSamples(m) /\ m.gen # w.gen /\ v = w /\ lost' = lost
      \/ /\ m.type = "end" /\ m.gen = w.gen /\ lost' = lost
         /\ v.ring = w.ring /\ v.gen = w.gen /\ v.ended = TRUE
      \/ m.type = "end" /\ m.gen # w.gen /\ v = w /\ lost' = lost
  <2>h. HandleMessage(n, m)
    BY DEF OnPort
  <2> HIDE DEF m
  <2>4. CASE m.type \in {"configure", "stop"}
    BY <1>0, <2>h, <2>4 DEF HandleMessage, Reset
  <2>5. CASE IsSamples(m)
    <3>1. CASE m.gen = w.gen /\ ~Full(w)
      <4>1. v = Written(w, m.chunk) /\ lost' = lost
        BY <1>0, <2>h, <2>5, <3>1 DEF HandleMessage, IsSamples
      <4>2. v.ring = Append(w.ring, m.chunk) /\ v.gen = w.gen /\ v.ended = w.ended
        BY <1>0, <4>1 DEF Written, Worklet
      <4> QED BY <2>5, <3>1, <4>1, <4>2
    <3>2. CASE m.gen = w.gen /\ Full(w)
      BY <1>0, <2>h, <2>5, <3>2 DEF HandleMessage, IsSamples
    <3>3. CASE m.gen # w.gen
      BY <1>0, <2>h, <2>5, <3>3 DEF HandleMessage, IsSamples
    <3> QED BY <3>1, <3>2, <3>3
  <2>6. CASE m.type = "end"
    <3>1. CASE m.gen = w.gen
      <4>1. v = [w EXCEPT !.ended = TRUE] /\ lost' = lost
        BY <1>0, <2>h, <2>6, <3>1 DEF HandleMessage
      <4>2. v.ring = w.ring /\ v.gen = w.gen /\ v.ended = TRUE
        BY <1>0, <4>1 DEF Worklet
      <4> QED BY <2>6, <3>1, <4>1, <4>2
    <3>2. CASE m.gen # w.gen
      BY <1>0, <2>h, <2>6, <3>2 DEF HandleMessage
    <3> QED BY <3>1, <3>2
  <2> QED BY <1>1, <2>4, <2>5, <2>6 DEF IsSamples
<1> QED BY <1>0, <1>1, <1>2, <1>3, <1>7 DEF OnPort, server, queue, backend

LEMMA ProcessEffect ==
  ASSUME TypeOK, NEW n \in Node, Process(n)
  PROVE  LET w == worklet[n]  v == worklet'[n] IN
         /\ \A k \in Node \ {n} : worklet'[k] = worklet[k] /\ up'[k] = up[k]
         /\ v.gen = w.gen /\ w # Silent(0)
         /\ \/ /\ w.ring # <<>> /\ v.ring = Tail(w.ring)
               /\ heard' = [heard EXCEPT ![Head(w.ring).stream] = @ + 1]
            \/ w.ring = <<>> /\ v.ring = <<>> /\ heard' = heard
         /\ \/ v.ended = w.ended /\ up'[n] = up[n]
            \/ w.ended /\ ~v.ended /\ v.ring = <<>> /\ up'[n] = Append(up[n], w.gen)
         /\ UNCHANGED <<onAir, sent, activeStreamId, generation, pending, ready, endRequested,
                        node, created, prepares, down, lost, refused, replaced, finished>>
<1> DEFINE w == worklet[n]
           begun == \/ w.started \/ Len(w.ring) >= Watermark
                    \/ w.ended /\ w.ring # <<>>
           renders == begun /\ w.ring # <<>>
           left == IF renders THEN Tail(w.ring) ELSE w.ring
           drained == w.ended /\ begun /\ left = <<>>
<1>0. w \in Worklet /\ worklet \in [Node -> Worklet] /\ up \in [Node -> Seq(Nat)]
  BY DEF TypeOK
<1>1. /\ begun
      /\ worklet' = [worklet EXCEPT ![n].ring = left, ![n].started = begun /\ ~drained,
                                    ![n].ended = w.ended /\ ~drained]
      /\ heard' = IF renders THEN [heard EXCEPT ![Head(w.ring).stream] = @ + 1] ELSE heard
      /\ up' = IF drained THEN [up EXCEPT ![n] = Append(@, w.gen)] ELSE up
  <2>1. begun
    BY DEF Process
  <2>2. worklet' = [worklet EXCEPT ![n].ring = left, ![n].started = begun /\ ~drained,
                                   ![n].ended = w.ended /\ ~drained]
    BY DEF Process
  <2>3. heard' = IF renders THEN [heard EXCEPT ![Head(w.ring).stream] = @ + 1] ELSE heard
    BY DEF Process
  <2>4. up' = IF drained THEN [up EXCEPT ![n] = Append(@, w.gen)] ELSE up
    BY DEF Process
  <2> QED BY <2>1, <2>2, <2>3, <2>4
<1>2. /\ \/ w.ring # <<>> /\ renders /\ left = Tail(w.ring)
         \/ w.ring = <<>> /\ ~renders /\ left = <<>>
      /\ drained => w.ended /\ left = <<>>
  BY <1>1
<1>s. w # Silent(0)
  <2>1. Silent(0).ring = <<>> /\ ~Silent(0).started /\ ~Silent(0).ended /\ Len(<<>>) = 0
    BY DEF Silent
  <2>2. ~(0 >= Watermark)
    OBVIOUS
  <2>3. ASSUME w = Silent(0) PROVE ~begun
    <3>1. w.ring = <<>> /\ ~w.started /\ ~w.ended /\ ~(Len(w.ring) >= Watermark)
      BY <2>1, <2>2, <2>3
    <3> QED BY <3>1
  <2> QED BY <1>1, <2>3
<1> HIDE DEF begun, renders, left, drained
<1>3. /\ worklet'[n].gen = w.gen /\ worklet'[n].ring = left
      /\ worklet'[n].ended = (w.ended /\ ~drained)
      /\ \A k \in Node \ {n} : worklet'[k] = worklet[k]
  BY <1>0, <1>1 DEF Worklet
<1>4. \A k \in Node \ {n} : up'[k] = up[k]
  BY <1>0, <1>1
<1>5. \/ worklet'[n].ended = w.ended /\ up'[n] = up[n]
      \/ w.ended /\ ~worklet'[n].ended /\ worklet'[n].ring = <<>> /\ up'[n] = Append(up[n], w.gen)
  <2>1. CASE drained
    BY <1>0, <1>1, <1>2, <1>3, <2>1
  <2>2. CASE ~drained
    <3>1. w.ended \in BOOLEAN
      BY <1>0 DEF Worklet
    <3> QED BY <1>1, <1>3, <2>2, <3>1
  <2> QED BY <2>1, <2>2
<1>6. \/ /\ w.ring # <<>> /\ worklet'[n].ring = Tail(w.ring)
         /\ heard' = [heard EXCEPT ![Head(w.ring).stream] = @ + 1]
      \/ w.ring = <<>> /\ worklet'[n].ring = <<>> /\ heard' = heard
  BY <1>1, <1>2, <1>3
<1> QED BY <1>3, <1>4, <1>5, <1>6, <1>s DEF Process, server, queue, backend

-----------------------------------------------------------------------------
(* Order.  Of the chunks on their way to the speaker - in the ring r, in   *)
(* the port d, in the pending list q - each comes before those behind it.  *)

SentYet(c, counts) == c.index <= counts[c.stream]

InOrder(r, d, q) ==
  /\ \A i, j \in DOMAIN r : i < j => Before(r[i], r[j])
  /\ \A i, j \in DOMAIN d : i < j /\ IsSamples(d[i]) /\ IsSamples(d[j]) =>
                              Before(d[i].chunk, d[j].chunk)
  /\ \A i, j \in DOMAIN q : i < j => Before(q[i], q[j])
  /\ \A i \in DOMAIN r, j \in DOMAIN d : IsSamples(d[j]) => Before(r[i], d[j].chunk)
  /\ \A i \in DOMAIN r, j \in DOMAIN q : Before(r[i], q[j])
  /\ \A i \in DOMAIN d, j \in DOMAIN q : IsSamples(d[i]) => Before(d[i].chunk, q[j])

AllSent(r, d, q, counts) ==
  /\ \A i \in DOMAIN r : SentYet(r[i], counts)
  /\ \A i \in DOMAIN d : IsSamples(d[i]) => SentYet(d[i].chunk, counts)
  /\ \A i \in DOMAIN q : SentYet(q[i], counts)

Kept(r, d, q, counts) == InOrder(r, d, q) /\ AllSent(r, d, q, counts)

LEMMA KeptLess ==
  ASSUME NEW r \in Seq(Chunk), NEW d \in Seq(Message), NEW q \in Seq(Chunk), NEW counts,
         Kept(r, d, q, counts)
  PROVE  /\ Kept(<<>>, d, q, counts) /\ Kept(r, d, <<>>, counts) /\ Kept(<<>>, <<>>, q, counts)
         /\ r # <<>> => Kept(Tail(r), d, q, counts)
         /\ d # <<>> => Kept(r, Tail(d), q, counts)
         /\ q # <<>> => Kept(r, d, Tail(q), counts)
<1>0. DOMAIN <<>> = {}
  OBVIOUS
<1>1. Kept(<<>>, d, q, counts)
  BY <1>0 DEF Kept, InOrder, AllSent
<1>2. Kept(r, d, <<>>, counts)
  BY <1>0 DEF Kept, InOrder, AllSent
<1>3. Kept(<<>>, <<>>, q, counts)
  BY <1>0 DEF Kept, InOrder, AllSent
<1>t. ASSUME NEW S, NEW u \in Seq(S), u # <<>>
      PROVE  \A i \in DOMAIN Tail(u) : /\ i \in Nat /\ i + 1 \in DOMAIN u
                                       /\ Tail(u)[i] = u[i + 1]
  <2>1. /\ DOMAIN u = 1 .. Len(u) /\ DOMAIN Tail(u) = 1 .. Len(u) - 1 /\ Len(u) \in Nat
        /\ \A i \in 1 .. Len(u) - 1 : Tail(u)[i] = u[i + 1]
    BY <1>t, HeadTyped
  <2> QED BY <2>1
<1>4. ASSUME r # <<>> PROVE Kept(Tail(r), d, q, counts)
  <2>1. \A i \in DOMAIN Tail(r) : i \in Nat /\ i + 1 \in DOMAIN r /\ Tail(r)[i] = r[i + 1]
    BY <1>4, <1>t
  <2>2. \A i, j \in DOMAIN Tail(r) : i < j => i + 1 < j + 1
    BY <2>1
  <2> QED BY <2>1, <2>2 DEF Kept, InOrder, AllSent
<1>5. ASSUME d # <<>> PROVE Kept(r, Tail(d), q, counts)
  <2>1. \A i \in DOMAIN Tail(d) : i \in Nat /\ i + 1 \in DOMAIN d /\ Tail(d)[i] = d[i + 1]
    BY <1>5, <1>t
  <2>2. \A i, j \in DOMAIN Tail(d) : i < j => i + 1 < j + 1
    BY <2>1
  <2> QED BY <2>1, <2>2 DEF Kept, InOrder, AllSent
<1>6. ASSUME q # <<>> PROVE Kept(r, d, Tail(q), counts)
  <2>1. \A i \in DOMAIN Tail(q) : i \in Nat /\ i + 1 \in DOMAIN q /\ Tail(q)[i] = q[i + 1]
    BY <1>6, <1>t
  <2>2. \A i, j \in DOMAIN Tail(q) : i < j => i + 1 < j + 1
    BY <2>1
  <2> QED BY <2>1, <2>2 DEF Kept, InOrder, AllSent
<1> QED BY <1>1, <1>2, <1>3, <1>4, <1>5, <1>6

(* The first message of the port is written to the ring.                   *)
LEMMA KeptWritten ==
  ASSUME NEW r \in Seq(Chunk), NEW d \in Seq(Message), NEW q \in Seq(Chunk), NEW counts,
         Kept(r, d, q, counts), d # <<>>, IsSamples(Head(d))
  PROVE  Kept(Append(r, Head(d).chunk), Tail(d), q, counts)
<1> DEFINE c == Head(d).chunk
           s == Append(r, c)
<1>0. Head(d) \in Message /\ c \in Chunk /\ Head(d) = d[1]
  BY HeadTyped, MessagesTyped
<1>1. /\ DOMAIN d = 1 .. Len(d) /\ Len(d) \in Nat \ {0} /\ DOMAIN Tail(d) = 1 .. Len(d) - 1
      /\ \A i \in 1 .. Len(d) - 1 : Tail(d)[i] = d[i + 1]
  BY HeadTyped
<1>2. /\ DOMAIN r = 1 .. Len(r) /\ Len(r) \in Nat /\ DOMAIN s = 1 .. Len(r) + 1
      /\ s[Len(r) + 1] = c /\ \A i \in 1 .. Len(r) : s[i] = r[i]
  BY <1>0, AppendTyped
<1>3. Kept(r, Tail(d), q, counts)
  BY KeptLess
<1> HIDE DEF s
<1>4. \A i \in DOMAIN s : \/ i \in DOMAIN r /\ s[i] = r[i]
                          \/ i = Len(r) + 1 /\ s[i] = c
  BY <1>2
<1>5. \A i \in DOMAIN r : Before(r[i], c)
  BY <1>0, <1>1 DEF Kept, InOrder
<1>6. \A j \in DOMAIN q : Before(c, q[j])
  BY <1>0, <1>1 DEF Kept, InOrder
<1>7. \A j \in DOMAIN Tail(d) : IsSamples(Tail(d)[j]) => Before(c, Tail(d)[j].chunk)
  <2> SUFFICES ASSUME NEW j \in 1 .. Len(d) - 1, IsSamples(d[j + 1])
               PROVE  Before(c, d[j + 1].chunk)
    BY <1>1
  <2>1. 1 \in DOMAIN d /\ j + 1 \in DOMAIN d /\ 1 < j + 1
    BY <1>1
  <2> QED BY <1>0, <2>1 DEF Kept, InOrder
<1>8. SentYet(c, counts)
  BY <1>0, <1>1 DEF Kept, AllSent
<1>9. \A i, j \in DOMAIN s : i < j => i \in DOMAIN r /\ s[i] = r[i]
  BY <1>2, <1>4
<1>10. InOrder(s, Tail(d), q)
  BY <1>3, <1>4, <1>5, <1>6, <1>7, <1>9 DEF Kept, InOrder
<1>11. AllSent(s, Tail(d), q, counts)
  BY <1>3, <1>4, <1>8 DEF Kept, AllSent
<1> QED BY <1>10, <1>11 DEF Kept, s

(* A chunk that has just been sent goes to the end.                        *)
New(c, counts) == c.index > counts[c.stream]

LEMMA NewIsLast ==
  ASSUME NEW counts \in [Stream -> Int], NEW b \in Chunk, NEW c \in Chunk,
         SentYet(b, counts), New(c, counts)
  PROVE  Before(b, c)
BY DEF SentYet, New, Before, Chunk

LEMMA KeptPending ==
  ASSUME NEW r \in Seq(Chunk), NEW d \in Seq(Message), NEW q \in Seq(Chunk),
         NEW counts \in [Stream -> Int], Kept(r, d, q, counts),
         NEW c \in Chunk, New(c, counts)
  PROVE  InOrder(r, d, Append(q, c))
<1> DEFINE s == Append(q, c)
<1>2. /\ DOMAIN q = 1 .. Len(q) /\ Len(q) \in Nat /\ DOMAIN s = 1 .. Len(q) + 1
      /\ s[Len(q) + 1] = c /\ \A i \in 1 .. Len(q) : s[i] = q[i]
  BY AppendTyped
<1> HIDE DEF s
<1>4. \A i \in DOMAIN s : \/ i \in DOMAIN q /\ s[i] = q[i]
                          \/ i = Len(q) + 1 /\ s[i] = c
  BY <1>2
<1>5. \A i \in DOMAIN r : Before(r[i], c)
  BY NewIsLast DEF Kept, AllSent
<1>6. \A i \in DOMAIN d : IsSamples(d[i]) => Before(d[i].chunk, c)
  <2>1. \A i \in DOMAIN d : IsSamples(d[i]) => d[i].chunk \in Chunk
    BY MessagesTyped
  <2> QED BY <2>1, NewIsLast DEF Kept, AllSent
<1>7. \A i \in DOMAIN q : Before(q[i], c)
  BY NewIsLast DEF Kept, AllSent
<1>8. \A i, j \in DOMAIN s : i < j => i \in DOMAIN q /\ s[i] = q[i]
  BY <1>2, <1>4
<1>9. InOrder(r, d, s)
  BY <1>4, <1>5, <1>6, <1>7, <1>8 DEF Kept, InOrder
<1> QED BY <1>9 DEF s

LEMMA KeptPosted ==
  ASSUME NEW r \in Seq(Chunk), NEW d \in Seq(Message),
         NEW counts \in [Stream -> Int], Kept(r, d, <<>>, counts),
         NEW m \in Message, IsSamples(m) => New(m.chunk, counts)
  PROVE  InOrder(r, d \o <<m>>, <<>>)
<1> DEFINE s == d \o <<m>>
<1>0. <<m>> \in Seq(Message) /\ Len(<<m>>) = 1 /\ <<m>>[1] = m
  OBVIOUS
<1>2. /\ DOMAIN d = 1 .. Len(d) /\ Len(d) \in Nat /\ DOMAIN s = 1 .. Len(d) + 1
      /\ s[Len(d) + 1] = m /\ \A i \in 1 .. Len(d) : s[i] = d[i]
  BY <1>0, ConcatTyped
<1> HIDE DEF s
<1>4. \A i \in DOMAIN s : \/ i \in DOMAIN d /\ s[i] = d[i]
                          \/ i = Len(d) + 1 /\ s[i] = m
  BY <1>2
<1>m. IsSamples(m) => m.chunk \in Chunk
  BY MessagesTyped
<1>5. IsSamples(m) => \A i \in DOMAIN r : Before(r[i], m.chunk)
  BY <1>m, NewIsLast DEF Kept, AllSent
<1>6. IsSamples(m) => \A i \in DOMAIN d : IsSamples(d[i]) => Before(d[i].chunk, m.chunk)
  <2>1. \A i \in DOMAIN d : IsSamples(d[i]) => d[i].chunk \in Chunk
    BY MessagesTyped
  <2> QED BY <1>m, <2>1, NewIsLast DEF Kept, AllSent
<1>8. \A i, j \in DOMAIN s : i < j => i \in DOMAIN d /\ s[i] = d[i]
  BY <1>2, <1>4
<1>7. InOrder(r, d, <<>>)
  BY DEF Kept
<1>9. \A i, j \in DOMAIN s : i < j /\ IsSamples(s[i]) /\ IsSamples(s[j]) =>
                             Before(s[i].chunk, s[j].chunk)
  BY <1>4, <1>6, <1>7, <1>8 DEF InOrder
<1>10. \A i \in DOMAIN r, j \in DOMAIN s : IsSamples(s[j]) => Before(r[i], s[j].chunk)
  BY <1>4, <1>5, <1>7 DEF InOrder
<1>11. DOMAIN <<>> = {}
  OBVIOUS
<1>12. InOrder(r, s, <<>>)
  BY <1>7, <1>9, <1>10, <1>11 DEF InOrder
<1> QED BY <1>12 DEF s

(* Without a node nothing is on the way but what is pending.               *)
Ring == IF node = NoNode THEN <<>> ELSE worklet[node].ring
Port == IF node = NoNode THEN <<>> ELSE down[node]

OrderInv ==
  /\ node <= created
  /\ \A n \in Node : n > created => worklet[n] = Silent(0) /\ down[n] = <<>>
  /\ ready => pending = <<>>
  /\ Kept(Ring, Port, pending, sent)

LEMMA WayTyped ==
  ASSUME TypeOK
  PROVE  /\ Ring \in Seq(Chunk) /\ Port \in Seq(Message) /\ pending \in Seq(Chunk)
         /\ sent \in [Stream -> Int]
         /\ node # NoNode => node \in Node
BY DEF TypeOK, Ring, Port, Worklet

LEMMA PostEffect ==
  ASSUME TypeOK, NEW ms, PostAll(ms)
  PROVE  /\ node = NoNode => down' = down
         /\ node # NoNode => down'[node] = down[node] \o ms
         /\ \A n \in Node : n # node => down'[n] = down[n]
BY DEF PostAll, TypeOK

(* The port once prepare() has resolved: the old messages, configure, the  *)
(* chunks that were pending, and perhaps the end.                          *)
LEMMA BacklogEffect ==
  ASSUME TypeOK, NEW d \in Seq(Message)
  PROVE  LET s == d \o (<<Configure(generation)>> \o Backlog) IN
         /\ s \in Seq(Message) /\ Len(d) \in Nat /\ Len(pending) \in Nat
         /\ DOMAIN s = 1 .. Len(s) /\ DOMAIN d = 1 .. Len(d) /\ DOMAIN pending = 1 .. Len(pending)
         /\ Len(s) = Len(d) + 1 + Len(pending) + Ends
         /\ \A i \in 1 .. Len(d) : s[i] = d[i]
         /\ s[Len(d) + 1] = Configure(generation)
         /\ \A k \in 1 .. Len(pending) : s[Len(d) + 1 + k] = Samples(generation, pending[k])
         /\ Ends = 1 => s[Len(d) + 1 + Len(pending) + 1] = End(generation)
         /\ Ends \in {0, 1} /\ (Ends = 1) = endRequested
<1> DEFINE c == <<Configure(generation)>>
           ms == c \o Backlog
           s == d \o ms
<1>1. c \in Seq(Message) /\ Len(c) = 1 /\ c[1] = Configure(generation)
  BY MessagesTyped DEF TypeOK
<1>2. /\ Backlog \in Seq(Message) /\ Len(pending) \in Nat
      /\ Len(Backlog) = Len(pending) + Ends /\ Ends \in {0, 1} /\ (Ends = 1) = endRequested
      /\ \A i \in 1 .. Len(pending) : Backlog[i] = Samples(generation, pending[i])
      /\ Ends = 1 => Backlog[Len(pending) + 1] = End(generation)
      /\ DOMAIN pending = 1 .. Len(pending)
  BY BacklogTyped
<1> HIDE DEF c
<1>3. /\ ms \in Seq(Message) /\ Len(ms) = 1 + Len(Backlog) /\ ms[1] = Configure(generation)
      /\ \A i \in 1 .. Len(Backlog) : ms[1 + i] = Backlog[i]
  <2>0. c \in Seq(Message) /\ Backlog \in Seq(Message)
    BY <1>1, <1>2
  <2>1. /\ ms \in Seq(Message) /\ Len(ms) = Len(c) + Len(Backlog)
        /\ \A i \in 1 .. Len(c) : ms[i] = c[i]
        /\ \A i \in 1 .. Len(Backlog) : ms[Len(c) + i] = Backlog[i]
    BY ONLY <2>0, ConcatTyped
  <2> QED BY <1>1, <2>1
<1> HIDE DEF ms
<1>4. /\ s \in Seq(Message) /\ Len(s) = Len(d) + Len(ms) /\ Len(d) \in Nat
      /\ DOMAIN d = 1 .. Len(d) /\ DOMAIN s = 1 .. Len(d) + Len(ms)
      /\ \A i \in 1 .. Len(d) : s[i] = d[i]
      /\ \A i \in 1 .. Len(ms) : s[Len(d) + i] = ms[i]
  <2>0. d \in Seq(Message) /\ ms \in Seq(Message)
    BY <1>3
  <2> QED BY ONLY <2>0, ConcatTyped
<1> HIDE DEF s
<1>n. /\ Len(Backlog) \in Nat /\ Len(ms) \in Nat /\ Len(ms) >= 1
      /\ Len(pending) <= Len(Backlog)
  BY <1>2, <1>3
<1>5. s[Len(d) + 1] = Configure(generation)
  <2>1. 1 \in 1 .. Len(ms)
    BY <1>n
  <2> QED BY <1>3, <1>4, <2>1
<1>6. \A k \in 1 .. Len(Backlog) : s[Len(d) + 1 + k] = Backlog[k]
  <2> SUFFICES ASSUME NEW k \in 1 .. Len(Backlog) PROVE s[Len(d) + 1 + k] = Backlog[k]
    OBVIOUS
  <2>1. 1 + k \in 1 .. Len(ms) /\ Len(d) + (1 + k) = Len(d) + 1 + k
    BY <1>3, <1>4, <1>n
  <2>2. s[Len(d) + (1 + k)] = ms[1 + k]
    BY <1>4, <2>1
  <2> QED BY <1>3, <2>1, <2>2
<1>7. \A k \in 1 .. Len(pending) : s[Len(d) + 1 + k] = Samples(generation, pending[k])
  <2> SUFFICES ASSUME NEW k \in 1 .. Len(pending)
               PROVE  s[Len(d) + 1 + k] = Samples(generation, pending[k])
    OBVIOUS
  <2>1. k \in 1 .. Len(Backlog)
    BY <1>2, <1>n
  <2> QED BY <1>2, <1>6, <2>1
<1>8. Ends = 1 => s[Len(d) + 1 + Len(pending) + 1] = End(generation)
  <2> SUFFICES ASSUME Ends = 1 PROVE s[Len(d) + 1 + Len(pending) + 1] = End(generation)
    OBVIOUS
  <2>1. Len(pending) + 1 \in 1 .. Len(Backlog)
    BY <1>2
  <2>2. s[Len(d) + 1 + (Len(pending) + 1)] = Backlog[Len(pending) + 1]
    BY <1>6, <2>1
  <2>3. Len(d) + 1 + (Len(pending) + 1) = Len(d) + 1 + Len(pending) + 1
    BY <1>2, <1>4
  <2> QED BY <1>2, <2>2, <2>3
<1>9. Len(s) = Len(d) + 1 + Len(pending) + Ends /\ DOMAIN s = 1 .. Len(s)
  BY <1>2, <1>3, <1>4
<1> QED BY <1>2, <1>4, <1>5, <1>7, <1>8, <1>9 DEF s, ms, c

LEMMA KeptBacklog ==
  ASSUME TypeOK, NEW r \in Seq(Chunk), NEW d \in Seq(Message), NEW counts,
         Kept(r, d, pending, counts)
  PROVE  Kept(r, d \o (<<Configure(generation)>> \o Backlog), <<>>, counts)
<1> DEFINE s == d \o (<<Configure(generation)>> \o Backlog)
<1>1. /\ Len(d) \in Nat /\ Len(pending) \in Nat
      /\ DOMAIN s = 1 .. Len(s) /\ DOMAIN d = 1 .. Len(d) /\ DOMAIN pending = 1 .. Len(pending)
      /\ Len(s) = Len(d) + 1 + Len(pending) + Ends /\ Ends \in {0, 1}
      /\ \A i \in 1 .. Len(d) : s[i] = d[i]
      /\ s[Len(d) + 1] = Configure(generation)
      /\ \A k \in 1 .. Len(pending) : s[Len(d) + 1 + k] = Samples(generation, pending[k])
      /\ Ends = 1 => s[Len(d) + 1 + Len(pending) + 1] = End(generation)
  BY BacklogEffect
<1> HIDE DEF s
<1> DEFINE old(i) == i \in DOMAIN d /\ s[i] = d[i]
           added(i) == /\ i - Len(d) - 1 \in DOMAIN pending
                       /\ s[i].chunk = pending[i - Len(d) - 1]
<1>n. \A i \in DOMAIN s : /\ i \in Nat /\ i >= 1 /\ Len(d) \in Nat /\ Len(pending) \in Nat
                          /\ i <= Len(d) + 1 + Len(pending) + Ends /\ Ends \in {0, 1}
  BY <1>1
<1>2. \A i \in DOMAIN s : IsSamples(s[i]) => old(i) \/ added(i)
  <2> SUFFICES ASSUME NEW i \in DOMAIN s, IsSamples(s[i]) PROVE old(i) \/ added(i)
    OBVIOUS
  <2>1. CASE i <= Len(d)
    BY <1>1, <2>1
  <2>2. CASE i = Len(d) + 1
    BY <1>1, <2>2, MessageFields DEF IsSamples
  <2>3. CASE i > Len(d) + 1 /\ i <= Len(d) + 1 + Len(pending)
    <3>1. PICK k \in 1 .. Len(pending) : i = Len(d) + 1 + k
      <4>1. \A a, b, c \in Nat : a > b + 1 /\ a <= b + 1 + c =>
                                 a - b - 1 \in 1 .. c /\ a = b + 1 + (a - b - 1)
        OBVIOUS
      <4>2. i \in Nat /\ Len(d) \in Nat /\ Len(pending) \in Nat
        BY <1>n
      <4>3. i - Len(d) - 1 \in 1 .. Len(pending) /\ i = Len(d) + 1 + (i - Len(d) - 1)
        BY <2>3, <4>1, <4>2
      <4> QED BY <4>3
    <3>2. s[i] = Samples(generation, pending[k])
      BY <1>1, <3>1
    <3>3. i - Len(d) - 1 = k
      BY <1>1, <3>1
    <3> QED BY <1>1, <3>2, <3>3, MessageFields
  <2>4. CASE i > Len(d) + 1 + Len(pending)
    <3>1. Ends = 1 /\ i = Len(d) + 1 + Len(pending) + 1
      BY <1>n, <2>4
    <3> QED BY <1>1, <3>1, MessageFields DEF IsSamples
  <2> QED BY <1>1, <2>1, <2>2, <2>3, <2>4
<1>3. \A i, j \in DOMAIN s : i < j /\ added(i) /\ old(j) => FALSE
  BY <1>1
<1>4. \A i, j \in DOMAIN s : i < j => i - Len(d) - 1 < j - Len(d) - 1
  BY <1>1
<1>5. ASSUME NEW i \in DOMAIN s, NEW j \in DOMAIN s, i < j, IsSamples(s[i]), IsSamples(s[j])
      PROVE  Before(s[i].chunk, s[j].chunk)
  <2>1. CASE old(i) /\ old(j)
    BY <1>5, <2>1 DEF Kept, InOrder
  <2>2. CASE old(i) /\ added(j)
    BY <1>5, <2>2 DEF Kept, InOrder
  <2>3. CASE added(i) /\ added(j)
    BY <1>4, <1>5, <2>3 DEF Kept, InOrder
  <2> QED BY <1>2, <1>3, <1>5, <2>1, <2>2, <2>3
<1>6. \A i \in DOMAIN r, j \in DOMAIN s : IsSamples(s[j]) => Before(r[i], s[j].chunk)
  BY <1>2 DEF Kept, InOrder
<1>7. \A j \in DOMAIN s : IsSamples(s[j]) => SentYet(s[j].chunk, counts)
  BY <1>2 DEF Kept, AllSent
<1>8. DOMAIN <<>> = {}
  OBVIOUS
<1>9. InOrder(r, s, <<>>)
  BY <1>5, <1>6, <1>8 DEF Kept, InOrder
<1>10. AllSent(r, s, <<>>, counts)
  BY <1>7, <1>8 DEF Kept, AllSent
<1> QED BY <1>9, <1>10 DEF Kept, s

(* More has been sent than before.                                         *)
More(counts, counts2) == \A s \in Stream : counts[s] <= counts2[s]

LEMMA KeptMore ==
  ASSUME NEW r \in Seq(Chunk), NEW d \in Seq(Message), NEW q \in Seq(Chunk),
         NEW counts \in [Stream -> Int], NEW counts2 \in [Stream -> Int],
         Kept(r, d, q, counts), More(counts, counts2)
  PROVE  Kept(r, d, q, counts2)
<1>1. \A c \in Chunk : SentYet(c, counts) => SentYet(c, counts2)
  BY DEF SentYet, More, Chunk
<1>2. \A i \in DOMAIN d : IsSamples(d[i]) => d[i].chunk \in Chunk
  BY MessagesTyped
<1> QED BY <1>1, <1>2 DEF Kept, AllSent

LEMMA KeptAfterPost ==
  ASSUME NEW r \in Seq(Chunk), NEW d \in Seq(Message),
         NEW counts \in [Stream -> Int], NEW counts2 \in [Stream -> Int],
         Kept(r, d, <<>>, counts), More(counts, counts2), NEW m \in Message,
         IsSamples(m) => New(m.chunk, counts) /\ SentYet(m.chunk, counts2)
  PROVE  Kept(r, d \o <<m>>, <<>>, counts2)
<1>1. InOrder(r, d \o <<m>>, <<>>)
  BY KeptPosted
<1>2. AllSent(r, d, <<>>, counts2)
  <2>1. <<>> \in Seq(Chunk)
    OBVIOUS
  <2> QED BY <2>1, KeptMore DEF Kept
<1>3. \A i \in DOMAIN (d \o <<m>>) : \/ i \in DOMAIN d /\ (d \o <<m>>)[i] = d[i]
                                   \/ (d \o <<m>>)[i] = m
  <2> DEFINE s == d \o <<m>>
  <2>0. <<m>> \in Seq(Message) /\ Len(<<m>>) = 1 /\ <<m>>[1] = m
    OBVIOUS
  <2>1. /\ DOMAIN d = 1 .. Len(d) /\ Len(d) \in Nat /\ DOMAIN s = 1 .. Len(d) + 1
        /\ s[Len(d) + 1] = m /\ \A i \in 1 .. Len(d) : s[i] = d[i]
    BY <2>0, ConcatTyped
  <2> HIDE DEF s
  <2>2. \A i \in DOMAIN s : (i \in DOMAIN d /\ s[i] = d[i]) \/ s[i] = m
    BY <2>1
  <2> QED BY <2>2 DEF s
<1>4. AllSent(r, d \o <<m>>, <<>>, counts2)
  BY <1>2, <1>3 DEF AllSent
<1> QED BY <1>1, <1>4 DEF Kept

LEMMA KeptAfterPending ==
  ASSUME NEW r \in Seq(Chunk), NEW d \in Seq(Message), NEW q \in Seq(Chunk),
         NEW counts \in [Stream -> Int], NEW counts2 \in [Stream -> Int],
         Kept(r, d, q, counts), More(counts, counts2), NEW c \in Chunk,
         New(c, counts), SentYet(c, counts2)
  PROVE  Kept(r, d, Append(q, c), counts2)
<1>1. InOrder(r, d, Append(q, c))
  BY KeptPending
<1>2. AllSent(r, d, q, counts2)
  BY KeptMore DEF Kept
<1>3. \A i \in DOMAIN Append(q, c) : (i \in DOMAIN q /\ Append(q, c)[i] = q[i]) \/ Append(q, c)[i] = c
  <2> DEFINE s == Append(q, c)
  <2>1. /\ DOMAIN q = 1 .. Len(q) /\ Len(q) \in Nat /\ DOMAIN s = 1 .. Len(q) + 1
        /\ s[Len(q) + 1] = c /\ \A i \in 1 .. Len(q) : s[i] = q[i]
    BY AppendTyped
  <2> HIDE DEF s
  <2>2. \A i \in DOMAIN s : (i \in DOMAIN q /\ s[i] = q[i]) \/ s[i] = c
    BY <2>1
  <2> QED BY <2>2 DEF s
<1>4. AllSent(r, d, Append(q, c), counts2)
  BY <1>2, <1>3 DEF AllSent
<1> QED BY <1>1, <1>4 DEF Kept

(* One message is posted, and nothing is pending.                          *)
LEMMA OrderPost ==
  ASSUME TypeOK, TypeOK', OrderInv, Kept(Ring, Port, <<>>, sent), NEW m \in Message,
         PostAll(<<m>>), UNCHANGED <<node, created, worklet>>, pending' = <<>>,
         More(sent, sent'), IsSamples(m) => New(m.chunk, sent) /\ SentYet(m.chunk, sent')
  PROVE  OrderInv'
<1>i. sent' \in [Stream -> Int]
  <2>1. sent' \in [Stream -> -1 .. MaxChunks]
    BY DEF TypeOK
  <2> QED BY <2>1
<1>r. Ring' = Ring
  BY DEF Ring
<1>1. Ring' = Ring /\ Ring \in Seq(Chunk) /\ Port \in Seq(Message)
      /\ sent \in [Stream -> Int] /\ sent' \in [Stream -> Int]
  BY <1>i, <1>r, WayTyped
<1>2. \A n \in Node : n > created' => worklet'[n] = Silent(0) /\ down'[n] = <<>>
  <2>1. \A n \in Node : n > created => n # node
    BY DEF OrderInv, Node, NoNode, TypeOK
  <2> QED BY <2>1, PostEffect DEF OrderInv
<1>3. Kept(Ring', Port', <<>>, sent')
  <2>1. CASE node = NoNode
    <3>1. Port' = Port /\ <<>> \in Seq(Chunk)
      BY <2>1 DEF Port
    <3> QED BY <1>1, <3>1, KeptMore
  <2>2. CASE node # NoNode
    <3>1. Port' = Port \o <<m>>
      BY <2>2, PostEffect DEF Port
    <3> QED BY <1>1, <3>1, KeptAfterPost
  <2> QED BY <2>1, <2>2
<1> QED BY <1>2, <1>3 DEF OrderInv

(* Steps that do not touch the way of the chunks.                          *)
LEMMA OrderStays ==
  ASSUME OrderInv, UNCHANGED <<node, created, worklet, down, pending, sent>>,
         ready' => ready
  PROVE  OrderInv'
BY DEF OrderInv, Ring, Port

LEMMA OrderStop ==
  ASSUME TypeOK, TypeOK', OrderInv, Stop, UNCHANGED <<node, created, worklet, sent>>
  PROVE  OrderInv'
<1>g. generation + 1 \in Nat
  BY DEF TypeOK
<1>1. StopAt(generation + 1) \in Message /\ ~IsSamples(StopAt(generation + 1))
  BY <1>g, MessagesTyped, MessageFields DEF IsSamples
<1>2. Kept(Ring, Port, <<>>, sent) /\ More(sent, sent')
  BY WayTyped, KeptLess DEF OrderInv, More
<1> QED BY <1>1, <1>2, OrderPost DEF Stop, Clear

LEMMA StepOrder ==
  ASSUME TypeOK, TypeOK', OnAirBegun, OrderInv, [Next]_vars
  PROVE  OrderInv'
<1>w. /\ Ring \in Seq(Chunk) /\ Port \in Seq(Message) /\ pending \in Seq(Chunk)
      /\ sent \in [Stream -> Int] /\ sent' \in [Stream -> Int]
      /\ Kept(Ring, Port, pending, sent)
      /\ Kept(Ring, Port, <<>>, sent)
  <2>1. /\ Ring \in Seq(Chunk) /\ Port \in Seq(Message) /\ pending \in Seq(Chunk)
        /\ sent \in [Stream -> Int]
    BY WayTyped
  <2>2. sent' \in [Stream -> -1 .. MaxChunks]
    BY DEF TypeOK
  <2>3. Kept(Ring, Port, pending, sent)
    BY DEF OrderInv
  <2>4. Kept(Ring, Port, <<>>, sent)
    BY <2>1, <2>3, KeptLess
  <2> QED BY <2>1, <2>2, <2>3, <2>4
<1>g. generation \in Nat /\ generation + 1 \in Nat
  BY DEF TypeOK
<1>s. More(sent, sent) /\ (UNCHANGED sent => More(sent, sent'))
  BY <1>w DEF More
<1>1. CASE UNCHANGED vars
  BY <1>1, OrderStays DEF vars
<1>2. ASSUME NEW s \in Stream, TtsStart(s) PROVE OrderInv'
  <2>1. More(sent, sent')
    BY <1>2, <1>w DEF TtsStart, More
  <2>2. CASE UNCHANGED <<queue, prepares, down>>
    <3>1. Kept(Ring, Port, pending, sent')
      BY <1>w, <2>1, KeptMore
    <3> QED BY <1>2, <2>2, <3>1 DEF TtsStart, OrderInv, Ring, Port, queue
  <2>3. CASE activeStreamId = NoStream /\ PostAll(<<StopAt(generation + 1)>>) /\ pending' = <<>>
    <3>1. StopAt(generation + 1) \in Message /\ ~IsSamples(StopAt(generation + 1))
      BY <1>g, MessagesTyped, MessageFields DEF IsSamples
    <3> QED BY <1>2, <1>w, <2>1, <2>3, <3>1, OrderPost DEF TtsStart
  <2> QED BY <1>2, <2>2, <2>3 DEF TtsStart, StartStream
<1>3. ASSUME NEW s \in Stream, Binary(s) PROVE OrderInv'
  <2> DEFINE c == [stream |-> s, index |-> sent[s] + 1]
  <2>1. sent[s] \in Int /\ sent[s] + 1 \in 1 .. MaxChunks /\ sent' = [sent EXCEPT ![s] = @ + 1]
    BY <1>3 DEF Binary, TypeOK, OnAirBegun
  <2>2. c \in Chunk /\ New(c, sent) /\ SentYet(c, sent') /\ More(sent, sent')
    BY <1>w, <2>1 DEF Chunk, New, SentYet, More
  <2>3. EnqueueChunk(c) /\ UNCHANGED <<node, created, worklet>>
    BY <1>3 DEF Binary, backend
  <2> HIDE DEF c
  <2>4. CASE UNCHANGED <<queue, down>>
    <3>1. Kept(Ring, Port, pending, sent')
      BY <1>w, <2>2, KeptMore
    <3> QED BY <2>3, <2>4, <3>1 DEF OrderInv, Ring, Port, queue
  <2>5. CASE ready /\ PostAll(<<Samples(generation, c)>>) /\ UNCHANGED queue
    <3>1. Samples(generation, c) \in Message /\ Samples(generation, c).chunk = c
      BY <1>g, <2>2, MessagesTyped, MessageFields
    <3>2. pending' = <<>>
      BY <2>5 DEF OrderInv, queue
    <3> QED BY <1>w, <2>2, <2>3, <2>5, <3>1, <3>2, OrderPost
  <2>6. CASE ~ready /\ pending' = Append(pending, c) /\ UNCHANGED <<ready, down>>
    <3>1. Kept(Ring, Port, pending', sent')
      BY <1>w, <2>2, <2>6, KeptAfterPending
    <3> QED BY <2>3, <2>6, <3>1 DEF OrderInv, Ring, Port
  <2>7. CASE /\ ~ready /\ Len(pending) >= PendingLimit /\ pending' = Append(Tail(pending), c)
             /\ UNCHANGED <<ready, down>>
    <3>1. pending # <<>>
      BY <1>w, <2>7
    <3>2. Tail(pending) \in Seq(Chunk) /\ Kept(Ring, Port, Tail(pending), sent)
      BY <1>w, <3>1, KeptLess, HeadTyped
    <3>3. Kept(Ring, Port, pending', sent')
      BY <1>w, <2>2, <2>7, <3>2, KeptAfterPending
    <3> QED BY <2>3, <2>7, <3>3 DEF OrderInv, Ring, Port
  <2> QED BY <2>3, <2>4, <2>5, <2>6, <2>7 DEF EnqueueChunk
<1>4. ASSUME NEW s \in Stream, NEW outcome \in Outcome, TtsEnd(s, outcome) PROVE OrderInv'
  <2>0. UNCHANGED <<node, created, worklet, sent>>
    BY <1>4 DEF TtsEnd, backend
  <2>1. CASE UNCHANGED <<queue, down>>
    BY <2>0, <2>1, OrderStays DEF queue
  <2>2. CASE ready /\ PostAll(<<End(generation)>>) /\ UNCHANGED queue
    <3>1. End(generation) \in Message /\ ~IsSamples(End(generation))
      BY <1>g, MessagesTyped, MessageFields DEF IsSamples
    <3>2. pending' = <<>>
      BY <2>2 DEF OrderInv, queue
    <3> QED BY <1>w, <1>s, <2>0, <2>2, <3>1, <3>2, OrderPost
  <2>3. CASE UNCHANGED <<pending, ready, down>>
    BY <2>0, <2>3, OrderStays
  <2>4. CASE Stop
    BY <2>0, <2>4, OrderStop
  <2> QED BY <1>4, <2>1, <2>2, <2>3, <2>4 DEF TtsEnd, EndStream
<1>5. CASE Interrupt
  BY <1>5, OrderStop DEF Interrupt, backend, server
<1>6. CASE Gesture
  BY <1>6, OrderStays DEF Gesture, queue, server
<1>7. ASSUME NEW p \in prepares, Load(p) PROVE OrderInv'
  <2>1. /\ created' = created + 1 /\ node' = created + 1 /\ created \in Nat /\ node' \in Node
        /\ UNCHANGED <<worklet, down, pending, sent, ready>>
    BY <1>7 DEF Load, TypeOK, queue, server, Node
  <2>2. worklet[node'] = Silent(0) /\ down[node'] = <<>>
    BY <2>1 DEF OrderInv
  <2>3. Ring' = <<>> /\ Port' = <<>>
    BY <2>1, <2>2 DEF Ring, Port, Silent, Node, NoNode
  <2>4. Kept(<<>>, <<>>, pending, sent)
    BY <1>w, KeptLess
  <2>5. \A n \in Node : n > created' => n > created
    BY <2>1 DEF Node
  <2> QED BY <2>1, <2>3, <2>4, <2>5 DEF OrderInv
<1>8. ASSUME NEW p \in prepares, Prepared(p) PROVE OrderInv'
  <2>0. UNCHANGED <<node, created, worklet, sent>>
    BY <1>8 DEF Prepared, server
  <2>1. CASE UNCHANGED <<queue, down>>
    BY <2>0, <2>1, OrderStays DEF queue
  <2>2. CASE pending' = <<>> /\ PostAll(<<Configure(generation)>> \o Backlog)
    <3>1. Ring' = Ring
      BY <2>0 DEF Ring
    <3>2. Kept(Ring, Port', <<>>, sent)
      <4>1. CASE node = NoNode
        <5>1. Port' = Port
          BY <2>0, <4>1 DEF Port
        <5> QED BY <1>w, <5>1
      <4>2. CASE node # NoNode
        <5>1. Port' = Port \o (<<Configure(generation)>> \o Backlog)
          BY <2>0, <2>2, <4>2, PostEffect DEF Port
        <5> QED BY <1>w, <5>1, KeptBacklog
      <4> QED BY <4>1, <4>2
    <3>3. \A n \in Node : n > created => worklet[n] = Silent(0) /\ down'[n] = <<>>
      <4>1. \A n \in Node : n > created => n # node
        BY DEF OrderInv, Node, NoNode, TypeOK
      <4> QED BY <2>2, <4>1, PostEffect DEF OrderInv
    <3> QED BY <2>0, <2>2, <3>1, <3>2, <3>3 DEF OrderInv
  <2> QED BY <1>8, <2>1, <2>2 DEF Prepared
<1>9. ASSUME NEW p \in prepares, PrepareFails(p) PROVE OrderInv'
  <2>0. UNCHANGED <<node, created, worklet, sent>>
    BY <1>9 DEF PrepareFails, server
  <2> QED BY <1>9, <2>0, OrderStop, OrderStays DEF PrepareFails, queue
<1>10. ASSUME NEW n \in Node, OnPort(n) PROVE OrderInv'
  <2> DEFINE m == Head(down[n])
  <2>1. /\ m \in Message /\ down[n] # <<>> /\ down'[n] = Tail(down[n])
        /\ \A k \in Node \ {n} : worklet'[k] = worklet[k] /\ down'[k] = down[k]
        /\ \/ worklet'[n] = Silent(m.gen)
           \/ IsSamples(m) /\ worklet'[n].ring = Append(worklet[n].ring, m.chunk)
           \/ worklet'[n].ring = worklet[n].ring
        /\ UNCHANGED <<sent, pending, ready, node, created>>
    BY <1>10, PortEffect
  <2>2. \A k \in Node : k > created' => worklet'[k] = Silent(0) /\ down'[k] = <<>>
    BY <2>1 DEF OrderInv
  <2>3. CASE n # node
    <3>1. Ring' = Ring /\ Port' = Port
      BY <2>1, <2>3, WayTyped DEF Ring, Port
    <3> QED BY <2>1, <2>2, <3>1 DEF OrderInv
  <2>4. CASE n = node
    <3>0. node # NoNode
      BY <2>4 DEF Node, NoNode
    <3>1. Port = down[n] /\ Port' = Tail(Port) /\ Ring = worklet[n].ring /\ Ring' = worklet'[n].ring
          /\ Port # <<>>
      BY <2>1, <2>4, <3>0 DEF Ring, Port
    <3>2. Kept(Ring, Tail(Port), pending, sent) /\ Tail(Port) \in Seq(Message)
      BY <1>w, <3>1, KeptLess, HeadTyped
    <3>3. CASE worklet'[n] = Silent(m.gen)
      <4>1. Ring' = <<>>
        BY <3>1, <3>3 DEF Silent
      <4>2. Kept(<<>>, Tail(Port), pending, sent)
        BY <1>w, <3>2, KeptLess
      <4> QED BY <2>1, <2>2, <3>1, <4>1, <4>2 DEF OrderInv
    <3>4. CASE IsSamples(m) /\ worklet'[n].ring = Append(worklet[n].ring, m.chunk)
      <4>1. Kept(Append(Ring, Head(Port).chunk), Tail(Port), pending, sent)
        BY <1>w, <3>1, <3>4, KeptWritten
      <4>2. Ring' = Append(Ring, Head(Port).chunk)
        BY <3>1, <3>4
      <4> QED BY <2>1, <2>2, <3>1, <4>1, <4>2 DEF OrderInv
    <3>5. CASE worklet'[n].ring = worklet[n].ring
      BY <2>1, <2>2, <3>1, <3>2, <3>5 DEF OrderInv
    <3> QED BY <2>1, <3>3, <3>4, <3>5
  <2> QED BY <2>3, <2>4
<1>11. ASSUME NEW n \in Node, Process(n) PROVE OrderInv'
  <2>1. /\ \A k \in Node \ {n} : worklet'[k] = worklet[k]
        /\ worklet[n] # Silent(0)
        /\ \/ worklet[n].ring # <<>> /\ worklet'[n].ring = Tail(worklet[n].ring)
           \/ worklet[n].ring = <<>> /\ worklet'[n].ring = <<>>
        /\ UNCHANGED <<sent, pending, ready, node, created, down>>
    BY <1>11, ProcessEffect
  <2>2. \A k \in Node : k > created' => worklet'[k] = Silent(0) /\ down'[k] = <<>>
    BY <2>1 DEF OrderInv
  <2>3. Port' = Port
    BY <2>1 DEF Port
  <2>4. Ring' = Ring \/ (Ring # <<>> /\ Ring' = Tail(Ring))
    <3>1. CASE n = node
      BY <2>1, <3>1 DEF Ring
    <3>2. CASE n # node
      BY <2>1, <3>2, WayTyped DEF Ring
    <3> QED BY <3>1, <3>2
  <2>5. Kept(Ring', Port, pending, sent)
    BY <1>w, <2>4, KeptLess
  <2> QED BY <2>1, <2>2, <2>3, <2>5 DEF OrderInv
<1>12. ASSUME NEW n \in Node, OnWorkletMessage(n) PROVE OrderInv'
  <2>1. UNCHANGED <<node, created, worklet, down, pending, sent>> /\ (ready' => ready)
    BY <1>12 DEF OnWorkletMessage, Drained, server, backend, queue
  <2> QED BY <2>1, OrderStays
<1> QED
  BY <1>1, <1>2, <1>3, <1>4, <1>5, <1>6, <1>7, <1>8, <1>9, <1>10, <1>11, <1>12
  DEF Next, Settle, Outcome

LEMMA InitOrder == Init => OrderInv
<1> SUFFICES ASSUME Init PROVE OrderInv
  OBVIOUS
<1>1. Ring = <<>> /\ Port = <<>> /\ pending = <<>> /\ DOMAIN <<>> = {}
  BY DEF Init, Ring, Port, Silent, Node
<1>2. Kept(<<>>, <<>>, <<>>, sent)
  BY <1>1 DEF Kept, InOrder, AllSent
<1>3. node <= created
  BY DEF Init, NoNode
<1> QED BY <1>1, <1>2, <1>3 DEF Init, OrderInv

(* Where an element of three sequences in a row comes from.                *)
LEMMA ThreeInARow ==
  ASSUME NEW S, NEW a \in Seq(S), NEW d \in Seq(S), NEW b \in Seq(S)
  PROVE  \A i \in DOMAIN ((a \o d) \o b) :
           \/ i \in 1 .. Len(a) /\ ((a \o d) \o b)[i] = a[i]
           \/ /\ i - Len(a) \in 1 .. Len(d)
              /\ ((a \o d) \o b)[i] = d[i - Len(a)]
           \/ /\ i - Len(a) - Len(d) \in 1 .. Len(b)
              /\ ((a \o d) \o b)[i] = b[i - Len(a) - Len(d)]
<1> DEFINE ad == a \o d
           s == ad \o b
<1>1. /\ ad \in Seq(S) /\ Len(a) \in Nat /\ Len(d) \in Nat /\ Len(ad) = Len(a) + Len(d)
      /\ \A i \in 1 .. Len(a) : ad[i] = a[i]
      /\ \A i \in 1 .. Len(d) : ad[Len(a) + i] = d[i]
  BY ONLY a \in Seq(S), d \in Seq(S), ConcatTyped
<1> HIDE DEF ad
<1>t. ad \in Seq(S) /\ b \in Seq(S)
  BY <1>1
<1>2. /\ Len(b) \in Nat /\ DOMAIN s = 1 .. Len(ad) + Len(b)
      /\ \A i \in 1 .. Len(ad) : s[i] = ad[i]
      /\ \A i \in 1 .. Len(b) : s[Len(ad) + i] = b[i]
  BY ONLY <1>t, ConcatTyped
<1> HIDE DEF s
<1> SUFFICES ASSUME NEW i \in DOMAIN s
             PROVE  \/ i \in 1 .. Len(a) /\ s[i] = a[i]
                    \/ i - Len(a) \in 1 .. Len(d) /\ s[i] = d[i - Len(a)]
                    \/ i - Len(a) - Len(d) \in 1 .. Len(b) /\ s[i] = b[i - Len(a) - Len(d)]
  BY DEF s, ad
<1>3. i \in Nat /\ i >= 1 /\ i <= Len(a) + Len(d) + Len(b)
  BY <1>1, <1>2
<1>4. CASE i <= Len(a)
  <2>1. i \in 1 .. Len(a) /\ i \in 1 .. Len(ad)
    BY <1>1, <1>3, <1>4
  <2> QED BY <1>1, <1>2, <2>1
<1>5. CASE i > Len(a) /\ i <= Len(a) + Len(d)
  <2>1. i - Len(a) \in 1 .. Len(d) /\ i \in 1 .. Len(ad) /\ Len(a) + (i - Len(a)) = i
    BY <1>1, <1>3, <1>5
  <2>2. ad[Len(a) + (i - Len(a))] = d[i - Len(a)]
    BY <1>1, <2>1
  <2> QED BY <1>2, <2>1, <2>2
<1>6. CASE i > Len(a) + Len(d)
  <2>1. i - Len(a) - Len(d) \in 1 .. Len(b) /\ Len(ad) + (i - Len(a) - Len(d)) = i
    BY <1>1, <1>2, <1>3, <1>6
  <2>2. s[Len(ad) + (i - Len(a) - Len(d))] = b[i - Len(a) - Len(d)]
    BY <1>2, <2>1
  <2> QED BY <2>1, <2>2
<1> QED BY <1>1, <1>3, <1>4, <1>5, <1>6

LEMMA WayInOrder == TypeOK /\ OrderInv => OrderKept
<1> SUFFICES ASSUME TypeOK, OrderInv PROVE OrderKept
  OBVIOUS
<1> DEFINE sampled(q) == [i \in DOMAIN q |-> Samples(generation, q[i])]
<1>1. ASSUME NEW q \in Seq(Chunk)
      PROVE  /\ sampled(q) \in Seq(Message) /\ Len(sampled(q)) = Len(q)
             /\ DOMAIN q = 1 .. Len(q) /\ DOMAIN sampled(q) = 1 .. Len(q)
             /\ \A i \in 1 .. Len(q) : sampled(q)[i].chunk = q[i]
  <2>1. Len(q) \in Nat /\ DOMAIN q = 1 .. Len(q) /\ \A i \in 1 .. Len(q) : q[i] \in Chunk
    BY <1>1
  <2>2. \A i \in 1 .. Len(q) : Samples(generation, q[i]) \in Message
                               /\ Samples(generation, q[i]).chunk = q[i]
    BY <2>1, MessagesTyped, MessageFields DEF TypeOK
  <2> QED BY <2>1, <2>2
<1>2. Kept(Ring, Port, pending, sent) /\ pending \in Seq(Chunk)
  BY WayTyped DEF OrderInv
<1>3. CASE node = NoNode
  <2>1. InTransit = sampled(pending)
    BY <1>3 DEF InTransit
  <2> HIDE DEF sampled
  <2> QED BY <1>1, <1>2, <2>1 DEF OrderKept, Kept, InOrder
<1>4. CASE node # NoNode
  <2> DEFINE a == sampled(worklet[node].ring)
             d == down[node]
             b == sampled(pending)
             s == (a \o d) \o b
  <2>1. InTransit = s
    BY <1>4 DEF InTransit
  <2>2. worklet[node].ring \in Seq(Chunk) /\ d \in Seq(Message)
        /\ Ring = worklet[node].ring /\ Port = d
    BY <1>4, WayTyped DEF Ring, Port
  <2>3. /\ a \in Seq(Message) /\ Len(a) = Len(Ring) /\ DOMAIN Ring = 1 .. Len(Ring)
        /\ \A i \in 1 .. Len(Ring) : a[i].chunk = Ring[i]
        /\ b \in Seq(Message) /\ Len(b) = Len(pending) /\ DOMAIN pending = 1 .. Len(pending)
        /\ \A i \in 1 .. Len(pending) : b[i].chunk = pending[i]
    BY <1>1, <1>2, <2>2
  <2> HIDE DEF sampled, a, b, d
  <2>4. DOMAIN d = 1 .. Len(d) /\ Len(d) \in Nat /\ Len(a) \in Nat /\ Len(b) \in Nat
        /\ DOMAIN s \subseteq Nat
    <3>1. a \o d \in Seq(Message)
      BY <2>2, <2>3, ConcatTyped
    <3>2. s \in Seq(Message)
      BY ONLY <2>3, <3>1, ConcatTyped
    <3> HIDE DEF s
    <3> QED BY <2>2, <2>3, <3>2
  <2>5. \A i \in DOMAIN s :
          \/ i \in DOMAIN Ring /\ s[i].chunk = Ring[i]
          \/ i - Len(a) \in DOMAIN d /\ s[i] = d[i - Len(a)]
          \/ i - Len(a) - Len(d) \in DOMAIN pending /\ s[i].chunk = pending[i - Len(a) - Len(d)]
    <3>0. a \in Seq(Message) /\ d \in Seq(Message) /\ b \in Seq(Message)
      BY <2>2, <2>3
    <3>1. \A i \in DOMAIN s :
            \/ i \in 1 .. Len(a) /\ s[i] = a[i]
            \/ i - Len(a) \in 1 .. Len(d) /\ s[i] = d[i - Len(a)]
            \/ i - Len(a) - Len(d) \in 1 .. Len(b) /\ s[i] = b[i - Len(a) - Len(d)]
      BY ONLY <3>0, ThreeInARow
    <3> HIDE DEF s
    <3> QED BY <2>3, <2>4, <3>1
  <2> HIDE DEF s
  <2>6. ASSUME NEW i \in DOMAIN s, NEW j \in DOMAIN s, i < j, s[i].type = "samples", s[j].type = "samples"
        PROVE  Before(s[i].chunk, s[j].chunk)
    <3>0. i \in Nat /\ j \in Nat /\ Len(a) \in Nat /\ Len(d) \in Nat /\ Len(b) \in Nat
      BY <2>4
    <3>k. InOrder(Ring, d, pending)
      BY <1>2, <2>2 DEF Kept
    <3>1. CASE i \in DOMAIN Ring /\ s[i].chunk = Ring[i]
      <4>1. CASE j \in DOMAIN Ring /\ s[j].chunk = Ring[j]
        BY <2>6, <3>1, <3>k, <4>1 DEF InOrder
      <4>2. CASE j - Len(a) \in DOMAIN d /\ s[j] = d[j - Len(a)]
        BY <2>6, <3>1, <3>k, <4>2 DEF InOrder, IsSamples
      <4>3. CASE j - Len(a) - Len(d) \in DOMAIN pending /\ s[j].chunk = pending[j - Len(a) - Len(d)]
        BY <3>1, <3>k, <4>3 DEF InOrder
      <4> QED BY <2>5, <4>1, <4>2, <4>3
    <3>2. CASE i - Len(a) \in DOMAIN d /\ s[i] = d[i - Len(a)]
      <4>1. CASE j \in DOMAIN Ring /\ s[j].chunk = Ring[j]
        BY <2>3, <2>4, <2>6, <3>0, <3>2, <4>1
      <4>2. CASE j - Len(a) \in DOMAIN d /\ s[j] = d[j - Len(a)]
        <5>1. i - Len(a) < j - Len(a)
          BY <2>6, <3>0
        <5> QED BY <2>6, <3>2, <3>k, <4>2, <5>1 DEF InOrder, IsSamples
      <4>3. CASE j - Len(a) - Len(d) \in DOMAIN pending /\ s[j].chunk = pending[j - Len(a) - Len(d)]
        BY <2>6, <3>2, <3>k, <4>3 DEF InOrder, IsSamples
      <4> QED BY <2>5, <4>1, <4>2, <4>3
    <3>3. CASE i - Len(a) - Len(d) \in DOMAIN pending /\ s[i].chunk = pending[i - Len(a) - Len(d)]
      <4>1. CASE j \in DOMAIN Ring /\ s[j].chunk = Ring[j]
        BY <2>3, <2>4, <2>6, <3>0, <3>3, <4>1
      <4>2. CASE j - Len(a) \in DOMAIN d /\ s[j] = d[j - Len(a)]
        BY <2>3, <2>4, <2>6, <3>0, <3>3, <4>2
      <4>3. CASE j - Len(a) - Len(d) \in DOMAIN pending /\ s[j].chunk = pending[j - Len(a) - Len(d)]
        <5>1. i - Len(a) - Len(d) < j - Len(a) - Len(d)
          BY <2>6, <3>0
        <5> QED BY <3>3, <3>k, <4>3, <5>1 DEF InOrder
      <4> QED BY <2>5, <4>1, <4>2, <4>3
    <3> QED BY <2>5, <3>1, <3>2, <3>3
  <2> QED BY <2>1, <2>6 DEF OrderKept
<1> QED BY <1>3, <1>4

(* The chunks of a stream keep their order from the socket to the speaker, *)
(* for any number of streams and chunks and any sizes of the lists: on its *)
(* way a chunk is before all that were sent after it (audioPlaybackQueue   *)
(* and the worklet, the pending list, the port and the ring).              *)
THEOREM OrderIsKept == Spec => []OrderKept
<1>1. TypeOK /\ OnAirBegun /\ OrderInv /\ [Next]_vars => (TypeOK /\ OnAirBegun /\ OrderInv)'
  BY StepTypes, StepOrder
<1>2. TypeOK /\ OnAirBegun /\ OrderInv => OrderKept
  BY WayInOrder
<1> QED BY InitTypes, InitOrder, <1>1, <1>2, PTL DEF Spec

-----------------------------------------------------------------------------
(* What is where, as long as no stream was refused and no node replaced:   *)
(* of the worklet w, its ports d and u, the active stream s and the        *)
(* generation g.                                                           *)

(* No samples of s and no end of g among the first k messages.             *)
Clean(d, k, s, g) ==
  \A i \in 1 .. k : /\ IsSamples(d[i]) => d[i].chunk.stream # s
                    /\ ~(d[i].type = "end" /\ d[i].gen = g)

(* The worklet has nothing of s, and has not drained in g.                 *)
Untouched(w, u, s, g) ==
  /\ \A i \in DOMAIN w.ring : w.ring[i].stream # s
  /\ \A i \in DOMAIN u : u[i] # g
  /\ w.gen = g => ~w.ended

(* A stop is behind everything that could be heard.                        *)
Silenced(r, d) ==
  /\ r # <<>> => \E j \in DOMAIN d : d[j].type = "stop"
  /\ \A i \in DOMAIN d : IsSamples(d[i]) => \E j \in DOMAIN d : i < j /\ d[j].type = "stop"

(* The queue is not ready.                                                 *)
Waiting(w, d, u, s, g) ==
  Silenced(w.ring, d) /\ Clean(d, Len(d), s, g) /\ Untouched(w, u, s, g)

(* The queue is ready: the k messages up to configure, then m of samples,  *)
(* then, perhaps, the end; o is the stream on the air.                     *)
Shape(d, k, m, s, g, o) ==
  /\ k + m <= Len(d) /\ Len(d) <= k + m + 1
  /\ Clean(d, k, s, g)
  /\ k > 0 => d[k] = Configure(g)
  /\ \A i \in k + 1 .. k + m : IsSamples(d[i]) /\ d[i].gen = g /\ d[i].chunk.stream = s
  /\ Len(d) = k + m + 1 => d[Len(d)] = End(g) /\ o = NoStream

(* The worklet has read configure.                                         *)
Playing(w, d, u, s, g, o) ==
  /\ w.gen = g
  /\ \A i \in DOMAIN w.ring : w.ring[i].stream = s
  /\ w.ended => d = <<>> /\ o = NoStream
  /\ \A i \in DOMAIN u : u[i] = g =>
       i = Len(u) /\ d = <<>> /\ w.ring = <<>> /\ ~w.ended /\ o = NoStream

(* The chunks still to be heard are those behind configure, and those in   *)
(* the ring once configure has been read.                                  *)
StreamingAt(w, d, u, s, g, o, rest, k, m) ==
  /\ Shape(d, k, m, s, g, o)
  /\ \/ k > 0 /\ Untouched(w, u, s, g) /\ rest = m
     \/ k = 0 /\ Playing(w, d, u, s, g, o) /\ rest = m + Len(w.ring)
Streaming(w, d, u, s, g, o, rest) ==
  \E k, m \in Nat : StreamingAt(w, d, u, s, g, o, rest, k, m)

(* Nothing of the streams of S.                                            *)
Free(w, d, S) ==
  /\ \A i \in DOMAIN w.ring : w.ring[i].stream \notin S
  /\ \A i \in DOMAIN d : IsSamples(d[i]) => d[i].chunk.stream \notin S

(* Nothing of a later generation.                                          *)
Past(w, d, u, g) ==
  /\ w.gen <= g
  /\ \A i \in DOMAIN d : d[i].gen <= g
  /\ \A i \in DOMAIN u : u[i] <= g

(* How the worklet reads a message.                                        *)
IsReset(m) == m.type \in {"configure", "stop"}
Read(w, v, m) ==
  \/ IsReset(m) /\ v = Silent(m.gen)
  \/ /\ IsSamples(m) /\ m.gen = w.gen
     /\ v.ring = Append(w.ring, m.chunk) /\ v.gen = w.gen /\ v.ended = w.ended
  \/ m.type = "end" /\ m.gen = w.gen /\ v.ring = w.ring /\ v.gen = w.gen /\ v.ended = TRUE
  \/ ~IsReset(m) /\ v = w

LEMMA TailTyped ==
  ASSUME NEW S, NEW q \in Seq(S), q # <<>>
  PROVE  /\ Tail(q) \in Seq(S) /\ 1 \in DOMAIN q /\ Head(q) = q[1] /\ Head(q) \in S
         /\ \A i \in DOMAIN Tail(q) : i \in Nat /\ i + 1 \in DOMAIN q /\ Tail(q)[i] = q[i + 1]
         /\ \A i \in DOMAIN q : i \in Nat /\ (i # 1 => i - 1 \in DOMAIN Tail(q) /\ Tail(q)[i - 1] = q[i])
<1>1. /\ DOMAIN q = 1 .. Len(q) /\ DOMAIN Tail(q) = 1 .. Len(q) - 1 /\ Len(q) \in Nat \ {0}
      /\ \A i \in 1 .. Len(q) - 1 : Tail(q)[i] = q[i + 1]
      /\ Tail(q) \in Seq(S) /\ Head(q) = q[1] /\ Head(q) \in S
  BY HeadTyped
<1>2. \A i \in 1 .. Len(q) : i # 1 => i - 1 \in 1 .. Len(q) - 1 /\ (i - 1) + 1 = i
  BY <1>1
<1> QED BY <1>1, <1>2

LEMMA AppendCases ==
  ASSUME NEW S, NEW q \in Seq(S), NEW x \in S
  PROVE  \A i \in DOMAIN Append(q, x) : \/ i \in DOMAIN q /\ Append(q, x)[i] = q[i]
                                        \/ i = Len(q) + 1 /\ Append(q, x)[i] = x
<1> DEFINE s == Append(q, x)
<1>1. /\ DOMAIN q = 1 .. Len(q) /\ Len(q) \in Nat /\ DOMAIN s = 1 .. Len(q) + 1
      /\ s[Len(q) + 1] = x /\ \A i \in 1 .. Len(q) : s[i] = q[i]
  BY AppendTyped
<1> HIDE DEF s
<1>2. \A i \in DOMAIN s : (i \in DOMAIN q /\ s[i] = q[i]) \/ (i = Len(q) + 1 /\ s[i] = x)
  BY <1>1
<1> QED BY <1>2 DEF s

LEMMA PostOne ==
  ASSUME NEW d \in Seq(Message), NEW m \in Message
  PROVE  LET s == d \o <<m>> IN
         /\ s \in Seq(Message) /\ Len(s) = Len(d) + 1 /\ Len(d) \in Nat
         /\ DOMAIN d = 1 .. Len(d) /\ DOMAIN s = 1 .. Len(d) + 1
         /\ s[Len(d) + 1] = m /\ \A i \in 1 .. Len(d) : s[i] = d[i]
         /\ \A i \in DOMAIN s : (i \in DOMAIN d /\ s[i] = d[i]) \/ (i = Len(d) + 1 /\ s[i] = m)
<1> DEFINE s == d \o <<m>>
<1>0. <<m>> \in Seq(Message) /\ Len(<<m>>) = 1 /\ <<m>>[1] = m
  OBVIOUS
<1>1. /\ s \in Seq(Message) /\ Len(s) = Len(d) + 1 /\ Len(d) \in Nat
      /\ DOMAIN d = 1 .. Len(d) /\ DOMAIN s = 1 .. Len(d) + 1
      /\ s[Len(d) + 1] = m /\ \A i \in 1 .. Len(d) : s[i] = d[i]
  BY <1>0, ConcatTyped
<1> HIDE DEF s
<1>2. \A i \in DOMAIN s : (i \in DOMAIN d /\ s[i] = d[i]) \/ (i = Len(d) + 1 /\ s[i] = m)
  BY <1>1
<1> QED BY <1>1, <1>2 DEF s

LEMMA SilencedRead ==
  ASSUME NEW w \in Worklet, NEW v, NEW d \in Seq(Message), d # <<>>,
         Silenced(w.ring, d), Read(w, v, Head(d))
  PROVE  Silenced(v.ring, Tail(d))
<1> DEFINE stopAfter(i) == \E j \in DOMAIN Tail(d) : i < j /\ Tail(d)[j].type = "stop"
<1>1. /\ 1 \in DOMAIN d /\ Head(d) = d[1]
      /\ \A i \in DOMAIN Tail(d) : i \in Nat /\ i + 1 \in DOMAIN d /\ Tail(d)[i] = d[i + 1]
      /\ \A i \in DOMAIN d : i \in Nat /\ (i # 1 => i - 1 \in DOMAIN Tail(d) /\ Tail(d)[i - 1] = d[i])
  BY TailTyped
<1>2. ASSUME NEW i \in DOMAIN Tail(d), IsSamples(Tail(d)[i])
      PROVE  stopAfter(i)
  <2>1. i + 1 \in DOMAIN d /\ IsSamples(d[i + 1]) /\ i \in Nat
    BY <1>1, <1>2
  <2>2. PICK j \in DOMAIN d : i + 1 < j /\ d[j].type = "stop"
    BY <2>1 DEF Silenced
  <2>3. j \in Nat /\ j # 1 /\ i < j - 1
    BY <1>1, <2>1, <2>2
  <2> QED BY <1>1, <2>2, <2>3
<1>3. ASSUME v.ring # <<>> PROVE \E j \in DOMAIN Tail(d) : Tail(d)[j].type = "stop"
  <2>1. ~IsReset(Head(d))
    BY <1>3 DEF Read, IsReset, IsSamples, Silent
  <2>2. PICK j \in DOMAIN d : d[j].type = "stop"
    <3>1. CASE IsSamples(Head(d))
      BY <1>1, <3>1 DEF Silenced
    <3>2. CASE ~IsSamples(Head(d))
      <4>1. v.ring = w.ring
        BY <2>1, <3>2 DEF Read
      <4> QED BY <1>3, <4>1 DEF Silenced
    <3> QED BY <3>1, <3>2
  <2>3. j # 1
    BY <1>1, <2>1, <2>2 DEF IsReset
  <2> QED BY <1>1, <2>2, <2>3
<1> QED BY <1>2, <1>3 DEF Silenced

LEMMA CleanRead ==
  ASSUME NEW d \in Seq(Message), d # <<>>, NEW k \in Nat, k > 0, k <= Len(d), NEW s, NEW g,
         Clean(d, k, s, g)
  PROVE  Clean(Tail(d), k - 1, s, g)
<1>1. /\ Len(d) \in Nat \ {0} /\ \A i \in 1 .. Len(d) - 1 : Tail(d)[i] = d[i + 1]
  BY HeadTyped
<1>2. \A i \in 1 .. k - 1 : i + 1 \in 1 .. k /\ Tail(d)[i] = d[i + 1]
  BY <1>1
<1> QED BY <1>2 DEF Clean

(* What stays true of the worklet when it reads what it ignores.           *)
LEMMA UntouchedRead ==
  ASSUME NEW w \in Worklet, NEW v \in Worklet, NEW u, NEW m \in Message, NEW s, NEW g,
         Untouched(w, u, s, g), Read(w, v, m),
         IsSamples(m) => m.chunk.stream # s, ~(m.type = "end" /\ m.gen = g)
  PROVE  Untouched(v, u, s, g)
<1>1. CASE v = Silent(m.gen)
  <2>1. v.ring = <<>> /\ v.ended = FALSE /\ DOMAIN <<>> = {}
    BY <1>1 DEF Silent
  <2> QED BY <2>1 DEF Untouched
<1>2. CASE IsSamples(m) /\ v.ring = Append(w.ring, m.chunk) /\ v.gen = w.gen /\ v.ended = w.ended
  <2>1. m.chunk \in Chunk /\ w.ring \in Seq(Chunk)
    BY <1>2, MessagesTyped DEF Worklet
  <2>2. \A i \in DOMAIN v.ring : (i \in DOMAIN w.ring /\ v.ring[i] = w.ring[i]) \/ v.ring[i] = m.chunk
    BY <1>2, <2>1, AppendCases
  <2> QED BY <1>2, <2>2 DEF Untouched
<1>3. CASE m.type = "end" /\ m.gen = w.gen /\ v.ring = w.ring /\ v.gen = w.gen
  BY <1>3 DEF Untouched
<1>4. CASE v = w
  BY <1>4
<1> QED BY <1>1, <1>2, <1>3, <1>4 DEF Read

LEMMA WaitingRead ==
  ASSUME NEW w \in Worklet, NEW v \in Worklet, NEW d \in Seq(Message), d # <<>>,
         NEW u, NEW s, NEW g, Waiting(w, d, u, s, g), Read(w, v, Head(d))
  PROVE  Waiting(v, Tail(d), u, s, g)
<1>1. Len(d) \in Nat /\ Len(d) > 0 /\ Len(Tail(d)) = Len(d) - 1
      /\ Head(d) = d[1] /\ Head(d) \in Message
  BY HeadTyped
<1>2. Silenced(v.ring, Tail(d))
  BY SilencedRead DEF Waiting
<1>3. Clean(Tail(d), Len(Tail(d)), s, g)
  BY <1>1, CleanRead DEF Waiting
<1>4. Untouched(v, u, s, g)
  <2>1. 1 \in 1 .. Len(d)
    BY <1>1
  <2>2. (IsSamples(Head(d)) => Head(d).chunk.stream # s) /\ ~(Head(d).type = "end" /\ Head(d).gen = g)
    BY <1>1, <2>1 DEF Waiting, Clean
  <2> QED BY <1>1, <2>2, UntouchedRead DEF Waiting
<1> QED BY <1>2, <1>3, <1>4 DEF Waiting

LEMMA FreeRead ==
  ASSUME NEW w \in Worklet, NEW v \in Worklet, NEW d \in Seq(Message), d # <<>>,
         NEW S, Free(w, d, S), Read(w, v, Head(d))
  PROVE  Free(v, Tail(d), S)
<1>1. /\ 1 \in DOMAIN d /\ Head(d) = d[1] /\ Head(d) \in Message
      /\ \A i \in DOMAIN Tail(d) : i + 1 \in DOMAIN d /\ Tail(d)[i] = d[i + 1]
  BY TailTyped
<1>2. \A i \in DOMAIN Tail(d) : IsSamples(Tail(d)[i]) => Tail(d)[i].chunk.stream \notin S
  BY <1>1 DEF Free
<1>3. \A i \in DOMAIN v.ring : v.ring[i].stream \notin S
  <2>1. CASE v = Silent(Head(d).gen)
    BY <2>1 DEF Silent
  <2>2. CASE IsSamples(Head(d)) /\ v.ring = Append(w.ring, Head(d).chunk)
    <3>1. Head(d).chunk \in Chunk /\ w.ring \in Seq(Chunk)
      BY <1>1, <2>2, MessagesTyped DEF Worklet
    <3>2. \A i \in DOMAIN v.ring : \/ i \in DOMAIN w.ring /\ v.ring[i] = w.ring[i]
                                   \/ v.ring[i] = Head(d).chunk
      BY <2>2, <3>1, AppendCases
    <3>3. Head(d).chunk.stream \notin S
      BY <1>1, <2>2 DEF Free
    <3> QED BY <3>2, <3>3 DEF Free
  <2>3. CASE v.ring = w.ring
    BY <2>3 DEF Free
  <2> QED BY <2>1, <2>2, <2>3 DEF Read
<1> QED BY <1>2, <1>3 DEF Free

LEMMA PastRead ==
  ASSUME NEW w \in Worklet, NEW v \in Worklet, NEW d \in Seq(Message), d # <<>>,
         NEW u, NEW g, Past(w, d, u, g), Read(w, v, Head(d))
  PROVE  Past(v, Tail(d), u, g)
<1>1. /\ 1 \in DOMAIN d /\ Head(d) = d[1]
      /\ \A i \in DOMAIN Tail(d) : i + 1 \in DOMAIN d /\ Tail(d)[i] = d[i + 1]
  BY TailTyped
<1>2. v.gen <= g
  <2>1. Head(d).gen <= g /\ Silent(Head(d).gen).gen = Head(d).gen
    BY <1>1 DEF Past, Silent
  <2>2. v.gen = Head(d).gen \/ v.gen = w.gen
    BY <2>1 DEF Read
  <2> QED BY <2>1, <2>2 DEF Past
<1> QED BY <1>1, <1>2 DEF Past

LEMMA ShapeRead ==
  ASSUME NEW d \in Seq(Message), d # <<>>, NEW s, NEW g, NEW o, NEW k \in Nat, NEW m \in Nat,
         Shape(d, k, m, s, g, o)
  PROVE  /\ k > 0 => Shape(Tail(d), k - 1, m, s, g, o)
         /\ k = 0 /\ m > 0 => Shape(Tail(d), 0, m - 1, s, g, o)
         /\ k = 0 /\ m = 0 => /\ Shape(Tail(d), 0, 0, s, g, o) /\ Tail(d) = <<>>
                              /\ Head(d) = End(g) /\ o = NoStream
<1> DEFINE e == Tail(d)
<1>1. /\ e \in Seq(Message) /\ Len(d) \in Nat \ {0} /\ Len(e) = Len(d) - 1 /\ Head(d) = d[1]
      /\ \A i \in 1 .. Len(d) - 1 : e[i] = d[i + 1]
  BY HeadTyped
<1>n. Len(d) \in Nat /\ Len(e) \in Nat /\ Len(e) = Len(d) - 1
  BY HeadTyped
<1>2. /\ k + m <= Len(d) /\ Len(d) <= k + m + 1
      /\ k > 0 => d[k] = Configure(g)
      /\ \A i \in k + 1 .. k + m : IsSamples(d[i]) /\ d[i].gen = g /\ d[i].chunk.stream = s
      /\ Len(d) = k + m + 1 => d[Len(d)] = End(g) /\ o = NoStream
      /\ Clean(d, k, s, g)
  BY DEF Shape
<1>3. ASSUME k > 0 PROVE Shape(e, k - 1, m, s, g, o)
  <2>1. Clean(e, k - 1, s, g)
    BY <1>1, <1>2, <1>3, CleanRead
  <2> HIDE DEF e
  <2>2. k - 1 > 0 => e[k - 1] = Configure(g)
    BY <1>1, <1>2, <1>3
  <2>3. \A i \in k .. (k - 1) + m : IsSamples(e[i]) /\ e[i].gen = g /\ e[i].chunk.stream = s
    <3>1. \A i \in k .. (k - 1) + m : i + 1 \in k + 1 .. k + m /\ e[i] = d[i + 1]
      BY <1>1, <1>2, <1>3
    <3> QED BY <1>2, <3>1
  <2>4. Len(e) = (k - 1) + m + 1 => e[Len(e)] = End(g) /\ o = NoStream
    <3> SUFFICES ASSUME Len(e) = (k - 1) + m + 1 PROVE e[Len(e)] = End(g) /\ o = NoStream
      OBVIOUS
    <3>a. \A x, y \in Nat : x - 1 = (k - 1) + m + 1 /\ y = x - 1 =>
                           x = k + m + 1 /\ y \in 1 .. x - 1 /\ y + 1 = x
      BY <1>3
    <3>b. Len(d) \in Nat /\ Len(e) \in Nat /\ Len(e) = Len(d) - 1
      BY ONLY <1>n
    <3>1. Len(d) = k + m + 1 /\ Len(e) \in 1 .. Len(d) - 1 /\ Len(e) + 1 = Len(d)
      BY <3>a, <3>b
    <3> QED BY <1>1, <1>2, <3>1
  <2>5. (k - 1) + m <= Len(e) /\ Len(e) <= (k - 1) + m + 1 /\ (k - 1) + 1 = k
    BY <1>1, <1>2
  <2> QED BY <2>1, <2>2, <2>3, <2>4, <2>5 DEF Shape
<1>4. ASSUME k = 0, m > 0 PROVE Shape(e, 0, m - 1, s, g, o)
  <2>1. Clean(e, 0, s, g)
    BY DEF Clean
  <2> HIDE DEF e
  <2>3. \A i \in 0 + 1 .. 0 + (m - 1) : IsSamples(e[i]) /\ e[i].gen = g /\ e[i].chunk.stream = s
    <3>1. \A i \in 0 + 1 .. 0 + (m - 1) : i + 1 \in k + 1 .. k + m /\ e[i] = d[i + 1]
      BY <1>1, <1>2, <1>4
    <3> QED BY <1>2, <3>1
  <2>4. Len(e) = 0 + (m - 1) + 1 => e[Len(e)] = End(g) /\ o = NoStream
    <3> SUFFICES ASSUME Len(e) = 0 + (m - 1) + 1 PROVE e[Len(e)] = End(g) /\ o = NoStream
      OBVIOUS
    <3>1. Len(d) = k + m + 1 /\ Len(e) \in 1 .. Len(d) - 1 /\ Len(e) + 1 = Len(d)
      BY <1>1, <1>4
    <3> QED BY <1>1, <1>2, <3>1
  <2>5. 0 + (m - 1) <= Len(e) /\ Len(e) <= 0 + (m - 1) + 1
    BY <1>1, <1>2, <1>4
  <2> QED BY <2>1, <2>3, <2>4, <2>5 DEF Shape
<1>5. ASSUME k = 0, m = 0
      PROVE  Shape(e, 0, 0, s, g, o) /\ e = <<>> /\ Head(d) = End(g) /\ o = NoStream
  <2>1. Len(d) = 1
    BY <1>1, <1>2, <1>5
  <2>2. Head(d) = End(g) /\ o = NoStream
    BY <1>1, <1>2, <1>5, <2>1
  <2> HIDE DEF e
  <2>0. Len(e) = 0
    BY <1>1, <2>1
  <2>3. e = <<>> /\ Len(e) = 0
    BY <1>1, <2>0, EmptySeq
  <2>4. Shape(e, 0, 0, s, g, o)
    BY <2>2, <2>3 DEF Shape, Clean
  <2> QED BY <2>2, <2>3, <2>4
<1> QED BY <1>3, <1>4, <1>5

LEMMA ReadBefore ==
  ASSUME NEW w \in Worklet, NEW v \in Worklet, NEW d \in Seq(Message), d # <<>>,
         NEW u, NEW s, NEW g, NEW o, NEW rest, NEW k \in Nat, NEW m \in Nat, k > 0,
         StreamingAt(w, d, u, s, g, o, rest, k, m), Read(w, v, Head(d))
  PROVE  Streaming(v, Tail(d), u, s, g, o, rest)
<1>1. Shape(d, k, m, s, g, o) /\ Untouched(w, u, s, g) /\ rest = m
  BY DEF StreamingAt
<1>2. Shape(Tail(d), k - 1, m, s, g, o)
  BY <1>1, ShapeRead
<1>3. /\ Head(d) = d[1] /\ Head(d) \in Message /\ 1 \in 1 .. k
      /\ IsSamples(Head(d)) => Head(d).chunk.stream # s
      /\ ~(Head(d).type = "end" /\ Head(d).gen = g)
  BY <1>1, HeadTyped DEF Shape, Clean
<1>4. CASE k = 1
  <2>1. Head(d) = Configure(g)
    BY <1>1, <1>3, <1>4 DEF Shape
  <2>2. v = Silent(g)
    BY <2>1, MessageFields DEF Read, IsReset, IsSamples
  <2>3. v.gen = g /\ v.ring = <<>> /\ v.ended = FALSE /\ DOMAIN <<>> = {} /\ Len(<<>>) = 0
    BY <2>2 DEF Silent
  <2>4. Playing(v, Tail(d), u, s, g, o)
    BY <1>1, <2>3 DEF Playing, Untouched
  <2>5. rest = m + Len(v.ring)
    BY <1>1, <2>3
  <2>6. StreamingAt(v, Tail(d), u, s, g, o, rest, 0, m)
    BY <1>2, <1>4, <2>4, <2>5 DEF StreamingAt
  <2> QED BY <2>6 DEF Streaming
<1>5. CASE k > 1
  <2>1. Untouched(v, u, s, g)
    BY <1>1, <1>3, UntouchedRead
  <2>2. k - 1 \in Nat /\ k - 1 > 0
    BY <1>5
  <2>3. StreamingAt(v, Tail(d), u, s, g, o, rest, k - 1, m)
    BY <1>1, <1>2, <2>1, <2>2 DEF StreamingAt
  <2> QED BY <2>2, <2>3 DEF Streaming
<1> QED BY <1>4, <1>5

(* Samples that find the ring full are dropped.                            *)
Dropped(w, v, m) == IsSamples(m) /\ m.gen = w.gen /\ v = w

LEMMA ReadLive ==
  ASSUME NEW w \in Worklet, NEW v \in Worklet, NEW d \in Seq(Message), d # <<>>,
         NEW u, NEW s, NEW g, NEW o, NEW rest, NEW m \in Nat,
         StreamingAt(w, d, u, s, g, o, rest, 0, m), Read(w, v, Head(d))
  PROVE  \/ /\ Dropped(w, v, Head(d)) /\ Head(d).chunk.stream = s
            /\ Streaming(v, Tail(d), u, s, g, o, rest - 1)
         \/ ~Dropped(w, v, Head(d)) /\ Streaming(v, Tail(d), u, s, g, o, rest)
<1>1. Shape(d, 0, m, s, g, o) /\ Playing(w, d, u, s, g, o) /\ rest = m + Len(w.ring)
  BY DEF StreamingAt
<1>2. Head(d) = d[1] /\ Head(d) \in Message /\ w.ring \in Seq(Chunk) /\ Len(w.ring) \in Nat
  BY HeadTyped DEF Worklet
<1>3. /\ w.gen = g /\ ~w.ended /\ \A i \in DOMAIN u : u[i] # g
      /\ \A i \in DOMAIN w.ring : w.ring[i].stream = s
  BY <1>1 DEF Playing
<1>4. CASE m > 0
  <2>0. Shape(Tail(d), 0, m - 1, s, g, o)
    BY <1>1, <1>4, ShapeRead
  <2>1. Shape(Tail(d), 0, m - 1, s, g, o) /\ m - 1 \in Nat
    BY <1>4, <2>0
  <2>2. 1 \in 0 + 1 .. 0 + m
    BY <1>4
  <2>3. IsSamples(Head(d)) /\ Head(d).gen = w.gen /\ Head(d).chunk.stream = s
    BY <1>1, <1>2, <1>3, <2>2 DEF Shape
  <2>4. CASE v = w
    <3>1. Playing(v, Tail(d), u, s, g, o)
      BY <1>3, <2>4 DEF Playing
    <3>2. rest - 1 = (m - 1) + Len(v.ring)
      BY <1>1, <1>2, <2>4
    <3>3. StreamingAt(v, Tail(d), u, s, g, o, rest - 1, 0, m - 1)
      BY <2>1, <3>1, <3>2 DEF StreamingAt
    <3>4. Streaming(v, Tail(d), u, s, g, o, rest - 1)
      BY <2>1, <3>3 DEF Streaming
    <3> QED BY <2>3, <2>4, <3>4 DEF Dropped
  <2>5. CASE v # w
    <3>0. v.ring = Append(w.ring, Head(d).chunk) /\ v.gen = w.gen /\ v.ended = w.ended
      BY <2>3, <2>5 DEF Read, IsReset, IsSamples
    <3>1. Head(d).chunk \in Chunk
      BY <1>2, <2>3, MessagesTyped
    <3>2. Len(v.ring) = Len(w.ring) + 1
      BY <1>2, <3>0, <3>1, AppendTyped
    <3>3. \A i \in DOMAIN v.ring : \/ i \in DOMAIN w.ring /\ v.ring[i] = w.ring[i]
                                   \/ v.ring[i] = Head(d).chunk
      BY <1>2, <3>0, <3>1, AppendCases
    <3>4. Playing(v, Tail(d), u, s, g, o)
      BY <1>3, <2>3, <3>0, <3>3 DEF Playing
    <3>5. rest = (m - 1) + Len(v.ring)
      BY <1>1, <1>2, <3>2
    <3>6. StreamingAt(v, Tail(d), u, s, g, o, rest, 0, m - 1)
      BY <2>1, <3>4, <3>5 DEF StreamingAt
    <3>7. Streaming(v, Tail(d), u, s, g, o, rest)
      BY <2>1, <3>6 DEF Streaming
    <3> QED BY <2>5, <3>7 DEF Dropped
  <2> QED BY <2>4, <2>5
<1>5. CASE m = 0
  <2>1. Shape(Tail(d), 0, 0, s, g, o) /\ Tail(d) = <<>> /\ Head(d) = End(g) /\ o = NoStream
    BY <1>1, <1>5, ShapeRead
  <2>2. v.ring = w.ring /\ v.gen = w.gen /\ ~IsSamples(Head(d))
    BY <2>1, MessageFields DEF Read, IsReset, IsSamples
  <2>3. Playing(v, Tail(d), u, s, g, o)
    BY <1>3, <2>1, <2>2 DEF Playing
  <2>4. StreamingAt(v, Tail(d), u, s, g, o, rest, 0, 0)
    BY <1>1, <1>5, <2>1, <2>2, <2>3 DEF StreamingAt
  <2>5. Streaming(v, Tail(d), u, s, g, o, rest)
    BY <2>4 DEF Streaming
  <2> QED BY <2>2, <2>5 DEF Dropped
<1> QED BY <1>4, <1>5

LEMMA WaitingStop ==
  ASSUME NEW w \in Worklet, NEW d \in Seq(Message), NEW u \in Seq(Nat), NEW s,
         NEW g \in Nat, NEW h \in Nat, NEW j \in Nat, g < h, Past(w, d, u, g), Free(w, d, {s})
  PROVE  Waiting(w, d \o <<StopAt(j)>>, u, s, h)
<1> DEFINE e == d \o <<StopAt(j)>>
<1>0. StopAt(j) \in Message /\ StopAt(j).type = "stop"
  BY MessagesTyped, MessageFields
<1>1. /\ Len(d) \in Nat /\ Len(e) = Len(d) + 1 /\ DOMAIN d = 1 .. Len(d) /\ DOMAIN e = 1 .. Len(d) + 1
      /\ e[Len(d) + 1] = StopAt(j)
      /\ \A i \in DOMAIN e : (i \in DOMAIN d /\ e[i] = d[i]) \/ (i = Len(d) + 1 /\ e[i] = StopAt(j))
  BY <1>0, PostOne
<1> HIDE DEF e
<1>2. Len(d) + 1 \in DOMAIN e /\ \A i \in DOMAIN d : i < Len(d) + 1
  BY <1>1
<1>3. Silenced(w.ring, e)
  BY <1>0, <1>1, <1>2 DEF Silenced, IsSamples
<1>4. \A i \in DOMAIN e : /\ IsSamples(e[i]) => e[i].chunk.stream # s
                          /\ ~(e[i].type = "end" /\ e[i].gen = h)
  <2> SUFFICES ASSUME NEW i \in DOMAIN e
               PROVE  /\ IsSamples(e[i]) => e[i].chunk.stream # s
                      /\ ~(e[i].type = "end" /\ e[i].gen = h)
    OBVIOUS
  <2>1. CASE i \in DOMAIN d /\ e[i] = d[i]
    <3>1. d[i].gen \in Nat /\ d[i].gen <= g
      BY <2>1, MessagesTyped DEF Past
    <3>2. d[i].gen # h
      BY <3>1
    <3> QED BY <2>1, <3>2 DEF Free
  <2>2. CASE e[i] = StopAt(j)
    BY <1>0, <2>2 DEF IsSamples
  <2> QED BY <1>1, <2>1, <2>2
<1>5. Clean(e, Len(e), s, h)
  BY <1>1, <1>4 DEF Clean
<1>6. Untouched(w, u, s, h)
  <2>1. \A i \in DOMAIN u : u[i] # h
    <3>1. \A i \in DOMAIN u : u[i] \in Nat /\ u[i] <= g
      BY DEF Past
    <3> QED BY <3>1
  <2>2. w.gen # h
    BY DEF Past, Worklet
  <2>3. \A i \in DOMAIN w.ring : w.ring[i].stream # s
    BY DEF Free
  <2> QED BY <2>1, <2>2, <2>3 DEF Untouched
<1> QED BY <1>3, <1>5, <1>6 DEF Waiting, e

LEMMA PathPost ==
  ASSUME NEW w, NEW d \in Seq(Message), NEW u \in Seq(Nat), NEW g \in Nat, NEW h \in Nat, NEW S,
         NEW m \in Message, g <= h, m.gen <= h, IsSamples(m) => m.chunk.stream \notin S,
         Past(w, d, u, g), Free(w, d, S), w \in Worklet
  PROVE  Past(w, d \o <<m>>, u, h) /\ Free(w, d \o <<m>>, S)
<1> DEFINE e == d \o <<m>>
<1>1. \A i \in DOMAIN e : (i \in DOMAIN d /\ e[i] = d[i]) \/ e[i] = m
  BY PostOne
<1> HIDE DEF e
<1>2. Free(w, e, S)
  BY <1>1 DEF Free
<1>3. \A i \in DOMAIN d : d[i].gen \in Nat /\ d[i].gen <= h
  BY MessagesTyped DEF Past
<1>4. \A i \in DOMAIN u : u[i] <= h
  <2>1. \A i \in DOMAIN u : u[i] \in Nat /\ u[i] <= g
    BY DEF Past
  <2> QED BY <2>1
<1>5. w.gen <= h
  BY DEF Past, Worklet
<1>6. Past(w, e, u, h)
  BY <1>1, <1>3, <1>4, <1>5 DEF Past
<1> QED BY <1>2, <1>6 DEF e

LEMMA PostSamples ==
  ASSUME NEW w \in Worklet, NEW d \in Seq(Message), NEW u, NEW s, NEW g \in Nat, NEW o, NEW rest,
         Streaming(w, d, u, s, g, o, rest), o # NoStream, NEW c \in Chunk, c.stream = s
  PROVE  Streaming(w, d \o <<Samples(g, c)>>, u, s, g, o, rest + 1)
<1> DEFINE e == d \o <<Samples(g, c)>>
<1>0. /\ Samples(g, c) \in Message /\ IsSamples(Samples(g, c)) /\ Samples(g, c).gen = g
      /\ Samples(g, c).chunk.stream = s
  <2>1. Samples(g, c) \in Message
    BY MessagesTyped
  <2>2. Samples(g, c).type = "samples" /\ Samples(g, c).gen = g /\ Samples(g, c).chunk = c
    BY MessageFields
  <2> QED BY <2>1, <2>2 DEF IsSamples
<1>1. /\ Len(d) \in Nat /\ Len(e) = Len(d) + 1 /\ e[Len(d) + 1] = Samples(g, c)
      /\ \A i \in 1 .. Len(d) : e[i] = d[i]
  BY <1>0, PostOne
<1> HIDE DEF e
<1>2. PICK k, m \in Nat : StreamingAt(w, d, u, s, g, o, rest, k, m)
  BY DEF Streaming
<1>3. /\ k + m = Len(d) /\ Clean(d, k, s, g) /\ (k > 0 => d[k] = Configure(g))
      /\ \A i \in k + 1 .. k + m : IsSamples(d[i]) /\ d[i].gen = g /\ d[i].chunk.stream = s
  <2>1. k + m <= Len(d) /\ Len(d) <= k + m + 1 /\ Len(d) # k + m + 1
    BY <1>2 DEF StreamingAt, Shape
  <2>2. k + m = Len(d)
    BY <1>1, <2>1
  <2> QED BY <1>2, <2>2 DEF StreamingAt, Shape
<1>4. Shape(e, k, m + 1, s, g, o)
  <2>1. Clean(e, k, s, g)
    <3>1. \A i \in 1 .. k : e[i] = d[i]
      BY <1>1, <1>3
    <3> QED BY <1>3, <3>1 DEF Clean
  <2>2. k > 0 => e[k] = Configure(g)
    BY <1>1, <1>3
  <2>3. \A i \in k + 1 .. k + (m + 1) : IsSamples(e[i]) /\ e[i].gen = g /\ e[i].chunk.stream = s
    <3>1. \A i \in k + 1 .. k + (m + 1) :
            \/ i \in k + 1 .. k + m /\ e[i] = d[i]
            \/ e[i] = Samples(g, c)
      BY <1>1, <1>3
    <3> QED BY <1>0, <1>3, <3>1
  <2>4. k + (m + 1) <= Len(e) /\ Len(e) <= k + (m + 1) + 1 /\ Len(e) # k + (m + 1) + 1
    BY <1>1, <1>3
  <2> QED BY <2>1, <2>2, <2>3, <2>4 DEF Shape
<1>5. Playing(w, d, u, s, g, o) => Playing(w, e, u, s, g, o)
  BY DEF Playing
<1>6. Len(w.ring) \in Nat /\ (rest = m => rest + 1 = m + 1)
      /\ (rest = m + Len(w.ring) => rest + 1 = (m + 1) + Len(w.ring))
  BY DEF Worklet
<1>7. StreamingAt(w, e, u, s, g, o, rest + 1, k, m + 1)
  BY <1>2, <1>4, <1>5, <1>6 DEF StreamingAt
<1>8. Streaming(w, e, u, s, g, o, rest + 1)
  BY <1>7 DEF Streaming
<1> QED BY <1>8 DEF e

LEMMA PostEnd ==
  ASSUME NEW w \in Worklet, NEW d \in Seq(Message), NEW u, NEW s, NEW g \in Nat, NEW o, NEW rest,
         Streaming(w, d, u, s, g, o, rest), o # NoStream
  PROVE  Streaming(w, d \o <<End(g)>>, u, s, g, NoStream, rest)
<1> DEFINE e == d \o <<End(g)>>
<1>0. End(g) \in Message
  BY MessagesTyped
<1>1. /\ Len(d) \in Nat /\ Len(e) = Len(d) + 1 /\ e[Len(d) + 1] = End(g)
      /\ \A i \in 1 .. Len(d) : e[i] = d[i]
  BY <1>0, PostOne
<1> HIDE DEF e
<1>2. PICK k, m \in Nat : StreamingAt(w, d, u, s, g, o, rest, k, m)
  BY DEF Streaming
<1>3. /\ k + m = Len(d) /\ Clean(d, k, s, g) /\ (k > 0 => d[k] = Configure(g))
      /\ \A i \in k + 1 .. k + m : IsSamples(d[i]) /\ d[i].gen = g /\ d[i].chunk.stream = s
  <2>1. k + m <= Len(d) /\ Len(d) <= k + m + 1 /\ Len(d) # k + m + 1
    BY <1>2 DEF StreamingAt, Shape
  <2>2. k + m = Len(d)
    BY <1>1, <2>1
  <2> QED BY <1>2, <2>2 DEF StreamingAt, Shape
<1>4. Shape(e, k, m, s, g, NoStream)
  <2>1. \A i \in 1 .. k + m : e[i] = d[i]
    BY <1>1, <1>3
  <2>2. Clean(e, k, s, g) /\ (k > 0 => e[k] = Configure(g))
    <3>1. \A i \in 1 .. k : i \in 1 .. k + m
      OBVIOUS
    <3>2. k > 0 => k \in 1 .. k + m
      OBVIOUS
    <3> QED BY <1>3, <2>1, <3>1, <3>2 DEF Clean
  <2>3. \A i \in k + 1 .. k + m : IsSamples(e[i]) /\ e[i].gen = g /\ e[i].chunk.stream = s
    <3>1. \A i \in k + 1 .. k + m : i \in 1 .. k + m
      OBVIOUS
    <3> QED BY <1>3, <2>1, <3>1
  <2>4. k + m <= Len(e) /\ Len(e) <= k + m + 1 /\ e[Len(e)] = End(g)
    BY <1>1, <1>3
  <2> QED BY <2>2, <2>3, <2>4 DEF Shape
<1>5. Playing(w, d, u, s, g, o) => Playing(w, e, u, s, g, NoStream)
  BY DEF Playing
<1>6. StreamingAt(w, e, u, s, g, NoStream, rest, k, m)
  BY <1>2, <1>4, <1>5 DEF StreamingAt
<1>7. Streaming(w, e, u, s, g, NoStream, rest)
  BY <1>6 DEF Streaming
<1> QED BY <1>7 DEF e

(* prepare() resolves: the pending chunks go behind configure.             *)
LEMMA PostBacklog ==
  ASSUME TypeOK, NEW w \in Worklet, NEW d \in Seq(Message), NEW u, NEW s, NEW o,
         Waiting(w, d, u, s, generation),
         \A i \in DOMAIN pending : pending[i].stream = s,
         endRequested => o = NoStream
  PROVE  Streaming(w, d \o (<<Configure(generation)>> \o Backlog), u, s, generation, o, Len(pending))
<1> DEFINE e == d \o (<<Configure(generation)>> \o Backlog)
           k == Len(d) + 1
           m == Len(pending)
<1>1. /\ Len(d) \in Nat /\ m \in Nat /\ DOMAIN pending = 1 .. m
      /\ Len(e) = Len(d) + 1 + m + Ends /\ Ends \in {0, 1} /\ (Ends = 1) = endRequested
      /\ \A i \in 1 .. Len(d) : e[i] = d[i]
      /\ e[Len(d) + 1] = Configure(generation)
      /\ \A i \in 1 .. m : e[Len(d) + 1 + i] = Samples(generation, pending[i])
      /\ Ends = 1 => e[Len(d) + 1 + m + 1] = End(generation)
  BY BacklogEffect
<1>p. \A i \in 1 .. m : pending[i].stream = s
  BY <1>1
<1>u. Clean(d, Len(d), s, generation) /\ Untouched(w, u, s, generation)
  BY DEF Waiting
<1> HIDE DEF e, m
<1>2. k \in Nat /\ k > 0 /\ \A i \in 1 .. k : i \in 1 .. Len(d) \/ i = Len(d) + 1
  BY <1>1
<1>3. Clean(e, k, s, generation)
  <2> SUFFICES ASSUME NEW i \in 1 .. k
               PROVE  /\ IsSamples(e[i]) => e[i].chunk.stream # s
                      /\ ~(e[i].type = "end" /\ e[i].gen = generation)
    BY DEF Clean
  <2>1. CASE i \in 1 .. Len(d)
    BY <1>1, <1>u, <2>1 DEF Clean
  <2>2. CASE i = Len(d) + 1
    BY <1>1, <2>2, MessageFields DEF IsSamples
  <2> QED BY <1>2, <2>1, <2>2
<1>4. \A i \in k + 1 .. k + m : /\ IsSamples(e[i]) /\ e[i].gen = generation
                                /\ e[i].chunk.stream = s
  <2> SUFFICES ASSUME NEW i \in k + 1 .. k + m
               PROVE  IsSamples(e[i]) /\ e[i].gen = generation /\ e[i].chunk.stream = s
    OBVIOUS
  <2>1. PICK j \in 1 .. m : i = Len(d) + 1 + j
    <3>1. i - (Len(d) + 1) \in 1 .. m /\ i = Len(d) + 1 + (i - (Len(d) + 1))
      BY <1>1
    <3> QED BY <3>1
  <2>2. e[i] = Samples(generation, pending[j])
    BY <1>1, <2>1
  <2>3. pending[j].stream = s
    BY <1>p
  <2> QED BY <2>2, <2>3, MessageFields DEF IsSamples
<1>5. Len(e) = k + m + 1 => e[Len(e)] = End(generation) /\ o = NoStream
  <2> SUFFICES ASSUME Len(e) = k + m + 1 PROVE e[Len(e)] = End(generation) /\ o = NoStream
    OBVIOUS
  <2>1. Ends = 1 /\ Len(e) = Len(d) + 1 + m + 1
    BY <1>1
  <2>2. endRequested
    BY <1>1, <2>1
  <2> QED BY <1>1, <2>1, <2>2
<1>6. k + m <= Len(e) /\ Len(e) <= k + m + 1 /\ e[k] = Configure(generation)
  BY <1>1
<1> HIDE DEF k
<1>7. Shape(e, k, m, s, generation, o)
  BY <1>2, <1>3, <1>4, <1>5, <1>6 DEF Shape
<1>8. StreamingAt(w, e, u, s, generation, o, m, k, m)
  BY <1>2, <1>7, <1>u DEF StreamingAt
<1>9. Streaming(w, e, u, s, generation, o, m)
  BY <1>1, <1>2, <1>8 DEF Streaming
<1> QED BY <1>9 DEF e, m

(* The same for what is only free and past.                                *)
LEMMA PathBacklog ==
  ASSUME TypeOK, NEW w \in Worklet, NEW d \in Seq(Message), NEW u, NEW S,
         Past(w, d, u, generation), Free(w, d, S),
         \A i \in DOMAIN pending : pending[i].stream \notin S
  PROVE  LET e == d \o (<<Configure(generation)>> \o Backlog) IN
         Past(w, e, u, generation) /\ Free(w, e, S)
<1> DEFINE e == d \o (<<Configure(generation)>> \o Backlog)
           m == Len(pending)
<1>1. /\ Len(d) \in Nat /\ m \in Nat /\ DOMAIN pending = 1 .. m
      /\ DOMAIN e = 1 .. Len(e) /\ DOMAIN d = 1 .. Len(d)
      /\ Len(e) = Len(d) + 1 + m + Ends /\ Ends \in {0, 1}
      /\ \A i \in 1 .. Len(d) : e[i] = d[i]
      /\ e[Len(d) + 1] = Configure(generation)
      /\ \A i \in 1 .. m : e[Len(d) + 1 + i] = Samples(generation, pending[i])
      /\ Ends = 1 => e[Len(d) + 1 + m + 1] = End(generation)
  BY BacklogEffect
<1>p. \A i \in 1 .. m : pending[i].stream \notin S
  BY <1>1
<1>g. generation \in Nat /\ generation <= generation
  BY DEF TypeOK
<1> HIDE DEF e, m
<1>2. ASSUME NEW i \in DOMAIN e
      PROVE  e[i].gen <= generation /\ (IsSamples(e[i]) => e[i].chunk.stream \notin S)
  <2>0. /\ i \in Nat /\ i >= 1 /\ i <= Len(d) + 1 + m + Ends /\ Ends \in {0, 1}
        /\ Len(d) \in Nat /\ m \in Nat
    BY <1>1
  <2>1. CASE i \in 1 .. Len(d)
    BY <1>1, <2>1 DEF Past, Free
  <2>2. CASE i = Len(d) + 1
    BY <1>1, <1>g, <2>2, MessageFields DEF IsSamples
  <2>3. CASE i > Len(d) + 1 /\ i <= Len(d) + 1 + m
    <3>1. PICK j \in 1 .. m : i = Len(d) + 1 + j
      <4>1. i - (Len(d) + 1) \in 1 .. m /\ i = Len(d) + 1 + (i - (Len(d) + 1))
        BY <1>1, <2>3
      <4> QED BY <4>1
    <3>2. e[i] = Samples(generation, pending[j])
      BY <1>1, <3>1
    <3>3. pending[j].stream \notin S
      BY <1>p
    <3> QED BY <1>g, <3>2, <3>3, MessageFields
  <2>4. CASE i > Len(d) + 1 + m
    <3>1. Ends = 1 /\ i = Len(d) + 1 + m + 1
      BY ONLY <2>0, <2>4
    <3> QED BY <1>1, <1>g, <3>1, MessageFields DEF IsSamples
  <2>5. i \in 1 .. Len(d) \/ i = Len(d) + 1 \/ (i > Len(d) + 1 /\ i <= Len(d) + 1 + m)
        \/ i > Len(d) + 1 + m
    BY ONLY <2>0
  <2> QED BY <2>1, <2>2, <2>3, <2>4, <2>5
<1>3. Past(w, e, u, generation) /\ Free(w, e, S)
  BY <1>2 DEF Past, Free
<1> QED BY <1>3 DEF e

(* The worklet renders, or drains.                                         *)
Renders(w, v, u, t) ==
  /\ v.gen = w.gen
  /\ (w.ring # <<>> /\ v.ring = Tail(w.ring)) \/ (w.ring = <<>> /\ v.ring = <<>>)
  /\ \/ v.ended = w.ended /\ t = u
     \/ w.ended /\ ~v.ended /\ v.ring = <<>> /\ t = Append(u, w.gen)

LEMMA RendersRing ==
  ASSUME NEW w \in Worklet, NEW v, NEW u, NEW t, Renders(w, v, u, t)
  PROVE  /\ \A i \in DOMAIN v.ring : \E j \in DOMAIN w.ring : v.ring[i] = w.ring[j]
         /\ w.ring # <<>> => Len(v.ring) = Len(w.ring) - 1 /\ Len(w.ring) \in Nat
                             /\ 1 \in DOMAIN w.ring /\ Head(w.ring) = w.ring[1]
         /\ v.ring # <<>> => w.ring # <<>>
<1>0. w.ring \in Seq(Chunk)
  BY DEF Worklet
<1>1. CASE w.ring # <<>> /\ v.ring = Tail(w.ring)
  <2>1. /\ 1 \in DOMAIN w.ring /\ Head(w.ring) = w.ring[1]
        /\ \A i \in DOMAIN v.ring : i + 1 \in DOMAIN w.ring /\ v.ring[i] = w.ring[i + 1]
    BY <1>0, <1>1, TailTyped
  <2>2. Len(v.ring) = Len(w.ring) - 1 /\ Len(w.ring) \in Nat
    BY <1>0, <1>1, HeadTyped
  <2> QED BY <1>1, <2>1, <2>2
<1>2. CASE w.ring = <<>> /\ v.ring = <<>>
  BY <1>2
<1> QED BY <1>1, <1>2 DEF Renders

LEMMA PathRenders ==
  ASSUME NEW w \in Worklet, NEW v \in Worklet, NEW d, NEW u \in Seq(Nat), NEW t, NEW g, NEW S,
         Renders(w, v, u, t), Past(w, d, u, g), Free(w, d, S)
  PROVE  Past(v, d, t, g) /\ Free(v, d, S)
<1>1. Free(v, d, S)
  BY RendersRing DEF Free
<1>2. \A i \in DOMAIN t : t[i] <= g
  <2>1. CASE t = u
    BY <2>1 DEF Past
  <2>2. CASE t = Append(u, w.gen)
    <3>1. w.gen \in Nat
      BY DEF Worklet
    <3>2. \A i \in DOMAIN t : (i \in DOMAIN u /\ t[i] = u[i]) \/ t[i] = w.gen
      BY <2>2, <3>1, AppendCases
    <3> QED BY <3>2 DEF Past
  <2> QED BY <2>1, <2>2 DEF Renders
<1>3. v.gen <= g
  BY DEF Renders, Past
<1> QED BY <1>1, <1>2, <1>3 DEF Past

LEMMA UntouchedRenders ==
  ASSUME NEW w \in Worklet, NEW v \in Worklet, NEW u \in Seq(Nat), NEW t, NEW s, NEW g,
         Renders(w, v, u, t), Untouched(w, u, s, g)
  PROVE  Untouched(v, t, s, g)
<1>1. \A i \in DOMAIN v.ring : v.ring[i].stream # s
  BY RendersRing DEF Untouched
<1>2. v.gen = g => ~v.ended
  BY DEF Renders, Untouched
<1>3. \A i \in DOMAIN t : t[i] # g
  <2>1. CASE t = u
    BY <2>1 DEF Untouched
  <2>2. CASE t = Append(u, w.gen) /\ w.ended
    <3>1. w.gen \in Nat /\ w.gen # g
      BY <2>2 DEF Worklet, Untouched
    <3>2. \A i \in DOMAIN t : (i \in DOMAIN u /\ t[i] = u[i]) \/ t[i] = w.gen
      BY <2>2, <3>1, AppendCases
    <3> QED BY <3>1, <3>2 DEF Untouched
  <2> QED BY <2>1, <2>2 DEF Renders
<1> QED BY <1>1, <1>2, <1>3 DEF Untouched

LEMMA WaitingRenders ==
  ASSUME NEW w \in Worklet, NEW v \in Worklet, NEW d, NEW u \in Seq(Nat), NEW t, NEW s, NEW g,
         Renders(w, v, u, t), Waiting(w, d, u, s, g)
  PROVE  Waiting(v, d, t, s, g)
<1>1. Untouched(v, t, s, g)
  BY UntouchedRenders DEF Waiting
<1>2. Silenced(v.ring, d)
  BY RendersRing DEF Waiting, Silenced
<1> QED BY <1>1, <1>2 DEF Waiting

LEMMA StreamingRenders ==
  ASSUME NEW w \in Worklet, NEW v \in Worklet, NEW d \in Seq(Message), NEW u \in Seq(Nat), NEW t,
         NEW s, NEW g, NEW o, NEW rest,
         Renders(w, v, u, t), Streaming(w, d, u, s, g, o, rest)
  PROVE  \/ /\ w.ring # <<>> /\ Head(w.ring).stream = s
            /\ Streaming(v, d, t, s, g, o, rest - 1)
         \/ /\ w.ring # <<>> => Head(w.ring).stream # s
            /\ Streaming(v, d, t, s, g, o, rest)
<1>1. PICK k, m \in Nat : StreamingAt(w, d, u, s, g, o, rest, k, m)
  BY DEF Streaming
<1>2. CASE k > 0
  <2>1. Shape(d, k, m, s, g, o) /\ Untouched(w, u, s, g) /\ rest = m
    BY <1>1, <1>2 DEF StreamingAt
  <2>2. Untouched(v, t, s, g)
    BY <2>1, UntouchedRenders
  <2>3. StreamingAt(v, d, t, s, g, o, rest, k, m)
    BY <1>2, <2>1, <2>2 DEF StreamingAt
  <2>4. Streaming(v, d, t, s, g, o, rest)
    BY <2>3 DEF Streaming
  <2>5. w.ring # <<>> => Head(w.ring).stream # s
    BY <2>1, RendersRing DEF Untouched
  <2> QED BY <2>4, <2>5
<1>3. CASE k = 0
  <2>1. Shape(d, 0, m, s, g, o) /\ Playing(w, d, u, s, g, o) /\ rest = m + Len(w.ring)
    BY <1>1, <1>3 DEF StreamingAt
  <2>2. \A i \in DOMAIN v.ring : v.ring[i].stream = s
    BY <2>1, RendersRing DEF Playing
  <2>3. v.ended => d = <<>> /\ o = NoStream
    BY <2>1 DEF Playing, Renders
  <2>4. \A i \in DOMAIN t : t[i] = g =>
          i = Len(t) /\ d = <<>> /\ v.ring = <<>> /\ ~v.ended /\ o = NoStream
    <3>1. CASE t = u /\ v.ended = w.ended
      BY <2>1, <3>1, RendersRing DEF Playing
    <3>2. CASE w.ended /\ ~v.ended /\ v.ring = <<>> /\ t = Append(u, w.gen)
      <4>1. w.gen \in Nat
        BY DEF Worklet
      <4>2. Len(t) = Len(u) + 1
        BY <3>2, <4>1, AppendTyped
      <4>3. \A i \in DOMAIN t : (i \in DOMAIN u /\ t[i] = u[i]) \/ i = Len(u) + 1
        BY <3>2, <4>1, AppendCases
      <4>4. \A i \in DOMAIN u : u[i] # g
        BY <2>1, <3>2 DEF Playing
      <4>5. d = <<>> /\ o = NoStream
        BY <2>1, <3>2 DEF Playing
      <4> QED BY <3>2, <4>2, <4>3, <4>4, <4>5
    <3> QED BY <3>1, <3>2 DEF Renders
  <2>5. Playing(v, d, t, s, g, o)
    <3>1. v.gen = g
      BY <2>1 DEF Playing, Renders
    <3> QED BY <2>2, <2>3, <2>4, <3>1 DEF Playing
  <2>6. CASE w.ring # <<>>
    <3>1. Head(w.ring).stream = s
      BY <2>1, <2>6, RendersRing DEF Playing
    <3>a. Len(v.ring) = Len(w.ring) - 1 /\ Len(w.ring) \in Nat
      BY <2>6, RendersRing
    <3>b. rest = m + Len(w.ring) /\ m \in Nat
      BY <2>1
    <3>2. rest - 1 = m + Len(v.ring)
      BY ONLY <3>a, <3>b
    <3>3. StreamingAt(v, d, t, s, g, o, rest - 1, 0, m)
      BY <2>1, <2>5, <3>2 DEF StreamingAt
    <3>4. Streaming(v, d, t, s, g, o, rest - 1)
      BY <3>3 DEF Streaming
    <3> QED BY <2>6, <3>1, <3>4
  <2>7. CASE w.ring = <<>>
    <3>1. v.ring = w.ring
      BY <2>7 DEF Renders
    <3>2. StreamingAt(v, d, t, s, g, o, rest, 0, m)
      BY <2>1, <2>5, <3>1 DEF StreamingAt
    <3>3. Streaming(v, d, t, s, g, o, rest)
      BY <3>2 DEF Streaming
    <3> QED BY <2>7, <3>3
  <2> QED BY <2>6, <2>7
<1> QED BY <1>2, <1>3

(* The queue reads that the worklet has drained.                           *)
LEMMA PathTold ==
  ASSUME NEW w, NEW d, NEW u \in Seq(Nat), u # <<>>, NEW s, NEW g, NEW o, NEW rest
  PROVE  /\ Past(w, d, u, g) => Past(w, d, Tail(u), g)
         /\ Waiting(w, d, u, s, g) => Waiting(w, d, Tail(u), s, g) /\ Head(u) # g
         /\ Streaming(w, d, u, s, g, o, rest) => Streaming(w, d, Tail(u), s, g, o, rest)
<1>1. /\ 1 \in DOMAIN u /\ Head(u) = u[1]
      /\ \A i \in DOMAIN Tail(u) : i \in Nat /\ i + 1 \in DOMAIN u /\ Tail(u)[i] = u[i + 1]
  BY TailTyped
<1>2. Len(u) \in Nat /\ Len(Tail(u)) = Len(u) - 1
  BY HeadTyped
<1>3. Past(w, d, u, g) => Past(w, d, Tail(u), g)
  BY <1>1 DEF Past
<1>4. Untouched(w, u, s, g) => Untouched(w, Tail(u), s, g) /\ Head(u) # g
  BY <1>1 DEF Untouched
<1>5. Playing(w, d, u, s, g, o) => Playing(w, d, Tail(u), s, g, o)
  <2> SUFFICES ASSUME Playing(w, d, u, s, g, o) PROVE Playing(w, d, Tail(u), s, g, o)
    OBVIOUS
  <2>1. ASSUME NEW i \in DOMAIN Tail(u), Tail(u)[i] = g
        PROVE  i = Len(Tail(u)) /\ d = <<>> /\ w.ring = <<>> /\ ~w.ended /\ o = NoStream
    <3>1. i + 1 \in DOMAIN u /\ u[i + 1] = g /\ i \in Nat
      BY <1>1, <2>1
    <3>2. i + 1 = Len(u) /\ d = <<>> /\ w.ring = <<>> /\ ~w.ended /\ o = NoStream
      BY <3>1 DEF Playing
    <3>a. i + 1 = Len(u) /\ i \in Nat
      BY <3>1, <3>2
    <3>3. i = Len(Tail(u))
      BY ONLY <1>2, <3>a
    <3> QED BY <3>2, <3>3
  <2> QED BY <2>1 DEF Playing
<1>6. ASSUME Streaming(w, d, u, s, g, o, rest) PROVE Streaming(w, d, Tail(u), s, g, o, rest)
  <2>1. PICK k, m \in Nat : StreamingAt(w, d, u, s, g, o, rest, k, m)
    BY <1>6 DEF Streaming
  <2>2. StreamingAt(w, d, Tail(u), s, g, o, rest, k, m)
    BY <1>4, <1>5, <2>1 DEF StreamingAt
  <2> QED BY <2>2 DEF Streaming
<1> QED BY <1>3, <1>4, <1>6 DEF Waiting

LEMMA ToldTheEnd ==
  ASSUME NEW w \in Worklet, NEW d \in Seq(Message), NEW u \in Seq(Nat), u # <<>>
  PROVE  \A s, g, o, rest : Streaming(w, d, u, s, g, o, rest) /\ Head(u) = g =>
           /\ d = <<>> /\ w.ring = <<>> /\ o = NoStream /\ rest = 0
           /\ \A q : Waiting(w, d, Tail(u), q, g)
<1> SUFFICES ASSUME NEW s, NEW g, NEW o, NEW rest, Streaming(w, d, u, s, g, o, rest), Head(u) = g
             PROVE  /\ d = <<>> /\ w.ring = <<>> /\ o = NoStream /\ rest = 0
                    /\ \A q : Waiting(w, d, Tail(u), q, g)
  OBVIOUS
<1>1. /\ 1 \in DOMAIN u /\ u[1] = g
      /\ \A i \in DOMAIN Tail(u) : i \in Nat /\ i + 1 \in DOMAIN u /\ Tail(u)[i] = u[i + 1]
  BY TailTyped
<1>2. DOMAIN Tail(u) = 1 .. Len(u) - 1
  BY HeadTyped
<1>3. PICK k, m \in Nat : StreamingAt(w, d, u, s, g, o, rest, k, m)
  BY DEF Streaming
<1>4. k = 0 /\ Shape(d, 0, m, s, g, o) /\ Playing(w, d, u, s, g, o) /\ rest = m + Len(w.ring)
  <2>1. ~Untouched(w, u, s, g)
    BY <1>1 DEF Untouched
  <2> QED BY <1>3, <2>1 DEF StreamingAt
<1>5. 1 = Len(u) /\ d = <<>> /\ w.ring = <<>> /\ ~w.ended /\ o = NoStream
  BY <1>1, <1>4 DEF Playing
<1>6. Len(d) = 0 /\ Len(w.ring) = 0 /\ DOMAIN d = {} /\ DOMAIN w.ring = {}
  BY <1>5
<1>7. m = 0 /\ rest = 0
  <2>1. 0 + m <= Len(d)
    BY <1>4 DEF Shape
  <2> QED BY <1>4, <1>6, <2>1
<1>8. DOMAIN Tail(u) = {}
  <2>a. 1 = Len(u)
    BY <1>5
  <2>b. Len(u) - 1 = 0
    BY ONLY <2>a
  <2>1. DOMAIN Tail(u) = 1 .. 0
    BY ONLY <1>2, <2>b
  <2> QED BY <2>1
<1>9. ASSUME NEW q PROVE Waiting(w, d, Tail(u), q, g)
  BY <1>5, <1>6, <1>8 DEF Waiting, Silenced, Clean, Untouched
<1> QED BY <1>5, <1>7, <1>9

(* The invariant: where everything is ...                                  *)
Here     == worklet[node]
ToHere   == down[node]
FromHere == up[node]

Wants == {p \in prepares : p.stream # NoStream /\ p.gen = generation}

Places ==
  /\ \A n \in Node : n # node => worklet[n] = Silent(0) /\ down[n] = <<>> /\ up[n] = <<>>
  /\ node = created
  /\ \A p \in prepares : p.gen <= generation /\ (~p.loading => node # NoNode)
  /\ \A p, q \in Wants : p = q
  /\ ready => node # NoNode /\ activeStreamId # NoStream /\ Wants = {}

(* ... what is left of each stream ...                                     *)
Rest(s) == sent[s] - heard[s] - lost[s]

ActiveOnAir ==
  activeStreamId # NoStream =>
    onAir \in {activeStreamId, NoStream} /\ sent[activeStreamId] >= 0 /\ activeStreamId \notin finished
PendingOfActive ==
  /\ activeStreamId = NoStream => pending = <<>>
  /\ \A i \in DOMAIN pending : pending[i].stream = activeStreamId
DoneIsHeard == \A s \in finished : sent[s] >= 0 /\ onAir # s /\ heard[s] + lost[s] = sent[s]
UnsentIsUnheard == \A s \in Stream : sent[s] = -1 => heard[s] = 0 /\ lost[s] = 0
WaitIsCounted ==
  ~ready /\ activeStreamId # NoStream =>
    Rest(activeStreamId) = Len(pending) /\ (endRequested => onAir = NoStream)
Streams == ActiveOnAir /\ PendingOfActive /\ DoneIsHeard /\ UnsentIsUnheard /\ WaitIsCounted

(* ... and what is on its way to the speaker.                              *)
Path ==
  node # NoNode =>
    /\ Free(Here, ToHere, finished)
    /\ Past(Here, ToHere, FromHere, generation)
    /\ ~ready => Waiting(Here, ToHere, FromHere, activeStreamId, generation)
    /\ ready => Streaming(Here, ToHere, FromHere, activeStreamId, generation, onAir,
                          Rest(activeStreamId))

Told == Places /\ Streams /\ Path
OrderlyInv == Orderly => Told

LEMMA HereTyped ==
  ASSUME TypeOK, node # NoNode
  PROVE  /\ node \in Node /\ Here \in Worklet /\ ToHere \in Seq(Message) /\ FromHere \in Seq(Nat)
         /\ Ring = Here.ring /\ Port = ToHere
BY DEF TypeOK, Here, ToHere, FromHere, Ring, Port

LEMMA OrderlyBefore ==
  ASSUME [Next]_vars, Orderly'
  PROVE  Orderly
<1>1. CASE UNCHANGED vars
  BY <1>1 DEF vars, Orderly
<1>2. ASSUME NEW s \in Stream, TtsStart(s) PROVE Orderly
  BY <1>2 DEF TtsStart, StartStream, Orderly
<1>3. ASSUME NEW s \in Stream, Binary(s) PROVE Orderly
  BY <1>3 DEF Binary, Orderly
<1>4. ASSUME NEW s \in Stream, NEW outcome \in Outcome, TtsEnd(s, outcome) PROVE Orderly
  BY <1>4 DEF TtsEnd, history, Orderly
<1>5. CASE Interrupt
  BY <1>5 DEF Interrupt, history, Orderly
<1>6. CASE Gesture
  BY <1>6 DEF Gesture, history, Orderly
<1>7. ASSUME NEW p \in prepares, Load(p) PROVE Orderly
  BY <1>7 DEF Load, Orderly
<1>8. ASSUME NEW p \in prepares, Prepared(p) PROVE Orderly
  BY <1>8 DEF Prepared, history, Orderly
<1>9. ASSUME NEW p \in prepares, PrepareFails(p) PROVE Orderly
  BY <1>9 DEF PrepareFails, history, Orderly
<1>10. ASSUME NEW n \in Node, OnPort(n) PROVE Orderly
  BY <1>10 DEF OnPort, Orderly
<1>11. ASSUME NEW n \in Node, Process(n) PROVE Orderly
  BY <1>11 DEF Process, Orderly
<1>12. ASSUME NEW n \in Node, OnWorkletMessage(n) PROVE Orderly
  BY <1>12 DEF OnWorkletMessage, Orderly
<1> QED
  BY <1>1, <1>2, <1>3, <1>4, <1>5, <1>6, <1>7, <1>8, <1>9, <1>10, <1>11, <1>12
  DEF Next, Settle, Outcome

(* A stream on which nothing has been sent, and no stream, are nowhere.    *)
LEMMA NowhereYet ==
  ASSUME TypeOK, OrderInv, node # NoNode, NEW s, s = NoStream \/ (s \in Stream /\ sent[s] = -1)
  PROVE  Free(Here, ToHere, {s})
<1>1. /\ Here.ring \in Seq(Chunk) /\ ToHere \in Seq(Message) /\ Ring = Here.ring /\ Port = ToHere
      /\ AllSent(Ring, Port, pending, sent)
  BY HereTyped DEF Worklet, OrderInv, Kept
<1>2. ASSUME NEW c \in Chunk, SentYet(c, sent) PROVE c.stream # s
  BY <1>2 DEF SentYet, Chunk
<1>3. \A i \in DOMAIN Here.ring : Here.ring[i].stream # s
  BY <1>1, <1>2 DEF AllSent
<1>4. \A i \in DOMAIN ToHere : IsSamples(ToHere[i]) => ToHere[i].chunk \in Chunk
  BY <1>1, MessagesTyped
<1>5. \A i \in DOMAIN ToHere : IsSamples(ToHere[i]) => ToHere[i].chunk.stream # s
  BY <1>1, <1>2, <1>4 DEF AllSent
<1> QED BY <1>3, <1>5 DEF Free

(* One message goes to the node, and nothing else of it changes.           *)
LEMMA HerePosted ==
  ASSUME TypeOK, NEW ms, PostAll(ms), UNCHANGED <<node, worklet, up>>
  PROVE  /\ Here' = Here /\ FromHere' = FromHere
         /\ node # NoNode => ToHere' = ToHere \o ms
         /\ \A n \in Node : n # node => down'[n] = down[n]
BY PostEffect DEF Here, ToHere, FromHere

LEMMA OrderlyStop ==
  ASSUME TypeOK, OrderInv, Told, Stop, prepares' \subseteq prepares, onAir' \in {onAir, NoStream},
         UNCHANGED <<node, created, worklet, up, sent, heard, lost, finished>>
  PROVE  Told'
<1> DEFINE h == generation + 1
<1>1. /\ generation \in Nat /\ h \in Nat /\ generation < h /\ generation' = h
      /\ PostAll(<<StopAt(h)>>) /\ activeStreamId' = NoStream /\ pending' = <<>> /\ ready' = FALSE
  BY DEF Stop, Clear, TypeOK
<1> HIDE DEF h
<1>2. Places'
  <2>1. \A n \in Node : n # node' => worklet'[n] = Silent(0) /\ down'[n] = <<>> /\ up'[n] = <<>>
    BY <1>1, HerePosted DEF Told, Places
  <2>2. \A p \in prepares' : p.gen \in Nat /\ p.gen <= generation /\ (~p.loading => node' # NoNode)
    BY DEF Told, Places, TypeOK, Preparation
  <2>3. \A p \in prepares' : p.gen <= generation' /\ p.gen # generation'
    BY <1>1, <2>2
  <2>4. Wants' = {}
    BY <2>3 DEF Wants
  <2> QED BY <1>1, <2>1, <2>2, <2>3, <2>4 DEF Told, Places
<1>3. Streams'
  <2>1. NoStream \notin finished
    BY DEF TypeOK
  <2>2. DoneIsHeard'
    BY <2>1 DEF Told, Streams, DoneIsHeard
  <2>3. DOMAIN <<>> = {}
    OBVIOUS
  <2> QED BY <1>1, <2>2, <2>3
      DEF Told, Streams, ActiveOnAir, PendingOfActive, UnsentIsUnheard, WaitIsCounted
<1>4. Path'
  <2> SUFFICES ASSUME node # NoNode
      PROVE  /\ Free(Here', ToHere', finished') /\ Past(Here', ToHere', FromHere', generation')
             /\ Waiting(Here', ToHere', FromHere', activeStreamId', generation')
    BY <1>1 DEF Path
  <2>1. Here' = Here /\ FromHere' = FromHere /\ ToHere' = ToHere \o <<StopAt(h)>>
    BY <1>1, HerePosted
  <2>2. StopAt(h) \in Message /\ StopAt(h).gen = h /\ ~IsSamples(StopAt(h))
    BY <1>1, MessagesTyped, MessageFields DEF IsSamples
  <2>3. /\ Here \in Worklet /\ ToHere \in Seq(Message) /\ FromHere \in Seq(Nat)
        /\ Past(Here, ToHere, FromHere, generation) /\ Free(Here, ToHere, finished)
    BY HereTyped DEF Told, Path
  <2>4. Past(Here, ToHere', FromHere, h) /\ Free(Here, ToHere', finished)
    <3>1. generation <= h /\ h <= h
      BY <1>1
    <3> QED BY <1>1, <2>1, <2>2, <2>3, <3>1, PathPost
  <2>5. Waiting(Here, ToHere', FromHere, NoStream, h)
    <3>1. Free(Here, ToHere, {NoStream})
      BY NowhereYet
    <3> QED BY <1>1, <2>1, <2>3, <3>1, WaitingStop
  <2> QED BY <1>1, <2>1, <2>4, <2>5
<1> QED BY <1>2, <1>3, <1>4 DEF Told

LEMMA OrderlyStart ==
  ASSUME TypeOK, OrderInv, Told, Orderly', NEW s \in Stream, TtsStart(s)
  PROVE  Told'
<1> DEFINE h == generation + 2
           j == generation + 1
           new == [gen |-> h, stream |-> s, loading |-> node = NoNode]
<1>1. /\ activeStreamId = NoStream /\ PostAll(<<StopAt(j)>>) /\ generation' = h
      /\ activeStreamId' = s /\ pending' = <<>> /\ ready' = FALSE /\ endRequested' = FALSE
      /\ prepares' = prepares \cup {new}
      /\ sent[s] = -1 /\ onAir' = s /\ sent' = [sent EXCEPT ![s] = 0]
      /\ UNCHANGED <<node, created, worklet, up, heard, lost, finished>>
  <2>1. activeStreamId = NoStream
    BY DEF TtsStart, StartStream, Orderly
  <2> QED BY <2>1 DEF TtsStart, StartStream
<1>2. generation \in Nat /\ h \in Nat /\ j \in Nat /\ generation < h /\ j <= h
  BY DEF TypeOK
<1>3. new.gen = h /\ new.stream = s /\ (~new.loading => node # NoNode)
  OBVIOUS
<1>n. s # NoStream
  OBVIOUS
<1> HIDE DEF h, j, new
<1>4. Places'
  <2>1. \A n \in Node : n # node' => worklet'[n] = Silent(0) /\ down'[n] = <<>> /\ up'[n] = <<>>
    BY <1>1, HerePosted DEF Told, Places
  <2>2. \A p \in prepares : p.gen \in Nat /\ p.gen <= generation /\ (~p.loading => node # NoNode)
    BY DEF Told, Places, TypeOK, Preparation
  <2>3. \A p \in prepares : p.gen <= h /\ p.gen # h
    BY <1>2, <2>2
  <2>4. \A p \in Wants' : p = new
    BY <1>1, <2>3 DEF Wants
  <2>5. \A p \in prepares' : p.gen <= generation' /\ (~p.loading => node' # NoNode)
    BY <1>1, <1>2, <1>3, <2>2, <2>3
  <2> QED BY <1>1, <2>1, <2>4, <2>5 DEF Told, Places
<1>5. Streams'
  <2>0. sent'[s] = 0 /\ \A x \in Stream : x # s => sent'[x] = sent[x]
    BY <1>1 DEF TypeOK
  <2>1. s \notin finished /\ finished \subseteq Stream
    <3>1. ~(sent[s] >= 0)
      BY <1>1
    <3> QED BY <3>1 DEF Told, Streams, DoneIsHeard, TypeOK
  <2>2. ActiveOnAir'
    BY <1>1, <2>0, <2>1 DEF ActiveOnAir
  <2>3. PendingOfActive'
    BY <1>1, <1>n DEF PendingOfActive
  <2>4. DoneIsHeard'
    BY <1>1, <2>0, <2>1 DEF DoneIsHeard, Told, Streams
  <2>5. UnsentIsUnheard'
    BY <1>1, <2>0 DEF UnsentIsUnheard, Told, Streams
  <2>6. WaitIsCounted'
    <3>1. heard[s] = 0 /\ lost[s] = 0
      BY <1>1 DEF UnsentIsUnheard, Told, Streams
    <3>2. Rest(s)' = 0 /\ Len(<<>>) = 0
      BY <1>1, <2>0, <3>1 DEF Rest
    <3> QED BY <1>1, <3>2 DEF WaitIsCounted, Rest
  <2> QED BY <2>2, <2>3, <2>4, <2>5, <2>6 DEF Streams
<1>6. Path'
  <2> SUFFICES ASSUME node # NoNode
      PROVE  /\ Free(Here', ToHere', finished') /\ Past(Here', ToHere', FromHere', generation')
             /\ Waiting(Here', ToHere', FromHere', activeStreamId', generation')
    BY <1>1 DEF Path
  <2>1. Here' = Here /\ FromHere' = FromHere /\ ToHere' = ToHere \o <<StopAt(j)>>
    BY <1>1, HerePosted
  <2>2. StopAt(j) \in Message /\ StopAt(j).gen = j /\ ~IsSamples(StopAt(j))
    BY <1>2, MessagesTyped, MessageFields DEF IsSamples
  <2>3. /\ Here \in Worklet /\ ToHere \in Seq(Message) /\ FromHere \in Seq(Nat)
        /\ Past(Here, ToHere, FromHere, generation) /\ Free(Here, ToHere, finished)
    BY HereTyped DEF Told, Path
  <2>4. Past(Here, ToHere', FromHere, h) /\ Free(Here, ToHere', finished)
    <3>1. generation <= h
      BY <1>2
    <3> QED BY <1>2, <2>1, <2>2, <2>3, <3>1, PathPost
  <2>5. Waiting(Here, ToHere', FromHere, s, h)
    <3>1. Free(Here, ToHere, {s})
      BY <1>1, NowhereYet
    <3> QED BY <1>2, <2>1, <2>3, <3>1, WaitingStop
  <2> QED BY <1>1, <2>1, <2>4, <2>5
<1> QED BY <1>4, <1>5, <1>6 DEF Told

(* Places, and the node, when only the queue and the server step.          *)
LEMMA PlacesStay ==
  ASSUME Told, UNCHANGED <<generation, worklet, up, node, created>>,
         \A n \in Node : n # node => down'[n] = down[n],
         prepares' \subseteq prepares, ready' => (ready /\ activeStreamId' = activeStreamId)
  PROVE  Places'
<1>1. Wants' \subseteq Wants
  BY DEF Wants
<1> QED BY <1>1 DEF Told, Places

LEMMA OrderlyBinary ==
  ASSUME TypeOK, TypeOK', OnAirBegun, OrderInv, Told, NEW s \in Stream, Binary(s)
  PROVE  Told'
<1> DEFINE c == [stream |-> s, index |-> sent[s] + 1]
<1>1. /\ onAir = s /\ sent' = [sent EXCEPT ![s] = @ + 1] /\ EnqueueChunk(c)
      /\ UNCHANGED <<onAir, node, created, prepares, worklet, up, heard, finished>>
  BY DEF Binary, backend
<1>2. sent[s] \in Nat /\ sent[s] + 1 \in 1 .. MaxChunks /\ c \in Chunk /\ c.stream = s
  BY DEF Binary, OnAirBegun, TypeOK, Chunk
<1>3. sent'[s] = sent[s] + 1 /\ \A x \in Stream : x # s => sent'[x] = sent[x]
  BY <1>1 DEF TypeOK
<1>n. s # NoStream /\ s \notin finished /\ finished \subseteq Stream
  BY <1>1 DEF Told, Streams, DoneIsHeard, TypeOK
<1>c. heard[s] \in Nat /\ lost[s] \in Nat
  BY DEF TypeOK
<1> HIDE DEF c
<1>4. CASE activeStreamId = NoStream /\ UNCHANGED <<queue, down, lost>>
  <2>1. Places'
    BY <1>1, <1>4, PlacesStay DEF queue
  <2>2. DoneIsHeard' /\ UnsentIsUnheard'
    BY <1>1, <1>2, <1>3, <1>4, <1>n DEF Told, Streams, DoneIsHeard, UnsentIsUnheard
  <2>3. ActiveOnAir' /\ PendingOfActive' /\ WaitIsCounted'
    BY <1>4 DEF Told, Streams, ActiveOnAir, PendingOfActive, WaitIsCounted, queue
  <2>4. ~ready
    BY <1>4 DEF Told, Places
  <2>5. Path'
    BY <1>1, <1>4, <2>4 DEF Told, Path, Here, ToHere, FromHere, queue
  <2> QED BY <2>1, <2>2, <2>3, <2>5 DEF Told, Streams
<1>5. CASE /\ activeStreamId # NoStream /\ ready /\ PostAll(<<Samples(generation, c)>>)
           /\ UNCHANGED <<queue, lost>>
  <2>a. s = activeStreamId
    BY <1>1, <1>5, <1>n DEF Told, Streams, ActiveOnAir
  <2>1. Places'
    BY <1>1, <1>5, PlacesStay, HerePosted DEF queue
  <2>2. DoneIsHeard' /\ UnsentIsUnheard'
    BY <1>1, <1>2, <1>3, <1>5, <1>n DEF Told, Streams, DoneIsHeard, UnsentIsUnheard
  <2>3. ActiveOnAir'
    BY <1>1, <1>2, <1>3, <1>5, <2>a DEF Told, Streams, ActiveOnAir, queue
  <2>4. PendingOfActive' /\ WaitIsCounted'
    BY <1>5 DEF Told, Streams, PendingOfActive, WaitIsCounted, queue
  <2>5. Path'
    <3>0. node # NoNode /\ generation \in Nat
      BY <1>5 DEF Told, Places, TypeOK
    <3>1. Here' = Here /\ FromHere' = FromHere /\ ToHere' = ToHere \o <<Samples(generation, c)>>
      BY <1>1, <1>5, <3>0, HerePosted
    <3>2. /\ Here \in Worklet /\ ToHere \in Seq(Message) /\ FromHere \in Seq(Nat)
          /\ Past(Here, ToHere, FromHere, generation) /\ Free(Here, ToHere, finished)
          /\ Streaming(Here, ToHere, FromHere, s, generation, onAir, Rest(s))
      BY <1>5, <2>a, <3>0, HereTyped DEF Told, Path
    <3>3. /\ Samples(generation, c) \in Message /\ Samples(generation, c).gen = generation
          /\ Samples(generation, c).chunk.stream = s
      <4>1. Samples(generation, c) \in Message
        BY <1>2, <3>0, MessagesTyped
      <4>2. Samples(generation, c).gen = generation /\ Samples(generation, c).chunk = c
        BY MessageFields
      <4> QED BY <1>2, <4>1, <4>2
    <3>4. Past(Here, ToHere', FromHere, generation) /\ Free(Here, ToHere', finished)
      <4>1. generation <= generation
        BY <3>0
      <4> QED BY <1>n, <3>0, <3>1, <3>2, <3>3, <4>1, PathPost
    <3>5. Streaming(Here, ToHere', FromHere, s, generation, onAir, Rest(s) + 1)
      <4>1. onAir # NoStream
        BY <1>1, <1>n
      <4> QED BY <1>2, <3>0, <3>1, <3>2, <4>1, PostSamples
    <3>6. Rest(s)' = Rest(s) + 1
      BY <1>1, <1>2, <1>3, <1>5, <1>c DEF Rest
    <3>7. activeStreamId' = s /\ generation' = generation /\ ready' = ready
      BY <1>5, <2>a DEF queue
    <3>8. Rest(activeStreamId)' = Rest(s) + 1
      BY <3>6, <3>7 DEF Rest
    <3> QED BY <1>1, <1>5, <3>1, <3>4, <3>5, <3>7, <3>8 DEF Path
  <2> QED BY <2>1, <2>2, <2>3, <2>4, <2>5 DEF Told, Streams
<1>6. CASE /\ activeStreamId # NoStream /\ ~ready
           /\ \/ /\ Len(pending) < PendingLimit
                 /\ pending' = Append(pending, c)
                 /\ UNCHANGED lost
              \/ /\ Len(pending) >= PendingLimit
                 /\ pending' = Append(Tail(pending), c)
                 /\ lost' = [lost EXCEPT ![Head(pending).stream] = @ + 1]
           /\ UNCHANGED <<activeStreamId, generation, ready, endRequested, down>>
  <2>a. s = activeStreamId /\ pending \in Seq(Chunk) /\ Len(pending) \in Nat
    BY <1>1, <1>6, <1>n DEF Told, Streams, ActiveOnAir, TypeOK
  <2>p. \A i \in DOMAIN pending : pending[i].stream = s
    BY <2>a DEF Told, Streams, PendingOfActive
  <2>r. ~endRequested /\ Rest(s) = Len(pending)
    BY <1>1, <1>6, <1>n, <2>a DEF Told, Streams, WaitIsCounted
  <2>1. Places'
    BY <1>1, <1>6, PlacesStay
  <2>3. ActiveOnAir'
    BY <1>1, <1>2, <1>3, <1>6, <2>a DEF Told, Streams, ActiveOnAir
  <2>5. Path'
    BY <1>1, <1>6 DEF Told, Path, Here, ToHere, FromHere
  <2>6. /\ \A x \in Stream : x # s => lost'[x] = lost[x]
        /\ \A i \in DOMAIN pending' : pending'[i].stream = s
        /\ sent'[s] - heard[s] - lost'[s] = Len(pending')
    <3>1. CASE pending' = Append(pending, c) /\ UNCHANGED lost
      <4>1. \A i \in DOMAIN pending' : pending'[i].stream = s
        BY <1>2, <2>a, <2>p, <3>1, AppendCases
      <4>2. Len(pending') = Len(pending) + 1
        BY <1>2, <2>a, <3>1, AppendTyped
      <4>3. sent'[s] - heard[s] - lost'[s] = Len(pending')
        BY <1>2, <1>3, <1>c, <2>a, <2>r, <3>1, <4>2 DEF Rest
      <4> QED BY <3>1, <4>1, <4>3
    <3>2. CASE /\ Len(pending) >= PendingLimit /\ pending' = Append(Tail(pending), c)
               /\ lost' = [lost EXCEPT ![Head(pending).stream] = @ + 1]
      <4>0. pending # <<>>
        BY <3>2
      <4>1. /\ Tail(pending) \in Seq(Chunk) /\ Len(Tail(pending)) = Len(pending) - 1
            /\ Head(pending).stream = s /\ \A i \in DOMAIN Tail(pending) : Tail(pending)[i].stream = s
        <5>1. Tail(pending) \in Seq(Chunk) /\ Len(Tail(pending)) = Len(pending) - 1
          BY <2>a, <4>0, HeadTyped
        <5> QED BY <2>a, <2>p, <4>0, <5>1, TailTyped
      <4>2. \A i \in DOMAIN pending' : pending'[i].stream = s
        BY <1>2, <3>2, <4>1, AppendCases
      <4>3. Len(pending') = Len(pending)
        <5>1. Len(pending') = Len(Tail(pending)) + 1
          BY <1>2, <3>2, <4>1, AppendTyped
        <5> QED BY <2>a, <4>1, <5>1
      <4>4. lost'[s] = lost[s] + 1 /\ \A x \in Stream : x # s => lost'[x] = lost[x]
        BY <3>2, <4>1 DEF TypeOK
      <4>5. sent'[s] - heard[s] - lost'[s] = Len(pending')
        <5>1. sent[s] \in Nat /\ sent'[s] = sent[s] + 1 /\ lost'[s] = lost[s] + 1
          BY <1>2, <1>3, <4>4
        <5>2. sent[s] - heard[s] - lost[s] = Len(pending) /\ Len(pending) \in Nat
          BY <2>a, <2>r DEF Rest
        <5>3. Len(pending') = Len(pending)
          BY <4>3
        <5> QED BY ONLY <1>c, <5>1, <5>2, <5>3
      <4> QED BY <4>2, <4>4, <4>5
    <3> QED BY <1>6, <3>1, <3>2
  <2>7. DoneIsHeard' /\ UnsentIsUnheard'
    BY <1>1, <1>2, <1>3, <1>n, <2>6 DEF Told, Streams, DoneIsHeard, UnsentIsUnheard
  <2>8. PendingOfActive'
    BY <1>6, <2>6, <2>a DEF PendingOfActive
  <2>9. WaitIsCounted'
    BY <1>1, <1>6, <2>6, <2>a, <2>r DEF WaitIsCounted, Rest
  <2> QED BY <2>1, <2>3, <2>5, <2>7, <2>8, <2>9 DEF Told, Streams
<1> QED BY <1>1, <1>4, <1>5, <1>6 DEF EnqueueChunk

LEMMA OrderlyEnd ==
  ASSUME TypeOK, OrderInv, Told, NEW s \in Stream, NEW outcome, TtsEnd(s, outcome)
  PROVE  Told'
<1>1. /\ onAir = s /\ onAir' = NoStream /\ EndStream(s, outcome) /\ s # NoStream
      /\ UNCHANGED <<sent, node, created, prepares, worklet, up, heard, lost, finished>>
  BY DEF TtsEnd, backend, history
<1>2. DoneIsHeard' /\ UnsentIsUnheard'
  <2>1. NoStream \notin finished
    BY DEF TypeOK
  <2> QED BY <1>1, <2>1 DEF Told, Streams, DoneIsHeard, UnsentIsUnheard
<1>3. CASE activeStreamId # s /\ UNCHANGED <<queue, down>>
  <2>1. activeStreamId = NoStream /\ ~ready
    BY <1>1, <1>3 DEF Told, Streams, ActiveOnAir, Places
  <2>2. Places'
    BY <1>1, <1>3, PlacesStay DEF queue
  <2>3. ActiveOnAir' /\ PendingOfActive' /\ WaitIsCounted'
    BY <1>3, <2>1 DEF Told, Streams, ActiveOnAir, PendingOfActive, WaitIsCounted, queue
  <2>4. Path'
    BY <1>1, <1>3, <2>1 DEF Told, Path, Here, ToHere, FromHere, queue
  <2> QED BY <1>2, <2>2, <2>3, <2>4 DEF Told, Streams
<1>4. CASE activeStreamId = s /\ ready /\ PostAll(<<End(generation)>>) /\ UNCHANGED queue
  <2>0. node # NoNode /\ generation \in Nat
    BY <1>4 DEF Told, Places, TypeOK
  <2>1. Places'
    BY <1>1, <1>4, PlacesStay, HerePosted DEF queue
  <2>2. ActiveOnAir' /\ PendingOfActive' /\ WaitIsCounted'
    BY <1>1, <1>4 DEF Told, Streams, ActiveOnAir, PendingOfActive, WaitIsCounted, queue
  <2>3. Here' = Here /\ FromHere' = FromHere /\ ToHere' = ToHere \o <<End(generation)>>
    BY <1>1, <1>4, <2>0, HerePosted
  <2>4. /\ Here \in Worklet /\ ToHere \in Seq(Message) /\ FromHere \in Seq(Nat)
        /\ Past(Here, ToHere, FromHere, generation) /\ Free(Here, ToHere, finished)
        /\ Streaming(Here, ToHere, FromHere, s, generation, onAir, Rest(s))
    BY <1>4, <2>0, HereTyped DEF Told, Path
  <2>5. End(generation) \in Message /\ End(generation).gen = generation /\ ~IsSamples(End(generation))
    BY <2>0, MessagesTyped, MessageFields DEF IsSamples
  <2>6. Past(Here, ToHere', FromHere, generation) /\ Free(Here, ToHere', finished)
    <3>1. generation <= generation
      BY <2>0
    <3> QED BY <2>0, <2>3, <2>4, <2>5, <3>1, PathPost
  <2>7. Streaming(Here, ToHere', FromHere, s, generation, NoStream, Rest(s))
    <3>1. onAir # NoStream
      BY <1>1
    <3> QED BY <2>0, <2>3, <2>4, <3>1, PostEnd
  <2>8. activeStreamId' = s /\ generation' = generation /\ ready' = ready
        /\ Rest(activeStreamId)' = Rest(s)
    BY <1>1, <1>4 DEF queue, Rest
  <2>9. Path'
    BY <1>1, <1>4, <2>3, <2>6, <2>7, <2>8 DEF Path
  <2> QED BY <1>2, <2>1, <2>2, <2>9 DEF Told, Streams
<1>5. CASE /\ activeStreamId = s /\ ~ready /\ endRequested' = TRUE
           /\ UNCHANGED <<activeStreamId, generation, pending, ready, down>>
  <2>1. Places'
    BY <1>1, <1>5, PlacesStay
  <2>2. ActiveOnAir' /\ PendingOfActive' /\ WaitIsCounted'
    BY <1>1, <1>5 DEF Told, Streams, ActiveOnAir, PendingOfActive, WaitIsCounted, Rest
  <2>3. Path'
    BY <1>1, <1>5 DEF Told, Path, Here, ToHere, FromHere
  <2> QED BY <1>2, <2>1, <2>2, <2>3 DEF Told, Streams
<1>6. CASE Stop
  BY <1>1, <1>6, OrderlyStop
<1> QED BY <1>1, <1>3, <1>4, <1>5, <1>6 DEF EndStream

(* The first node is made.                                                 *)
LEMMA OrderlyLoad ==
  ASSUME TypeOK, OrderInv, Told, Orderly', NEW p \in prepares, Load(p)
  PROVE  Told'
<1> DEFINE loaded == [p EXCEPT !.loading = FALSE]
<1>1. /\ node = NoNode /\ ~ready /\ created = NoNode
      /\ created' = created + 1 /\ node' = created + 1 /\ node' \in Node
      /\ prepares' = (prepares \ {p}) \cup {loaded}
      /\ UNCHANGED <<onAir, sent, activeStreamId, generation, pending, ready, endRequested,
                     worklet, down, up, heard, lost, finished>>
  <2>1. node = NoNode
    BY DEF Load, Orderly
  <2>2. ~ready /\ created = NoNode
    BY <2>1 DEF Told, Places
  <2>3. created' = created + 1 /\ node' = created + 1 /\ created < MaxNodes
    BY DEF Load
  <2>4. node' \in Node
    BY <2>2, <2>3 DEF Node, NoNode
  <2> QED BY <2>1, <2>2, <2>3, <2>4 DEF Load, server, queue
<1>2. loaded.gen = p.gen /\ loaded.stream = p.stream
  BY DEF TypeOK, Preparation
<1> HIDE DEF loaded
<1>3. Here' = Silent(0) /\ ToHere' = <<>> /\ FromHere' = <<>>
  <2>1. node' # node
    BY <1>1 DEF Node, NoNode
  <2> QED BY <1>1, <2>1 DEF Told, Places, Here, ToHere, FromHere
<1>4. Places'
  <2>1. \A n \in Node : n # node
    BY <1>1 DEF Node, NoNode
  <2>2. \A x \in Wants' : \/ x \in Wants /\ x # p
                          \/ x = loaded /\ p \in Wants
    BY <1>1, <1>2 DEF Wants
  <2>3. \A x, y \in Wants' : x = y
    BY <2>2 DEF Told, Places
  <2>4. \A x \in prepares' : x.gen <= generation' /\ node' # NoNode
    BY <1>1, <1>2 DEF Told, Places, Node, NoNode
  <2> QED BY <1>1, <2>1, <2>3, <2>4 DEF Told, Places
<1>5. Streams'
  BY <1>1 DEF Told, Streams, ActiveOnAir, PendingOfActive, DoneIsHeard, UnsentIsUnheard,
              WaitIsCounted, Rest
<1>6. Path'
  <2>1. /\ Silent(0).ring = <<>> /\ Silent(0).gen = 0 /\ Silent(0).ended = FALSE
        /\ DOMAIN <<>> = {} /\ Len(<<>>) = 0
    BY DEF Silent
  <2>2. generation \in Nat /\ 0 <= generation
    BY DEF TypeOK
  <2>3. Free(Silent(0), <<>>, finished) /\ Past(Silent(0), <<>>, <<>>, generation)
    BY <2>1, <2>2 DEF Free, Past
  <2>4. Waiting(Silent(0), <<>>, <<>>, activeStreamId, generation)
    BY <2>1 DEF Waiting, Silenced, Clean, Untouched
  <2> QED BY <1>1, <1>3, <2>3, <2>4 DEF Path
<1> QED BY <1>4, <1>5, <1>6 DEF Told

(* Calls of prepare() come and go, and nothing else changes.               *)
LEMMA OrderlyAside ==
  ASSUME Told,
         UNCHANGED <<onAir, sent, activeStreamId, generation, pending, ready, endRequested,
                     node, created, worklet, down, up, heard, lost, finished>>,
         \A p \in prepares' : \/ p \in prepares
                              \/ p.gen <= generation /\ p.loading /\ p.stream = NoStream
  PROVE  Told'
<1>1. Wants' \subseteq Wants
  BY DEF Wants
<1>2. Places'
  BY <1>1 DEF Told, Places
<1>3. Streams'
  BY DEF Told, Streams, ActiveOnAir, PendingOfActive, DoneIsHeard, UnsentIsUnheard,
         WaitIsCounted, Rest
<1>4. Path'
  BY DEF Told, Path, Here, ToHere, FromHere, Rest
<1> QED BY <1>2, <1>3, <1>4 DEF Told

LEMMA OrderlyPrepared ==
  ASSUME TypeOK, OrderInv, Told, NEW p \in prepares, Prepared(p)
  PROVE  Told'
<1>1. /\ ~p.loading /\ prepares' = prepares \ {p}
      /\ UNCHANGED <<onAir, sent, node, created, worklet, up, heard, lost, finished>>
  BY DEF Prepared, server, history
<1>2. CASE UNCHANGED <<queue, down>>
  BY <1>1, <1>2, OrderlyAside DEF queue
<1>3. CASE /\ Wanted(p) /\ ready' = TRUE /\ pending' = <<>>
           /\ PostAll(<<Configure(generation)>> \o Backlog)
           /\ UNCHANGED <<activeStreamId, generation, endRequested>>
  <2>1. p \in Wants /\ node # NoNode /\ activeStreamId # NoStream /\ ~ready
    BY <1>1, <1>3 DEF Wanted, Wants, Told, Places
  <2>2. Places'
    <3>1. Wants' = {}
      BY <1>1, <1>3, <2>1 DEF Wants, Told, Places
    <3>2. \A n \in Node : n # node' => worklet'[n] = Silent(0) /\ down'[n] = <<>> /\ up'[n] = <<>>
      BY <1>1, <1>3, HerePosted DEF Told, Places
    <3> QED BY <1>1, <1>3, <2>1, <3>1, <3>2 DEF Told, Places
  <2>3. Streams'
    <3>1. DOMAIN <<>> = {}
      OBVIOUS
    <3> QED BY <1>1, <1>3, <3>1 DEF Told, Streams, ActiveOnAir, PendingOfActive, DoneIsHeard,
                                    UnsentIsUnheard, WaitIsCounted
  <2>4. Path'
    <3>1. Here' = Here /\ FromHere' = FromHere /\ ToHere' = ToHere \o (<<Configure(generation)>> \o Backlog)
      BY <1>1, <1>3, <2>1, HerePosted
    <3>2. /\ Here \in Worklet /\ ToHere \in Seq(Message) /\ FromHere \in Seq(Nat)
          /\ Past(Here, ToHere, FromHere, generation) /\ Free(Here, ToHere, finished)
          /\ Waiting(Here, ToHere, FromHere, activeStreamId, generation)
      BY <2>1, HereTyped DEF Told, Path
    <3>3. /\ \A i \in DOMAIN pending : pending[i].stream = activeStreamId
          /\ activeStreamId \notin finished
          /\ Rest(activeStreamId) = Len(pending) /\ (endRequested => onAir = NoStream)
      BY <2>1 DEF Told, Streams, ActiveOnAir, PendingOfActive, WaitIsCounted
    <3>4. Past(Here, ToHere', FromHere, generation) /\ Free(Here, ToHere', finished)
      BY <3>1, <3>2, <3>3, PathBacklog
    <3>5. Streaming(Here, ToHere', FromHere, activeStreamId, generation, onAir, Rest(activeStreamId))
      BY <3>1, <3>2, <3>3, PostBacklog
    <3>6. Rest(activeStreamId)' = Rest(activeStreamId)
      BY <1>1, <1>3 DEF Rest
    <3> QED BY <1>1, <1>3, <3>1, <3>4, <3>5, <3>6 DEF Path
  <2> QED BY <2>2, <2>3, <2>4 DEF Told
<1> QED BY <1>2, <1>3 DEF Prepared

(* The node reads its port.                                                *)
LEMMA OrderlyPort ==
  ASSUME TypeOK, TypeOK', OrderInv, Told, NEW n \in Node, OnPort(n)
  PROVE  Told'
<1> DEFINE m == Head(down[n])
<1>1. /\ m \in Message /\ down[n] # <<>> /\ down'[n] = Tail(down[n])
      /\ \A k \in Node \ {n} : worklet'[k] = worklet[k] /\ down'[k] = down[k]
      /\ \/ IsReset(m) /\ worklet'[n] = Silent(m.gen) /\ lost' = lost
         \/ /\ IsSamples(m) /\ m.gen = worklet[n].gen /\ lost' = lost
            /\ worklet'[n].ring = Append(worklet[n].ring, m.chunk)
            /\ worklet'[n].gen = worklet[n].gen /\ worklet'[n].ended = worklet[n].ended
         \/ /\ Dropped(worklet[n], worklet'[n], m)
            /\ lost' = [lost EXCEPT ![m.chunk.stream] = @ + 1]
         \/ IsSamples(m) /\ m.gen # worklet[n].gen /\ worklet'[n] = worklet[n] /\ lost' = lost
         \/ /\ m.type = "end" /\ m.gen = worklet[n].gen /\ lost' = lost
            /\ worklet'[n].ring = worklet[n].ring /\ worklet'[n].gen = worklet[n].gen
            /\ worklet'[n].ended = TRUE
         \/ m.type = "end" /\ m.gen # worklet[n].gen /\ worklet'[n] = worklet[n] /\ lost' = lost
  BY PortEffect DEF IsReset, Dropped
<1>u. UNCHANGED <<onAir, sent, activeStreamId, generation, pending, ready, endRequested,
                  node, created, prepares, up, heard, refused, replaced, finished>>
  BY PortEffect
<1> HIDE DEF m
<1>2. n = node /\ node # NoNode
  <2>1. n = node
    BY <1>1 DEF Told, Places
  <2> QED BY <2>1 DEF Node, NoNode
<1>3. /\ Here \in Worklet /\ Here' \in Worklet /\ ToHere \in Seq(Message) /\ FromHere' = FromHere
      /\ Here = worklet[n] /\ Here' = worklet'[n] /\ ToHere # <<>> /\ ToHere' = Tail(ToHere)
      /\ m = Head(ToHere)
  BY <1>1, <1>2, <1>u, HereTyped DEF Here, ToHere, FromHere, TypeOK, m
<1>4. Read(Here, Here', m)
  BY <1>1, <1>3 DEF Read, IsReset, IsSamples, Dropped
<1>5. /\ Free(Here, ToHere, finished) /\ Past(Here, ToHere, FromHere, generation)
      /\ ~ready => Waiting(Here, ToHere, FromHere, activeStreamId, generation)
      /\ ready => Streaming(Here, ToHere, FromHere, activeStreamId, generation, onAir,
                            Rest(activeStreamId))
  BY <1>2 DEF Told, Path
<1>6. Places'
  BY <1>1, <1>2, <1>u DEF Told, Places, Wants
<1>7. Free(Here', ToHere', finished') /\ Past(Here', ToHere', FromHere', generation')
  BY <1>3, <1>4, <1>5, <1>u, FreeRead, PastRead
<1>c. 1 \in DOMAIN ToHere /\ m = ToHere[1]
  BY <1>3, TailTyped
(* What is lost was sent, and is not of a stream that is done.              *)
<1>8. \/ lost' = lost /\ ~Dropped(Here, Here', m)
      \/ /\ Dropped(Here, Here', m) /\ IsSamples(m)
         /\ m.chunk \in Chunk /\ m.chunk.stream \in Stream /\ m.chunk.stream \notin finished
         /\ sent[m.chunk.stream] >= 1
         /\ lost' = [lost EXCEPT ![m.chunk.stream] = @ + 1]
  <2>1. CASE /\ Dropped(Here, Here', m)
             /\ lost' = [lost EXCEPT ![m.chunk.stream] = @ + 1]
    <3>1. IsSamples(m) /\ m.chunk \in Chunk
      BY <1>1, <2>1, MessagesTyped DEF Dropped
    <3>2. m.chunk.stream \notin finished
      BY <1>5, <1>c, <3>1 DEF Free
    <3>3. SentYet(m.chunk, sent)
      <4>1. AllSent(Ring, Port, pending, sent) /\ Port = ToHere
        BY <1>2, HereTyped DEF OrderInv, Kept
      <4> QED BY <1>c, <3>1, <4>1 DEF AllSent
    <3>4. m.chunk.stream \in Stream /\ sent[m.chunk.stream] >= 1
      <4>1. m.chunk.stream \in Stream /\ m.chunk.index \in 1 .. MaxChunks
        BY <3>1 DEF Chunk
      <4>2. sent[m.chunk.stream] \in -1 .. MaxChunks
        BY <4>1 DEF TypeOK
      <4>3. m.chunk.index <= sent[m.chunk.stream]
        BY <3>3 DEF SentYet
      <4> QED BY <4>1, <4>2, <4>3
    <3> QED BY <2>1, <3>1, <3>2, <3>4
  <2>2. CASE IsReset(m) /\ lost' = lost
    BY <2>2 DEF IsReset, Dropped, IsSamples
  <2>3. CASE /\ IsSamples(m) /\ lost' = lost /\ worklet'[n].ring = Append(worklet[n].ring, m.chunk)
    <3>1. worklet[n].ring \in Seq(Chunk) /\ m.chunk \in Chunk
      BY <1>1, <1>3, <2>3, MessagesTyped DEF Worklet
    <3>2. /\ Len(worklet'[n].ring) = Len(worklet[n].ring) + 1
          /\ Len(worklet[n].ring) \in Nat
      BY <2>3, <3>1, AppendTyped
    <3>3. worklet'[n] # worklet[n]
      BY <3>2
    <3> QED BY <1>3, <2>3, <3>3 DEF Dropped
  <2>4. CASE m.gen # worklet[n].gen /\ lost' = lost
    BY <1>3, <2>4 DEF Dropped
  <2>5. CASE m.type = "end" /\ lost' = lost
    BY <2>5 DEF Dropped, IsSamples
  <2> QED BY <1>1, <1>3, <2>1, <2>2, <2>3, <2>4, <2>5
<1>9. DoneIsHeard' /\ UnsentIsUnheard'
  <2>1. \A x \in Stream : x \in finished \/ sent[x] = -1 => lost'[x] = lost[x]
    <3>1. CASE lost' = lost
      BY <3>1
    <3>2. ASSUME NEW y \in Stream, y \notin finished, sent[y] >= 1,
                 lost' = [lost EXCEPT ![y] = @ + 1]
          PROVE  \A x \in Stream : x \in finished \/ sent[x] = -1 => lost'[x] = lost[x]
      <4>1. ~(sent[y] = -1)
        BY <3>2
      <4> QED BY <3>2, <4>1 DEF TypeOK
    <3> QED BY <1>8, <3>1, <3>2
  <2>2. finished \subseteq Stream
    BY DEF TypeOK
  <2> QED BY <1>u, <2>1, <2>2 DEF Told, Streams, DoneIsHeard, UnsentIsUnheard
<1>10. ActiveOnAir' /\ PendingOfActive'
  BY <1>u DEF Told, Streams, ActiveOnAir, PendingOfActive
(* What the active stream has left.                                        *)
<1>11. ~(Dropped(Here, Here', m) /\ m.chunk.stream = activeStreamId) =>
          Rest(activeStreamId)' = Rest(activeStreamId) \/ activeStreamId = NoStream
  BY <1>8, <1>u DEF Rest, TypeOK
<1>12. CASE ~ready
  <2>1. Waiting(Here', ToHere', FromHere', activeStreamId', generation')
    BY <1>3, <1>4, <1>5, <1>12, <1>u, WaitingRead
  <2>2. Path'
    BY <1>7, <1>12, <1>u, <2>1 DEF Path
  <2>3. ~(Dropped(Here, Here', m) /\ m.chunk.stream = activeStreamId)
    <3>1. IsSamples(m) => m.chunk.stream # activeStreamId
      <4>1. 1 \in 1 .. Len(ToHere)
        BY <1>3, <1>c
      <4> QED BY <1>5, <1>12, <1>c, <4>1 DEF Waiting, Clean
    <3> QED BY <3>1 DEF Dropped
  <2>4. WaitIsCounted'
    BY <1>11, <1>12, <1>u, <2>3 DEF Told, Streams, WaitIsCounted, Rest
  <2> QED BY <1>6, <1>9, <1>10, <2>2, <2>4 DEF Told, Streams
<1>13. CASE ready
  <2>0. activeStreamId # NoStream /\ activeStreamId \in Stream
    BY <1>13 DEF Told, Places, TypeOK
  <2>1. WaitIsCounted'
    BY <1>13, <1>u DEF WaitIsCounted
  <2>2. PICK k, j \in Nat : StreamingAt(Here, ToHere, FromHere, activeStreamId, generation, onAir,
                                        Rest(activeStreamId), k, j)
    BY <1>5, <1>13 DEF Streaming
  <2>3. Streaming(Here', ToHere', FromHere, activeStreamId, generation, onAir, Rest(activeStreamId)')
    <3>1. CASE k > 0
      <4>1. Streaming(Here', ToHere', FromHere, activeStreamId, generation, onAir,
                      Rest(activeStreamId))
        BY <1>3, <1>4, <2>2, <3>1, ReadBefore
      <4>2. ~(Dropped(Here, Here', m) /\ m.chunk.stream = activeStreamId)
        <5>1. 1 \in 1 .. k /\ Clean(ToHere, k, activeStreamId, generation)
          BY <2>2, <3>1 DEF StreamingAt, Shape
        <5>2. IsSamples(m) => m.chunk.stream # activeStreamId
          BY <1>c, <5>1 DEF Clean
        <5> QED BY <5>2 DEF Dropped
      <4> QED BY <1>11, <2>0, <4>1, <4>2
    <3>2. CASE k = 0
      <4>1. \/ /\ Dropped(Here, Here', m) /\ m.chunk.stream = activeStreamId
               /\ Streaming(Here', ToHere', FromHere, activeStreamId, generation, onAir,
                            Rest(activeStreamId) - 1)
            \/ /\ ~Dropped(Here, Here', m)
               /\ Streaming(Here', ToHere', FromHere, activeStreamId, generation, onAir,
                            Rest(activeStreamId))
        BY <1>3, <1>4, <2>2, <3>2, ReadLive
      <4>2. Dropped(Here, Here', m) /\ m.chunk.stream = activeStreamId =>
              Rest(activeStreamId)' = Rest(activeStreamId) - 1
        BY <1>8, <1>u, <2>0 DEF Rest, TypeOK
      <4> QED BY <1>11, <2>0, <4>1, <4>2
    <3> QED BY <3>1, <3>2
  <2>4. Path'
    BY <1>3, <1>7, <1>13, <1>u, <2>3 DEF Path
  <2> QED BY <1>6, <1>9, <1>10, <2>1, <2>4 DEF Told, Streams
<1> QED BY <1>12, <1>13 DEF TypeOK

(* The node renders.                                                       *)
LEMMA OrderlyProcess ==
  ASSUME TypeOK, TypeOK', OrderInv, Told, NEW n \in Node, Process(n)
  PROVE  Told'
<1>1. /\ \A k \in Node \ {n} : worklet'[k] = worklet[k] /\ up'[k] = up[k]
      /\ worklet'[n].gen = worklet[n].gen /\ worklet[n] # Silent(0)
      /\ \/ /\ worklet[n].ring # <<>> /\ worklet'[n].ring = Tail(worklet[n].ring)
            /\ heard' = [heard EXCEPT ![Head(worklet[n].ring).stream] = @ + 1]
         \/ worklet[n].ring = <<>> /\ worklet'[n].ring = <<>> /\ heard' = heard
      /\ \/ worklet'[n].ended = worklet[n].ended /\ up'[n] = up[n]
         \/ /\ worklet[n].ended /\ ~worklet'[n].ended /\ worklet'[n].ring = <<>>
            /\ up'[n] = Append(up[n], worklet[n].gen)
  BY ProcessEffect
<1>u. UNCHANGED <<onAir, sent, activeStreamId, generation, pending, ready, endRequested,
                  node, created, prepares, down, lost, refused, replaced, finished>>
  BY ProcessEffect
<1>2. n = node /\ node # NoNode
  <2>1. n = node
    BY <1>1 DEF Told, Places
  <2> QED BY <2>1 DEF Node, NoNode
<1>3. /\ Here \in Worklet /\ Here' \in Worklet /\ ToHere \in Seq(Message) /\ FromHere \in Seq(Nat)
      /\ Here = worklet[n] /\ Here' = worklet'[n] /\ ToHere' = ToHere
      /\ FromHere = up[n] /\ FromHere' = up'[n]
  BY <1>2, <1>u, HereTyped DEF Here, ToHere, FromHere, TypeOK
<1>4. Renders(Here, Here', FromHere, FromHere')
  BY <1>1, <1>3 DEF Renders
<1>5. /\ Free(Here, ToHere, finished) /\ Past(Here, ToHere, FromHere, generation)
      /\ ~ready => Waiting(Here, ToHere, FromHere, activeStreamId, generation)
      /\ ready => Streaming(Here, ToHere, FromHere, activeStreamId, generation, onAir,
                            Rest(activeStreamId))
  BY <1>2 DEF Told, Path
<1>6. Places'
  BY <1>1, <1>2, <1>u DEF Told, Places, Wants
<1>7. Free(Here', ToHere', finished') /\ Past(Here', ToHere', FromHere', generation')
  BY <1>3, <1>4, <1>5, <1>u, PathRenders
<1> DEFINE c == Head(Here.ring)
(* What is heard was sent, and is not of a stream that is done.             *)
<1>8. \/ Here.ring = <<>> /\ heard' = heard
      \/ /\ Here.ring # <<>> /\ c.stream \in Stream /\ c.stream \notin finished
         /\ sent[c.stream] >= 1 /\ heard' = [heard EXCEPT ![c.stream] = @ + 1]
  <2>1. CASE Here.ring = <<>> /\ heard' = heard
    BY <2>1
  <2>2. CASE Here.ring # <<>> /\ heard' = [heard EXCEPT ![c.stream] = @ + 1]
    <3>1. Here.ring \in Seq(Chunk)
      BY <1>3 DEF Worklet
    <3>2. 1 \in DOMAIN Here.ring /\ c = Here.ring[1] /\ c \in Chunk
      BY <2>2, <3>1, TailTyped
    <3> HIDE DEF c
    <3>3. c.stream \notin finished
      BY <1>5, <3>2 DEF Free
    <3>4. SentYet(c, sent)
      <4>1. AllSent(Ring, Port, pending, sent) /\ Ring = Here.ring
        BY <1>2, HereTyped DEF OrderInv, Kept
      <4> QED BY <3>2, <4>1 DEF AllSent
    <3>5. c.stream \in Stream /\ sent[c.stream] >= 1
      <4>1. c.stream \in Stream /\ c.index \in 1 .. MaxChunks
        BY <3>2 DEF Chunk
      <4>2. sent[c.stream] \in -1 .. MaxChunks
        BY <4>1 DEF TypeOK
      <4>3. c.index <= sent[c.stream]
        BY <3>4 DEF SentYet
      <4> QED BY <4>1, <4>2, <4>3
    <3> QED BY <2>2, <3>3, <3>5
  <2> QED BY <1>1, <1>3, <2>1, <2>2
<1> HIDE DEF c
<1>9. DoneIsHeard' /\ UnsentIsUnheard'
  <2>1. \A x \in Stream : x \in finished \/ sent[x] = -1 => heard'[x] = heard[x]
    <3>1. CASE heard' = heard
      BY <3>1
    <3>2. ASSUME NEW y \in Stream, y \notin finished, sent[y] >= 1,
                 heard' = [heard EXCEPT ![y] = @ + 1]
          PROVE  \A x \in Stream : x \in finished \/ sent[x] = -1 => heard'[x] = heard[x]
      <4>1. ~(sent[y] = -1)
        BY <3>2
      <4> QED BY <3>2, <4>1 DEF TypeOK
    <3> QED BY <1>8, <3>1, <3>2
  <2>2. finished \subseteq Stream
    BY DEF TypeOK
  <2> QED BY <1>u, <2>1, <2>2 DEF Told, Streams, DoneIsHeard, UnsentIsUnheard
<1>10. ActiveOnAir' /\ PendingOfActive'
  BY <1>u DEF Told, Streams, ActiveOnAir, PendingOfActive
<1>11. ASSUME activeStreamId # NoStream
       PROVE  /\ (Here.ring # <<>> => c.stream # activeStreamId) =>
                   Rest(activeStreamId)' = Rest(activeStreamId)
              /\ (Here.ring # <<>> /\ c.stream = activeStreamId) =>
                   Rest(activeStreamId)' = Rest(activeStreamId) - 1
  <2>1. /\ activeStreamId \in Stream /\ heard \in [Stream -> Nat] /\ sent[activeStreamId] \in Int
        /\ heard[activeStreamId] \in Nat /\ lost[activeStreamId] \in Nat
    BY <1>11 DEF TypeOK
  <2>2. (Here.ring # <<>> => c.stream # activeStreamId) =>
          heard'[activeStreamId] = heard[activeStreamId]
    BY <1>8, <2>1
  <2>3. (Here.ring # <<>> /\ c.stream = activeStreamId) =>
          heard'[activeStreamId] = heard[activeStreamId] + 1
    BY <1>8, <2>1
  <2>4. Rest(activeStreamId)' = sent[activeStreamId] - heard'[activeStreamId] - lost[activeStreamId]
    BY <1>u DEF Rest
  <2>5. Rest(activeStreamId) = sent[activeStreamId] - heard[activeStreamId] - lost[activeStreamId]
    BY DEF Rest
  <2> QED BY <2>1, <2>2, <2>3, <2>4, <2>5
<1>12. CASE ~ready
  <2>1. Waiting(Here', ToHere', FromHere', activeStreamId', generation')
    BY <1>3, <1>4, <1>5, <1>12, <1>u, WaitingRenders
  <2>2. Path'
    BY <1>7, <1>12, <1>u, <2>1 DEF Path
  <2>3. Here.ring # <<>> => c.stream # activeStreamId
    <3>1. \A i \in DOMAIN Here.ring : Here.ring[i].stream # activeStreamId
      BY <1>5, <1>12 DEF Waiting, Untouched
    <3>2. Here.ring # <<>> => 1 \in DOMAIN Here.ring /\ c = Here.ring[1]
      BY <1>3, <1>4, RendersRing DEF c
    <3> QED BY <3>1, <3>2
  <2>4. WaitIsCounted'
    BY <1>11, <1>12, <1>u, <2>3 DEF Told, Streams, WaitIsCounted, Rest
  <2> QED BY <1>6, <1>9, <1>10, <2>2, <2>4 DEF Told, Streams
<1>13. CASE ready
  <2>0. activeStreamId # NoStream
    BY <1>13 DEF Told, Places
  <2>1. WaitIsCounted'
    BY <1>13, <1>u DEF WaitIsCounted
  <2>2. \/ /\ Here.ring # <<>> /\ c.stream = activeStreamId
           /\ Streaming(Here', ToHere, FromHere', activeStreamId, generation, onAir,
                        Rest(activeStreamId) - 1)
        \/ /\ Here.ring # <<>> => c.stream # activeStreamId
           /\ Streaming(Here', ToHere, FromHere', activeStreamId, generation, onAir,
                        Rest(activeStreamId))
    BY <1>3, <1>4, <1>5, <1>13, StreamingRenders DEF c
  <2>3. Streaming(Here', ToHere, FromHere', activeStreamId, generation, onAir, Rest(activeStreamId)')
    BY <1>11, <2>0, <2>2
  <2>4. Path'
    BY <1>3, <1>7, <1>13, <1>u, <2>3 DEF Path
  <2> QED BY <1>6, <1>9, <1>10, <2>1, <2>4 DEF Told, Streams
<1> QED BY <1>12, <1>13 DEF TypeOK

(* The queue is told that a worklet has drained.                           *)
LEMMA OrderlyTold ==
  ASSUME TypeOK, OrderInv, Told, NEW n \in Node, OnWorkletMessage(n)
  PROVE  Told'
<1>1. /\ up[n] # <<>> /\ Drained(Head(up[n])) /\ up'[n] = Tail(up[n])
      /\ \A k \in Node \ {n} : up'[k] = up[k]
  BY DEF OnWorkletMessage, TypeOK
<1>u. UNCHANGED <<onAir, sent, node, created, prepares, worklet, down, heard, lost>>
  BY DEF OnWorkletMessage, server, backend
<1>2. n = node /\ node # NoNode
  <2>1. n = node
    BY <1>1 DEF Told, Places
  <2> QED BY <2>1 DEF Node, NoNode
<1>3. /\ Here \in Worklet /\ ToHere \in Seq(Message) /\ FromHere \in Seq(Nat) /\ FromHere # <<>>
      /\ Here' = Here /\ ToHere' = ToHere /\ FromHere = up[n] /\ FromHere' = Tail(FromHere)
  BY <1>1, <1>2, <1>u, HereTyped DEF Here, ToHere, FromHere
<1>5. /\ Free(Here, ToHere, finished) /\ Past(Here, ToHere, FromHere, generation)
      /\ ~ready => Waiting(Here, ToHere, FromHere, activeStreamId, generation)
      /\ ready => Streaming(Here, ToHere, FromHere, activeStreamId, generation, onAir,
                            Rest(activeStreamId))
  BY <1>2 DEF Told, Path
<1>6. Past(Here, ToHere, FromHere', generation)
  BY <1>3, <1>5, PathTold
<1>7. CASE UNCHANGED <<queue, finished>>
  <2>0. UNCHANGED <<activeStreamId, generation, pending, ready, endRequested, finished>>
    BY <1>7 DEF queue
  <2>1. Places'
    BY <1>1, <1>2, <1>u, <2>0 DEF Told, Places, Wants
  <2>2. Streams'
    BY <1>u, <2>0 DEF Told, Streams, ActiveOnAir, PendingOfActive, DoneIsHeard, UnsentIsUnheard,
                      WaitIsCounted, Rest
  <2>3. /\ ~ready => Waiting(Here, ToHere, FromHere', activeStreamId, generation)
        /\ ready => Streaming(Here, ToHere, FromHere', activeStreamId, generation, onAir,
                              Rest(activeStreamId))
    BY <1>3, <1>5, PathTold
  <2>4. Rest(activeStreamId)' = Rest(activeStreamId)
    BY <1>u, <2>0 DEF Rest
  <2>5. Path'
    BY <1>3, <1>5, <1>6, <1>u, <2>0, <2>3, <2>4 DEF Path
  <2> QED BY <2>1, <2>2, <2>5 DEF Told
<1>8. CASE /\ Head(up[n]) = generation /\ activeStreamId' = NoStream /\ ready' = FALSE
           /\ finished' = finished \cup ({activeStreamId} \ {NoStream})
           /\ UNCHANGED <<generation, pending, endRequested>>
  <2>1. ready /\ activeStreamId # NoStream /\ Head(FromHere) = generation
    <3>1. ready
      BY <1>3, <1>5, <1>8, PathTold DEF TypeOK
    <3> QED BY <1>3, <1>8, <3>1 DEF Told, Places
  <2>2. /\ ToHere = <<>> /\ Here.ring = <<>> /\ onAir = NoStream /\ Rest(activeStreamId) = 0
        /\ Waiting(Here, ToHere, FromHere', NoStream, generation)
    <3>1. Streaming(Here, ToHere, FromHere, activeStreamId, generation, onAir, Rest(activeStreamId))
      BY <1>5, <2>1
    <3>2. /\ ToHere = <<>> /\ Here.ring = <<>> /\ onAir = NoStream /\ Rest(activeStreamId) = 0
          /\ \A q : Waiting(Here, ToHere, Tail(FromHere), q, generation)
      <4>1. Here \in Worklet /\ ToHere \in Seq(Message) /\ FromHere \in Seq(Nat) /\ FromHere # <<>>
        BY <1>3
      <4>2. Head(FromHere) = generation
        BY <2>1
      <4>3. \A s, g, o, rest : Streaming(Here, ToHere, FromHere, s, g, o, rest) /\ Head(FromHere) = g =>
              /\ ToHere = <<>> /\ Here.ring = <<>> /\ o = NoStream /\ rest = 0
              /\ \A q : Waiting(Here, ToHere, Tail(FromHere), q, g)
        BY ONLY <4>1, ToldTheEnd
      <4> QED BY ONLY <3>1, <4>2, <4>3
    <3> QED BY <1>3, <3>2
  <2>3. Places'
    BY <1>1, <1>2, <1>8, <1>u DEF Told, Places, Wants
  <2>4. finished' = finished \cup {activeStreamId} /\ activeStreamId \in Stream
    BY <1>8, <2>1 DEF TypeOK
  <2>5. DoneIsHeard'
    <3>1. sent[activeStreamId] >= 0
      BY <2>1 DEF Told, Streams, ActiveOnAir
    <3>2. heard[activeStreamId] + lost[activeStreamId] = sent[activeStreamId]
      <4>1. /\ sent[activeStreamId] \in Int /\ heard[activeStreamId] \in Nat
            /\ lost[activeStreamId] \in Nat
        BY <2>4 DEF TypeOK
      <4> QED BY <2>2, <4>1 DEF Rest
    <3> QED BY <1>u, <2>1, <2>2, <2>4, <3>1, <3>2 DEF Told, Streams, DoneIsHeard
  <2>6. PendingOfActive'
    <3>1. pending' = <<>> /\ DOMAIN <<>> = {}
      BY <1>8, <2>1 DEF OrderInv
    <3> QED BY <3>1 DEF PendingOfActive
  <2>7. ActiveOnAir' /\ UnsentIsUnheard' /\ WaitIsCounted'
    BY <1>8, <1>u DEF Told, Streams, ActiveOnAir, UnsentIsUnheard, WaitIsCounted
  <2>8. Path'
    <3>1. Free(Here, ToHere, finished')
      BY <2>2 DEF Free
    <3> QED BY <1>3, <1>6, <1>8, <2>2, <3>1 DEF Path
  <2> QED BY <2>3, <2>5, <2>6, <2>7, <2>8 DEF Told, Streams
<1> QED BY <1>1, <1>7, <1>8 DEF Drained

LEMMA StepOrderly ==
  ASSUME TypeOK, TypeOK', OnAirBegun, OrderInv, OrderlyInv, [Next]_vars
  PROVE  OrderlyInv'
<1> SUFFICES ASSUME Orderly' PROVE Told'
  BY DEF OrderlyInv
<1>0. Told
  BY OrderlyBefore DEF OrderlyInv
<1>1. CASE UNCHANGED vars
  BY <1>0, <1>1, OrderlyAside DEF vars
<1>2. ASSUME NEW s \in Stream, TtsStart(s) PROVE Told'
  BY <1>0, <1>2, OrderlyStart
<1>3. ASSUME NEW s \in Stream, Binary(s) PROVE Told'
  BY <1>0, <1>3, OrderlyBinary
<1>4. ASSUME NEW s \in Stream, NEW outcome \in Outcome, TtsEnd(s, outcome) PROVE Told'
  BY <1>0, <1>4, OrderlyEnd
<1>5. CASE Interrupt
  BY <1>0, <1>5, OrderlyStop DEF Interrupt, server, backend, history
<1>6. CASE Gesture
  <2>1. generation \in Nat /\ 0 <= generation
    BY DEF TypeOK
  <2>2. \A p \in prepares' : \/ p \in prepares
                             \/ p.gen <= generation /\ p.loading /\ p.stream = NoStream
    BY <1>6, <2>1 DEF Gesture
  <2> QED BY <1>0, <1>6, <2>2, OrderlyAside DEF Gesture, server, queue, history
<1>7. ASSUME NEW p \in prepares, Load(p) PROVE Told'
  BY <1>0, <1>7, OrderlyLoad
<1>8. ASSUME NEW p \in prepares, Prepared(p) PROVE Told'
  BY <1>0, <1>8, OrderlyPrepared
<1>9. ASSUME NEW p \in prepares, PrepareFails(p) PROVE Told'
  <2>1. CASE Stop
    BY <1>0, <1>9, <2>1, OrderlyStop DEF PrepareFails, server, history
  <2>2. CASE UNCHANGED <<queue, down>>
    BY <1>0, <1>9, <2>2, OrderlyAside DEF PrepareFails, server, queue, history
  <2> QED BY <1>9, <2>1, <2>2 DEF PrepareFails
<1>10. ASSUME NEW n \in Node, OnPort(n) PROVE Told'
  BY <1>0, <1>10, OrderlyPort
<1>11. ASSUME NEW n \in Node, Process(n) PROVE Told'
  BY <1>0, <1>11, OrderlyProcess
<1>12. ASSUME NEW n \in Node, OnWorkletMessage(n) PROVE Told'
  BY <1>0, <1>12, OrderlyTold
<1> QED
  BY <1>1, <1>2, <1>3, <1>4, <1>5, <1>6, <1>7, <1>8, <1>9, <1>10, <1>11, <1>12
  DEF Next, Settle, Outcome

LEMMA InitOrderly == Init => OrderlyInv
<1> SUFFICES ASSUME Init PROVE Told
  BY DEF OrderlyInv
<1>1. Places
  BY DEF Init, Places, Wants
<1>2. Streams
  BY DEF Init, Streams, ActiveOnAir, PendingOfActive, DoneIsHeard, UnsentIsUnheard, WaitIsCounted
<1>3. Path
  <2> SUFFICES ASSUME node # NoNode PROVE Path
    BY DEF Path
  <2>1. Here = Silent(0) /\ ToHere = <<>> /\ FromHere = <<>>
    BY DEF Init, Node, NoNode, Here, ToHere, FromHere
  <2>2. /\ Silent(0).ring = <<>> /\ Silent(0).gen = 0 /\ Silent(0).ended = FALSE
        /\ DOMAIN <<>> = {} /\ Len(<<>>) = 0
    BY DEF Silent
  <2>3. Free(Silent(0), <<>>, finished) /\ Past(Silent(0), <<>>, <<>>, 0)
    BY <2>2 DEF Free, Past
  <2>4. Waiting(Silent(0), <<>>, <<>>, activeStreamId, 0)
    BY <2>2 DEF Waiting, Silenced, Clean, Untouched
  <2> QED BY <2>1, <2>3, <2>4 DEF Init, Path
<1> QED BY <1>1, <1>2, <1>3 DEF Told

PlaybackInv == TypeOK /\ OnAirBegun /\ OrderInv /\ OrderlyInv

LEMMA PlaybackInvHolds == Spec => []PlaybackInv
<1>1. Init => PlaybackInv
  BY InitTypes, InitOrder, InitOrderly DEF PlaybackInv
<1>2. PlaybackInv /\ [Next]_vars => PlaybackInv'
  BY StepTypes, StepOrder, StepOrderly DEF PlaybackInv
<1> QED BY <1>1, <1>2, PTL DEF Spec

(* Once no stream is active and the worklet has read its port, its ring is *)
(* empty: whatever stop(), a failure of prepare() or a stream that drained *)
(* left behind, a later stop or configure is behind it on the port.        *)
THEOREM RestStaysSilent == Spec => []RestIsSilent
<1>1. PlaybackInv => RestIsSilent
  <2> SUFFICES ASSUME PlaybackInv, Orderly, activeStreamId = NoStream, node # NoNode, down[node] = <<>>
               PROVE  worklet[node].ring = <<>>
    BY DEF RestIsSilent
  <2>1. Told
    BY DEF PlaybackInv, OrderlyInv
  <2>2. ~ready
    BY <2>1 DEF Told, Places
  <2>3. Silenced(worklet[node].ring, <<>>)
    BY <2>1, <2>2 DEF Told, Path, Waiting, Here, ToHere
  <2>4. DOMAIN <<>> = {}
    OBVIOUS
  <2> QED BY <2>3, <2>4 DEF Silenced
<1> QED BY <1>1, PlaybackInvHolds, PTL

(* A stream that ended because it drained was heard to the end: all that   *)
(* was sent on it has been rendered or dropped for lack of room, and the   *)
(* drained message of one stream never ends another (handleWorkletMessage  *)
(* compares the generation).                                               *)
THEOREM DrainedWasHeard == Spec => []CompletedIsHeard
<1>1. PlaybackInv => CompletedIsHeard
  BY DEF PlaybackInv, OrderlyInv, Told, Streams, DoneIsHeard, CompletedIsHeard
<1> QED BY <1>1, PlaybackInvHolds, PTL
=============================================================================
