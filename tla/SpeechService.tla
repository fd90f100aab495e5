--------------------------- MODULE SpeechService ----------------------------
(***************************************************************************)
(* Speech synthesis across two processes: the Runtime's loopback adapter   *)
(* (runtime/tts.py, chosen by server.py) and the HTTP service in front of  *)
(* the model (scripts/kokoro-tts-service.py, scripts/qwen-tts-service.py). *)
(*                                                                         *)
(* A call is followed at three places: what became of it for the coroutine *)
(* that made it (caller), the Runtime's worker thread that does the HTTP   *)
(* exchange (thread), and the service's thread for its connection          *)
(* (handler).  Giving a call up frees the coroutine only: the thread goes  *)
(* on, and so does the handler, which holds its place in the service.      *)
(*                                                                         *)
(* Both services have the same synthesize(); they differ in which failures *)
(* they answer with which status.                                          *)
(***************************************************************************)
EXTENDS Integers, FiniteSets

CONSTANTS
  Call,       (* calls of the adapter's synthesize()                       *)
  Workers,    (* threads of the Runtime's default executor                 *)
  MaxWaiting, (* requests a service admits: both scripts have 2            *)
  MaxDeaths   (* bound: times the service process dies                     *)

ASSUME LimitsAssumption ==
  /\ Workers \in Nat \ {0}
  /\ MaxWaiting \in Nat \ {0}
  /\ MaxDeaths \in Nat

VARIABLES
  adapter,  (* RUNTIME_TTS_BACKEND                                         *)
  pinned,   (* the service runs the revision that the adapter expects      *)
  runtime,  (* the Runtime: starting, serving, stopped                     *)
  caller,   (* per call: idle, waiting, or how it ended                    *)
  thread,   (* per call: none, queued in the executor, sent, over          *)
  handler,  (* per call: none, received, admitted, inferring, leaving,     *)
            (* replying                                                    *)
  status,   (* per call: what the handler answers                          *)
  waiting,  (* the service's counter                                       *)
  deaths

vars == <<adapter, pinned, runtime, caller, thread, handler, status, waiting, deaths>>

Loopback == {"kokoro-loopback", "qwen-loopback"}

Adapters == Loopback \cup {"disabled", "deterministic"}

(* TtsError (TtsUnavailable is one), TimeoutError and ValueError are what  *)
(* deliver() catches; what else is raised is "raised".                     *)
Ended == {"audio", "TtsUnavailable", "TtsError", "TimeoutError", "cancelled", "raised"}

InService == {"admitted", "inferring", "leaving"}

Init ==
  /\ adapter \in Adapters
  /\ pinned \in BOOLEAN
  /\ runtime = "starting"
  /\ caller = [c \in Call |-> "idle"]
  /\ thread = [c \in Call |-> "none"]
  /\ handler = [c \in Call |-> "none"]
  /\ status = [c \in Call |-> "none"]
  /\ waiting = 0
  /\ deaths = 0

service == <<handler, status, waiting, deaths>>

-----------------------------------------------------------------------------
(* The Runtime.                                                            *)

(* main(): a loopback service has to be there with the pinned revision,    *)
(* and the recogniser has to load, before any connection is accepted.      *)
Start ==
  /\ runtime = "starting"
  /\ \/ runtime' = "serving" /\ (adapter \in Loopback => pinned)
     \/ runtime' = "stopped"
  /\ UNCHANGED <<adapter, pinned, caller, thread, service>>

(* The adapters that have no service answer at once.                       *)
AnswerLocally(c) ==
  /\ runtime = "serving" /\ caller[c] = "idle"
  /\ \/ adapter = "disabled" /\ caller' = [caller EXCEPT ![c] = "TtsUnavailable"]
     \/ adapter = "deterministic" /\ caller' = [caller EXCEPT ![c] = "audio"]
  /\ UNCHANGED <<adapter, pinned, runtime, thread, service>>

Synthesize(c) ==
  /\ runtime = "serving" /\ caller[c] = "idle"
  /\ adapter \in Loopback
  /\ caller' = [caller EXCEPT ![c] = "waiting"]
  /\ thread' = [thread EXCEPT ![c] = "queued"]
  /\ UNCHANGED <<adapter, pinned, runtime, service>>

(* The thread is over; the coroutine hears of it if it still waits.        *)
Return(c, how) ==
  /\ thread' = [thread EXCEPT ![c] = "over"]
  /\ caller' = [caller EXCEPT ![c] = IF @ = "waiting" THEN how ELSE @]

(* to_thread(): the executor has a free thread, which sends the request.   *)
Send(c) ==
  /\ thread[c] = "queued"
  /\ Cardinality({b \in Call : thread[b] = "sent"}) < Workers
  /\ thread' = [thread EXCEPT ![c] = "sent"]
  /\ handler' = [handler EXCEPT ![c] = "received"]
  /\ UNCHANGED <<adapter, pinned, runtime, caller, status, waiting, deaths>>

(* Nothing listens while the service is being started again: URLError.     *)
Refused(c) ==
  /\ thread[c] = "queued"
  /\ deaths > 0
  /\ Return(c, "TtsUnavailable")
  /\ UNCHANGED <<adapter, pinned, runtime, service>>

(* The coroutine stops waiting.  A call that has not got a thread is taken *)
(* back; one that has is left to it.                                       *)
GivenUp(c, how) ==
  /\ caller[c] = "waiting"
  /\ caller' = [caller EXCEPT ![c] = how]
  /\ thread' = [thread EXCEPT ![c] = IF @ = "queued" THEN "over" ELSE @]
  /\ UNCHANGED <<adapter, pinned, runtime, service>>

(* wait_for() around to_thread().                                          *)
Deadline(c) == GivenUp(c, "TimeoutError")

(* deliver() cancels the clause it had synthesised ahead.                  *)
Abandon(c) == GivenUp(c, "cancelled")

(* urlopen() gives up on a service that says nothing: TimeoutError.        *)
SocketTimeout(c) ==
  /\ thread[c] = "sent"
  /\ Return(c, "TtsUnavailable")
  /\ UNCHANGED <<adapter, pinned, runtime, service>>

(* What an exchange may end in when its connection breaks.  Before there   *)
(* is a status it is a URLError while the request is sent, and after that  *)
(* RemoteDisconnected or ConnectionResetError, which is no URLError.  Of a *)
(* body that is cut short read() returns what is there: synthesize() finds *)
(* it misaligned or empty, or takes it for the audio if it ends between    *)
(* two samples.                                                            *)
Broken(c) ==
  {"raised"} \cup IF handler[c] = "replying" /\ status[c] = "ok"
                  THEN {"audio", "TtsError"}
                  ELSE {"TtsUnavailable"}

(* The connection breaks, and the service does not know it yet.            *)
Cut(c) ==
  /\ thread[c] = "sent"
  /\ \E how \in Broken(c) : Return(c, how)
  /\ UNCHANGED <<adapter, pinned, runtime, service>>

-----------------------------------------------------------------------------
(* The service.                                                            *)

(* Mutant: the place is counted before the limit is looked at.             *)
AdmitUncounted(c) ==
  /\ handler[c] = "received"
  /\ IF waiting >= MaxWaiting
     THEN /\ handler' = [handler EXCEPT ![c] = "replying"]
          /\ status' = [status EXCEPT ![c] = "full"]
          /\ waiting' = waiting + 1
     ELSE /\ handler' = [handler EXCEPT ![c] = "admitted"]
          /\ waiting' = waiting + 1
          /\ UNCHANGED status
  /\ UNCHANGED <<adapter, pinned, runtime, caller, thread, deaths>>

(* QueueFull is raised before a place is taken.                            *)
Admit(c) ==
  /\ handler[c] = "received"
  /\ IF waiting >= MaxWaiting
     THEN /\ handler' = [handler EXCEPT ![c] = "replying"]
          /\ status' = [status EXCEPT ![c] = "full"]
          /\ UNCHANGED waiting
     ELSE /\ handler' = [handler EXCEPT ![c] = "admitted"]
          /\ waiting' = waiting + 1
          /\ UNCHANGED status
  /\ UNCHANGED <<adapter, pinned, runtime, caller, thread, deaths>>

(* The semaphore: one inference at a time.                                 *)
Infer(c) ==
  /\ handler[c] = "admitted"
  /\ \A b \in Call : handler[b] # "inferring"
  /\ handler' = [handler EXCEPT ![c] = "inferring"]
  /\ UNCHANGED <<adapter, pinned, runtime, caller, thread, status, waiting, deaths>>

(* do_POST's except clauses; 400 and 500 are both "failed", as nobody      *)
(* tells them apart.  A model's own failure is mostly a RuntimeError,      *)
(* which the Qwen service takes for a full queue.                          *)
QwenStatus(outcome) ==
  CASE outcome = "audio" -> "ok"
    [] outcome = "RuntimeError" -> "full"
    [] OTHER -> "failed"

KokoroStatus(outcome) == IF outcome = "audio" THEN "ok" ELSE "failed"

StatusOf(outcome) ==
  IF adapter = "qwen-loopback" THEN QwenStatus(outcome) ELSE KokoroStatus(outcome)

(* The model returns or raises; both release the semaphore.                *)
Inferred(c) ==
  /\ handler[c] = "inferring"
  /\ handler' = [handler EXCEPT ![c] = "leaving"]
  /\ \E outcome \in {"audio", "ValueError", "RuntimeError", "Exception"} :
       status' = [status EXCEPT ![c] = StatusOf(outcome)]
  /\ UNCHANGED <<adapter, pinned, runtime, caller, thread, waiting, deaths>>

(* Mutant: the place is given back only if the model returned.             *)
LeaveIfDone(c) ==
  /\ handler[c] = "leaving"
  /\ handler' = [handler EXCEPT ![c] = "replying"]
  /\ waiting' = IF status[c] = "ok" THEN waiting - 1 ELSE waiting
  /\ UNCHANGED <<adapter, pinned, runtime, caller, thread, status, deaths>>

(* finally: the place is given back, and then the audio is looked at.      *)
Leave(c) ==
  /\ handler[c] = "leaving"
  /\ handler' = [handler EXCEPT ![c] = "replying"]
  /\ waiting' = waiting - 1
  /\ \/ UNCHANGED status
     \/ status[c] = "ok" /\ status' = [status EXCEPT ![c] = StatusOf("ValueError")]
  /\ UNCHANGED <<adapter, pinned, runtime, caller, thread, deaths>>

(* The answer is written.  If the thread has hung up, writing raises, and  *)
(* so does the error page that is sent instead; the handler ends anyway.   *)
(* urlopen() raises HTTPError, a URLError, for every status but 200.       *)
(* What a service sends with status 200 has passed the checks that         *)
(* synthesize() makes of it: only a body cut short (Broken) fails them.    *)
Reply(c) ==
  /\ handler[c] = "replying"
  /\ handler' = [handler EXCEPT ![c] = "none"]
  /\ IF thread[c] = "sent"
     THEN Return(c, IF status[c] = "ok" THEN "audio" ELSE "TtsUnavailable")
     ELSE UNCHANGED <<caller, thread>>
  /\ status' = [status EXCEPT ![c] = "none"]
  /\ UNCHANGED <<adapter, pinned, runtime, waiting, deaths>>

(* The process dies and is started again, which breaks the connections of  *)
(* all exchanges under way.                                                *)
Die ==
  /\ deaths < MaxDeaths
  /\ deaths' = deaths + 1
  /\ handler' = [c \in Call |-> "none"]
  /\ status' = [c \in Call |-> "none"]
  /\ waiting' = 0
  /\ thread' = [c \in Call |-> IF thread[c] = "sent" THEN "over" ELSE thread[c]]
  /\ \E how \in [{c \in Call : thread[c] = "sent"} -> Ended] :
       /\ \A c \in DOMAIN how : how[c] \in Broken(c)
       /\ caller' = [c \in Call |-> IF c \in DOMAIN how /\ caller[c] = "waiting"
                                    THEN how[c] ELSE caller[c]]
  /\ UNCHANGED <<adapter, pinned, runtime>>

-----------------------------------------------------------------------------
Serve(c) == Admit(c) \/ Infer(c) \/ Inferred(c) \/ Leave(c) \/ Reply(c)

Next ==
  \/ Start
  \/ Die
  \/ \E c \in Call :
       \/ AnswerLocally(c) \/ Synthesize(c)
       \/ Send(c) \/ Refused(c) \/ Deadline(c) \/ Abandon(c) \/ SocketTimeout(c) \/ Cut(c)
       \/ Admit(c) \/ Infer(c) \/ Inferred(c) \/ Leave(c) \/ Reply(c)

(* Threads run, generation is bounded, and a socket times out.             *)
Fairness ==
  /\ \A c \in Call : WF_vars(Serve(c))
  /\ \A c \in Call : WF_vars(Send(c))
  /\ \A c \in Call : WF_vars(SocketTimeout(c))

Spec == Init /\ [][Next]_vars /\ Fairness

-----------------------------------------------------------------------------
(* Properties.                                                             *)

(* The counter that admission goes by is the number of handlers that hold  *)
(* a place, at most MaxWaiting, and one of them at most uses the model:    *)
(* refusals, failures of the model, callers that gave up and a restart     *)
(* neither leak a place nor give one back twice.                           *)
PlacesAreCounted ==
  /\ waiting = Cardinality({c \in Call : handler[c] \in InService})
  /\ waiting <= MaxWaiting
  /\ Cardinality({c \in Call : handler[c] = "inferring"}) <= 1

(* The Kokoro service answers 429 only to a request that found every place *)
(* taken; in the Qwen service it may also be the model that failed.        *)
FullMeansFull ==
  [][\A c \in Call :
       (adapter = "kokoro-loopback" /\ status[c] # "full" /\ status'[c] = "full")
       => Cardinality({b \in Call \ {c} : handler[b] \in InService}) = MaxWaiting]_vars

(* Calls that nobody waits for any more still go through the service one   *)
(* by one; in the end every place is free again.                           *)
PlacesAreGivenBack == <>[](waiting = 0 /\ \A c \in Call : handler[c] = "none")
=============================================================================
