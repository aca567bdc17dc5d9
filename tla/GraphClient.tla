----------------------------- MODULE GraphClient -----------------------------
(***************************************************************************)
(* One call of the Graph client: _request in microsoft/graph_client.py,    *)
(* with the tenacity loop around every attempt, the pool of connections    *)
(* the attempts share and the server behind it.  A client belongs to one   *)
(* worker thread, Self, which makes one call after the other; the other    *)
(* threads appear as far as they take tokens from the bucket that all      *)
(* attempts have to pass (the bucket of the mailbox is a second one of the *)
(* same kind, asked after it).                                             *)
(*                                                                         *)
(* The call modelled is one that has an effect when it is executed (POST,  *)
(* PATCH, DELETE, PUT).  The exponential backoff after failures other than *)
(* a 429 takes no time here.                                               *)
(*                                                                         *)
(* An observer counts the requests that leave, of all threads, during      *)
(* windows of time.                                                        *)
(***************************************************************************)
EXTENDS Naturals, FiniteSets

CONSTANTS
  Threads,       \* worker threads
  Self,          \* the one whose client is looked at
  Cost,          \* ticks per request the bucket is configured for
  Capacity,      \* tokens the bucket holds
  MaxRetries,    \* _MAX_RETRIES: attempts of a call, 7 in the code
  DefaultPause,  \* pause taken where Retry-After cannot be read, 30 in the code
  Pauses,        \* pauses a server may ask for
  MaxCloses,     \* bound on the times a call sees its connections closed
  MaxWindow      \* length of a window, in ticks

ASSUME ClientAssumption ==
  /\ Self \in Threads /\ IsFiniteSet(Threads)
  /\ Cost \in Nat \ {0}
  /\ Capacity \in Nat /\ Capacity >= Cost
  /\ MaxRetries \in Nat \ {0}
  /\ DefaultPause \in Nat \ {0}
  /\ Pauses \subseteq Nat
  /\ MaxCloses \in Nat
  /\ MaxWindow \in Nat

VARIABLES
  pool,        \* "live", or "dead": its connections are half closed
  pc,          \* "idle", "acquire", "queue", "send" or "sleep"
  attempt,     \* attempts made by the call
  timer,       \* ticks the client has still to sleep before it retries
  result,      \* of the last call that ended: "none", "ok" or "error"
  \* the server
  executed,    \* times it executed the call
  \* observers of the call
  lost,        \* executions whose answer did not arrive
  closed,      \* times its connections were closed
  deadHits,    \* attempts that met a dead pool
  \* the rate limiter
  tokens, elapsed, asleep, wait,
  \* its observers
  age,         \* ticks since the window was opened
  sent         \* requests that left in it

call == <<pool, pc, attempt, timer, result, executed, lost, closed, deadHits>>
effects == <<executed, lost>>
bucket == <<tokens, elapsed, asleep, wait>>
window == <<age, sent>>
vars == <<call, bucket, window>>

Bucket == INSTANCE TokenBucket

TypeOK ==
  /\ Bucket!TypeOK
  /\ pool \in {"live", "dead"}
  /\ pc \in {"idle", "acquire", "queue", "send", "sleep"}
  /\ attempt \in 0..MaxRetries
  /\ (pc = "sleep") => (attempt \in 1..(MaxRetries - 1))
  /\ (pc = "queue") <=> (Self \in asleep)
  /\ timer \in Nat
  /\ result \in {"none", "ok", "error"}
  /\ executed \in 0..MaxRetries
  /\ lost \in 0..MaxRetries
  /\ closed \in 0..MaxCloses
  /\ deadHits \in 0..MaxRetries
  /\ age \in 0..MaxWindow
  /\ sent \in Nat

Init ==
  /\ pool = "live" /\ pc = "idle" /\ attempt = 0 /\ timer = 0 /\ result = "none"
  /\ executed = 0
  /\ lost = 0 /\ closed = 0 /\ deadHits = 0
  /\ Bucket!Init
  /\ age = 0 /\ sent = 0

-----------------------------------------------------------------------------
(* The server half closes the idle connections of the pool. *)

Close ==
  /\ pool = "live"
  /\ closed < MaxCloses
  /\ pool' = "dead"
  /\ closed' = closed + 1
  /\ UNCHANGED <<pc, attempt, timer, result, effects, deadHits, bucket, window>>

-----------------------------------------------------------------------------
(* Time, the observer and the other threads *)

\* A window that has come to its end is followed by another.
Tick ==
  /\ Bucket!Tick
  /\ timer' = IF timer = 0 THEN 0 ELSE timer - 1
  /\ age' = IF age = MaxWindow THEN 0 ELSE age + 1
  /\ sent' = IF age = MaxWindow THEN 0 ELSE sent
  /\ UNCHANGED <<pool, pc, attempt, result, effects, closed, deadHits>>

Observe ==
  /\ age' = 0 /\ sent' = 0
  /\ UNCHANGED <<call, bucket>>

Other(t) ==
  /\ \/ Bucket!AcquireSleeps(t) /\ UNCHANGED sent
     \/ (Bucket!Acquire(t) \/ Bucket!Wake(t)) /\ sent' = sent + 1
  /\ UNCHANGED <<call, age>>

-----------------------------------------------------------------------------
(* The call *)

Call ==
  /\ pc = "idle"
  /\ pc' = "acquire"
  /\ attempt' = 0
  /\ result' = "none"
  /\ executed' = 0
  /\ lost' = 0 /\ closed' = 0 /\ deadHits' = 0
  /\ UNCHANGED <<pool, timer, bucket, window>>

\* _apply_rate_limits, which every attempt begins with.
Acquire ==
  /\ pc = "acquire"
  /\ \/ Bucket!Acquire(Self) /\ pc' = "send"
     \/ Bucket!AcquireSleeps(Self) /\ pc' = "queue"
  /\ UNCHANGED <<pool, attempt, timer, result, effects, closed, deadHits, window>>

Wake ==
  /\ pc = "queue"
  /\ Bucket!Wake(Self)
  /\ pc' = "send"
  /\ UNCHANGED <<pool, attempt, timer, result, effects, closed, deadHits, window>>

Return(how) ==
  /\ pc' = "idle"
  /\ result' = how
  /\ UNCHANGED timer

\* Variants.  An operator marked so is a plausible mistake in the definition
\* that follows it; the README says which property finds it out.

\* tenacity stops after the last attempt, before it gets to _redial.  Variant:
\* it does not raise.
SleepForOrSucceed(seconds) ==
  IF attempt + 1 = MaxRetries THEN Return("ok")
  ELSE pc' = "sleep" /\ timer' = seconds /\ UNCHANGED result
SleepFor(seconds) ==
  IF attempt + 1 = MaxRetries THEN Return("error")
  ELSE pc' = "sleep" /\ timer' = seconds /\ UNCHANGED result

\* An attempt goes out over the pool.  Variant: it is not counted.
AttemptUncounted ==
  /\ pc = "send"
  /\ sent' = sent + 1
  /\ UNCHANGED <<attempt, closed, bucket, age>>
Attempt ==
  /\ pc = "send"
  /\ attempt' = attempt + 1
  /\ sent' = sent + 1
  /\ UNCHANGED <<closed, bucket, age>>

Answered == Attempt /\ pool = "live" /\ UNCHANGED <<pool, deadHits>>

Succeeds ==
  /\ Answered
  /\ executed' = executed + 1
  /\ Return("ok")
  /\ UNCHANGED lost

\* A status that is not retryable is raised at once.
Refused ==
  /\ Answered
  /\ Return("error")
  /\ UNCHANGED effects

PauseFor(seconds) == IF seconds > 1 THEN seconds ELSE 1

\* 429: _wait sleeps what Retry-After says and at least a second, or the
\* default where it is missing or a date; _redial leaves the pool alone.
Throttled ==
  /\ Answered
  /\ \/ \E seconds \in Pauses : SleepFor(PauseFor(seconds))
     \/ SleepFor(DefaultPause)
  /\ UNCHANGED effects

\* What _redial does after any other failure that is retried.  Variant: it keeps
\* the pool.
RedialNot == pool' = pool
Redial == pool' = IF attempt + 1 = MaxRetries THEN pool ELSE "live"

\* 5xx, a time-out or a connection error, before the call is executed or after.
Fails ==
  /\ Attempt
  /\ pool = "live"
  /\ \/ UNCHANGED effects
     \/ executed' = executed + 1 /\ lost' = lost + 1
  /\ Redial
  /\ SleepFor(0)
  /\ UNCHANGED deadHits

\* RemoteProtocolError: the request went into a half-closed connection.
MeetsDeadPool ==
  /\ Attempt
  /\ pool = "dead"
  /\ deadHits' = deadHits + 1
  /\ Redial
  /\ SleepFor(0)
  /\ UNCHANGED effects

\* The next attempt.  Variant: it goes past the limiter ("Inside the retried
\* closure so retries never bypass the limiter").
RetryAtOnce ==
  /\ pc = "sleep"
  /\ timer = 0
  /\ pc' = "send"
  /\ UNCHANGED <<pool, attempt, timer, result, effects, closed, deadHits, bucket,
                 window>>
Retry ==
  /\ pc = "sleep"
  /\ timer = 0
  /\ pc' = "acquire"
  /\ UNCHANGED <<pool, attempt, timer, result, effects, closed, deadHits, bucket,
                 window>>

Step ==
  \/ Acquire \/ Wake
  \/ Succeeds \/ Refused \/ Throttled \/ Fails \/ MeetsDeadPool
  \/ Retry

Next ==
  \/ Call \/ Step \/ Close
  \/ \E t \in Threads \ {Self} : Other(t)
  \/ Tick \/ Observe

Spec == Init /\ [][Next]_vars

\* Every attempt returns or times out, and time goes by.
FairSpec == Spec /\ WF_vars(Step) /\ WF_vars(Tick)

-----------------------------------------------------------------------------
(* Properties *)

\* A call has its effect once if it returns, and not at all if it raises, but
\* for the executions whose answer was lost: no retry repeats what the client
\* knows to have been done.
OneEffect ==
  /\ TypeOK
  /\ executed = lost + (IF result = "ok" THEN 1 ELSE 0)

\* A dead pool costs one attempt: the retry never meets the same dead pool
\* again ("the before-sleep hook drops the pool so the retry redials fresh").
DeadPoolMetOnce == deadHits <= closed + 1

\* What the bucket bounds.  Tokens are spent or slept for, and what a thread
\* sleeps for is not charged, so besides the refill of the bucket every thread
\* earns the time it sleeps; a full bucket and the calls that were under way when
\* the window was opened come on top.  (A limiter would do without the second
\* age: see the README.)  No retry gets past it.
RateOfSleepers ==
  Cost * sent <= Capacity + age + Cardinality(Threads) * (age + Cost)

\* A call ends, whatever answers its attempts meet and however many tokens the
\* other threads take.
CallEnds == pc # "idle" ~> pc = "idle"
=============================================================================
