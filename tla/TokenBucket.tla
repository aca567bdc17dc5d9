----------------------------- MODULE TokenBucket -----------------------------
(***************************************************************************)
(* The rate limiter that the worker threads of a workload share:           *)
(* TokenBucket in ratelimit.py, reached through the registry before every  *)
(* attempt of every Graph and Google call.  GraphClient instantiates it.   *)
(*                                                                         *)
(* Time passes in ticks.  The unit of tokens is what one tick refills, so  *)
(* the rate is 1 and a call costs Cost units; a rate of one call per Cost  *)
(* ticks is what the bucket is configured for.  acquire works under the    *)
(* bucket's lock and sleeps, if it has to, after releasing it.             *)
(***************************************************************************)
EXTENDS Naturals

CONSTANTS
  Threads,     \* worker threads
  Cost,        \* tokens of one call
  Capacity     \* tokens the bucket holds at most, and at least Cost

VARIABLES
  tokens,      \* _tokens, as of the last refill
  elapsed,     \* ticks since _last_refill, counted up to Capacity
  asleep,      \* threads in time.sleep
  wait         \* ticks each of them has still to sleep

vars == <<tokens, elapsed, asleep, wait>>

TypeOK ==
  /\ tokens \in 0..Capacity
  /\ elapsed \in 0..Capacity
  /\ asleep \in SUBSET Threads
  /\ wait \in [Threads -> 0..Cost]

Init ==
  /\ tokens = Capacity
  /\ elapsed = 0
  /\ asleep = {}
  /\ wait = [t \in Threads |-> 0]

-----------------------------------------------------------------------------

Least(x, y) == IF x < y THEN x ELSE y

\* _refill
Refilled == Least(Capacity, tokens + elapsed)

\* The bucket holds enough: acquire returns at once.
Acquire(t) ==
  /\ t \notin asleep
  /\ Refilled >= Cost
  /\ tokens' = Refilled - Cost
  /\ elapsed' = 0
  /\ UNCHANGED <<asleep, wait>>

\* It does not: acquire empties it and sleeps for what is missing.
AcquireSleeps(t) ==
  /\ t \notin asleep
  /\ Refilled < Cost
  /\ tokens' = 0
  /\ elapsed' = 0
  /\ asleep' = asleep \cup {t}
  /\ wait' = [wait EXCEPT ![t] = Cost - Refilled]

\* time.sleep returns, on time or later, and with it acquire.
Wake(t) ==
  /\ t \in asleep
  /\ wait[t] = 0
  /\ asleep' = asleep \ {t}
  /\ UNCHANGED <<tokens, elapsed, wait>>

Tick ==
  /\ elapsed' = Least(Capacity, elapsed + 1)
  /\ wait' = [t \in Threads |-> IF wait[t] = 0 THEN 0 ELSE wait[t] - 1]
  /\ UNCHANGED <<tokens, asleep>>
=============================================================================
