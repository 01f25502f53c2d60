------------------------------ MODULE Transport -----------------------------
(***************************************************************************)
(* The HTTP transports of the API client (internal/confluence): retries    *)
(* around a token bucket, both under the deadline of http.Client, used by  *)
(* concurrent workers.  Time passes in ticks.  A jitter of 10 % is less    *)
(* than a tick.  Requests have no body, so every attempt can repeat them.  *)
(*                                                                         *)
(* Three kinds of request: "api" to the API host through http.Client,      *)
(* "redirect" to the API host through the transport alone, so without its  *)
(* deadline (DownloadAttachment), and "file" to another host, which the    *)
(* bucket does not limit.                                                  *)
(***************************************************************************)
EXTENDS Integers, FiniteSets, Sequences

CONSTANTS Workers,
          MaxAttempts,  \* retry.max_attempts
          Backoff,      \* retry.initial_backoff_ms, in ticks
          Timeout,      \* http.Client.Timeout, in ticks
          RunTimeout,   \* the time after which the run's context ends; the bound of time
          Burst,        \* size of the bucket
          Refill,       \* ticks in which it gains a token (crawl.rate_limit_rpm)
          RetryAfters   \* values of Retry-After in answers 429; 0 is none

ASSUME TransportAssumption ==
  /\ IsFiniteSet(Workers)
  /\ MaxAttempts \in Nat \ {0} /\ Backoff \in Nat \ {0}
  /\ Timeout \in Nat /\ RunTimeout \in Nat
  /\ Burst \in Nat \ {0} /\ Refill \in Nat \ {0}
  /\ RetryAfters \subseteq Nat

VARIABLES
  now,
  credit,   \* of the bucket, in ticks: Refill is one token, below 0 are reservations
  pc, kind, \* where each worker's request is, its kind
  attempt,  \* number of the current attempt
  deadline, \* when the request's context ends
  wake,     \* when its timer fires
  answer,   \* the last answer or error
  notBefore,\* history: the time that Retry-After asked to wait for
  load      \* history: ticks of credit used by sends to the API host, less the ticks
            \* that have passed since, but not below 0

transportVars == <<now, credit, pc, kind, attempt, deadline, wake, answer, notBefore, load>>

Kinds == {"api", "redirect", "file"}

Smaller(x, y) == IF x < y THEN x ELSE y

TransportInit ==
  /\ now = 0 /\ credit = Burst * Refill
  /\ pc = [w \in Workers |-> "idle"] /\ kind = [w \in Workers |-> "api"]
  /\ attempt = [w \in Workers |-> 0] /\ deadline = [w \in Workers |-> 0]
  /\ wake = [w \in Workers |-> 0] /\ answer = [w \in Workers |-> "none"]
  /\ notBefore = [w \in Workers |-> 0] /\ load = 0

ContextDone(w) == now >= deadline[w]

\* http.Client.Do, or RoundTrip for the redirect: the first attempt.
Begin(w, k) ==
  /\ pc[w] = "idle"
  /\ pc' = [pc EXCEPT ![w] = "attempt"]
  /\ kind' = [kind EXCEPT ![w] = k]
  /\ attempt' = [attempt EXCEPT ![w] = 1]
  /\ deadline' = [deadline EXCEPT ![w] =
                    IF k = "redirect" THEN RunTimeout ELSE Smaller(now + Timeout, RunTimeout)]
  /\ notBefore' = [notBefore EXCEPT ![w] = 0]
  /\ UNCHANGED <<now, credit, wake, answer, load>>

\* The transport returns: an answer, or an error.
Give(w, r) ==
  /\ pc' = [pc EXCEPT ![w] = "done"]
  /\ answer' = [answer EXCEPT ![w] = r]
  /\ wake' = [wake EXCEPT ![w] = 0]
  /\ UNCHANGED <<now, kind, attempt, deadline, notBefore, load>>

\* The caller has its answer; the rest is forgotten.
End(w) ==
  /\ pc[w] = "done"
  /\ pc' = [pc EXCEPT ![w] = "idle"] /\ kind' = [kind EXCEPT ![w] = "api"]
  /\ attempt' = [attempt EXCEPT ![w] = 0] /\ deadline' = [deadline EXCEPT ![w] = 0]
  /\ answer' = [answer EXCEPT ![w] = "none"] /\ notBefore' = [notBefore EXCEPT ![w] = 0]
  /\ UNCHANGED <<now, credit, wake, load>>

-----------------------------------------------------------------------------
(* rateLimitTransport: Limiter.Wait reserves a token that the bucket may   *)
(* only have later.  It fails at once if that is after the deadline.       *)

Limited(w) == kind[w] # "file"

FirstOnly(w) == IF attempt[w] = 1 THEN Refill ELSE 0   \* Mutant of Charge
Charge(w) == Refill

\* When the token is there.
TokenTime(w) == now - Smaller(0, credit - Charge(w))

Reserve(w) ==
  /\ pc[w] = "attempt" /\ Limited(w)
  /\ ~ContextDone(w) /\ TokenTime(w) <= deadline[w]
  /\ credit' = credit - Charge(w)
  /\ pc' = [pc EXCEPT ![w] = "token"]
  /\ wake' = [wake EXCEPT ![w] = TokenTime(w)]
  /\ UNCHANGED <<now, kind, attempt, deadline, answer, notBefore, load>>

\* What a refused reservation costs.
FullPrice(w) == Charge(w)                      \* Mutant of RefusalPrice
RefusalPrice(w) == 0

\* The error is not a transient one, it is not retried.
Refuse(w) ==
  /\ pc[w] = "attempt" /\ Limited(w)
  /\ ~ContextDone(w) /\ TokenTime(w) > deadline[w]
  /\ credit' = credit - RefusalPrice(w)
  /\ Give(w, "refused")

StartTooLate(w) ==
  /\ pc[w] = "attempt" /\ ContextDone(w)
  /\ Give(w, "cancelled") /\ UNCHANGED credit

\* The request leaves: with its token, or to a host that is not limited.
Send(w) ==
  /\ \/ pc[w] = "token" /\ now >= wake[w]
     \/ pc[w] = "attempt" /\ ~Limited(w) /\ ~ContextDone(w)
  /\ pc' = [pc EXCEPT ![w] = "flight"]
  /\ wake' = [wake EXCEPT ![w] = 0]
  /\ load' = IF Limited(w) THEN load + Refill ELSE load
  /\ UNCHANGED <<now, credit, kind, attempt, deadline, answer, notBefore>>

-----------------------------------------------------------------------------
(* retryTransport. *)

\* shouldRetry: 429, 500, 502, 503, 504 and transient network errors.
Transient == {"transient", "throttled"}
LastAttempt(w) == attempt[w] = MaxAttempts
ShouldRetry(w, r) == r \in Transient /\ ~ContextDone(w) /\ ~LastAttempt(w)

\* retryDelay: Retry-After, or the back-off, doubled at most ten times.
Powers == <<1, 2, 4, 8, 16, 32, 64, 128, 256, 512, 1024>>
Doubled(n) == Backoff * Powers[Smaller(n, Len(Powers))]
IgnoreRetryAfter(r, after, n) == Doubled(n)    \* Mutant of Delay
Delay(r, after, n) == IF r = "throttled" /\ after > 0 THEN after ELSE Doubled(n)

\* The server answers, or the connection breaks.
Return(w, r) ==
  /\ pc[w] = "flight" /\ ~ShouldRetry(w, r)
  /\ Give(w, r) /\ UNCHANGED credit

BackOff(w, r, after) ==
  /\ pc[w] = "flight" /\ ShouldRetry(w, r)
  /\ pc' = [pc EXCEPT ![w] = "backoff"]
  /\ wake' = [wake EXCEPT ![w] = now + Delay(r, after, attempt[w])]
  /\ notBefore' = [notBefore EXCEPT ![w] = IF r = "throttled" THEN now + after ELSE 0]
  /\ answer' = [answer EXCEPT ![w] = r]
  /\ UNCHANGED <<now, credit, kind, attempt, deadline, load>>

Retry(w) ==
  /\ pc[w] = "backoff" /\ now >= wake[w]
  /\ pc' = [pc EXCEPT ![w] = "attempt"]
  /\ attempt' = [attempt EXCEPT ![w] = @ + 1]
  /\ wake' = [wake EXCEPT ![w] = 0]
  /\ UNCHANGED <<now, credit, kind, deadline, answer, notBefore, load>>

\* The end of the context interrupts every wait, that for the answer included.
DeafBackoff(w) == pc[w] \in {"token", "flight"} /\ ContextDone(w)   \* Mutant of Interrupted
Interrupted(w) == pc[w] \in {"token", "flight", "backoff"} /\ ContextDone(w)

Interrupt(w) == Interrupted(w) /\ Give(w, "cancelled") /\ UNCHANGED credit

-----------------------------------------------------------------------------
(* Time passes when no worker has something to do at once: a goroutine     *)
(* that is woken runs within the tick.                                     *)

Urgent(w) ==
  \/ pc[w] \in {"attempt", "done"}
  \/ pc[w] \in {"token", "backoff"} /\ now >= wake[w]
  \/ Interrupted(w)

Tick ==
  /\ now <= RunTimeout /\ \A w \in Workers : ~Urgent(w)
  /\ now' = now + 1
  /\ credit' = Smaller(credit + 1, Burst * Refill)
  /\ load' = IF load > 0 THEN load - 1 ELSE 0
  /\ UNCHANGED <<pc, kind, attempt, deadline, wake, answer, notBefore>>

\* A request after it has begun.
Work(w) ==
  \/ Reserve(w) \/ Refuse(w) \/ StartTooLate(w) \/ Send(w) \/ Retry(w) \/ Interrupt(w)
  \/ \E r \in {"ok", "transient", "throttled", "permanent"} : Return(w, r)
  \/ BackOff(w, "transient", 0) \/ \E after \in RetryAfters : BackOff(w, "throttled", after)

-----------------------------------------------------------------------------
\* Every variable has its type.
TransportTypeOK ==
  /\ now \in 0..RunTimeout + 1
  /\ credit \in Int /\ credit <= Burst * Refill
  /\ pc \in [Workers -> {"idle", "attempt", "token", "flight", "backoff", "done"}]
  /\ kind \in [Workers -> Kinds]
  /\ attempt \in [Workers -> 0..MaxAttempts]
  /\ deadline \in [Workers -> 0..RunTimeout] /\ wake \in [Workers -> Nat]
  /\ answer \in [Workers -> Transient \cup {"none", "ok", "permanent", "refused", "cancelled"}]
  /\ notBefore \in [Workers -> Nat]
  /\ load \in Nat

\* In no interval more requests go to the API host than the bucket allows, Burst
\* and one for each Refill ticks, retries and redirects included: load is the
\* maximum, over the intervals up to now, of sends times Refill less the length.
RateHolds == load <= Burst * Refill

\* No request waits beyond its deadline or the end of the run's context, whatever
\* it waits for: a token, a back-off, a Retry-After or an answer.
EndsInTime ==
  \A w \in Workers : pc[w] \in {"token", "backoff", "flight"} => now <= deadline[w]

\* Retries are neither too many nor too early nor too few: a request is sent max_attempts
\* times at most; one that was told to come back later is not repeated before; and a
\* transient answer reaches the caller only when no attempt or no time is left.
RetriesHeld ==
  \A w \in Workers :
    /\ attempt[w] <= MaxAttempts
    /\ pc[w] = "flight" => now >= notBefore[w]
    /\ pc[w] = "done" /\ answer[w] \in Transient => attempt[w] = MaxAttempts \/ ContextDone(w)

\* The bucket refuses a request only if the time it has left is shorter than the
\* longest queue for tokens, in which each worker stands once.
RefusedOnlyIfLate ==
  \A w \in Workers :
    pc[w] = "done" /\ answer[w] = "refused"
      => deadline[w] < now + Cardinality(Workers) * Refill
=============================================================================
