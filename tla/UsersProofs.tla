----------------------------- MODULE UsersProofs -----------------------------
(***************************************************************************)
(* Theorems about the transports and the name cache, for every finite set  *)
(* of workers, every set of accounts and all limits, delays and rates.     *)
(***************************************************************************)
EXTENDS Users, FiniteSetTheorems, TLAPS

-----------------------------------------------------------------------------
(* The transports as seen from Users. *)

TransportNext ==
  \/ Tick
  \/ \E w \in Workers : Work(w) \/ End(w) \/ \E k \in Kinds : Begin(w, k)

\* Every step of Users is a step of the transports.
LEMMA StepOfTransport ==
  ASSUME Next
  PROVE  TransportNext
<1>1. CASE Tick
  BY <1>1 DEF TransportNext
<1>2. ASSUME NEW w \in Workers, Work(w) \/ OtherDone(w)
      PROVE  TransportNext
  BY <1>2 DEF TransportNext, OtherDone
<1>3. ASSUME NEW w \in Workers, NEW k \in Kinds \ {"api"}, Other(w, k)
      PROVE  TransportNext
  BY <1>3 DEF TransportNext, Other
<1>4. ASSUME NEW w \in Workers, NEW x \in Accounts, Miss(w, x) \/ Answered(w, x) \/ Failed(w, x)
      PROVE  TransportNext
  BY <1>4 DEF TransportNext, Miss, Answered, Failed, Kinds
<1> QED
  BY <1>1, <1>2, <1>3, <1>4 DEF Next

\* The bucket holds at least one token.
LEMMA BucketSize ==
  /\ Burst * Refill \in Nat
  /\ Refill \in Nat /\ Refill > 0
  /\ Refill <= Burst * Refill
BY TransportAssumption

\* A delay is a number of ticks, and one that Retry-After asks for is kept.
LEMMA DelayIsKept ==
  ASSUME NEW r, NEW after \in Nat, NEW n \in Nat \ {0}
  PROVE  /\ Delay(r, after, n) \in Nat
         /\ r = "throttled" => Delay(r, after, n) >= after
<1>1. Powers[Smaller(n, Len(Powers))] \in Nat
  BY DEF Powers, Smaller
<1>2. Doubled(n) \in Nat
  BY <1>1, TransportAssumption DEF Doubled
<1> QED
  BY <1>2 DEF Delay

-----------------------------------------------------------------------------
(* Types, and how many attempts there are. *)

\* A request that waits has made an attempt; one that backs off has one left.
StageInv ==
  \A w \in Workers :
    /\ pc[w] \in {"attempt", "token", "flight", "backoff"} => attempt[w] > 0
    /\ pc[w] = "backoff" => attempt[w] < MaxAttempts

LEMMA StageInit == TransportInit => TransportTypeOK /\ StageInv
BY BucketSize, TransportAssumption DEF TransportInit, TransportTypeOK, StageInv, Kinds

LEMMA StageNext ==
  ASSUME TransportTypeOK, StageInv, TransportNext
  PROVE  TransportTypeOK' /\ StageInv'
<1> USE DEF TransportTypeOK, StageInv
<1>1. CASE Tick
  BY <1>1, BucketSize, TransportAssumption DEF Tick, Smaller
<1>2. ASSUME NEW w \in Workers, NEW k \in Kinds, Begin(w, k)
      PROVE  TransportTypeOK' /\ StageInv'
  BY <1>2, TransportAssumption DEF Begin, Smaller
<1>3. ASSUME NEW w \in Workers, End(w)
      PROVE  TransportTypeOK' /\ StageInv'
  BY <1>3, TransportAssumption DEF End, Kinds
<1>4. ASSUME NEW w \in Workers, Reserve(w)
      PROVE  TransportTypeOK' /\ StageInv'
  BY <1>4, BucketSize DEF Reserve, TokenTime, Charge, Smaller
<1>5. ASSUME NEW w \in Workers, Refuse(w) \/ StartTooLate(w) \/ Interrupt(w)
      PROVE  TransportTypeOK' /\ StageInv'
  BY <1>5 DEF Refuse, RefusalPrice, StartTooLate, Interrupt, Give, Transient
<1>6. ASSUME NEW w \in Workers, Send(w)
      PROVE  TransportTypeOK' /\ StageInv'
  BY <1>6, BucketSize DEF Send
<1>7. ASSUME NEW w \in Workers, Retry(w)
      PROVE  TransportTypeOK' /\ StageInv'
  BY <1>7, TransportAssumption DEF Retry
<1>8. ASSUME NEW w \in Workers, NEW r \in {"ok", "transient", "throttled", "permanent"},
             Return(w, r)
      PROVE  TransportTypeOK' /\ StageInv'
  BY <1>8 DEF Return, Give, Transient
<1>9. ASSUME NEW w \in Workers, NEW r \in {"transient", "throttled"}, NEW after \in Nat,
             BackOff(w, r, after)
      PROVE  TransportTypeOK' /\ StageInv'
  <2>1. Delay(r, after, attempt[w]) \in Nat
    BY <1>9, DelayIsKept DEF BackOff
  <2>2. attempt[w] < MaxAttempts
    BY <1>9, TransportAssumption DEF BackOff, ShouldRetry, LastAttempt
  <2> QED
    BY <1>9, <2>1, <2>2 DEF BackOff, Transient
<1> QED
  BY <1>1, <1>2, <1>3, <1>4, <1>5, <1>6, <1>7, <1>8, <1>9, TransportAssumption
  DEF TransportNext, Work

NamesType ==
  /\ DOMAIN names \subseteq Accounts /\ \A x \in DOMAIN names : names[x] \subseteq Accounts
  /\ asking \in [Workers -> SUBSET Accounts]
  /\ fetched \in [Workers -> [Accounts -> Nat]]

LEMMA NamesTypeNext ==
  ASSUME NamesType, Next
  PROVE  NamesType'
<1> USE DEF NamesType
<1>1. ASSUME UNCHANGED <<names, asking, fetched>>
      PROVE  NamesType'
  BY <1>1
<1>2. ASSUME NEW w \in Workers, NEW x \in Accounts, Miss(w, x)
      PROVE  NamesType'
  BY <1>2 DEF Miss
<1>3. ASSUME NEW w \in Workers, NEW x \in Accounts, Answered(w, x)
      PROVE  NamesType'
  <2>1. Name(x) \subseteq Accounts
    BY DEF Name
  <2>2. DOMAIN names' = DOMAIN names \cup {x}
    BY <1>3 DEF Answered, OnSuccess, Stored
  <2>3. \A y \in DOMAIN names' : names'[y] \subseteq Accounts
    BY <1>3, <2>1 DEF Answered, OnSuccess, Stored
  <2> QED
    BY <1>3, <2>2, <2>3 DEF Answered
<1>4. ASSUME NEW w \in Workers, NEW x \in Accounts, Failed(w, x)
      PROVE  NamesType'
  BY <1>4 DEF Failed, OnFailure
<1> QED
  BY <1>1, <1>2, <1>3, <1>4 DEF Next, Other, OtherDone

TypeInv == TypeOK /\ StageInv

LEMMA TypeInvHolds == Spec => []TypeInv
<1>1. Init => TypeInv
  BY StageInit DEF Init, TypeInv, TypeOK
<1>2. TypeInv /\ [Next]_vars => TypeInv'
  <2> SUFFICES ASSUME TypeInv, [Next]_vars
               PROVE  TypeInv'
    OBVIOUS
  <2>1. CASE Next
    BY <2>1, StepOfTransport, StageNext, NamesTypeNext DEF TypeInv, TypeOK, NamesType
  <2>2. CASE UNCHANGED vars
    BY <2>2 DEF vars, transportVars, TypeInv, TypeOK, StageInv, TransportTypeOK
  <2> QED
    BY <2>1, <2>2
<1> QED
  BY <1>1, <1>2, PTL DEF Spec

\* Every variable keeps its type; the number of attempts stays within max_attempts.
THEOREM TypeCorrect == Spec => []TypeOK
<1>1. TypeInv => TypeOK
  BY DEF TypeInv
<1> QED
  BY <1>1, TypeInvHolds, PTL

-----------------------------------------------------------------------------
(* Deadlines, last answers and Retry-After: what one request may do. *)

\* The timer of a back-off does not fire before the time that was asked for, and
\* what comes after the back-off comes after that time.
HeldInv ==
  \A w \in Workers :
    /\ pc[w] = "backoff" => notBefore[w] <= wake[w]
    /\ pc[w] \in {"attempt", "token", "flight"} => now >= notBefore[w]

\* A transient answer is passed on only without attempts or time left.
LateInv ==
  \A w \in Workers :
    pc[w] = "done" /\ answer[w] \in Transient => attempt[w] = MaxAttempts \/ ContextDone(w)

RequestInv == EndsInTime /\ LateInv /\ HeldInv

LEMMA RequestNext ==
  ASSUME TypeInv, RequestInv, TransportNext
  PROVE  RequestInv'
<1> USE DEF TypeInv, TypeOK, TransportTypeOK, RequestInv, EndsInTime, LateInv, HeldInv,
            ContextDone
<1>1. CASE Tick
  <2> USE <1>1, TransportAssumption DEF Tick
  <2>1. now' = now + 1 /\ now \in Int
    OBVIOUS
  <2>2. EndsInTime'
    BY <2>1 DEF Urgent, Interrupted
  <2>3. LateInv'
    BY <2>1 DEF Urgent
  <2>4. HeldInv'
    BY <2>1
  <2> QED
    BY <2>2, <2>3, <2>4
<1>2. ASSUME NEW w \in Workers, NEW k \in Kinds, Begin(w, k)
      PROVE  RequestInv'
  BY <1>2 DEF Begin
<1>3. ASSUME NEW w \in Workers, End(w)
      PROVE  RequestInv'
  BY <1>3 DEF End
<1>4. ASSUME NEW w \in Workers, Reserve(w) \/ Send(w)
      PROVE  RequestInv'
  BY <1>4 DEF Reserve, Send
<1>5. ASSUME NEW w \in Workers, Refuse(w) \/ StartTooLate(w) \/ Interrupt(w)
      PROVE  RequestInv'
  <2>1. PICK r \in {"refused", "cancelled"} : Give(w, r)
    BY <1>5 DEF Refuse, StartTooLate, Interrupt
  <2>2. r \notin Transient
    BY DEF Transient
  <2> QED
    BY <2>1, <2>2 DEF Give
<1>6. ASSUME NEW w \in Workers, Retry(w)
      PROVE  RequestInv'
  BY <1>6 DEF Retry
<1>7. ASSUME NEW w \in Workers, NEW r \in {"ok", "transient", "throttled", "permanent"},
             Return(w, r)
      PROVE  RequestInv'
  BY <1>7 DEF Return, Give, ShouldRetry, LastAttempt
<1>8. ASSUME NEW w \in Workers, NEW r \in {"transient", "throttled"}, NEW after \in Nat,
             BackOff(w, r, after)
      PROVE  RequestInv'
  <2>1. /\ Delay(r, after, attempt[w]) \in Nat
        /\ r = "throttled" => Delay(r, after, attempt[w]) >= after
    BY <1>8, DelayIsKept DEF BackOff, StageInv
  <2> QED
    BY <1>8, <2>1 DEF BackOff, ShouldRetry
<1> QED
  BY <1>1, <1>2, <1>3, <1>4, <1>5, <1>6, <1>7, <1>8, TransportAssumption
  DEF TransportNext, Work

LEMMA RequestInvHolds == Spec => []RequestInv
<1>1. Init => RequestInv
  BY DEF Init, TransportInit, RequestInv, EndsInTime, LateInv, HeldInv
<1>2. TypeInv /\ RequestInv /\ [Next]_vars => RequestInv'
  <2> SUFFICES ASSUME TypeInv, RequestInv, [Next]_vars
               PROVE  RequestInv'
    OBVIOUS
  <2>1. CASE Next
    BY <2>1, StepOfTransport, RequestNext
  <2>2. CASE UNCHANGED vars
    BY <2>2 DEF vars, transportVars, RequestInv, EndsInTime, LateInv, HeldInv, ContextDone
  <2> QED
    BY <2>1, <2>2
<1> QED
  BY <1>1, <1>2, TypeInvHolds, PTL DEF Spec

\* No wait, for a token, a back-off or an answer, lasts beyond the deadline.
THEOREM EndsInTimeCorrect == Spec => []EndsInTime
<1>1. RequestInv => EndsInTime
  BY DEF RequestInv
<1> QED
  BY <1>1, RequestInvHolds, PTL

\* A request is sent max_attempts times at most, never before the time that Retry-After
\* asked for, and a transient answer reaches the caller only without attempts or time left.
THEOREM RetriesCorrect == Spec => []RetriesHeld
<1>1. TypeInv /\ RequestInv => RetriesHeld
  BY TransportAssumption
  DEF TypeInv, TypeOK, TransportTypeOK, RequestInv, LateInv, HeldInv, RetriesHeld
<1> QED
  BY <1>1, TypeInvHolds, RequestInvHolds, PTL

-----------------------------------------------------------------------------
(* The name cache. *)

\* What a worker got is cached, what it asks for it has not got, and while it
\* asks it does nothing else.
AskingInv ==
  \A w \in Workers, x \in Accounts :
    /\ fetched[w][x] # 0 => Cached(x)
    /\ x \in asking[w] => fetched[w][x] = 0 /\ pc[w] # "idle"

CacheInv == CacheHonest /\ AskingInv

\* Only End makes a worker idle.
LEMMA BusyStaysBusy ==
  ASSUME TypeInv, NEW w \in Workers, NEW v \in Workers, pc[v] # "idle", Tick \/ Work(w)
  PROVE  pc'[v] # "idle"
<1> USE DEF TypeInv, TypeOK, TransportTypeOK
<1>1. CASE Tick
  BY <1>1 DEF Tick
<1>2. CASE Work(w)
  <2>1. PICK p \in {"done", "token", "flight", "attempt", "backoff"} : pc' = [pc EXCEPT ![w] = p]
    BY <1>2 DEF Work, Reserve, Refuse, StartTooLate, Send, Retry, Interrupt, Return, BackOff, Give
  <2> QED
    BY <2>1
<1> QED
  BY <1>1, <1>2

LEMMA CacheNext ==
  ASSUME TypeInv, CacheInv, Next
  PROVE  CacheInv'
<1> USE DEF TypeInv, TypeOK, TransportTypeOK, CacheInv, CacheHonest, AskingInv, Cached,
            Name
<1>1. ASSUME UNCHANGED <<names, asking, fetched>>,
             \A v \in Workers : asking[v] # {} /\ pc[v] # "idle" => pc'[v] # "idle"
      PROVE  CacheInv'
  BY <1>1
<1>2. ASSUME NEW w \in Workers, NEW x \in Accounts, Miss(w, x)
      PROVE  CacheInv'
  <2>1. UNCHANGED <<names, fetched>>
    BY <1>2 DEF Miss
  <2>2. fetched[w][x] = 0
    BY <1>2 DEF Miss
  <2>3. AskingInv'
    BY <1>2, <2>1, <2>2 DEF Miss, Begin
  <2> QED
    BY <2>1, <2>3
<1>3. ASSUME NEW w \in Workers, NEW x \in Accounts, Answered(w, x)
      PROVE  CacheInv'
  <2>1. DOMAIN names' = DOMAIN names \cup {x}
    BY <1>3 DEF Answered, OnSuccess, Stored
  <2>2. \A y \in DOMAIN names' : names'[y] = Name(y)
    BY <1>3, <2>1 DEF Answered, OnSuccess, Stored
  <2>3. (\A v \in Workers, y \in Accounts : fetched'[v][y] <= 1) /\ AskingInv'
    BY <1>3, <2>1 DEF Answered, End
  <2> QED
    BY <2>2, <2>3
<1>4. ASSUME NEW w \in Workers, NEW x \in Accounts, Failed(w, x)
      PROVE  CacheInv'
  <2>1. UNCHANGED <<names, fetched>>
    BY <1>4 DEF Failed, OnFailure
  <2>2. AskingInv'
    BY <1>4, <2>1 DEF Failed, End
  <2> QED
    BY <2>1, <2>2
<1>5. ASSUME NEW w \in Workers, Work(w), UNCHANGED <<names, asking, fetched>>
      PROVE  CacheInv'
  BY <1>1, <1>5, BusyStaysBusy
<1>6. ASSUME Tick, UNCHANGED <<names, asking, fetched>>
      PROVE  CacheInv'
  BY <1>1, <1>6 DEF Tick
<1>7. ASSUME NEW w \in Workers, OtherDone(w)
      PROVE  CacheInv'
  BY <1>1, <1>7 DEF OtherDone, End
<1>8. ASSUME NEW w \in Workers, NEW k \in Kinds, Other(w, k)
      PROVE  CacheInv'
  BY <1>1, <1>8 DEF Other, Begin
<1> QED
  BY <1>2, <1>3, <1>4, <1>5, <1>6, <1>7, <1>8 DEF Next

LEMMA CacheInvHolds == Spec => []CacheInv
<1>1. Init => CacheInv
  BY DEF Init, CacheInv, CacheHonest, AskingInv
<1>2. TypeInv /\ CacheInv /\ [Next]_vars => CacheInv'
  <2> SUFFICES ASSUME TypeInv, CacheInv, [Next]_vars
               PROVE  CacheInv'
    OBVIOUS
  <2>1. CASE Next
    BY <2>1, CacheNext
  <2>2. CASE UNCHANGED vars
    BY <2>2 DEF vars, transportVars, CacheInv, CacheHonest, AskingInv, Cached
  <2> QED
    BY <2>1, <2>2
<1> QED
  BY <1>1, <1>2, TypeInvHolds, PTL DEF Spec

\* No worker asks again for a name it got, and the cache holds what the server said,
\* whatever fails.
THEOREM CacheCorrect == Spec => []CacheHonest
<1>1. CacheInv => CacheHonest
  BY DEF CacheInv
<1> QED
  BY <1>1, CacheInvHolds, PTL

-----------------------------------------------------------------------------
(* The queue for tokens. *)

\* The workers that hold a reservation, and those whose token comes after t.
Holders == {w \in Workers : pc[w] = "token"}
Later(t) == {w \in Holders : wake[w] > t}

Cost(S) == Cardinality(S) * Refill

\* Tokens come at least Refill ticks apart: whatever comes after t, the bucket
\* has that many tokens and the ticks up to then less than one token.
SpacedInv ==
  \A t \in Nat : t >= now /\ Later(t) # {} => credit + Cost(Later(t)) <= Refill - (t + 1 - now)

\* What the bucket owes now is owed to tokens that come later, but for the ticks
\* up to then.
OwedInv == \A t \in Nat : t >= now => -credit <= (t - now) + Cost(Later(t))

\* What was sent, what is reserved and what the bucket has are never more than it
\* can hold.
BudgetInv == load + credit + Cost(Holders) <= Burst * Refill

\* A reservation is for a time within the request's deadline.
PunctualInv == \A w \in Holders : wake[w] <= deadline[w]

QueueInv == SpacedInv /\ OwedInv /\ BudgetInv /\ PunctualInv /\ RefusedOnlyIfLate

LEMMA CostOf ==
  ASSUME NEW S \in SUBSET Workers
  PROVE  /\ Cost(S) \in Nat
         /\ S = {} => Cost(S) = 0
         /\ \A w \in Workers \ S : Cost(S \cup {w}) = Cost(S) + Refill
         /\ \A w \in S : Cost(S \ {w}) = Cost(S) - Refill
         /\ Cost(S) <= Cost(Workers)
<1>1. IsFiniteSet(Workers) /\ IsFiniteSet(S)
  BY TransportAssumption, FS_Subset
<1>2. /\ Cardinality(S) \in Nat /\ Cardinality(Workers) \in Nat
      /\ Cardinality(S) <= Cardinality(Workers)
  BY <1>1, FS_CardinalityType, FS_Subset
<1>3. Cost(S) \in Nat
  BY <1>2, BucketSize DEF Cost
<1>4. S = {} => Cost(S) = 0
  BY FS_EmptySet, BucketSize DEF Cost
<1>5. ASSUME NEW w \in Workers \ S
      PROVE  Cost(S \cup {w}) = Cost(S) + Refill
  <2>1. Cardinality(S \cup {w}) = Cardinality(S) + 1
    BY <1>1, FS_AddElement
  <2> QED
    BY <1>2, <2>1, BucketSize DEF Cost
<1>6. ASSUME NEW w \in S
      PROVE  Cost(S \ {w}) = Cost(S) - Refill
  <2>1. Cardinality(S \ {w}) = Cardinality(S) - 1
    BY <1>1, FS_RemoveElement
  <2> QED
    BY <1>2, <2>1, BucketSize DEF Cost
<1>7. Cost(S) <= Cost(Workers)
  BY <1>2, BucketSize DEF Cost
<1> QED
  BY <1>3, <1>4, <1>5, <1>6, <1>7

LEMMA CostIsMonotone ==
  ASSUME NEW T \in SUBSET Workers, NEW S \in SUBSET T
  PROVE  Cost(S) <= Cost(T)
<1>1. IsFiniteSet(T)
  BY TransportAssumption, FS_Subset
<1>2. Cardinality(S) \in Nat /\ Cardinality(T) \in Nat /\ Cardinality(S) <= Cardinality(T)
  BY <1>1, FS_CardinalityType, FS_Subset
<1> QED
  BY <1>2, BucketSize DEF Cost

\* A worker that is not in S leaves room for its token.
LEMMA RoomForOne ==
  ASSUME NEW S \in SUBSET Workers, NEW w \in Workers \ S
  PROVE  Cost(S) + Refill <= Cost(Workers)
<1>1. Cost(S \cup {w}) <= Cost(Workers)
  BY CostOf
<1> QED
  BY <1>1, CostOf

\* Time passes only while every token is still to come.
LEMMA QueueTick ==
  ASSUME TypeInv, QueueInv, Tick
  PROVE  QueueInv'
<1> USE DEF TypeInv, TypeOK, TransportTypeOK, QueueInv
<1>1. Holders' = Holders /\ \A t : Later(t)' = Later(t)
  BY DEF Tick, Holders, Later
<1>2. Holders = Later(now)
  BY DEF Tick, Urgent, Holders, Later
<1>3. /\ now \in Nat /\ now' = now + 1
      /\ credit \in Int /\ credit' \in Int /\ credit' <= credit + 1 /\ credit' <= Burst * Refill
      /\ load \in Nat /\ load' \in Nat /\ load' = IF load > 0 THEN load - 1 ELSE 0
  BY BucketSize, TransportAssumption DEF Tick, Smaller
<1>4. \A t : Cost(Later(t)) \in Nat
  BY CostOf DEF Later, Holders
<1>5. SpacedInv'
  BY <1>1, <1>3, <1>4, BucketSize DEF SpacedInv, Cost
<1>6. OwedInv'
  <2>1. credit' = credit + 1 \/ credit' >= 0
    BY BucketSize DEF Tick, Smaller
  <2> SUFFICES ASSUME NEW t \in Nat, t >= now + 1
               PROVE  -credit' <= (t - (now + 1)) + Cost(Later(t))
    BY <1>1, <1>3 DEF OwedInv, Cost
  <2>2. -credit <= (t - now) + Cost(Later(t))
    BY <1>3 DEF OwedInv
  <2> QED
    BY <1>3, <1>4, <2>1, <2>2
<1>7. BudgetInv'
  <2> SUFFICES load' + credit' + Cost(Holders) <= Burst * Refill
    BY <1>1 DEF BudgetInv, Cost
  <2>1. CASE load > 0
    BY <1>2, <1>3, <1>4, <2>1, BucketSize DEF BudgetInv
  <2>2. CASE load = 0 /\ Holders = {}
    BY <1>3, <2>2, CostOf, BucketSize
  <2>3. CASE load = 0 /\ Holders # {}
    <3>1. credit + Cost(Holders) <= Refill - 1
      BY <1>2, <1>3, <1>4, <2>3, BucketSize DEF SpacedInv
    <3> QED
      BY <1>2, <1>3, <1>4, <2>3, <3>1, BucketSize
  <2> QED
    BY <1>3, <2>1, <2>2, <2>3
<1>8. PunctualInv'
  BY <1>1 DEF PunctualInv, Tick, Holders
<1>9. RefusedOnlyIfLate'
  BY DEF RefusedOnlyIfLate, Tick, Urgent
<1> QED
  BY <1>5, <1>6, <1>7, <1>8, <1>9

\* A new reservation comes after all others.
LEMMA QueueReserve ==
  ASSUME TypeInv, QueueInv, NEW w \in Workers, Reserve(w)
  PROVE  QueueInv'
<1> USE DEF TypeInv, TypeOK, TransportTypeOK, QueueInv
<1>1. /\ now \in Nat /\ now' = now /\ load' = load /\ load \in Nat
      /\ credit \in Int /\ credit' \in Int /\ credit' = credit - Refill
      /\ deadline' = deadline
  BY BucketSize, TransportAssumption DEF Reserve, Charge
<1>2. /\ w \notin Holders /\ Holders' = Holders \cup {w}
      /\ wake'[w] \in Nat /\ wake'[w] = TokenTime(w) /\ wake'[w] <= deadline[w]
      /\ \A v \in Holders : wake'[v] = wake[v]
  <2>1. TokenTime(w) \in Nat
    BY <1>1, BucketSize DEF TokenTime, Charge, Smaller
  <2> QED
    BY <2>1 DEF Reserve, Holders
<1>3. TokenTime(w) = IF credit' < 0 THEN now - credit' ELSE now
  BY <1>1, BucketSize DEF TokenTime, Charge, Smaller
<1>4. \A t \in Nat : Later(t)' = IF TokenTime(w) > t THEN Later(t) \cup {w} ELSE Later(t)
  BY <1>2 DEF Later
<1>5. \A t \in Nat : /\ Cost(Later(t)) \in Nat
                     /\ Cost(Later(t)') = IF TokenTime(w) > t THEN Cost(Later(t)) + Refill
                                          ELSE Cost(Later(t))
  <2> TAKE t \in Nat
  <2>1. Later(t) \in SUBSET Workers /\ w \notin Later(t)
    BY <1>2 DEF Later, Holders
  <2> QED
    BY <1>4, <2>1, CostOf
<1>6. SpacedInv'
  <2> SUFFICES ASSUME NEW t \in Nat, t >= now, Later(t)' # {}
               PROVE  credit' + Cost(Later(t)') <= Refill - (t + 1 - now)
    BY <1>1 DEF SpacedInv, Cost
  <2>1. CASE Later(t) = {}
    <3>1. TokenTime(w) > t /\ Cost(Later(t)) = 0
      BY <1>4, <2>1, CostOf
    <3> QED
      BY <1>1, <1>3, <1>5, <3>1, BucketSize
  <2>2. CASE Later(t) # {}
    <3>1. credit + Cost(Later(t)) <= Refill - (t + 1 - now)
      BY <2>2 DEF SpacedInv
    <3> QED
      BY <1>1, <1>5, <3>1, BucketSize
  <2> QED
    BY <2>1, <2>2
<1>7. OwedInv'
  <2> SUFFICES ASSUME NEW t \in Nat, t >= now
               PROVE  -credit' <= (t - now) + Cost(Later(t)')
    BY <1>1 DEF OwedInv, Cost
  <2>1. -credit <= (t - now) + Cost(Later(t))
    BY DEF OwedInv
  <2> QED
    BY <1>1, <1>3, <1>5, <2>1, BucketSize
<1>8. BudgetInv'
  <2>1. Cost(Holders') = Cost(Holders) + Refill /\ Cost(Holders) \in Nat
    BY <1>2, CostOf DEF Holders
  <2>2. load + credit + Cost(Holders) <= Burst * Refill
    BY DEF BudgetInv
  <2>3. load' + credit' + Cost(Holders') <= Burst * Refill
    BY <1>1, <2>1, <2>2, BucketSize
  <2> QED
    BY <2>3 DEF BudgetInv, Cost
<1>9. PunctualInv'
  BY <1>1, <1>2 DEF PunctualInv
<1>10. RefusedOnlyIfLate'
  BY <1>1 DEF RefusedOnlyIfLate, Reserve
<1> QED
  BY <1>6, <1>7, <1>8, <1>9, <1>10

\* A token that is used or given up was due, so no later one is missed.
LEMMA QueueLeave ==
  ASSUME TypeInv, QueueInv, NEW w \in Workers,
         now' = now, credit' = credit,
         Holders' = Holders \ {w},
         \A v \in Holders' : wake'[v] = wake[v] /\ deadline'[v] = deadline[v],
         w \in Holders => wake[w] <= now,
         load' \in Nat, load' <= IF w \in Holders THEN load + Refill ELSE load,
         RefusedOnlyIfLate'
  PROVE  QueueInv'
<1> USE DEF TypeInv, TypeOK, TransportTypeOK, QueueInv
<1>1. now \in Nat /\ credit \in Int /\ load \in Nat
  BY TransportAssumption
<1>2. \A t \in Nat : t >= now => Later(t)' = Later(t)
  BY <1>1 DEF Later, Holders
<1>3. SpacedInv'
  BY <1>2 DEF SpacedInv, Cost
<1>4. OwedInv'
  BY <1>2 DEF OwedInv, Cost
<1>5. BudgetInv'
  <2>1. Cost(Holders') = (IF w \in Holders THEN Cost(Holders) - Refill ELSE Cost(Holders))
        /\ Cost(Holders) \in Nat
    <3>1. Holders \in SUBSET Workers /\ (w \notin Holders => Holders' = Holders)
      BY DEF Holders
    <3> QED
      BY <3>1, CostOf
  <2>2. load + credit + Cost(Holders) <= Burst * Refill
    BY DEF BudgetInv
  <2>3. load' + credit' + Cost(Holders') <= Burst * Refill
    BY <1>1, <2>1, <2>2, BucketSize
  <2> QED
    BY <2>3 DEF BudgetInv, Cost
<1>6. PunctualInv'
  BY DEF PunctualInv
<1> QED
  BY <1>3, <1>4, <1>5, <1>6

\* A request is refused when the queue before it is as long as it can be: every
\* other worker stands in it.
LEMMA RefusedLate ==
  ASSUME TypeInv, QueueInv, NEW w \in Workers, Refuse(w)
  PROVE  deadline[w] < now + Cardinality(Workers) * Refill
<1> USE DEF TypeInv, TypeOK, TransportTypeOK, QueueInv
<1>1. now \in Nat /\ credit \in Int /\ deadline[w] \in Int
  BY TransportAssumption
<1>2. Later(now) \in SUBSET Workers /\ w \in Workers \ Later(now)
  BY DEF Later, Holders, Refuse
<1>3. -credit <= Cost(Later(now)) /\ Cost(Later(now)) \in Nat
  BY <1>1, <1>2, CostOf DEF OwedInv
<1>4. Cost(Later(now)) + Refill <= Cost(Workers) /\ Cost(Workers) \in Nat
  BY <1>2, RoomForOne, CostOf
<1>5. deadline[w] < TokenTime(w)
  BY <1>1, BucketSize DEF Refuse, TokenTime, Charge, Smaller
<1>6. TokenTime(w) = IF credit < Refill THEN now - (credit - Refill) ELSE now
  BY <1>1, BucketSize DEF TokenTime, Charge, Smaller
<1>7. deadline[w] < now + Cost(Workers)
  BY <1>1, <1>3, <1>4, <1>5, <1>6, BucketSize
<1> QED
  BY <1>7 DEF Cost

LEMMA QueueNext ==
  ASSUME TypeInv, QueueInv, TransportNext
  PROVE  QueueInv'
<1> USE DEF TypeInv, TypeOK, TransportTypeOK
<1>1. load \in Nat /\ Refill \in Nat
  BY BucketSize
<1>2. ASSUME NEW w \in Workers, NEW k \in Kinds, Begin(w, k)
      PROVE  QueueInv'
  <2>1. Holders' = Holders \ {w} /\ w \notin Holders
    BY <1>2 DEF Begin, Holders
  <2>2. RefusedOnlyIfLate'
    BY <1>2 DEF Begin, QueueInv, RefusedOnlyIfLate
  <2> QED
    BY <1>1, <1>2, <2>1, <2>2, QueueLeave DEF Begin
<1>3. ASSUME NEW w \in Workers, End(w)
      PROVE  QueueInv'
  <2>1. Holders' = Holders \ {w} /\ w \notin Holders
    BY <1>3 DEF End, Holders
  <2>2. RefusedOnlyIfLate'
    BY <1>3 DEF End, QueueInv, RefusedOnlyIfLate
  <2> QED
    BY <1>1, <1>3, <2>1, <2>2, QueueLeave DEF End
<1>4. ASSUME NEW w \in Workers, Send(w)
      PROVE  QueueInv'
  <2>1. Holders' = Holders \ {w} /\ (w \in Holders => wake[w] <= now)
    BY <1>4 DEF Send, Holders
  <2>2. RefusedOnlyIfLate'
    BY <1>4 DEF Send, QueueInv, RefusedOnlyIfLate
  <2>3. load' \in Nat /\ load' <= IF w \in Holders THEN load + Refill ELSE load
    BY <1>1, <1>4 DEF Send, Holders
  <2>4. \A v \in Holders' : wake'[v] = wake[v] /\ deadline'[v] = deadline[v]
    BY <1>4, <2>1 DEF Send
  <2> QED
    BY <1>4, <2>1, <2>2, <2>3, <2>4, QueueLeave DEF Send
<1>5. ASSUME NEW w \in Workers, NEW r, Give(w, r), credit' = credit,
             pc[w] = "token" => ContextDone(w),
             r = "refused" => deadline[w] < now + Cardinality(Workers) * Refill
      PROVE  QueueInv'
  <2>1. Holders' = Holders \ {w}
    BY <1>5 DEF Give, Holders
  <2>2. w \in Holders => wake[w] <= now
    <3> SUFFICES ASSUME w \in Holders
                 PROVE  wake[w] <= now
      OBVIOUS
    <3>1. wake[w] <= deadline[w] /\ deadline[w] <= now
      BY <1>5 DEF QueueInv, PunctualInv, Holders, ContextDone
    <3>2. wake[w] \in Int /\ deadline[w] \in Int /\ now \in Int
      BY TransportAssumption
    <3> QED
      BY <3>1, <3>2
  <2>3. RefusedOnlyIfLate'
    BY <1>5 DEF Give, QueueInv, RefusedOnlyIfLate
  <2>4. \A v \in Holders' : wake'[v] = wake[v] /\ deadline'[v] = deadline[v]
    BY <1>5, <2>1 DEF Give
  <2> QED
    BY <1>1, <1>5, <2>1, <2>2, <2>3, <2>4, QueueLeave DEF Give
<1>6. ASSUME NEW w \in Workers, Refuse(w)
      PROVE  QueueInv'
  BY <1>5, <1>6, RefusedLate DEF Refuse, RefusalPrice
<1>7. ASSUME NEW w \in Workers, StartTooLate(w)
      PROVE  QueueInv'
  BY <1>5, <1>7 DEF StartTooLate
<1>8. ASSUME NEW w \in Workers, Interrupt(w)
      PROVE  QueueInv'
  BY <1>5, <1>8 DEF Interrupt, Interrupted
<1>9. ASSUME NEW w \in Workers, NEW r \in {"ok", "transient", "throttled", "permanent"},
             Return(w, r)
      PROVE  QueueInv'
  BY <1>5, <1>9 DEF Return
<1>10. ASSUME NEW w \in Workers, Retry(w)
       PROVE  QueueInv'
  <2>1. Holders' = Holders \ {w} /\ w \notin Holders
    BY <1>10 DEF Retry, Holders
  <2>2. RefusedOnlyIfLate'
    BY <1>10 DEF Retry, QueueInv, RefusedOnlyIfLate
  <2> QED
    BY <1>1, <1>10, <2>1, <2>2, QueueLeave DEF Retry
<1>11. ASSUME NEW w \in Workers, NEW r \in {"transient", "throttled"}, NEW after \in Nat,
              BackOff(w, r, after)
       PROVE  QueueInv'
  <2>1. Holders' = Holders \ {w} /\ w \notin Holders
    BY <1>11 DEF BackOff, Holders
  <2>2. RefusedOnlyIfLate'
    BY <1>11 DEF BackOff, QueueInv, RefusedOnlyIfLate
  <2> QED
    BY <1>1, <1>11, <2>1, <2>2, QueueLeave DEF BackOff
<1> QED
  BY <1>2, <1>3, <1>4, <1>6, <1>7, <1>8, <1>9, <1>10, <1>11, QueueTick, QueueReserve,
     TransportAssumption
  DEF TransportNext, Work

LEMMA QueueInvHolds == Spec => []QueueInv
<1>1. Init => QueueInv
  <2> SUFFICES ASSUME Init
               PROVE  QueueInv
    OBVIOUS
  <2>1. Holders = {} /\ \A t : Later(t) = {}
    BY DEF Init, TransportInit, Holders, Later
  <2>2. Cost({}) = 0
    BY CostOf
  <2>3. SpacedInv /\ PunctualInv /\ RefusedOnlyIfLate
    BY <2>1 DEF SpacedInv, PunctualInv, RefusedOnlyIfLate, Init, TransportInit
  <2>4. now = 0 /\ credit = Burst * Refill /\ load = 0
    BY DEF Init, TransportInit
  <2>5. OwedInv
    BY <2>1, <2>2, <2>4, BucketSize DEF OwedInv
  <2>6. BudgetInv
    BY <2>1, <2>2, <2>4, BucketSize DEF BudgetInv
  <2> QED
    BY <2>3, <2>5, <2>6 DEF QueueInv
<1>2. TypeInv /\ QueueInv /\ [Next]_vars => QueueInv'
  <2> SUFFICES ASSUME TypeInv, QueueInv, [Next]_vars
               PROVE  QueueInv'
    OBVIOUS
  <2>1. CASE Next
    BY <2>1, StepOfTransport, QueueNext
  <2>2. CASE UNCHANGED vars
    <3>1. Holders' = Holders /\ \A t : Later(t)' = Later(t)
      BY <2>2 DEF vars, transportVars, Holders, Later
    <3> QED
      BY <2>2, <3>1
      DEF vars, transportVars, QueueInv, SpacedInv, OwedInv, BudgetInv, PunctualInv,
          RefusedOnlyIfLate, Cost
  <2> QED
    BY <2>1, <2>2
<1> QED
  BY <1>1, <1>2, TypeInvHolds, PTL DEF Spec

\* In no interval are more requests sent to the API host than the bucket allows,
\* whatever the workers, their retries, redirects and cancelled waits.
THEOREM RateCorrect == Spec => []RateHolds
<1>1. TypeInv /\ QueueInv => RateHolds
  <2> SUFFICES ASSUME TypeInv, QueueInv
               PROVE  load <= Burst * Refill
    BY DEF RateHolds
  <2> USE DEF TypeInv, TypeOK, TransportTypeOK
  <2>1. load + credit + Cost(Holders) <= Burst * Refill /\ load \in Nat /\ credit \in Int
    BY DEF QueueInv, BudgetInv
  <2>2. now \in Nat
    BY TransportAssumption
  <2>3. Cost(Later(now)) <= Cost(Holders) /\ Cost(Later(now)) \in Nat /\ Cost(Holders) \in Nat
    BY CostIsMonotone, CostOf DEF Later, Holders
  <2>4. -credit <= (now - now) + Cost(Later(now))
    BY <2>2 DEF QueueInv, OwedInv
  <2> QED
    BY <2>1, <2>2, <2>3, <2>4, BucketSize
<1> QED
  BY <1>1, TypeInvHolds, QueueInvHolds, PTL

\* A refusal means that the rest of the deadline is shorter than the longest queue.
THEOREM RefusedCorrect == Spec => []RefusedOnlyIfLate
<1>1. QueueInv => RefusedOnlyIfLate
  BY DEF QueueInv
<1> QED
  BY <1>1, QueueInvHolds, PTL
=============================================================================
