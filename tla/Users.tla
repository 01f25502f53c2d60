-------------------------------- MODULE Users -------------------------------
(***************************************************************************)
(* Workers that resolve authors to display names through a cache they      *)
(* share (internal/confluence/user_client.go), over the transports, and    *)
(* that send other requests meanwhile.                                     *)
(***************************************************************************)
EXTENDS Transport

CONSTANTS Accounts,
          Restricted   \* the accounts whose names the caller may not see

VARIABLES
  names,    \* the cached names; a name is {x}, or {} if restricted
  asking,   \* the account a worker asks for, if any
  fetched   \* history: successful answers per worker and account

vars == <<transportVars, names, asking, fetched>>

ASSUME UsersAssumption == Restricted \subseteq Accounts

\* The display name, or the public name; empty if both are restricted.
Name(x) == IF x \in Restricted THEN {} ELSE {x}

Cached(x) == x \in DOMAIN names

Init ==
  /\ TransportInit
  /\ names = [x \in {} |-> {}]
  /\ asking = [w \in Workers |-> {}]
  /\ fetched = [w \in Workers |-> [x \in Accounts |-> 0]]

\* GetUserDisplayName.  A lookup that hits returns names[x] and changes nothing.
Miss(w, x) ==
  /\ ~Cached(x)
  /\ Begin(w, "api")
  /\ asking' = [asking EXCEPT ![w] = {x}]
  /\ UNCHANGED <<names, fetched>>

Stored(x, n) == [y \in DOMAIN names \cup {x} |-> IF y = x THEN n ELSE names[y]]

\* What is stored after a successful answer, after a failed one.
OnSuccess(x) == Stored(x, Name(x))
StoreEmpty(x) == Stored(x, {})                 \* Mutant of OnFailure
OnFailure(x) == names

Answered(w, x) ==
  /\ x \in asking[w] /\ answer[w] = "ok"
  /\ End(w)
  /\ names' = OnSuccess(x)
  /\ fetched' = [fetched EXCEPT ![w][x] = @ + 1]
  /\ asking' = [asking EXCEPT ![w] = {}]

\* Best effort: an empty name, and nothing in the cache.
Failed(w, x) ==
  /\ x \in asking[w] /\ answer[w] # "ok"
  /\ End(w)
  /\ names' = OnFailure(x)
  /\ asking' = [asking EXCEPT ![w] = {}]
  /\ UNCHANGED fetched

\* Other requests of the worker.
Other(w, k) ==
  /\ Begin(w, k)
  /\ UNCHANGED <<names, asking, fetched>>

OtherDone(w) ==
  /\ asking[w] = {} /\ End(w)
  /\ UNCHANGED <<names, asking, fetched>>

Next ==
  \/ Tick /\ UNCHANGED <<names, asking, fetched>>
  \/ \E w \in Workers :
       \/ Work(w) /\ UNCHANGED <<names, asking, fetched>>
       \/ OtherDone(w) \/ \E k \in Kinds \ {"api"} : Other(w, k)
       \/ \E x \in Accounts : Miss(w, x) \/ Answered(w, x) \/ Failed(w, x)

Spec == Init /\ [][Next]_vars

-----------------------------------------------------------------------------
\* Every variable has its type.
TypeOK ==
  /\ TransportTypeOK
  /\ DOMAIN names \subseteq Accounts /\ \A x \in DOMAIN names : names[x] \subseteq Accounts
  /\ asking \in [Workers -> SUBSET Accounts]
  /\ fetched \in [Workers -> [Accounts -> Nat]]

\* What the workers share is what the server said, and they keep it.  Lookup and store
\* are two steps, but no answer is lost between them: a worker never asks again for a
\* name it got, not even for one that turned out empty.  And no failed request blanks a
\* name.
CacheHonest ==
  /\ \A w \in Workers, x \in Accounts : fetched[w][x] <= 1
  /\ \A x \in DOMAIN names : names[x] = Name(x)
=============================================================================
