-------------------------------- MODULE Crawl --------------------------------
(***************************************************************************)
(* The traversal engine of a crawl session (internal/crawl/full.go): Run   *)
(* on the main goroutine, the workers, the bounded queue of discovered     *)
(* pages, the mutex mu, the semaphore and the pendingWork wait group.      *)
(*                                                                         *)
(* One action is one stretch of code between two points where another      *)
(* goroutine can interfere: a channel operation, a lock, a wait-group      *)
(* operation, the call of the node handler.  The handler (CrawlNodeHandler)*)
(* is an input: for a page it may answer anything its type allows.         *)
(***************************************************************************)
EXTENDS Naturals, Sequences, FiniteSets, Measures

CONSTANTS Pages,      \* page keys (host/id)
          Seeds,      \* the seed pages, in the order Run receives them
          LinkLists,  \* LinkLists[p]: the OutgoingLinks a handler may report for p
          MaxDepth,   \* crawl.max_depth
          Workers,    \* the worker goroutines: crawl.concurrency of them
          QueueSize   \* crawl.queue_size, the capacity of the queue channel

Main   == "main"      \* the goroutine that called Run
Nobody == "nobody"    \* mu is free

ASSUME CrawlAssumption ==
  /\ Seeds \in Seq(Pages)
  /\ LinkLists \in [Pages -> SUBSET Seq(Pages)]
  /\ MaxDepth \in Nat
  /\ IsFiniteSet(Workers) /\ Workers # {}
  /\ Workers \cap {Main, Nobody} = {}
  /\ QueueSize \in Nat \ {0}

VARIABLES
  mu,                                    \* holder of cs.mu
  queue, closed,                         \* the channel cs.queue
  visited, results,                      \* cs.visited, cs.results
  semaphore, pendingWork, enqueueDrops,  \* slots taken, wait-group counter, drops
  cancelled,                             \* ctx.Err() # nil
  mainPc, seedIdx, ret,                  \* Run: where, next seed, how it returned
  pc, item, reply, kids,                 \* each worker: where, its queue item, the
                                         \* handler's answer, links still to enqueue
  calls                                  \* history: handler calls per page

queueVars  == <<queue, closed>>
pageVars   == <<visited, results, calls>>
countVars  == <<semaphore, pendingWork, enqueueDrops>>
mainVars   == <<mainPc, seedIdx, ret>>
workerVars == <<pc, item, reply, kids>>
vars == <<mu, queueVars, pageVars, countVars, cancelled, mainVars, workerVars>>

NoItem   == [page |-> "none"]
NoReply  == [kind |-> "no reply"]
NoResult == [kind |-> "no result"]

Items   == [page : Pages, depth : Nat]
Replies == [kind : {"ok", "error", "deleted", "nil"}, links : Seq(Pages)]
Results == [kind : {"ok", "error", "deleted"}, links : Seq(Pages), depth : Nat]

\* What a node handler may answer for p: a page, a page with a FetchError (a
\* failed conversion keeps the links it found), a deletion, or a nil result,
\* which the worker turns into an error without a page.
Answers(p) ==
  [kind : {"ok", "error"}, links : LinkLists[p]]
    \cup [kind : {"deleted", "nil"}, links : {<<>>}]

Recorded(p) == results[p].kind # "no result"
SeedPages   == {Seeds[i] : i \in DOMAIN Seeds}
Linked(s)   == {s[i] : i \in DOMAIN s}

Init ==
  /\ mu = Nobody
  /\ queue = <<>> /\ closed = FALSE
  /\ visited = {} /\ results = [p \in Pages |-> NoResult]
  /\ semaphore = 0 /\ pendingWork = 0 /\ enqueueDrops = 0
  /\ cancelled = FALSE
  /\ mainPc = "seed" /\ seedIdx = 1 /\ ret = "running"
  /\ pc    = [w \in Workers |-> "recv"]
  /\ item  = [w \in Workers |-> NoItem]
  /\ reply = [w \in Workers |-> NoReply]
  /\ kids  = [w \in Workers |-> <<>>]
  /\ calls = [p \in Pages |-> 0]

-----------------------------------------------------------------------------
(* Operations that Run and the workers share.  A definition marked Mutant  *)
(* is a plausible bug, used to test that a property can fail.              *)

FreshByResults(p) == ~Recorded(p)              \* Mutant of Fresh
Fresh(p) == p \notin visited

FullOffByOne == Len(queue) > QueueSize         \* Mutant of Full
Full == Len(queue) >= QueueSize

Item(p, d) == [page |-> p, depth |-> d]
Send(p, d) == queue' = Append(queue, Item(p, d))

NoAdd == UNCHANGED pendingWork                 \* Mutant of Add
Add   == pendingWork' = pendingWork + 1
NoDone == UNCHANGED pendingWork                \* Mutant of Done
Done   == pendingWork' = pendingWork - 1
AddOnly    == pendingWork' = pendingWork + 1   \* Mutant of AddAndDone
AddAndDone == UNCHANGED pendingWork

KeepSlot == UNCHANGED semaphore               \* Mutant of FreeSlot
FreeSlot == semaphore' = semaphore - 1

-----------------------------------------------------------------------------
(* Run, on the main goroutine. *)

\* A seed that was visited before is skipped (lock, look, unlock).
SeedKnown ==
  /\ mainPc = "seed" /\ seedIdx \in DOMAIN Seeds /\ mu = Nobody
  /\ ~Fresh(Seeds[seedIdx])
  /\ seedIdx' = seedIdx + 1
  /\ UNCHANGED <<mu, queueVars, pageVars, countVars, cancelled, mainPc, ret, workerVars>>

\* A new seed is marked and counted, and Run goes on to send it, holding mu.
SeedMark ==
  /\ mainPc = "seed" /\ seedIdx \in DOMAIN Seeds /\ mu = Nobody
  /\ Fresh(Seeds[seedIdx])
  /\ mu' = Main
  /\ visited' = visited \cup {Seeds[seedIdx]}
  /\ Add
  /\ mainPc' = "send"
  /\ UNCHANGED <<queueVars, results, calls, semaphore, enqueueDrops, cancelled, seedIdx, ret,
                 workerVars>>

\* The send blocks while the queue is full; mu is released after it.
SeedSend ==
  /\ mainPc = "send" /\ ~Full
  /\ Send(Seeds[seedIdx], 0)
  /\ mu' = Nobody
  /\ seedIdx' = seedIdx + 1 /\ mainPc' = "seed"
  /\ UNCHANGED <<closed, pageVars, countVars, cancelled, ret, workerVars>>

EmptyQueue == queue = <<>>                     \* Mutant of NothingPending
NothingPending == pendingWork = 0

\* pendingWork.Wait() returns.
Wait ==
  /\ mainPc = "seed" /\ seedIdx \notin DOMAIN Seeds
  /\ NothingPending
  /\ mainPc' = "close"
  /\ UNCHANGED <<mu, queueVars, pageVars, countVars, cancelled, seedIdx, ret, workerVars>>

CloseQueue ==
  /\ mainPc = "close"
  /\ closed' = TRUE
  /\ mainPc' = "join"
  /\ UNCHANGED <<mu, queue, pageVars, countVars, cancelled, seedIdx, ret, workerVars>>

\* Mutants of Verdict.
VerdictIgnoringDrops   == IF cancelled THEN "cancelled" ELSE "ok"
VerdictIgnoringContext == IF enqueueDrops > 0 THEN "saturated" ELSE "ok"

\* What Run returns beside the results: ctx.Err(), the saturation error, nil.
Verdict ==
  IF cancelled THEN "cancelled" ELSE IF enqueueDrops > 0 THEN "saturated" ELSE "ok"

\* workerWg.Wait() returns, then Run does.
Return ==
  /\ mainPc = "join"
  /\ \A w \in Workers : pc[w] = "exited"
  /\ ret' = Verdict
  /\ mainPc' = "returned"
  /\ UNCHANGED <<mu, queueVars, pageVars, countVars, cancelled, seedIdx, workerVars>>

MainStep == SeedKnown \/ SeedMark \/ SeedSend \/ Wait \/ CloseQueue \/ Return

-----------------------------------------------------------------------------
(* worker, from the receive to pendingWork.Done(). *)

Goto(w, from, to) == pc[w] = from /\ pc' = [pc EXCEPT ![w] = to]

Receive(w) ==
  /\ Goto(w, "recv", "got")
  /\ queue # <<>>
  /\ item' = [item EXCEPT ![w] = Head(queue)]
  /\ queue' = Tail(queue)
  /\ UNCHANGED <<mu, closed, pageVars, countVars, cancelled, mainVars, reply, kids>>

\* range over a closed and drained channel ends the worker.
Exit(w) ==
  /\ Goto(w, "recv", "exited")
  /\ queue = <<>> /\ closed
  /\ UNCHANGED <<mu, queueVars, pageVars, countVars, cancelled, mainVars, item, reply, kids>>

\* The checks before the semaphore: context and depth limit.
Admissible(w) == ~cancelled /\ item[w].depth <= MaxDepth

Admit(w) ==
  /\ Goto(w, "got", "acquire")
  /\ Admissible(w)
  /\ UNCHANGED <<mu, queueVars, pageVars, countVars, cancelled, mainVars, item, reply, kids>>

\* The end of an item: pendingWork.Done() and back to the receive.
Leave(w) ==
  /\ pc' = [pc EXCEPT ![w] = "recv"]
  /\ item' = [item EXCEPT ![w] = NoItem]
  /\ Done
  /\ UNCHANGED <<mu, queueVars, pageVars, semaphore, enqueueDrops, cancelled, mainVars, reply,
                 kids>>

\* The item fails the checks, or the context ends before a slot is taken.
Skip(w) ==
  /\ (pc[w] = "got" /\ ~Admissible(w)) \/ (pc[w] = "acquire" /\ cancelled)
  /\ Leave(w)

Acquire(w) ==
  /\ Goto(w, "acquire", "handle")
  /\ semaphore < Cardinality(Workers)
  /\ semaphore' = semaphore + 1
  /\ UNCHANGED <<mu, queueVars, pageVars, pendingWork, enqueueDrops, cancelled, mainVars, item,
                 reply, kids>>

\* The node handler runs, without mu, and answers.
Handle(w) ==
  /\ Goto(w, "handle", "record")
  /\ \E a \in Answers(item[w].page) : reply' = [reply EXCEPT ![w] = a]
  /\ calls' = [calls EXCEPT ![item[w].page] = @ + 1]
  /\ UNCHANGED <<mu, queueVars, visited, results, countVars, cancelled, mainVars, item, kids>>

\* A page, deleted or failed ones included, is stored under mu.
Record(w) ==
  /\ Goto(w, "record", "release")
  /\ mu = Nobody
  /\ results' = IF reply[w].kind = "nil" THEN results
                ELSE [results EXCEPT ![item[w].page] =
                        [kind  |-> reply[w].kind,
                         links |-> reply[w].links,
                         depth |-> item[w].depth]]
  /\ UNCHANGED <<mu, queueVars, visited, calls, countVars, cancelled, mainVars, item, reply, kids>>

\* Only a page without error, not deleted and above the limit, is expanded.
ExpandsFailed(w) ==                            \* Mutant of Expands
  reply[w].kind \in {"ok", "error"} /\ item[w].depth < MaxDepth
Expands(w) == reply[w].kind = "ok" /\ item[w].depth < MaxDepth

\* The slot is given back before the children are enqueued.
Release(w) ==
  /\ pc[w] = "release"
  /\ pc' = [pc EXCEPT ![w] = IF Expands(w) THEN "lock" ELSE "finish"]
  /\ FreeSlot
  /\ kids' = [kids EXCEPT ![w] = IF Expands(w) THEN reply[w].links ELSE <<>>]
  /\ reply' = [reply EXCEPT ![w] = NoReply]
  /\ UNCHANGED <<mu, queueVars, pageVars, pendingWork, enqueueDrops, cancelled, mainVars, item>>

\* enqueueChildren takes mu for its whole loop.
LockChildren(w) ==
  /\ Goto(w, "lock", "enqueue")
  /\ mu = Nobody
  /\ mu' = w
  /\ UNCHANGED <<queueVars, pageVars, countVars, cancelled, mainVars, item, reply, kids>>

NextChild(w) ==
  /\ pc[w] = "enqueue" /\ kids[w] # <<>>
  /\ kids' = [kids EXCEPT ![w] = Tail(@)]
  /\ UNCHANGED <<mu, closed, results, calls, semaphore, cancelled, mainVars, pc, item, reply>>

KnownChild(w) ==
  /\ NextChild(w)
  /\ ~Fresh(Head(kids[w]))
  /\ UNCHANGED <<queue, visited, pendingWork, enqueueDrops>>

\* A new child is marked and counted, and the non-blocking send succeeds ...
SendChild(w) ==
  /\ NextChild(w)
  /\ Fresh(Head(kids[w])) /\ ~Full
  /\ visited' = visited \cup {Head(kids[w])}
  /\ Add
  /\ Send(Head(kids[w]), item[w].depth + 1)
  /\ UNCHANGED enqueueDrops

\* ... or fails: the child stays visited, is counted as dropped and its Add is
\* taken back.
DropChild(w) ==
  /\ NextChild(w)
  /\ Fresh(Head(kids[w])) /\ Full
  /\ visited' = visited \cup {Head(kids[w])}
  /\ enqueueDrops' = enqueueDrops + 1
  /\ AddAndDone
  /\ UNCHANGED queue

UnlockChildren(w) ==
  /\ Goto(w, "enqueue", "finish")
  /\ kids[w] = <<>>
  /\ mu' = Nobody
  /\ UNCHANGED <<queueVars, pageVars, countVars, cancelled, mainVars, item, reply, kids>>

Finish(w) == pc[w] = "finish" /\ Leave(w)

WorkerStep(w) ==
  \/ Receive(w) \/ Exit(w) \/ Admit(w) \/ Skip(w) \/ Acquire(w)
  \/ Handle(w) \/ Record(w) \/ Release(w)
  \/ LockChildren(w) \/ KnownChild(w) \/ SendChild(w) \/ DropChild(w)
  \/ UnlockChildren(w) \/ Finish(w)

-----------------------------------------------------------------------------
\* The deadline of the traversal passes, or the caller cancels.
Cancel ==
  /\ ~cancelled /\ ret = "running"
  /\ cancelled' = TRUE
  /\ UNCHANGED <<mu, queueVars, pageVars, countVars, mainVars, workerVars>>

\* Run has returned; the session is over.
Terminated == ret # "running" /\ UNCHANGED vars

Next ==
  \/ MainStep
  \/ \E w \in Workers : WorkerStep(w)
  \/ Cancel
  \/ Terminated

Spec == Init /\ [][Next]_vars

\* The Go scheduler runs every goroutine that can run, a blocked Lock or send is
\* served in turn, and a node handler answers because each HTTP call has a
\* timeout.  Nothing forces the context to end.
Fairness == WF_vars(MainStep) /\ \A w \in Workers : WF_vars(WorkerStep(w))

FairSpec == Spec /\ Fairness
-----------------------------------------------------------------------------
(* What the engine promises. *)

Busy == {w \in Workers : pc[w] \notin {"recv", "exited"}}

\* Every variable has its type, and the channel never holds more than it can.
TypeOK ==
  /\ mu \in Workers \cup {Main, Nobody}
  /\ queue \in Seq(Items) /\ Len(queue) <= QueueSize
  /\ closed \in BOOLEAN /\ cancelled \in BOOLEAN
  /\ visited \in SUBSET Pages
  /\ results \in [Pages -> Results \cup {NoResult}]
  /\ semaphore \in Nat /\ pendingWork \in Nat /\ enqueueDrops \in Nat
  /\ mainPc \in {"seed", "send", "close", "join", "returned"}
  /\ seedIdx \in 1..(Len(Seeds) + 1)
  /\ ret \in {"running", "ok", "cancelled", "saturated"}
  /\ pc \in [Workers -> {"recv", "got", "acquire", "handle", "record", "release",
                         "lock", "enqueue", "finish", "exited"}]
  /\ item \in [Workers -> Items \cup {NoItem}]
  /\ reply \in [Workers -> Replies \cup {NoReply}]
  /\ kids \in [Workers -> Seq(Pages)]
  /\ calls \in [Pages -> Nat]

\* pendingWork counts exactly the items in the queue, in a worker's hands and,
\* while Run blocks on a send, the seed it holds.  So Wait neither returns while
\* a page is on its way nor waits for a page that is gone, and the counter is
\* never negative (which would be a panic), whatever is skipped or dropped.
PendingExact ==
  pendingWork = Len(queue) + Cardinality(Busy) + (IF mainPc = "send" THEN 1 ELSE 0)

\* A worker that wants a slot always finds one: the semaphore has as many slots
\* as there are workers, and none of them keeps a slot past its page.
SlotAvailable ==
  \A w \in Workers : pc[w] = "acquire" => semaphore < Cardinality(Workers)

\* close(queue) happens when nothing is queued and nobody works on a page: no
\* worker can send on the closed channel (a panic) and no item is abandoned.
QuietAfterClose == closed => queue = <<>> /\ Busy = {} /\ mainPc # "send"

\* The node handler is called at most once for a page, however many pages link
\* to it, whichever workers see the links, and also if it is a seed.
AtMostOnce == \A p \in Pages : calls[p] <= 1

\* A crawl that returns no error has handled every seed and everything it
\* discovered, and it discovered every link of every good page above the depth
\* limit: a page that was dropped or skipped always turns into an error.
SuccessIsClosed ==
  ret = "ok" =>
    /\ SeedPages \subseteq visited
    /\ \A p \in visited : calls[p] = 1
    /\ \A p \in Pages :
         results[p].kind = "ok" /\ results[p].depth < MaxDepth
           => Linked(results[p].links) \subseteq visited

\* A recorded depth is the length of a chain of links from a seed through pages
\* without error: nothing is crawled behind a failed or deleted page or beyond
\* the depth limit.
DepthWitness ==
  \A p \in Pages : Recorded(p) =>
    /\ results[p].depth <= MaxDepth
    /\ IF results[p].depth = 0 THEN p \in SeedPages
       ELSE \E q \in Pages :
              /\ results[q].kind = "ok"
              /\ results[q].depth = results[p].depth - 1
              /\ p \in Linked(results[q].links)

\* Once the seeds are in, a pendingWork of zero is final: no Add comes after the
\* counter has let Wait return (a misuse of sync.WaitGroup).
ZeroIsFinal ==
  [][seedIdx \notin DOMAIN Seeds /\ pendingWork = 0 => pendingWork' = 0]_vars

\* Run can go on.
MainRuns ==
  \/ mainPc = "seed" /\ seedIdx \in DOMAIN Seeds /\ mu = Nobody
  \/ mainPc = "seed" /\ seedIdx \notin DOMAIN Seeds /\ pendingWork = 0
  \/ mainPc = "send" /\ ~Full
  \/ mainPc = "close"
  \/ mainPc = "join" /\ \A w \in Workers : pc[w] = "exited"

\* A worker can go on: it is not waiting for an item, for a slot or for mu.
WorkerRuns(w) ==
  /\ pc[w] # "exited"
  /\ pc[w] = "recv" => queue # <<>> \/ closed
  /\ pc[w] = "acquire" => cancelled \/ semaphore < Cardinality(Workers)
  /\ pc[w] \in {"record", "lock"} => mu = Nobody

\* Until Run returns somebody can go on, with one exception: Run holds mu while it
\* waits for a place in the queue, for the third seed or a later one, and every worker
\* waits for mu.
StuckOnlySeeding ==
  ret = "running" =>
    \/ MainRuns \/ \E w \in Workers : WorkerRuns(w)
    \/ /\ mainPc = "send" /\ seedIdx > 2 /\ Full
       /\ \A w \in Workers : pc[w] \in {"record", "lock"}

\* What is left to do, most significant first: steps of Run, pages to discover, items
\* to receive, the workers by how far they are with theirs, links to look at.
MainLeft ==
  2 * (Len(Seeds) + 1 - seedIdx)
    + [seed |-> 4, send |-> 3, close |-> 2, join |-> 1, returned |-> 0][mainPc]
At(place) == Cardinality({w \in Workers : pc[w] = place})
LinksLeft == IF mu \in Workers THEN Len(kids[mu]) ELSE 0
Left ==
  <<MainLeft, Cardinality(Pages \ visited), Len(queue),
    At("got"), At("acquire"), At("handle"), At("record"), At("release"),
    At("lock"), At("enqueue"), At("finish"), At("recv"), LinksLeft>>

\* Every step of Run and of the workers leaves less to do, in lexicographic order: the
\* engine cannot go on for ever, whatever links the pages report.
Progress == [][MainStep \/ (\E w \in Workers : WorkerStep(w)) => Smaller(Left', Left)]_vars

\* Run returns, whether or not the context ends and whatever the pages answer.
Terminates == <>(ret # "running")

\* Run returns once its context has ended.
CancelledRunReturns == cancelled ~> ret # "running"

\* The pages within MaxDepth links of the seeds, going through good pages only.
Level[n \in Nat] ==
  IF n = 0 THEN SeedPages
  ELSE Level[n - 1] \cup
         UNION {Linked(results[q].links) : q \in {r \in Level[n - 1] : results[r].kind = "ok"}}

\* A crawl that returns no error has crawled all pages reachable from the seeds
\* up to the maximum depth: so with one worker and one seed.  Several of them may give a
\* page a longer path's depth.
SuccessCoversReachable ==
  ret = "ok" => \A p \in Level[MaxDepth] : calls[p] = 1

\* The recorded depth of a page is its distance from the seeds: so with one worker and
\* one seed.
MinimalDepth ==
  ret = "ok" => \A p \in Pages : Recorded(p) =>
    \A n \in 0..MaxDepth : p \in Level[n] => results[p].depth <= n

\* Pages that are queued, being sent or in the hands of a worker, not answered
\* for yet.
Open == {queue[i].page : i \in DOMAIN queue}
          \cup {item[w].page :
                  w \in {v \in Workers : pc[v] \in {"got", "acquire", "handle", "record"}}}
          \cup (IF mainPc = "send" THEN {Seeds[seedIdx]} ELSE {})

Answered == {p \in Pages : calls[p] > 0} \ Open

T == INSTANCE Traversal WITH
       found   <- visited,
       settled <- Answered,
       lost    <- visited \ (Answered \cup Open),
       links   <- [p \in Pages |-> IF results[p].kind = "ok" THEN Linked(results[p].links)
                                   ELSE {}],
       status  <- ret

\* The engine implements the abstract traversal: pages are found only from the
\* seeds and from good pages, each is settled once, and a success lost none.
TraversalSpec == T!Spec
=============================================================================
