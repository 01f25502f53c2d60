----------------------------- MODULE CrawlProofs -----------------------------
(***************************************************************************)
(* Theorems about the traversal engine, for every set of pages, every link *)
(* structure, every number of workers and every queue size.                *)
(***************************************************************************)
EXTENDS Crawl, FiniteSetTheorems, SequenceTheorems, TLAPS

\* The groups of variables and the one-line operations are always expanded.
USE DEF queueVars, pageVars, countVars, Item, Add, Done, AddAndDone, FreeSlot,
        NothingPending, Leave, NextChild

-----------------------------------------------------------------------------
(* The inductive invariant, part by part. *)

\* mu is held by Run exactly while it blocks on a send, and by a worker exactly
\* while it enqueues children.
LockInv ==
  /\ mu = Main <=> mainPc = "send"
  /\ \A w \in Workers : mu = w <=> pc[w] = "enqueue"
  /\ mainPc = "send" => seedIdx \in DOMAIN Seeds

\* A busy worker has an item, and an answer between the handler and the release.
HandsInv ==
  \A w \in Workers :
    /\ w \in Busy => item[w] \in Items
    /\ pc[w] \in {"record", "release"} => reply[w] \in Replies

Slotted == {w \in Workers : pc[w] \in {"handle", "record", "release"}}

\* The semaphore counts the workers between the handler call and the release.
SlotsInv == semaphore = Cardinality(Slotted)

\* Run gets past Wait only with all seeds sent and nothing pending.
PhaseInv ==
  /\ mainPc \in {"close", "join", "returned"} => seedIdx \notin DOMAIN Seeds /\ pendingWork = 0
  /\ closed <=> mainPc \in {"join", "returned"}
  /\ ret # "running" <=> mainPc = "returned"

CountInv == TypeOK /\ LockInv /\ HandsInv /\ SlotsInv /\ PendingExact /\ PhaseInv

-----------------------------------------------------------------------------
(* How the sets of workers change when one worker moves. *)

\* A set of workers has a cardinality, and one more or one less element moves it
\* by one: the fact behind pendingWork and the semaphore.
LEMMA WorkerSets ==
  ASSUME NEW S \in SUBSET Workers
  PROVE  /\ Cardinality(S) \in Nat
         /\ Cardinality(S) <= Cardinality(Workers)
         /\ S # {} <=> Cardinality(S) > 0
         /\ \A w \in Workers \ S : Cardinality(S \cup {w}) = Cardinality(S) + 1
         /\ \A w \in S : Cardinality(S \ {w}) = Cardinality(S) - 1
<1>1. IsFiniteSet(Workers) /\ IsFiniteSet(S)
  BY CrawlAssumption, FS_Subset
<1>2. Cardinality(S) \in Nat /\ Cardinality(S) <= Cardinality(Workers)
  BY <1>1, FS_CardinalityType, FS_Subset
<1>3. S # {} <=> Cardinality(S) > 0
  BY <1>1, <1>2, FS_EmptySet
<1>4. \A w \in Workers \ S : Cardinality(S \cup {w}) = Cardinality(S) + 1
  BY <1>1, FS_AddElement
<1>5. \A w \in S : Cardinality(S \ {w}) = Cardinality(S) - 1
  BY <1>1, FS_RemoveElement
<1> QED
  BY <1>2, <1>3, <1>4, <1>5

\* A worker that moves between two busy places leaves Busy as it is; one that
\* starts or stops being busy enters or leaves it.
LEMMA BusyMoves ==
  ASSUME TypeOK, NEW w \in Workers, NEW to, pc' = [pc EXCEPT ![w] = to]
  PROVE  Busy' = IF to \in {"recv", "exited"} THEN Busy \ {w} ELSE Busy \cup {w}
BY DEF TypeOK, Busy

LEMMA SlottedMoves ==
  ASSUME TypeOK, NEW w \in Workers, NEW to, pc' = [pc EXCEPT ![w] = to]
  PROVE  Slotted' = IF to \in {"handle", "record", "release"} THEN Slotted \cup {w}
                    ELSE Slotted \ {w}
BY DEF TypeOK, Slotted

\* While a worker is busy pendingWork is positive, and while it has a slot the
\* semaphore is: the decrements of both never go below zero.
LEMMA Positive ==
  ASSUME CountInv, NEW w \in Workers
  PROVE  /\ w \in Busy => pendingWork - 1 \in Nat
         /\ w \in Slotted => semaphore - 1 \in Nat
<1>1. Busy \in SUBSET Workers /\ Slotted \in SUBSET Workers
  BY DEF Busy, Slotted
<1>2. Len(queue) \in Nat /\ pendingWork \in Nat /\ semaphore \in Nat
  BY LenProperties DEF CountInv, TypeOK
<1>3. /\ Cardinality(Busy) \in Nat /\ (w \in Busy => Cardinality(Busy) > 0)
      /\ Cardinality(Slotted) \in Nat /\ (w \in Slotted => Cardinality(Slotted) > 0)
  BY <1>1, WorkerSets
<1>4. w \in Busy => pendingWork - 1 \in Nat
  BY <1>2, <1>3 DEF CountInv, PendingExact
<1>5. w \in Slotted => semaphore - 1 \in Nat
  BY <1>2, <1>3 DEF CountInv, SlotsInv
<1> QED
  BY <1>4, <1>5

-----------------------------------------------------------------------------
(* The initial state, and what no step of the engine can change. *)

LEMMA CountInit == Init => CountInv
<1> SUFFICES ASSUME Init PROVE CountInv
  OBVIOUS
<1>1. Busy = {} /\ Slotted = {} /\ Cardinality({}) = 0
  BY FS_EmptySet DEF Init, Busy, Slotted
<1>2. TypeOK
  <2>1. <<>> \in Seq(Items) /\ <<>> \in Seq(Pages) /\ Len(<<>>) = 0
    BY EmptySeq
  <2>2. 1 \in 1..(Len(Seeds) + 1)
    BY CrawlAssumption, LenProperties
  <2>3. /\ queue \in Seq(Items) /\ Len(queue) <= QueueSize
        /\ kids \in [Workers -> Seq(Pages)]
    BY <2>1, CrawlAssumption DEF Init
  <2>4. /\ results \in [Pages -> Results \cup {NoResult}]
        /\ item \in [Workers -> Items \cup {NoItem}]
        /\ reply \in [Workers -> Replies \cup {NoReply}]
        /\ calls \in [Pages -> Nat]
    BY DEF Init
  <2> QED
    BY <2>2, <2>3, <2>4 DEF Init, TypeOK
<1>3. LockInv /\ HandsInv /\ PhaseInv
  BY CrawlAssumption DEF Init, LockInv, HandsInv, PhaseInv, Busy, Main, Nobody
<1>4. SlotsInv /\ PendingExact
  BY <1>1, EmptySeq DEF Init, SlotsInv, PendingExact
<1> QED
  BY <1>2, <1>3, <1>4 DEF CountInv

\* The typed items and answers of the model.
LEMMA SeedTypes ==
  ASSUME TypeOK, seedIdx \in DOMAIN Seeds
  PROVE  /\ Seeds[seedIdx] \in Pages
         /\ seedIdx + 1 \in 1..(Len(Seeds) + 1)
BY CrawlAssumption, LenProperties DEF TypeOK

LEMMA ItemTypes ==
  ASSUME TypeOK, HandsInv, NEW w \in Busy
  PROVE  /\ item[w] \in Items
         /\ item[w].page \in Pages /\ item[w].depth \in Nat
         /\ Answers(item[w].page) \subseteq Replies
<1>1. item[w] \in Items
  BY DEF HandsInv, Busy
<1>2. item[w].page \in Pages /\ item[w].depth \in Nat
  BY <1>1 DEF Items
<1>3. LinkLists[item[w].page] \subseteq Seq(Pages)
  BY <1>2, CrawlAssumption
<1>4. Answers(item[w].page) \subseteq Replies
  BY <1>3, EmptySeq DEF Answers, Replies
<1> QED
  BY <1>1, <1>2, <1>4

\* Every step keeps the types; the counters stay natural numbers because of what
\* they count.
LEMMA TypeStep ==
  ASSUME CountInv, [Next]_vars
  PROVE  TypeOK'
<1> USE DEF TypeOK
<1>0. TypeOK /\ HandsInv
  BY DEF CountInv
<1>1. CASE UNCHANGED vars
  BY <1>0, <1>1 DEF vars, mainVars, workerVars
<1>2. CASE MainStep
  <2>1. CASE SeedKnown
    BY <1>0, <2>1, SeedTypes DEF SeedKnown, workerVars
  <2>2. CASE SeedMark
    BY <1>0, <2>2, SeedTypes DEF SeedMark, workerVars
  <2>3. CASE SeedSend
    <3>1. [page |-> Seeds[seedIdx], depth |-> 0] \in Items
      BY <1>0, <2>3, SeedTypes DEF SeedSend, CountInv, LockInv, Items
    <3>2. queue' \in Seq(Items) /\ Len(queue') <= QueueSize
      BY <1>0, <2>3, <3>1, CrawlAssumption, AppendProperties
      DEF SeedSend, Send, Full
    <3>3. seedIdx' \in 1..(Len(Seeds) + 1)
      BY <1>0, <2>3, SeedTypes DEF SeedSend, CountInv, LockInv
    <3> QED
      BY <1>0, <2>3, <3>2, <3>3 DEF SeedSend, workerVars
  <2>4. CASE Wait
    BY <1>0, <2>4 DEF Wait, workerVars
  <2>5. CASE CloseQueue
    BY <1>0, <2>5 DEF CloseQueue, workerVars
  <2>6. CASE Return
    BY <1>0, <2>6 DEF Return, Verdict, workerVars
  <2> QED
    BY <1>2, <2>1, <2>2, <2>3, <2>4, <2>5, <2>6 DEF MainStep
<1>3. ASSUME NEW w \in Workers, WorkerStep(w) PROVE TypeOK'
  <2> USE DEF Goto, mainVars
  <2>0. w \in Busy => /\ item[w].page \in Pages /\ item[w].depth \in Nat
                      /\ Answers(item[w].page) \subseteq Replies
                      /\ pendingWork - 1 \in Nat
    BY <1>0, ItemTypes, Positive
  <2>1. CASE Receive(w)
    <3>1. Head(queue) \in Items /\ Tail(queue) \in Seq(Items)
          /\ Len(Tail(queue)) <= QueueSize
      BY <1>0, <2>1, CrawlAssumption, HeadTailProperties DEF Receive
    <3> QED
      BY <1>0, <2>1, <3>1 DEF Receive
  <2>2. CASE Exit(w)
    BY <1>0, <2>2 DEF Exit
  <2>3. CASE Admit(w)
    BY <1>0, <2>3 DEF Admit
  <2>4. CASE Skip(w)
    BY <1>0, <2>0, <2>4 DEF Skip, Busy
  <2>5. CASE Acquire(w)
    BY <1>0, <2>5 DEF Acquire
  <2>6. CASE Handle(w)
    <3>1. PICK r \in Answers(item[w].page) : reply' = [reply EXCEPT ![w] = r]
      BY <2>6 DEF Handle
    <3>2. r \in Replies /\ item[w].page \in Pages
      BY <2>0, <2>6 DEF Handle, Busy
    <3> QED
      BY <1>0, <2>6, <3>1, <3>2 DEF Handle
  <2>7. CASE Record(w)
    <3>1. item[w].page \in Pages /\ item[w].depth \in Nat /\ reply[w] \in Replies
      BY <1>0, <2>0, <2>7 DEF Record, Busy, HandsInv
    <3>2. reply[w].kind # "nil" =>
            [kind |-> reply[w].kind, links |-> reply[w].links, depth |-> item[w].depth] \in Results
      BY <3>1 DEF Replies, Results
    <3>3. results' \in [Pages -> Results \cup {NoResult}]
      BY <1>0, <2>7, <3>1, <3>2 DEF Record
    <3> QED
      BY <1>0, <2>7, <3>3 DEF Record
  <2>8. CASE Release(w)
    <3>1. reply[w].links \in Seq(Pages) /\ <<>> \in Seq(Pages)
      BY <1>0, <2>8, EmptySeq DEF Release, HandsInv, Replies
    <3>2. semaphore - 1 \in Nat
      BY <2>8, Positive DEF Release, Slotted
    <3> QED
      BY <1>0, <2>8, <3>1, <3>2 DEF Release
  <2>9. CASE LockChildren(w)
    BY <1>0, <2>9 DEF LockChildren
  <2>10. CASE KnownChild(w)
    BY <1>0, <2>10, HeadTailProperties DEF KnownChild
  <2>11. CASE SendChild(w)
    <3>1. Head(kids[w]) \in Pages /\ Tail(kids[w]) \in Seq(Pages)
      BY <1>0, <2>11, HeadTailProperties DEF SendChild
    <3>2. [page |-> Head(kids[w]), depth |-> item[w].depth + 1] \in Items
      BY <2>0, <2>11, <3>1 DEF SendChild, Busy, Items
    <3>3. queue' \in Seq(Items) /\ Len(queue') <= QueueSize
      BY <1>0, <2>11, <3>2, CrawlAssumption, AppendProperties
      DEF SendChild, Send, Full
    <3> QED
      BY <1>0, <2>11, <3>1, <3>3 DEF SendChild
  <2>12. CASE DropChild(w)
    BY <1>0, <2>12, HeadTailProperties DEF DropChild
  <2>13. CASE UnlockChildren(w)
    BY <1>0, <2>13 DEF UnlockChildren
  <2>14. CASE Finish(w)
    BY <1>0, <2>0, <2>14 DEF Finish, Busy
  <2> QED
    BY <1>3, <2>1, <2>2, <2>3, <2>4, <2>5, <2>6, <2>7, <2>8, <2>9, <2>10,
       <2>11, <2>12, <2>13, <2>14 DEF WorkerStep
<1>4. CASE Cancel
  BY <1>0, <1>4 DEF Cancel, mainVars, workerVars
<1> QED
  BY <1>1, <1>2, <1>3, <1>4 DEF Next, Terminated

-----------------------------------------------------------------------------
(* Locks, items, slots and phases, one part at a time. *)

\* mu is taken only when it is free and given back by its holder.
LEMMA LockStep ==
  ASSUME CountInv, [Next]_vars
  PROVE  LockInv'
<1> USE CrawlAssumption DEF LockInv, Main, Nobody, Goto
<1>0. TypeOK /\ LockInv
  BY DEF CountInv
<1>1. CASE UNCHANGED vars
  BY <1>0, <1>1 DEF vars, TypeOK, mainVars, workerVars
<1>2. CASE MainStep
  <2>1. CASE SeedKnown
    BY <1>0, <2>1 DEF SeedKnown, TypeOK, mainVars, workerVars
  <2>2. CASE SeedMark
    BY <1>0, <2>2 DEF SeedMark, TypeOK, mainVars, workerVars
  <2>3. CASE SeedSend
    BY <1>0, <2>3 DEF SeedSend, TypeOK, mainVars, workerVars
  <2>4. CASE Wait
    BY <1>0, <2>4 DEF Wait, TypeOK, mainVars, workerVars
  <2>5. CASE CloseQueue
    BY <1>0, <2>5 DEF CloseQueue, TypeOK, mainVars, workerVars
  <2>6. CASE Return
    BY <1>0, <2>6 DEF Return, TypeOK, mainVars, workerVars
  <2> QED
    BY <1>2, <2>1, <2>2, <2>3, <2>4, <2>5, <2>6 DEF MainStep
<1>3. ASSUME NEW w \in Workers, WorkerStep(w) PROVE LockInv'
  <2>1. CASE Receive(w)
    BY <1>0, <2>1 DEF Receive, TypeOK, mainVars
  <2>2. CASE Exit(w)
    BY <1>0, <2>2 DEF Exit, TypeOK, mainVars
  <2>3. CASE Admit(w)
    BY <1>0, <2>3 DEF Admit, TypeOK, mainVars
  <2>4. CASE Skip(w)
    BY <1>0, <2>4 DEF Skip, TypeOK, mainVars
  <2>5. CASE Acquire(w)
    BY <1>0, <2>5 DEF Acquire, TypeOK, mainVars
  <2>6. CASE Handle(w)
    BY <1>0, <2>6 DEF Handle, TypeOK, mainVars
  <2>7. CASE Record(w)
    BY <1>0, <2>7 DEF Record, TypeOK, mainVars
  <2>8. CASE Release(w)
    BY <1>0, <2>8 DEF Release, TypeOK, mainVars
  <2>9. CASE LockChildren(w)
    BY <1>0, <2>9 DEF LockChildren, TypeOK, mainVars
  <2>10. CASE KnownChild(w)
    BY <1>0, <2>10 DEF KnownChild, TypeOK, mainVars
  <2>11. CASE SendChild(w)
    BY <1>0, <2>11 DEF SendChild, TypeOK, mainVars
  <2>12. CASE DropChild(w)
    BY <1>0, <2>12 DEF DropChild, TypeOK, mainVars
  <2>13. CASE UnlockChildren(w)
    BY <1>0, <2>13 DEF UnlockChildren, TypeOK, mainVars
  <2>14. CASE Finish(w)
    BY <1>0, <2>14 DEF Finish, TypeOK, mainVars
  <2> QED
    BY <1>3, <2>1, <2>2, <2>3, <2>4, <2>5, <2>6, <2>7, <2>8,
       <2>9, <2>10, <2>11, <2>12, <2>13, <2>14 DEF WorkerStep
<1>4. CASE Cancel
  BY <1>0, <1>4 DEF Cancel, TypeOK, mainVars, workerVars
<1> QED
  BY <1>1, <1>2, <1>3, <1>4 DEF Next, Terminated

\* A worker has an item while it is busy, and an answer from Handle to Release.
LEMMA HandsStep ==
  ASSUME CountInv, [Next]_vars
  PROVE  HandsInv'
<1> USE DEF HandsInv, Busy, Goto
<1>0. TypeOK /\ HandsInv
  BY DEF CountInv
<1>1. CASE UNCHANGED vars
  BY <1>0, <1>1 DEF vars, TypeOK, mainVars, workerVars
<1>2. CASE MainStep
  <2>1. CASE SeedKnown
    BY <1>0, <2>1 DEF SeedKnown, TypeOK, mainVars, workerVars
  <2>2. CASE SeedMark
    BY <1>0, <2>2 DEF SeedMark, TypeOK, mainVars, workerVars
  <2>3. CASE SeedSend
    BY <1>0, <2>3 DEF SeedSend, TypeOK, mainVars, workerVars
  <2>4. CASE Wait
    BY <1>0, <2>4 DEF Wait, TypeOK, mainVars, workerVars
  <2>5. CASE CloseQueue
    BY <1>0, <2>5 DEF CloseQueue, TypeOK, mainVars, workerVars
  <2>6. CASE Return
    BY <1>0, <2>6 DEF Return, TypeOK, mainVars, workerVars
  <2> QED
    BY <1>2, <2>1, <2>2, <2>3, <2>4, <2>5, <2>6 DEF MainStep
<1>3. ASSUME NEW w \in Workers, WorkerStep(w) PROVE HandsInv'
  <2>1. CASE Receive(w)
    <3>1. Head(queue) \in Items
      BY <1>0, <2>1, HeadTailProperties DEF Receive, TypeOK
    <3> QED
      BY <1>0, <2>1, <3>1 DEF Receive, TypeOK
  <2>2. CASE Exit(w)
    BY <1>0, <2>2 DEF Exit, TypeOK
  <2>3. CASE Admit(w)
    BY <1>0, <2>3 DEF Admit, TypeOK
  <2>4. CASE Skip(w)
    BY <1>0, <2>4 DEF Skip, TypeOK
  <2>5. CASE Acquire(w)
    BY <1>0, <2>5 DEF Acquire, TypeOK
  <2>6. CASE Handle(w)
    <3>1. Answers(item[w].page) \subseteq Replies
      BY <1>0, <2>6, ItemTypes DEF Handle
    <3> QED
      BY <1>0, <2>6, <3>1 DEF Handle, TypeOK
  <2>7. CASE Record(w)
    BY <1>0, <2>7 DEF Record, TypeOK
  <2>8. CASE Release(w)
    BY <1>0, <2>8 DEF Release, TypeOK
  <2>9. CASE LockChildren(w)
    BY <1>0, <2>9 DEF LockChildren, TypeOK
  <2>10. CASE KnownChild(w)
    BY <1>0, <2>10 DEF KnownChild, TypeOK
  <2>11. CASE SendChild(w)
    BY <1>0, <2>11 DEF SendChild, TypeOK
  <2>12. CASE DropChild(w)
    BY <1>0, <2>12 DEF DropChild, TypeOK
  <2>13. CASE UnlockChildren(w)
    BY <1>0, <2>13 DEF UnlockChildren, TypeOK
  <2>14. CASE Finish(w)
    BY <1>0, <2>14 DEF Finish, TypeOK
  <2> QED
    BY <1>3, <2>1, <2>2, <2>3, <2>4, <2>5, <2>6, <2>7, <2>8,
       <2>9, <2>10, <2>11, <2>12, <2>13, <2>14 DEF WorkerStep
<1>4. CASE Cancel
  BY <1>0, <1>4 DEF Cancel, TypeOK, mainVars, workerVars
<1> QED
  BY <1>1, <1>2, <1>3, <1>4 DEF Next, Terminated

\* The semaphore moves with the workers that enter and leave their slots.
LEMMA SlotsStep ==
  ASSUME CountInv, [Next]_vars
  PROVE  SlotsInv'
<1> USE DEF SlotsInv
<1>0. TypeOK /\ SlotsInv /\ Slotted \in SUBSET Workers
  BY DEF CountInv, Slotted
<1>1. CASE UNCHANGED vars
  BY <1>0, <1>1 DEF vars, Slotted, mainVars, workerVars
<1>2. CASE MainStep
  <2>1. CASE SeedKnown
    BY <1>0, <2>1 DEF SeedKnown, Slotted, mainVars, workerVars
  <2>2. CASE SeedMark
    BY <1>0, <2>2 DEF SeedMark, Slotted, mainVars, workerVars
  <2>3. CASE SeedSend
    BY <1>0, <2>3 DEF SeedSend, Slotted, mainVars, workerVars
  <2>4. CASE Wait
    BY <1>0, <2>4 DEF Wait, Slotted, mainVars, workerVars
  <2>5. CASE CloseQueue
    BY <1>0, <2>5 DEF CloseQueue, Slotted, mainVars, workerVars
  <2>6. CASE Return
    BY <1>0, <2>6 DEF Return, Slotted, mainVars, workerVars
  <2> QED
    BY <1>2, <2>1, <2>2, <2>3, <2>4, <2>5, <2>6 DEF MainStep
<1>3. ASSUME NEW w \in Workers, WorkerStep(w) PROVE SlotsInv'
  <2>1. CASE Receive(w)
    <3>1. Slotted' = Slotted
      BY <1>0, <2>1 DEF Receive, Goto, Slotted, TypeOK
    <3> QED
      BY <1>0, <2>1, <3>1 DEF Receive
  <2>2. CASE Exit(w)
    <3>1. Slotted' = Slotted
      BY <1>0, <2>2 DEF Exit, Goto, Slotted, TypeOK
    <3> QED
      BY <1>0, <2>2, <3>1 DEF Exit
  <2>3. CASE Admit(w)
    <3>1. Slotted' = Slotted
      BY <1>0, <2>3 DEF Admit, Goto, Slotted, TypeOK
    <3> QED
      BY <1>0, <2>3, <3>1 DEF Admit
  <2>4. CASE Skip(w)
    <3>1. Slotted' = Slotted
      BY <1>0, <2>4 DEF Skip, Goto, Slotted, TypeOK
    <3> QED
      BY <1>0, <2>4, <3>1 DEF Skip
  <2>5. CASE Acquire(w)
    <3>1. w \notin Slotted /\ Slotted' = Slotted \cup {w}
      BY <1>0, <2>5, SlottedMoves DEF Acquire, Goto, Slotted
    <3> QED
      BY <1>0, <2>5, <3>1, WorkerSets DEF Acquire
  <2>6. CASE Handle(w)
    <3>1. Slotted' = Slotted
      BY <1>0, <2>6 DEF Handle, Goto, Slotted, TypeOK
    <3> QED
      BY <1>0, <2>6, <3>1 DEF Handle
  <2>7. CASE Record(w)
    <3>1. Slotted' = Slotted
      BY <1>0, <2>7 DEF Record, Goto, Slotted, TypeOK
    <3> QED
      BY <1>0, <2>7, <3>1 DEF Record
  <2>8. CASE Release(w)
    <3>1. w \in Slotted /\ Slotted' = Slotted \ {w}
      BY <1>0, <2>8 DEF Release, Slotted, TypeOK
    <3> QED
      BY <1>0, <2>8, <3>1, WorkerSets DEF Release
  <2>9. CASE LockChildren(w)
    <3>1. Slotted' = Slotted
      BY <1>0, <2>9 DEF LockChildren, Goto, Slotted, TypeOK
    <3> QED
      BY <1>0, <2>9, <3>1 DEF LockChildren
  <2>10. CASE KnownChild(w)
    BY <1>0, <2>10 DEF KnownChild, Slotted
  <2>11. CASE SendChild(w)
    BY <1>0, <2>11 DEF SendChild, Slotted
  <2>12. CASE DropChild(w)
    BY <1>0, <2>12 DEF DropChild, Slotted
  <2>13. CASE UnlockChildren(w)
    <3>1. Slotted' = Slotted
      BY <1>0, <2>13 DEF UnlockChildren, Goto, Slotted, TypeOK
    <3> QED
      BY <1>0, <2>13, <3>1 DEF UnlockChildren
  <2>14. CASE Finish(w)
    <3>1. Slotted' = Slotted
      BY <1>0, <2>14 DEF Finish, Goto, Slotted, TypeOK
    <3> QED
      BY <1>0, <2>14, <3>1 DEF Finish
  <2> QED
    BY <1>3, <2>1, <2>2, <2>3, <2>4, <2>5, <2>6, <2>7, <2>8,
       <2>9, <2>10, <2>11, <2>12, <2>13, <2>14 DEF WorkerStep
<1>4. CASE Cancel
  BY <1>0, <1>4 DEF Cancel, Slotted, mainVars, workerVars
<1> QED
  BY <1>1, <1>2, <1>3, <1>4 DEF Next, Terminated

\* Every Add and Done of pendingWork goes with an item that appears in or leaves
\* the queue, a worker's hands or the pending send of Run.
LEMMA PendingStep ==
  ASSUME CountInv, [Next]_vars
  PROVE  PendingExact'
<1> USE DEF PendingExact
<1>0. TypeOK /\ PendingExact /\ Busy \in SUBSET Workers /\ Len(queue) \in Nat
  BY LenProperties DEF CountInv, Busy, TypeOK
<1>00. Cardinality(Busy) \in Nat
  BY <1>0, WorkerSets
<1>1. CASE UNCHANGED vars
  BY <1>0, <1>00, <1>1 DEF vars, Busy, mainVars, workerVars
<1>2. CASE MainStep
  <2>1. CASE SeedKnown
    BY <1>0, <1>00, <2>1 DEF SeedKnown, Busy, mainVars, workerVars
  <2>2. CASE SeedMark
    BY <1>0, <1>00, <2>2 DEF SeedMark, Busy, mainVars, workerVars
  <2>3. CASE SeedSend
    <3>1. Len(queue') = Len(queue) + 1
      BY <1>0, <2>3, SeedTypes, AppendProperties DEF SeedSend, Send, Items, TypeOK, CountInv, LockInv
    <3>2. Busy' = Busy
      BY <2>3 DEF SeedSend, Busy, workerVars
    <3> QED
      BY <1>0, <1>00, <2>3, <3>1, <3>2 DEF SeedSend
  <2>4. CASE Wait
    BY <1>0, <1>00, <2>4 DEF Wait, Busy, mainVars, workerVars
  <2>5. CASE CloseQueue
    BY <1>0, <1>00, <2>5 DEF CloseQueue, Busy, mainVars, workerVars
  <2>6. CASE Return
    BY <1>0, <1>00, <2>6 DEF Return, Busy, mainVars, workerVars
  <2> QED
    BY <1>2, <2>1, <2>2, <2>3, <2>4, <2>5, <2>6 DEF MainStep
<1>3. ASSUME NEW w \in Workers, WorkerStep(w) PROVE PendingExact'
  <2>1. CASE Receive(w)
    <3>1. Len(queue') = Len(queue) - 1
      BY <1>0, <2>1, HeadTailProperties DEF Receive, TypeOK
    <3>2. w \notin Busy /\ Busy' = Busy \cup {w}
      BY <1>0, <2>1 DEF Receive, Goto, Busy, TypeOK
    <3>3. Cardinality(Busy') = Cardinality(Busy) + 1
      BY <1>0, <3>2, WorkerSets
    <3> QED
      BY <1>0, <1>00, <2>1, <3>1, <3>2, <3>3 DEF Receive, mainVars
  <2>2. CASE Exit(w)
    <3>1. Busy' = Busy
      BY <1>0, <2>2 DEF Exit, Goto, Busy, TypeOK
    <3> QED
      BY <1>0, <1>00, <2>2, <3>1 DEF Exit, mainVars
  <2>3. CASE Admit(w)
    <3>1. Busy' = Busy
      BY <1>0, <2>3 DEF Admit, Goto, Busy, TypeOK
    <3> QED
      BY <1>0, <1>00, <2>3, <3>1 DEF Admit, mainVars
  <2>4. CASE Skip(w)
    <3>1. w \in Busy /\ Busy' = Busy \ {w}
      BY <1>0, <2>4 DEF Skip, Goto, Busy, TypeOK
    <3>2. Cardinality(Busy') = Cardinality(Busy) - 1
      BY <1>0, <3>1, WorkerSets
    <3> QED
      BY <1>0, <1>00, <2>4, <3>1, <3>2 DEF Skip, mainVars
  <2>5. CASE Acquire(w)
    <3>1. Busy' = Busy
      BY <1>0, <2>5 DEF Acquire, Goto, Busy, TypeOK
    <3> QED
      BY <1>0, <1>00, <2>5, <3>1 DEF Acquire, mainVars
  <2>6. CASE Handle(w)
    <3>1. Busy' = Busy
      BY <1>0, <2>6 DEF Handle, Goto, Busy, TypeOK
    <3> QED
      BY <1>0, <1>00, <2>6, <3>1 DEF Handle, mainVars
  <2>7. CASE Record(w)
    <3>1. Busy' = Busy
      BY <1>0, <2>7 DEF Record, Goto, Busy, TypeOK
    <3> QED
      BY <1>0, <1>00, <2>7, <3>1 DEF Record, mainVars
  <2>8. CASE Release(w)
    <3>1. Busy' = Busy
      BY <1>0, <2>8 DEF Release, Goto, Busy, TypeOK
    <3> QED
      BY <1>0, <1>00, <2>8, <3>1 DEF Release, mainVars
  <2>9. CASE LockChildren(w)
    <3>1. Busy' = Busy
      BY <1>0, <2>9 DEF LockChildren, Goto, Busy, TypeOK
    <3> QED
      BY <1>0, <1>00, <2>9, <3>1 DEF LockChildren, mainVars
  <2>10. CASE KnownChild(w)
    <3>1. Busy' = Busy
      BY <1>0, <2>10 DEF KnownChild, Goto, Busy, TypeOK
    <3> QED
      BY <1>0, <1>00, <2>10, <3>1 DEF KnownChild, mainVars
  <2>11. CASE SendChild(w)
    <3>1. Len(queue') = Len(queue) + 1
      BY <1>0, <2>11, AppendProperties DEF SendChild, Send, TypeOK
    <3>2. Busy' = Busy
      BY <2>11 DEF SendChild, Busy
    <3> QED
      BY <1>0, <1>00, <2>11, <3>1, <3>2 DEF SendChild, mainVars
  <2>12. CASE DropChild(w)
    <3>1. Busy' = Busy
      BY <1>0, <2>12 DEF DropChild, Goto, Busy, TypeOK
    <3> QED
      BY <1>0, <1>00, <2>12, <3>1 DEF DropChild, mainVars
  <2>13. CASE UnlockChildren(w)
    <3>1. Busy' = Busy
      BY <1>0, <2>13 DEF UnlockChildren, Goto, Busy, TypeOK
    <3> QED
      BY <1>0, <1>00, <2>13, <3>1 DEF UnlockChildren, mainVars
  <2>14. CASE Finish(w)
    <3>1. w \in Busy /\ Busy' = Busy \ {w}
      BY <1>0, <2>14 DEF Finish, Goto, Busy, TypeOK
    <3>2. Cardinality(Busy') = Cardinality(Busy) - 1
      BY <1>0, <3>1, WorkerSets
    <3> QED
      BY <1>0, <1>00, <2>14, <3>1, <3>2 DEF Finish, mainVars
  <2> QED
    BY <1>3, <2>1, <2>2, <2>3, <2>4, <2>5, <2>6, <2>7, <2>8,
       <2>9, <2>10, <2>11, <2>12, <2>13, <2>14 DEF WorkerStep
<1>4. CASE Cancel
  BY <1>0, <1>00, <1>4 DEF Cancel, Busy, mainVars, workerVars
<1> QED
  BY <1>1, <1>2, <1>3, <1>4 DEF Next, Terminated

\* Nothing pending: nothing queued, nobody busy, no send under way.
LEMMA ZeroIsIdle ==
  ASSUME CountInv, pendingWork = 0
  PROVE  queue = <<>> /\ Busy = {} /\ mainPc # "send"
<1>1. queue \in Seq(Items) /\ Len(queue) \in Nat /\ Busy \in SUBSET Workers
  BY LenProperties DEF CountInv, TypeOK, Busy
<1>2. Cardinality(Busy) \in Nat /\ (Busy # {} => Cardinality(Busy) > 0)
  BY <1>1, WorkerSets
<1>3. Len(queue) = 0 /\ Cardinality(Busy) = 0 /\ mainPc # "send"
  BY <1>1, <1>2 DEF CountInv, PendingExact
<1> QED
  BY <1>1, <1>2, <1>3, EmptySeq

\* Once the seeds are in, zero stays zero: only a busy worker could add to it.
LEMMA ZeroStep ==
  ASSUME CountInv, [Next]_vars, seedIdx \notin DOMAIN Seeds, pendingWork = 0
  PROVE  pendingWork' = 0
<1>0. queue = <<>> /\ Busy = {} /\ mainPc # "send"
  BY ZeroIsIdle
<1>1. CASE UNCHANGED vars
  BY <1>0, <1>1 DEF vars, mainVars, workerVars
<1>2. CASE MainStep
  <2>1. CASE SeedKnown
    BY <1>0, <2>1 DEF SeedKnown, mainVars, workerVars
  <2>2. CASE SeedMark
    BY <1>0, <2>2 DEF SeedMark, mainVars, workerVars
  <2>3. CASE SeedSend
    BY <1>0, <2>3 DEF SeedSend, mainVars, workerVars
  <2>4. CASE Wait
    BY <1>0, <2>4 DEF Wait, mainVars, workerVars
  <2>5. CASE CloseQueue
    BY <1>0, <2>5 DEF CloseQueue, mainVars, workerVars
  <2>6. CASE Return
    BY <1>0, <2>6 DEF Return, mainVars, workerVars
  <2> QED
    BY <1>2, <2>1, <2>2, <2>3, <2>4, <2>5, <2>6 DEF MainStep
<1>3. ASSUME NEW w \in Workers, WorkerStep(w) PROVE pendingWork' = 0
  <2>1. CASE Receive(w)
    BY <1>0, <2>1 DEF Receive, Goto, Busy
  <2>2. CASE Exit(w)
    BY <1>0, <2>2 DEF Exit, Goto, Busy
  <2>3. CASE Admit(w)
    BY <1>0, <2>3 DEF Admit, Goto, Busy
  <2>4. CASE Skip(w)
    BY <1>0, <2>4 DEF Skip, Goto, Busy
  <2>5. CASE Acquire(w)
    BY <1>0, <2>5 DEF Acquire, Goto, Busy
  <2>6. CASE Handle(w)
    BY <1>0, <2>6 DEF Handle, Goto, Busy
  <2>7. CASE Record(w)
    BY <1>0, <2>7 DEF Record, Goto, Busy
  <2>8. CASE Release(w)
    BY <1>0, <2>8 DEF Release, Goto, Busy
  <2>9. CASE LockChildren(w)
    BY <1>0, <2>9 DEF LockChildren, Goto, Busy
  <2>10. CASE KnownChild(w)
    BY <1>0, <2>10 DEF KnownChild, Goto, Busy
  <2>11. CASE SendChild(w)
    BY <1>0, <2>11 DEF SendChild, Goto, Busy
  <2>12. CASE DropChild(w)
    BY <1>0, <2>12 DEF DropChild, Goto, Busy
  <2>13. CASE UnlockChildren(w)
    BY <1>0, <2>13 DEF UnlockChildren, Goto, Busy
  <2>14. CASE Finish(w)
    BY <1>0, <2>14 DEF Finish, Goto, Busy
  <2> QED
    BY <1>3, <2>1, <2>2, <2>3, <2>4, <2>5, <2>6, <2>7, <2>8,
       <2>9, <2>10, <2>11, <2>12, <2>13, <2>14 DEF WorkerStep
<1>4. CASE Cancel
  BY <1>0, <1>4 DEF Cancel, mainVars, workerVars
<1> QED
  BY <1>1, <1>2, <1>3, <1>4 DEF Next, Terminated

\* Run passes Wait on a zero that lasts, and closes and returns after it.
LEMMA PhaseStep ==
  ASSUME CountInv, [Next]_vars
  PROVE  PhaseInv'
<1> USE DEF PhaseInv
<1>0. TypeOK /\ PhaseInv
  BY DEF CountInv
<1>00. seedIdx \notin DOMAIN Seeds /\ pendingWork = 0 => pendingWork' = 0
  BY ZeroStep
<1>1. CASE UNCHANGED vars
  BY <1>0, <1>00, <1>1 DEF vars, Verdict, mainVars, workerVars
<1>2. CASE MainStep
  <2>1. CASE SeedKnown
    BY <1>0, <1>00, <2>1 DEF SeedKnown, Verdict, mainVars, workerVars
  <2>2. CASE SeedMark
    BY <1>0, <1>00, <2>2 DEF SeedMark, Verdict, mainVars, workerVars
  <2>3. CASE SeedSend
    BY <1>0, <1>00, <2>3 DEF SeedSend, Verdict, mainVars, workerVars
  <2>4. CASE Wait
    BY <1>0, <1>00, <2>4 DEF Wait, Verdict, mainVars, workerVars
  <2>5. CASE CloseQueue
    BY <1>0, <1>00, <2>5 DEF CloseQueue, Verdict, mainVars, workerVars
  <2>6. CASE Return
    BY <1>0, <1>00, <2>6 DEF Return, Verdict, mainVars, workerVars
  <2> QED
    BY <1>2, <2>1, <2>2, <2>3, <2>4, <2>5, <2>6 DEF MainStep
<1>3. ASSUME NEW w \in Workers, WorkerStep(w) PROVE PhaseInv'
  <2>1. CASE Receive(w)
    BY <1>0, <1>00, <2>1 DEF Receive, mainVars
  <2>2. CASE Exit(w)
    BY <1>0, <1>00, <2>2 DEF Exit, mainVars
  <2>3. CASE Admit(w)
    BY <1>0, <1>00, <2>3 DEF Admit, mainVars
  <2>4. CASE Skip(w)
    BY <1>0, <1>00, <2>4 DEF Skip, mainVars
  <2>5. CASE Acquire(w)
    BY <1>0, <1>00, <2>5 DEF Acquire, mainVars
  <2>6. CASE Handle(w)
    BY <1>0, <1>00, <2>6 DEF Handle, mainVars
  <2>7. CASE Record(w)
    BY <1>0, <1>00, <2>7 DEF Record, mainVars
  <2>8. CASE Release(w)
    BY <1>0, <1>00, <2>8 DEF Release, mainVars
  <2>9. CASE LockChildren(w)
    BY <1>0, <1>00, <2>9 DEF LockChildren, mainVars
  <2>10. CASE KnownChild(w)
    BY <1>0, <1>00, <2>10 DEF KnownChild, mainVars
  <2>11. CASE SendChild(w)
    BY <1>0, <1>00, <2>11 DEF SendChild, mainVars
  <2>12. CASE DropChild(w)
    BY <1>0, <1>00, <2>12 DEF DropChild, mainVars
  <2>13. CASE UnlockChildren(w)
    BY <1>0, <1>00, <2>13 DEF UnlockChildren, mainVars
  <2>14. CASE Finish(w)
    BY <1>0, <1>00, <2>14 DEF Finish, mainVars
  <2> QED
    BY <1>3, <2>1, <2>2, <2>3, <2>4, <2>5, <2>6, <2>7, <2>8,
       <2>9, <2>10, <2>11, <2>12, <2>13, <2>14 DEF WorkerStep
<1>4. CASE Cancel
  BY <1>0, <1>00, <1>4 DEF Cancel, Verdict, mainVars, workerVars
<1> QED
  BY <1>1, <1>2, <1>3, <1>4 DEF Next, Terminated

LEMMA CountStep ==
  ASSUME CountInv, [Next]_vars
  PROVE  CountInv'
BY TypeStep, LockStep, HandsStep, SlotsStep, PendingStep, PhaseStep DEF CountInv

LEMMA CountInvariant == Spec => []CountInv
<1>1. CountInv /\ [Next]_vars => CountInv'
  BY CountStep
<1> QED
  BY CountInit, <1>1, PTL DEF Spec

-----------------------------------------------------------------------------
(* The theorems of the counters. *)

\* Type correctness of the engine; in particular its two counters never become
\* negative and the channel never holds more than it can.
THEOREM TypeCorrect == Spec => []TypeOK
BY CountInvariant, PTL DEF CountInv

\* pendingWork is at every moment the number of pages on their way.
THEOREM PendingCorrect == Spec => []PendingExact
BY CountInvariant, PTL DEF CountInv

\* The channel is closed only when nothing is queued and nobody is busy.
THEOREM QuietCorrect == Spec => []QuietAfterClose
<1>1. CountInv => QuietAfterClose
  BY ZeroIsIdle DEF CountInv, PhaseInv, QuietAfterClose
<1> QED
  BY CountInvariant, <1>1, PTL

\* After the last seed the counter does not leave zero.
THEOREM ZeroCorrect == Spec => ZeroIsFinal
<1>1. CountInv /\ [Next]_vars
        => [seedIdx \notin DOMAIN Seeds /\ pendingWork = 0 => pendingWork' = 0]_vars
  BY ZeroStep
<1> QED
  BY CountInvariant, <1>1, PTL DEF Spec, ZeroIsFinal

\* A worker that asks for a slot is not among those that have one.
LEMMA CountsSlots ==
  ASSUME CountInv
  PROVE  SlotAvailable
<1> SUFFICES ASSUME NEW w \in Workers, pc[w] = "acquire"
             PROVE  semaphore < Cardinality(Workers)
  BY DEF SlotAvailable
<1>1. Slotted \in SUBSET Workers /\ w \in Workers \ Slotted
      /\ Slotted \cup {w} \in SUBSET Workers
  BY DEF Slotted
<1>2. Cardinality(Slotted \cup {w}) = Cardinality(Slotted) + 1
      /\ Cardinality(Slotted) \in Nat
  BY <1>1, WorkerSets
<1>3. Cardinality(Slotted \cup {w}) <= Cardinality(Workers)
      /\ Cardinality(Workers) \in Nat
  BY <1>1, WorkerSets
<1> QED
  BY <1>2, <1>3 DEF CountInv, SlotsInv

\* A worker that asks for a slot gets one without waiting.
THEOREM SlotCorrect == Spec => []SlotAvailable
BY CountInvariant, CountsSlots, PTL

-----------------------------------------------------------------------------
(* Deadlock: somebody can always go on, with the one exception. *)

\* Before Run has sent a seed all workers wait; a worker leaves only a closed channel.
IdleInv ==
  /\ seedIdx = 1 => queue = <<>> /\ \A w \in Workers : pc[w] \in {"recv", "exited"}
  /\ \A w \in Workers : pc[w] = "exited" => closed

\* While Run has sent at most one seed, a worker filled the queue, and the last that
\* did so has not received since.
FillInv ==
  seedIdx <= 2 /\ Full => \E w \in Workers : pc[w] \in {"recv", "enqueue", "finish"}

LEMMA IdleStep ==
  ASSUME CountInv, IdleInv, [Next]_vars
  PROVE  IdleInv'
<1> USE DEF IdleInv, Goto
<1>0. TypeOK /\ LockInv /\ PhaseInv /\ seedIdx \in Nat
  BY CrawlAssumption, LenProperties DEF CountInv, TypeOK
<1>1. CASE UNCHANGED vars
  BY <1>1 DEF vars, mainVars, workerVars
<1>2. CASE MainStep
  <2>1. CASE SeedKnown
    BY <1>0, <2>1 DEF SeedKnown, TypeOK, PhaseInv, mainVars, workerVars
  <2>2. CASE SeedMark
    BY <1>0, <2>2 DEF SeedMark, TypeOK, PhaseInv, mainVars, workerVars
  <2>3. CASE SeedSend
    BY <1>0, <2>3 DEF SeedSend, TypeOK, PhaseInv, mainVars, workerVars
  <2>4. CASE Wait
    BY <1>0, <2>4 DEF Wait, TypeOK, PhaseInv, mainVars, workerVars
  <2>5. CASE CloseQueue
    BY <1>0, <2>5 DEF CloseQueue, TypeOK, PhaseInv, mainVars, workerVars
  <2>6. CASE Return
    BY <1>0, <2>6 DEF Return, TypeOK, PhaseInv, mainVars, workerVars
  <2> QED
    BY <1>2, <2>1, <2>2, <2>3, <2>4, <2>5, <2>6 DEF MainStep
<1>3. ASSUME NEW w \in Workers, WorkerStep(w) PROVE IdleInv'
  <2>1. CASE Receive(w)
    BY <1>0, <2>1 DEF Receive, TypeOK, mainVars
  <2>2. CASE Exit(w)
    BY <1>0, <2>2 DEF Exit, TypeOK, mainVars
  <2>3. CASE Admit(w)
    BY <1>0, <2>3 DEF Admit, TypeOK, mainVars
  <2>4. CASE Skip(w)
    BY <1>0, <2>4 DEF Skip, TypeOK, mainVars
  <2>5. CASE Acquire(w)
    BY <1>0, <2>5 DEF Acquire, TypeOK, mainVars
  <2>6. CASE Handle(w)
    BY <1>0, <2>6 DEF Handle, TypeOK, mainVars
  <2>7. CASE Record(w)
    BY <1>0, <2>7 DEF Record, TypeOK, mainVars
  <2>8. CASE Release(w)
    BY <1>0, <2>8 DEF Release, TypeOK, mainVars
  <2>9. CASE LockChildren(w)
    BY <1>0, <2>9 DEF LockChildren, TypeOK, mainVars
  <2>10. CASE KnownChild(w)
    BY <1>0, <2>10 DEF KnownChild, TypeOK, mainVars
  <2>11. CASE SendChild(w)
    BY <1>0, <2>11 DEF SendChild, TypeOK, mainVars
  <2>12. CASE DropChild(w)
    BY <1>0, <2>12 DEF DropChild, TypeOK, mainVars
  <2>13. CASE UnlockChildren(w)
    BY <1>0, <2>13 DEF UnlockChildren, TypeOK, mainVars
  <2>14. CASE Finish(w)
    BY <1>0, <2>14 DEF Finish, TypeOK, mainVars
  <2> QED
    BY <1>3, <2>1, <2>2, <2>3, <2>4, <2>5, <2>6, <2>7, <2>8,
       <2>9, <2>10, <2>11, <2>12, <2>13, <2>14 DEF WorkerStep
<1>4. CASE Cancel
  BY <1>4 DEF Cancel, mainVars, workerVars
<1> QED
  BY <1>1, <1>2, <1>3, <1>4 DEF Next, Terminated

\* The queue is filled only by a worker that enqueues, which receives the next item
\* itself, if no other worker does before.
LEMMA FillStep ==
  ASSUME CountInv, IdleInv, FillInv, [Next]_vars
  PROVE  FillInv'
<1> USE DEF FillInv, Goto
<1>0. TypeOK /\ LockInv /\ PhaseInv /\ seedIdx \in Nat /\ Len(queue) \in Nat
      /\ QueueSize \in Nat \ {0} /\ Len(queue) <= QueueSize
  BY CrawlAssumption, LenProperties DEF CountInv, TypeOK
<1>1. CASE UNCHANGED vars
  BY <1>1 DEF vars, mainVars, workerVars, Full
\* A step that leaves the queue alone and in which no worker but a finishing one stops.
<1>2. ASSUME queue' = queue, seedIdx <= seedIdx', seedIdx' \in Nat,
             \A w \in Workers : pc[w] \in {"recv", "enqueue", "finish"}
                                => pc'[w] \in {"recv", "enqueue", "finish"}
      PROVE  FillInv'
  BY <1>0, <1>2 DEF Full
<1>3. CASE MainStep
  <2>1. CASE SeedSend
    <3>1. CASE seedIdx = 1
      <4>1. \A w \in Workers : pc[w] = "recv"
        BY <1>0, <2>1, <3>1 DEF SeedSend, IdleInv, PhaseInv
      <4> QED
        BY <2>1, <4>1, CrawlAssumption DEF SeedSend, workerVars
    <3>2. CASE seedIdx # 1
      <4>1. seedIdx' = seedIdx + 1 /\ seedIdx >= 2
        BY <1>0, <2>1, <3>2, CrawlAssumption, LenProperties DEF SeedSend, TypeOK
      <4>2. ~(seedIdx' <= 2)
        BY <1>0, <4>1
      <4> QED
        BY <4>2 DEF Full
    <3> QED
      BY <3>1, <3>2
  <2>2. CASE SeedKnown \/ SeedMark \/ Wait \/ CloseQueue \/ Return
    <3>1. queue' = queue /\ pc' = pc /\ seedIdx <= seedIdx' /\ seedIdx' \in Nat
      BY <1>0, <2>2 DEF SeedKnown, SeedMark, Wait, CloseQueue, Return, workerVars, mainVars
    <3> QED
      BY <1>2, <3>1
  <2> QED
    BY <1>3, <2>1, <2>2 DEF MainStep
<1>4. ASSUME NEW w \in Workers, WorkerStep(w) PROVE FillInv'
  <2>0. seedIdx' = seedIdx
    BY <1>4 DEF WorkerStep, Receive, Exit, Admit, Skip, Acquire, Handle, Record, Release,
       LockChildren, KnownChild, SendChild, DropChild, UnlockChildren, Finish, mainVars
  <2>1. CASE Receive(w)
    <3>1. Len(queue') = Len(queue) - 1
      BY <1>0, <2>1, HeadTailProperties, EmptySeq DEF Receive, TypeOK
    <3> QED
      BY <1>0, <3>1 DEF Full
  <2>2. CASE SendChild(w)
    BY <2>2 DEF SendChild
  <2>3. CASE Exit(w)
    <3>1. Len(queue') = 0
      BY <2>3, EmptySeq DEF Exit
    <3> QED
      BY <1>0, <3>1 DEF Full
  <2>4. CASE Admit(w) \/ Skip(w) \/ Acquire(w) \/ Handle(w)
    BY <1>0, <1>2, <2>0, <2>4 DEF Admit, Skip, Acquire, Handle, TypeOK
  <2>5. CASE Record(w) \/ Release(w) \/ LockChildren(w)
    BY <1>0, <1>2, <2>0, <2>5 DEF Record, Release, LockChildren, TypeOK
  <2>6. CASE KnownChild(w) \/ DropChild(w) \/ UnlockChildren(w) \/ Finish(w)
    BY <1>0, <1>2, <2>0, <2>6 DEF KnownChild, DropChild, UnlockChildren, Finish, TypeOK
  <2> QED
    BY <1>4, <2>1, <2>2, <2>3, <2>4, <2>5, <2>6 DEF WorkerStep
<1>5. CASE Cancel
  BY <1>5 DEF Cancel, mainVars, workerVars, Full
<1> QED
  BY <1>1, <1>3, <1>4, <1>5 DEF Next, Terminated

LEMMA RunInvariant == Spec => [](CountInv /\ IdleInv /\ FillInv)
<1>1. Init => IdleInv /\ FillInv
  <2>1. Init => Len(queue) = 0
    BY EmptySeq DEF Init
  <2> QED
    BY <2>1, CrawlAssumption DEF Init, IdleInv, FillInv, Full
<1>2. CountInv /\ IdleInv /\ FillInv /\ [Next]_vars => CountInv' /\ IdleInv' /\ FillInv'
  BY CountStep, IdleStep, FillStep
<1> QED
  BY <1>1, <1>2, CountInit, PTL DEF Spec

\* Somebody holds mu, or nobody waits for it.
LEMMA HolderRuns ==
  ASSUME CountInv, mainPc # "send", mu # Nobody
  PROVE  \E w \in Workers : WorkerRuns(w)
<1>1. mu \in Workers
  BY DEF CountInv, TypeOK, LockInv
<1>2. pc[mu] = "enqueue"
  BY <1>1 DEF CountInv, LockInv
<1> QED
  BY <1>1, <1>2 DEF WorkerRuns

\* A busy worker can go on, unless Run holds mu.
LEMMA BusyCanRun ==
  ASSUME CountInv, mainPc # "send", Busy # {}
  PROVE  \E w \in Workers : WorkerRuns(w)
<1>1. CASE mu # Nobody
  BY <1>1, HolderRuns
<1>2. CASE mu = Nobody
  <2>1. PICK w \in Workers : pc[w] \notin {"recv", "exited"}
    BY DEF Busy
  <2>2. pc[w] = "acquire" => semaphore < Cardinality(Workers)
    BY CountsSlots DEF SlotAvailable
  <2> QED
    BY <1>2, <2>1, <2>2 DEF WorkerRuns
<1> QED
  BY <1>1, <1>2

\* Somebody can go on until Run returns, or it is the one known deadlock.
THEOREM StuckCorrect == Spec => []StuckOnlySeeding
<1>1. CountInv /\ IdleInv /\ FillInv => StuckOnlySeeding
  <2> SUFFICES ASSUME CountInv, IdleInv, FillInv, ret = "running", ~MainRuns,
                      ~\E w \in Workers : WorkerRuns(w)
               PROVE  /\ mainPc = "send" /\ seedIdx > 2 /\ Full
                      /\ \A w \in Workers : pc[w] \in {"record", "lock"}
    BY DEF StuckOnlySeeding
  <2>0. TypeOK /\ LockInv /\ PhaseInv /\ PendingExact
        /\ Len(queue) \in Nat /\ seedIdx \in Nat /\ QueueSize \in Nat \ {0}
    BY CrawlAssumption, LenProperties DEF CountInv, TypeOK
  <2>1. mainPc = "send"
    <3>1. CASE mainPc = "seed" /\ seedIdx \in DOMAIN Seeds
      BY <3>1, HolderRuns DEF MainRuns
    <3>2. CASE mainPc = "seed" /\ seedIdx \notin DOMAIN Seeds
      <4>1. pendingWork # 0 /\ Busy = {}
        BY <3>2, BusyCanRun DEF MainRuns
      <4>2. Cardinality(Busy) = 0
        BY <4>1, FS_EmptySet
      <4>3. queue # <<>>
        BY <2>0, <3>2, <4>1, <4>2, EmptySeq DEF PendingExact
      <4>4. ~closed
        BY <2>0, <3>2 DEF PhaseInv
      <4>5. PICK w \in Workers : pc[w] = "recv"
        BY <4>1, <4>4, CrawlAssumption DEF Busy, IdleInv
      <4> QED
        BY <4>3, <4>5 DEF WorkerRuns
    <3>3. CASE mainPc = "join"
      <4>1. PICK w \in Workers : pc[w] # "exited"
        BY <3>3 DEF MainRuns
      <4>2. Busy = {} /\ closed
        BY <2>0, <3>3, ZeroIsIdle DEF PhaseInv
      <4>3. pc[w] = "recv"
        BY <4>1, <4>2 DEF Busy
      <4> QED
        BY <4>2, <4>3 DEF WorkerRuns
    <3>4. mainPc # "close" /\ mainPc # "returned"
      BY <2>0 DEF MainRuns, PhaseInv
    <3> QED
      BY <2>0, <3>1, <3>2, <3>3, <3>4 DEF TypeOK
  <2>2. Full
    BY <2>1 DEF MainRuns
  <2>3. queue # <<>>
    BY <2>0, <2>2, EmptySeq DEF Full
  <2>4. \A w \in Workers : pc[w] \in {"record", "lock"}
    <3> SUFFICES ASSUME NEW w \in Workers PROVE pc[w] \in {"record", "lock"}
      OBVIOUS
    <3>1. pc[w] # "exited"
      BY <2>0, <2>1 DEF IdleInv, PhaseInv
    <3>2. pc[w] = "acquire" => semaphore < Cardinality(Workers)
      BY CountsSlots DEF SlotAvailable
    <3> QED
      BY <2>3, <3>1, <3>2 DEF WorkerRuns
  <2>5. seedIdx > 2
    BY <2>0, <2>2, <2>4 DEF FillInv
  <2> QED
    BY <2>1, <2>2, <2>4, <2>5
<1> QED
  BY RunInvariant, <1>1, PTL

\* With at most two seeds the engine is never stuck.
THEOREM NeverStuck ==
  ASSUME Len(Seeds) <= 2
  PROVE  Spec => [](ret = "running" => MainRuns \/ \E w \in Workers : WorkerRuns(w))
<1>1. CountInv /\ StuckOnlySeeding
        => (ret = "running" => MainRuns \/ \E w \in Workers : WorkerRuns(w))
  <2> SUFFICES ASSUME CountInv, mainPc = "send", seedIdx > 2
               PROVE  FALSE
    BY DEF StuckOnlySeeding
  <2>1. Len(Seeds) \in Nat /\ seedIdx \in 1..Len(Seeds)
    BY CrawlAssumption, LenProperties DEF CountInv, LockInv
  <2> QED
    BY <2>1
<1> QED
  BY CountInvariant, StuckCorrect, <1>1, PTL

-----------------------------------------------------------------------------
(* Termination: every step lowers what is left to do. *)

\* When one worker moves, its old place has one worker less, and only the new one more.
LEMMA PlaceMoves ==
  ASSUME TypeOK, NEW w \in Workers, NEW from, NEW to, from # to, Goto(w, from, to)
  PROVE  /\ At(from)' < At(from)
         /\ \A place : place \notin {from, to} => At(place)' = At(place)
<1> DEFINE S(place) == {v \in Workers : pc[v] = place}
<1>1. S(from)' = S(from) \ {w} /\ w \in S(from)
  BY DEF TypeOK, Goto
<1>2. At(from)' = At(from) - 1 /\ At(from) \in Nat
  BY <1>1, WorkerSets DEF At
<1>3. ASSUME NEW place, place \notin {from, to} PROVE At(place)' = At(place)
  <2>1. S(place)' = S(place)
    BY <1>3 DEF TypeOK, Goto
  <2> QED
    BY <2>1 DEF At
<1> QED
  BY <1>2, <1>3

\* The order in which the entries of Left are compared.
LEMMA FirstFalls ==
  ASSUME NEW n \in 1..13, Left'[n] < Left[n], \A m \in 1..(n - 1) : Left'[m] = Left[m]
  PROVE  Smaller(Left', Left)
<1>1. DOMAIN Left = 1..13
  BY DEF Left
<1> QED
  BY <1>1 DEF Smaller

Moves == {<<"got", "acquire">>, <<"got", "recv">>, <<"acquire", "handle">>,
          <<"acquire", "recv">>, <<"handle", "record">>, <<"record", "release">>,
          <<"release", "lock">>, <<"release", "finish">>, <<"lock", "enqueue">>,
          <<"enqueue", "finish">>, <<"finish", "recv">>, <<"recv", "exited">>}

\* A worker that gets on with its item, or ends, lowers the entry of the place it left.
LEMMA MoveLowers ==
  ASSUME TypeOK, NEW w \in Workers, NEW from, NEW to, <<from, to>> \in Moves,
         Goto(w, from, to), UNCHANGED <<mainPc, seedIdx, visited, queue>>
  PROVE  Smaller(Left', Left)
<1>1. /\ from # to /\ At(from)' < At(from)
      /\ \A place : place \notin {from, to} => At(place)' = At(place)
  <2>1. from # to
    BY DEF Moves
  <2> QED
    BY <2>1, PlaceMoves
<1>2. /\ MainLeft' = MainLeft /\ Cardinality(Pages \ visited)' = Cardinality(Pages \ visited)
      /\ Len(queue)' = Len(queue)
  BY DEF MainLeft
<1>3. CASE from = "got"
  <2>1. to \in {"acquire", "recv"}
    BY <1>3 DEF Moves
  <2>2. Left'[4] < Left[4] /\ \A m \in 1..3 : Left'[m] = Left[m]
    BY <1>1, <1>2, <1>3 DEF Left
  <2> QED
    BY <2>2, FirstFalls
<1>4. CASE from = "acquire"
  <2>1. to \in {"handle", "recv"}
    BY <1>4 DEF Moves
  <2>2. At("got")' = At("got")
    BY <1>1, <1>4, <2>1
  <2>3. Left'[5] < Left[5] /\ \A m \in 1..4 : Left'[m] = Left[m]
    BY <1>1, <1>2, <1>4, <2>2 DEF Left
  <2> QED
    BY <2>3, FirstFalls
<1>5. CASE from = "handle"
  <2>1. to \in {"record"}
    BY <1>5 DEF Moves
  <2>2. At("got")' = At("got") /\ At("acquire")' = At("acquire")
    BY <1>1, <1>5, <2>1
  <2>3. Left'[6] < Left[6] /\ \A m \in 1..5 : Left'[m] = Left[m]
    BY <1>1, <1>2, <1>5, <2>2 DEF Left
  <2> QED
    BY <2>3, FirstFalls
<1>6. CASE from = "record"
  <2>1. to \in {"release"}
    BY <1>6 DEF Moves
  <2>2. At("got")' = At("got") /\ At("acquire")' = At("acquire") /\ At("handle")' = At("handle")
    BY <1>1, <1>6, <2>1
  <2>3. Left'[7] < Left[7] /\ \A m \in 1..6 : Left'[m] = Left[m]
    BY <1>1, <1>2, <1>6, <2>2 DEF Left
  <2> QED
    BY <2>3, FirstFalls
<1>7. CASE from = "release"
  <2>1. to \in {"lock", "finish"}
    BY <1>7 DEF Moves
  <2>2. /\ At("got")' = At("got") /\ At("acquire")' = At("acquire") /\ At("handle")' = At("handle")
        /\ At("record")' = At("record")
    BY <1>1, <1>7, <2>1
  <2>3. Left'[8] < Left[8] /\ \A m \in 1..7 : Left'[m] = Left[m]
    BY <1>1, <1>2, <1>7, <2>2 DEF Left
  <2> QED
    BY <2>3, FirstFalls
<1>8. CASE from = "lock"
  <2>1. to \in {"enqueue"}
    BY <1>8 DEF Moves
  <2>2. /\ At("got")' = At("got") /\ At("acquire")' = At("acquire") /\ At("handle")' = At("handle")
        /\ At("record")' = At("record") /\ At("release")' = At("release")
    BY <1>1, <1>8, <2>1
  <2>3. Left'[9] < Left[9] /\ \A m \in 1..8 : Left'[m] = Left[m]
    BY <1>1, <1>2, <1>8, <2>2 DEF Left
  <2> QED
    BY <2>3, FirstFalls
<1>9. CASE from = "enqueue"
  <2>1. to \in {"finish"}
    BY <1>9 DEF Moves
  <2>2. /\ At("got")' = At("got") /\ At("acquire")' = At("acquire") /\ At("handle")' = At("handle")
        /\ At("record")' = At("record") /\ At("release")' = At("release") /\ At("lock")' = At("lock")
    BY <1>1, <1>9, <2>1
  <2>3. Left'[10] < Left[10] /\ \A m \in 1..9 : Left'[m] = Left[m]
    BY <1>1, <1>2, <1>9, <2>2 DEF Left
  <2> QED
    BY <2>3, FirstFalls
<1>10. CASE from = "finish"
  <2>1. to \in {"recv"}
    BY <1>10 DEF Moves
  <2>2. /\ At("got")' = At("got") /\ At("acquire")' = At("acquire") /\ At("handle")' = At("handle")
        /\ At("record")' = At("record") /\ At("release")' = At("release") /\ At("lock")' = At("lock")
        /\ At("enqueue")' = At("enqueue")
    BY <1>1, <1>10, <2>1
  <2>3. Left'[11] < Left[11] /\ \A m \in 1..10 : Left'[m] = Left[m]
    BY <1>1, <1>2, <1>10, <2>2 DEF Left
  <2> QED
    BY <2>3, FirstFalls
<1>11. CASE from = "recv"
  <2>1. to \in {"exited"}
    BY <1>11 DEF Moves
  <2>2. /\ At("got")' = At("got") /\ At("acquire")' = At("acquire") /\ At("handle")' = At("handle")
        /\ At("record")' = At("record") /\ At("release")' = At("release") /\ At("lock")' = At("lock")
        /\ At("enqueue")' = At("enqueue") /\ At("finish")' = At("finish")
    BY <1>1, <1>11, <2>1
  <2>3. Left'[12] < Left[12] /\ \A m \in 1..11 : Left'[m] = Left[m]
    BY <1>1, <1>2, <1>11, <2>2 DEF Left
  <2> QED
    BY <2>3, FirstFalls
<1> QED
  BY <1>3, <1>4, <1>5, <1>6, <1>7, <1>8, <1>9, <1>10, <1>11 DEF Moves

\* A step of Run lowers the first entry.
LEMMA MainLowers ==
  ASSUME CountInv, MainStep
  PROVE  Smaller(Left', Left)
<1> DEFINE Rest(pl) == [seed |-> 4, send |-> 3, close |-> 2, join |-> 1, returned |-> 0][pl]
<1>1. Len(Seeds) \in Nat /\ seedIdx \in Nat /\ TypeOK /\ LockInv
  BY CrawlAssumption, LenProperties DEF CountInv, TypeOK
<1>2. MainLeft = 2 * (Len(Seeds) + 1 - seedIdx) + Rest(mainPc)
      /\ MainLeft' = 2 * (Len(Seeds) + 1 - seedIdx') + Rest(mainPc')
  BY DEF MainLeft
<1>3. /\ Rest("seed") = 4 /\ Rest("send") = 3 /\ Rest("close") = 2
      /\ Rest("join") = 1 /\ Rest("returned") = 0
  OBVIOUS
<1> HIDE DEF Rest
<1>4. MainLeft' < MainLeft
  <2>1. CASE SeedKnown
    BY <1>1, <1>2, <1>3, <2>1 DEF SeedKnown
  <2>2. CASE SeedMark
    BY <1>1, <1>2, <1>3, <2>2 DEF SeedMark
  <2>3. CASE SeedSend
    BY <1>1, <1>2, <1>3, <2>3 DEF SeedSend
  <2>4. CASE Wait
    BY <1>1, <1>2, <1>3, <2>4 DEF Wait
  <2>5. CASE CloseQueue
    BY <1>1, <1>2, <1>3, <2>5 DEF CloseQueue
  <2>6. CASE Return
    BY <1>1, <1>2, <1>3, <2>6 DEF Return
  <2> QED
    BY <2>1, <2>2, <2>3, <2>4, <2>5, <2>6 DEF MainStep
<1>5. Left'[1] < Left[1] /\ \A m \in 1..0 : Left'[m] = Left[m]
  BY <1>4 DEF Left
<1> QED
  BY <1>5, FirstFalls

\* A child that is new leaves one page less to discover.
LEMMA NewChildLowers ==
  ASSUME IsFiniteSet(Pages), CountInv, NEW w \in Workers, SendChild(w) \/ DropChild(w)
  PROVE  Smaller(Left', Left)
<1> DEFINE child == Head(kids[w])
<1>1. TypeOK /\ kids[w] \in Seq(Pages) /\ kids[w] # <<>>
  BY DEF CountInv, TypeOK, SendChild, DropChild
<1>2. child \in Pages /\ child \notin visited /\ visited' = visited \cup {child}
  BY <1>1, HeadTailProperties DEF SendChild, DropChild, Fresh
<1> HIDE DEF child
<1>3. Pages \ visited' = (Pages \ visited) \ {child} /\ IsFiniteSet(Pages \ visited)
  BY <1>2, FS_Subset
<1>4. Cardinality(Pages \ visited') = Cardinality(Pages \ visited) - 1
      /\ Cardinality(Pages \ visited) \in Nat
  BY <1>2, <1>3, FS_RemoveElement, FS_CardinalityType
<1>5. MainLeft' = MainLeft
  BY DEF SendChild, DropChild, MainLeft, mainVars
<1>6. Left'[2] < Left[2] /\ \A m \in 1..1 : Left'[m] = Left[m]
  BY <1>4, <1>5 DEF Left
<1> QED
  BY <1>6, FirstFalls

LEMMA ReceiveLowers ==
  ASSUME CountInv, NEW w \in Workers, Receive(w)
  PROVE  Smaller(Left', Left)
<1>1. Len(queue') = Len(queue) - 1 /\ Len(queue) \in Nat
  BY HeadTailProperties, EmptySeq, LenProperties DEF CountInv, TypeOK, Receive
<1>2. MainLeft' = MainLeft /\ visited' = visited
  BY DEF Receive, MainLeft, mainVars
<1>3. Left'[3] < Left[3] /\ \A m \in 1..2 : Left'[m] = Left[m]
  BY <1>1, <1>2 DEF Left
<1> QED
  BY <1>3, FirstFalls

\* A child that is known leaves one link less, and everything else as it was.
LEMMA KnownChildLowers ==
  ASSUME CountInv, NEW w \in Workers, KnownChild(w)
  PROVE  Smaller(Left', Left)
<1>1. TypeOK /\ mu = w /\ kids[w] \in Seq(Pages) /\ kids[w] # <<>>
  BY DEF CountInv, TypeOK, LockInv, KnownChild
<1>2. kids' = [kids EXCEPT ![w] = Tail(@)] /\ mu' = mu
  BY DEF KnownChild
<1>3. kids'[w] = Tail(kids[w])
  BY <1>1, <1>2 DEF TypeOK
<1>4. Len(kids'[w]) = Len(kids[w]) - 1 /\ Len(kids[w]) \in Nat
  BY <1>1, <1>3, HeadTailProperties, EmptySeq, LenProperties
<1>5. LinksLeft' < LinksLeft
  BY <1>1, <1>2, <1>4 DEF LinksLeft
<1>6. MainLeft' = MainLeft /\ visited' = visited /\ queue' = queue /\ pc' = pc
  BY DEF KnownChild, MainLeft, mainVars
<1>7. \A place : At(place)' = At(place)
  BY <1>6 DEF At
<1>8. Left'[13] < Left[13] /\ \A m \in 1..12 : Left'[m] = Left[m]
  BY <1>5, <1>6, <1>7 DEF Left
<1> QED
  BY <1>8, FirstFalls

\* What is left to do is a tuple of naturals, so it cannot be lowered for ever.
THEOREM LeftCorrect ==
  ASSUME IsFiniteSet(Pages)
  PROVE  Spec => [](Left \in [1..13 -> Nat])
<1>1. ASSUME CountInv PROVE Left \in [1..13 -> Nat]
  <2>1. MainLeft \in Nat
    <3>1. Len(Seeds) + 1 - seedIdx \in Nat
      BY <1>1, CrawlAssumption, LenProperties DEF CountInv, TypeOK
    <3>2. [seed |-> 4, send |-> 3, close |-> 2, join |-> 1, returned |-> 0][mainPc] \in Nat
      BY <1>1 DEF CountInv, TypeOK
    <3> QED
      BY <3>1, <3>2 DEF MainLeft
  <2>2. Cardinality(Pages \ visited) \in Nat
    BY FS_Subset, FS_CardinalityType
  <2>3. Len(queue) \in Nat
    BY <1>1, LenProperties DEF CountInv, TypeOK
  <2>4. \A place : At(place) \in Nat
    <3> SUFFICES ASSUME NEW place PROVE At(place) \in Nat
      OBVIOUS
    <3>1. {w \in Workers : pc[w] = place} \in SUBSET Workers
      OBVIOUS
    <3> QED
      BY <3>1, WorkerSets DEF At
  <2>5. LinksLeft \in Nat
    BY <1>1, LenProperties DEF CountInv, TypeOK, LinksLeft
  <2>6. DOMAIN Left = 1..13 /\ \A n \in 1..13 : Left[n] \in Nat
    BY <2>1, <2>2, <2>3, <2>4, <2>5 DEF Left
  <2>7. Left = [n \in 1..13 |-> Left[n]]
    BY <2>6 DEF Left
  <2> QED
    BY <2>6, <2>7
<1> QED
  BY CountInvariant, <1>1, PTL

\* With finitely many pages, every step of Run and of a worker lowers Left.
THEOREM ProgressCorrect ==
  ASSUME IsFiniteSet(Pages)
  PROVE  Spec => Progress
<1>1. ASSUME CountInv, NEW w \in Workers, WorkerStep(w) PROVE Smaller(Left', Left)
  <2> DEFINE Still == UNCHANGED <<mainPc, seedIdx, visited, queue>>
  <2> USE DEF mainVars
  <2>0. TypeOK
    BY <1>1 DEF CountInv
  <2>1. CASE Exit(w)
    <3>1. Goto(w, "recv", "exited") /\ <<"recv", "exited">> \in Moves /\ Still
      BY <2>1 DEF Exit, Moves
    <3> QED
      BY <2>0, <3>1, MoveLowers
  <2>2. CASE Admit(w)
    <3>1. Goto(w, "got", "acquire") /\ <<"got", "acquire">> \in Moves /\ Still
      BY <2>2 DEF Admit, Moves
    <3> QED
      BY <2>0, <3>1, MoveLowers
  <2>3. CASE Skip(w)
    <3>1. PICK from \in {"got", "acquire"} : Goto(w, from, "recv") /\ Still
      BY <2>3 DEF Skip, Goto
    <3>2. <<from, "recv">> \in Moves
      BY DEF Moves
    <3> QED
      BY <2>0, <3>1, <3>2, MoveLowers
  <2>4. CASE Acquire(w)
    <3>1. Goto(w, "acquire", "handle") /\ <<"acquire", "handle">> \in Moves /\ Still
      BY <2>4 DEF Acquire, Moves
    <3> QED
      BY <2>0, <3>1, MoveLowers
  <2>5. CASE Handle(w)
    <3>1. Goto(w, "handle", "record") /\ <<"handle", "record">> \in Moves /\ Still
      BY <2>5 DEF Handle, Moves
    <3> QED
      BY <2>0, <3>1, MoveLowers
  <2>6. CASE Record(w)
    <3>1. Goto(w, "record", "release") /\ <<"record", "release">> \in Moves /\ Still
      BY <2>6 DEF Record, Moves
    <3> QED
      BY <2>0, <3>1, MoveLowers
  <2>7. CASE Release(w)
    <3>1. PICK to \in {"lock", "finish"} : Goto(w, "release", to) /\ Still
      BY <2>7 DEF Release, Goto
    <3>2. <<"release", to>> \in Moves
      BY DEF Moves
    <3> QED
      BY <2>0, <3>1, <3>2, MoveLowers
  <2>8. CASE LockChildren(w)
    <3>1. Goto(w, "lock", "enqueue") /\ <<"lock", "enqueue">> \in Moves /\ Still
      BY <2>8 DEF LockChildren, Moves
    <3> QED
      BY <2>0, <3>1, MoveLowers
  <2>9. CASE UnlockChildren(w)
    <3>1. Goto(w, "enqueue", "finish") /\ <<"enqueue", "finish">> \in Moves /\ Still
      BY <2>9 DEF UnlockChildren, Moves
    <3> QED
      BY <2>0, <3>1, MoveLowers
  <2>10. CASE Finish(w)
    <3>1. Goto(w, "finish", "recv") /\ <<"finish", "recv">> \in Moves /\ Still
      BY <2>10 DEF Finish, Moves, Goto
    <3> QED
      BY <2>0, <3>1, MoveLowers
  <2> QED
    BY <1>1, <2>1, <2>2, <2>3, <2>4, <2>5, <2>6, <2>7, <2>8, <2>9, <2>10,
       ReceiveLowers, KnownChildLowers, NewChildLowers DEF WorkerStep
<1>2. CountInv /\ [Next]_vars
        => [MainStep \/ (\E w \in Workers : WorkerStep(w)) => Smaller(Left', Left)]_vars
  BY <1>1, MainLowers
<1> QED
  BY CountInvariant, <1>2, PTL DEF Spec, Progress

-----------------------------------------------------------------------------
(* The second invariant: where each visited page is. *)

\* Workers that have a page but have not asked the handler for it.
Early == {w \in Workers : pc[w] \in {"got", "acquire", "handle"}}

InQueue(p) == \E i \in DOMAIN queue : queue[i].page = p
InHand(p)  == \E w \in Early : item[w].page = p
InSend(p)  == mainPc = "send" /\ Seeds[seedIdx] = p

\* A page that waits for its handler call waits in one place, once.
PlaceInv ==
  /\ \A i, j \in DOMAIN queue : queue[i].page = queue[j].page => i = j
  /\ \A v, w \in Early : item[v].page = item[w].page => v = w
  /\ \A p \in Pages : ~(InQueue(p) /\ InHand(p))
  /\ \A p \in Pages : ~(InSend(p) /\ (InQueue(p) \/ InHand(p)))

\* What waits is visited and was not handled; what was handled is visited and
\* was handled once.
CallsInv ==
  \A p \in Pages :
    /\ InQueue(p) \/ InHand(p) \/ InSend(p) => p \in visited /\ calls[p] = 0
    /\ calls[p] <= 1
    /\ calls[p] > 0 => p \in visited

\* No page below the depth limit is ever queued.
DepthInv ==
  /\ \A i \in DOMAIN queue : queue[i].depth <= MaxDepth
  /\ \A w \in Busy : item[w].depth <= MaxDepth
  /\ \A w \in Workers : pc[w] \in {"lock", "enqueue"} => item[w].depth < MaxDepth

SeedsInv == \A i \in DOMAIN Seeds : i < seedIdx => Seeds[i] \in visited

\* A visited page is handled or on its way, unless the crawl will not succeed.
LossInv ==
  \A p \in visited :
    calls[p] = 1 \/ InQueue(p) \/ InHand(p) \/ InSend(p) \/ enqueueDrops > 0 \/ cancelled

\* Worker w has still to enqueue links of the recorded page p.
Expanding(w, p) ==
  /\ item[w].page = p
  /\ \/ /\ pc[w] = "release"
        /\ reply[w].kind = "ok"
        /\ reply[w].links = results[p].links
        /\ item[w].depth = results[p].depth
     \/ /\ pc[w] \in {"lock", "enqueue"}
        /\ Linked(results[p].links) \subseteq visited \cup Linked(kids[w])

\* The links of a good page above the limit are visited, or a worker is at them.
LinksInv ==
  \A p \in Pages :
    results[p].kind = "ok" /\ results[p].depth < MaxDepth
      => \/ Linked(results[p].links) \subseteq visited
         \/ \E w \in Workers : Expanding(w, p)

\* A success was neither cancelled nor saturated.
VerdictInv == ret = "ok" => ~cancelled /\ enqueueDrops = 0

FateInv ==
  PlaceInv /\ CallsInv /\ DepthInv /\ SeedsInv /\ LossInv /\ LinksInv /\ VerdictInv

-----------------------------------------------------------------------------
(* What an Append and a Tail do to the queue. *)

LEMMA QueueAppend ==
  ASSUME TypeOK, NEW x \in Items, queue' = Append(queue, x)
  PROVE  \E n \in Nat :
           /\ n \notin DOMAIN queue /\ DOMAIN queue' = DOMAIN queue \cup {n}
           /\ queue'[n] = x
           /\ \A i \in DOMAIN queue : queue'[i] = queue[i]
<1>1. queue \in Seq(Items) /\ Len(queue) \in Nat /\ DOMAIN queue = 1..Len(queue)
  BY LenProperties DEF TypeOK
<1>2. /\ DOMAIN queue' = 1..(Len(queue) + 1)
      /\ queue'[Len(queue) + 1] = x
      /\ \A i \in 1..Len(queue) : queue'[i] = queue[i]
  BY <1>1, AppendProperties
<1> WITNESS Len(queue) + 1 \in Nat
<1> QED
  BY <1>1, <1>2

LEMMA QueueTail ==
  ASSUME TypeOK, queue # <<>>, queue' = Tail(queue)
  PROVE  /\ 1 \in DOMAIN queue /\ Head(queue) = queue[1]
         /\ \A i \in DOMAIN queue' :
              i + 1 \in DOMAIN queue /\ i + 1 # 1 /\ queue'[i] = queue[i + 1]
         /\ \A i \in DOMAIN queue :
              i = 1 \/ (i - 1 \in DOMAIN queue' /\ queue'[i - 1] = queue[i])
         /\ DOMAIN queue \subseteq Nat /\ DOMAIN queue' \subseteq Nat
<1>1. queue \in Seq(Items) /\ Len(queue) \in Nat /\ DOMAIN queue = 1..Len(queue)
      /\ Len(queue) # 0
  BY LenProperties, EmptySeq DEF TypeOK
<1>2. /\ Head(queue) = queue[1]
      /\ queue' \in Seq(Items) /\ Len(queue') = Len(queue) - 1
      /\ \A i \in 1..Len(queue') : queue'[i] = queue[i + 1]
  BY <1>1, HeadTailProperties
<1>3. DOMAIN queue' = 1..(Len(queue) - 1)
  BY <1>2, LenProperties
<1> QED
  BY <1>1, <1>2, <1>3

-----------------------------------------------------------------------------
(* Which steps move a waiting page. *)

\* No page starts or stops waiting, and a page that becomes visited is dropped.
Quiet ==
  /\ queue' = queue /\ calls' = calls
  /\ Early' = Early /\ \A w \in Early : item'[w] = item[w]
  /\ \A p : InSend(p)' <=> InSend(p)
  /\ visited \subseteq visited' /\ (visited' \subseteq visited \/ enqueueDrops' > 0)
  /\ (enqueueDrops > 0 => enqueueDrops' > 0) /\ (cancelled => cancelled')

LEMMA EarlyMoves ==
  ASSUME TypeOK, NEW w \in Workers, NEW to, pc' = [pc EXCEPT ![w] = to]
  PROVE  Early' = IF to \in {"got", "acquire", "handle"} THEN Early \cup {w} ELSE Early \ {w}
BY DEF TypeOK, Early

\* Six kinds of steps move a waiting page; the rest is quiet.
LEMMA QuietOrNot ==
  ASSUME CountInv, [Next]_vars
  PROVE  \/ Quiet \/ SeedMark \/ SeedSend
         \/ \E w \in Workers : Receive(w) \/ Skip(w) \/ Handle(w) \/ SendChild(w)
<1> USE DEF Quiet, InSend
<1>0. TypeOK
  BY DEF CountInv
<1>1. CASE UNCHANGED vars
  BY <1>1 DEF vars, mainVars, workerVars, Early
<1>2. CASE MainStep
  BY <1>2 DEF MainStep, SeedKnown, Wait, CloseQueue, Return, workerVars, Early
<1>3. ASSUME NEW w \in Workers, WorkerStep(w)
      PROVE  Quiet \/ Receive(w) \/ Skip(w) \/ Handle(w) \/ SendChild(w)
  <2> USE DEF mainVars, Goto
  <2>1. CASE Exit(w)
    BY <1>0, <2>1, EarlyMoves DEF Exit, Early
  <2>2. CASE Admit(w)
    BY <1>0, <2>2, EarlyMoves DEF Admit, Early
  <2>3. CASE Acquire(w)
    BY <1>0, <2>3, EarlyMoves DEF Acquire, Early
  <2>4. CASE Record(w)
    BY <1>0, <2>4, EarlyMoves DEF Record, Early
  <2>5. CASE Release(w)
    BY <1>0, <2>5, EarlyMoves DEF Release, Early
  <2>6. CASE LockChildren(w)
    BY <1>0, <2>6, EarlyMoves DEF LockChildren, Early
  <2>7. CASE KnownChild(w)
    BY <2>7 DEF KnownChild, Early
  <2>8. CASE DropChild(w)
    BY <1>0, <2>8 DEF DropChild, Early, TypeOK
  <2>9. CASE UnlockChildren(w)
    BY <1>0, <2>9, EarlyMoves DEF UnlockChildren, Early
  <2>10. CASE Finish(w)
    <3>1. Early' = Early
      BY <1>0, <2>10, EarlyMoves DEF Finish, Early
    <3>2. \A v \in Early : item'[v] = item[v]
      BY <1>0, <2>10 DEF Finish, Early, TypeOK
    <3> QED
      BY <2>10, <3>1, <3>2 DEF Finish
  <2> QED
    BY <1>3, <2>1, <2>2, <2>3, <2>4, <2>5, <2>6, <2>7, <2>8, <2>9, <2>10 DEF WorkerStep
<1>4. CASE Cancel
  BY <1>4 DEF Cancel, mainVars, workerVars, Early
<1> QED
  BY <1>1, <1>2, <1>3, <1>4 DEF Next, Terminated

-----------------------------------------------------------------------------
(* Where the moved page goes. *)

LEMMA QuietWaiting ==
  ASSUME Quiet, NEW p
  PROVE  (InQueue(p)' <=> InQueue(p)) /\ (InHand(p)' <=> InHand(p)) /\ (InSend(p)' <=> InSend(p))
BY DEF Quiet, InQueue, InHand

LEMMA SeedMarkWaiting ==
  ASSUME SeedMark, NEW p
  PROVE  (InQueue(p)' <=> InQueue(p)) /\ (InHand(p)' <=> InHand(p))
         /\ ~InSend(p) /\ (InSend(p)' <=> p = Seeds[seedIdx])
BY DEF SeedMark, workerVars, InQueue, InHand, InSend, Early

LEMMA SeedSendWaiting ==
  ASSUME CountInv, SeedSend, NEW p
  PROVE  (InQueue(p)' <=> InQueue(p) \/ InSend(p)) /\ (InHand(p)' <=> InHand(p)) /\ ~InSend(p)'
<1> DEFINE x == [page |-> Seeds[seedIdx], depth |-> 0]
<1>1. x \in Items
  BY SeedTypes DEF CountInv, LockInv, SeedSend, Items
<1>2. queue' = Append(queue, x)
  BY DEF SeedSend, Send
<1>3. PICK n \in Nat :
        /\ n \notin DOMAIN queue /\ DOMAIN queue' = DOMAIN queue \cup {n}
        /\ queue'[n] = x
        /\ \A i \in DOMAIN queue : queue'[i] = queue[i]
  BY <1>1, <1>2, QueueAppend DEF CountInv
<1>4. InQueue(p)' <=> InQueue(p) \/ p = Seeds[seedIdx]
  BY <1>3 DEF InQueue
<1> QED
  BY <1>4 DEF SeedSend, workerVars, InHand, InSend, Early

LEMMA ReceiveWaiting ==
  ASSUME CountInv, PlaceInv, NEW w \in Workers, Receive(w), NEW p
  PROVE  /\ InQueue(p)' <=> InQueue(p) /\ p # Head(queue).page
         /\ InHand(p)' <=> InHand(p) \/ p = Head(queue).page
         /\ InSend(p)' <=> InSend(p)
         /\ InQueue(Head(queue).page) /\ Head(queue).page \in Pages
<1>0. TypeOK
  BY DEF CountInv
<1>1. queue # <<>> /\ queue' = Tail(queue)
  BY DEF Receive
<1>2. 1 \in DOMAIN queue /\ Head(queue) = queue[1] /\ Head(queue).page \in Pages
  <2>1. Head(queue) \in Items
    BY <1>0, <1>1, HeadTailProperties DEF TypeOK
  <2> QED
    BY <1>0, <1>1, <2>1, QueueTail DEF Items
<1>3. InQueue(p)' => InQueue(p) /\ p # Head(queue).page
  <2> SUFFICES ASSUME NEW i \in DOMAIN queue', queue'[i].page = p
               PROVE  InQueue(p) /\ p # Head(queue).page
    BY DEF InQueue
  <2>1. i + 1 \in DOMAIN queue /\ i + 1 # 1 /\ queue[i + 1].page = p
    BY <1>0, <1>1, QueueTail
  <2> QED
    BY <1>2, <2>1 DEF InQueue, PlaceInv
<1>4. InQueue(p) /\ p # Head(queue).page => InQueue(p)'
  <2> SUFFICES ASSUME NEW i \in DOMAIN queue, queue[i].page = p, p # Head(queue).page
               PROVE  InQueue(p)'
    BY DEF InQueue
  <2>1. i - 1 \in DOMAIN queue' /\ queue'[i - 1] = queue[i]
    BY <1>0, <1>1, <1>2, QueueTail
  <2> QED
    BY <2>1 DEF InQueue
<1>5. w \notin Early /\ Early' = Early \cup {w} /\ item' = [item EXCEPT ![w] = Head(queue)]
  BY <1>0, EarlyMoves DEF Receive, Goto, Early
<1>6. InHand(p)' <=> InHand(p) \/ p = Head(queue).page
  BY <1>0, <1>5 DEF InHand, TypeOK, Early
<1> QED
  BY <1>2, <1>3, <1>4, <1>6 DEF Receive, mainVars, InSend, InQueue

LEMMA GiveUpWaiting ==
  ASSUME CountInv, PlaceInv, NEW w \in Workers, Skip(w) \/ Handle(w), NEW p
  PROVE  /\ InQueue(p)' <=> InQueue(p)
         /\ InHand(p)' <=> InHand(p) /\ p # item[w].page
         /\ InSend(p)' <=> InSend(p)
         /\ InHand(item[w].page) /\ item[w].page \in Pages
<1>0. TypeOK
  BY DEF CountInv
<1>1. w \in Early /\ Early' = Early \ {w}
  BY <1>0, EarlyMoves DEF Skip, Handle, Goto, Early
<1>2. \A v \in Early \ {w} : item'[v] = item[v]
  BY <1>0 DEF Skip, Handle, Early, TypeOK
<1>3. InHand(p)' <=> InHand(p) /\ p # item[w].page
  BY <1>1, <1>2 DEF InHand, PlaceInv
<1>4. InHand(item[w].page) /\ item[w].page \in Pages
  BY <1>0, <1>1, ItemTypes DEF InHand, CountInv, Early, Busy
<1>5. queue' = queue /\ mainPc' = mainPc /\ seedIdx' = seedIdx
  BY DEF Skip, Handle, mainVars
<1> QED
  BY <1>3, <1>4, <1>5 DEF InQueue, InSend

LEMMA SendChildWaiting ==
  ASSUME CountInv, NEW w \in Workers, SendChild(w), NEW p
  PROVE  /\ InQueue(p)' <=> InQueue(p) \/ p = Head(kids[w])
         /\ InHand(p)' <=> InHand(p)
         /\ InSend(p)' <=> InSend(p)
         /\ Head(kids[w]) \in Pages
<1> DEFINE x == [page |-> Head(kids[w]), depth |-> item[w].depth + 1]
<1>0. TypeOK /\ w \in Busy
  BY DEF CountInv, SendChild, Busy
<1>1. Head(kids[w]) \in Pages
  BY <1>0, HeadTailProperties DEF SendChild, TypeOK
<1>2. x \in Items
  BY <1>0, <1>1, ItemTypes DEF CountInv, Items
<1>3. queue' = Append(queue, x)
  BY DEF SendChild, Send
<1>4. PICK n \in Nat :
        /\ n \notin DOMAIN queue /\ DOMAIN queue' = DOMAIN queue \cup {n}
        /\ queue'[n] = x
        /\ \A i \in DOMAIN queue : queue'[i] = queue[i]
  BY <1>0, <1>2, <1>3, QueueAppend
<1>5. InQueue(p)' <=> InQueue(p) \/ p = Head(kids[w])
  BY <1>4 DEF InQueue
<1> QED
  BY <1>1, <1>5 DEF SendChild, mainVars, InHand, InSend, Early

-----------------------------------------------------------------------------
(* The parts of the second invariant, one at a time. *)

\* Appending a page that is not queued keeps the queued pages distinct.
LEMMA AppendDistinct ==
  ASSUME TypeOK, PlaceInv, NEW x \in Items, ~InQueue(x.page), queue' = Append(queue, x)
  PROVE  \A i, j \in DOMAIN queue' : queue'[i].page = queue'[j].page => i = j
<1>1. PICK n \in Nat :
        /\ n \notin DOMAIN queue /\ DOMAIN queue' = DOMAIN queue \cup {n}
        /\ queue'[n] = x
        /\ \A i \in DOMAIN queue : queue'[i] = queue[i]
  BY QueueAppend
<1> QED
  BY <1>1 DEF PlaceInv, InQueue

LEMMA PlaceStep ==
  ASSUME CountInv, PlaceInv, CallsInv, [Next]_vars
  PROVE  PlaceInv'
<1>0. TypeOK /\ LockInv
  BY DEF CountInv
<1>1. CASE Quiet
  BY <1>1, QuietWaiting DEF Quiet, PlaceInv
<1>2. CASE SeedMark
  <2>1. ~InQueue(Seeds[seedIdx]) /\ ~InHand(Seeds[seedIdx])
    BY <1>0, <1>2, SeedTypes DEF SeedMark, Fresh, CallsInv
  <2>2. queue' = queue /\ Early' = Early /\ item' = item
    BY <1>2 DEF SeedMark, workerVars, Early
  <2> QED
    BY <1>2, <2>1, <2>2, SeedMarkWaiting DEF PlaceInv
<1>3. CASE SeedSend
  <2> DEFINE x == [page |-> Seeds[seedIdx], depth |-> 0]
  <2>1. Seeds[seedIdx] \in Pages /\ InSend(Seeds[seedIdx])
    BY <1>0, <1>3, SeedTypes DEF SeedSend, LockInv, InSend
  <2>2. ~InQueue(Seeds[seedIdx]) /\ ~InHand(Seeds[seedIdx])
    BY <2>1 DEF PlaceInv
  <2>3. x \in Items /\ x.page = Seeds[seedIdx] /\ queue' = Append(queue, x)
    BY <1>3, <2>1 DEF SeedSend, Send, Items
  <2>4. \A i, j \in DOMAIN queue' : queue'[i].page = queue'[j].page => i = j
    BY <1>0, <2>2, <2>3, AppendDistinct
  <2>5. Early' = Early /\ item' = item
    BY <1>3 DEF SeedSend, workerVars, Early
  <2> QED
    BY <1>3, <2>2, <2>4, <2>5, SeedSendWaiting DEF PlaceInv, InSend
<1>4. ASSUME NEW w \in Workers, Receive(w) PROVE PlaceInv'
  <2>1. \A i, j \in DOMAIN queue' : queue'[i].page = queue'[j].page => i = j
    <3> SUFFICES ASSUME NEW i \in DOMAIN queue', NEW j \in DOMAIN queue',
                        queue'[i].page = queue'[j].page
                 PROVE  i = j
      OBVIOUS
    <3>1. queue # <<>> /\ queue' = Tail(queue)
      BY <1>4 DEF Receive
    <3>2. /\ i + 1 \in DOMAIN queue /\ queue'[i] = queue[i + 1] /\ i \in Nat
          /\ j + 1 \in DOMAIN queue /\ queue'[j] = queue[j + 1] /\ j \in Nat
      BY <1>0, <3>1, QueueTail
    <3>3. i + 1 = j + 1
      BY <3>2 DEF PlaceInv
    <3> QED
      BY <3>2, <3>3
  <2>2. w \notin Early /\ Early' = Early \cup {w} /\ item' = [item EXCEPT ![w] = Head(queue)]
    BY <1>0, <1>4, EarlyMoves DEF Receive, Goto, Early
  <2>3. ~InHand(Head(queue).page)
    BY <1>4, ReceiveWaiting DEF PlaceInv
  <2>4. \A u, v \in Early' : item'[u].page = item'[v].page => u = v
    BY <1>0, <2>2, <2>3 DEF PlaceInv, InHand, TypeOK, Early
  <2> QED
    BY <1>4, <2>1, <2>4, ReceiveWaiting DEF PlaceInv
<1>5. ASSUME NEW w \in Workers, Skip(w) \/ Handle(w) PROVE PlaceInv'
  <2>1. queue' = queue /\ Early' = Early \ {w}
    BY <1>0, <1>5, EarlyMoves DEF Skip, Handle, Goto, Early
  <2>2. \A v \in Early \ {w} : item'[v] = item[v]
    BY <1>0, <1>5 DEF Skip, Handle, Early, TypeOK
  <2> QED
    BY <1>5, <2>1, <2>2, GiveUpWaiting DEF PlaceInv
<1>6. ASSUME NEW w \in Workers, SendChild(w) PROVE PlaceInv'
  <2> DEFINE p == Head(kids[w])
             x == [page |-> p, depth |-> item[w].depth + 1]
  <2>1. p \in Pages /\ p \notin visited
    BY <1>6, SendChildWaiting DEF SendChild, Fresh
  <2>2. ~InQueue(p) /\ ~InHand(p) /\ ~InSend(p)
    BY <2>1 DEF CallsInv
  <2>3. item[w].depth \in Nat
    BY <1>6, ItemTypes DEF CountInv, SendChild, Busy
  <2>4. x \in Items /\ x.page = p /\ queue' = Append(queue, x)
    BY <1>6, <2>1, <2>3 DEF SendChild, Send, Items
  <2>5. \A i, j \in DOMAIN queue' : queue'[i].page = queue'[j].page => i = j
    BY <1>0, <2>2, <2>4, AppendDistinct
  <2>6. Early' = Early /\ item' = item
    BY <1>6 DEF SendChild, Early
  <2> QED
    BY <1>6, <2>2, <2>5, <2>6, SendChildWaiting DEF PlaceInv
<1> QED
  BY QuietOrNot, <1>1, <1>2, <1>3, <1>4, <1>5, <1>6

LEMMA CallsStep ==
  ASSUME CountInv, PlaceInv, CallsInv, [Next]_vars
  PROVE  CallsInv'
<1>0. TypeOK /\ LockInv
  BY DEF CountInv
<1> SUFFICES ASSUME NEW p \in Pages
             PROVE  /\ InQueue(p)' \/ InHand(p)' \/ InSend(p)' => p \in visited' /\ calls'[p] = 0
                    /\ calls'[p] <= 1
                    /\ calls'[p] > 0 => p \in visited'
  BY DEF CallsInv
<1> DEFINE Kept ==
             /\ InQueue(p)' \/ InHand(p)' \/ InSend(p)' => p \in visited' /\ calls'[p] = 0
             /\ calls'[p] <= 1
             /\ calls'[p] > 0 => p \in visited'
<1>p. /\ InQueue(p) \/ InHand(p) \/ InSend(p) => p \in visited /\ calls[p] = 0
      /\ calls[p] <= 1 /\ calls[p] \in Nat
      /\ calls[p] > 0 => p \in visited
  BY <1>0 DEF CallsInv, TypeOK
<1>1. CASE Quiet
  BY <1>p, <1>1, QuietWaiting DEF Quiet
<1>2. CASE SeedMark
  BY <1>p, <1>2, SeedMarkWaiting DEF SeedMark, Fresh
<1>3. CASE SeedSend
  BY <1>p, <1>3, SeedSendWaiting DEF SeedSend
<1>4. ASSUME NEW w \in Workers, Receive(w) PROVE Kept
  <2>1. p = Head(queue).page => InQueue(p)
    BY <1>4, ReceiveWaiting
  <2> QED
    BY <1>p, <1>4, <2>1, ReceiveWaiting DEF Receive
<1>5. ASSUME NEW w \in Workers, Skip(w) PROVE Kept
  BY <1>p, <1>5, GiveUpWaiting DEF Skip
<1>6. ASSUME NEW w \in Workers, Handle(w) PROVE Kept
  <2>1. /\ calls' = [calls EXCEPT ![item[w].page] = @ + 1] /\ visited' = visited
        /\ InHand(item[w].page) /\ item[w].page \in Pages
    BY <1>6, GiveUpWaiting DEF Handle
  <2>2. CASE p = item[w].page
    <3>1. calls'[p] = 1 /\ p \in visited
      BY <1>0, <1>p, <2>1, <2>2 DEF TypeOK
    <3>2. ~InQueue(p)' /\ ~InHand(p)' /\ ~InSend(p)'
      BY <1>6, <2>1, <2>2, GiveUpWaiting DEF PlaceInv
    <3> QED
      BY <2>1, <3>1, <3>2
  <2>3. CASE p # item[w].page
    BY <1>0, <1>6, <1>p, <2>1, <2>3, GiveUpWaiting DEF TypeOK
  <2> QED
    BY <2>2, <2>3
<1>7. ASSUME NEW w \in Workers, SendChild(w) PROVE Kept
  <2>1. /\ Head(kids[w]) \notin visited /\ visited' = visited \cup {Head(kids[w])}
        /\ calls' = calls
    BY <1>7 DEF SendChild, Fresh
  <2>2. /\ InQueue(p)' <=> InQueue(p) \/ p = Head(kids[w])
        /\ InHand(p)' <=> InHand(p)
        /\ InSend(p)' <=> InSend(p)
    BY <1>7, SendChildWaiting
  <2> QED
    BY <1>p, <2>1, <2>2
<1> QED
  BY QuietOrNot, <1>1, <1>2, <1>3, <1>4, <1>5, <1>6, <1>7

\* Seeds enter at depth 0 and children only below a page above the limit.
LEMMA DepthStep ==
  ASSUME CountInv, DepthInv, [Next]_vars
  PROVE  DepthInv'
<1> USE DEF DepthInv, Busy
<1>0. TypeOK /\ DepthInv
  BY DEF CountInv
<1>1. CASE UNCHANGED vars
  BY <1>0, <1>1 DEF vars, mainVars, workerVars
<1>2. CASE MainStep
  <2>1. CASE SeedKnown
    BY <1>0, <2>1 DEF SeedKnown, mainVars, workerVars
  <2>2. CASE SeedMark
    BY <1>0, <2>2 DEF SeedMark, mainVars, workerVars
  <2>3. CASE SeedSend
    <3>1. [page |-> Seeds[seedIdx], depth |-> 0] \in Items
      BY <1>0, <2>3, SeedTypes DEF SeedSend, CountInv, LockInv, Items
    <3>2. \A i \in DOMAIN queue' : queue'[i].depth <= MaxDepth
      BY <1>0, <2>3, <3>1, QueueAppend, CrawlAssumption DEF SeedSend, Send
    <3> QED
      BY <1>0, <2>3, <3>2 DEF SeedSend, workerVars
  <2>4. CASE Wait
    BY <1>0, <2>4 DEF Wait, mainVars, workerVars
  <2>5. CASE CloseQueue
    BY <1>0, <2>5 DEF CloseQueue, mainVars, workerVars
  <2>6. CASE Return
    BY <1>0, <2>6 DEF Return, mainVars, workerVars
  <2> QED
    BY <1>2, <2>1, <2>2, <2>3, <2>4, <2>5, <2>6 DEF MainStep
<1>3. ASSUME NEW w \in Workers, WorkerStep(w) PROVE DepthInv'
  <2>1. CASE Receive(w)
    <3>1. /\ Head(queue).depth <= MaxDepth
          /\ \A i \in DOMAIN queue' : queue'[i].depth <= MaxDepth
      BY <1>0, <2>1, QueueTail DEF Receive
    <3> QED
      BY <1>0, <2>1, <3>1 DEF Receive, Goto, TypeOK
  <2>2. CASE Exit(w)
    BY <1>0, <2>2 DEF Exit, Goto, TypeOK
  <2>3. CASE Admit(w)
    BY <1>0, <2>3 DEF Admit, Goto, TypeOK
  <2>4. CASE Skip(w)
    BY <1>0, <2>4 DEF Skip, Goto, TypeOK
  <2>5. CASE Acquire(w)
    BY <1>0, <2>5 DEF Acquire, Goto, TypeOK
  <2>6. CASE Handle(w)
    BY <1>0, <2>6 DEF Handle, Goto, TypeOK
  <2>7. CASE Record(w)
    BY <1>0, <2>7 DEF Record, Goto, TypeOK
  <2>8. CASE Release(w)
    BY <1>0, <2>8 DEF Release, Expands, TypeOK
  <2>9. CASE LockChildren(w)
    BY <1>0, <2>9 DEF LockChildren, Goto, TypeOK
  <2>10. CASE KnownChild(w)
    BY <1>0, <2>10 DEF KnownChild, Goto, TypeOK
  <2>11. CASE SendChild(w)
    <3>1. Head(kids[w]) \in Pages /\ item[w].depth \in Nat
      BY <1>0, <2>11, SendChildWaiting, ItemTypes DEF SendChild, CountInv
    <3>2. [page |-> Head(kids[w]), depth |-> item[w].depth + 1] \in Items
          /\ item[w].depth + 1 <= MaxDepth
      BY <1>0, <2>11, <3>1, CrawlAssumption DEF SendChild, Items
    <3>3. \A i \in DOMAIN queue' : queue'[i].depth <= MaxDepth
      BY <1>0, <2>11, <3>2, QueueAppend DEF SendChild, Send
    <3> QED
      BY <1>0, <2>11, <3>3 DEF SendChild
  <2>12. CASE DropChild(w)
    BY <1>0, <2>12 DEF DropChild, Goto, TypeOK
  <2>13. CASE UnlockChildren(w)
    BY <1>0, <2>13 DEF UnlockChildren, Goto, TypeOK
  <2>14. CASE Finish(w)
    BY <1>0, <2>14 DEF Finish, Goto, TypeOK
  <2> QED
    BY <1>3, <2>1, <2>2, <2>3, <2>4, <2>5, <2>6, <2>7, <2>8,
       <2>9, <2>10, <2>11, <2>12, <2>13, <2>14 DEF WorkerStep
<1>4. CASE Cancel
  BY <1>0, <1>4 DEF Cancel, mainVars, workerVars
<1> QED
  BY <1>1, <1>2, <1>3, <1>4 DEF Next, Terminated

\* Run visits the seeds in order.
LEMMA SeedsStep ==
  ASSUME CountInv, SeedsInv, CallsInv, [Next]_vars
  PROVE  SeedsInv'
<1> USE CrawlAssumption DEF SeedsInv
<1>0. TypeOK /\ LockInv /\ seedIdx \in Int /\ DOMAIN Seeds \subseteq Int
  BY LenProperties DEF CountInv, TypeOK
<1>1. CASE UNCHANGED vars
  BY <1>0, <1>1 DEF vars, mainVars, workerVars
<1>2. CASE MainStep
  <2>1. CASE SeedKnown
    BY <1>0, <2>1 DEF SeedKnown, Fresh
  <2>2. CASE SeedMark
    BY <1>0, <2>2 DEF SeedMark, mainVars, workerVars
  <2>3. CASE SeedSend
    <3>1. Seeds[seedIdx] \in visited
      BY <1>0, <2>3, SeedTypes DEF SeedSend, LockInv, CallsInv, InSend
    <3> QED
      BY <1>0, <2>3, <3>1 DEF SeedSend
  <2>4. CASE Wait
    BY <1>0, <2>4 DEF Wait, mainVars, workerVars
  <2>5. CASE CloseQueue
    BY <1>0, <2>5 DEF CloseQueue, mainVars, workerVars
  <2>6. CASE Return
    BY <1>0, <2>6 DEF Return, mainVars, workerVars
  <2> QED
    BY <1>2, <2>1, <2>2, <2>3, <2>4, <2>5, <2>6 DEF MainStep
<1>3. ASSUME NEW w \in Workers, WorkerStep(w) PROVE SeedsInv'
  <2>1. CASE Receive(w)
    BY <1>0, <2>1 DEF Receive, mainVars
  <2>2. CASE Exit(w)
    BY <1>0, <2>2 DEF Exit, mainVars
  <2>3. CASE Admit(w)
    BY <1>0, <2>3 DEF Admit, mainVars
  <2>4. CASE Skip(w)
    BY <1>0, <2>4 DEF Skip, mainVars
  <2>5. CASE Acquire(w)
    BY <1>0, <2>5 DEF Acquire, mainVars
  <2>6. CASE Handle(w)
    BY <1>0, <2>6 DEF Handle, mainVars
  <2>7. CASE Record(w)
    BY <1>0, <2>7 DEF Record, mainVars
  <2>8. CASE Release(w)
    BY <1>0, <2>8 DEF Release, mainVars
  <2>9. CASE LockChildren(w)
    BY <1>0, <2>9 DEF LockChildren, mainVars
  <2>10. CASE KnownChild(w)
    BY <1>0, <2>10 DEF KnownChild, mainVars
  <2>11. CASE SendChild(w)
    BY <1>0, <2>11 DEF SendChild, mainVars
  <2>12. CASE DropChild(w)
    BY <1>0, <2>12 DEF DropChild, mainVars
  <2>13. CASE UnlockChildren(w)
    BY <1>0, <2>13 DEF UnlockChildren, mainVars
  <2>14. CASE Finish(w)
    BY <1>0, <2>14 DEF Finish, mainVars
  <2> QED
    BY <1>3, <2>1, <2>2, <2>3, <2>4, <2>5, <2>6, <2>7, <2>8,
       <2>9, <2>10, <2>11, <2>12, <2>13, <2>14 DEF WorkerStep
<1>4. CASE Cancel
  BY <1>0, <1>4 DEF Cancel, mainVars, workerVars
<1> QED
  BY <1>1, <1>2, <1>3, <1>4 DEF Next, Terminated

\* A page stops waiting only when it is handled, or when the context has ended.
LEMMA LossStep ==
  ASSUME CountInv, PlaceInv, CallsInv, DepthInv, LossInv, [Next]_vars
  PROVE  LossInv'
<1>0. TypeOK
  BY DEF CountInv
<1> SUFFICES ASSUME NEW p \in visited'
             PROVE  calls'[p] = 1 \/ InQueue(p)' \/ InHand(p)' \/ InSend(p)'
                      \/ enqueueDrops' > 0 \/ cancelled'
  BY DEF LossInv
<1> DEFINE Kept == calls'[p] = 1 \/ InQueue(p)' \/ InHand(p)' \/ InSend(p)'
                      \/ enqueueDrops' > 0 \/ cancelled'
<1>p. p \in visited => calls[p] = 1 \/ InQueue(p) \/ InHand(p) \/ InSend(p)
                         \/ enqueueDrops > 0 \/ cancelled
  BY DEF LossInv
<1>1. CASE Quiet
  BY <1>p, <1>1, QuietWaiting DEF Quiet
<1>2. CASE SeedMark
  BY <1>p, <1>2, SeedMarkWaiting DEF SeedMark
<1>3. CASE SeedSend
  BY <1>p, <1>3, SeedSendWaiting DEF SeedSend
<1>4. ASSUME NEW w \in Workers, Receive(w) PROVE Kept
  BY <1>p, <1>4, ReceiveWaiting DEF Receive
<1>5. ASSUME NEW w \in Workers, Skip(w) PROVE Kept
  <2>1. cancelled /\ cancelled' = cancelled
    BY <1>5 DEF Skip, Goto, Admissible, DepthInv, Busy
  <2> QED
    BY <2>1
<1>6. ASSUME NEW w \in Workers, Handle(w) PROVE Kept
  <2>1. /\ calls' = [calls EXCEPT ![item[w].page] = @ + 1] /\ visited' = visited
        /\ enqueueDrops' = enqueueDrops /\ cancelled' = cancelled
        /\ InHand(item[w].page) /\ item[w].page \in Pages
    BY <1>6, GiveUpWaiting DEF Handle
  <2>2. CASE p = item[w].page
    BY <1>0, <2>1, <2>2 DEF TypeOK, CallsInv
  <2>3. CASE p # item[w].page
    BY <1>0, <1>6, <1>p, <2>1, <2>3, GiveUpWaiting DEF TypeOK
  <2> QED
    BY <2>2, <2>3
<1>7. ASSUME NEW w \in Workers, SendChild(w) PROVE Kept
  <2>1. visited' = visited \cup {Head(kids[w])} /\ calls' = calls
        /\ enqueueDrops' = enqueueDrops /\ cancelled' = cancelled
    BY <1>7 DEF SendChild
  <2>2. (InQueue(p)' <=> InQueue(p) \/ p = Head(kids[w]))
        /\ (InHand(p)' <=> InHand(p)) /\ (InSend(p)' <=> InSend(p))
    BY <1>7, SendChildWaiting
  <2> QED
    BY <1>p, <2>1, <2>2
<1> QED
  BY QuietOrNot, <1>1, <1>2, <1>3, <1>4, <1>5, <1>6, <1>7

\* The verdict is given when everything is over.
LEMMA VerdictStep ==
  ASSUME CountInv, VerdictInv, [Next]_vars
  PROVE  VerdictInv'
<1> USE DEF VerdictInv
<1>0. TypeOK /\ PhaseInv /\ (ret = "ok" => Busy = {})
  BY ZeroIsIdle DEF CountInv, PhaseInv
<1>1. CASE UNCHANGED vars
  BY <1>0, <1>1 DEF vars, mainVars, workerVars
<1>2. CASE MainStep
  <2>1. CASE SeedKnown
    BY <1>0, <2>1 DEF SeedKnown, mainVars, workerVars
  <2>2. CASE SeedMark
    BY <1>0, <2>2 DEF SeedMark, mainVars, workerVars
  <2>3. CASE SeedSend
    BY <1>0, <2>3 DEF SeedSend, mainVars, workerVars
  <2>4. CASE Wait
    BY <1>0, <2>4 DEF Wait, mainVars, workerVars
  <2>5. CASE CloseQueue
    BY <1>0, <2>5 DEF CloseQueue, mainVars, workerVars
  <2>6. CASE Return
    BY <1>0, <2>6 DEF Return, Verdict, TypeOK, mainVars, workerVars
  <2> QED
    BY <1>2, <2>1, <2>2, <2>3, <2>4, <2>5, <2>6 DEF MainStep
<1>3. ASSUME NEW w \in Workers, WorkerStep(w) PROVE VerdictInv'
  <2>1. CASE Receive(w)
    BY <1>0, <2>1 DEF Receive, mainVars, Busy
  <2>2. CASE Exit(w)
    BY <1>0, <2>2 DEF Exit, mainVars, Busy
  <2>3. CASE Admit(w)
    BY <1>0, <2>3 DEF Admit, mainVars, Busy
  <2>4. CASE Skip(w)
    BY <1>0, <2>4 DEF Skip, mainVars, Busy
  <2>5. CASE Acquire(w)
    BY <1>0, <2>5 DEF Acquire, mainVars, Busy
  <2>6. CASE Handle(w)
    BY <1>0, <2>6 DEF Handle, mainVars, Busy
  <2>7. CASE Record(w)
    BY <1>0, <2>7 DEF Record, mainVars, Busy
  <2>8. CASE Release(w)
    BY <1>0, <2>8 DEF Release, mainVars, Busy
  <2>9. CASE LockChildren(w)
    BY <1>0, <2>9 DEF LockChildren, mainVars, Busy
  <2>10. CASE KnownChild(w)
    BY <1>0, <2>10 DEF KnownChild, mainVars, Busy
  <2>11. CASE SendChild(w)
    BY <1>0, <2>11 DEF SendChild, mainVars, Busy
  <2>12. CASE DropChild(w)
    BY <1>0, <2>12 DEF DropChild, mainVars, Busy
  <2>13. CASE UnlockChildren(w)
    BY <1>0, <2>13 DEF UnlockChildren, mainVars, Busy
  <2>14. CASE Finish(w)
    BY <1>0, <2>14 DEF Finish, mainVars, Busy
  <2> QED
    BY <1>3, <2>1, <2>2, <2>3, <2>4, <2>5, <2>6, <2>7, <2>8,
       <2>9, <2>10, <2>11, <2>12, <2>13, <2>14 DEF WorkerStep
<1>4. CASE Cancel
  BY <1>0, <1>4 DEF Cancel, mainVars, workerVars
<1> QED
  BY <1>1, <1>2, <1>3, <1>4 DEF Next, Terminated

LEMMA LinkedSplit ==
  ASSUME NEW s \in Seq(Pages), s # <<>>
  PROVE  Linked(s) \subseteq {Head(s)} \cup Linked(Tail(s))
<1>1. Len(s) \in Nat /\ DOMAIN s = 1..Len(s)
  BY LenProperties
<1>2. /\ Head(s) = s[1] /\ Tail(s) \in Seq(Pages) /\ Len(Tail(s)) = Len(s) - 1
      /\ \A i \in 1..Len(Tail(s)) : Tail(s)[i] = s[i + 1]
  BY HeadTailProperties
<1>3. DOMAIN Tail(s) = 1..(Len(s) - 1)
  BY <1>2, LenProperties
<1>4. ASSUME NEW i \in DOMAIN s, i # 1 PROVE s[i] \in Linked(Tail(s))
  <2>1. i - 1 \in DOMAIN Tail(s) /\ Tail(s)[i - 1] = s[i]
    BY <1>1, <1>2, <1>3, <1>4
  <2> QED
    BY <2>1 DEF Linked
<1> QED
  BY <1>2, <1>4 DEF Linked

\* A worker that does not move goes on expanding what it expands.
LEMMA StillExpanding ==
  ASSUME NEW v \in Workers, NEW p \in Pages, Expanding(v, p),
         results'[p] = results[p], visited \subseteq visited',
         pc'[v] = pc[v], item'[v] = item[v], reply'[v] = reply[v], kids'[v] = kids[v]
  PROVE  Expanding(v, p)'
BY DEF Expanding

\* The links of a recorded page pass from the answer of the handler to kids and
\* from there, one by one, to visited.
LEMMA LinksStep ==
  ASSUME CountInv, LinksInv, [Next]_vars
  PROVE  LinksInv'
<1>0. TypeOK /\ HandsInv
  BY DEF CountInv
<1> SUFFICES ASSUME NEW p \in Pages, results'[p].kind = "ok", results'[p].depth < MaxDepth
             PROVE  \/ Linked(results'[p].links) \subseteq visited'
                    \/ \E w \in Workers : Expanding(w, p)'
  BY DEF LinksInv
<1> DEFINE Kept == \/ Linked(results'[p].links) \subseteq visited'
                   \/ \E w \in Workers : Expanding(w, p)'
<1>p. results'[p] = results[p] => \/ Linked(results[p].links) \subseteq visited
                                  \/ \E w \in Workers : Expanding(w, p)
  BY DEF LinksInv
<1>1. ASSUME results' = results, visited \subseteq visited', UNCHANGED workerVars
      PROVE  Kept
  BY <1>p, <1>1, StillExpanding DEF workerVars
<1>2. CASE UNCHANGED vars
  BY <1>1, <1>2 DEF vars
<1>3. CASE MainStep
  BY <1>1, <1>3 DEF MainStep, SeedKnown, SeedMark, SeedSend, Wait, CloseQueue, Return
<1>4. CASE Cancel
  BY <1>1, <1>4 DEF Cancel
<1>5. ASSUME NEW w \in Workers, WorkerStep(w) PROVE Kept
  <2>1. \A v \in Workers \ {w} : /\ pc'[v] = pc[v] /\ item'[v] = item[v]
                                 /\ reply'[v] = reply[v] /\ kids'[v] = kids[v]
    BY <1>0, <1>5
    DEF WorkerStep, Receive, Exit, Admit, Skip, Acquire, Handle, Record, Release,
        LockChildren, KnownChild, SendChild, DropChild, UnlockChildren, Finish, Goto, TypeOK
  <2>2. visited \subseteq visited'
    BY <1>5
    DEF WorkerStep, Receive, Exit, Admit, Skip, Acquire, Handle, Record, Release,
        LockChildren, KnownChild, SendChild, DropChild, UnlockChildren, Finish
  \* Only w itself can be the worker whose expansion of p changes.
  <2>3. ASSUME results'[p] = results[p], Expanding(w, p) => Kept PROVE Kept
    BY <1>p, <2>1, <2>2, <2>3, StillExpanding
  <2>4. CASE Receive(w) \/ Exit(w) \/ Admit(w) \/ Skip(w) \/ Acquire(w)
             \/ Handle(w) \/ Finish(w)
    <3>1. results' = results /\ ~Expanding(w, p)
      BY <2>4 DEF Receive, Exit, Admit, Skip, Acquire, Handle, Finish, Goto, Expanding
    <3> QED
      BY <2>3, <3>1
  <2>5. CASE Record(w)
    <3>1. CASE results'[p] = results[p] /\ (reply[w].kind = "nil" \/ item[w].page # p)
      BY <2>3, <2>5, <3>1 DEF Record, Goto, Expanding
    <3>2. CASE reply[w].kind # "nil" /\ item[w].page = p
      <4>1. results'[p] = [kind  |-> reply[w].kind, links |-> reply[w].links,
                           depth |-> item[w].depth]
        BY <1>0, <2>5, <3>2 DEF Record, TypeOK
      <4>2. /\ pc'[w] = "release" /\ item' = item /\ reply' = reply
        BY <1>0, <2>5 DEF Record, Goto, TypeOK
      <4>3. Expanding(w, p)'
        BY <3>2, <4>1, <4>2 DEF Expanding
      <4> QED
        BY <4>3
    <3>3. reply[w].kind = "nil" \/ item[w].page # p => results'[p] = results[p]
      BY <1>0, <2>5 DEF Record, TypeOK
    <3> QED
      BY <3>1, <3>2, <3>3
  <2>6. CASE Release(w)
    <3>1. results' = results /\ visited' = visited /\ item' = item
      BY <2>6 DEF Release
    <3>2. ASSUME Expanding(w, p) PROVE Expanding(w, p)'
      <4>1. Expands(w) /\ item[w].page = p /\ reply[w].links = results[p].links
        BY <2>6, <3>1, <3>2 DEF Expanding, Expands, Release
      <4>2. pc'[w] = "lock" /\ kids'[w] = results[p].links
        BY <1>0, <2>6, <4>1 DEF Release, TypeOK
      <4> QED
        BY <3>1, <4>1, <4>2 DEF Expanding
    <3> QED
      BY <2>3, <3>1, <3>2
  <2>7. CASE LockChildren(w)
    <3>1. results' = results /\ visited' = visited /\ item' = item /\ kids' = kids
          /\ pc[w] = "lock" /\ pc'[w] = "enqueue"
      BY <1>0, <2>7 DEF LockChildren, Goto, TypeOK
    <3>2. Expanding(w, p) => Expanding(w, p)'
      BY <3>1 DEF Expanding
    <3> QED
      BY <2>3, <3>1, <3>2
  <2>8. CASE KnownChild(w) \/ SendChild(w) \/ DropChild(w)
    <3>1. /\ results' = results /\ item' = item /\ pc' = pc /\ pc[w] = "enqueue"
          /\ kids[w] # <<>> /\ kids'[w] = Tail(kids[w]) /\ kids[w] \in Seq(Pages)
          /\ Head(kids[w]) \in visited'
      BY <1>0, <2>8 DEF KnownChild, SendChild, DropChild, Fresh, TypeOK
    <3>2. Linked(kids[w]) \subseteq {Head(kids[w])} \cup Linked(kids'[w])
      BY <3>1, LinkedSplit
    <3>3. Expanding(w, p) => Expanding(w, p)'
      BY <2>2, <3>1, <3>2 DEF Expanding
    <3> QED
      BY <2>3, <3>1, <3>3
  <2>9. CASE UnlockChildren(w)
    <3>1. results' = results /\ visited' = visited /\ kids[w] = <<>> /\ pc[w] = "enqueue"
      BY <2>9 DEF UnlockChildren, Goto
    <3>2. Linked(kids[w]) = {}
      BY <3>1 DEF Linked
    <3>3. Expanding(w, p) => Linked(results'[p].links) \subseteq visited'
      BY <3>1, <3>2 DEF Expanding
    <3> QED
      BY <2>3, <3>1, <3>3
  <2> QED
    BY <1>5, <2>4, <2>5, <2>6, <2>7, <2>8, <2>9 DEF WorkerStep
<1> QED
  BY <1>2, <1>3, <1>4, <1>5 DEF Next, Terminated

-----------------------------------------------------------------------------
(* The theorems of the pages. *)

LEMMA FateInit == Init => FateInv
<1> SUFFICES ASSUME Init PROVE FateInv
  OBVIOUS
<1>1. Early = {} /\ Busy = {} /\ DOMAIN queue = {} /\ visited = {}
  BY EmptySeq, LenProperties DEF Init, Early, Busy
<1>2. \A p \in Pages : ~InQueue(p) /\ ~InHand(p) /\ ~InSend(p) /\ calls[p] = 0
  BY <1>1 DEF Init, InQueue, InHand, InSend
<1>3. PlaceInv /\ CallsInv /\ LossInv
  BY <1>1, <1>2 DEF PlaceInv, CallsInv, LossInv
<1>4. DepthInv /\ VerdictInv
  BY <1>1 DEF Init, DepthInv, VerdictInv
<1>5. SeedsInv
  BY CrawlAssumption, LenProperties DEF Init, SeedsInv
<1>6. LinksInv
  BY DEF Init, LinksInv, NoResult
<1> QED
  BY <1>3, <1>4, <1>5, <1>6 DEF FateInv

LEMMA FateInvariant == Spec => [](CountInv /\ FateInv)
<1>1. Init => CountInv /\ FateInv
  BY CountInit, FateInit
<1>2. CountInv /\ FateInv /\ [Next]_vars => CountInv' /\ FateInv'
  BY CountStep, PlaceStep, CallsStep, DepthStep, SeedsStep, LossStep, LinksStep, VerdictStep
  DEF FateInv
<1> QED
  BY <1>1, <1>2, PTL DEF Spec

\* The node handler is called at most once for each page.
THEOREM OnceCorrect == Spec => []AtMostOnce
<1>1. FateInv => AtMostOnce
  BY DEF FateInv, CallsInv, AtMostOnce
<1> QED
  BY FateInvariant, <1>1, PTL

\* A crawl without error handled every seed and every page it discovered, and
\* discovered every link it had to follow.
THEOREM SuccessCorrect == Spec => []SuccessIsClosed
<1>1. CountInv /\ FateInv => SuccessIsClosed
  <2> SUFFICES ASSUME CountInv, FateInv, ret = "ok"
               PROVE  /\ SeedPages \subseteq visited
                      /\ \A p \in visited : calls[p] = 1
                      /\ \A p \in Pages :
                           results[p].kind = "ok" /\ results[p].depth < MaxDepth
                             => Linked(results[p].links) \subseteq visited
    BY DEF SuccessIsClosed
  <2>1. mainPc = "returned" /\ seedIdx \notin DOMAIN Seeds /\ pendingWork = 0
    BY DEF CountInv, PhaseInv
  <2>2. queue = <<>> /\ Busy = {}
    BY <2>1, ZeroIsIdle
  <2>3. \A i \in DOMAIN Seeds : i < seedIdx
    BY <2>1, CrawlAssumption, LenProperties DEF CountInv, TypeOK
  <2>4. SeedPages \subseteq visited
    BY <2>3 DEF FateInv, SeedsInv, SeedPages
  <2>5. DOMAIN queue = {} /\ Early = {}
    BY <2>2, EmptySeq, LenProperties DEF Early, Busy
  <2>6. \A p \in visited : ~InQueue(p) /\ ~InHand(p) /\ ~InSend(p)
    BY <2>1, <2>5 DEF InQueue, InHand, InSend
  <2>7. \A p \in visited : calls[p] = 1
    BY <2>6 DEF FateInv, LossInv, VerdictInv, CountInv, TypeOK
  <2>8. \A w \in Workers, p \in Pages : ~Expanding(w, p)
    BY <2>2 DEF Busy, Expanding
  <2> QED
    BY <2>4, <2>7, <2>8 DEF FateInv, LinksInv
<1> QED
  BY FateInvariant, <1>1, PTL
=============================================================================
