--------------------------- MODULE TraversalProofs ---------------------------
(***************************************************************************)
(* The engine implements the abstract traversal, its depths are those of   *)
(* chains of links, and with one worker and one seed it is breadth-first,  *)
(* for every instance.                                                     *)
(***************************************************************************)
EXTENDS CrawlProofs, Iteration

USE DEF queueVars, pageVars, countVars, Item, Add, Done, AddAndDone, FreeSlot,
        NothingPending, Leave, NextChild

-----------------------------------------------------------------------------
(* The third invariant: what becomes of an answer. *)

\* Workers with an answer that is not stored yet.
Late == {w \in Workers : pc[w] = "record"}

InRecord(p) == \E w \in Late : item[w].page = p

\* Each page is answered for once, so that no result is ever overwritten.
AnswerInv ==
  /\ \A p \in Pages : Recorded(p) => calls[p] > 0
  /\ \A w \in Late : calls[item[w].page] > 0 /\ ~Recorded(item[w].page)
  /\ \A v, w \in Late : item[v].page = item[w].page => v = w

\* What a worker enqueues are links of the good page that it has recorded.
Stored(w) ==
  results[item[w].page] =
    [kind |-> reply[w].kind, links |-> reply[w].links, depth |-> item[w].depth]

Source(w) ==
  LET r == results[item[w].page]
  IN  r.kind = "ok" /\ r.depth = item[w].depth /\ Linked(kids[w]) \subseteq Linked(r.links)

SourceInv ==
  \A w \in Workers :
    /\ pc[w] \in {"release", "lock", "enqueue"} =>
         calls[item[w].page] > 0 /\ ~InRecord(item[w].page)
    /\ pc[w] = "release" /\ reply[w].kind # "nil" => Stored(w)
    /\ pc[w] \in {"lock", "enqueue"} => Source(w)

\* A chain of links that leads to a page at depth d ends in a recorded page at d - 1.
Witnessed(p, d) ==
  /\ d <= MaxDepth
  /\ IF d = 0 THEN p \in SeedPages
     ELSE \E q \in Pages :
            results[q].kind = "ok" /\ results[q].depth = d - 1 /\ p \in Linked(results[q].links)

WitnessInv ==
  /\ \A i \in DOMAIN queue : Witnessed(queue[i].page, queue[i].depth)
  /\ \A w \in Early \cup Late : Witnessed(item[w].page, item[w].depth)
  /\ \A p \in Pages : Recorded(p) => Witnessed(p, results[p].depth)

AnswersInv == AnswerInv /\ SourceInv /\ WitnessInv

-----------------------------------------------------------------------------
(* Which steps move an answer. *)

LEMMA LateMoves ==
  ASSUME TypeOK, NEW w \in Workers, NEW to, pc' = [pc EXCEPT ![w] = to]
  PROVE  Late' = IF to = "record" THEN Late \cup {w} ELSE Late \ {w}
BY DEF TypeOK, Late

\* What a step does to answers and results, if it neither asks a handler nor records.
Settled ==
  /\ Late' = Late /\ \A w \in Late : item'[w] = item[w]
  /\ calls' = calls /\ results' = results

LEMMA SettledOrNot ==
  ASSUME CountInv, [Next]_vars
  PROVE  Settled \/ \E w \in Workers : Handle(w) \/ Record(w)
<1> USE DEF Settled
<1>0. TypeOK
  BY DEF CountInv
<1>1. CASE UNCHANGED vars
  BY <1>1 DEF vars, workerVars, Late
<1>2. CASE MainStep
  BY <1>2 DEF MainStep, SeedKnown, SeedMark, SeedSend, Wait, CloseQueue, Return, workerVars, Late
<1>3. ASSUME NEW w \in Workers, WorkerStep(w)
      PROVE  Settled \/ Handle(w) \/ Record(w)
  <2> USE DEF Goto
  <2>1. CASE Receive(w) \/ Skip(w) \/ Finish(w)
    <3>1. w \notin Late /\ calls' = calls /\ results' = results
      BY <2>1 DEF Receive, Skip, Finish, Late
    <3>4. Late' = Late \ {w}
      <4>1. PICK to : pc' = [pc EXCEPT ![w] = to] /\ to # "record"
        BY <2>1 DEF Receive, Skip, Finish
      <4> QED
        BY <1>0, <4>1, LateMoves
    <3>2. \A v \in Workers \ {w} : item'[v] = item[v]
      BY <1>0, <2>1 DEF Receive, Skip, Finish, TypeOK
    <3> QED
      BY <3>1, <3>2, <3>4 DEF Late
  <2>2. CASE Exit(w) \/ Admit(w) \/ Acquire(w)
    BY <1>0, <2>2, LateMoves DEF Exit, Admit, Acquire, Late
  <2>3. CASE Release(w)
    BY <1>0, <2>3, LateMoves DEF Release, Late
  <2>4. CASE LockChildren(w) \/ UnlockChildren(w)
    BY <1>0, <2>4, LateMoves DEF LockChildren, UnlockChildren, Late
  <2>5. CASE KnownChild(w) \/ SendChild(w) \/ DropChild(w)
    BY <2>5 DEF KnownChild, SendChild, DropChild, Late
  <2> QED
    BY <1>3, <2>1, <2>2, <2>3, <2>4, <2>5 DEF WorkerStep
<1>4. CASE Cancel
  BY <1>4 DEF Cancel, workerVars, Late
<1> QED
  BY <1>1, <1>2, <1>3, <1>4 DEF Next, Terminated

\* A handler is asked for a page that nobody asked for before.
LEMMA HandleMoves ==
  ASSUME CountInv, CallsInv, NEW w \in Workers, Handle(w)
  PROVE  LET p == item[w].page
         IN  /\ p \in Pages /\ calls[p] = 0 /\ calls' = [calls EXCEPT ![p] = 1]
             /\ w \notin Late /\ Late' = Late \cup {w}
             /\ UNCHANGED <<results, item, kids>>
             /\ \A v \in Workers \ {w} : pc'[v] = pc[v] /\ reply'[v] = reply[v]
             /\ pc'[w] = "record"
<1>1. TypeOK /\ w \in Early /\ w \in Busy /\ w \notin Late
  BY DEF CountInv, Handle, Goto, Early, Busy, Late
<1>2. item[w].page \in Pages /\ InHand(item[w].page)
  BY <1>1, ItemTypes DEF CountInv, InHand
<1>3. calls[item[w].page] = 0
  BY <1>2 DEF CallsInv
<1>4. calls' = [calls EXCEPT ![item[w].page] = 1]
  BY <1>1, <1>2, <1>3 DEF Handle, TypeOK
<1>5. Late' = Late \cup {w}
  BY <1>1, LateMoves DEF Handle, Goto
<1>6. /\ UNCHANGED <<results, item, kids>>
      /\ \A v \in Workers \ {w} : pc'[v] = pc[v] /\ reply'[v] = reply[v]
      /\ pc'[w] = "record"
  BY <1>1 DEF Handle, Goto, TypeOK
<1> QED
  BY <1>1, <1>2, <1>3, <1>4, <1>5, <1>6

LEMMA RecordMoves ==
  ASSUME CountInv, AnswerInv, NEW w \in Workers, Record(w)
  PROVE  LET p == item[w].page
         IN  /\ p \in Pages /\ ~Recorded(p)
             /\ \A q \in Pages \ {p} : results'[q] = results[q]
             /\ IF reply[w].kind = "nil" THEN results' = results
                ELSE results'[p] = [kind |-> reply[w].kind, links |-> reply[w].links,
                                    depth |-> item[w].depth]
             /\ w \in Late /\ Late' = Late \ {w}
             /\ \A v \in Workers \ {w} : pc'[v] = pc[v]
             /\ pc'[w] = "release"
             /\ UNCHANGED <<calls, item, reply, kids, queue>>
<1>1. TypeOK /\ w \in Busy /\ w \in Late
  BY DEF CountInv, Record, Goto, Late, Busy
<1>2. item[w].page \in Pages
  BY <1>1, ItemTypes DEF CountInv
<1>3. Late' = Late \ {w}
  <2>1. pc' = [pc EXCEPT ![w] = "release"]
    BY DEF Record, Goto
  <2>2. Late' = IF "release" = "record" THEN Late \cup {w} ELSE Late \ {w}
    BY <1>1, <2>1, LateMoves
  <2> QED
    BY <2>2
<1>4. /\ \A v \in Workers \ {w} : pc'[v] = pc[v]
      /\ pc'[w] = "release"
      /\ UNCHANGED <<calls, item, reply, kids, queue>>
  BY <1>1 DEF Record, Goto, TypeOK
<1>5. /\ \A q \in Pages \ {item[w].page} : results'[q] = results[q]
      /\ IF reply[w].kind = "nil" THEN results' = results
         ELSE results'[item[w].page] = [kind |-> reply[w].kind, links |-> reply[w].links,
                                        depth |-> item[w].depth]
  BY <1>1, <1>2 DEF Record, TypeOK
<1>6. ~Recorded(item[w].page)
  BY <1>1 DEF AnswerInv
<1> QED
  BY <1>1, <1>2, <1>3, <1>4, <1>5, <1>6

LEMMA AnswerStep ==
  ASSUME CountInv, CallsInv, AnswerInv, [Next]_vars
  PROVE  AnswerInv'
<1>0. calls \in [Pages -> Nat]
  BY DEF CountInv, TypeOK
<1>1. CASE Settled
  <2>1. /\ Late' = Late /\ \A w \in Late : item'[w] = item[w]
        /\ calls' = calls /\ results' = results
    BY <1>1 DEF Settled
  <2>2. \A p \in Pages : (results[p].kind # "no result")' => calls'[p] > 0
    BY <2>1 DEF AnswerInv, Recorded
  <2>3. \A w \in Late' :
          calls'[item'[w].page] > 0 /\ results'[item'[w].page].kind = "no result"
    BY <2>1 DEF AnswerInv, Recorded
  <2>4. \A v, w \in Late' : item'[v].page = item'[w].page => v = w
    BY <2>1 DEF AnswerInv
  <2> QED
    BY <2>2, <2>3, <2>4 DEF AnswerInv, Recorded
<1>2. ASSUME NEW w \in Workers, Handle(w)
      PROVE  AnswerInv'
  <2> DEFINE p == item[w].page
  <2>1. /\ p \in Pages /\ calls[p] = 0 /\ calls' = [calls EXCEPT ![p] = 1]
        /\ w \notin Late /\ Late' = Late \cup {w} /\ UNCHANGED <<results, item>>
    BY <1>2, HandleMoves
  <2>2. \A q \in Pages : calls[q] > 0 => calls'[q] > 0
    BY <1>0, <2>1
  <2>3. calls'[p] > 0 /\ ~Recorded(p)
    BY <1>0, <2>1 DEF AnswerInv
  <2>4. \A v \in Late : item[v].page \in Pages /\ item[v].page # p
    <3>1. \A v \in Late : item[v].page \in Pages /\ calls[item[v].page] > 0
      BY ItemTypes DEF AnswerInv, CountInv, Late, Busy
    <3> QED
      BY <2>1, <3>1
  <2> QED
    BY <2>1, <2>2, <2>3, <2>4 DEF AnswerInv, Recorded
<1>3. ASSUME NEW w \in Workers, Record(w)
      PROVE  AnswerInv'
  <2> DEFINE p == item[w].page
  <2>1. /\ p \in Pages /\ w \in Late /\ Late' = Late \ {w} /\ UNCHANGED <<calls, item>>
        /\ \A q \in Pages \ {p} : results'[q] = results[q]
    BY <1>3, RecordMoves
  <2>2. calls[p] > 0 /\ \A v \in Late \ {w} : item[v].page # p /\ item[v].page \in Pages
    BY <2>1, ItemTypes DEF AnswerInv, CountInv, Late, Busy
  <2> QED
    BY <2>1, <2>2 DEF AnswerInv, Recorded
<1> QED
  BY <1>1, <1>2, <1>3, SettledOrNot

-----------------------------------------------------------------------------
(* What is recorded stays. *)

LEMMA AnswersStay ==
  ASSUME CountInv, CallsInv, AnswerInv, [Next]_vars, NEW p \in Pages
  PROVE  /\ calls[p] > 0 => calls'[p] > 0
         /\ calls[p] > 0 /\ ~InRecord(p) => ~InRecord(p)' /\ results'[p] = results[p]
         /\ Recorded(p) => results'[p] = results[p]
<1>0. calls \in [Pages -> Nat]
  BY DEF CountInv, TypeOK
<1>1. CASE Settled
  <2>1. InRecord(p)' <=> InRecord(p)
    BY <1>1 DEF Settled, InRecord
  <2> QED
    BY <1>1, <2>1 DEF Settled
<1>2. ASSUME NEW w \in Workers, Handle(w)
      PROVE  /\ calls[p] > 0 => calls'[p] > 0
             /\ calls[p] > 0 /\ ~InRecord(p) => ~InRecord(p)' /\ results'[p] = results[p]
             /\ Recorded(p) => results'[p] = results[p]
  <2>1. /\ item[w].page \in Pages /\ calls[item[w].page] = 0
        /\ calls' = [calls EXCEPT ![item[w].page] = 1]
        /\ Late' = Late \cup {w} /\ UNCHANGED <<results, item>>
    BY <1>2, HandleMoves
  <2>2. calls[p] > 0 /\ ~InRecord(p) => ~InRecord(p)'
    BY <2>1 DEF InRecord
  <2>3. calls[p] > 0 => calls'[p] > 0
    BY <1>0, <2>1
  <2> QED
    BY <2>1, <2>2, <2>3
<1>3. ASSUME NEW w \in Workers, Record(w)
      PROVE  /\ calls[p] > 0 => calls'[p] > 0
             /\ calls[p] > 0 /\ ~InRecord(p) => ~InRecord(p)' /\ results'[p] = results[p]
             /\ Recorded(p) => results'[p] = results[p]
  <2>1. /\ w \in Late /\ Late' = Late \ {w} /\ UNCHANGED <<calls, item>>
        /\ ~Recorded(item[w].page)
        /\ \A q \in Pages \ {item[w].page} : results'[q] = results[q]
    BY <1>3, RecordMoves
  <2> QED
    BY <2>1 DEF InRecord
<1> QED
  BY <1>1, <1>2, <1>3, SettledOrNot

LEMMA LinkedParts ==
  ASSUME NEW s \in Seq(Pages), s # <<>>
  PROVE  Head(s) \in Linked(s) /\ Linked(Tail(s)) \subseteq Linked(s)
<1>1. Len(s) \in Nat /\ Len(s) # 0 /\ DOMAIN s = 1..Len(s)
  BY LenProperties, EmptySeq
<1>2. /\ Head(s) = s[1] /\ Tail(s) \in Seq(Pages) /\ Len(Tail(s)) = Len(s) - 1
      /\ \A i \in 1..Len(Tail(s)) : Tail(s)[i] = s[i + 1]
  BY <1>1, HeadTailProperties
<1>3. DOMAIN Tail(s) = 1..(Len(s) - 1)
  BY <1>2, LenProperties
<1>4. \A i \in DOMAIN Tail(s) : i + 1 \in DOMAIN s /\ Tail(s)[i] = s[i + 1]
  BY <1>1, <1>2, <1>3
<1> QED
  BY <1>1, <1>2, <1>4 DEF Linked

\* What SourceInv says of one worker.
Grounded(w) ==
  /\ pc[w] \in {"release", "lock", "enqueue"} =>
       calls[item[w].page] > 0 /\ ~InRecord(item[w].page)
  /\ pc[w] = "release" /\ reply[w].kind # "nil" => Stored(w)
  /\ pc[w] \in {"lock", "enqueue"} => Source(w)

\* Workers that do not move keep what they have.
LEMMA StillGrounded ==
  ASSUME CountInv, CallsInv, AnswerInv, [Next]_vars, NEW w \in Workers, Grounded(w),
         pc'[w] = pc[w], item'[w] = item[w], reply'[w] = reply[w], kids'[w] = kids[w]
  PROVE  Grounded(w)'
<1>1. CASE pc[w] \notin {"release", "lock", "enqueue"}
  BY <1>1 DEF Grounded
<1>2. CASE pc[w] \in {"release", "lock", "enqueue"}
  <2>1. PICK p \in Pages : p = item[w].page
    BY <1>2, ItemTypes DEF CountInv, Busy
  <2>2. calls[p] > 0 /\ ~InRecord(p)
    BY <1>2, <2>1 DEF Grounded
  <2>3. calls'[p] > 0 /\ ~InRecord(p)' /\ results'[p] = results[p]
    BY <2>2, AnswersStay
  <2>4. p = item'[w].page
    BY <2>1
  <2>5. ~InRecord(item[w].page)'
    BY <2>3, <2>4 DEF InRecord
  <2>6. pc[w] = "release" /\ reply[w].kind # "nil" => Stored(w)'
    BY <1>2, <2>1, <2>3, <2>4 DEF Grounded, Stored
  <2>7. pc[w] \in {"lock", "enqueue"} => Source(w)'
    BY <1>2, <2>1, <2>3, <2>4 DEF Grounded, Source
  <2> QED
    BY <1>2, <2>3, <2>4, <2>5, <2>6, <2>7 DEF Grounded
<1> QED
  BY <1>1, <1>2

LEMMA SourceStep ==
  ASSUME CountInv, CallsInv, AnswerInv, SourceInv, [Next]_vars
  PROVE  SourceInv'
<1>0. TypeOK /\ HandsInv
  BY DEF CountInv
<1> SUFFICES ASSUME NEW v \in Workers
             PROVE  Grounded(v)'
  BY DEF SourceInv, Grounded
<1>1. Grounded(v)
  BY DEF SourceInv, Grounded
<1>2. CASE UNCHANGED workerVars
  BY <1>1, <1>2, StillGrounded DEF workerVars
<1>3. ASSUME NEW w \in Workers, WorkerStep(w)
      PROVE  Grounded(v)'
  <2>1. CASE v # w
    <3>1. pc'[v] = pc[v] /\ item'[v] = item[v] /\ reply'[v] = reply[v] /\ kids'[v] = kids[v]
      BY <1>0, <1>3, <2>1
      DEF WorkerStep, Receive, Exit, Admit, Skip, Acquire, Handle, Record, Release,
          LockChildren, KnownChild, SendChild, DropChild, UnlockChildren, Finish, Goto, TypeOK
    <3> QED
      BY <1>1, <3>1, StillGrounded
  <2>2. CASE v = w /\ pc'[w] \notin {"release", "lock", "enqueue"}
    BY <2>2 DEF Grounded
  <2>3. ASSUME v = w, Record(w)
        PROVE  Grounded(w)'
    <3>1. PICK p \in Pages : p = item[w].page
      BY <2>3, RecordMoves
    <3>2. /\ IF reply[w].kind = "nil" THEN results' = results
             ELSE results'[p] = [kind |-> reply[w].kind, links |-> reply[w].links,
                                 depth |-> item[w].depth]
          /\ w \in Late /\ Late' = Late \ {w} /\ UNCHANGED <<calls, item, reply>>
          /\ pc'[w] = "release"
      BY <2>3, <3>1, RecordMoves
    <3>3. calls'[p] > 0 /\ ~InRecord(item[w].page)'
      BY <3>1, <3>2 DEF AnswerInv, InRecord
    <3>4. reply[w].kind # "nil" => Stored(w)'
      BY <3>1, <3>2 DEF Stored
    <3> QED
      BY <3>1, <3>2, <3>3, <3>4 DEF Grounded
  <2>4. ASSUME v = w, Release(w), Expands(w)
        PROVE  Grounded(w)'
    <3>1. /\ pc[w] = "release" /\ pc'[w] = "lock" /\ kids'[w] = reply[w].links
          /\ UNCHANGED <<results, calls, item>>
      BY <1>0, <2>4 DEF Release, TypeOK
    <3>2. Late' = Late
      <4>1. pc' = [pc EXCEPT ![w] = "lock"]
        BY <2>4 DEF Release
      <4>2. Late' = IF "lock" = "record" THEN Late \cup {w} ELSE Late \ {w}
        BY <1>0, <4>1, LateMoves
      <4> QED
        BY <3>1, <4>2 DEF Late
    <3>3. calls'[item'[w].page] > 0 /\ ~InRecord(item[w].page)'
      BY <1>1, <2>4, <3>1, <3>2 DEF Grounded, InRecord
    <3>4. Source(w)'
      BY <1>1, <2>4, <3>1 DEF Grounded, Stored, Source, Expands
    <3> QED
      BY <3>1, <3>3, <3>4 DEF Grounded
  <2>5. ASSUME v = w, pc[w] \in {"lock", "enqueue"}, pc'[w] = "enqueue",
               UNCHANGED <<results, calls, item>>, Late' = Late,
               Linked(kids'[w]) \subseteq Linked(kids[w])
        PROVE  Grounded(w)'
    <3>1. calls'[item'[w].page] > 0 /\ ~InRecord(item[w].page)'
      BY <1>1, <2>5 DEF Grounded, InRecord
    <3>2. Source(w)'
      BY <1>1, <2>5 DEF Grounded, Source
    <3> QED
      BY <2>5, <3>1, <3>2 DEF Grounded
  <2>6. ASSUME v = w, LockChildren(w)
        PROVE  Grounded(w)'
    <3>1. Late' = Late
      <4>1. pc' = [pc EXCEPT ![w] = "enqueue"] /\ w \notin Late
        BY <2>6 DEF LockChildren, Goto, Late
      <4>2. Late' = IF "enqueue" = "record" THEN Late \cup {w} ELSE Late \ {w}
        BY <1>0, <4>1, LateMoves
      <4> QED
        BY <4>1, <4>2
    <3> QED
      BY <1>0, <2>5, <2>6, <3>1 DEF LockChildren, Goto, TypeOK
  <2>7. ASSUME v = w, KnownChild(w) \/ SendChild(w) \/ DropChild(w)
        PROVE  Grounded(w)'
    <3>1. /\ pc' = pc /\ pc[w] = "enqueue" /\ UNCHANGED <<results, calls, item>>
          /\ kids[w] # <<>> /\ kids'[w] = Tail(kids[w]) /\ kids[w] \in Seq(Pages)
      BY <1>0, <2>7 DEF KnownChild, SendChild, DropChild, TypeOK
    <3>2. Late' = Late
      BY <3>1 DEF Late
    <3> QED
      BY <2>5, <2>7, <3>1, <3>2, LinkedParts
  <2>8. CASE v = w
    <3>1. ASSUME Receive(w) \/ Exit(w) \/ Admit(w) \/ Skip(w) \/ Acquire(w) \/ Handle(w)
                   \/ UnlockChildren(w) \/ Finish(w) \/ (Release(w) /\ ~Expands(w))
          PROVE  pc'[w] \notin {"release", "lock", "enqueue"}
      BY <1>0, <3>1
      DEF Receive, Exit, Admit, Skip, Acquire, Handle, UnlockChildren, Finish, Release, Goto, TypeOK
    <3> QED
      BY <1>3, <2>2, <2>3, <2>4, <2>6, <2>7, <2>8, <3>1 DEF WorkerStep
  <2> QED
    BY <2>1, <2>8
<1> QED
  BY <1>2, <1>3
  DEF Next, MainStep, SeedKnown, SeedMark, SeedSend, Wait, CloseQueue, Return, Cancel, Terminated,
      vars

-----------------------------------------------------------------------------
(* Depths. *)

LEMMA StillWitnessed ==
  ASSUME CountInv, CallsInv, AnswerInv, [Next]_vars, NEW p, NEW d, Witnessed(p, d)
  PROVE  Witnessed(p, d)'
<1>1. ASSUME NEW q \in Pages, results[q].kind = "ok"
      PROVE  results'[q] = results[q]
  BY <1>1, AnswersStay DEF Recorded
<1> QED
  BY <1>1 DEF Witnessed

\* Where items come from that are in the hands of a worker.
LEMMA HandsFrom ==
  ASSUME CountInv, PlaceInv, CallsInv, AnswerInv, [Next]_vars, NEW v \in (Early \cup Late)'
  PROVE  \/ v \in Early \cup Late /\ item'[v] = item[v]
         \/ queue # <<>> /\ item'[v] = Head(queue)
<1>0. TypeOK
  BY DEF CountInv
<1>1. CASE UNCHANGED workerVars
  BY <1>1 DEF workerVars, Early, Late
<1>2. ASSUME NEW w \in Workers, WorkerStep(w)
      PROVE  \/ v \in Early \cup Late /\ item'[v] = item[v]
             \/ queue # <<>> /\ item'[v] = Head(queue)
  <2>1. CASE v # w
    BY <1>0, <1>2, <2>1
    DEF WorkerStep, Receive, Exit, Admit, Skip, Acquire, Handle, Record, Release, LockChildren,
        KnownChild, SendChild, DropChild, UnlockChildren, Finish, Goto, TypeOK, Early, Late
  <2>2. CASE v = w /\ Receive(w)
    BY <1>0, <2>2 DEF Receive, TypeOK, Early, Late
  <2>3. CASE v = w /\ (Admit(w) \/ Acquire(w) \/ Handle(w))
    BY <1>0, <2>3 DEF Admit, Acquire, Handle, Goto, TypeOK, Early, Late
  <2>4. CASE v = w /\ (Exit(w) \/ Skip(w) \/ Finish(w) \/ Record(w) \/ Release(w)
                         \/ LockChildren(w) \/ UnlockChildren(w))
    BY <1>0, <2>4
    DEF Exit, Skip, Finish, Record, Release, LockChildren, UnlockChildren, Goto, TypeOK, Early, Late
  <2>5. CASE v = w /\ (KnownChild(w) \/ SendChild(w) \/ DropChild(w))
    BY <1>0, <2>5 DEF KnownChild, SendChild, DropChild, TypeOK, Early, Late
  <2> QED
    BY <1>2, <2>1, <2>2, <2>3, <2>4, <2>5 DEF WorkerStep
<1> QED
  BY <1>1, <1>2
  DEF Next, MainStep, SeedKnown, SeedMark, SeedSend, Wait, CloseQueue, Return, Cancel, Terminated,
      vars

LEMMA QueueFrom ==
  ASSUME CountInv, [Next]_vars
  PROVE  \/ \A i \in DOMAIN queue' : \E j \in DOMAIN queue : queue'[i] = queue[j]
         \/ SeedSend \/ \E w \in Workers : SendChild(w)
<1>1. CASE Quiet \/ SeedMark
  BY <1>1 DEF Quiet, SeedMark
<1>2. ASSUME NEW w \in Workers, Skip(w) \/ Handle(w)
      PROVE  queue' = queue
  BY <1>2 DEF Skip, Handle
<1>3. ASSUME NEW w \in Workers, Receive(w)
      PROVE  \A i \in DOMAIN queue' : \E j \in DOMAIN queue : queue'[i] = queue[j]
  BY <1>3, QueueTail DEF Receive, CountInv
<1> QED
  BY <1>1, <1>2, <1>3, QuietOrNot

LEMMA WitnessStep ==
  ASSUME CountInv, PlaceInv, CallsInv, DepthInv, AnswersInv, [Next]_vars
  PROVE  WitnessInv'
<1> USE DEF AnswersInv
<1>0. TypeOK
  BY DEF CountInv
<1>1. ASSUME NEW v \in (Early \cup Late)'
      PROVE  Witnessed(item[v].page, item[v].depth)'
  <2>1. PICK x : x = item'[v]
    OBVIOUS
  <2>2. queue # <<>> => 1 \in DOMAIN queue /\ Head(queue) = queue[1]
    <3>1. queue \in Seq(Items)
      BY <1>0 DEF TypeOK
    <3> QED
      BY <3>1, HeadTailProperties, LenProperties, EmptySeq
  <2>3. Witnessed(x.page, x.depth)
    BY <1>1, <2>1, <2>2, HandsFrom DEF WitnessInv
  <2>4. Witnessed(x.page, x.depth)'
    BY <2>3, StillWitnessed
  <2> QED
    BY <2>1, <2>4 DEF Witnessed
<1>2. ASSUME NEW n \in Nat, NEW x \in Items, queue' = Append(queue, x),
             Witnessed(x.page, x.depth), NEW i \in DOMAIN queue'
      PROVE  Witnessed(queue[i].page, queue[i].depth)'
  <2>1. PICK y : y = queue'[i]
    OBVIOUS
  <2>2. y = x \/ \E j \in DOMAIN queue : y = queue[j]
    BY <1>0, <1>2, <2>1, QueueAppend
  <2>3. Witnessed(y.page, y.depth)'
    BY <1>2, <2>2, StillWitnessed DEF WitnessInv
  <2> QED
    BY <2>1, <2>3 DEF Witnessed
<1>3. ASSUME NEW i \in DOMAIN queue'
      PROVE  Witnessed(queue[i].page, queue[i].depth)'
  <2>1. CASE \A k \in DOMAIN queue' : \E j \in DOMAIN queue : queue'[k] = queue[j]
    <3>1. PICK y : y = queue'[i] /\ \E j \in DOMAIN queue : y = queue[j]
      BY <1>3, <2>1
    <3>2. Witnessed(y.page, y.depth)'
      BY <3>1, StillWitnessed DEF WitnessInv
    <3> QED
      BY <3>1, <3>2 DEF Witnessed
  <2>2. CASE SeedSend
    <3>1. PICK x : x = [page |-> Seeds[seedIdx], depth |-> 0]
      OBVIOUS
    <3>2. seedIdx \in DOMAIN Seeds /\ x \in Items /\ queue' = Append(queue, x)
      BY <2>2, <3>1, SeedTypes DEF SeedSend, Send, CountInv, LockInv, Items
    <3>3. Witnessed(x.page, x.depth)
      BY <3>1, <3>2, CrawlAssumption DEF Witnessed, SeedPages
    <3> QED
      BY <1>2, <1>3, <3>2, <3>3
  <2>3. ASSUME NEW w \in Workers, SendChild(w)
        PROVE  Witnessed(queue[i].page, queue[i].depth)'
    <3>1. PICK x : x = [page |-> Head(kids[w]), depth |-> item[w].depth + 1]
      OBVIOUS
    <3>2. /\ pc[w] = "enqueue" /\ kids[w] # <<>> /\ kids[w] \in Seq(Pages)
          /\ queue' = Append(queue, x)
      BY <1>0, <2>3, <3>1 DEF SendChild, Send, TypeOK
    <3>3. Head(kids[w]) \in Pages /\ Head(kids[w]) \in Linked(kids[w])
      BY <2>3, <3>2, SendChildWaiting, LinkedParts
    <3>4. item[w].page \in Pages /\ item[w].depth \in Nat /\ item[w].depth < MaxDepth
      BY <3>2, ItemTypes DEF CountInv, Busy, DepthInv
    <3>5. Source(w)
      BY <3>2 DEF SourceInv
    <3>6. Witnessed(x.page, x.depth) /\ x \in Items
      <4>1. x.page = Head(kids[w]) /\ x.depth = item[w].depth + 1 /\ x \in Items
        BY <3>1, <3>3, <3>4 DEF Items
      <4>2. x.depth # 0 /\ x.depth <= MaxDepth /\ x.depth - 1 = item[w].depth
        BY <3>4, <4>1, CrawlAssumption
      <4> QED
        BY <3>3, <3>4, <3>5, <4>1, <4>2 DEF Witnessed, Source
    <3> QED
      BY <1>2, <1>3, <3>2, <3>6
  <2> QED
    BY <2>1, <2>2, <2>3, QueueFrom
<1>4. ASSUME NEW p \in Pages, Recorded(p)'
      PROVE  Witnessed(p, results[p].depth)'
  <2>1. CASE results'[p] = results[p]
    <3>1. PICK d : d = results[p].depth
      OBVIOUS
    <3>2. Witnessed(p, d)'
      BY <1>4, <2>1, <3>1, StillWitnessed DEF WitnessInv, Recorded
    <3> QED
      BY <2>1, <3>1, <3>2 DEF Witnessed
  <2>2. ASSUME NEW w \in Workers, Record(w), results'[p] # results[p]
        PROVE  Witnessed(p, results[p].depth)'
    <3>1. /\ p = item[w].page /\ results'[p].depth = item[w].depth /\ w \in Late
      <4>1. /\ item[w].page \in Pages /\ w \in Late
            /\ \A q \in Pages \ {item[w].page} : results'[q] = results[q]
            /\ IF reply[w].kind = "nil" THEN results' = results
               ELSE results'[item[w].page] =
                      [kind |-> reply[w].kind, links |-> reply[w].links, depth |-> item[w].depth]
        BY <2>2, RecordMoves
      <4>2. p = item[w].page /\ reply[w].kind # "nil"
        BY <2>2, <4>1
      <4> QED
        BY <4>1, <4>2
    <3>2. PICK d : d = item[w].depth
      OBVIOUS
    <3>3. Witnessed(p, d)'
      BY <3>1, <3>2, StillWitnessed DEF WitnessInv
    <3> QED
      BY <3>1, <3>2, <3>3 DEF Witnessed
  <2> QED
    BY <2>1, <2>2, SettledOrNot, HandleMoves DEF Settled
<1> QED
  BY <1>1, <1>3, <1>4 DEF WitnessInv

-----------------------------------------------------------------------------
(* Theorems. *)

LEMMA AnswersInit == Init => AnswersInv
<1> SUFFICES ASSUME Init PROVE AnswersInv
  OBVIOUS
<1>1. /\ Early = {} /\ Late = {} /\ DOMAIN queue = {}
      /\ \A p \in Pages : ~Recorded(p)
  <2>1. Early = {} /\ Late = {}
    BY DEF Init, Early, Late
  <2>2. DOMAIN queue = {}
    BY EmptySeq, LenProperties DEF Init
  <2>3. \A p \in Pages : ~Recorded(p)
    BY DEF Init, Recorded, NoResult
  <2> QED
    BY <2>1, <2>2, <2>3
<1>2. AnswerInv /\ WitnessInv
  BY <1>1 DEF AnswerInv, WitnessInv
<1>3. SourceInv
  BY DEF Init, SourceInv
<1> QED
  BY <1>2, <1>3 DEF AnswersInv

LEMMA AnswersInvariant == Spec => [](CountInv /\ FateInv /\ AnswersInv)
<1>1. CountInv /\ FateInv /\ AnswersInv /\ [Next]_vars => AnswersInv'
  BY AnswerStep, SourceStep, WitnessStep DEF FateInv, AnswersInv
<1> QED
  BY <1>1, AnswersInit, FateInvariant, PTL DEF Spec

\* A recorded depth is the length of a chain of links from a seed, through pages
\* without error and within the depth limit: enqueueChildren follows nothing else.
THEOREM WitnessCorrect == Spec => []DepthWitness
<1>1. AnswersInv => DepthWitness
  BY DEF AnswersInv, WitnessInv, Witnessed, DepthWitness
<1> QED
  BY <1>1, AnswersInvariant, PTL

-----------------------------------------------------------------------------
(* The engine implements the abstract traversal. *)

\* The pages that the mapping calls open, and those that are answered.
LEMMA OpenIs ==
  ASSUME NEW p
  PROVE  p \in Open <=> InQueue(p) \/ InHand(p) \/ InSend(p) \/ InRecord(p)
BY DEF Open, InQueue, InHand, InSend, InRecord, Early, Late

Waiting(p) == InQueue(p) \/ InHand(p) \/ InSend(p)

Given(p)   == calls[p] > 0 /\ ~InRecord(p)
GivenUp(p) == p \in visited /\ calls[p] = 0 /\ ~Waiting(p)

Lost    == visited \ (Answered \cup Open)
LinksOf == [p \in Pages |-> IF results[p].kind = "ok" THEN Linked(results[p].links) ELSE {}]

LEMMA MappedIs ==
  ASSUME CountInv, CallsInv, AnswerInv
  PROVE  /\ Answered = {p \in Pages : Given(p)}
         /\ Lost = {p \in Pages : GivenUp(p)}
         /\ visited \subseteq Pages
<1>1. \A p \in Pages : calls[p] \in Nat
  BY DEF CountInv, TypeOK
<1>2. visited \subseteq Pages
  BY DEF CountInv, TypeOK
<1>3. ASSUME NEW p \in Pages
      PROVE  p \in Answered <=> Given(p)
  BY <1>3, OpenIs DEF Answered, CallsInv, Given
<1>4. Answered \subseteq Pages
  BY DEF Answered
<1>5. ASSUME NEW p \in Pages
      PROVE  p \in Lost <=> GivenUp(p)
  <2>1. InRecord(p) => calls[p] > 0
    BY DEF AnswerInv, InRecord
  <2> QED
    BY <1>1, <1>3, <2>1, OpenIs DEF Lost, Given, GivenUp, Waiting
<1>6. Lost \subseteq Pages
  BY <1>2 DEF Lost
<1> QED
  BY <1>2, <1>3, <1>4, <1>5, <1>6

\* What a step changes of the mapped state, page by page.
LEMMA MappedMoves ==
  ASSUME CountInv, CallsInv, AnswerInv, CountInv', CallsInv', AnswerInv',
         NEW S \in SUBSET Pages, NEW U \in SUBSET Pages,
         \A p \in Pages : Given(p)' <=> Given(p) \/ p \in S,
         \A p \in Pages : GivenUp(p)' <=> GivenUp(p) \/ p \in U
  PROVE  Answered' = Answered \cup S /\ Lost' = Lost \cup U
<1>1. Answered = {p \in Pages : Given(p)} /\ Lost = {p \in Pages : GivenUp(p)}
  BY MappedIs
<1>2. (CountInv /\ CallsInv /\ AnswerInv =>
         Answered = {p \in Pages : Given(p)} /\ Lost = {p \in Pages : GivenUp(p)})'
  BY MappedIs, PTL
<1>3. Answered' = {p \in Pages : Given(p)'} /\ Lost' = {p \in Pages : GivenUp(p)'}
  BY <1>2
<1> QED
  BY <1>1, <1>3

\* The steps that the abstract traversal sees, those that move a page, and the rest.
LEMMA StepKinds ==
  ASSUME CountInv, [Next]_vars
  PROVE  \/ SeedMark \/ SeedSend \/ Return
         \/ \E w \in Workers : Receive(w) \/ Skip(w) \/ Handle(w) \/ Record(w)
                                \/ SendChild(w) \/ DropChild(w)
         \/ Quiet /\ Settled /\ visited' = visited /\ ret' = ret
<1>1. visited' = visited \/ SeedMark \/ \E w \in Workers : SendChild(w) \/ DropChild(w)
  BY DEF Next, MainStep, SeedKnown, SeedSend, Wait, CloseQueue, Return, WorkerStep, Receive, Exit,
         Admit, Skip, Acquire, Handle, Record, Release, LockChildren, KnownChild, UnlockChildren,
         Finish, Cancel, Terminated, vars
<1>2. ret' = ret \/ Return
  BY DEF Next, MainStep, SeedKnown, SeedMark, SeedSend, Wait, CloseQueue, WorkerStep, Receive, Exit,
         Admit, Skip, Acquire, Handle, Record, Release, LockChildren, KnownChild, SendChild,
         DropChild, UnlockChildren, Finish, Cancel, Terminated, vars, mainVars
<1> QED
  BY <1>1, <1>2, QuietOrNot, SettledOrNot

\* A busy worker: the crawl runs.
LEMMA BusyRuns ==
  ASSUME CountInv, NEW w \in Busy
  PROVE  ret = "running"
<1>1. w \in Workers /\ pendingWork - 1 \in Nat /\ pendingWork \in Nat
  BY Positive DEF Busy, CountInv, TypeOK
<1>2. pendingWork # 0
  BY <1>1
<1> QED
  BY <1>2 DEF CountInv, TypeOK, PhaseInv

\* What the steps that move a page mean for the mapping.
LEMMA InRecordStays ==
  ASSUME Settled, NEW p
  PROVE  InRecord(p)' <=> InRecord(p)
BY DEF Settled, InRecord

LEMMA StutterMaps ==
  ASSUME CountInv, PlaceInv, CallsInv, AnswerInv, CountInv', CallsInv', AnswerInv',
         \/ SeedSend
         \/ \E w \in Workers : Receive(w) \/ Handle(w)
         \/ Quiet /\ Settled /\ visited' = visited /\ ret' = ret
  PROVE  UNCHANGED <<visited, Answered, Lost, LinksOf, ret>>
<1>0. calls \in [Pages -> Nat]
  BY DEF CountInv, TypeOK
<1>1. /\ visited' = visited /\ results' = results /\ ret' = ret
      /\ \A p \in Pages : Given(p)' <=> Given(p)
      /\ \A p \in Pages : GivenUp(p)' <=> GivenUp(p)
  <2>1. CASE Quiet /\ Settled /\ visited' = visited /\ ret' = ret
    <3>1. visited' = visited /\ results' = results /\ ret' = ret /\ calls' = calls
      BY <2>1 DEF Settled
    <3> QED
      BY <2>1, <3>1, QuietWaiting, InRecordStays DEF Given, GivenUp, Waiting
  <2>2. CASE SeedSend
    <3>1. /\ visited' = visited /\ results' = results /\ ret' = ret /\ calls' = calls
          /\ Late' = Late /\ item' = item
      BY <2>2 DEF SeedSend, workerVars, Late
    <3>2. \A p : InRecord(p)' <=> InRecord(p)
      BY <3>1 DEF InRecord
    <3> QED
      BY <2>2, <3>1, <3>2, SeedSendWaiting DEF Given, GivenUp, Waiting
  <2>3. ASSUME NEW w \in Workers, Receive(w)
        PROVE  /\ visited' = visited /\ results' = results /\ ret' = ret
               /\ \A p \in Pages : Given(p)' <=> Given(p)
               /\ \A p \in Pages : GivenUp(p)' <=> GivenUp(p)
    <3>1. visited' = visited /\ results' = results /\ ret' = ret /\ calls' = calls
      BY <2>3 DEF Receive, mainVars
    <3>2. \A p : InRecord(p)' <=> InRecord(p)
      <4>1. TypeOK /\ pc' = [pc EXCEPT ![w] = "got"] /\ w \notin Late
        BY <2>3 DEF Receive, Goto, Late, CountInv
      <4>2. Late' = IF "got" = "record" THEN Late \cup {w} ELSE Late \ {w}
        BY <4>1, LateMoves
      <4>3. \A v \in Late : item'[v] = item[v]
        BY <2>3, <4>1 DEF Receive, TypeOK, Late
      <4> QED
        BY <4>1, <4>2, <4>3 DEF InRecord
    <3>3. \A p : Waiting(p)' <=> Waiting(p)
      BY <2>3, ReceiveWaiting DEF Waiting
    <3> QED
      BY <3>1, <3>2, <3>3 DEF Given, GivenUp
  <2>4. ASSUME NEW w \in Workers, Handle(w)
        PROVE  /\ visited' = visited /\ results' = results /\ ret' = ret
               /\ \A p \in Pages : Given(p)' <=> Given(p)
               /\ \A p \in Pages : GivenUp(p)' <=> GivenUp(p)
    <3>1. PICK h \in Pages : h = item[w].page
      BY <2>4, HandleMoves
    <3>2. /\ calls[h] = 0 /\ calls' = [calls EXCEPT ![h] = 1]
          /\ Late' = Late \cup {w} /\ UNCHANGED <<results, item, visited, ret>>
      BY <2>4, <3>1, HandleMoves DEF Handle, mainVars
    <3>3. \A p : InRecord(p)' <=> InRecord(p) \/ p = h
      BY <3>1, <3>2 DEF InRecord
    <3>4. \A p : (Waiting(p)' <=> Waiting(p) /\ p # h) /\ Waiting(h)
      BY <2>4, <3>1, GiveUpWaiting DEF Waiting, PlaceInv
    <3>5. \A p \in Pages : p # h => calls'[p] = calls[p]
      BY <1>0, <3>2
    <3>6. calls'[h] = 1
      BY <1>0, <3>2
    <3> QED
      BY <3>2, <3>3, <3>4, <3>5, <3>6 DEF Given, GivenUp
  <2> QED
    BY <2>1, <2>2, <2>3, <2>4
<1>2. Answered' = Answered \cup {} /\ Lost' = Lost \cup {}
  BY <1>1, MappedMoves
<1> QED
  BY <1>1, <1>2 DEF LinksOf

LEMMA InitMaps == Init => T!Init
<1> SUFFICES ASSUME Init PROVE T!Init
  OBVIOUS
<1>1. visited = {} /\ ret = "running" /\ \A p \in Pages : calls[p] = 0 /\ results[p] = NoResult
  BY DEF Init
<1>2. Answered = {} /\ Lost = {}
  BY <1>1 DEF Answered, Lost
<1>3. LinksOf = [p \in Pages |-> {}]
  <2>1. NoResult.kind # "ok"
    BY DEF NoResult
  <2> QED
    BY <1>1, <2>1 DEF LinksOf
<1> QED
  BY <1>1, <1>2, <1>3 DEF T!Init, Lost, LinksOf

\* A page is found: a seed, or a link of the page in the hands of a worker.
LEMMA FindMaps ==
  ASSUME CountInv, FateInv, AnswersInv, CountInv', CallsInv', AnswerInv', [Next]_vars,
         NEW p \in Pages,
         \/ SeedMark /\ p = Seeds[seedIdx]
         \/ \E w \in Workers : (SendChild(w) \/ DropChild(w)) /\ p = Head(kids[w])
  PROVE  T!Find(p)
<1> USE DEF FateInv, AnswersInv
<1>1. /\ p \notin visited /\ visited' = visited \cup {p} /\ ret' = ret
      /\ calls' = calls /\ results' = results
      /\ \A q \in Pages : InRecord(q)' <=> InRecord(q)
  BY DEF SeedMark, SendChild, DropChild, mainVars, workerVars, Fresh, InRecord, Late
<1>2. ret = "running"
  <2>1. CASE SeedMark
    BY <2>1 DEF SeedMark, CountInv, PhaseInv
  <2>2. ASSUME NEW w \in Workers, SendChild(w) \/ DropChild(w)
        PROVE  ret = "running"
    BY <2>2, BusyRuns DEF SendChild, DropChild, Busy
  <2> QED
    BY <2>1, <2>2
<1>3. p \in SeedPages \/ \E q \in Answered : p \in LinksOf[q]
  <2>1. CASE SeedMark /\ p = Seeds[seedIdx]
    BY <2>1 DEF SeedMark, SeedPages
  <2>2. ASSUME NEW w \in Workers, SendChild(w) \/ DropChild(w), p = Head(kids[w])
        PROVE  \E q \in Answered : p \in LinksOf[q]
    <3>1. w \in Busy /\ pc[w] = "enqueue" /\ kids[w] # <<>> /\ kids[w] \in Seq(Pages)
      BY <2>2 DEF SendChild, DropChild, Busy, CountInv, TypeOK
    <3>2. item[w].page \in Pages /\ Given(item[w].page) /\ Source(w)
      BY <3>1, ItemTypes DEF CountInv, SourceInv, Given
    <3>3. item[w].page \in Answered
      BY <3>2, MappedIs
    <3>4. p \in Linked(kids[w])
      BY <2>2, <3>1, LinkedParts
    <3>5. p \in LinksOf[item[w].page]
      BY <3>2, <3>4 DEF Source, LinksOf
    <3> QED
      BY <3>3, <3>5
  <2> QED
    BY <2>1, <2>2
<1>4. \A q \in Pages : Given(q)' <=> Given(q)
  BY <1>1 DEF Given
<1>5. calls[p] = 0 /\ ~Waiting(p)
  <2>1. calls[p] \in Nat /\ ~(calls[p] > 0) /\ ~Waiting(p)
    BY <1>1 DEF CallsInv, Waiting, CountInv, TypeOK
  <2> QED
    BY <2>1
<1>6. CASE \A q : Waiting(q)' <=> Waiting(q) \/ q = p
  <2>1. \A q \in Pages : GivenUp(q)' <=> GivenUp(q)
    BY <1>1, <1>5, <1>6 DEF GivenUp
  <2>2. Answered' = Answered \cup {} /\ Lost' = Lost \cup {}
    BY <1>4, <2>1, MappedMoves
  <2> QED
    BY <1>1, <1>2, <1>3, <2>2 DEF T!Find, T!Reached, Lost, LinksOf
<1>7. CASE \A q : Waiting(q)' <=> Waiting(q)
  <2>1. \A q \in Pages : GivenUp(q)' <=> GivenUp(q) \/ q \in {p}
    BY <1>1, <1>5, <1>7 DEF GivenUp
  <2>2. PICK S \in SUBSET Pages, U \in SUBSET Pages : S = {} /\ U = {p}
    OBVIOUS
  <2>3. Answered' = Answered \cup S /\ Lost' = Lost \cup U
    <3>1. \A q \in Pages : Given(q)' <=> Given(q) \/ q \in S
      BY <1>4, <2>2
    <3>2. \A q \in Pages : GivenUp(q)' <=> GivenUp(q) \/ q \in U
      BY <2>1, <2>2
    <3> QED
      BY <3>1, <3>2, MappedMoves
  <2> QED
    BY <1>1, <1>2, <1>3, <2>2, <2>3 DEF T!Find, T!Reached, Lost, LinksOf
<1>8. ASSUME NEW w \in Workers, DropChild(w), NEW q
      PROVE  Waiting(q)' <=> Waiting(q)
  BY <1>8 DEF DropChild, mainVars, Waiting, InQueue, InHand, InSend, Early
<1> QED
  BY <1>6, <1>7, <1>8, SeedMarkWaiting, SendChildWaiting DEF Waiting

\* A page with an answer is settled when a worker records it, good or not.
LEMMA SettleMaps ==
  ASSUME CountInv, FateInv, AnswersInv, CountInv', CallsInv', AnswerInv', [Next]_vars,
         NEW w \in Workers, Record(w), NEW p \in Pages, p = item[w].page
  PROVE  T!Settle(p)
<1> USE DEF FateInv, AnswersInv
<1>1. /\ \A q \in Pages \ {p} : results'[q] = results[q]
      /\ w \in Late /\ Late' = Late \ {w} /\ w \in Busy
      /\ UNCHANGED <<calls, item, queue, visited, ret, mainVars>>
  BY RecordMoves DEF Record, Goto, Busy, mainVars
<1>2. calls[p] > 0 /\ InRecord(p) /\ p \in visited /\ ret = "running"
  BY <1>1, BusyRuns DEF AnswerInv, CallsInv, InRecord
<1>3. calls[p] \in Nat /\ calls[p] # 0
  BY <1>2 DEF CountInv, TypeOK
<1>4. p \notin Answered /\ p \notin Lost
  BY <1>2, <1>3, MappedIs DEF Given, GivenUp
<1>5. \A q : InRecord(q)' <=> InRecord(q) /\ q # p
  BY <1>1 DEF InRecord, AnswerInv
<1>6. \A q : Waiting(q)' <=> Waiting(q)
  <2>1. Early' = Early
    <3>1. pc' = [pc EXCEPT ![w] = "release"] /\ pc[w] = "record"
      BY DEF Record, Goto
    <3> QED
      BY <3>1 DEF Early, CountInv, TypeOK
  <2> QED
    BY <1>1, <2>1 DEF Waiting, InQueue, InHand, InSend, mainVars
<1>7. Answered' = Answered \cup {p} /\ Lost' = Lost
  <2>1. PICK S \in SUBSET Pages, U \in SUBSET Pages : S = {p} /\ U = {}
    OBVIOUS
  <2>2. \A q \in Pages : Given(q)' <=> Given(q) \/ q \in S
    BY <1>1, <1>2, <1>5, <2>1 DEF Given
  <2>3. \A q \in Pages : GivenUp(q)' <=> GivenUp(q) \/ q \in U
    BY <1>1, <1>6, <2>1 DEF GivenUp
  <2>4. Answered' = Answered \cup S /\ Lost' = Lost \cup U
    BY <2>2, <2>3, MappedMoves
  <2> QED
    BY <2>1, <2>4
<1>8. \E ls \in SUBSET Pages : LinksOf' = [LinksOf EXCEPT ![p] = ls]
  <2>1. PICK ls : ls = IF results'[p].kind = "ok" THEN Linked(results'[p].links) ELSE {}
    OBVIOUS
  <2>2. results'[p] \in Results \cup {NoResult}
    BY DEF CountInv, TypeOK
  <2>3. results'[p].kind = "ok" => results'[p].links \in Seq(Pages)
    <3>1. \A r \in Results \cup {NoResult} : r.kind = "ok" => r.links \in Seq(Pages)
      <4>1. NoResult.kind # "ok"
        BY DEF NoResult
      <4>2. \A r \in Results : r.links \in Seq(Pages)
        BY DEF Results
      <4> QED
        BY <4>1, <4>2
    <3> QED
      BY <2>2, <3>1
  <2>4. ls \in SUBSET Pages
    <3>1. \A s \in Seq(Pages) : Linked(s) \subseteq Pages
      BY LenProperties, ElementOfSeq DEF Linked
    <3> QED
      BY <2>1, <2>3, <3>1
  <2>5. LinksOf' = [LinksOf EXCEPT ![p] = ls]
    BY <1>1, <2>1 DEF LinksOf
  <2> QED
    BY <2>4, <2>5
<1> QED
  BY <1>1, <1>2, <1>4, <1>7, <1>8 DEF T!Settle, Lost, LinksOf

\* An item that is skipped is a page lost.
LEMMA LoseMaps ==
  ASSUME CountInv, FateInv, AnswersInv, CountInv', CallsInv', AnswerInv', [Next]_vars,
         NEW w \in Workers, Skip(w), NEW p \in Pages, p = item[w].page
  PROVE  T!Lose(p)
<1> USE DEF FateInv, AnswersInv
<1>1. w \in Busy /\ w \notin Late /\ UNCHANGED <<calls, results, visited, ret>>
  BY DEF Skip, Busy, Late, mainVars
<1>2. Waiting(p) /\ \A q : Waiting(q)' <=> Waiting(q) /\ q # p
  BY GiveUpWaiting DEF Waiting, PlaceInv
<1>3. p \in visited /\ calls[p] = 0 /\ ret = "running"
  BY <1>1, <1>2, BusyRuns DEF CallsInv, Waiting
<1>4. \A q : InRecord(q)' <=> InRecord(q)
  <2>1. TypeOK /\ pc' = [pc EXCEPT ![w] = "recv"] /\ item' = [item EXCEPT ![w] = NoItem]
    BY DEF Skip, CountInv
  <2>2. Late' = IF "recv" = "record" THEN Late \cup {w} ELSE Late \ {w}
    BY <2>1, LateMoves
  <2>3. \A v \in Late : item'[v] = item[v]
    BY <1>1, <2>1 DEF TypeOK, Late
  <2> QED
    BY <1>1, <2>2, <2>3 DEF InRecord
<1>5. Answered' = Answered /\ Lost' = Lost \cup {p}
  <2>1. PICK S \in SUBSET Pages, U \in SUBSET Pages : S = {} /\ U = {p}
    OBVIOUS
  <2>2. \A q \in Pages : Given(q)' <=> Given(q) \/ q \in S
    BY <1>1, <1>4, <2>1 DEF Given
  <2>3. \A q \in Pages : GivenUp(q)' <=> GivenUp(q) \/ q \in U
    BY <1>1, <1>2, <1>3, <2>1 DEF GivenUp
  <2>4. Answered' = Answered \cup S /\ Lost' = Lost \cup U
    BY <2>2, <2>3, MappedMoves
  <2> QED
    BY <2>1, <2>4
<1>6. p \notin Answered /\ p \notin Lost
  <2>1. ~(calls[p] > 0)
    BY <1>3
  <2> QED
    BY <1>2, <2>1, MappedIs DEF Given, GivenUp
<1> QED
  BY <1>1, <1>3, <1>5, <1>6 DEF T!Lose, Lost, LinksOf

\* Run returns with nothing open, and with success only if nothing was lost.
LEMMA ReturnMaps ==
  ASSUME CountInv, FateInv, AnswersInv, CountInv', CallsInv', AnswerInv', [Next]_vars, Return
  PROVE  T!Return
<1> USE DEF FateInv, AnswersInv
<1>1. UNCHANGED <<queue, visited, results, calls, workerVars, seedIdx>> /\ mainPc = "join"
  BY DEF Return
<1>2. pendingWork = 0 /\ seedIdx \notin DOMAIN Seeds /\ ret = "running"
  BY <1>1 DEF CountInv, PhaseInv
<1>3. queue = <<>> /\ Busy = {} /\ mainPc # "send" /\ mainPc' # "send"
  BY <1>2, ZeroIsIdle DEF Return
<1>4. Open = {} /\ Late = {}
  <2>1. DOMAIN queue = {}
    BY <1>3, EmptySeq, LenProperties
  <2> QED
    BY <1>3, <2>1 DEF Open, Busy, Late
<1>5. \A p : ~Waiting(p) /\ ~InRecord(p)
  BY <1>4, OpenIs DEF Waiting
<1>6. visited = Answered \cup Lost
  BY <1>4, MappedIs DEF CallsInv, Lost, Given
<1>7. SeedPages \subseteq visited
  <2>1. \A i \in DOMAIN Seeds : i < seedIdx
    BY <1>2, CrawlAssumption, LenProperties DEF CountInv, TypeOK
  <2> QED
    BY <2>1 DEF SeedsInv, SeedPages
<1>8. ret' \in {"ok", "cancelled", "saturated"} /\ (ret' = "ok" => Lost = {})
  <2>1. ret' = Verdict
    BY DEF Return
  <2>2. ASSUME ret' = "ok", NEW p \in Lost
        PROVE  FALSE
    <3>1. ~cancelled /\ ~(enqueueDrops > 0)
      BY <2>1, <2>2 DEF Verdict
    <3>2. p \in visited /\ calls[p] = 0
      BY <2>2, MappedIs DEF GivenUp
    <3> QED
      BY <1>5, <3>1, <3>2 DEF LossInv, Waiting
  <2> QED
    BY <2>1, <2>2 DEF Verdict
<1>9. Answered' = Answered /\ Lost' = Lost
  <2>1. Open' = Open
    BY <1>1, <1>3 DEF Open, workerVars
  <2> QED
    BY <1>1, <2>1 DEF Answered, Lost
<1> QED
  BY <1>1, <1>2, <1>6, <1>7, <1>8, <1>9 DEF T!Return, Lost, LinksOf

LEMMA StepMaps ==
  ASSUME CountInv, FateInv, AnswersInv, CountInv', FateInv', AnswersInv', [Next]_vars
  PROVE  [T!Next]_(T!tvars)
<1> USE DEF FateInv, AnswersInv
<1>1. CASE SeedMark
  <2>1. Seeds[seedIdx] \in Pages
    BY <1>1, SeedTypes DEF SeedMark, CountInv
  <2>2. T!Find(Seeds[seedIdx])
    BY <1>1, <2>1, FindMaps
  <2> QED
    BY <2>1, <2>2 DEF T!Next
<1>2. CASE Return
  BY <1>2, ReturnMaps DEF T!Next
<1>3. ASSUME NEW w \in Workers, SendChild(w) \/ DropChild(w)
      PROVE  T!Next
  <2>1. Head(kids[w]) \in Pages
    BY <1>3, HeadTailProperties DEF SendChild, DropChild, CountInv, TypeOK
  <2>2. T!Find(Head(kids[w]))
    BY <1>3, <2>1, FindMaps
  <2> QED
    BY <2>1, <2>2 DEF T!Next
<1>4. ASSUME NEW w \in Workers, Record(w) \/ Skip(w)
      PROVE  T!Next
  <2>1. PICK p \in Pages : p = item[w].page
    <3>1. w \in Busy
      BY <1>4 DEF Record, Skip, Goto, Busy
    <3> QED
      BY <3>1, ItemTypes DEF CountInv
  <2>2. T!Settle(p) \/ T!Lose(p)
    BY <1>4, <2>1, SettleMaps, LoseMaps
  <2> QED
    BY <2>2 DEF T!Next
<1>5. CASE \/ SeedSend
           \/ \E w \in Workers : Receive(w) \/ Handle(w)
           \/ Quiet /\ Settled /\ visited' = visited /\ ret' = ret
  BY <1>5, StutterMaps DEF T!tvars, Lost, LinksOf
<1> QED
  BY <1>1, <1>2, <1>3, <1>4, <1>5, StepKinds

\* The engine implements the abstract traversal.
THEOREM ImplementsCorrect == Spec => TraversalSpec
<1>1. CountInv /\ FateInv /\ AnswersInv /\ CountInv' /\ FateInv' /\ AnswersInv' /\ [Next]_vars
        => [T!Next]_(T!tvars)
  BY StepMaps
<1> QED
  BY <1>1, InitMaps, AnswersInvariant, PTL DEF Spec, TraversalSpec, T!Spec

-----------------------------------------------------------------------------
(* One worker and one seed: the traversal is breadth-first. *)

Serial == (\E w : Workers = {w}) /\ Len(Seeds) = 1

\* Page p has been given depth d.
Assigned(p, d) ==
  \/ \E i \in DOMAIN queue : queue[i].page = p /\ queue[i].depth = d
  \/ \E w \in Early \cup Late : item[w].page = p /\ item[w].depth = d
  \/ p \in Pages /\ Recorded(p) /\ results[p].depth = d

\* Depths come in order: recorded, in hand, queued; and what is in hand and queued
\* spans two depths at most.
OrderInv ==
  /\ \A i, j \in DOMAIN queue :
       /\ i <= j => queue[i].depth <= queue[j].depth
       /\ queue[j].depth <= queue[i].depth + 1
  /\ \A w \in Busy, i \in DOMAIN queue :
       item[w].depth <= queue[i].depth /\ queue[i].depth <= item[w].depth + 1
  /\ \A p \in Pages : Recorded(p) =>
       /\ \A i \in DOMAIN queue : results[p].depth <= queue[i].depth
       /\ \A w \in Busy : results[p].depth <= item[w].depth

\* Nothing happens before the seed is sent, and nothing else has depth 0 by mistake.
StartInv ==
  /\ seedIdx = 1 => queue = <<>> /\ Busy = {} /\ \A p \in Pages : ~Recorded(p)
  /\ \A p \in SeedPages, d \in Nat : Assigned(p, d) => d = 0

\* A link leads at most one deeper than the good page above the limit that has it.
NearInv ==
  \A q \in Pages :
    results[q].kind = "ok" /\ results[q].depth < MaxDepth =>
      \A p \in Linked(results[q].links), d \in Nat : Assigned(p, d) => d <= results[q].depth + 1

BreadthInv == OrderInv /\ StartInv /\ NearInv

LEMMA TailEntries ==
  ASSUME NEW s \in Seq(Items), s # <<>>, NEW i \in DOMAIN Tail(s)
  PROVE  i \in Nat /\ i + 1 \in DOMAIN s /\ Tail(s)[i] = s[i + 1]
<1>1. Len(s) \in Nat /\ Len(s) # 0 /\ DOMAIN s = 1..Len(s)
  BY LenProperties, EmptySeq
<1>2. /\ Tail(s) \in Seq(Items) /\ Len(Tail(s)) = Len(s) - 1
      /\ \A k \in 1..Len(Tail(s)) : Tail(s)[k] = s[k + 1]
  BY HeadTailProperties
<1>3. DOMAIN Tail(s) = 1..(Len(s) - 1)
  BY <1>2, LenProperties
<1> QED
  BY <1>1, <1>2, <1>3

\* The depths are numbers.
LEMMA DepthTypes ==
  ASSUME TypeOK, HandsInv
  PROVE  /\ \A i \in DOMAIN queue : queue[i].depth \in Nat
         /\ \A w \in Busy : item[w].depth \in Nat
         /\ \A p \in Pages : Recorded(p) => results[p].depth \in Nat
<1>1. \A i \in DOMAIN queue : queue[i] \in Items
  <2>1. queue \in Seq(Items)
    BY DEF TypeOK
  <2> QED
    BY <2>1, LenProperties, ElementOfSeq
<1>2. \A i \in DOMAIN queue : queue[i].depth \in Nat
  BY <1>1 DEF Items
<1>3. \A w \in Busy : item[w].depth \in Nat
  BY ItemTypes
<1>4. ASSUME NEW p \in Pages, Recorded(p)
      PROVE  results[p].depth \in Nat
  <2>1. results[p] \in Results
    <3>1. results[p] \in Results \cup {NoResult}
      BY DEF TypeOK
    <3>2. NoResult.kind = "no result"
      BY DEF NoResult
    <3> QED
      BY <1>4, <3>1, <3>2 DEF Recorded
  <2> QED
    BY <2>1 DEF Results
<1> QED
  BY <1>2, <1>3, <1>4

\* Steps that give no page a depth and move no item forward.
LEMMA BreadthStays ==
  ASSUME BreadthInv,
         \A i \in DOMAIN queue' : \E j \in DOMAIN queue : queue'[i] = queue[j],
         \A i, k \in DOMAIN queue' : i <= k =>
            \E j, l \in DOMAIN queue : j <= l /\ queue'[i] = queue[j] /\ queue'[k] = queue[l],
         \A w \in Busy' : w \in Busy /\ item'[w] = item[w],
         \A w \in (Early \cup Late)' : w \in Early \cup Late /\ item'[w] = item[w],
         results' = results,
         seedIdx' = 1 => seedIdx = 1 /\ queue' = queue
  PROVE  BreadthInv'
<1>1. \A p, d : Assigned(p, d)' => Assigned(p, d)
  <2> SUFFICES ASSUME NEW p, NEW d, Assigned(p, d)'
               PROVE  Assigned(p, d)
    OBVIOUS
  <2>1. CASE \E i \in DOMAIN queue' : queue'[i].page = p /\ queue'[i].depth = d
    BY <2>1 DEF Assigned
  <2>2. CASE \E w \in (Early \cup Late)' : item'[w].page = p /\ item'[w].depth = d
    BY <2>2 DEF Assigned
  <2>3. CASE p \in Pages /\ Recorded(p)' /\ results'[p].depth = d
    BY <2>3 DEF Assigned, Recorded
  <2> QED
    BY <2>1, <2>2, <2>3 DEF Assigned
<1>2. \A p : Recorded(p)' <=> Recorded(p)
  BY DEF Recorded
<1>3. OrderInv'
  <2>1. \A i, j \in DOMAIN queue' :
          /\ i <= j => queue'[i].depth <= queue'[j].depth
          /\ queue'[j].depth <= queue'[i].depth + 1
    BY DEF BreadthInv, OrderInv
  <2>2. \A w \in Busy', i \in DOMAIN queue' :
          item'[w].depth <= queue'[i].depth /\ queue'[i].depth <= item'[w].depth + 1
    BY DEF BreadthInv, OrderInv
  <2>3. \A p \in Pages : Recorded(p)' =>
          /\ \A i \in DOMAIN queue' : results'[p].depth <= queue'[i].depth
          /\ \A w \in Busy' : results'[p].depth <= item'[w].depth
    BY <1>2 DEF BreadthInv, OrderInv
  <2> QED
    BY <2>1, <2>2, <2>3 DEF OrderInv
<1>4. StartInv'
  BY <1>1, <1>2 DEF BreadthInv, StartInv
<1>5. NearInv'
  BY <1>1 DEF BreadthInv, NearInv
<1> QED
  BY <1>3, <1>4, <1>5 DEF BreadthInv

\* The steps that BreadthStays is about.
Ordered ==
  /\ queue' = queue /\ results' = results
  /\ \A w \in Busy' : w \in Busy /\ item'[w] = item[w]
  /\ \A w \in (Early \cup Late)' : w \in Early \cup Late /\ item'[w] = item[w]
  /\ seedIdx' = 1 => seedIdx = 1

LEMMA OrderedOrNot ==
  ASSUME CountInv, [Next]_vars
  PROVE  Ordered \/ SeedSend \/ \E w \in Workers : Receive(w) \/ Record(w) \/ SendChild(w)
<1>0. TypeOK
  BY DEF CountInv
<1>1. CASE MainStep \/ Cancel \/ UNCHANGED vars
  <2>1. SeedSend \/ (UNCHANGED <<queue, results, workerVars>> /\ (seedIdx' = 1 => seedIdx = 1))
    <3>1. seedIdx \in Nat \ {0}
      BY <1>0 DEF TypeOK
    <3> QED
      BY <1>1, <3>1
      DEF MainStep, SeedKnown, SeedMark, Wait, CloseQueue, Return, Cancel, vars, mainVars
  <2> QED
    BY <2>1 DEF Ordered, workerVars, Busy, Early, Late
<1>2. ASSUME NEW w \in Workers, WorkerStep(w), ~(Receive(w) \/ Record(w) \/ SendChild(w))
      PROVE  Ordered
  <2>1. UNCHANGED <<queue, results, seedIdx>>
    BY <1>2
    DEF WorkerStep, Exit, Admit, Skip, Acquire, Handle, Release, LockChildren, KnownChild,
        DropChild, UnlockChildren, Finish, mainVars
  <2>2. ASSUME NEW v \in Workers, v # w
        PROVE  pc'[v] = pc[v] /\ item'[v] = item[v]
    BY <1>0, <1>2, <2>2
    DEF WorkerStep, Exit, Admit, Skip, Acquire, Handle, Release, LockChildren, KnownChild,
        DropChild, UnlockChildren, Finish, Goto, TypeOK
  <2>3. CASE Exit(w) \/ Skip(w) \/ Finish(w)
    <3>1. pc'[w] \in {"recv", "exited"}
      BY <1>0, <2>3 DEF Exit, Skip, Finish, Goto, TypeOK
    <3> QED
      BY <2>1, <2>2, <3>1 DEF Ordered, Busy, Early, Late
  <2>4. CASE Admit(w) \/ Acquire(w) \/ Handle(w)
    <3>1. pc[w] \in {"got", "acquire", "handle"} /\ item' = item
      BY <2>4 DEF Admit, Acquire, Handle, Goto
    <3> QED
      BY <2>1, <2>2, <3>1 DEF Ordered, Busy, Early, Late
  <2>5. CASE Release(w) \/ LockChildren(w) \/ KnownChild(w) \/ DropChild(w) \/ UnlockChildren(w)
    <3>1. /\ pc[w] \in {"release", "lock", "enqueue"} /\ item' = item
          /\ pc'[w] \in {"release", "lock", "enqueue", "finish"}
      BY <1>0, <2>5 DEF Release, LockChildren, KnownChild, DropChild, UnlockChildren, Goto, TypeOK
    <3> QED
      BY <2>1, <2>2, <3>1 DEF Ordered, Busy, Early, Late
  <2> QED
    BY <1>2, <2>3, <2>4, <2>5 DEF WorkerStep
<1> QED
  BY <1>1, <1>2 DEF Next, Terminated

LEMMA OrderedBreadth ==
  ASSUME BreadthInv, Ordered
  PROVE  BreadthInv'
<1>1. \A i, k \in DOMAIN queue' : i <= k =>
        \E j, l \in DOMAIN queue : j <= l /\ queue'[i] = queue[j] /\ queue'[k] = queue[l]
  BY DEF Ordered
<1> QED
  BY <1>1, BreadthStays DEF Ordered

\* The worker takes the first item: nothing else is in hand.
LEMMA ReceiveBreadth ==
  ASSUME CountInv, BreadthInv, NEW w, Workers = {w}, Receive(w)
  PROVE  BreadthInv'
<1>1. /\ Busy = {} /\ Early = {} /\ Late = {} /\ TypeOK /\ queue # <<>> /\ queue \in Seq(Items)
      /\ item' = [item EXCEPT ![w] = Head(queue)] /\ queue' = Tail(queue) /\ results' = results
      /\ seedIdx' = seedIdx
  BY DEF Receive, Goto, Busy, Early, Late, CountInv, TypeOK, mainVars
<1>2. \A v : v \in Busy' \/ v \in (Early \cup Late)' => v = w
  BY DEF Busy, Early, Late
<1>3. item'[w] = queue[1] /\ 1 \in DOMAIN queue
  BY <1>1, HeadTailProperties, LenProperties, EmptySeq DEF TypeOK
<1>4. \A i \in DOMAIN queue' : /\ i \in Nat /\ i + 1 \in DOMAIN queue
                              /\ queue'[i] = queue[i + 1]
  BY <1>1, TailEntries
<1>5. \A p, d : Assigned(p, d)' => Assigned(p, d)
  <2> SUFFICES ASSUME NEW p, NEW d, Assigned(p, d)'
               PROVE  Assigned(p, d)
    OBVIOUS
  <2>1. CASE \E i \in DOMAIN queue' : queue'[i].page = p /\ queue'[i].depth = d
    BY <1>4, <2>1 DEF Assigned
  <2>2. CASE \E v \in (Early \cup Late)' : item'[v].page = p /\ item'[v].depth = d
    BY <1>2, <1>3, <2>2 DEF Assigned
  <2>3. CASE p \in Pages /\ Recorded(p)' /\ results'[p].depth = d
    BY <1>1, <2>3 DEF Assigned, Recorded
  <2> QED
    BY <2>1, <2>2, <2>3 DEF Assigned
<1>6. \A p : Recorded(p)' <=> Recorded(p)
  BY <1>1 DEF Recorded
<1>7. seedIdx # 1
  BY <1>1 DEF BreadthInv, StartInv
<1>8. OrderInv'
  <2>1. \A i, j \in DOMAIN queue' :
          /\ i <= j => queue'[i].depth <= queue'[j].depth
          /\ queue'[j].depth <= queue'[i].depth + 1
    BY <1>4 DEF BreadthInv, OrderInv
  <2>2. \A i \in DOMAIN queue' :
          item'[w].depth <= queue'[i].depth /\ queue'[i].depth <= item'[w].depth + 1
    BY <1>3, <1>4 DEF BreadthInv, OrderInv
  <2>3. \A p \in Pages : Recorded(p)' =>
          /\ \A i \in DOMAIN queue' : results'[p].depth <= queue'[i].depth
          /\ results'[p].depth <= item'[w].depth
    BY <1>1, <1>3, <1>4, <1>6 DEF BreadthInv, OrderInv
  <2> QED
    BY <1>2, <2>1, <2>2, <2>3 DEF OrderInv
<1> QED
  BY <1>1, <1>5, <1>7, <1>8 DEF BreadthInv, StartInv, NearInv

\* The recorded page is the one in hand, whose depth nothing exceeds by more than one.
LEMMA RecordBreadth ==
  ASSUME CountInv, AnswerInv, BreadthInv, NEW w, Workers = {w}, Record(w)
  PROVE  BreadthInv'
<1>0. CASE reply[w].kind = "nil"
  <2>1. /\ results' = results /\ queue' = queue /\ item' = item /\ seedIdx' = seedIdx
        /\ w \in Busy /\ w \in Late
    BY <1>0 DEF Record, Goto, mainVars, Busy, Late
  <2>2. Ordered
    BY <2>1 DEF Ordered, Busy, Early, Late
  <2> QED
    BY <2>2, OrderedBreadth
<1>1. CASE reply[w].kind # "nil"
  <2>1. PICK q \in Pages : q = item[w].page
    BY RecordMoves
  <2>2. PICK d : d = item[w].depth
    OBVIOUS
  <2>3. /\ \A p \in Pages \ {q} : results'[p] = results[p]
        /\ results'[q] = [kind |-> reply[w].kind, links |-> reply[w].links, depth |-> d]
        /\ queue' = queue /\ item' = item /\ seedIdx' = seedIdx
        /\ w \in Busy /\ w \in Late
    BY <1>1, <2>1, <2>2, RecordMoves DEF Record, Goto, mainVars, Busy
  <2>4. d \in Nat /\ \A i \in DOMAIN queue : queue[i].depth \in Nat
    BY <2>2, <2>3, DepthTypes DEF CountInv
  <2>5. Busy \subseteq {w} /\ Busy' \subseteq {w} /\ (Early \cup Late)' \subseteq {w}
    BY DEF Busy, Early, Late
  <2>6. \A p, e : Assigned(p, e)' => Assigned(p, e)
    <3> SUFFICES ASSUME NEW p, NEW e, Assigned(p, e)'
                 PROVE  Assigned(p, e)
      OBVIOUS
    <3>1. CASE \E i \in DOMAIN queue' : queue'[i].page = p /\ queue'[i].depth = e
      BY <2>3, <3>1 DEF Assigned
    <3>2. CASE \E v \in (Early \cup Late)' : item'[v].page = p /\ item'[v].depth = e
      BY <2>3, <2>5, <3>2 DEF Assigned
    <3>3. CASE p \in Pages /\ Recorded(p)' /\ results'[p].depth = e
      <4>1. CASE p = q
        <5>1. e = d
          BY <2>3, <3>3, <4>1
        <5> QED
          BY <2>1, <2>2, <2>3, <4>1, <5>1 DEF Assigned
      <4>2. CASE p # q
        <5>1. results'[p] = results[p]
          BY <2>3, <3>3, <4>2
        <5>2. Recorded(p)
          BY <3>3, <5>1 DEF Recorded
        <5>3. results[p].depth = e
          BY <3>3, <5>1
        <5> QED
          BY <3>3, <5>2, <5>3 DEF Assigned
      <4> QED
        BY <4>1, <4>2
    <3> QED
      BY <3>1, <3>2, <3>3 DEF Assigned
  <2>7. \A p \in Pages : Recorded(p) => results[p].depth <= d
    BY <2>2, <2>3 DEF BreadthInv, OrderInv
  <2>8. \A p \in Pages : Recorded(p)' => p = q \/ (Recorded(p) /\ results'[p] = results[p])
    BY <2>3 DEF Recorded
  <2>9. OrderInv'
    <3>1. \A i, j \in DOMAIN queue' :
            /\ i <= j => queue'[i].depth <= queue'[j].depth
            /\ queue'[j].depth <= queue'[i].depth + 1
      BY <2>3 DEF BreadthInv, OrderInv
    <3>2. \A v \in Busy', i \in DOMAIN queue' :
            item'[v].depth <= queue'[i].depth /\ queue'[i].depth <= item'[v].depth + 1
      BY <2>3, <2>5 DEF BreadthInv, OrderInv
    <3>3. \A p \in Pages : Recorded(p)' =>
            /\ \A i \in DOMAIN queue' : results'[p].depth <= queue'[i].depth
            /\ \A v \in Busy' : results'[p].depth <= item'[v].depth
      BY <2>2, <2>3, <2>4, <2>5, <2>8 DEF BreadthInv, OrderInv
    <3> QED
      BY <3>1, <3>2, <3>3 DEF OrderInv
  <2>10. StartInv'
    BY <2>3, <2>6 DEF BreadthInv, StartInv
  <2>11. \A p, e : p \in Pages /\ Assigned(p, e) => e <= d + 1
    <3> SUFFICES ASSUME NEW p \in Pages, NEW e, Assigned(p, e)
                 PROVE  e <= d + 1
      OBVIOUS
    <3>1. CASE \E i \in DOMAIN queue : queue[i].page = p /\ queue[i].depth = e
      BY <2>2, <2>3, <3>1 DEF BreadthInv, OrderInv
    <3>2. CASE \E v \in Early \cup Late : item[v].page = p /\ item[v].depth = e
      <4>1. e = d
        BY <2>2, <3>2 DEF Early, Late
      <4> QED
        BY <2>4, <4>1
    <3>3. CASE Recorded(p) /\ results[p].depth = e
      <4>1. e \in Nat
        BY <3>3, DepthTypes DEF CountInv
      <4> QED
        BY <2>4, <2>7, <3>3, <4>1
    <3> QED
      BY <3>1, <3>2, <3>3 DEF Assigned
  <2>12. NearInv'
    <3> SUFFICES ASSUME NEW p \in Pages, results'[p].kind = "ok", results'[p].depth < MaxDepth,
                        NEW x \in Linked(results'[p].links), NEW e \in Nat, Assigned(x, e)'
                 PROVE  e <= results'[p].depth + 1
      BY DEF NearInv
    <3>1. Assigned(x, e)
      BY <2>6
    <3>2. CASE p = q
      <4>1. x \in Pages
        <5>1. reply[w].links \in Seq(Pages) /\ x \in Linked(reply[w].links)
          BY <2>3, <3>2 DEF CountInv, HandsInv, Late, Replies
        <5> QED
          BY <5>1, LenProperties, ElementOfSeq DEF Linked
      <4> QED
        BY <2>3, <2>11, <3>1, <3>2, <4>1
    <3>3. CASE p # q
      BY <2>3, <3>1, <3>3 DEF BreadthInv, NearInv
    <3> QED
      BY <3>2, <3>3
  <2> QED
    BY <2>9, <2>10, <2>12 DEF BreadthInv
<1> QED
  BY <1>0, <1>1

\* What the end of the queue gets has a depth one more than what is in hand, or is the seed.
LEMMA AppendBreadth ==
  ASSUME CountInv, BreadthInv, NEW x \in Items, queue' = Append(queue, x),
         UNCHANGED <<pc, item, results>>, seedIdx' # 1,
         \A i \in DOMAIN queue : queue[i].depth <= x.depth /\ x.depth <= queue[i].depth + 1,
         \A w \in Busy : item[w].depth <= x.depth /\ x.depth <= item[w].depth + 1,
         \A p \in Pages : Recorded(p) => results[p].depth <= x.depth,
         x.page \in SeedPages => x.depth = 0,
         \A q \in Pages :
           results[q].kind = "ok" /\ results[q].depth < MaxDepth
             /\ x.page \in Linked(results[q].links) => x.depth <= results[q].depth + 1
  PROVE  BreadthInv'
<1>0. TypeOK /\ x.depth \in Nat
  BY DEF CountInv, Items
<1>1. /\ DOMAIN queue' = 1..(Len(queue) + 1) /\ queue'[Len(queue) + 1] = x
      /\ DOMAIN queue = 1..Len(queue) /\ Len(queue) \in Nat
      /\ \A i \in DOMAIN queue : queue'[i] = queue[i]
  <2>1. queue \in Seq(Items)
    BY <1>0 DEF TypeOK
  <2> QED
    BY <2>1, AppendProperties, LenProperties
<1>2. \A i \in DOMAIN queue' : i = Len(queue) + 1 \/ (i \in DOMAIN queue /\ i < Len(queue) + 1)
  BY <1>1
<1>3. \A p, d : Assigned(p, d)' => Assigned(p, d) \/ (p = x.page /\ d = x.depth)
  <2> SUFFICES ASSUME NEW p, NEW d, Assigned(p, d)'
               PROVE  Assigned(p, d) \/ (p = x.page /\ d = x.depth)
    OBVIOUS
  <2>1. CASE \E i \in DOMAIN queue' : queue'[i].page = p /\ queue'[i].depth = d
    BY <1>1, <1>2, <2>1 DEF Assigned
  <2>2. CASE \E v \in (Early \cup Late)' : item'[v].page = p /\ item'[v].depth = d
    BY <2>2 DEF Assigned, Early, Late
  <2>3. CASE p \in Pages /\ Recorded(p)' /\ results'[p].depth = d
    BY <2>3 DEF Assigned, Recorded
  <2> QED
    BY <2>1, <2>2, <2>3 DEF Assigned
<1>4. OrderInv'
  <2>1. ASSUME NEW i \in DOMAIN queue', NEW j \in DOMAIN queue'
        PROVE  /\ i <= j => queue'[i].depth <= queue'[j].depth
               /\ queue'[j].depth <= queue'[i].depth + 1
    <3>1. CASE i \in DOMAIN queue /\ j \in DOMAIN queue
      BY <1>1, <3>1 DEF BreadthInv, OrderInv
    <3>2. CASE i = Len(queue) + 1 /\ j = Len(queue) + 1
      BY <1>0, <1>1, <3>2
    <3>3. CASE i \in DOMAIN queue /\ j = Len(queue) + 1
      BY <1>1, <3>3
    <3>4. CASE i = Len(queue) + 1 /\ j \in DOMAIN queue
      <4>1. ~(i <= j)
        BY <1>1, <3>4
      <4>2. queue[j].depth <= x.depth /\ queue[j].depth \in Nat
        BY <3>4, DepthTypes DEF CountInv
      <4>3. queue[j].depth <= x.depth + 1
        BY <1>0, <4>2
      <4> QED
        BY <1>1, <3>4, <4>1, <4>3
    <3> QED
      BY <1>2, <3>1, <3>2, <3>3, <3>4
  <2>2. \A w \in Busy', i \in DOMAIN queue' :
          item'[w].depth <= queue'[i].depth /\ queue'[i].depth <= item'[w].depth + 1
    BY <1>1, <1>2 DEF BreadthInv, OrderInv, Busy
  <2>3. \A p \in Pages : Recorded(p)' =>
          /\ \A i \in DOMAIN queue' : results'[p].depth <= queue'[i].depth
          /\ \A w \in Busy' : results'[p].depth <= item'[w].depth
    BY <1>1, <1>2 DEF BreadthInv, OrderInv, Busy, Recorded
  <2> QED
    BY <2>1, <2>2, <2>3 DEF OrderInv
<1>5. StartInv'
  BY <1>3 DEF BreadthInv, StartInv
<1>6. NearInv'
  BY <1>3 DEF BreadthInv, NearInv
<1> QED
  BY <1>4, <1>5, <1>6 DEF BreadthInv

\* The first and only seed.
LEMMA OneSeed ==
  ASSUME Serial, TypeOK
  PROVE  SeedPages = {Seeds[1]} /\ DOMAIN Seeds = {1} /\ seedIdx \in {1, 2}
<1>1. DOMAIN Seeds = 1..1
  BY CrawlAssumption, LenProperties DEF Serial
<1>2. DOMAIN Seeds = {1}
  BY <1>1
<1>3. seedIdx \in {1, 2}
  BY DEF Serial, TypeOK
<1> QED
  BY <1>2, <1>3 DEF SeedPages

\* The seed comes first, with depth 0.
LEMMA SeedSendBreadth ==
  ASSUME Serial, CountInv, BreadthInv, SeedSend
  PROVE  BreadthInv'
<1>1. seedIdx = 1 /\ seedIdx' = 2
  BY OneSeed DEF SeedSend, CountInv, LockInv
<1>2. queue = <<>> /\ Busy = {} /\ \A p \in Pages : ~Recorded(p)
  BY <1>1 DEF BreadthInv, StartInv
<1>3. PICK x : x = [page |-> Seeds[seedIdx], depth |-> 0]
  OBVIOUS
<1>4. x \in Items /\ x.depth = 0
  BY <1>3, SeedTypes DEF SeedSend, CountInv, LockInv, Items
<1>5. queue' = Append(queue, x) /\ UNCHANGED <<pc, item, results>>
  BY <1>3 DEF SeedSend, Send, workerVars
<1>6. DOMAIN queue = {}
  BY <1>2, EmptySeq, LenProperties
<1>7. \A q \in Pages : results[q].kind # "ok"
  BY <1>2 DEF Recorded, CountInv, TypeOK, Results, NoResult
<1> QED
  BY <1>1, <1>2, <1>4, <1>5, <1>6, <1>7, AppendBreadth

\* A new child lies one deeper than the page in hand, and every page with a link to it
\* but the one in hand has had its links visited.
LEMMA SendChildBreadth ==
  ASSUME Serial, CountInv, FateInv, AnswersInv, BreadthInv, NEW w \in Workers, SendChild(w)
  PROVE  BreadthInv'
<1>1. Workers = {w}
  BY DEF Serial
<1>2. /\ w \in Busy /\ pc[w] = "enqueue" /\ kids[w] # <<>>
      /\ UNCHANGED <<pc, item, results, seedIdx>>
      /\ Head(kids[w]) \notin visited
  BY DEF SendChild, Busy, mainVars, Fresh
<1>3. PICK x : x = [page |-> Head(kids[w]), depth |-> item[w].depth + 1]
  OBVIOUS
<1>4. Head(kids[w]) \in Pages /\ item[w].depth \in Nat
  BY <1>2, SendChildWaiting, ItemTypes DEF CountInv
<1>5. x.page = Head(kids[w]) /\ x.depth = item[w].depth + 1 /\ x \in Items
  BY <1>3, <1>4 DEF Items
<1>6. queue' = Append(queue, x)
  BY <1>3 DEF SendChild, Send
<1>7. seedIdx # 1
  BY <1>2 DEF BreadthInv, StartInv
<1>8. x.page \notin SeedPages
  <2>1. 1 < seedIdx /\ 1 \in DOMAIN Seeds
    BY <1>7, OneSeed DEF CountInv
  <2>2. Seeds[1] \in visited
    BY <2>1 DEF FateInv, SeedsInv
  <2> QED
    BY <1>2, <1>5, <2>2, OneSeed DEF CountInv
<1>9. \A i \in DOMAIN queue : queue[i].depth <= x.depth /\ x.depth <= queue[i].depth + 1
  <2>1. ASSUME NEW i \in DOMAIN queue
        PROVE  queue[i].depth <= x.depth /\ x.depth <= queue[i].depth + 1
    <3>1. item[w].depth <= queue[i].depth /\ queue[i].depth <= item[w].depth + 1
      BY <1>2 DEF BreadthInv, OrderInv
    <3>2. queue[i].depth \in Nat
      BY DepthTypes DEF CountInv
    <3> QED
      BY <1>4, <1>5, <3>1, <3>2
  <2> QED
    BY <2>1
<1>10. \A v \in Busy : item[v].depth <= x.depth /\ x.depth <= item[v].depth + 1
  <2>1. \A v \in Busy : v = w
    BY <1>1 DEF Busy
  <2> QED
    BY <1>4, <1>5, <2>1
<1>11. ASSUME NEW p \in Pages, Recorded(p)
       PROVE  results[p].depth <= x.depth
  <2>1. results[p].depth <= item[w].depth
    BY <1>2, <1>11 DEF BreadthInv, OrderInv
  <2>2. results[p].depth \in Nat
    BY <1>11, DepthTypes DEF CountInv
  <2> QED
    BY <1>4, <1>5, <2>1, <2>2
<1>12. ASSUME NEW q \in Pages, results[q].kind = "ok", results[q].depth < MaxDepth,
              x.page \in Linked(results[q].links)
       PROVE  x.depth <= results[q].depth + 1
  <2>1. \E v \in Workers : Expanding(v, q)
    BY <1>2, <1>5, <1>12 DEF FateInv, LinksInv
  <2>2. Expanding(w, q)
    BY <1>1, <2>1
  <2>3. item[w].page = q
    BY <2>2 DEF Expanding
  <2>4. results[q].depth = item[w].depth
    BY <1>2, <2>3 DEF AnswersInv, SourceInv, Source
  <2> QED
    BY <1>4, <1>5, <2>4
<1> QED
  BY <1>2, <1>5, <1>6, <1>7, <1>8, <1>9, <1>10, <1>11, <1>12, AppendBreadth

LEMMA BreadthStep ==
  ASSUME Serial, CountInv, FateInv, AnswersInv, BreadthInv, [Next]_vars
  PROVE  BreadthInv'
<1>1. ASSUME NEW w \in Workers, Receive(w) \/ Record(w) \/ SendChild(w)
      PROVE  BreadthInv'
  <2>1. Workers = {w}
    BY DEF Serial
  <2> QED
    BY <1>1, <2>1, ReceiveBreadth, RecordBreadth, SendChildBreadth DEF AnswersInv
<1> QED
  BY <1>1, OrderedOrNot, OrderedBreadth, SeedSendBreadth

LEMMA BreadthInit == Init => BreadthInv
<1> SUFFICES ASSUME Init PROVE BreadthInv
  OBVIOUS
<1>1. queue = <<>> /\ DOMAIN queue = {} /\ Busy = {} /\ Early = {} /\ Late = {}
  BY EmptySeq, LenProperties DEF Init, Busy, Early, Late
<1>2. \A p \in Pages : ~Recorded(p) /\ results[p].kind # "ok"
  BY DEF Init, Recorded, NoResult
<1>3. \A p, d : ~Assigned(p, d)
  BY <1>1, <1>2 DEF Assigned
<1> QED
  BY <1>1, <1>2, <1>3 DEF BreadthInv, OrderInv, StartInv, NearInv

LEMMA BreadthInvariant ==
  ASSUME Serial
  PROVE  Spec => [](CountInv /\ FateInv /\ BreadthInv)
<1>1. CountInv /\ FateInv /\ AnswersInv /\ BreadthInv /\ [Next]_vars => BreadthInv'
  BY BreadthStep
<1> QED
  BY <1>1, BreadthInit, AnswersInvariant, PTL DEF Spec

-----------------------------------------------------------------------------
(* What lies within reach. *)

More(S) == UNION {Linked(results[q].links) : q \in {r \in S : results[r].kind = "ok"}}

LEMMA LevelIs ==
  ASSUME TypeOK
  PROVE  /\ Level[0] = SeedPages
         /\ \A n \in Nat \ {0} : Level[n] = Level[n - 1] \cup More(Level[n - 1])
<1>1. \A S \in SUBSET Pages : More(S) \in SUBSET Pages
  <2>1. ASSUME NEW q \in Pages, results[q].kind = "ok"
        PROVE  Linked(results[q].links) \subseteq Pages
    <3>1. results[q] \in Results
      <4>1. results[q] \in Results \cup {NoResult} /\ NoResult.kind = "no result"
        BY DEF TypeOK, NoResult
      <4> QED
        BY <2>1, <4>1
    <3>2. results[q].links \in Seq(Pages)
      BY <3>1 DEF Results
    <3> QED
      BY <3>2, LenProperties, ElementOfSeq DEF Linked
  <2> QED
    BY <2>1 DEF More
<1>2. SeedPages \in SUBSET Pages
  BY CrawlAssumption, LenProperties, ElementOfSeq DEF SeedPages
<1>3. PICK step : step = [S \in SUBSET Pages |-> S \cup More(S)]
  OBVIOUS
<1>4. step \in [SUBSET Pages -> SUBSET Pages]
  BY <1>1, <1>3
<1>5. PICK f \in [Nat -> SUBSET Pages] :
        f[0] = SeedPages /\ \A n \in Nat \ {0} : f[n] = step[f[n - 1]]
  <2>1. PICK X : X = SUBSET Pages
    OBVIOUS
  <2>2. step \in [X -> X] /\ SeedPages \in X
    BY <1>2, <1>4, <2>1
  <2>3. \E f \in [Nat -> X] :
          f[0] = SeedPages /\ \A n \in Nat \ {0} : f[n] = step[f[n - 1]]
    BY <2>2, Iterated
  <2> QED
    BY <2>1, <2>3
<1>6. \A n \in Nat \ {0} : f[n] = f[n - 1] \cup More(f[n - 1])
  <2>1. \A n \in Nat \ {0} : n - 1 \in Nat /\ f[n - 1] \in SUBSET Pages
    BY <1>5
  <2> QED
    BY <1>3, <1>5, <2>1
<1> DEFINE Body(g) == [n \in Nat |-> IF n = 0 THEN SeedPages ELSE g[n - 1] \cup More(g[n - 1])]
<1>7. f = Body(f)
  BY <1>5, <1>6
<1>8. Level = CHOOSE g : g = Body(g)
  BY DEF Level, More
<1>9. Level = Body(Level)
  <2> HIDE DEF Body
  <2> QED
    BY <1>7, <1>8
<1> QED
  BY <1>9

\* With success, a page within n links of the seed is visited and not recorded deeper.
LEMMA LevelReached ==
  ASSUME Serial, CountInv, FateInv, BreadthInv, SuccessIsClosed, ret = "ok",
         NEW n \in Nat, n <= MaxDepth
  PROVE  \A p \in Level[n] :
           p \in visited /\ (Recorded(p) => results[p].depth <= n)
<1>0. TypeOK /\ visited \subseteq Pages
  BY DEF CountInv, TypeOK
<1> DEFINE Fine(p, m) == p \in visited /\ (Recorded(p) => results[p].depth <= m)
           S == {m \in Nat : m <= MaxDepth /\ ~ \A p \in Level[m] : Fine(p, m)}
<1> SUFFICES ASSUME S # {} PROVE FALSE
  OBVIOUS
<1>1. PICK m \in S : \A k \in S : m <= k
  <2>1. S \subseteq Nat
    OBVIOUS
  <2> QED
    BY <2>1, Smallest
<1>2. PICK p \in Level[m] : ~Fine(p, m)
  BY <1>1
<1>3. \A x \in Pages : Recorded(x) => results[x].depth \in Nat /\ Assigned(x, results[x].depth)
  BY <1>0, DepthTypes DEF Assigned, CountInv
<1>4. m # 0
  <2>1. \A x \in SeedPages : x \in visited
    BY DEF SuccessIsClosed
  <2>2. \A x \in SeedPages : Recorded(x) => results[x].depth <= 0
    BY <1>0, <1>3, <2>1 DEF BreadthInv, StartInv
  <2> QED
    BY <1>0, <1>2, <2>1, <2>2, LevelIs
<1>5. m - 1 \in Nat /\ m \in Nat /\ m - 1 < MaxDepth /\ m - 1 <= MaxDepth /\ m - 1 \notin S
  BY <1>1, <1>4, CrawlAssumption
<1>6. \A x \in Level[m - 1] : Fine(x, m - 1)
  BY <1>5
<1>7. CASE p \in Level[m - 1]
  BY <1>0, <1>2, <1>3, <1>5, <1>6, <1>7
<1>8. CASE p \in More(Level[m - 1])
  <2>1. PICK q \in Level[m - 1] : results[q].kind = "ok" /\ p \in Linked(results[q].links)
    BY <1>8 DEF More
  <2>2. q \in Pages /\ Recorded(q) /\ results[q].depth <= m - 1 /\ results[q].depth \in Nat
    BY <1>0, <1>3, <1>6, <2>1 DEF Recorded
  <2>3. results[q].depth < MaxDepth
    BY <1>5, <2>2, CrawlAssumption
  <2>4. p \in visited
    BY <2>1, <2>2, <2>3 DEF SuccessIsClosed
  <2>5. Recorded(p) => results[p].depth <= results[q].depth + 1
    BY <1>0, <1>3, <2>1, <2>2, <2>3, <2>4 DEF BreadthInv, NearInv
  <2> QED
    BY <1>0, <1>2, <1>3, <1>5, <2>2, <2>4, <2>5
<1> QED
  BY <1>0, <1>2, <1>5, <1>7, <1>8, LevelIs

\* With one worker and one seed, a success has crawled everything within reach.
THEOREM CoverageCorrect ==
  ASSUME Serial
  PROVE  Spec => []SuccessCoversReachable
<1>1. CountInv /\ FateInv /\ BreadthInv /\ SuccessIsClosed => SuccessCoversReachable
  BY LevelReached, CrawlAssumption DEF SuccessCoversReachable, SuccessIsClosed
<1> QED
  BY <1>1, BreadthInvariant, SuccessCorrect, PTL

\* With one worker and one seed, recorded depths are distances.
THEOREM MinimalCorrect ==
  ASSUME Serial
  PROVE  Spec => []MinimalDepth
<1>1. CountInv /\ FateInv /\ BreadthInv /\ SuccessIsClosed => MinimalDepth
  <2>1. \A n \in 0..MaxDepth : n \in Nat /\ n <= MaxDepth
    BY CrawlAssumption
  <2> QED
    BY <2>1, LevelReached DEF MinimalDepth
<1> QED
  BY <1>1, BreadthInvariant, SuccessCorrect, PTL
=============================================================================
