----------------------------- MODULE ClientProofs ----------------------------
(***************************************************************************)
(* What Client promises, for any sites, comments and times, whatever is    *)
(* answered and whatever happens in the wiki.                              *)
(***************************************************************************)
EXTENDS Client, AuthProofs, SequenceTheorems, FiniteSetTheorems, Iteration, TLAPS

(* The fetch of the comments. *)

TypeInv ==
  /\ under \in [Comment -> 0..N] /\ \A c \in Comment : under[c] < c
  /\ page \in BOOLEAN /\ posted \in 0..N
  /\ alive \in SUBSET Comment /\ lasting \in SUBSET alive
  /\ ~page => lasting = {}
  /\ at \in 0..N /\ cursor \in 0..N
  /\ batch \in Seq(Comment) /\ queue \in Seq(Comment) /\ comments \in Seq(Comment)
  /\ visited \in SUBSET Comment
  /\ status \in {"listing", "choosing", "done", "failed"}

\* What the listing of at has passed is kept, unless it was posted meanwhile.
BatchInv ==
  status = "listing" =>
    \A c \in lasting : under[c] = at /\ c <= cursor => c \in Range(batch)

\* The listing of p has ended.
Listed(p) ==
  IF p = Root THEN at # Root \/ status # "listing"
  ELSE p \in visited /\ ~(status = "listing" /\ at = p)

\* What replies to something listed was found, if both have lasted.
ListedInv ==
  status # "failed" =>
    \A c \in lasting : under[c] \in lasting \cup {Root} /\ Listed(under[c])
                         => c \in Range(comments)

\* What was found will be listed, and the fetch ends only after that.
QueueInv ==
  /\ status # "failed" => Range(comments) \subseteq visited \cup Range(queue)
  /\ status = "done" => queue = <<>>

FetchInv == TypeInv /\ BatchInv /\ ListedInv /\ QueueInv

-----------------------------------------------------------------------------
(* Lemmas on sequences. *)

LEMMA HeadAndTail ==
  ASSUME NEW S, NEW s \in Seq(S), s # <<>>
  PROVE  Head(s) \in S /\ Tail(s) \in Seq(S) /\ Range(s) \subseteq {Head(s)} \cup Range(Tail(s))
<1>1. Head(s) \in S /\ Tail(s) \in Seq(S) /\ Len(Tail(s)) = Len(s) - 1
  BY HeadTailProperties
<1>2. \A i \in 1..(Len(s) - 1) : Tail(s)[i] = s[i + 1]
  BY <1>1, HeadTailProperties
<1>3. Len(s) \in Nat /\ Head(s) = s[1]
  BY HeadTailProperties, LenProperties
<1>4. ASSUME NEW i \in 1..Len(s), i # 1
      PROVE  s[i] \in Range(Tail(s))
  <2>1. i - 1 \in 1..(Len(s) - 1) /\ s[i] = Tail(s)[i - 1]
    BY <1>2, <1>3, <1>4
  <2> QED
    BY <1>1, <2>1, RangeEquality
<1> QED
  BY <1>1, <1>3, <1>4, RangeEquality

\* What appending does to a sequence.
LEMMA Appended ==
  ASSUME NEW S, NEW s \in Seq(S), NEW x \in S
  PROVE  LET t == Append(s, x) IN
         /\ t \in Seq(S) /\ Len(s) \in Nat /\ DOMAIN s = 1..Len(s)
         /\ Len(t) = Len(s) + 1 /\ DOMAIN t = 1..(Len(s) + 1)
         /\ \A i \in 1..Len(s) : t[i] = s[i]
         /\ t[Len(s) + 1] = x
         /\ Range(t) = Range(s) \cup {x}
<1> DEFINE t == Append(s, x)
<1>1. /\ t \in Seq(S) /\ Len(s) \in Nat /\ DOMAIN s = 1..Len(s)
      /\ Len(t) = Len(s) + 1 /\ DOMAIN t = 1..(Len(s) + 1)
      /\ \A i \in 1..Len(s) : t[i] = s[i]
      /\ t[Len(s) + 1] = x
  BY AppendProperties, LenProperties
<1> HIDE DEF t
<1>2. Range(t) \subseteq Range(s) \cup {x}
  BY <1>1 DEF Range
<1>3. Range(s) \cup {x} \subseteq Range(t)
  BY <1>1 DEF Range
<1> QED
  BY <1>1, <1>2, <1>3 DEF t

\* A sequence without repetition has at most as many entries as one with all its values.
LEMMA NotLonger ==
  ASSUME NEW S, NEW s \in Seq(S), NEW t \in Seq(S), Range(s) \subseteq Range(t),
         \A i, j \in DOMAIN s : i < j => s[i] # s[j]
  PROVE  Len(s) <= Len(t)
<1> DEFINE n == Len(t)
<1> DEFINE m == Len(s)
<1>1. n \in Nat /\ m \in Nat /\ DOMAIN s = 1..m /\ DOMAIN t = 1..n
  BY LenProperties
<1> HIDE DEF n, m
<1>2. /\ IsFiniteSet(1..n) /\ Cardinality(1..n) = n
      /\ IsFiniteSet(1..m) /\ Cardinality(1..m) = m
  BY <1>1, FS_Interval
<1>3. t \in Surjection(1..n, Range(t))
  <2>1. t \in [1..n -> Range(t)]
    BY <1>1, ElementOfSeq DEF Range, n
  <2> QED
    BY <1>1, <2>1 DEF Range, Surjection
<1>4. s \in Surjection(1..m, Range(s)) /\ s \in Injection(1..m, Range(s))
  <2>1. s \in [1..m -> Range(s)]
    BY <1>1, ElementOfSeq DEF Range, m
  <2>2. \A i, j \in 1..m : s[i] = s[j] => i = j
    BY <1>1
  <2> QED
    BY <1>1, <2>1, <2>2 DEF Range, Surjection, Injection, IsInjective
<1>5. IsFiniteSet(Range(t)) /\ Cardinality(Range(t)) <= n
  BY <1>2, <1>3, FS_Surjection
<1>6. Cardinality(Range(s)) = m
  BY <1>2, <1>4, FS_Surjection
<1>7. Cardinality(Range(s)) <= Cardinality(Range(t)) /\ Cardinality(Range(t)) \in Nat
  <2>1. Range(s) \in SUBSET Range(t)
    OBVIOUS
  <2> QED
    BY <1>5, <2>1, FS_Subset, FS_CardinalityType
<1> QED
  BY <1>1, <1>5, <1>6, <1>7 DEF n, m

\* A sequence without repetition that is as long as another and has no other values
\* has the same values.
LEMMA AllOfThem ==
  ASSUME NEW S, NEW s \in Seq(S), NEW t \in Seq(S), Range(s) \subseteq Range(t),
         \A i, j \in DOMAIN s : i < j => s[i] # s[j], Len(s) = Len(t)
  PROVE  Range(t) \subseteq Range(s)
<1> DEFINE n == Len(t)
<1>1. n \in Nat /\ DOMAIN s = 1..n /\ DOMAIN t = 1..n
  BY LenProperties
<1> HIDE DEF n
<1>2. IsFiniteSet(1..n)
  BY <1>1, FS_Interval
<1>3. t \in Surjection(1..n, Range(t))
  <2>1. t \in [1..n -> Range(t)]
    BY <1>1, ElementOfSeq DEF Range, n
  <2> QED
    BY <1>1, <2>1 DEF Range, Surjection
<1>4. s \in Surjection(1..n, Range(s)) /\ s \in Injection(1..n, Range(s))
  <2>1. s \in [1..n -> Range(s)]
    BY <1>1, ElementOfSeq DEF Range, n
  <2>2. \A i, j \in 1..n : s[i] = s[j] => i = j
    BY <1>1
  <2> QED
    BY <1>1, <2>1, <2>2 DEF Range, Surjection, Injection, IsInjective
<1>5. IsFiniteSet(Range(t)) /\ Cardinality(Range(t)) <= Cardinality(1..n)
  BY <1>2, <1>3, FS_Surjection
<1>6. Cardinality(Range(s)) = Cardinality(1..n)
  BY <1>2, <1>4, FS_Surjection
<1>7. Range(s) \in SUBSET Range(t)
  OBVIOUS
<1>8. /\ Cardinality(Range(s)) <= Cardinality(Range(t))
      /\ Cardinality(Range(t)) = Cardinality(Range(s)) => Range(t) = Range(s)
  BY <1>5, <1>7, FS_Subset
<1>9. Cardinality(Range(t)) \in Nat /\ Cardinality(1..n) \in Nat
  BY <1>2, <1>5, FS_CardinalityType
<1> QED
  BY <1>5, <1>6, <1>8, <1>9

\* An answer: a sequence of what is left, up to its last entry.
LEMMA AnswerIs ==
  ASSUME TypeInv, NEW found \in Portions
  PROVE  /\ found \in Seq(Comment) /\ Range(found) \subseteq Remaining
         /\ Range(found) # Remaining =>
              /\ Last(found) \in Comment
              /\ \A d \in Remaining : d <= Last(found) => d \in Range(found)
<1>1. PICK n \in 0..Limit : found \in [1..n -> Remaining]
  BY DEF Portions, BoundedSeq, SeqOf
<1>2. n \in Nat /\ Remaining \subseteq Comment
  BY CommentsAssumption DEF Remaining, TypeInv
<1>3. found \in Seq(Remaining) /\ found \in Seq(Comment) /\ Len(found) = n
  BY <1>1, <1>2
<1>4. Range(found) \subseteq Remaining
  BY <1>3, RangeOfSeq
<1>5. ASSUME Range(found) # Remaining
      PROVE  /\ Last(found) \in Comment
             /\ \A d \in Remaining : d <= Last(found) => d \in Range(found)
  <2>1. found # <<>>
    BY <1>4, <1>5 DEF Portions
  <2>2. n # 0 /\ Last(found) = found[n]
    BY <1>2, <1>3, <2>1, EmptySeq DEF Last
  <2>3. Last(found) \in Range(found) /\ Last(found) \in Comment
    BY <1>1, <1>2, <2>2 DEF Range
  <2>4. \A d \in Remaining \ Range(found) : Last(found) < d
    BY <2>3 DEF Portions
  <2> QED
    BY <1>2, <2>3, <2>4 DEF Comment
<1> QED
  BY <1>3, <1>4, <1>5

LEMMA AnswerLast ==
  ASSUME TypeInv, NEW found \in Portions, Range(found) # Remaining
  PROVE  Last(found) \in Range(found)
<1>1. found # <<>> /\ found \in Seq(Comment)
  BY AnswerIs, EmptySeq DEF Portions, Range
<1>2. Len(found) \in 1..Len(found) /\ DOMAIN found = 1..Len(found)
  BY <1>1, EmptySeq, LenProperties
<1> QED
  BY <1>1, <1>2 DEF Last, Range

-----------------------------------------------------------------------------
(* Steps. *)

\* Nothing that has lasted is new.
LEMMA WikiStep ==
  ASSUME FetchInv, Post \/ DeletePage \/ \E c \in Comment : Delete(c)
  PROVE  FetchInv'
<1>1. UNCHANGED <<under, fetchVars>> /\ lasting' \subseteq lasting
  BY DEF Post, DeletePage, Delete
<1>2. TypeInv'
  <2>1. CASE Post
    <3>1. posted + 1 \in Comment /\ posted + 1 \in 0..N
      BY <2>1, CommentsAssumption DEF Post, Comment, FetchInv, TypeInv
    <3> QED
      BY <1>1, <2>1, <3>1 DEF Post, FetchInv, TypeInv, fetchVars
  <2>2. CASE DeletePage
    BY <1>1, <2>2 DEF DeletePage, FetchInv, TypeInv, fetchVars
  <2>3. CASE \E c \in Comment : Delete(c)
    BY <1>1, <2>3 DEF Delete, FetchInv, TypeInv, fetchVars
  <2> QED
    BY <2>1, <2>2, <2>3
<1>3. BatchInv' /\ ListedInv' /\ QueueInv'
  BY <1>1 DEF FetchInv, BatchInv, ListedInv, QueueInv, Listed, fetchVars
<1> QED
  BY <1>2, <1>3 DEF FetchInv

\* A listing ends, with everything under at that has lasted.
LEMMA ReturnStep ==
  ASSUME FetchInv, NEW found \in Seq(Comment), Return(found), UNCHANGED <<under, wikiVars>>,
         status = "listing",
         at \in lasting \cup {Root} =>
           \A c \in lasting : under[c] = at => c \in Range(found)
  PROVE  FetchInv'
<1> USE DEF FetchInv
<1>1. /\ comments' \in Seq(Comment) /\ Range(comments') = Range(comments) \cup Range(found)
      /\ queue' \in Seq(Comment) /\ Range(queue') = Range(queue) \cup Range(found)
  BY ConcatProperties, RangeConcatenation DEF Return, TypeInv
<1>2. TypeInv' /\ BatchInv' /\ QueueInv'
  BY <1>1 DEF Return, TypeInv, BatchInv, QueueInv, wikiVars
<1>3. ListedInv'
  <2> SUFFICES ASSUME NEW c \in lasting, under[c] \in lasting \cup {Root}, Listed(under[c])'
               PROVE  c \in Range(comments')
    BY DEF ListedInv, wikiVars
  <2>1. CASE under[c] = at
    BY <1>1, <2>1
  <2>2. CASE under[c] # at
    <3>1. Listed(under[c])
      BY <2>2 DEF Return, Listed, Root, wikiVars
    <3> QED
      BY <1>1, <3>1 DEF ListedInv
  <2> QED
    BY <2>1, <2>2
<1> QED
  BY <1>2, <1>3

LEMMA AnswerStep ==
  ASSUME FetchInv, Answer
  PROVE  FetchInv'
<1> USE DEF FetchInv
<1>1. PICK found \in Portions :
        IF Range(found) = Remaining THEN Return(batch \o found)
        ELSE /\ cursor' = Last(found) /\ batch' = batch \o found
             /\ UNCHANGED <<at, queue, visited, comments, status>>
  BY DEF Answer
<1>2. status = "listing" /\ UNCHANGED <<under, wikiVars>>
  BY DEF Answer
<1>3. found \in Seq(Comment)
  BY AnswerIs
<1>4. batch \o found \in Seq(Comment) /\ Range(batch \o found) = Range(batch) \cup Range(found)
  BY <1>3, ConcatProperties, RangeConcatenation DEF TypeInv
<1>5. \A c \in lasting : under[c] = at => c \in Range(batch) \/ c \in Remaining
  BY <1>2 DEF BatchInv, Remaining, TypeInv, Comment
<1>6. CASE Range(found) = Remaining
  BY <1>1, <1>2, <1>4, <1>5, <1>6, ReturnStep
<1>7. CASE Range(found) # Remaining
  <2>1. /\ cursor' = Last(found) /\ batch' = batch \o found
        /\ UNCHANGED <<at, queue, visited, comments, status>>
    BY <1>1, <1>7
  <2>2. Last(found) \in Comment /\ \A d \in Remaining : d <= Last(found) => d \in Range(found)
    BY <1>7, AnswerIs
  <2>3. TypeInv'
    BY <1>2, <1>4, <2>1, <2>2 DEF TypeInv, wikiVars, Comment
  <2>4. BatchInv'
    BY <1>2, <1>4, <1>5, <2>1, <2>2 DEF BatchInv, wikiVars
  <2>5. ListedInv' /\ QueueInv'
    BY <1>2, <2>1 DEF ListedInv, Listed, QueueInv, wikiVars
  <2> QED
    BY <2>3, <2>4, <2>5
<1> QED
  BY <1>6, <1>7

\* A 404 says that nothing under at has lasted, or at itself has not.
LEMMA NotFoundStep ==
  ASSUME FetchInv, NotFound
  PROVE  FetchInv'
<1>1. at \in lasting \cup {Root} => lasting = {}
  BY DEF NotFound, Exists, FetchInv, TypeInv, Root
<1> QED
  BY <1>1, ReturnStep DEF NotFound, FetchInv, TypeInv

LEMMA TakeStep ==
  ASSUME FetchInv, Take
  PROVE  FetchInv'
<1> USE DEF FetchInv, Chosen, Popped, Visited
<1>1. /\ status = "choosing" /\ queue # <<>> /\ queue' = Tail(queue)
      /\ UNCHANGED <<under, wikiVars, comments>>
  BY DEF Take
<1>2. /\ Head(queue) \in Comment /\ Tail(queue) \in Seq(Comment)
      /\ Range(queue) \subseteq {Head(queue)} \cup Range(Tail(queue))
  BY <1>1, HeadAndTail DEF TypeInv
<1>3. CASE Head(queue) \in visited
  <2>1. UNCHANGED <<at, cursor, batch, visited, status>>
    BY <1>3 DEF Take
  <2> QED
    BY <1>1, <1>2, <1>3, <2>1 DEF TypeInv, BatchInv, ListedInv, Listed, QueueInv, wikiVars
<1>4. CASE Head(queue) \notin visited
  <2>1. /\ at' = Head(queue) /\ cursor' = 0 /\ batch' = <<>>
        /\ visited' = visited \cup {Head(queue)} /\ status' = "listing"
    BY <1>4 DEF Take
  <2>2. TypeInv'
    <3>1. at' \in 0..N /\ cursor' \in 0..N
      BY <1>2, <2>1, CommentsAssumption DEF Comment
    <3>2. batch' \in Seq(Comment) /\ queue' \in Seq(Comment) /\ visited' \in SUBSET Comment
      BY <1>1, <1>2, <2>1, EmptySeq DEF TypeInv
    <3> QED
      BY <1>1, <2>1, <3>1, <3>2 DEF TypeInv, wikiVars
  <2>3. BatchInv'
    <3>1. \A c \in lasting : ~(c <= 0)
      BY DEF TypeInv, Comment
    <3> QED
      BY <1>1, <2>1, <3>1 DEF BatchInv, wikiVars
  <2>4. ListedInv'
    BY <1>1, <2>1 DEF ListedInv, Listed, wikiVars
  <2>5. QueueInv'
    BY <1>1, <1>2, <2>1 DEF QueueInv
  <2> QED
    BY <2>2, <2>3, <2>4, <2>5
<1> QED
  BY <1>3, <1>4

LEMMA EndStep ==
  ASSUME FetchInv, Fail \/ Finish
  PROVE  FetchInv'
<1> USE DEF FetchInv
<1>1. CASE Fail
  BY <1>1, EmptySeq DEF Fail, TypeInv, BatchInv, ListedInv, QueueInv, wikiVars
<1>2. CASE Finish
  BY <1>2 DEF Finish, TypeInv, BatchInv, ListedInv, Listed, QueueInv, wikiVars
<1> QED
  BY <1>1, <1>2

LEMMA FetchInit == CommentsInit => FetchInv
<1> SUFFICES ASSUME CommentsInit PROVE FetchInv
  OBVIOUS
<1>1. TypeInv
  <2>1. 1..posted \subseteq Comment
    BY CommentsAssumption DEF CommentsInit, Comment
  <2>2. at \in 0..N /\ cursor \in 0..N /\ <<>> \in Seq(Comment)
    BY EmptySeq, CommentsAssumption DEF CommentsInit, Root
  <2>3. alive \in SUBSET Comment
    BY <2>1 DEF CommentsInit
  <2> QED
    BY <2>2, <2>3 DEF CommentsInit, TypeInv
<1>2. BatchInv
  BY <1>1 DEF CommentsInit, BatchInv, TypeInv, Comment
<1>3. ListedInv
  BY DEF CommentsInit, ListedInv, Listed
<1>4. QueueInv
  BY EmptySeq DEF CommentsInit, QueueInv, Range
<1> QED
  BY <1>1, <1>2, <1>3, <1>4 DEF FetchInv

LEMMA FetchStep ==
  ASSUME FetchInv, [CommentsNext \/ Finish]_commentVars
  PROVE  FetchInv'
<1>1. CASE UNCHANGED commentVars
  BY <1>1 DEF commentVars, wikiVars, fetchVars, FetchInv, TypeInv, BatchInv, ListedInv, Listed,
         QueueInv
<1> QED
  BY <1>1, WikiStep, AnswerStep, NotFoundStep, TakeStep, EndStep DEF CommentsNext, Fetch

\* Of the missing comments the first would reply to something that was fetched, hence
\* listed.
LEMMA FetchInvGives ==
  ASSUME FetchInv
  PROVE  LastingFetched
<1> SUFFICES ASSUME status = "done", NEW kept \in SUBSET lasting,
                    \A c \in kept : under[c] \in kept \cup {Root},
                    kept \ Range(comments) # {}
             PROVE  FALSE
  BY DEF LastingFetched
<1>1. kept \subseteq Comment /\ kept \subseteq Nat
  BY DEF FetchInv, TypeInv, Comment
<1>2. PICK c \in kept \ Range(comments) : \A d \in kept \ Range(comments) : c <= d
  BY <1>1, Smallest
<1>3. under[c] \in kept \cup {Root} /\ under[c] < c /\ under[c] \in Nat /\ c \in Nat
  BY <1>1, <1>2 DEF FetchInv, TypeInv
<1>4. under[c] # Root => under[c] \in Range(comments)
  BY <1>2, <1>3
<1>5. Range(comments) \subseteq visited
  BY EmptySeq DEF FetchInv, QueueInv, Range
<1>6. Listed(under[c])
  BY <1>4, <1>5 DEF Listed
<1> QED
  BY <1>2, <1>3, <1>6 DEF FetchInv, ListedInv

\* A comment that existed all the time, as did everything it replies to, is fetched,
\* however many comments there are.
THEOREM LastingCorrect == CommentsSpec => []LastingFetched
<1>1. FetchInv /\ [CommentsNext \/ Finish]_commentVars => FetchInv'
  BY FetchStep
<1>2. FetchInv => LastingFetched
  BY FetchInvGives
<1> QED
  BY <1>1, <1>2, FetchInit, PTL DEF CommentsSpec

-----------------------------------------------------------------------------
(* The order of display. *)

\* While threads are appended: the calls under way are a chain of replies in the thread
\* that grows, all that was shown after one of them is below it, and a comment shown
\* before whose call has returned has all its replies shown.
ThreadsInv ==
  rest = 0 =>
    /\ \A c \in Range(shown) : c \in InThreads
    /\ \A i \in DOMAIN thread :
         /\ thread[i] \in Range(shown)
         /\ Parent(thread[i]) = IF i = 1 THEN Root ELSE thread[i - 1]
    /\ \A c \in Fetched : \A i, j \in DOMAIN thread :
         c = thread[i] /\ i <= j => thread[j] \in Below({c})
    /\ \A c \in Range(thread) : \A i, j \in DOMAIN shown :
         c = shown[i] /\ i < j => shown[j] \in Below({c})
    /\ \A c \in Range(shown) \ Range(thread) : \A d \in Fetched :
         Parent(d) = c => d \in Range(shown)
    /\ \A c \in Range(shown), d \in Fetched \ Range(shown) :
         Parent(c) = Parent(d) => Less(c, d)

\* After that: the threads are complete, and so is what the last loop has passed.
RestInv ==
  rest # 0 =>
    /\ InThreads \subseteq Range(shown)
    /\ \A n \in DOMAIN comments : n < rest => comments[n] \in Range(shown)
    /\ \A c \in Range(shown) \ InThreads :
         \E n \in DOMAIN comments : n < rest /\ comments[n] = c

\* What is promised of the order, at any time.
OrderInv ==
  /\ \A j \in DOMAIN shown :
       shown[j] \in InThreads /\ ~IsRoot(shown[j])
         => \E i \in 1..(j - 1) : shown[i] = told[shown[j]]
  /\ \A i, j \in DOMAIN shown : i < j => shown[i] # shown[j] /\ InOrder(shown[i], shown[j])
  /\ \A c \in InThreads : \A i, j, k \in DOMAIN shown :
       i < j /\ j < k /\ shown[i] = c /\ shown[k] \in Below({c}) => shown[j] \in Below({c})

DisplayTypeOK ==
  /\ comments \in Seq(Comment) /\ time \in [Comment -> Nat]
  /\ rest \in Nat /\ shown \in Seq(Fetched) /\ thread \in Seq(Fetched)
  /\ status # "done" => thread = <<>> /\ rest = 0 /\ shown = <<>>

DisplayInv == DisplayTypeOK /\ ThreadsInv /\ RestInv /\ OrderInv

-----------------------------------------------------------------------------
\* Below(S) has the members of S and every reply to a member ...
LEMMA BelowHas ==
  ASSUME NEW S \in SUBSET Fetched
  PROVE  S \subseteq Below(S) /\ Below(S) \in SUBSET Fetched /\ HasReplies(Below(S))
BY DEF Below, HasReplies

\* ... and is the smallest such set.
LEMMA BelowLeast ==
  ASSUME NEW S, NEW U \in SUBSET Fetched, S \subseteq U, HasReplies(U)
  PROVE  Below(S) \subseteq U
BY DEF Below

\* A comment with a parent replies to it.
LEMMA ParentIs ==
  ASSUME comments \in Seq(Comment), NEW c \in Fetched
  PROVE  /\ Root \notin Fetched /\ Fetched \subseteq Comment
         /\ Parent(c) = Root <=> IsRoot(c)
         /\ \A p \in Fetched : Parent(c) = p <=> told[c] = p
<1>1. Fetched \subseteq Comment
  BY RangeOfSeq DEF Fetched
<1>2. Root \notin Comment
  BY DEF Comment, Root
<1> QED
  BY <1>1, <1>2 DEF Parent, IsRoot

LEMMA InThreadsHas ==
  ASSUME comments \in Seq(Comment)
  PROVE  /\ InThreads \in SUBSET Fetched
         /\ \A c \in Fetched : IsRoot(c) => c \in InThreads
         /\ \A c \in Fetched : Parent(c) \in InThreads => c \in InThreads
<1> DEFINE R == {c \in Fetched : IsRoot(c)}
<1>1. R \in SUBSET Fetched
  OBVIOUS
<1>2. R \subseteq InThreads /\ InThreads \in SUBSET Fetched /\ HasReplies(InThreads)
  BY <1>1, BelowHas DEF InThreads
<1>3. \A c \in Fetched : Parent(c) \in InThreads => told[c] \in InThreads
  BY <1>2, ParentIs
<1> QED
  BY <1>2, <1>3 DEF HasReplies

\* The display depends on what was fetched and told.
LEMMA SameThreads ==
  ASSUME UNCHANGED <<comments, told, time>>
  PROVE  /\ Fetched' = Fetched /\ InThreads' = InThreads
         /\ \A c : Below({c})' = Below({c}) /\ Parent(c)' = Parent(c) /\ IsRoot(c)' = IsRoot(c)
         /\ \A c, d : Less(c, d)' = Less(c, d) /\ InOrder(c, d)' = InOrder(c, d)
<1>1. /\ Fetched' = Fetched /\ InThreads' = InThreads
      /\ \A c : Below({c})' = Below({c}) /\ Parent(c)' = Parent(c) /\ IsRoot(c)' = IsRoot(c)
  BY DEF InThreads, Below, HasReplies, Fetched, IsRoot, Parent
<1>2. \A c, d : Less(c, d)' = Less(c, d) /\ Earlier(c, d)' = Earlier(c, d)
  BY DEF Less, Earlier
<1> QED
  BY <1>1, <1>2 DEF InOrder

LEMMA LessIsEarlier ==
  ASSUME time \in [Comment -> Nat], NEW c \in Comment, NEW d \in Comment, Less(c, d)
  PROVE  Earlier(c, d)
BY DEF Less, Earlier

-----------------------------------------------------------------------------
\* A comment whose call has returned is shown with all that is below it.
LEMMA Closed ==
  ASSUME DisplayInv, rest = 0, NEW c \in Range(shown) \ Range(thread)
  PROVE  Below({c}) \subseteq Range(shown)
<1> DEFINE U == Range(shown) \ Range(thread)
<1>1. Range(shown) \subseteq Fetched
  BY RangeOfSeq DEF DisplayInv, DisplayTypeOK
<1>2. HasReplies(U)
  <2> SUFFICES ASSUME NEW d \in Fetched, told[d] \in U
               PROVE  d \in U
    BY DEF HasReplies
  <2>1. Parent(d) = told[d]
    BY <1>1, ParentIs DEF DisplayInv, DisplayTypeOK
  <2>2. d \in Range(shown)
    BY <2>1 DEF DisplayInv, ThreadsInv
  <2>3. ASSUME NEW i \in DOMAIN thread, d = thread[i]
        PROVE  FALSE
    <3>1. i \in 1..Len(thread) /\ Len(thread) \in Nat
      BY LenProperties DEF DisplayInv, DisplayTypeOK
    <3>2. i # 1 /\ Parent(d) = thread[i - 1]
      BY <1>1, <2>1, <2>3, ParentIs DEF DisplayInv, DisplayTypeOK, ThreadsInv
    <3>3. i - 1 \in DOMAIN thread
      BY <3>1, <3>2, LenProperties DEF DisplayInv, DisplayTypeOK
    <3> QED
      BY <2>1, <3>2, <3>3 DEF Range
  <2> QED
    BY <2>2, <2>3 DEF Range
<1> QED
  BY <1>1, <1>2, BelowLeast

\* Below a comment of a thread everything is in threads.
LEMMA InThreadsAll ==
  ASSUME NEW c \in InThreads
  PROVE  Below({c}) \subseteq InThreads
<1> DEFINE R == {d \in Fetched : IsRoot(d)}
<1>1. InThreads \in SUBSET Fetched /\ HasReplies(InThreads)
  <2>1. R \in SUBSET Fetched
    OBVIOUS
  <2> QED
    BY <2>1, BelowHas DEF InThreads
<1> QED
  BY <1>1, BelowLeast

\* OrderInv for what is shown next.
LEMMA OrderIs ==
  ASSUME UNCHANGED <<comments, told, time>>,
         \A j \in DOMAIN shown' :
           shown'[j] \in InThreads /\ ~IsRoot(shown'[j])
             => \E i \in 1..(j - 1) : shown'[i] = told[shown'[j]],
         \A i, j \in DOMAIN shown' :
           i < j => shown'[i] # shown'[j] /\ InOrder(shown'[i], shown'[j]),
         \A c \in InThreads : \A i, j, k \in DOMAIN shown' :
           i < j /\ j < k /\ shown'[i] = c /\ shown'[k] \in Below({c})
             => shown'[j] \in Below({c})
  PROVE  OrderInv'
<1>1. /\ InThreads' = InThreads
      /\ \A c : Below({c})' = Below({c}) /\ IsRoot(c)' = IsRoot(c)
      /\ \A c, d : InOrder(c, d)' = InOrder(c, d)
  BY SameThreads
<1>2. (\A j \in DOMAIN shown :
         shown[j] \in InThreads /\ ~IsRoot(shown[j])
           => \E i \in 1..(j - 1) : shown[i] = told[shown[j]])'
  BY <1>1
<1>3. (\A i, j \in DOMAIN shown :
         i < j => shown[i] # shown[j] /\ InOrder(shown[i], shown[j]))'
  BY <1>1
<1>4. (\A c \in InThreads : \A i, j, k \in DOMAIN shown :
         i < j /\ j < k /\ shown[i] = c /\ shown[k] \in Below({c}) => shown[j] \in Below({c}))'
  <2> SUFFICES ASSUME NEW c \in InThreads', NEW i \in DOMAIN shown', NEW j \in DOMAIN shown',
                      NEW k \in DOMAIN shown',
                      i < j, j < k, shown'[i] = c, (shown[k] \in Below({c}))'
               PROVE  (shown[j] \in Below({c}))'
    OBVIOUS
  <2>1. Below({c})' = Below({c}) /\ c \in InThreads
    BY <1>1
  <2>2. shown'[k] \in Below({c})
    BY <2>1
  <2>3. shown'[j] \in Below({c})
    BY <2>1, <2>2
  <2> QED
    BY <2>1, <2>3
<1> QED
  BY <1>2, <1>3, <1>4 DEF OrderInv

\* ThreadsInv for the calls under way next.
LEMMA ThreadsIs ==
  ASSUME UNCHANGED <<comments, told, time>>,
         \A c \in Range(shown') : c \in InThreads,
         \A i \in DOMAIN thread' :
           /\ thread'[i] \in Range(shown')
           /\ Parent(thread'[i]) = IF i = 1 THEN Root ELSE thread'[i - 1],
         \A c \in Fetched : \A i, j \in DOMAIN thread' :
           c = thread'[i] /\ i <= j => thread'[j] \in Below({c}),
         \A c \in Range(thread') : \A i, j \in DOMAIN shown' :
           c = shown'[i] /\ i < j => shown'[j] \in Below({c}),
         \A c \in Range(shown') \ Range(thread') : \A d \in Fetched :
           Parent(d) = c => d \in Range(shown'),
         \A c \in Range(shown'), d \in Fetched \ Range(shown') :
           Parent(c) = Parent(d) => Less(c, d)
  PROVE  ThreadsInv'
<1>1. /\ Fetched' = Fetched /\ InThreads' = InThreads
      /\ \A c : Below({c})' = Below({c}) /\ Parent(c)' = Parent(c)
      /\ \A c, d : Less(c, d)' = Less(c, d)
  BY SameThreads
<1>2. (\A c \in Range(shown) : c \in InThreads)'
  BY <1>1
<1>3. (\A i \in DOMAIN thread :
         /\ thread[i] \in Range(shown)
         /\ Parent(thread[i]) = IF i = 1 THEN Root ELSE thread[i - 1])'
  BY <1>1
<1>4. (\A c \in Fetched : \A i, j \in DOMAIN thread :
         c = thread[i] /\ i <= j => thread[j] \in Below({c}))'
  BY <1>1
<1>5. (\A c \in Range(thread) : \A i, j \in DOMAIN shown :
         c = shown[i] /\ i < j => shown[j] \in Below({c}))'
  BY <1>1
<1>6. (\A c \in Range(shown) \ Range(thread) : \A d \in Fetched :
         Parent(d) = c => d \in Range(shown))'
  BY <1>1
<1>7. (\A c \in Range(shown), d \in Fetched \ Range(shown) :
         Parent(c) = Parent(d) => Less(c, d))'
  BY <1>1
<1> QED
  BY <1>2, <1>3, <1>4, <1>5, <1>6, <1>7 DEF ThreadsInv

LEMMA ThreadsKeep ==
  ASSUME ThreadsInv, rest = 0, UNCHANGED <<comments, told, time, thread, shown>>
  PROVE  ThreadsInv'
BY ThreadsIs DEF ThreadsInv

LEMMA AppendNextStep ==
  ASSUME DisplayInv, AppendNext
  PROVE  DisplayInv'
<1> USE DEF DisplayInv, DisplayTypeOK
<1>1. /\ status = "done" /\ rest = 0 /\ rest' = 0 /\ status' = "done"
      /\ UNCHANGED <<comments, told, time>>
  BY DEF AppendNext, Ordering, commentVars, fetchVars
<1>2. PICK x \in Waiting : /\ \A d \in Waiting \ {x} : Less(x, d)
                           /\ shown' = Append(shown, x) /\ thread' = Append(thread, x)
  BY DEF AppendNext
<1>3. x \in Fetched /\ x \notin Range(shown) /\ Parent(x) = Current
  BY DEF Waiting
<1>4. /\ Fetched' = Fetched /\ InThreads' = InThreads
      /\ \A c : Below({c})' = Below({c}) /\ Parent(c)' = Parent(c) /\ IsRoot(c)' = IsRoot(c)
      /\ \A c, d : Less(c, d)' = Less(c, d) /\ InOrder(c, d)' = InOrder(c, d)
  BY <1>1, SameThreads
<1> DEFINE L == Len(shown)  H == Len(thread)
<1>5. /\ shown' \in Seq(Fetched) /\ L \in Nat /\ DOMAIN shown = 1..L
      /\ DOMAIN shown' = 1..(L + 1) /\ \A i \in 1..L : shown'[i] = shown[i]
      /\ shown'[L + 1] = x /\ Range(shown') = Range(shown) \cup {x}
  BY <1>2, <1>3, Appended
<1>6. /\ thread' \in Seq(Fetched) /\ H \in Nat /\ DOMAIN thread = 1..H
      /\ DOMAIN thread' = 1..(H + 1) /\ \A i \in 1..H : thread'[i] = thread[i]
      /\ thread'[H + 1] = x /\ Range(thread') = Range(thread) \cup {x}
  BY <1>2, <1>3, Appended
<1> HIDE DEF L, H
<1>7. Range(shown) \subseteq Fetched
  BY RangeOfSeq
<1>8. /\ thread = <<>> => Parent(x) = Root /\ H = 0
      /\ thread # <<>> => /\ H \in DOMAIN thread /\ Parent(x) = thread[H]
                         /\ thread[H] \in Range(thread) /\ thread[H] \in Range(shown)
                         /\ told[x] = thread[H]
  <2>1. thread # <<>> => H \in DOMAIN thread /\ H # 0
    BY <1>6, EmptySeq DEF H
  <2>2. thread = <<>> => H = 0
    BY EmptySeq DEF H
  <2>3. thread # <<>> => Parent(x) = thread[H]
    BY <1>3 DEF Current, Last, H
  <2>4. thread # <<>> => thread[H] \in Range(thread) /\ thread[H] \in Range(shown)
    BY <1>1, <2>1 DEF Range, ThreadsInv
  <2> QED
    BY <1>3, <1>7, <2>1, <2>2, <2>3, <2>4, ParentIs DEF Current
<1>9. x \in InThreads
  BY <1>1, <1>3, <1>8, InThreadsHas, ParentIs DEF ThreadsInv
\* Whatever is above the running call is above x.
<1>10. ASSUME NEW c \in Fetched, thread # <<>>, thread[H] \in Below({c})
       PROVE  x \in Below({c})
  <2>1. HasReplies(Below({c}))
    BY BelowHas
  <2> QED
    BY <1>3, <1>8, <1>10, <2>1 DEF HasReplies
<1>11. ASSUME NEW c \in Range(thread)
       PROVE  x \in Below({c})
  <2>1. PICK i \in DOMAIN thread : c = thread[i]
    BY DEF Range
  <2>2. thread # <<>> /\ H \in DOMAIN thread /\ i <= H
    BY <1>6, <1>8, <2>1, EmptySeq
  <2>3. c \in Fetched
    BY <1>1, <1>7, <2>1 DEF ThreadsInv
  <2>4. thread[H] \in Below({c})
    BY <1>1, <2>1, <2>2, <2>3 DEF ThreadsInv
  <2> QED
    BY <1>10, <2>2, <2>3, <2>4
<1>12. DisplayTypeOK'
  BY <1>1, <1>4, <1>5, <1>6
<1>13. ThreadsInv'
  <2>1. \A c \in Range(shown') : c \in InThreads
    BY <1>1, <1>5, <1>9 DEF ThreadsInv
  <2>2. \A i \in DOMAIN thread' :
          /\ thread'[i] \in Range(shown')
          /\ Parent(thread'[i]) = IF i = 1 THEN Root ELSE thread'[i - 1]
    <3> SUFFICES ASSUME NEW i \in DOMAIN thread'
                 PROVE  /\ thread'[i] \in Range(shown')
                        /\ Parent(thread'[i]) = IF i = 1 THEN Root ELSE thread'[i - 1]
      OBVIOUS
    <3>1. CASE i = H + 1
      <4>1. thread'[i] = x /\ (i = 1 <=> H = 0)
        BY <1>6, <3>1
      <4>2. H # 0 => thread'[i - 1] = thread[H]
        BY <1>6, <3>1
      <4> QED
        BY <1>5, <1>8, <4>1, <4>2
    <3>2. CASE i \in 1..H
      <4>1. thread'[i] = thread[i] /\ (i # 1 => thread'[i - 1] = thread[i - 1])
        BY <1>6, <3>2
      <4>2. /\ thread[i] \in Range(shown)
            /\ Parent(thread[i]) = IF i = 1 THEN Root ELSE thread[i - 1]
        BY <1>1, <1>6, <3>2 DEF ThreadsInv
      <4> QED
        BY <1>5, <4>1, <4>2
    <3> QED
      BY <1>6, <3>1, <3>2
  <2>3. \A c \in Fetched : \A i, j \in DOMAIN thread' :
          c = thread'[i] /\ i <= j => thread'[j] \in Below({c})
    <3> SUFFICES ASSUME NEW c \in Fetched, NEW i \in DOMAIN thread', NEW j \in DOMAIN thread',
                        c = thread'[i], i <= j
                 PROVE  thread'[j] \in Below({c})
      OBVIOUS
    <3>1. CASE j \in 1..H
      <4>1. i \in 1..H /\ thread[i] = c /\ thread'[j] = thread[j]
        BY <1>6, <3>1
      <4> QED
        BY <1>1, <1>6, <3>1, <4>1 DEF ThreadsInv
    <3>2. CASE j = H + 1 /\ i \in 1..H
      <4>1. thread[i] = c /\ thread'[j] = x /\ H \in 1..H /\ H # 0
        BY <1>6, <3>2
      <4>2. i \in DOMAIN thread /\ H \in DOMAIN thread /\ i <= H
        BY <1>6, <3>2, <4>1
      <4>3. thread[H] \in Below({c})
        BY <1>1, <4>1, <4>2 DEF ThreadsInv
      <4> QED
        BY <1>8, <1>10, <4>1, <4>3
    <3>3. CASE j = H + 1 /\ i = H + 1
      <4>1. {c} \subseteq Below({c})
        BY BelowHas
      <4> QED
        BY <3>3, <4>1
    <3> QED
      BY <1>6, <3>1, <3>2, <3>3
  <2>4. \A c \in Range(thread') : \A i, j \in DOMAIN shown' :
          c = shown'[i] /\ i < j => shown'[j] \in Below({c})
    <3> SUFFICES ASSUME NEW c \in Range(thread'), NEW i \in DOMAIN shown', NEW j \in DOMAIN shown',
                        c = shown'[i], i < j
                 PROVE  shown'[j] \in Below({c})
      OBVIOUS
    <3>1. i \in 1..L /\ shown[i] = c
      BY <1>5
    <3>2. c \in Range(shown) /\ c \in Range(thread)
      BY <1>3, <1>5, <1>6, <3>1 DEF Range
    <3>3. CASE j \in 1..L
      BY <1>1, <1>5, <3>1, <3>2, <3>3 DEF ThreadsInv
    <3>4. CASE j = L + 1
      BY <1>5, <1>11, <3>2, <3>4
    <3> QED
      BY <1>5, <3>3, <3>4
  <2>5. \A c \in Range(shown') \ Range(thread') : \A d \in Fetched :
          Parent(d) = c => d \in Range(shown')
    BY <1>1, <1>5, <1>6 DEF ThreadsInv
  <2>6. \A c \in Range(shown'), d \in Fetched \ Range(shown') :
          Parent(c) = Parent(d) => Less(c, d)
    <3> SUFFICES ASSUME NEW c \in Range(shown'), NEW d \in Fetched \ Range(shown'),
                        Parent(c) = Parent(d)
                 PROVE  Less(c, d)
      OBVIOUS
    <3>1. CASE c = x
      BY <1>2, <1>3, <1>5, <3>1 DEF Waiting
    <3>2. CASE c \in Range(shown)
      BY <1>1, <1>5, <3>2 DEF ThreadsInv
    <3> QED
      BY <1>5, <3>1, <3>2
  <2> QED
    BY <1>1, <2>1, <2>2, <2>3, <2>4, <2>5, <2>6, ThreadsIs
<1>14. RestInv'
  BY <1>1 DEF RestInv
<1>15. OrderInv'
  <2>1. \A j \in DOMAIN shown' :
          shown'[j] \in InThreads /\ ~IsRoot(shown'[j])
            => \E i \in 1..(j - 1) : shown'[i] = told[shown'[j]]
    <3> SUFFICES ASSUME NEW j \in DOMAIN shown', shown'[j] \in InThreads, ~IsRoot(shown'[j])
                 PROVE  \E i \in 1..(j - 1) : shown'[i] = told[shown'[j]]
      OBVIOUS
    <3>1. CASE j \in 1..L
      <4>1. PICK i \in 1..(j - 1) : shown[i] = told[shown[j]]
        BY <1>5, <3>1 DEF OrderInv
      <4> QED
        BY <1>5, <3>1, <4>1
    <3>2. CASE j = L + 1
      <4>1. told[x] \in Range(shown)
        BY <1>3, <1>5, <1>8, <3>2, ParentIs
      <4>2. PICK i \in DOMAIN shown : told[x] = shown[i]
        BY <4>1 DEF Range
      <4> QED
        BY <1>5, <3>2, <4>2
    <3> QED
      BY <1>5, <3>1, <3>2
  <2>2. \A i, j \in DOMAIN shown' : 
       i < j => shown'[i] # shown'[j] /\ InOrder(shown'[i], shown'[j])
    <3> SUFFICES ASSUME NEW i \in DOMAIN shown', NEW j \in DOMAIN shown', i < j
                 PROVE  shown'[i] # shown'[j] /\ InOrder(shown'[i], shown'[j])
      OBVIOUS
    <3>1. i \in 1..L /\ shown'[i] = shown[i] /\ shown[i] \in Range(shown)
      BY <1>5 DEF Range
    <3>2. CASE j \in 1..L
      BY <1>5, <3>1, <3>2 DEF OrderInv
    <3>3. CASE j = L + 1
      <4> PICK c : c = shown[i]
        OBVIOUS
      <4>1. c \in InThreads /\ c \in Range(shown)
        BY <1>1, <3>1 DEF ThreadsInv
      <4>2. Parent(c) = Parent(x) => Less(c, x)
        BY <1>1, <1>3, <4>1 DEF ThreadsInv
      <4>3. c \in Comment /\ x \in Comment
        BY <1>3, <1>7, <4>1, ParentIs
      <4>4. InOrder(c, x)
        BY <1>9, <4>1, <4>2, <4>3, LessIsEarlier DEF InOrder
      <4> QED
        BY <1>3, <1>5, <3>1, <3>3, <4>1, <4>4
    <3> QED
      BY <1>5, <3>2, <3>3
  <2>3. \A c \in InThreads : \A i, j, k \in DOMAIN shown' :
       i < j /\ j < k /\ shown'[i] = c /\ shown'[k] \in Below({c}) => shown'[j] \in Below({c})
    <3> SUFFICES ASSUME NEW c \in InThreads, NEW i \in DOMAIN shown', NEW j \in DOMAIN shown',
                        NEW k \in DOMAIN shown',
                        i < j, j < k, shown'[i] = c, shown'[k] \in Below({c})
                 PROVE  shown'[j] \in Below({c})
      OBVIOUS
    <3>1. i \in 1..L /\ j \in 1..L /\ shown[i] = c /\ shown'[j] = shown[j] /\ c \in Range(shown)
      BY <1>5 DEF Range
    <3>2. CASE k \in 1..L
      BY <1>5, <3>1, <3>2 DEF OrderInv
    <3>3. CASE k = L + 1 /\ c \in Range(thread)
      BY <1>1, <1>5, <3>1, <3>3 DEF ThreadsInv
    <3>4. CASE k = L + 1 /\ c \notin Range(thread)
      <4>1. Below({c}) \subseteq Range(shown)
        BY <1>1, <3>1, <3>4, Closed
      <4> QED
        BY <1>3, <1>5, <3>4, <4>1
    <3> QED
      BY <1>5, <3>2, <3>3, <3>4
  <2> QED
    BY <1>1, <2>1, <2>2, <2>3, OrderIs
<1> QED
  BY <1>12, <1>13, <1>14, <1>15

LEMMA OrderKeeps ==
  ASSUME OrderInv, UNCHANGED <<comments, told, time, shown>>
  PROVE  OrderInv'
BY OrderIs DEF OrderInv

LEMMA EndThreadStep ==
  ASSUME DisplayInv, EndThread
  PROVE  DisplayInv'
<1> USE DEF DisplayInv, DisplayTypeOK
<1>1. /\ status = "done" /\ rest = 0 /\ rest' = 0 /\ status' = "done" /\ Waiting = {}
      /\ thread # <<>> /\ thread' = Front(thread)
      /\ UNCHANGED <<comments, told, time, shown>>
  BY DEF EndThread, Ordering, commentVars, fetchVars
<1>2. /\ Fetched' = Fetched /\ InThreads' = InThreads
      /\ \A c : Below({c})' = Below({c}) /\ Parent(c)' = Parent(c) /\ IsRoot(c)' = IsRoot(c)
      /\ \A c, d : Less(c, d)' = Less(c, d)
  BY <1>1, SameThreads
<1> DEFINE H == Len(thread)
<1>3. /\ H \in Nat \ {0} /\ DOMAIN thread = 1..H /\ thread[H] = Current
  BY <1>1, EmptySeq, LenProperties DEF Current, Last
<1>4. /\ thread' \in Seq(Fetched) /\ DOMAIN thread' = 1..(H - 1)
      /\ \A i \in 1..(H - 1) : thread'[i] = thread[i]
      /\ Range(thread') \subseteq Range(thread)
      /\ Range(thread) \subseteq Range(thread') \cup {thread[H]}
  <2>1. H - 1 \in Nat /\ 1..(H - 1) \subseteq 1..H
    BY <1>3
  <2>2. thread' = SubSeq(thread, 1, H - 1)
    BY <1>1 DEF Front
  <2>3. /\ thread' \in Seq(Fetched) /\ DOMAIN thread' = 1..(H - 1)
        /\ \A i \in 1..(H - 1) : thread'[i] = thread[i]
    BY <1>3, <2>1, <2>2, SubSeqProperties
  <2>4. Range(thread') \subseteq Range(thread)
    BY <1>3, <2>1, <2>3 DEF Range
  <2>5. Range(thread) \subseteq Range(thread') \cup {thread[H]}
    <3> SUFFICES ASSUME NEW i \in 1..H
                 PROVE  thread[i] \in Range(thread') \cup {thread[H]}
      BY <1>3 DEF Range
    <3>1. CASE i = H
      BY <3>1
    <3>2. CASE i # H
      <4>1. i \in Int /\ 1 <= i /\ i <= H /\ H \in Int
        BY <1>3
      <4>2. i \in 1..(H - 1)
        BY <3>2, <4>1
      <4> QED
        BY <2>3, <4>2 DEF Range
    <3> QED
      BY <3>1, <3>2
  <2> QED
    BY <2>3, <2>4, <2>5
<1> HIDE DEF H
<1>5. ThreadsInv'
  <2>1. \A c \in Range(shown') : c \in InThreads
    BY <1>1 DEF ThreadsInv
  <2>2. \A i \in DOMAIN thread' :
          /\ thread'[i] \in Range(shown')
          /\ Parent(thread'[i]) = IF i = 1 THEN Root ELSE thread'[i - 1]
    BY <1>1, <1>3, <1>4 DEF ThreadsInv
  <2>3. \A c \in Fetched : \A i, j \in DOMAIN thread' :
          c = thread'[i] /\ i <= j => thread'[j] \in Below({c})
    <3> SUFFICES ASSUME NEW c \in Fetched, NEW m \in DOMAIN thread', NEW n \in DOMAIN thread',
                        c = thread'[m], m <= n
                 PROVE  thread'[n] \in Below({c})
      OBVIOUS
    <3>1. /\ m \in DOMAIN thread /\ n \in DOMAIN thread
          /\ thread'[m] = thread[m] /\ thread'[n] = thread[n]
      BY <1>3, <1>4
    <3> QED
      BY <1>1, <3>1 DEF ThreadsInv
  <2>4. \A c \in Range(thread') : \A i, j \in DOMAIN shown' :
          c = shown'[i] /\ i < j => shown'[j] \in Below({c})
    BY <1>1, <1>4 DEF ThreadsInv
  <2>5. \A c \in Range(shown') \ Range(thread') : \A d \in Fetched :
          Parent(d) = c => d \in Range(shown')
    BY <1>1, <1>3, <1>4 DEF ThreadsInv, Waiting
  <2>6. \A c \in Range(shown'), d \in Fetched \ Range(shown') :
          Parent(c) = Parent(d) => Less(c, d)
    BY <1>1 DEF ThreadsInv
  <2> QED
    BY <1>1, <2>1, <2>2, <2>3, <2>4, <2>5, <2>6, ThreadsIs
<1>6. RestInv' /\ OrderInv'
  BY <1>1, OrderKeeps DEF RestInv
<1> QED
  BY <1>1, <1>2, <1>4, <1>5, <1>6

LEMMA EndThreadsStep ==
  ASSUME DisplayInv, EndThreads
  PROVE  DisplayInv'
<1> USE DEF DisplayInv, DisplayTypeOK
<1>1. /\ status = "done" /\ rest = 0 /\ status' = "done" /\ Waiting = {}
      /\ thread = <<>> /\ thread' = thread
      /\ rest' = IF Len(shown) = Len(comments) THEN Len(comments) + 1 ELSE 1
      /\ UNCHANGED <<comments, told, time, shown>>
  BY DEF EndThreads, Ordering, commentVars, fetchVars
<1>2. Fetched' = Fetched /\ InThreads' = InThreads
  BY <1>1, SameThreads
<1>3. Len(comments) \in Nat /\ DOMAIN comments = 1..Len(comments)
  BY LenProperties
<1>4. Range(shown) \subseteq Fetched
  BY RangeOfSeq
<1>5. Range(thread) = {}
  BY <1>1, EmptySeq DEF Range
<1>6. InThreads \subseteq Range(shown)
  <2> DEFINE R == {c \in Fetched : IsRoot(c)}
  <2>1. HasReplies(Range(shown))
    <3> SUFFICES ASSUME NEW d \in Fetched, told[d] \in Range(shown)
                 PROVE  d \in Range(shown)
      BY DEF HasReplies
    <3>1. Parent(d) = told[d]
      BY <1>4, ParentIs
    <3> QED
      BY <1>1, <1>5, <3>1 DEF ThreadsInv
  <2>2. R \subseteq Range(shown)
    BY <1>1, ParentIs DEF Waiting, Current
  <2> HIDE DEF R
  <2>3. Below(R) \subseteq Range(shown)
    BY <1>4, <2>1, <2>2, BelowLeast
  <2> QED
    BY <2>3 DEF InThreads, R
<1>7. RestInv'
  <2>1. \A n \in DOMAIN comments : n < rest' => comments[n] \in Range(shown)
    <3>1. CASE Len(shown) = Len(comments)
      <4>1. comments \in Seq(Fetched)
        BY <1>3, SeqOfRange DEF Fetched
      <4>2. \A i, j \in DOMAIN shown : i < j => shown[i] # shown[j]
        BY DEF OrderInv
      <4>3. Range(comments) \subseteq Range(shown)
        BY <1>4, <3>1, <4>1, <4>2, AllOfThem DEF Fetched
      <4> QED
        BY <4>3 DEF Range
    <3>2. CASE Len(shown) # Len(comments)
      BY <1>1, <1>3, <3>2
    <3> QED
      BY <3>1, <3>2
  <2>2. Range(shown) \subseteq InThreads
    BY <1>1 DEF ThreadsInv
  <2> QED
    BY <1>1, <1>2, <1>6, <2>1, <2>2 DEF RestInv
<1>8. ThreadsInv' /\ OrderInv'
  BY <1>1, <1>3, OrderKeeps DEF ThreadsInv
<1> QED
  BY <1>1, <1>2, <1>3, <1>7, <1>8

LEMMA AppendRestStep ==
  ASSUME DisplayInv, AppendRest
  PROVE  DisplayInv'
<1> USE DEF DisplayInv, DisplayTypeOK
<1> PICK x : x = comments[rest]
  OBVIOUS
<1>1. /\ rest \in DOMAIN comments /\ rest' = rest + 1
      /\ shown' = IF x \in Range(shown) THEN shown ELSE Append(shown, x)
      /\ UNCHANGED <<comments, told, time, thread, status>>
  BY DEF AppendRest, commentVars, fetchVars
<1>2. /\ Fetched' = Fetched /\ InThreads' = InThreads
      /\ \A c : Below({c})' = Below({c}) /\ IsRoot(c)' = IsRoot(c)
      /\ \A c, d : InOrder(c, d)' = InOrder(c, d)
  BY <1>1, SameThreads
<1>3. Len(comments) \in Nat /\ DOMAIN comments = 1..Len(comments) /\ rest # 0
  BY <1>1, LenProperties
<1>4. x \in Fetched /\ status = "done"
  BY <1>1, <1>3 DEF Fetched, Range
<1>5. CASE x \in Range(shown)
  <2>1. shown' = shown
    BY <1>1, <1>5
  <2>2. RestInv'
    BY <1>1, <1>2, <1>3, <1>5, <2>1 DEF RestInv
  <2>3. ThreadsInv' /\ OrderInv'
    BY <1>1, <1>3, <2>1, OrderKeeps DEF ThreadsInv
  <2> QED
    BY <1>1, <1>2, <1>3, <1>4, <2>1, <2>2, <2>3
<1>6. CASE x \notin Range(shown)
  <2> DEFINE L == Len(shown)
  <2>1. /\ shown' \in Seq(Fetched) /\ L \in Nat /\ DOMAIN shown = 1..L
        /\ DOMAIN shown' = 1..(L + 1) /\ \A i \in 1..L : shown'[i] = shown[i]
        /\ shown'[L + 1] = x /\ Range(shown') = Range(shown) \cup {x}
    BY <1>1, <1>4, <1>6, Appended
  <2> HIDE DEF L
  <2>2. x \notin InThreads
    BY <1>3, <1>6 DEF RestInv
  <2>3. RestInv'
    <3>1. \A n \in DOMAIN comments : n < rest' => comments[n] \in Range(shown')
      BY <1>1, <1>3, <2>1 DEF RestInv
    <3>2. \A c \in Range(shown') \ InThreads :
            \E n \in DOMAIN comments : n < rest' /\ comments[n] = c
      <4> SUFFICES ASSUME NEW c \in Range(shown') \ InThreads
                   PROVE  \E n \in DOMAIN comments : n < rest' /\ comments[n] = c
        OBVIOUS
      <4>1. CASE c = x
        <5>1. rest < rest' /\ comments[rest] = x
          BY <1>1, <1>3
        <5> QED
          BY <1>1, <4>1, <5>1
      <4>2. CASE c \in Range(shown)
        <5>1. PICK n \in DOMAIN comments : n < rest /\ comments[n] = c
          BY <1>3, <4>2 DEF RestInv
        <5> QED
          BY <1>1, <1>3, <5>1
      <4> QED
        BY <2>1, <4>1, <4>2
    <3>3. InThreads \subseteq Range(shown')
      BY <1>3, <2>1 DEF RestInv
    <3> QED
      BY <1>1, <1>2, <3>1, <3>2, <3>3 DEF RestInv
  <2>4. \A j \in DOMAIN shown' :
          shown'[j] \in InThreads /\ ~IsRoot(shown'[j])
            => \E i \in 1..(j - 1) : shown'[i] = told[shown'[j]]
    <3> SUFFICES ASSUME NEW j \in DOMAIN shown', shown'[j] \in InThreads, ~IsRoot(shown'[j])
                 PROVE  \E i \in 1..(j - 1) : shown'[i] = told[shown'[j]]
      OBVIOUS
    <3>1. j \in 1..L
      BY <2>1, <2>2
    <3>2. PICK i \in 1..(j - 1) : shown[i] = told[shown[j]]
      BY <2>1, <3>1 DEF OrderInv
    <3> QED
      BY <2>1, <3>1, <3>2
  <2>5. \A i, j \in DOMAIN shown' :
          i < j => shown'[i] # shown'[j] /\ InOrder(shown'[i], shown'[j])
    <3> SUFFICES ASSUME NEW i \in DOMAIN shown', NEW j \in DOMAIN shown', i < j
                 PROVE  shown'[i] # shown'[j] /\ InOrder(shown'[i], shown'[j])
      OBVIOUS
    <3>1. i \in 1..L /\ shown'[i] = shown[i] /\ shown[i] \in Range(shown)
      BY <2>1 DEF Range
    <3>2. CASE j \in 1..L
      BY <2>1, <3>1, <3>2 DEF OrderInv
    <3>3. CASE j = L + 1
      <4> PICK c : c = shown[i]
        OBVIOUS
      <4>1. c \in InThreads \/ \E n \in DOMAIN comments : n < rest /\ comments[n] = c
        BY <1>3, <3>1 DEF RestInv
      <4>2. InOrder(c, x)
        BY <1>1, <2>2, <4>1 DEF InOrder
      <4> QED
        BY <1>6, <2>1, <3>1, <3>3, <4>2
    <3> QED
      BY <2>1, <3>2, <3>3
  <2>6. \A c \in InThreads : \A i, j, k \in DOMAIN shown' :
          i < j /\ j < k /\ shown'[i] = c /\ shown'[k] \in Below({c}) => shown'[j] \in Below({c})
    <3> SUFFICES ASSUME NEW c \in InThreads, NEW i \in DOMAIN shown', NEW j \in DOMAIN shown',
                        NEW k \in DOMAIN shown',
                        i < j, j < k, shown'[i] = c, shown'[k] \in Below({c})
                 PROVE  shown'[j] \in Below({c})
      OBVIOUS
    <3>1. Below({c}) \subseteq InThreads
      BY InThreadsAll
    <3>2. k # L + 1
      BY <2>1, <2>2, <3>1
    <3>3. k \in 1..L /\ j \in 1..L /\ i \in 1..L
      BY <2>1, <3>2
    <3> QED
      BY <2>1, <3>3 DEF OrderInv
  <2>7. OrderInv'
    BY <1>1, <1>2, <2>4, <2>5, <2>6, OrderIs
  <2>8. ThreadsInv'
    BY <1>1, <1>3 DEF ThreadsInv
  <2> QED
    BY <1>1, <1>2, <1>3, <1>4, <2>1, <2>3, <2>7, <2>8
<1> QED
  BY <1>5, <1>6

LEMMA DisplayKeeps ==
  ASSUME DisplayInv, UNCHANGED <<comments, status, showVars>>
  PROVE  DisplayInv'
<1>1. UNCHANGED <<comments, status, told, time, thread, rest, shown>>
  BY DEF showVars
<1>2. /\ Fetched' = Fetched /\ InThreads' = InThreads
  BY <1>1, SameThreads
<1>3. DisplayTypeOK' /\ RestInv'
  BY <1>1, <1>2 DEF DisplayInv, DisplayTypeOK, RestInv
<1>4. ThreadsInv' /\ OrderInv'
  BY <1>1, ThreadsKeep, OrderKeeps DEF DisplayInv, ThreadsInv
<1> QED
  BY <1>3, <1>4 DEF DisplayInv

LEMMA NothingShown ==
  ASSUME comments' \in Seq(Comment), time' \in [Comment -> Nat],
         rest' = 0, thread' = <<>>, shown' = <<>>
  PROVE  DisplayInv'
<1>1. /\ DOMAIN shown' = {} /\ DOMAIN thread' = {} /\ Range(shown') = {} /\ Range(thread') = {}
      /\ shown' \in Seq(Fetched') /\ thread' \in Seq(Fetched')
  BY EmptySeq DEF Range
<1>2. DisplayTypeOK' /\ RestInv'
  BY <1>1 DEF DisplayTypeOK, RestInv
<1>3. OrderInv'
  BY <1>1 DEF OrderInv
<1>4. ThreadsInv'
  BY <1>1 DEF ThreadsInv
<1> QED
  BY <1>2, <1>3, <1>4 DEF DisplayInv

LEMMA DisplayCorrect ==
  ASSUME DisplayInv
  PROVE  ShownInThreads
<1> SUFFICES ASSUME Ordered
             PROVE  /\ Range(shown) = Fetched
                    /\ \A i, j, k \in DOMAIN shown :
                         i < j /\ j < k /\ shown[i] \in InThreads /\ shown[k] \in Below({shown[i]})
                           => shown[j] \in Below({shown[i]})
  BY DEF ShownInThreads, DisplayInv, OrderInv
<1>1. Range(shown) = Fetched
  <2>1. Len(comments) \in Nat /\ DOMAIN comments = 1..Len(comments)
    BY LenProperties DEF DisplayInv, DisplayTypeOK
  <2>2. rest # 0 /\ \A n \in DOMAIN comments : n < rest
    BY <2>1 DEF Ordered, DisplayInv, DisplayTypeOK
  <2>3. Fetched \subseteq Range(shown)
    BY <2>2 DEF DisplayInv, RestInv, Fetched, Range
  <2>4. Range(shown) \subseteq Fetched
    BY RangeOfSeq DEF DisplayInv, DisplayTypeOK
  <2> QED
    BY <2>3, <2>4
<1>2. \A i, j, k \in DOMAIN shown :
        i < j /\ j < k /\ shown[i] \in InThreads /\ shown[k] \in Below({shown[i]})
          => shown[j] \in Below({shown[i]})
  BY DEF DisplayInv, OrderInv
<1> QED
  BY <1>1, <1>2

-----------------------------------------------------------------------------
(* The composition. *)

ClientInv == AuthInv /\ FetchInv /\ DisplayInv

\* A step of the client keeps the invariants of its parts.
LEMMA ClientStep ==
  ASSUME ClientInv, [Next]_vars
  PROVE  ClientInv'
<1>1. comments \in Seq(Comment) /\ time \in [Comment -> Nat]
  BY DEF ClientInv, DisplayInv, DisplayTypeOK
<1>2. CASE Resolve
  <2>1. AuthInv'
    BY <1>2, AuthStep DEF Resolve, ClientInv
  <2>2. FetchInv'
    BY <1>2, FetchStep DEF Resolve, ClientInv
  <2>3. UNCHANGED <<comments, status, showVars>>
    BY <1>2 DEF Resolve, commentVars, fetchVars
  <2> QED
    BY <2>1, <2>2, <2>3, DisplayKeeps DEF ClientInv
<1>3. CASE Read(DisplayNext)
  <2>1. AuthInv' /\ DisplayNext
    BY <1>3, AuthStep DEF Read, ClientInv
  <2>2. CASE Told
    <3>1. FetchInv'
      BY <2>2, FetchStep DEF Told, ClientInv
    <3>2. comments' \in Seq(Comment) /\ time' \in [Comment -> Nat]
      BY <1>1, <2>2, DisplayAssumption DEF Told, Finish
    <3>3. rest' = 0 /\ thread' = <<>> /\ shown' = <<>>
      BY <2>2 DEF Told, Finish, ClientInv, DisplayInv, DisplayTypeOK
    <3> QED
      BY <2>1, <3>1, <3>2, <3>3, NothingShown DEF ClientInv
  <2>3. CASE Show
    <3>1. UNCHANGED commentVars
      BY <2>3 DEF Show, AppendNext, EndThread, EndThreads, AppendRest
    <3> QED
      BY <2>1, <2>3, <3>1, FetchStep, AppendNextStep, EndThreadStep, EndThreadsStep,
         AppendRestStep DEF Show, ClientInv
  <2>4. CASE CommentsNext /\ UNCHANGED showVars
    <3>1. FetchInv'
      BY <2>4, FetchStep DEF ClientInv
    <3>2. comments' \in Seq(Comment) /\ time' \in [Comment -> Nat]
      BY <1>1, <2>4, <3>1 DEF FetchInv, TypeInv, showVars
    <3>3. status # "done"
      BY <2>4 DEF CommentsNext, Fetch, Answer, NotFound, Fail, Take, Post, DeletePage, Delete, Busy
    <3>4. rest' = 0 /\ thread' = <<>> /\ shown' = <<>>
      BY <2>4, <3>3 DEF showVars, ClientInv, DisplayInv, DisplayTypeOK
    <3> QED
      BY <2>1, <3>1, <3>2, <3>4, NothingShown DEF ClientInv
  <2> QED
    BY <2>1, <2>2, <2>3, <2>4 DEF DisplayNext
<1>4. CASE UNCHANGED vars
  <2>1. UNCHANGED authVars /\ UNCHANGED commentVars /\ UNCHANGED showVars
    BY <1>4 DEF vars
  <2>2. UNCHANGED <<comments, status, showVars>>
    BY <2>1 DEF commentVars, fetchVars
  <2> QED
    BY <2>1, <2>2, AuthStep, FetchStep, DisplayKeeps DEF ClientInv
<1> QED
  BY <1>2, <1>3, <1>4 DEF Next

LEMMA ClientInitial == Init => ClientInv
<1> SUFFICES ASSUME Init PROVE ClientInv
  OBVIOUS
<1>1. AuthInv /\ FetchInv
  BY AuthInitial, FetchInit DEF Init, DisplayInit
<1>2. /\ DOMAIN shown = {} /\ DOMAIN thread = {} /\ Range(shown) = {} /\ Range(thread) = {}
      /\ shown \in Seq(Fetched) /\ thread \in Seq(Fetched)
      /\ rest = 0 /\ shown = <<>> /\ thread = <<>>
  BY EmptySeq DEF Init, DisplayInit, Range
<1>3. comments \in Seq(Comment) /\ time \in [Comment -> Nat]
  BY <1>1 DEF FetchInv, TypeInv, Init, DisplayInit
<1>4. DisplayTypeOK /\ RestInv
  BY <1>2, <1>3 DEF DisplayTypeOK, RestInv
<1>5. OrderInv
  BY <1>2 DEF OrderInv
<1>6. ThreadsInv
  BY <1>2 DEF ThreadsInv
<1> QED
  BY <1>1, <1>4, <1>5, <1>6 DEF ClientInv, DisplayInv

LEMMA ClientInvariant == Spec => []ClientInv
<1>1. ClientInv /\ [Next]_vars => ClientInv'
  BY ClientStep
<1> QED
  BY <1>1, ClientInitial, PTL DEF Spec

-----------------------------------------------------------------------------
(* The way to the end. *)

LEMMA TupleFalls ==
  ASSUME NEW a, NEW b, NEW c, NEW d, NEW w, NEW x, NEW y, NEW z,
         \/ a < w
         \/ a = w /\ b < x
         \/ a = w /\ b = x /\ c < y
         \/ a = w /\ b = x /\ c = y /\ d < z
  PROVE  Smaller(<<a, b, c, d>>, <<w, x, y, z>>)
<1> DEFINE s == <<a, b, c, d>>
<1> DEFINE t == <<w, x, y, z>>
<1>1. /\ DOMAIN t = 1..4
      /\ s[1] = a /\ s[2] = b /\ s[3] = c /\ s[4] = d
      /\ t[1] = w /\ t[2] = x /\ t[3] = y /\ t[4] = z
  OBVIOUS
<1> HIDE DEF s, t
<1>2. \E n \in 1..4 : s[n] < t[n] /\ \A m \in 1..(n - 1) : s[m] = t[m]
  <2>1. CASE a < w
    <3>1. s[1] < t[1] /\ \A m \in 1..(1 - 1) : s[m] = t[m]
      BY <1>1, <2>1
    <3> QED
      BY <3>1
  <2>2. CASE a = w /\ b < x
    <3>1. s[2] < t[2] /\ \A m \in 1..(2 - 1) : s[m] = t[m]
      BY <1>1, <2>2
    <3> QED
      BY <3>1
  <2>3. CASE a = w /\ b = x /\ c < y
    <3>1. s[3] < t[3] /\ \A m \in 1..(3 - 1) : s[m] = t[m]
      BY <1>1, <2>3
    <3> QED
      BY <3>1
  <2>4. CASE a = w /\ b = x /\ c = y /\ d < z
    <3>1. s[4] < t[4] /\ \A m \in 1..(4 - 1) : s[m] = t[m]
      BY <1>1, <2>4
    <3> QED
      BY <3>1
  <2> QED
    BY <2>1, <2>2, <2>3, <2>4
<1>3. Smaller(s, t)
  BY <1>1, <1>2 DEF Smaller
<1> QED
  BY <1>3 DEF s, t

\* What is left of the resolution, of the fetch, and of the display.
ResolveLeft ==
  <<2, Len(Sites) - site, [classic |-> 2, cloud |-> 1, scoped |-> 0][attempt], 0>>
Rounds == 2 * Cardinality(Comment \ visited) + (IF status = "listing" THEN 1 ELSE 0)
FetchLeft == <<1, Rounds, Len(queue), N - cursor>>
ShowLeft  == <<0, Len(comments) + 1 - rest, Len(comments) - Len(shown), Len(thread)>>

LEMMA LeftIs ==
  /\ outcome = "running" => Left = ResolveLeft
  /\ outcome # "running" /\ Busy => Left = FetchLeft
  /\ outcome # "running" /\ ~Busy => Left = ShowLeft
  /\ outcome' = "running" => Left' = ResolveLeft'
  /\ outcome' # "running" /\ Busy' => Left' = FetchLeft'
  /\ outcome' # "running" /\ ~Busy' => Left' = ShowLeft'
BY DEF Left, ResolveLeft, FetchLeft, Rounds, ShowLeft

LEMMA ResolveAdvances ==
  ASSUME AuthInv, Resolve
  PROVE  Smaller(Left', Left)
<1>0. /\ outcome = "running" /\ site \in 1..Len(Sites) /\ Len(Sites) \in Nat
      /\ UNCHANGED <<commentVars, showVars>>
  BY SitesAssumption DEF Resolve, AuthNext, ProbeClassic, FindCloud, ProbeScoped, AuthInv, AuthTypeOK
<1>1. Left = ResolveLeft
  BY <1>0, LeftIs
<1>2. CASE outcome' \in {"resolved", "failed"}
  <2>1. Left' = FetchLeft' \/ Left' = ShowLeft'
    BY <1>2, LeftIs
  <2> QED
    BY <1>1, <2>1, TupleFalls DEF ResolveLeft, FetchLeft, ShowLeft
<1>3. CASE outcome' = "running" /\ site' = site + 1
  <2>1. Left' = ResolveLeft'
    BY <1>3, LeftIs
  <2>2. (Len(Sites) - site)' < Len(Sites) - site
    BY <1>0, <1>3
  <2> QED
    BY <1>1, <2>1, <2>2, TupleFalls DEF ResolveLeft
<1>4. CASE /\ outcome' = "running" /\ site' = site
           /\ \/ attempt = "classic" /\ attempt' = "cloud"
              \/ attempt = "cloud" /\ attempt' = "scoped"
  <2>1. Left' = ResolveLeft'
    BY <1>4, LeftIs
  <2>2. [classic |-> 2, cloud |-> 1, scoped |-> 0][attempt]'
          < [classic |-> 2, cloud |-> 1, scoped |-> 0][attempt]
    BY <1>4
  <2> QED
    BY <1>1, <1>4, <2>1, <2>2, TupleFalls DEF ResolveLeft
<1>5. ASSUME NEW a \in Answers, ProbeClassic(a) \/ FindCloud(a) \/ ProbeScoped(a)
      PROVE  \/ outcome' \in {"resolved", "failed"}
             \/ outcome' = "running" /\ site' = site + 1
             \/ /\ outcome' = "running" /\ site' = site
                /\ \/ attempt = "classic" /\ attempt' = "cloud"
                   \/ attempt = "cloud" /\ attempt' = "scoped"
  BY <1>0, <1>5 DEF ProbeClassic, FindCloud, ProbeScoped, Resolved, Fails, FailsScoped
<1> QED
  BY <1>2, <1>3, <1>4, <1>5 DEF Resolve, AuthNext

LEMMA CommentSets ==
  ASSUME NEW S \in SUBSET Comment
  PROVE  /\ IsFiniteSet(S) /\ Cardinality(S) \in Nat
         /\ \A c \in S : Cardinality(S \ {c}) = Cardinality(S) - 1
<1>1. IsFiniteSet(Comment)
  BY CommentsAssumption, FS_Interval DEF Comment
<1>2. IsFiniteSet(S)
  BY <1>1, FS_Subset
<1> QED
  BY <1>2, FS_CardinalityType, FS_RemoveElement

LEMMA RoundsFall ==
  ASSUME FetchInv
  PROVE  /\ Rounds \in Nat
         /\ visited' = visited /\ status = "listing" /\ status' # "listing" => Rounds' < Rounds
         /\ \A c \in Comment \ visited : visited' = visited \cup {c} => Rounds' < Rounds
<1>1. Cardinality(Comment \ visited) \in Nat
  BY CommentSets
<1>2. ASSUME NEW c \in Comment \ visited, visited' = visited \cup {c}
      PROVE  Rounds' < Rounds
  <2>1. Comment \ visited' = (Comment \ visited) \ {c} /\ Comment \ visited \in SUBSET Comment
    BY <1>2
  <2>2. Cardinality(Comment \ visited') = Cardinality(Comment \ visited) - 1
    BY <2>1, CommentSets
  <2> QED
    BY <1>1, <2>2 DEF Rounds
<1>3. ASSUME visited' = visited, status = "listing", status' # "listing"
      PROVE  Rounds' < Rounds
  <2>1. Cardinality(Comment \ visited') = Cardinality(Comment \ visited)
    BY <1>3
  <2> QED
    BY <1>1, <1>3, <2>1 DEF Rounds
<1>4. Rounds \in Nat
  BY <1>1 DEF Rounds
<1> QED
  BY <1>2, <1>3, <1>4

LEMMA FetchingAdvances ==
  ASSUME FetchInv, outcome # "running", UNCHANGED outcome, Fetch
  PROVE  Smaller(Left', Left)
<1>0. Busy /\ Left = FetchLeft
  BY LeftIs DEF Fetch, Answer, NotFound, Fail, Take, Busy
<1>1. CASE ~Busy'
  <2>1. Left' = ShowLeft'
    BY <1>1, LeftIs
  <2> QED
    BY <1>0, <2>1, TupleFalls DEF FetchLeft, ShowLeft
<1>2. CASE Busy' /\ Rounds' < Rounds
  <2>1. Left' = FetchLeft'
    BY <1>2, LeftIs
  <2> QED
    BY <1>0, <1>2, <2>1, TupleFalls DEF FetchLeft
<1>3. CASE Busy' /\ Rounds' = Rounds /\ Len(queue') < Len(queue)
  <2>1. Left' = FetchLeft'
    BY <1>3, LeftIs
  <2> QED
    BY <1>0, <1>3, <2>1, TupleFalls DEF FetchLeft
<1>4. CASE Busy' /\ Rounds' = Rounds /\ queue' = queue /\ N - cursor' < N - cursor
  <2>1. Left' = FetchLeft'
    BY <1>4, LeftIs
  <2> QED
    BY <1>0, <1>4, <2>1, TupleFalls DEF FetchLeft
<1>5. CASE Fail
  BY <1>1, <1>5 DEF Fail, Busy
<1>6. ASSUME NEW found, Return(found), status = "listing"
      PROVE  Busy' /\ Rounds' < Rounds
  BY <1>6, RoundsFall DEF Return, Busy
<1>7. CASE NotFound
  BY <1>2, <1>6, <1>7 DEF NotFound
<1>8. CASE Answer
  <2>1. PICK found \in Portions :
          IF Range(found) = Remaining THEN Return(batch \o found)
          ELSE /\ cursor' = Last(found) /\ batch' = batch \o found
               /\ UNCHANGED <<at, queue, visited, comments, status>>
    BY <1>8 DEF Answer
  <2>2. CASE Range(found) = Remaining
    BY <1>2, <1>6, <1>8, <2>1, <2>2 DEF Answer
  <2>3. CASE Range(found) # Remaining
    <3>1. /\ cursor' = Last(found) /\ Last(found) \in Range(found)
          /\ found \in Seq(Comment) /\ Range(found) \subseteq Remaining
      BY <2>1, <2>3, AnswerIs, AnswerLast DEF FetchInv
    <3>2. cursor' > cursor /\ cursor' \in alive
      BY <3>1 DEF Remaining
    <3>5. cursor' \in Nat /\ cursor \in Nat /\ N \in Nat
      BY <3>2, CommentsAssumption DEF FetchInv, TypeInv, Comment
    <3>6. \A n, x, y \in Nat : y > x => n - y < n - x
      OBVIOUS
    <3>7. N - cursor' < N - cursor
      BY <3>2, <3>5, <3>6
    <3>3. UNCHANGED <<queue, visited, status>>
      BY <2>1, <2>3
    <3>4. Rounds' = Rounds /\ Busy'
      BY <1>0, <3>3 DEF Rounds, Busy
    <3> QED
      BY <1>4, <3>3, <3>4, <3>7
  <2> QED
    BY <2>2, <2>3
<1>9. CASE Take
  <2>1. Chosen(queue) \in Comment /\ queue \in Seq(Comment) /\ Len(queue') < Len(queue)
    BY <1>9, HeadTailProperties, LenProperties DEF Take, Chosen, Popped, Visited, FetchInv, TypeInv
  <2>2. CASE Chosen(queue) \in visited
    BY <1>3, <1>9, <2>1, <2>2 DEF Take, Busy, Rounds
  <2>3. CASE Chosen(queue) \notin visited
    BY <1>2, <1>9, <2>1, <2>3, RoundsFall DEF Take, Busy, Visited
  <2> QED
    BY <2>2, <2>3
<1> QED
  BY <1>5, <1>7, <1>8, <1>9 DEF Fetch

LEMMA FrontIsShorter ==
  ASSUME NEW S, NEW s \in Seq(S), s # <<>>
  PROVE  Len(Front(s)) = Len(s) - 1 /\ Len(s) \in Nat
<1> DEFINE n == Len(s) - 1
<1>1. Len(s) \in Nat \ {0} /\ DOMAIN s = 1..Len(s)
  BY EmptySeq, LenProperties
<1>2. n \in Nat /\ 1..n \subseteq 1..Len(s)
  BY <1>1
<1>3. \A i \in 1..n : s[i] \in S
  BY <1>1, <1>2, ElementOfSeq
<1>4. Front(s) = SubSeq(s, 1, n)
  BY DEF Front
<1> HIDE DEF n
<1>5. Len(SubSeq(s, 1, n)) = n
  BY <1>2, <1>3, SubSeqProperties
<1> QED
  BY <1>1, <1>4, <1>5 DEF n

LEMMA ShowAdvances ==
  ASSUME ClientInv, outcome # "running", UNCHANGED outcome, Show
  PROVE  Smaller(Left', Left)
<1>0. /\ UNCHANGED <<comments, status>>
      /\ comments \in Seq(Comment) /\ Len(comments) \in Nat /\ DOMAIN comments = 1..Len(comments)
      /\ rest \in Nat /\ shown \in Seq(Fetched) /\ thread \in Seq(Fetched)
      /\ status # "done" => rest = 0
  <2>1. UNCHANGED <<comments, status>>
    BY DEF Show, AppendNext, EndThread, EndThreads, AppendRest, commentVars, fetchVars
  <2> QED
    BY <2>1, LenProperties DEF ClientInv, DisplayInv, DisplayTypeOK
<1>1. status = "done"
  BY <1>0 DEF Show, AppendNext, EndThread, EndThreads, AppendRest, Ordering
<1>2. Left = ShowLeft /\ Left' = ShowLeft'
  BY <1>0, <1>1, LeftIs DEF Busy
<1>3. CASE AppendNext
  <2>1. PICK c \in Waiting : shown' = Append(shown, c) /\ rest' = rest
    BY <1>3 DEF AppendNext
  <2>2. Len(shown') = Len(shown) + 1 /\ Len(shown) \in Nat
    BY <1>0, <2>1, Appended DEF Waiting
  <2>3. (Len(comments) - Len(shown))' < Len(comments) - Len(shown)
    BY <1>0, <2>2
  <2>4. (Len(comments) + 1 - rest)' = Len(comments) + 1 - rest
    BY <1>0, <2>1
  <2> QED
    BY <1>2, <2>3, <2>4, TupleFalls DEF ShowLeft
<1>4. CASE EndThread
  <2>1. Len(thread') < Len(thread)
    BY <1>0, <1>4, FrontIsShorter DEF EndThread
  <2>2. UNCHANGED <<comments, shown, rest>>
    BY <1>0, <1>4 DEF EndThread
  <2> QED
    BY <1>2, <2>1, <2>2, TupleFalls DEF ShowLeft
<1>5. CASE EndThreads \/ AppendRest
  <2>1. rest' > rest /\ rest' \in Nat
    BY <1>0, <1>5 DEF EndThreads, AppendRest, Ordering
  <2>2. (Len(comments) + 1 - rest)' < Len(comments) + 1 - rest
    BY <1>0, <2>1
  <2> QED
    BY <1>2, <2>2, TupleFalls DEF ShowLeft
<1> QED
  BY <1>3, <1>4, <1>5 DEF Show

\* lessByTime has a first element: the comments with the least time, among them the
\* least id; comments without a time come last.
LEMMA FirstExists ==
  ASSUME time \in [Comment -> Nat], NEW S \in SUBSET Comment, S # {}
  PROVE  \E c \in S : \A d \in S \ {c} : Less(c, d)
<1>1. Comment \subseteq Nat
  BY CommentsAssumption DEF Comment
<1> DEFINE Timed == {c \in S : time[c] # 0}
<1> DEFINE U == IF Timed = {} THEN S ELSE Timed
<1>2. PICK t \in {time[c] : c \in U} : \A u \in {time[c] : c \in U} : t <= u
  <2>1. {time[c] : c \in U} \subseteq Nat /\ {time[c] : c \in U} # {}
    OBVIOUS
  <2> QED
    BY <2>1, Smallest
<1>3. PICK c \in {d \in U : time[d] = t} : \A d \in {e \in U : time[e] = t} : c <= d
  <2>1. {d \in U : time[d] = t} \subseteq Nat /\ {d \in U : time[d] = t} # {}
    BY <1>1, <1>2
  <2> QED
    BY <2>1, Smallest
<1>4. ASSUME NEW d \in S \ {c}
      PROVE  Less(c, d)
  <2>0. /\ c \in S /\ c \in Nat /\ d \in Nat /\ c # d
        /\ time[c] \in Nat /\ time[d] \in Nat /\ time[c] = t
    BY <1>1, <1>3, <1>4
  <2>1. CASE d \in U
    <3>1. time[c] <= time[d] /\ (time[d] = time[c] => c <= d)
      BY <1>2, <1>3, <2>0, <2>1
    <3>2. time[c] # time[d] => time[c] # 0
      BY <1>3, <2>0, <2>1
    <3> QED
      BY <2>0, <3>1, <3>2 DEF Less
  <2>2. CASE d \notin U
    <3>1. Timed # {} /\ time[d] = 0 /\ time[c] # 0
      BY <1>3, <1>4, <2>2
    <3> QED
      BY <3>1 DEF Less
  <2> QED
    BY <2>1, <2>2
<1> QED
  BY <1>3, <1>4

\* Whatever the sites, the gateway and the wiki answer, and whatever people post or delete
\* meanwhile: every step of the client leaves less to do, and the display finds a comment
\* to go on with.  GetPageComments skips what it has visited, which makes the difference.
THEOREM FetchAdvancesCorrect == Spec => FetchAdvances
<1>1. ASSUME ClientInv, [Next]_vars
      PROVE  [IF Resolve \/ Reading THEN Smaller(Left', Left) ELSE Left' = Left]_vars
  <2> SUFFICES ASSUME Next
               PROVE  IF Resolve \/ Reading THEN Smaller(Left', Left) ELSE Left' = Left
    BY <1>1
  <2> USE <1>1
  <2>1. ASSUME Resolve
        PROVE  Smaller(Left', Left)
    BY <2>1, ResolveAdvances DEF ClientInv
  <2>2. ASSUME Reading
        PROVE  Smaller(Left', Left)
    <3>1. outcome # "running" /\ UNCHANGED outcome /\ (Told \/ Show \/ Fetch)
      BY <2>2 DEF Reading, Read, authVars
    <3>2. CASE Told
      <4>1. Busy /\ ~Busy'
        BY <3>2 DEF Told, Finish, Busy
      <4>2. Left = FetchLeft /\ Left' = ShowLeft'
        BY <3>1, <4>1, LeftIs
      <4> QED
        BY <4>2, TupleFalls DEF FetchLeft, ShowLeft
    <3> QED
      BY <3>1, <3>2, ShowAdvances, FetchingAdvances DEF ClientInv
  <2>3. ASSUME ~Resolve, ~Reading
        PROVE  Left' = Left
    <3>1. /\ Post \/ DeletePage \/ \E c \in Comment : Delete(c)
          /\ UNCHANGED authVars /\ UNCHANGED showVars
      BY <2>3 DEF Next, Reading, Read, DisplayNext, CommentsNext
    <3>2. UNCHANGED fetchVars
      BY <3>1 DEF Post, DeletePage, Delete
    <3> QED
      BY <3>1, <3>2 DEF Left, Busy, authVars, fetchVars, showVars
  <2> QED
    BY <2>1, <2>2, <2>3
<1>2. ASSUME ClientInv, Ordering, Waiting # {}
      PROVE  \E c \in Waiting : \A d \in Waiting \ {c} : Less(c, d)
  <2>1. time \in [Comment -> Nat] /\ Waiting \in SUBSET Comment
    BY <1>2, RangeOfSeq DEF ClientInv, DisplayInv, DisplayTypeOK, Waiting, Fetched
  <2> QED
    BY <1>2, <2>1, FirstExists
<1> QED
  BY <1>1, <1>2, ClientInvariant, PTL DEF Spec, FetchAdvances

\* The last loop stops behind the last comment.
RestBound == rest <= Len(comments) + 1

LEMMA RestBounded == Spec => [](ClientInv /\ RestBound)
<1>1. ASSUME ClientInv, RestBound, [Next]_vars
      PROVE  RestBound'
  <2>0. /\ rest \in Nat /\ Len(comments) \in Nat /\ DOMAIN comments = 1..Len(comments)
        /\ status # "done" => rest = 0
    BY <1>1, LenProperties DEF ClientInv, DisplayInv, DisplayTypeOK
  <2>1. CASE UNCHANGED <<comments, rest>>
    BY <1>1, <2>1 DEF RestBound
  <2>2. CASE Show
    BY <1>1, <2>0, <2>2
    DEF RestBound, Show, AppendNext, EndThread, EndThreads, AppendRest, Ordering, commentVars,
        fetchVars
  <2>3. CASE status # "done" /\ UNCHANGED rest
    <3>1. rest' = 0 /\ Len(comments') \in Nat
      <4>1. ClientInv'
        BY <1>1, ClientStep
      <4> QED
        BY <2>0, <2>3, <4>1, LenProperties DEF ClientInv, DisplayInv, DisplayTypeOK
    <3> QED
      BY <3>1 DEF RestBound
  <2>4. ASSUME Told
        PROVE  UNCHANGED <<comments, rest>>
    BY <2>4 DEF Told, Finish
  <2>5. ASSUME Fetch, UNCHANGED showVars
        PROVE  status # "done" /\ UNCHANGED rest
    BY <2>5 DEF Fetch, Answer, NotFound, Fail, Take, showVars
  <2>6. ASSUME Post \/ DeletePage \/ \E c \in Comment : Delete(c), UNCHANGED showVars
        PROVE  UNCHANGED <<comments, rest>>
    BY <2>6 DEF Post, DeletePage, Delete, fetchVars, showVars
  <2>7. ASSUME UNCHANGED <<commentVars, showVars>>
        PROVE  UNCHANGED <<comments, rest>>
    BY <2>7 DEF commentVars, fetchVars, showVars
  <2>8. \/ UNCHANGED <<commentVars, showVars>> \/ Told \/ Show
        \/ UNCHANGED showVars /\ CommentsNext
    BY <1>1 DEF Next, Resolve, Read, DisplayNext, vars
  <2> QED
    BY <2>1, <2>2, <2>3, <2>4, <2>5, <2>6, <2>7, <2>8 DEF CommentsNext
<1>2. Init => RestBound
  <2>1. Init => rest = 0 /\ comments \in Seq(Comment)
    BY ClientInitial DEF ClientInv, FetchInv, TypeInv, Init, DisplayInit
  <2> QED
    BY <2>1, LenProperties DEF RestBound
<1> QED
  BY <1>1, <1>2, ClientInvariant, PTL DEF Spec

\* What is counted are numbers: with ComesToRest neither the fallbacks nor the fetch nor
\* the display goes on for ever.
THEOREM ClientLeftCorrect == Spec => [](Left \in [1..4 -> Nat])
<1>1. ASSUME ClientInv, RestBound
      PROVE  Left \in [1..4 -> Nat]
  <2>1. CASE outcome = "running"
    <3>1. Len(Sites) - site \in Nat
      BY <1>1, SitesAssumption DEF ClientInv, AuthInv, AuthTypeOK
    <3>2. [classic |-> 2, cloud |-> 1, scoped |-> 0][attempt] \in Nat
      BY <1>1 DEF ClientInv, AuthInv, AuthTypeOK
    <3> QED
      BY <2>1, <3>1, <3>2, LeftIs DEF ResolveLeft
  <2>2. CASE outcome # "running" /\ Busy
    <3>1. Rounds \in Nat /\ Len(queue) \in Nat
      BY <1>1, RoundsFall, LenProperties DEF ClientInv, FetchInv, TypeInv
    <3>2. N - cursor \in Nat
      BY <1>1, CommentsAssumption DEF ClientInv, FetchInv, TypeInv
    <3> QED
      BY <2>2, <3>1, <3>2, LeftIs DEF FetchLeft
  <2>3. CASE outcome # "running" /\ ~Busy
    <3>1. /\ comments \in Seq(Comment) /\ shown \in Seq(Comment) /\ rest \in Nat
          /\ Len(comments) \in Nat /\ Len(shown) \in Nat /\ Len(thread) \in Nat
          /\ Range(shown) \subseteq Range(comments)
          /\ \A i, j \in DOMAIN shown : i < j => shown[i] # shown[j]
      BY <1>1, RangeOfSeq, LenProperties
      DEF ClientInv, DisplayInv, DisplayTypeOK, OrderInv, Fetched
    <3>2. Len(shown) <= Len(comments)
      BY <3>1, NotLonger
    <3>3. Len(comments) + 1 - rest \in Nat /\ Len(comments) - Len(shown) \in Nat
      BY <1>1, <3>1, <3>2 DEF RestBound
    <3> QED
      BY <2>3, <3>1, <3>3, LeftIs DEF ShowLeft
  <2> QED
    BY <2>1, <2>2, <2>3
<1> QED
  BY <1>1, RestBounded, PTL

\* The guards of the client's steps, one part after the other.
Ready ==
  \/ outcome = "running"
  \/ /\ outcome = "resolved"
     /\ \/ status \in {"listing", "choosing"}
        \/ Ordering /\ (Waiting = {} \/ \E c \in Waiting : \A d \in Waiting \ {c} : Less(c, d))
        \/ rest \in DOMAIN comments

\* Until the end is reached the client has a next step.
THEOREM ClientNeverStuck == Spec => [](Ends \/ Ready)
<1>1. ASSUME ClientInv, ~Ends
      PROVE  Ready
  <2>1. outcome \in {"running", "resolved"} /\ status \in {"listing", "choosing", "done"}
    BY <1>1 DEF Ends, ClientInv, AuthInv, AuthTypeOK, FetchInv, TypeInv
  <2>2. CASE status = "done" /\ rest # 0
    <3>1. rest \in Nat /\ Len(comments) \in Nat /\ DOMAIN comments = 1..Len(comments)
      BY <1>1, LenProperties DEF ClientInv, DisplayInv, DisplayTypeOK
    <3> QED
      BY <1>1, <2>1, <2>2, <3>1 DEF Ends, Ordered, Ready
  <2>3. CASE status = "done" /\ rest = 0
    <3>1. time \in [Comment -> Nat] /\ Waiting \in SUBSET Comment
      BY <1>1, RangeOfSeq DEF ClientInv, DisplayInv, DisplayTypeOK, Waiting, Fetched
    <3> QED
      BY <2>1, <2>3, <3>1, FirstExists DEF Ready, Ordering
  <2> QED
    BY <2>1, <2>2, <2>3 DEF Ready
<1> QED
  BY <1>1, ClientInvariant, PTL

\* Also where the comments come after it, credential resolution falls back only after a
\* refusal, blames only what was refused, and gives every host its own tenant's client.
THEOREM ClientResolution == Spec => []ResolutionSound
<1>1. ClientInv => ResolutionSound
  BY DEF ClientInv, AuthInv
<1> QED
  BY <1>1, ClientInvariant, PTL

\* A comment that existed all the time, as did everything it replies to, is fetched by
\* the resolved client.
THEOREM ClientLasting == Spec => []LastingFetched
<1>1. ClientInv => LastingFetched
  BY FetchInvGives DEF ClientInv
<1> QED
  BY <1>1, ClientInvariant, PTL

\* However many comments are fetched, and whatever parents and times the server tells,
\* each is shown once, threads in pre-order by time and the rest behind them.
THEOREM ThreadsCorrect == Spec => []ShownInThreads
<1>1. ClientInv => ShownInThreads
  BY DisplayCorrect DEF ClientInv
<1> QED
  BY <1>1, ClientInvariant, PTL
=============================================================================
