------------------------------- MODULE Display -------------------------------
(***************************************************************************)
(* The display order of fetched comments (orderCommentsForDisplay in       *)
(* internal/convert/comments.go): threads by time, whatever parents and    *)
(* times the server told.                                                  *)
(***************************************************************************)
EXTENDS Comments

CONSTANTS Parents,  \* what the server may tell of the parents, besides the truth
          Times     \* and of the times; 0 stands for a time that is missing

ASSUME DisplayAssumption ==
  Parents \subseteq [Comment -> Nat] /\ Times \subseteq [Comment -> Nat] /\ Times # {}

VARIABLES
  told,    \* the parents the server told
  time,    \* the times
  thread,  \* the calls of appendThread under way: what they append replies to
  rest,    \* the loop over what is in no thread: 0 before it, then its next index
  shown    \* the comments as displayed, so far

showVars == <<told, time, thread, rest, shown>>

DisplayInit ==
  /\ CommentsInit
  /\ told = under /\ time = [c \in Comment |-> 0]
  /\ thread = <<>> /\ rest = 0 /\ shown = <<>>

\* What the server told is chosen when the fetch has finished.
Told ==
  /\ Finish
  /\ told' \in Parents \cup {under} /\ time' \in Times
  /\ UNCHANGED <<thread, rest, shown>>

-----------------------------------------------------------------------------
(* orderCommentsForDisplay: threads, then whatever is left. *)

\* lessByTime: comments without a time come last.
ZeroFirst(c, d) ==                             \* Mutant of Less
  IF time[c] = time[d] THEN c < d ELSE time[c] < time[d]
Less(c, d) ==
  IF time[c] = time[d] THEN c < d
  ELSE time[c] # 0 /\ (time[d] = 0 \/ time[c] < time[d])

Fetched == Range(comments)

\* Comments that reply to nothing, or to nothing that was fetched.
IsRoot(c) == told[c] = Root \/ told[c] \notin Fetched
Parent(c) == IF IsRoot(c) THEN Root ELSE told[c]

\* The call of appendThread that runs, or the loop over the root comments.
Current == IF thread = <<>> THEN Root ELSE Last(thread)
Waiting == {c \in Fetched \ Range(shown) : Parent(c) = Current}

Ordering == status = "done" /\ rest = 0

\* The next of the sorted comments is appended, then what replies to it.
AppendNext ==
  /\ Ordering
  /\ \E c \in Waiting :
       /\ \A d \in Waiting \ {c} : Less(c, d)
       /\ shown' = Append(shown, c) /\ thread' = Append(thread, c)
  /\ UNCHANGED <<commentVars, told, time, rest>>

\* appendThread has appended everything, and returns.
EndThread ==
  /\ Ordering /\ thread # <<>> /\ Waiting = {}
  /\ thread' = Front(thread)
  /\ UNCHANGED <<commentVars, told, time, rest, shown>>

\* After the last root: that was all, or there are comments in no thread.
EndThreads ==
  /\ Ordering /\ thread = <<>> /\ Waiting = {}
  /\ rest' = IF Len(shown) = Len(comments) THEN Len(comments) + 1 ELSE 1
  /\ UNCHANGED <<commentVars, told, time, thread, shown>>

\* They follow as they were fetched.
AppendRest ==
  /\ rest \in DOMAIN comments
  /\ shown' = IF comments[rest] \in Range(shown) THEN shown
              ELSE Append(shown, comments[rest])
  /\ rest' = rest + 1
  /\ UNCHANGED <<commentVars, told, time, thread>>

Show == AppendNext \/ EndThread \/ EndThreads \/ AppendRest

DisplayNext == Told \/ Show \/ (CommentsNext /\ UNCHANGED showVars)

-----------------------------------------------------------------------------
Ordered == rest > Len(comments)

\* The comments in S, what replies to them, what replies to that, and so on: the
\* smallest set with them and with every reply to a member.
HasReplies(S) == \A c \in Fetched : told[c] \in S => c \in S
Below(S) ==
  {c \in Fetched : \A U \in SUBSET Fetched : S \subseteq U /\ HasReplies(U) => c \in U}

InThreads == Below({c \in Fetched : IsRoot(c)})

\* By time, those without a time last; comments of one time by id.
Earlier(c, d) ==
  /\ time[c] = 0 => time[d] = 0
  /\ time[d] # 0 => time[c] <= time[d]
  /\ time[c] = time[d] => c < d

\* What is shown at c is shown before what is shown at d.
InOrder(c, d) ==
  IF d \in InThreads THEN c \in InThreads /\ (Parent(c) = Parent(d) => Earlier(c, d))
  ELSE c \in InThreads \/ \E m, n \in DOMAIN comments :
                             m < n /\ comments[m] = c /\ comments[n] = d

\* Every fetched comment is shown exactly once: a reply somewhere behind what it
\* replies to, with nothing between them that does not belong below that; at each
\* level by time; comments on a cycle at the end, in the order they were fetched.
ShownInThreads ==
  Ordered =>
    /\ Range(shown) = Fetched
    /\ \A j \in DOMAIN shown :
         shown[j] \in InThreads /\ ~IsRoot(shown[j])
           => \E i \in 1..(j - 1) : shown[i] = told[shown[j]]
    /\ \A i, j \in DOMAIN shown : i < j =>
         /\ shown[i] # shown[j]
         /\ InOrder(shown[i], shown[j])
         /\ \A k \in DOMAIN shown :
              j < k /\ shown[i] \in InThreads /\ shown[k] \in Below({shown[i]})
                => shown[j] \in Below({shown[i]})
=============================================================================
