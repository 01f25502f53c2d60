-------------------------------- MODULE Client -------------------------------
(***************************************************************************)
(* A run finds its credentials (Auth), then fetches the comments of a page *)
(* (Comments) and orders them (Display).                                   *)
(***************************************************************************)
EXTENDS Auth, Display, FiniteSets, Measures

vars == <<authVars, commentVars, showVars>>

Init == AuthInit /\ DisplayInit

Resolve == AuthNext /\ UNCHANGED <<commentVars, showVars>>

\* Comments are fetched with the clients of a resolution that succeeded.
Read(Step) == outcome = "resolved" /\ Step /\ UNCHANGED authVars

Next == Resolve \/ Read(DisplayNext)

\* What the client does itself once it has its credentials.
Reading == Read(Told \/ Show \/ (Fetch /\ UNCHANGED showVars))

\* Every request is answered, or ends with the deadline of the client; the fetch goes on.
Fairness == WF_vars(Resolve) /\ WF_vars(Reading)

Spec == Init /\ [][Next]_vars /\ Fairness

-----------------------------------------------------------------------------
\* A run finds out that its credentials fail, or the comments arrive or their fetch
\* fails: neither the fallbacks nor the pages and threads of comments go on for ever.
Ends == outcome = "failed" \/ status = "failed" \/ Ordered
FetchEnds == <>Ends

\* What is left to do, most significant first: sites and attempts; then comments to list,
\* those that are queued, and those that the listing has not passed; then comments to go
\* through, comments to append, calls of appendThread to return from.
Left ==
  IF outcome = "running"
  THEN <<2, Len(Sites) - site, [classic |-> 2, cloud |-> 1, scoped |-> 0][attempt], 0>>
  ELSE IF Busy
  THEN <<1, 2 * Cardinality(Comment \ visited) + (IF status = "listing" THEN 1 ELSE 0),
         Len(queue), N - cursor>>
  ELSE <<0, Len(comments) + 1 - rest, Len(comments) - Len(shown), Len(thread)>>

\* What FetchEnds rests on: every answer, whichever it is, and every step of the display
\* leaves less to do, nothing that people do meanwhile adds to it, and as long as the end
\* is not reached there is a next step: a comment that comes first among those of a
\* thread, whatever times the server told.
FetchAdvances ==
  /\ [][IF Resolve \/ Reading THEN Smaller(Left', Left) ELSE Left' = Left]_vars
  /\ [](Ordering /\ Waiting # {} => \E c \in Waiting : \A d \in Waiting \ {c} : Less(c, d))
=============================================================================
