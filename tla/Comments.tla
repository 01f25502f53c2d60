------------------------------- MODULE Comments ------------------------------
(***************************************************************************)
(* Fetching the comments of a page (internal/confluence/comments_client.go)*)
(* while people post and delete comments: the page's own comments, then    *)
(* the replies to each comment, page by page.                              *)
(*                                                                         *)
(* The server's cursors: a listing goes on behind the last comment it gave,*)
(* in the order in which comments were posted.                             *)
(***************************************************************************)
EXTENDS Naturals, Sequences, SequencesExt, Functions

CONSTANTS N,      \* at most this many comments are ever posted
          Limit   \* at most this many in one answer

Comment == 1..N
Root == 0  \* what the page's own comments reply to

VARIABLES
  under,     \* what each comment replies to
  page,      \* whether the page exists
  posted,    \* how many comments were posted; they are 1..posted
  alive,     \* the comments that exist
  at,        \* what is listed: Root or a comment
  cursor,    \* the last comment the listing gave
  batch,     \* what it gave so far
  queue,     \* comments whose replies are still to be listed
  visited,   \* comments whose replies were listed
  comments,  \* the result so far
  status,    \* "listing", "choosing", "done" or "failed"
  lasting    \* history: the comments that exist since the fetch began

wikiVars  == <<page, posted, alive, lasting>>
fetchVars == <<at, cursor, batch, queue, visited, comments, status>>
commentVars == <<under, wikiVars, fetchVars>>

ASSUME CommentsAssumption == N \in Nat /\ Limit \in Nat \ {0}

CommentsInit ==
  /\ under \in {f \in [Comment -> 0..N] : \A c \in Comment : f[c] < c}
  /\ page = TRUE
  /\ posted \in 0..N
  /\ alive = {c \in 1..posted : under[c] = Root \/ under[c] \in 1..posted}
  /\ at = Root /\ cursor = 0 /\ batch = <<>>
  /\ queue = <<>> /\ visited = {} /\ comments = <<>>
  /\ status = "listing"
  /\ lasting = alive

Busy == status \in {"listing", "choosing"}

-----------------------------------------------------------------------------
(* Meanwhile in the wiki. *)

Post ==
  /\ Busy /\ page /\ posted < N
  /\ under[posted + 1] \in alive \cup {Root}
  /\ posted' = posted + 1 /\ alive' = alive \cup {posted + 1}
  /\ UNCHANGED <<under, page, lasting, fetchVars>>

\* A comment goes alone: its replies may stay.
Delete(c) ==
  /\ Busy /\ c \in alive
  /\ alive' = alive \ {c} /\ lasting' = lasting \ {c}
  /\ UNCHANGED <<under, page, posted, fetchVars>>

DeletePage ==
  /\ Busy /\ page
  /\ page' = FALSE /\ alive' = {} /\ lasting' = {}
  /\ UNCHANGED <<under, posted, fetchVars>>

-----------------------------------------------------------------------------
Exists == IF at = Root THEN page ELSE at \in alive

\* The comments that the listing has yet to give.
Remaining == {c \in alive : under[c] = at /\ c > cursor}

\* What one answer may give: the next of them in order, and nothing only at the end.
Portions ==
  {found \in BoundedSeq(Remaining, Limit) :
     /\ \A i, j \in DOMAIN found : i < j => found[i] < found[j]
     /\ \A c \in Range(found), d \in Remaining \ Range(found) : c < d
     /\ found = <<>> => Remaining = {}}

\* fetchV2CommentsFromEndpoint returns: its comments are kept and queued.
Return(found) ==
  /\ comments' = comments \o found
  /\ queue' = queue \o found
  /\ status' = "choosing"
  /\ UNCHANGED <<at, cursor, batch, visited>>

Answer ==
  /\ status = "listing" /\ Exists
  /\ \E found \in Portions :
       IF Range(found) = Remaining THEN Return(batch \o found)
       ELSE /\ cursor' = Last(found) /\ batch' = batch \o found
            /\ UNCHANGED <<at, queue, visited, comments, status>>
  /\ UNCHANGED <<under, wikiVars>>

\* 404: no error; what came so far is the result.
NotFound ==
  /\ status = "listing" /\ ~Exists
  /\ Return(batch)
  /\ UNCHANGED <<under, wikiVars>>

\* Any other failure fails the whole fetch.
Fail ==
  /\ status = "listing"
  /\ status' = "failed" /\ comments' = <<>>
  /\ UNCHANGED <<under, wikiVars, at, cursor, batch, queue, visited>>

\* GetPageComments: the next comment of the queue, unless it was visited.
LastFirst(q) == Last(q)                        \* Mutant of Chosen
Chosen(q) == Head(q)
KeepHead(q) == q                               \* Mutant of Popped
Popped(q) == Tail(q)
Forgotten(c) == visited                        \* Mutant of Visited
Visited(c) == visited \cup {c}
Take ==
  /\ status = "choosing" /\ queue # <<>>
  /\ queue' = Popped(queue)
  /\ IF Chosen(queue) \in visited THEN UNCHANGED <<at, cursor, batch, visited, status>>
     ELSE /\ at' = Chosen(queue) /\ cursor' = 0 /\ batch' = <<>>
          /\ visited' = Visited(Chosen(queue))
          /\ status' = "listing"
  /\ UNCHANGED <<under, wikiVars, comments>>

Finish ==
  /\ status = "choosing" /\ queue = <<>>
  /\ status' = "done"
  /\ UNCHANGED <<under, wikiVars, at, cursor, batch, queue, visited, comments>>

Fetch == Answer \/ NotFound \/ Fail \/ Take
CommentsNext == Fetch \/ Post \/ DeletePage \/ \E c \in Comment : Delete(c)

\* The fetch by itself; Display goes on from its end.
CommentsSpec == CommentsInit /\ [][CommentsNext \/ Finish]_commentVars

-----------------------------------------------------------------------------
\* A comment that existed all the time, as did everything it replies to, is fetched,
\* whatever is posted or deleted between the requests and whichever 404 follows.
LastingFetched ==
  status = "done" =>
    \A kept \in SUBSET lasting :
      (\A c \in kept : under[c] \in kept \cup {Root}) => kept \subseteq Range(comments)
=============================================================================
