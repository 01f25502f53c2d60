------------------------------ MODULE Traversal ------------------------------
(***************************************************************************)
(* What a crawl session promises to its caller, without workers, queue,    *)
(* locks or depths: pages are found from the seeds along the links of good *)
(* pages, every found page is settled at most once, and a crawl reported   *)
(* as a success has settled all it found.                                  *)
(***************************************************************************)
CONSTANTS Pages, SeedPages

VARIABLES
  found,    \* the pages the crawl knows
  settled,  \* the pages that got their one answer
  lost,     \* the pages given up: dropped, or skipped when the context ended
  links,    \* links[p]: what a settled good page links to, else {}
  status    \* "running" or the verdict

tvars == <<found, settled, lost, links, status>>

Init ==
  /\ found = {} /\ settled = {} /\ lost = {}
  /\ links = [p \in Pages |-> {}]
  /\ status = "running"

Reached(p) == p \in SeedPages \/ \E q \in settled : p \in links[q]

\* A page is found, and at once lost if there is no room for it.
Find(p) ==
  /\ status = "running" /\ p \notin found /\ Reached(p)
  /\ found' = found \cup {p}
  /\ lost' \in {lost, lost \cup {p}}
  /\ UNCHANGED <<settled, links, status>>

\* A found page gets its answer; only a good one contributes links.
Settle(p) ==
  /\ status = "running" /\ p \in found \ (settled \cup lost)
  /\ settled' = settled \cup {p}
  /\ \E ls \in SUBSET Pages : links' = [links EXCEPT ![p] = ls]
  /\ UNCHANGED <<found, lost, status>>

Lose(p) ==
  /\ status = "running" /\ p \in found \ (settled \cup lost)
  /\ lost' = lost \cup {p}
  /\ UNCHANGED <<found, settled, links, status>>

\* The crawl ends when nothing is open, and is a success only without losses.
Return ==
  /\ status = "running"
  /\ SeedPages \subseteq found /\ found = settled \cup lost
  /\ status' \in {"ok", "cancelled", "saturated"}
  /\ status' = "ok" => lost = {}
  /\ UNCHANGED <<found, settled, lost, links>>

Next == Return \/ \E p \in Pages : Find(p) \/ Settle(p) \/ Lose(p)

Spec == Init /\ [][Next]_tvars
=============================================================================
