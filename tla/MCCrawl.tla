------------------------------- MODULE MCCrawl -------------------------------
(***************************************************************************)
(* Instances of Crawl for TLC: the pages, the workers, the seeds and the   *)
(* lists of links that a page may report.  Two lists for a page stand for  *)
(* a page whose children or label search may fail, which is not an error.  *)
(***************************************************************************)
EXTENDS Crawl, TLC

CONSTANTS s1, s2, s3, a, b, w1, w2

\* Two seeds that share a child; the children link back to the seeds.
SharedSeeds == <<s1, s2>>
SharedLinks == (s1 :> {<<a, b>>, <<a>>}) @@ (s2 :> {<<a>>})
               @@ (a :> {<<s1, b>>}) @@ (b :> {<<s2>>})

\* Three seeds without links.
BareSeeds == <<s1, s2, s3>>
BareLinks == (s1 :> {<<>>}) @@ (s2 :> {<<>>}) @@ (s3 :> {<<>>})
=============================================================================
