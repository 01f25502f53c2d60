------------------------------- MODULE Rewriter ------------------------------
(***************************************************************************)
(* The rewrite pass over one page file (internal/links/rewriter.go): it    *)
(* finds the destinations of Markdown links outside code and replaces      *)
(* those of crawled pages by local paths.                                  *)
(*                                                                         *)
(* A destination starts with a word that is a URL, and may go on with a    *)
(* fragment or with the rest of a title.                                   *)
(***************************************************************************)
EXTENDS Render, FiniteSets, FiniteSetsExt

CONSTANTS PageOf,     \* the pages to which URLs lead, absolute or not
          Path,       \* the local paths of the crawled pages
          Fragments,  \* fragments of URLs
          Self        \* the page that is rewritten

\* The first position of S, or 0.
First(S) == IF S = {} THEN 0 ELSE Min(S)

\* The number of c from i on.
Run(s, i, c) == First({n \in 1..(Len(s) + 1 - i) : i + n > Len(s) \/ s[i + n] # c})

\* isEscaped: behind an odd number of backslashes.
IsEscaped(s, i) ==
  LET n == CHOOSE k \in 0..(i - 1) :
             /\ \A j \in (i - k)..(i - 1) : s[j] = "\\"
             /\ k = i - 1 \/ s[i - 1 - k] # "\\"
  IN  n % 2 = 1

\* The positions from i to j at which an unescaped c stands.
Unescaped(s, i, j, c) == {k \in i..j : s[k] = c /\ ~IsEscaped(s, k)}
Count(s, i, j, c) == Cardinality(Unescaped(s, i, j, c))

\* closesLinkLabel: a bracket before position i pairs with the one at i.
NearestBracket(s, i) ==                        \* Mutant of ClosesLinkLabel
  \E k \in 1..i : s[k] = "[" /\ \A j \in (k + 1)..(i - 1) : s[j] \notin {"[", "]"}
ClosesLinkLabel(s, i) ==
  \E k \in 1..i : Count(s, k, i, "]") = Count(s, k, i, "[")

\* linkDestination: where it begins and what follows it; <<0, 0>> if there is none.
None == <<0, 0>>
LinkDestination(s, start) ==
  LET begin == First({i \in start..Len(s) : s[i] # " "})
      close == First(Unescaped(s, begin + 1, Len(s), ">"))
      stop  == First({i \in begin..Len(s) :
                        /\ ~IsEscaped(s, i)
                        /\ \/ s[i] = " "
                           \/ /\ s[i] = ")"
                              /\ Count(s, begin, i - 1, "(") = Count(s, begin, i - 1, ")")})
  IN  CASE begin = 0 -> None
        [] begin # 0 /\ s[begin] = "<" ->
             IF close <= begin + 1 THEN None ELSE <<begin + 1, close>>
        [] OTHER -> IF stop <= begin THEN None ELSE <<begin, stop>>

\* codeSpanEnd: behind the next run of as many backticks, or behind this one.
CodeSpanEnd(s, start) ==
  LET n == Run(s, start, Tick)
      closing == First({i \in (start + n)..Len(s) :
                          s[i] = Tick /\ s[i - 1] # Tick /\ Run(s, i, Tick) = n})
  IN  IF closing = 0 THEN start + n ELSE closing + n

\* The link whose label ends at i.
LinkAt(s, i) ==
  IF /\ i < Len(s) /\ s[i] = "]" /\ s[i + 1] = "("
     /\ ~IsEscaped(s, i) /\ ClosesLinkLabel(s, i)
  THEN LinkDestination(s, i + 2) ELSE None

\* rewriteLineLinkDestinations: the destinations on a line, from left to right.
Destinations(s) ==
  LET From[i \in 1..(Len(s) + 1)] ==
        IF i > Len(s) THEN {}
        ELSE IF s[i] = Tick THEN From[CodeSpanEnd(s, i)]
        ELSE IF LinkAt(s, i) = None THEN From[i + 1]
        ELSE {LinkAt(s, i)} \cup From[LinkAt(s, i)[2]]
  IN  From[1]

\* localLinkTarget: a fragment of the page itself, a path, or the same.
LocalLinkTarget(d) ==
  LET fragment == SelectSeq(d, LAMBDA c : c \in Fragments)
  IN  CASE d[1] \notin DOMAIN PageOf -> d
        [] d[1] \in DOMAIN PageOf /\ PageOf[d[1]] = Self /\ fragment # <<>> -> fragment
        [] OTHER -> IF PageOf[d[1]] \in DOMAIN Path
                    THEN <<Path[PageOf[d[1]]]>> \o fragment ELSE d

\* s with its spans, pairs of a first position and the one behind, replaced by New.
Replaced(s, spans, New(_)) ==
  FoldRight(LAMBDA d, t : SubSeq(t, 1, d[1] - 1) \o New(SubSeq(t, d[1], d[2] - 1))
                          \o SubSeq(t, d[2], Len(t)),
            SetToSortSeq(spans, LAMBDA d, e : d[1] < e[1]), s)

RewriteLine(s) == Replaced(s, Destinations(s), LocalLinkTarget)

\* fenceRun: character, length and rest of a fence; length 0 if there is none.
FenceRun(s) ==
  LET start == First({i \in DOMAIN s : s[i] # " "})
      n     == IF start = 0 THEN 0 ELSE Run(s, start, s[start])
  IN  IF start \in 1..4 /\ s[start] \in {Tick, "~"} /\ n >= 3
      THEN [char |-> s[start], length |-> n, rest |-> SubSeq(s, start + n, Len(s))]
      ELSE [char |-> "", length |-> 0, rest |-> <<>>]

OpeningFence(s) ==
  LET f == FenceRun(s)
  IN  f.length > 0 /\ (f.char = Tick => ~Contains(f.rest, Tick))

ClosesFence(s, char, length) ==
  LET f == FenceRun(s)
  IN  f.char = char /\ f.length >= length /\ \A i \in DOMAIN f.rest : f.rest[i] = " "

\* rewriteLinkDestinations: one line; length is 0 outside fences.
RewriteStep(r, s) ==
  LET f == FenceRun(s)
      To(out, char, length) == [out |-> Append(r.out, out), char |-> char, length |-> length]
  IN  CASE r.length > 0 -> IF ClosesFence(s, r.char, r.length) THEN To(s, "", 0)
                           ELSE To(s, r.char, r.length)
        [] r.length = 0 /\ OpeningFence(s) -> To(s, f.char, f.length)
        [] OTHER -> To(RewriteLine(s), "", 0)

RewritePage(t) == FoldLeft(RewriteStep, [out |-> <<>>, char |-> "", length |-> 0], t).out
=============================================================================
