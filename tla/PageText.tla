------------------------------- MODULE PageText ------------------------------
(***************************************************************************)
(* The text of one page through all its passes: converted from the         *)
(* document (Render), links made absolute and named, attachments made      *)
(* local, comments appended (cmd/crawler), and at the end of the run the   *)
(* rewrite pass (Rewriter), which a later run repeats.                     *)
(***************************************************************************)
EXTENDS Rewriter

CONSTANTS Bodies,    \* the documents of pages
          Threads,   \* the documents of comments, in display order
          PageTitle, \* the title of the page
          Listings,  \* what a label search may find: links as pieces of text
          Origin,    \* the absolute URLs of links that start at the root
          Title,     \* the titles of pages
          SavedAs    \* the local paths of the attachments that can be saved

VARIABLES
  body, thread,      \* the document and its comments
  related,           \* the pages that a label search found
  named, saved,      \* the pages whose titles, the attachments whose files arrive
  stage,             \* the pass that ran last
  text               \* the Markdown text

vars == <<body, thread, related, named, saved, stage, text>>

-----------------------------------------------------------------------------
\* hasLeadingTitleH1.
HasLeadingTitleH1(t) ==
  LET first == SelectInSeq(t, LAMBDA line : TrimSpace(line) # <<>>)
  IN  first # 0 /\ TrimSpace(t[first]) = <<"#", " ">> \o PageTitle

\* processFullNode: the title, unless it is there, the document, and related pages.
PageMarkdown(nodes, found) ==
  LET t     == ToMarkdown(nodes)
      title == << <<"#", " ">> \o PageTitle, <<>>, <<>> >>
      list  == [i \in DOMAIN found |-> <<"-", " ">> \o ApplyMarks(found[i])]
      head  == << <<>>, <<>>, <<"##", " ", "Related">>, <<>> >>
      titled == IF HasLeadingTitleH1(t) THEN t ELSE Write(title, t)
  IN  IF found = <<>> THEN titled ELSE Write(titled, head \o list \o << <<>> >>)

InEachLine(t, F(_)) == [i \in DOMAIN t |-> F(t[i])]

\* "](d)" with d at position k and, if Whole, nothing but d between the parentheses.
Target(s, k) ==
  /\ k > 2 /\ s[k - 1] = "(" /\ s[k - 2] = "]"
  /\ \E j \in (k + 1)..Len(s) : s[j] = ")" /\ \A i \in k..(j - 1) : s[i] # " "

\* absolutizeConfluenceLinks: anywhere in the text, in code too.
AbsoluteLine(s) ==
  [k \in DOMAIN s |-> IF s[k] \in DOMAIN Origin /\ Target(s, k) THEN Origin[s[k]] ELSE s[k]]

\* enrichURLOnlyLinkLabels: a label that repeats its URL becomes the title.
UrlOnly(s, i, d) == IsPrefix(<<"[">> \o d \o <<"]", "(">> \o d \o <<")">>, SubSeq(s, i, Len(s)))
PageUrls == {<<u>> : u \in DOMAIN Title} \cup {<<u, f>> : u \in DOMAIN Title, f \in Fragments}
EnrichLine(s) ==
  LET known  == {d \in PageUrls : PageOf[d[1]] \in named}
      labels == UNION {{<<i + 1, i + 1 + Len(d)>> : d \in {e \in known : UrlOnly(s, i, e)}}
                         : i \in DOMAIN s}
  IN  Replaced(s, labels, LAMBDA d : Title[d[1]])

\* rewriteAttachmentLinks.
AttachedLine(s) ==
  [k \in DOMAIN s |-> IF s[k] \in saved /\ Target(s, k) THEN SavedAs[s[k]] ELSE s[k]]

\* CommentsToMarkdown: each body is a document of its own; one that renders as nothing
\* stays JSON.
CommentsToMarkdown(docs) ==
  LET rendered(nodes) == IF ToMarkdown(nodes) = Empty THEN << <<"json">> >> ELSE ToMarkdown(nodes)
      Comment(t, nodes) ==
        Write(Write(Write(t, << <<"author">>, <<"date">>, <<>> >>), rendered(nodes)), Ends(2))
  IN  TrimEnds(FoldLeft(Comment, << <<"##", " ", "Comments">>, <<>>, <<>> >>, docs))

AppendComments(t, docs) ==
  IF docs = <<>> THEN t
  ELSE Write(Write(Write(TrimEnds(t), Ends(2)), CommentsToMarkdown(docs)), Ends(1))

-----------------------------------------------------------------------------
Init ==
  /\ body \in Bodies /\ thread \in Threads /\ related \in Listings
  /\ named \in SUBSET {PageOf[u] : u \in DOMAIN Title}
  /\ saved \in SUBSET DOMAIN SavedAs
  /\ stage = "fetched" /\ text = Empty

Pass(from, to, t) ==
  /\ stage = from
  /\ stage' = to /\ text' = t
  /\ UNCHANGED <<body, thread, related, named, saved>>

Convert    == Pass("fetched", "converted", PageMarkdown(body, related))
Absolutize == Pass("converted", "absolute", InEachLine(text, AbsoluteLine))
Enrich     == Pass("absolute", "enriched", InEachLine(text, EnrichLine))
Attach     == Pass("enriched", "attached", InEachLine(text, AttachedLine))
Comments   == Pass("attached", "written", AppendComments(text, thread))
Rewrite    == Pass("written", "local", RewritePage(text))
RewriteAgain == Pass("local", "again", RewritePage(text))

Next == Convert \/ Absolutize \/ Enrich \/ Attach \/ Comments \/ Rewrite \/ RewriteAgain

Spec == Init /\ [][Next]_vars

-----------------------------------------------------------------------------
(* What the text should be: the document with other links, converted once. *)

\* Where a link leads after the passes; only the body's are made absolute.
Absolute(d, inBody) ==
  IF inBody /\ d[1] \in DOMAIN Origin THEN <<Origin[d[1]]>> \o Tail(d) ELSE d
Localised(d) ==
  LET anchor == SelectSeq(d, LAMBDA c : c \in Fragments)
  IN  IF d[1] \in DOMAIN PageOf /\ PageOf[d[1]] \in DOMAIN Path
      THEN IF PageOf[d[1]] = Self /\ anchor # <<>> THEN anchor
           ELSE <<Path[PageOf[d[1]]]>> \o anchor
      ELSE d

Kept(piece, inBody) ==
  LET d     == Absolute(piece.href, inBody)
      title == /\ inBody /\ "code" \notin piece.marks
               /\ d \in PageUrls /\ piece.text = d /\ PageOf[d[1]] \in named
  IN  CASE piece.href = <<>> -> piece
        [] piece.href # <<>> /\ inBody /\ d[1] \in saved ->
             [piece EXCEPT !.href = <<SavedAs[d[1]]>>]
        [] OTHER -> [piece EXCEPT !.href = Localised(d),
                                  !.text = IF title THEN Title[d[1]] ELSE @]

RECURSIVE KeptNode(_, _)
KeptNodes(nodes, inBody) == [i \in DOMAIN nodes |-> KeptNode(nodes[i], inBody)]
KeptPieces(pieces, inBody) == [i \in DOMAIN pieces |-> Kept(pieces[i], inBody)]
KeptNode(node, inBody) ==
  CASE node.type \in {"code", "rule"} -> node
    [] node.type \in {"paragraph", "heading", "card", "media"} ->
         [node EXCEPT !.content = KeptPieces(@, inBody)]
    [] node.type = "tasks" ->
         [node EXCEPT !.items = [i \in DOMAIN @ |-> KeptPieces(@[i], inBody)]]
    [] node.type = "list" ->
         [node EXCEPT !.items = [i \in DOMAIN @ |-> KeptNodes(@[i], inBody)]]
    [] OTHER -> [node EXCEPT !.content = KeptNodes(@, inBody)]

Expected ==
  AppendComments(PageMarkdown(KeptNodes(body, TRUE), KeptPieces(related, TRUE)),
                 [i \in DOMAIN thread |-> KeptNodes(thread[i], FALSE)])

-----------------------------------------------------------------------------
\* The rewrite pass ends with the text that the document gives when exactly its links
\* are made local: no link is missed behind nested brackets, code, comments or a
\* block that ends late, and nothing else changes, least of all links that code shows.
\* A second pass, as the next run makes it, changes nothing.
Exact == stage \in {"local", "again"} => text = Expected

\* Code comes out as it went in, line by line between two fences, with its blank
\* lines and whatever in it looks like a heading or a rule.
CodeKept ==
  stage \in {"local", "again"} =>
    \A i \in DOMAIN body : body[i].type = "code" =>
      \E k \in DOMAIN text :
        IsPrefix(<<Fence>> \o body[i].lines \o <<Fence>>, SubSeq(text, k, Len(text)))

\* The same of every document, as docs/operations.md:111-113 has it.
LinksLocalised == stage = "local" => text = Expected
=============================================================================
