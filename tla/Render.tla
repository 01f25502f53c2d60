-------------------------------- MODULE Render -------------------------------
(***************************************************************************)
(* From a document to Markdown (internal/convert): the blocks that decide  *)
(* where code begins and ends, the marks of text, and normalizeMarkdown.   *)
(*                                                                         *)
(* A line is a sequence of words and of the characters that some step      *)
(* treats specially; a text is a nonempty sequence of lines, the last of   *)
(* which has no line ending.                                               *)
(***************************************************************************)
EXTENDS Naturals, Sequences, SequencesExt

Tick == "tick"  \* a backtick
Fence == <<Tick, Tick, Tick>>

\* Texts: empty, n line endings, the text t behind b.
Empty == << <<>> >>
Ends(n) == [i \in 1..(n + 1) |-> <<>>]
Write(b, t) == Front(b) \o <<Last(b) \o Head(t)>> \o Tail(t)

Spaces(n) == [i \in 1..n |-> " "]

\* strings.TrimSpace of a line, strings.TrimRight(_, "\n") of a text.
TrimSpace(line) ==
  LET kept == {i \in DOMAIN line : line[i] # " "}
  IN  IF kept = {} THEN <<>>
      ELSE SubSeq(line, CHOOSE i \in kept : \A j \in kept : i <= j,
                        CHOOSE i \in kept : \A j \in kept : j <= i)
TrimEnds(t) ==
  LET last == SelectLastInSeq(t, LAMBDA line : line # <<>>)
  IN  IF last = 0 THEN Empty ELSE SubSeq(t, 1, last)

\* ensureBlankLine: the next block starts behind a blank line.
EnsureBlankLine(b) ==
  LET ended == Len(b) >= 2 /\ Last(b) = <<>>
      blank == ended /\ Len(b) >= 3 /\ b[Len(b) - 1] = <<>>
  IN  CASE b = Empty \/ blank -> b
        [] b # Empty /\ ended /\ ~blank -> Write(b, Ends(1))
        [] OTHER -> Write(b, Ends(2))

\* ApplyMarks: code inside link inside strong.  Nothing is escaped.
ApplyMarks(piece) ==
  LET code == IF "code" \in piece.marks THEN <<Tick>> \o piece.text \o <<Tick>> ELSE piece.text
      link == IF piece.href = <<>> THEN code
              ELSE <<"[">> \o code \o <<"]", "(">> \o piece.href \o <<")">>
  IN  IF "strong" \in piece.marks THEN <<"**">> \o link \o <<"**">> ELSE link

Inline(pieces) == FlattenSeq([i \in DOMAIN pieces |-> ApplyMarks(pieces[i])])

\* Blocks without blocks inside.
Paragraph(b, line) ==
  IF TrimSpace(line) = <<>> THEN b
  ELSE Write(Write(EnsureBlankLine(b), <<line>>), Ends(2))

Heading(b, line) == Write(Write(EnsureBlankLine(b), << <<"#", " ">> \o line >>), Ends(2))

CodeBlock(b, lines) == Write(b, <<Fence>> \o lines \o <<Fence, <<>>, <<>> >>)

Card(b, line) == Write(b, << <<>>, line, <<>>, <<>> >>)

Media(b, line) == EnsureBlankLine(Write(EnsureBlankLine(b), << <<"!">> \o line >>))

Task(b, line, depth) ==
  Write(b, << Spaces(2 * depth) \o <<"-", " ", "[", "x", "]", " ">> \o line, <<>> >>)

\* A list item: behind the marker, the other lines indented as far as the first.
Marker(kind) == IF kind = "ordered" THEN <<"1", ".", " ">> ELSE <<"-", " ">>
ItemLines(t, kind, depth) ==
  LET indent == Spaces(2 * depth)
  IN  [i \in DOMAIN t |->
         IF i = 1 THEN indent \o Marker(kind) \o t[i]
         ELSE IF TrimSpace(t[i]) # <<>> THEN indent \o Spaces(Len(Marker(kind))) \o t[i]
         ELSE <<>>]

\* A block quote, or a panel: there the first line has a label.
QuoteLines(t, label) ==
  [i \in DOMAIN t |-> <<">", " ">> \o (IF i = 1 THEN label ELSE <<>>) \o t[i]]

\* Walk: a node behind the text b, inside depth lists.
RECURSIVE Walk(_, _, _)
WalkAll(b, nodes, depth) == FoldLeft(LAMBDA c, node : Walk(c, node, depth), b, nodes)
Inner(nodes, depth) == TrimEnds(WalkAll(Empty, nodes, depth))

List(b, node, depth) ==
  LET Item(c, nodes) ==
        Write(c, ItemLines(Inner(nodes, depth + 1), node.kind, depth) \o << <<>> >>)
  IN  Write(FoldLeft(Item, b, node.items), Ends(1))

Tasks(b, node, depth) ==
  LET Item(c, pieces) == Task(c, Inline(pieces), depth)
  IN  Write(FoldLeft(Item, b, node.items), Ends(1))

Quote(b, node, depth) ==
  Write(b, QuoteLines(Inner(node.content, depth), node.label) \o << <<>>, <<>> >>)

Expand(b, node, depth) ==
  LET titled == << <<"**">> \o node.title \o <<"**">>, <<>>, <<>> >>
  IN  WalkAll(IF node.title = <<>> THEN b ELSE Write(b, titled), node.content, depth)

Walk(b, node, depth) ==
  CASE node.type = "paragraph" -> Paragraph(b, Inline(node.content))
    [] node.type = "heading" -> Heading(b, Inline(node.content))
    [] node.type = "card" -> Card(b, Inline(node.content))
    [] node.type = "media" -> Media(b, Inline(node.content))
    [] node.type = "rule" -> Write(b, << <<"---">>, <<>>, <<>> >>)
    [] node.type = "code" -> CodeBlock(b, node.lines)
    [] node.type = "list" -> List(b, node, depth)
    [] node.type = "tasks" -> Tasks(b, node, depth)
    [] node.type = "quote" -> Quote(b, node, depth)
    [] node.type = "expand" -> Expand(b, node, depth)
    [] OTHER -> WalkAll(b, node.content, depth)

-----------------------------------------------------------------------------
Starts(line, s) == IsPrefix(s, line)

Separated(t) == IF t # <<>> /\ Last(t) # <<>> THEN Append(t, <<>>) ELSE t

\* normalizeMarkdown, one line: s.out is the result so far, s.fenced whether the
\* line is code.
Outside(s, line) ==
  LET t == TrimSpace(line)
  IN  CASE t = <<"---">> \/ Starts(t, <<"#", " ">>) -> Separated(s.out) \o <<t, <<>> >>
        [] t = <<>> -> Separated(s.out)
        [] OTHER -> Append(s.out, line)

CollapseAll(s, line) ==                        \* Mutant of NormalizeLine
  LET fence == Starts(TrimSpace(line), Fence)
  IN  [out |-> IF fence THEN Append(s.out, TrimSpace(line)) ELSE Outside(s, line),
       fenced |-> IF fence THEN ~s.fenced ELSE s.fenced]
NormalizeLine(s, line) ==
  LET fence == Starts(TrimSpace(line), Fence)
  IN  [out |-> CASE fence -> Append(s.out, TrimSpace(line))
                 [] ~fence /\ s.fenced -> Append(s.out, line)
                 [] OTHER -> Outside(s, line),
       fenced |-> IF fence THEN ~s.fenced ELSE s.fenced]

NormalizeMarkdown(t) == FoldLeft(NormalizeLine, [out |-> <<>>, fenced |-> FALSE], t).out

\* ToMarkdown.  No line at all is an empty text.
ToMarkdown(nodes) ==
  LET t == NormalizeMarkdown(WalkAll(Empty, nodes, 0))
  IN  IF t = <<>> THEN Empty ELSE t
=============================================================================
