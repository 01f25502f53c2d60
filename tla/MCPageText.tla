------------------------------ MODULE MCPageText -----------------------------
(* Documents for TLC.  a, me: crawled pages; b: another page; x: another site.  *)
EXTENDS PageText

MCPageOf == ("a" :> "a" @@ "/a" :> "a" @@ "b" :> "b" @@ "/b" :> "b" @@ "/me" :> "me" @@ "me" :> "me"
             @@ "id=a" :> "a")
MCPath   == ("a" :> "a.md" @@ "me" :> "me.md")
MCOrigin == ("/a" :> "a" @@ "/b" :> "b" @@ "/me" :> "me")
MCTitle  == ("a" :> <<"[", "w", "]", " ", "w">> @@ "b" :> <<"w">>)
MCSaved  == ("file" :> "saved")

Said(t) == [text |-> t, href |-> <<>>, marks |-> {}]
Link(t, d) == [text |-> t, href |-> d, marks |-> {}]
Shown(t) == [text |-> t, href |-> <<>>, marks |-> {"code"}]

Para(pieces) == [type |-> "paragraph", content |-> pieces]
LinkText(d) == <<"[", "w", "]", "(", d, ")">>
CodeLines == <<LinkText("a"), <<>>, <<>>, <<"#", " ", "w">> >>
Coded(lines) == [type |-> "code", lines |-> lines]
Listed(kind, items) == [type |-> "list", kind |-> kind, items |-> items]

MCPageTitle == <<"[", "w", "]">>
MCListings == {<<>>, <<Link(MCPageTitle, <<"id=a">>)>>}

ToA == Para(<<Said(<<"w", " ">>), Link(<<"w">>, <<"a">>)>>)

\* Blocks whose code holds no rooted or URL-only link, and no fence; text that is not
\* code has balanced brackets, no backtick and no backslash.
Nodes == {
  ToA,
  Para(<<Shown(LinkText("a")), Said(<<" ", "[", "w", "]", " ">>), Link(<<"w">>, <<"/a", "#f">>)>>),
  Para(<<Link(<<"[", "w", "]", "w">>, <<"/b">>), Link(<<"w">>, <<"x">>)>>),
  Para(<<[text |-> <<"w">>, href |-> <<"/me", "#f">>, marks |-> {"code", "strong"}]>>),
  Para(<<Link(<<"w">>, <<"a", "(", "w", ")">>)>>),
  [type |-> "card", content |-> <<Link(<<"a", "#f">>, <<"a", "#f">>)>>],
  [type |-> "card", content |-> <<Link(<<"/b">>, <<"/b">>)>>],
  [type |-> "heading", content |-> <<Link(<<"b">>, <<"b">>)>>],
  [type |-> "media", content |-> <<Link(<<"w">>, <<"file">>)>>],
  [type |-> "heading", content |-> <<Said(MCPageTitle)>>],
  [type |-> "rule"],
  Coded(CodeLines),
  Coded(<< <<"-", "-", "-">> >>),
  Listed("ordered", <<<<ToA, Coded(CodeLines)>>, <<Listed("bullet", <<<<ToA>>>>)>>>>),
  [type |-> "tasks", items |-> <<<<Link(<<"w">>, <<"me">>)>>>>],
  [type |-> "quote", label |-> <<"Info:">>, content |-> <<ToA, ToA>>],
  [type |-> "expand", title |-> <<"w">>, content |-> <<Coded(<< <<"w">> >>), ToA>>],
  [type |-> "layout", content |-> <<ToA>>]}

MCBodies == {<<>>} \cup {<<n>> : n \in Nodes} \cup (Nodes \X Nodes)
MCThreads == {<<>>, << <<>>, <<ToA>> >>,
              << <<Coded(CodeLines)>>,
                 <<Para(<<Link(<<"w">>, <<"/a">>), Link(<<"/b">>, <<"/b">>)>>)>> >>}

\* A list item that starts with code, and a link behind the list.
MCNested == {<<Listed(k, <<<<Coded(CodeLines)>>>>), ToA>> : k \in {"bullet", "ordered"}}
=============================================================================
