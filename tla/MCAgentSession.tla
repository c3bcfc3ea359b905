--------------------------- MODULE MCAgentSession ---------------------------
(***************************************************************************)
(* Authored sources and arguments for AgentSession.                        *)
(***************************************************************************)
EXTENDS AgentSession, TLC

Word(w) == [form |-> "word", args |-> <<w>>]
After(id) == [form |-> "after", args |-> <<id>>]
Until(id) == [form |-> "until", args |-> <<id>>]
Task(items) == [kind |-> "task", label |-> "p", items |-> items]
Section(label) == [kind |-> "section", label |-> label]

MCGantt ==
  [tagOrder |-> <<"done", "crit", "milestone">>, statuses |-> {"done"}, flags |-> {"milestone"},
   dayOf |-> [d1 |-> 1, d3 |-> 3], daysIn |-> ("1d" :> 1 @@ "2d" :> 2),
   titles |-> {"t"}, labels |-> {"p"}, ids |-> {"a", "b"},
   starts |-> {Word("d1"), After("a")}, ends |-> {Word("2d"), Until("a")},
   sources |->
     {<< >>,
      <<Task(<<Word("d1"), Word("2d")>>), Section("A"), [kind |-> "comment"],
        Task(<<Word("a"), Word("d1"), Word("2d")>>), [kind |-> "click", id |-> "a"]>>,
      <<[kind |-> "excludes", days |-> {3}], Section("A"), [kind |-> "comment"],
        Task(<<Word("a"), Word("d1"), Word("2d")>>), Section("B"),
        Task(<<Word("2d")>>), [kind |-> "axisFormat"]>>,
      <<Task(<<Word("a"), Word("d1"), Word("2d")>>), Task(<<Word("b"), After("a"), Word("1d")>>),
        Section("B"), Task(<<After("b"), Word("2d")>>)>>}]

Ref(id) == [id |-> id, label |-> None]
Entity(id) == [kind |-> "entity", ref |-> Ref(id), attributes |-> << >>]
Relation(x, y) == [kind |-> "relation", from |-> Ref(x), to |-> Ref(y)]

MCEr ==
  [ids |-> {"a", "d"}, texts |-> {"t"}, attributes |-> {"x"}, directions |-> {"TB"},
   sources |->
     {<< >>,
      <<Entity("a"), Relation("a", "b"), [kind |-> "class", id |-> "c", class |-> "t"]>>,
      <<Relation("a", "b"), [kind |-> "group", id |-> "g"],
        [kind |-> "direction", direction |-> "LR"], Relation("a", "c"), Entity("b"),
        [kind |-> "end"], Relation("c", "g")>>}]

Message(x, y) == [from |-> x, to |-> y, text |-> "hi"]
MessageLine(x, y) == [kind |-> "message", message |-> Message(x, y)]

MCSequence ==
  [ids |-> {"a", "e", "loop"}, texts |-> {"t"}, fragmentKinds |-> {"alt", "loop"},
   blockWords |-> {"loop"},
   sources |->
     {<< >>,
      <<[kind |-> "participant", id |-> "a", label |-> "a"], MessageLine("a", "b"),
        [kind |-> "note", ids |-> {"b"}], MessageLine("b", "c"),
        [kind |-> "link", id |-> "a", links |-> {"l"}]>>,
      <<MessageLine("a", "b"),
        [kind |-> "fragment",
         fragment |-> [kind |-> "alt", label |-> "hi",
                       branches |-> <<[label |-> None, messages |-> <<Message("b", "d")>>]>>]],
        MessageLine("b", "a")>>}]

Service(id, parent) ==
  [kind |-> "service", node |-> [id |-> id, label |-> "t", icon |-> None, parent |-> parent]]
End(id, boundary) == [id |-> id, side |-> "L", boundary |-> boundary]

MCArchitecture ==
  [ids |-> {"d", "g"}, texts |-> {"t"}, sides |-> {"L"},
   sources |->
     {<<[kind |-> "group", node |-> [id |-> "g", label |-> "t", icon |-> None, parent |-> None]],
        Service("a", "g"), [kind |-> "junction", node |-> [id |-> "j", parent |-> "g"]],
        [kind |-> "edge", edge |-> [source |-> End("a", "group"), target |-> End("j", "item"),
                                    label |-> None]],
        Service("c", None),
        [kind |-> "align", alignment |-> [axis |-> "row", members |-> <<"a", "c">>]]>>}]

ClassLine(id, members) ==
  [kind |-> "class", id |-> id, label |-> None, generic |-> None, members |-> members]
Namespace(path) == [kind |-> "namespace", path |-> path, label |-> None]
Close == [kind |-> "close"]

MCClass ==
  [ids |-> {"a", "d"}, texts |-> {"t"}, paths |-> {<<"P">>, <<"P", "Q">>}, types |-> {"association"},
   sources |->
     {<<[kind |-> "note", text |-> "t", for |-> "a"],
        [kind |-> "relation", from |-> "a", to |-> "b", arrow |-> "--|>"],
        Namespace(<<"P">>), ClassLine("b", << >>), Namespace(<<"Q", "R">>),
        ClassLine("c", <<"m">>), Close, Close, [kind |-> "member", id |-> "b", text |-> "m"],
        [kind |-> "look", look |-> "css", id |-> "c", value |-> "t"]>>}]

StateEnd(id) == [kind |-> "state", id |-> id]
History(id) == [kind |-> "history", id |-> id]
Transition(x, y) == [kind |-> "transition", from |-> x, to |-> y, label |-> None]

MCState ==
  [ids |-> {"d"}, texts |-> {"t"}, directions |-> {"TB"}, parents |-> {"a", "c", None},
   ends |-> {StateEnd("d"), StateEnd("x"), History("c"), History(None)},
   sources |->
     {<<[kind |-> "label", id |-> "a", label |-> "t"],
        [kind |-> "open", id |-> "c", label |-> None], [kind |-> "direction", direction |-> "LR"],
        Transition(StateEnd("x"), StateEnd("y")), [kind |-> "separator"],
        [kind |-> "stereotype", id |-> "z", label |-> None, stereotype |-> "fork"], Close,
        Transition(StateEnd("a"), History("c")), [kind |-> "note", target |-> "a", text |-> "t"],
        [kind |-> "css", id |-> "x", value |-> "t"],
        [kind |-> "linkStyle", index |-> 1, value |-> "red"]>>}]

Node(ref) == [kind |-> "node", ref |-> ref]
Mentioned(id) == [form |-> "bare", id |-> id, label |-> None, shape |-> None, icon |-> None]
Subgraph(id, label) == [kind |-> "subgraph", id |-> id, label |-> label]
Edge(x, y, id) ==
  [kind |-> "edge", from |-> x, to |-> y, id |-> id, label |-> None, style |-> "solid", arrow |-> "end"]

MCFlowchart ==
  [ids |-> {"d", "g"}, texts |-> {"t"}, typedShapes |-> {"doc"}, shapes |-> {"rectangle", "state-start"},
   styles |-> {"solid", "invisible"}, directions |-> {"LR"}, ends |-> {"c", "d", "h"},
   sources |->
     {<<Subgraph("g", "t"), [kind |-> "direction", direction |-> "BT"],
        Node([Mentioned("a") EXCEPT !.form = "bracket", !.label = "hi", !.shape = "rectangle"]),
        Subgraph("h", None), Node(Mentioned("b")), [kind |-> "end"], [kind |-> "end"],
        Edge(Mentioned("a"), Mentioned("b"), "e"), [kind |-> "motion", id |-> "e", motion |-> "t"],
        Edge(Mentioned("b"), Mentioned("g"), None),
        Edge(Mentioned("b"), [Mentioned("c") EXCEPT !.form = "meta", !.shape = "doc"], None),
        Node([Mentioned("i") EXCEPT !.form = "meta", !.icon = "t"]),
        [kind |-> "class", id |-> "a", value |-> "t"], [kind |-> "style", id |-> "b", value |-> "t"],
        [kind |-> "linkStyle", index |-> 2, value |-> "t"], [kind |-> "click", id |-> "a", href |-> "t"]>>}]

Commit(id, message, tags) ==
  [kind |-> "commit", id |-> id, message |-> message, type |-> "NORMAL", tags |-> tags, parent |-> None]
Merge(name) == [name |-> name] @@ [Commit(None, << >>, {}) EXCEPT !.kind = "merge"]
Pick(id) == [Commit(id, << >>, {}) EXCEPT !.kind = "cherry-pick"]
Branch(name) == [kind |-> "branch", name |-> name]
Checkout(name) == [kind |-> "checkout", name |-> name]

MCGitGraph ==
  [main |-> "main", autoIds |-> <<"c0", "c1", "c2", "c3", "c4", "c5", "c6">>,
   ids |-> {"c5"}, names |-> {"f", "n"}, texts |-> {"t"}, types |-> {"NORMAL", "HIGHLIGHT"},
   sources |->
     {<< >>,
      <<Commit("a", << >>, {}), Branch("f"), Commit(None, <<"hi">>, {"t"}), Checkout("main"),
        Commit(None, << >>, {}), Merge("f"), Checkout("f"), Pick("c2")>>}]

Topic(id, label, shape, depth) ==
  [kind |-> "node", id |-> id, label |-> label, shape |-> shape, depth |-> depth, markdown |-> FALSE]

MCMindmap ==
  [ids |-> {"a", "d"}, labels |-> {"t", "<b>b</b>"}, shapes |-> {"default", "rect"}, texts |-> {"t"},
   bold |-> ("<b>b</b>" :> "b"),
   sources |->
     {<<Topic("r", "t", "circle", 0), Topic(None, "a", "default", 1), [kind |-> "icon", value |-> "t"],
        [Topic(None, "<b>b</b>", "default", 2) EXCEPT !.markdown = TRUE], Topic("c", "t", "rect", 1)>>}]

Period(label, event) == [kind |-> "period", label |-> label, event |-> event]

MCTimeline ==
  [texts |-> {"t"}, sectionLabels |-> {"t", "a : b"}, periodLabels |-> {"t", "title x", "section a"},
   titleOf |-> ("title x" :> "x"), sectionOf |-> ("section a" :> "a"),
   periodOf |-> ("a : b" :> [label |-> "section a", event |-> "b"]),
   sources |->
     {<< >>,
      <<Period("p", "e"), [kind |-> "continuation", event |-> "f"], Section("A"), Period("q", None)>>}]

Axis(id, label) == [id |-> id, label |-> label]
Curve(id, values, keyed) ==
  [kind |-> "curve", curve |-> [id |-> id, label |-> id, values |-> values, keyed |-> keyed]]

MCRadar ==
  [ids |-> {"a", "d"}, titles |-> {"t %% u"}, labels |-> {"t"}, values |-> {0, 3},
   cutOf |-> ("t %% u" :> "t"),
   configs |-> {"min" :> 0, "min" :> 2, "max" :> {}, "max" :> {2}, "min" :> 2 @@ "max" :> {3},
                "look" :> "polygon"},
   sources |->
     {<<Curve("x", << >>, << <<"b", 2>>, <<"a", 0>>, <<"b", 0>> >>),
        [kind |-> "axis", axes |-> <<Axis("a", "a")>>], [kind |-> "axis", axes |-> <<Axis("b", "t")>>],
        Curve("y", <<2, 3>>, << >>), [kind |-> "title", title |-> "t"]>>}]

Link(source, target, value) == [source |-> source, target |-> target, value |-> value]

MCSankey ==
  [comments |-> {"%% d"}, labels |-> {"a", "%% d"}, values |-> {1, 3},
   sources |-> {<<Link("a", "b", 1), Link("b", "c", 1), Link("a", "b", 2)>>}]
=============================================================================
