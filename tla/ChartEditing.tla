---------------------------- MODULE ChartEditing ----------------------------
(***************************************************************************)
(* Three of the families an agent edits (AgentSession), Sankey diagrams,   *)
(* radar charts and timelines, with what can be said of any authored       *)
(* source of theirs.                                                       *)
(* A body and the text it is published as are those of the diagram at hand.*)
(***************************************************************************)
EXTENDS Naturals, SequencesExt

CONSTANTS radar, sankey, timeline, \* of each family its sources and arguments
          None, MaxOps

\* An authored flow is a sequence of links, whatever they name and weigh.
ASSUME SankeySources ==
  \A rows \in sankey.sources :
     /\ rows \in Seq(ToSet(rows))
     /\ \A link \in ToSet(rows) :
          link = [source |-> link.source, target |-> link.target, value |-> link.value]

\* A line of an authored radar chart lists axes, draws a curve with one value
\* after another or keyed by axis, names the chart or sets one option; numbers
\* have no sign, a maximum is one number, and a title cut at its comment has none.
ASSUME RadarSources ==
  LET lines == UNION {ToSet(source) : source \in radar.sources}
      configs == radar.configs \union {line.config : line \in {l \in lines : l.kind = "option"}}
  IN /\ \A source \in radar.sources : source \in Seq(ToSet(source))
     /\ \A line \in lines :
          /\ line.kind \in {"axis", "curve", "title", "option"}
          /\ line.kind = "axis" =>
               /\ line.axes \in Seq(ToSet(line.axes))
               /\ \A axis \in ToSet(line.axes) : axis = [id |-> axis.id, label |-> axis.label]
          /\ line.kind = "curve" =>
               /\ line.curve = [id |-> line.curve.id, label |-> line.curve.label,
                                values |-> line.curve.values, keyed |-> line.curve.keyed]
               /\ line.curve.values \in Seq(Nat)
               /\ line.curve.keyed \in Seq(ToSet(line.curve.keyed))
               /\ \A entry \in ToSet(line.curve.keyed) : entry[2] \in Nat
     /\ \A config \in configs :
          /\ DOMAIN config \subseteq {"min", "max", "look"}
          /\ "min" \in DOMAIN config => config["min"] \in Nat
          /\ "max" \in DOMAIN config =>
               config["max"] \subseteq Nat /\ \A m, n \in config["max"] : m = n
     /\ radar.values \subseteq Nat
     /\ \A title \in DOMAIN radar.cutOf : radar.cutOf[title] \notin DOMAIN radar.cutOf

\* A line of an authored timeline is a text of its head, or a section, a period
\* or an event, and what it is read as is what it is: a section has a label that
\* holds no colon, a period is neither a title nor, without events, a section.
ASSUME TimelineSources ==
  /\ \A source \in timeline.sources : source \in Seq(ToSet(source))
  /\ \A line \in UNION {ToSet(source) : source \in timeline.sources} :
       /\ line.kind \in {"title", "accTitle", "accDescr", "section", "period", "continuation"}
       /\ line.kind = "section" => line.label \notin {None} \union DOMAIN timeline.periodOf
       /\ line.kind = "period" =>
            /\ line.label \notin DOMAIN timeline.titleOf
            /\ line.event = None => line.label \notin DOMAIN timeline.sectionOf
       /\ line.kind = "continuation" => line.event # None
  /\ None \notin timeline.sectionLabels \union timeline.texts \union DOMAIN timeline.periodOf
  /\ \A label \in DOMAIN timeline.sectionOf :
       timeline.sectionOf[label] \notin {None} \union DOMAIN timeline.periodOf
  /\ \A label \in DOMAIN timeline.periodOf :
       /\ timeline.periodOf[label].label \notin DOMAIN timeline.titleOf
       /\ timeline.periodOf[label].event # None

VARIABLES published, body, ops

Radar == INSTANCE RadarEditing
  WITH Default <- None, Sources <- radar.sources, CutOf <- radar.cutOf, Ids <- radar.ids,
       Titles <- radar.titles, Labels <- radar.labels, Values <- radar.values,
       Configs <- radar.configs
Sankey == INSTANCE SankeyEditing
  WITH Comments <- sankey.comments, Sources <- sankey.sources, Labels <- sankey.labels,
       Values <- sankey.values
Timeline == INSTANCE TimelineEditing
  WITH Sources <- timeline.sources, Texts <- timeline.texts, TitleOf <- timeline.titleOf,
       SectionOf <- timeline.sectionOf, PeriodOf <- timeline.periodOf,
       SectionLabels <- timeline.sectionLabels, PeriodLabels <- timeline.periodLabels
=============================================================================
