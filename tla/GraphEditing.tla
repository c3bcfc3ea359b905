---------------------------- MODULE GraphEditing ----------------------------
(***************************************************************************)
(* What the checked editing loop promises of a diagram seen as a graph:    *)
(* an operation adds or drops one thing with exactly what hangs on it, or  *)
(* names, moves or reattaches one thing; a batch that is refused leaves    *)
(* nothing behind; a batch that is accepted hands out the graph it built,  *)
(* which may only have forgotten things nothing is linked to.              *)
(***************************************************************************)
EXTENDS Naturals, Sequences, SequencesExt

VARIABLES nodes, links,           \* the working copy
          savedNodes, savedLinks  \* the text the caller holds

vars == <<nodes, links, savedNodes, savedLinks>>
saved == <<savedNodes, savedLinks>>

Incident(link, n) == n \in {link[1], link[2]}
Linked(pairs) == UNION {{pairs[k][1], pairs[k][2]} : k \in DOMAIN pairs}

GInit ==
  /\ savedNodes = nodes
  /\ savedLinks = links

\* One more thing, with what links it to others, or one more link with the ends
\* it needs.
Grow ==
  /\ UNCHANGED saved
  /\ \/ \E n \in nodes' : nodes' = nodes \union {n} /\ links' = links
     \/ \E k \in DOMAIN links' :
           /\ links = RemoveAt(links', k)
           /\ nodes' = nodes \union {links'[k][1], links'[k][2]}
     \/ \E n \in nodes' \ nodes :
           /\ nodes' = nodes \union {n}
           /\ links = SelectSeq(links', LAMBDA link : ~Incident(link, n))

\* A thing goes with exactly the links that end on it.
DropNode ==
  /\ UNCHANGED saved
  /\ \E n \in nodes :
        /\ nodes' = nodes \ {n}
        /\ links' = SelectSeq(links, LAMBDA link : ~Incident(link, n))

\* A link, or a block of consecutive ones, goes; what they linked stays.
DropLinks ==
  /\ UNCHANGED <<nodes, saved>>
  /\ \E i, j \in DOMAIN links :
        i <= j /\ links' = SubSeq(links, 1, i - 1) \o SubSeq(links, j + 1, Len(links))

\* One thing is called by a name nothing had, everywhere.
Rename ==
  /\ UNCHANGED saved
  /\ \E old \in nodes, new \in nodes' \ nodes :
        LET name(n) == IF n = old THEN new ELSE n
        IN /\ nodes' = {name(n) : n \in nodes}
           /\ links' = [k \in DOMAIN links |-> <<name(links[k][1]), name(links[k][2])>>]

Move ==
  /\ UNCHANGED <<nodes, saved>>
  /\ \E i, j \in DOMAIN links : links' = InsertAt(RemoveAt(links, i), j, links[i])

Reattach ==
  /\ UNCHANGED <<nodes, saved>>
  /\ \E k \in DOMAIN links, n, m \in nodes : links' = [links EXCEPT ![k] = <<n, m>>]

Rollback ==
  /\ UNCHANGED saved
  /\ nodes' = savedNodes
  /\ links' = savedLinks

Publish ==
  /\ links' = links
  /\ nodes' \subseteq nodes
  /\ Linked(links) \subseteq nodes'
  /\ savedNodes' = nodes'
  /\ savedLinks' = links'

GNext ==
  \/ Grow \/ DropNode \/ DropLinks \/ Rename \/ Move \/ Reattach
  \/ Rollback \/ Publish

GSpec == GInit /\ [][GNext]_vars
=============================================================================
