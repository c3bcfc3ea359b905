-------------------------- MODULE GitGraphEditing --------------------------
(***************************************************************************)
(* Git graphs under the checked editing loop: the parser and serializer of *)
(* src/src/gitgraph/parser.ts and the operations and verifier of           *)
(* src/src/agent/gitgraph-body.ts.                                         *)
(*                                                                         *)
(* A text is a history that is replayed: each line acts on the branch      *)
(* checked out by the lines before it, and one that makes no sense there   *)
(* refuses the whole text.  An operation that adds to the history writes   *)
(* the body, adds a line and replays; one that edits the past changes the  *)
(* commits and the lines in place.  Left out: direction, the order of      *)
(* branches, how a checkout is spelled, and the configuration, which is in *)
(* no line.  The type NORMAL is none.                                      *)
(***************************************************************************)
EXTENDS Naturals, FiniteSets, Sequences, SequencesExt

CONSTANTS None,          \* no commit id, parent, head or text
          Main,          \* the configured main branch
          AutoIds,       \* c0, c1, ...: the id of a commit whose author gave none
          Sources,       \* authored sources: sequences of lines
          Ids, Names, Texts, Types,   \* arguments of operations
          MaxOps

VARIABLES published, body, ops

Commits(b) == ToSet(b.commits)
CommitIds(b) == {c.id : c \in Commits(b)}
CommitOf(b, id) == CHOOSE c \in Commits(b) : c.id = id
BranchNames(b) == DOMAIN b.heads
Blank == [commits |-> << >>, heads |-> [name \in {Main} |-> None], statements |-> << >>,
          accTitle |-> None, accDescr |-> None]

(* ------------------------------ the parser ------------------------------ *)

HeadOf(p) == p.body.heads[p.current]

\* A commit on the current branch, under its own id or the next automatic one.
AddCommit(p, commit, statement) ==
  LET id == IF commit.custom THEN commit.id ELSE AutoIds[Len(p.body.commits) + 1]
  IN IF id \in CommitIds(p.body) THEN {}
     ELSE {[p EXCEPT !.body.commits = Append(@, [commit EXCEPT !.id = id]),
                     !.body.heads[p.current] = id,
                     !.body.statements = Append(@, [statement EXCEPT !.ref = id])]}

\* A commit line as it is read; tags are those of the author.
Authored(p, line) ==
  [id |-> line.id, custom |-> line.id # None, message |-> line.message, type |-> line.type,
   tags |-> line.tags, synthetic |-> FALSE, source |-> "commit", branch |-> p.current, other |-> None,
   parents |-> IF HeadOf(p) = None THEN << >> ELSE <<HeadOf(p)>>]

ReadCommit(p, line) == AddCommit(p, Authored(p, line), [kind |-> "commit", ref |-> None])

ReadBranch(p, line) ==
  IF line.name \in BranchNames(p.body) THEN {}
  ELSE {[p EXCEPT !.body.heads = [name \in DOMAIN @ \union {line.name} |->
                                     IF name = line.name THEN HeadOf(p) ELSE @[name]],
                  !.current = line.name,
                  !.body.statements = Append(@, line)]}

ReadCheckout(p, line) ==
  IF line.name \notin BranchNames(p.body) THEN {}
  ELSE {[p EXCEPT !.current = line.name, !.body.statements = Append(@, line)]}

\* Both branches have commits and not the same one at their head.
ReadMerge(p, line) ==
  IF \/ line.name \notin BranchNames(p.body) \ {p.current}
     \/ None \in {HeadOf(p), p.body.heads[line.name]}
     \/ HeadOf(p) = p.body.heads[line.name] THEN {}
  ELSE AddCommit(p, [Authored(p, line) EXCEPT
                       !.source = "merge", !.other = line.name,
                       !.message = <<"merged", line.name, p.current>>,
                       !.parents = <<HeadOf(p), p.body.heads[line.name]>>],
                    [kind |-> "merge", ref |-> None, name |-> line.name])

\* The commits a commit comes from, itself included.
Reachable(b, id) ==
  LET from[k \in DOMAIN b.commits] ==
        {b.commits[k].id} \union
          UNION {from[n] : n \in {n \in 1 .. k - 1 : b.commits[n].id \in ToSet(b.commits[k].parents)}}
  IN from[CHOOSE k \in DOMAIN b.commits : b.commits[k].id = id]

\* The source exists and is not in the branch; of a merge, a parent is named.
\* A pick without tags gets one that says what was picked.
ReadCherryPick(p, line) ==
  IF \/ line.id \notin CommitIds(p.body)
     \/ HeadOf(p) = None
     \/ line.id \in Reachable(p.body, HeadOf(p))
     \/ /\ Len(CommitOf(p.body, line.id).parents) = 2
        /\ line.parent \notin ToSet(CommitOf(p.body, line.id).parents) THEN {}
  ELSE LET source == CommitOf(p.body, line.id)
       IN AddCommit(p, [Authored(p, line) EXCEPT
                          !.id = None, !.custom = FALSE, !.source = "cherry-pick", !.other = source.id,
                          !.synthetic = line.tags = {},
                          !.message = <<"picked">> \o (IF source.message = << >> THEN <<source.id>> ELSE source.message)
                                        \o <<p.current>>,
                          !.parents = <<HeadOf(p), source.id>>],
                       [kind |-> "cherry-pick", ref |-> None, parent |-> line.parent])

ReadLine(p, line) ==
  CASE line.kind = "commit" -> ReadCommit(p, line)
    [] line.kind = "branch" -> ReadBranch(p, line)
    [] line.kind = "checkout" -> ReadCheckout(p, line)
    [] line.kind = "merge" -> ReadMerge(p, line)
    [] line.kind = "cherry-pick" -> ReadCherryPick(p, line)
    [] line.kind = "accTitle" -> {[p EXCEPT !.body.accTitle = line.text]}
    [] OTHER -> {[p EXCEPT !.body.accDescr = line.text]}

\* A line that cannot be replayed fails the parse.
Parse(lines) ==
  {p.body : p \in FoldLeft(LAMBDA ps, line : UNION {ReadLine(p, line) : p \in ps},
                           {[body |-> Blank, current |-> Main]}, lines)}

(* ---------------------------- the serializer ---------------------------- *)

CommitLine(id, message, type, tags) ==
  [kind |-> "commit", id |-> id, message |-> message, type |-> type, tags |-> tags, parent |-> None]

\* What a commit's author wrote: an automatic id, a generated message and a
\* synthetic tag are not written.
StatementLine(b, statement) ==
  IF statement.kind \in {"branch", "checkout"} THEN statement
  ELSE LET c == CommitOf(b, statement.ref)
           id == IF c.custom THEN c.id ELSE None
       IN CASE statement.kind = "commit" -> CommitLine(id, c.message, c.type, c.tags)
            [] statement.kind = "merge" ->
                 [name |-> statement.name] @@ [CommitLine(id, << >>, c.type, c.tags) EXCEPT !.kind = "merge"]
            [] OTHER ->
                 [CommitLine(c.other, << >>, "NORMAL", c.tags) EXCEPT !.kind = "cherry-pick", !.parent = statement.parent]

TextLine(b, kind) == IF b[kind] = None THEN << >> ELSE <<[kind |-> kind, text |-> b[kind]]>>

Render(b) ==
  TextLine(b, "accTitle") \o TextLine(b, "accDescr")
    \o [k \in DOMAIN b.statements |-> StatementLine(b, b.statements[k])]

Reparse(b) == Parse(Render(b))
EmptyDiagram(b) == FALSE
Rejected(b) == \E c \in Commits(b) : ~(ToSet(c.parents) \subseteq CommitIds(b))
Tally(b) ==
  <<Len(b.commits), Len(FlattenSeq([k \in DOMAIN b.commits |-> b.commits[k].parents])), Cardinality(BranchNames(b))>>

Core == INSTANCE EditCore WITH Empty <- EmptyDiagram

(* ------------------------------ operations ------------------------------ *)

AppendStatement(b, line) == Parse(Append(Render(b), line))

SetMessage(b, k, message) == IF b.commits[k].source # "commit" THEN {} ELSE {[b EXCEPT !.commits[k].message = message]}
SetType(b, k, type) == IF b.commits[k].source # "commit" THEN {} ELSE {[b EXCEPT !.commits[k].type = type]}
SetTags(b, k, tags) == {[b EXCEPT !.commits[k].tags = tags, !.commits[k].synthetic = FALSE]}

\* The commits of the branch, those that merge it and the lines follow; the
\* messages of picks onto it do not.
RenameBranch(b, from, to) ==
  LET name(n) == IF n = from THEN to ELSE n
      moved(c) == [c EXCEPT !.branch = name(@), !.other = IF c.source = "merge" THEN name(@) ELSE @]
      told(c) == IF c.source = "merge" THEN [c EXCEPT !.message = <<"merged", c.other, c.branch>>] ELSE c
  IN IF from = Main \/ to \in BranchNames(b) THEN {}
     ELSE {[b EXCEPT !.heads = [n \in {name(n) : n \in DOMAIN @} |-> @[IF n = to THEN from ELSE n]],
                     !.commits = [k \in DOMAIN @ |-> told(moved(@[k]))],
                     !.statements = [k \in DOMAIN @ |-> IF @[k].kind \in {"branch", "checkout", "merge"}
                                                          THEN [@[k] EXCEPT !.name = name(@)] ELSE @[k]]]}

(* -------------------------------- actions ------------------------------- *)

vars == <<published, body, ops>>
Tags == {{}} \union {{t} : t \in Texts}
Messages == {<< >>} \union {<<t>> : t \in Texts}

append_commit ==
  \E id \in Ids \union {None}, message \in Messages, type \in Types, tags \in Tags :
     Core!Commit(AppendStatement(body, CommitLine(id, message, type, tags)))
create_branch == \E name \in Names : Core!Commit(AppendStatement(body, [kind |-> "branch", name |-> name]))
checkout_branch ==
  \E name \in BranchNames(body) : Core!Commit(AppendStatement(body, [kind |-> "checkout", name |-> name]))
merge_branch ==
  \E name \in BranchNames(body), id \in Ids \union {None}, type \in Types, tags \in Tags :
     Core!Commit(AppendStatement(body,
       [name |-> name] @@ [CommitLine(id, << >>, type, tags) EXCEPT !.kind = "merge"]))
cherry_pick ==
  \E c \in Commits(body), tags \in Tags : \E parent \in ToSet(c.parents) \union {None} :
     Core!Commit(AppendStatement(body,
       [CommitLine(c.id, << >>, "NORMAL", tags) EXCEPT !.kind = "cherry-pick", !.parent = parent]))
set_commit_message ==
  \E k \in DOMAIN body.commits, message \in Messages : Core!Commit(SetMessage(body, k, message))
set_commit_type ==
  \E k \in DOMAIN body.commits, type \in Types : Core!Commit(SetType(body, k, type))
set_commit_tags ==
  \E k \in DOMAIN body.commits, tags \in Tags : Core!Commit(SetTags(body, k, tags))
rename_branch ==
  \E from \in BranchNames(body), to \in Names : Core!Commit(RenameBranch(body, from, to))
set_accessibility ==
  \E text \in Texts \union {None} :
     Core!Commit({[body EXCEPT !.accTitle = text], [body EXCEPT !.accDescr = text]})

Init == Core!Begin(UNION {Parse(source) : source \in Sources})

Next ==
  \/ append_commit \/ create_branch \/ checkout_branch \/ merge_branch \/ cherry_pick
  \/ set_commit_message \/ set_commit_type \/ set_commit_tags \/ rename_branch
  \/ set_accessibility \/ Core!Refuse \/ Core!Publish

Spec == Init /\ [][Next]_vars

(* ------------------------------ properties ------------------------------ *)

\* Commits have one id each and come from earlier ones, every line but those
\* about branches has its commit and in their order, branches named by commits,
\* lines and merges exist, and a branch's head is its last commit.
ReferencesResolve ==
  LET lines == SelectSeq(body.statements, LAMBDA s : s.kind \notin {"branch", "checkout"})
      on(name) == {k \in DOMAIN body.commits : body.commits[k].branch = name}
  IN /\ Cardinality(CommitIds(body)) = Len(body.commits)
     /\ [k \in DOMAIN lines |-> lines[k].ref] = [k \in DOMAIN body.commits |-> body.commits[k].id]
     /\ \A k \in DOMAIN body.commits :
          LET c == body.commits[k]
          IN /\ ToSet(c.parents) \subseteq {body.commits[n].id : n \in 1 .. k - 1}
             /\ c.branch \in BranchNames(body)
             /\ c.source = "merge" => c.other \in BranchNames(body) \ {c.branch}
             /\ c.source = "cherry-pick" => c.other = c.parents[2]
     /\ \A s \in ToSet(body.statements) : s.kind \in {"branch", "checkout", "merge"} => s.name \in BranchNames(body)
     /\ \A name \in BranchNames(body) :
          on(name) # {} => body.heads[name] = body.commits[CHOOSE k \in on(name) : on(name) \subseteq 1 .. k].id

\* A pick without what is generated for it, which edits do not renew (the
\* README, known deviations).
Shown(c) == IF c.source = "cherry-pick" THEN [c EXCEPT !.message = << >>, !.synthetic = FALSE] ELSE c

Content(b) == [b EXCEPT !.commits = [k \in DOMAIN @ |-> Shown(@[k])]]

\* A body that does not say the same as the text it is written to is one the
\* verifier rejects or reports dropped content for.
LossIsAnnounced ==
  Rejected(body) \/ Core!LossReported(body)
    \/ \A r \in Reparse(body) : Content(r) = Content(body)

Nodes(b) == CommitIds(b)
Links(b) ==
  FlattenSeq([k \in DOMAIN b.commits |->
    [n \in DOMAIN b.commits[k].parents |-> <<b.commits[k].parents[n], b.commits[k].id>>]])
=============================================================================
