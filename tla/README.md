# A verification project for agentic-mermaid

TLA+ modules of the parts of this repository that keep state and run
concurrently, the TLC configurations that check them, and theorems about them
checked by TLAPS. `PROJECT.json` lists components, runs, hazards, findings and,
under `map`, the source lines behind every definition.

Most of the repository (parsers, layout, renderers, styles) is sequential code
from text to text. What is hard to test is around it: servers that answer many
messages on one connection, a directory shared by processes that crash, a cache
shared by requests and deploys, an editor page full of timers and promises, and
an editing library whose operations an agent may chain in any order. Those come
first here.

## 1. Inventory

| Part | State it keeps | Operations | Talks to | Hard behaviour | What makes it correct |
|---|---|---|---|---|---|
| stdio coordinator, `src/mcp/server.ts:263-451` | negotiated era and revision, the admission gate (a promise chain), running tasks, the map from request id to abort controllers | accept a line, drain, close | admission, dispatch, artifact store | a later line overtaking `initialize`; cancellation against every stage of a request; reused ids; failing dispatch; end of input | one answer at most, none after a cancellation, one era, everything settles, the store closes last |
| message admission, `src/mcp/admission.ts`, `protocol-versions.ts` | none | decide one message | both transports | four places can name a version | the advertised versions can be retried; dispatch gets a coherent version |
| artifact store, `src/mcp/artifacts.ts:85-358` | lock file, manifest, artifact files, the records map, the clock | construct, write, read, sweep, close | file system, other processes | crash or failed operation between two file operations; two processes; an operator removing the lock; configuration changed between starts | what a caller was given survives to its TTL; a failed write leaves nothing; quotas; one owner |
| implicit namespaces, `artifacts.ts:360-459` | directory, lock and manifest of other servers | reap | file system, live owners, other reapers | two reapers; an owner between `mkdir` and lock; a crash mid-write | live owners and unexpired artifacts are spared, the rest goes |
| hosted MCP handler, `website/src/mcp-handler.ts`, `src/mcp/hosted-server.ts` | one event per request; the compute cache shared by all | admit or refuse a request or batch, look up, read, dispatch, store | Cache API, deploys, tools | late, lost or unreadable cache entries; deploy in mid-request; batch rules before any work | the cache is transparent; work is bounded; the cache header tells the truth |
| hosted execute loader, `website/src/execute-loader.ts` | none across calls | up to two isolate attempts with a backstop timer | Worker Loader | timer against a late answer; budget per attempt | always answers; telemetry counts attempts |
| HTTP and SSE transport, `server.ts:453-665` | open event streams, the server | open, post, rpc, close | admission, dispatch, store | stream used after two awaits; shutdown | an accepted answer is delivered or reported |
| local tools, sandbox, `tool-surface.ts`, `facade.ts`, `sandbox.ts` | none across calls | one tool call | agent core | deadlines of a synchronous VM | the SDK is closed once a result is committed |
| editor page, `editor/js/*.js` | source, options, render version, verified artifact, preview, URL hash, draft, timers, pending renders, compressions and exports | type, restyle, configure, load an example, clear, discard, render, export, copy, reload | renderer, compression streams, session storage | results arriving out of order, timers against clear, reload at any time | what is shown, exported or linked is the document on screen; the page catches up |
| agent editing core, `src/agent/{mutate,apply,verify,serialize}.ts` | the text an agent holds, its working copy | parse, mutate, apply, verify, serialize | family bodies | long chains of legal operations, each keeping parallel structures in step; text that parses back to something else | a refused batch changes nothing; what the text says is what the body says, or the agent is told |
| family bodies and parsers, `src/agent/*-body.ts`, `src/{gantt,class,sequence,...}` | entities, links, containers and the statement stream that orders them | the operations of each family | the editing core, layout | splices and renumbering; implicit declarations; unmodelled lines; cycles and excluded days in schedules | bodies stay consistent, text is a fixed point, a diagram changes as an abstract graph does |
| layout, `layout-engine.ts`, `layout/`, `elk-instance.ts` | one ELK instance | position a graph | bundled ELK | global patching while it is built | geometry |
| renderers, styles, palettes, fonts | catalogues | model to SVG, text, PNG | | | string output |
| lazily loaded families, `browser-lazy*` | one promise per family | load, render | | concurrent first use | loaded once |
| Worker routing, `worker-core.ts` | none | redirect, negotiate, classify caching | assets | | immutable only for proven assets |
| command line, website build and release scripts, tests, evaluations | none | | | | |

The local server and the hosted handler share `admitMcpMessage` and the
dispatcher in `tool-surface.ts`. A local server owns one artifact store and
closes it after its connection has drained. The editor has no link to the
servers except the renderer code they all bundle.

`PROJECT.json` has a row for each part with its status, and for each hazard the
line where it bites and the properties that would notice.

## 2. Modules

| Module | Models | EXTENDS / INSTANCE |
|---|---|---|
| `McpAdmission` | `admitMcpMessage` as operators on a message and transport options | |
| `StdioCoordinator` | `createStdioMessageProcessor`, `runStdio` | McpAdmission |
| `ConnectionContract` | the abstract connection: open, answer, close, pin, end | |
| `StdioContract` | refinement mapping from the coordinator to the contract | StdioCoordinator, ConnectionContract |
| `StdioCoordinatorProofs` | theorems about the coordinator, and that it implements the contract | StdioContract |
| `RetryingClient` | a client that retries what version errors advertise | McpAdmission |
| `ArtifactStore` | the store over its directory, several processes | |
| `ArtifactReaper` | reapers of an implicit namespace | ArtifactStore |
| `ArtifactProofs` | theorems about the store and about reapers | ArtifactReaper |
| `SseTransport` | the local HTTP server: streams, posts, shutdown | |
| `ExecuteLoader` | one hosted `execute`: isolates, backstop, retry | |
| `HostedHandler` | requests, batches, the compute cache, deploys | McpAdmission |
| `AdmissionProofs` | theorems about the hosted handler and the retries, both over the admission gate | HostedHandler, RetryingClient |
| `SseTransportProofs`, `ExecuteLoaderProofs` | theorems about each | the module each is named for |
| `EditorSession` | the editor page | |
| `EditorSessionProofs` | theorems about the page | EditorSession |
| `EditCore` | the checked editing loop of `src/agent`: working copy, refusal, publication | |
| `GanttSchedule` | the schedule of `src/gantt/schedule.ts` as operators | |
| `GanttEditing`, `ErEditing`, `SequenceEditing`, `ArchitectureEditing`, `ClassEditing`, `StateEditing`, `FlowchartEditing`, `GitGraphEditing`, `MindmapEditing`, `TimelineEditing`, `RadarEditing`, `SankeyEditing` | one family each: parser, serializer, operations, verifier | EditCore (GanttEditing: GanttSchedule) |
| `GraphEditing` | the abstract diagram: a set of things and a list of links, an operation, a refusal, a publication | |
| `ChartEditing` | radar charts, Sankey diagrams and timelines with any authored sources: what is assumed of a source | RadarEditing, SankeyEditing, TimelineEditing |
| `ChartEditingProofs` | lemmas about the parser, operations and verifier of these three | ChartEditing |
| `AgentSession` | an agent at work on a diagram of any family, and the refinement of `GraphEditing` | ChartEditing, the other families, GraphEditing |
| `AgentSessionProofs` | theorems about sessions on a radar chart, a Sankey diagram or a timeline | AgentSession, ChartEditingProofs |
| `MC*` | values for the constants, and scopes | the module it instantiates |

Every module carries, next to the definitions, *defective variants*: the same
definition with one plausible slip (a dropped guard, a missing reset). They
are not used by the specification. Putting one in the place of the original
must break the property `PROJECT.json` pairs it with (`mutants`), which shows
that each property can fail for a reason the code could have.

### How state and actions correspond to the code

**StdioCoordinator.** `era` and `version` are `negotiatedEra` and
`negotiatedProtocolVersion`; `inFlight` is the map of controllers; `aborted` is
the set of fired controllers. The gate is not a variable: a line is at the gate
when every earlier ticketed line has left it (`GateIsAt`), which is what the
chain of `admissionGate.then` means. `phase` is where a line's own chain
stands; each phase change is one JavaScript turn other callbacks can precede.
`BeginInitialize`, `CompleteInitialize` are the two sides of the `await` inside
the gate; `Classify`, `Advance`, `Refuse`, `Dispatch`, `SkipCancelled`, `Reply`
the task; `DispatchFails`, `Rescue` the rejection and its catch clause;
`Settle` the finally clause. Dispatch is a parameter of the code, so it may
answer, return nothing, or reject, at any later time. `EndOfInput`,
`GateDrained`, `WaitForTasks` are `drain()`, with the set one `allSettled` call
waits for kept in `awaited`. `revoked` is a history variable: the requests that
were running when the client cancelled their id. An id is a member of a small
set; ids in `InexactIds` are integers beyond the safe range, which
`preserveExactJsonRpcIds` turns into one sentinel where the map is concerned.

**McpAdmission.** A message is the record of the facts the gate tells apart. A
revision is its date as a number, so "newest" is "greatest". `Refusal` keeps
the order of the checks, which decides the error a client sees. Modern `_meta`
members other than the version are one flag (`metaOk`), HTTP routing mirrors
another (`mirrorsOk`).

**ArtifactStore.** One action per file operation of a call: `Acquire`, `Mark`,
`LoadManifest`, `Reconcile`, `Sweep`, `Save` for a start; `BeginWrite`,
`Sweep`, `Save`, `Admit`, `Place`, `Commit` for a write; `Close`, `Unlink` for
an end. Calls are synchronous in their process, so only a crash, another process
or the operator falls between. `close` checks the lock file (`OwnsLock`) and then
unlinks it by its path: two steps, between which the file may have become
another's. Likewise `acquireOwnership` creates the lock file and then writes it;
if writing fails (`MarkFails`) it unlinks by path with no check. `overtaken` is a
history variable: the processes that lost their lock file in one of these two
places, where the code no longer looks. Two file operations share one action
where nothing can tell them apart on disk: a temporary file written and then
renamed is `Place`, with `TempsOf` naming the strays a crash inside it leaves;
in `Rollback` both unlinks follow at once, and a second failed one leaves the
file. The manifest is replaced by a rename and is therefore old or new, never
torn. `Fails` bounds failed operations, `Crash` ends a process and leaves its
lock behind (`Stale`), `RemoveLock` is the operator following
`docs/mcp-http-transport.md` or, with `OperatorErrs`, removing a lock that is in
use; `Tamper` is another program deleting, altering or truncating a file.

**ArtifactReaper.** Adds the directory (absent, fresh, old), reapers with their
own program counter, and the grace period as the step from fresh to old, which
only an untouched directory takes. A reaper goes by a time of its own (`asOf`),
read before it visited anything, so two reapers may disagree on what has
expired. Its visit is `Inspect` (the lock), `Read` (the manifest), `Scan` for each
file, and then either `KeepAll`, or `WriteTemp` and `Relist` (the manifest is
rewritten by way of a temporary file), or `Unlist` and `RemoveDir` (the manifest
is unlinked, then `rmdir`). Other reapers, the owner's crash and a crash of the
reaper fall between any two. `crossed` is a history variable: the reapers at
their `rmdir` since whose `Unlist` another one has written a manifest.

**HostedHandler.** One `Receive` per HTTP request runs all checks that precede
the first item; then each item is a small machine (`lookup`, `read`,
`dispatch`, `done`) interleaved with the others (`Promise.all`), with the
deferred cache writes in `writes` until the platform lands or loses them.
`Release` is a deploy. A result is the record of the call, the deploy and the
era that produced it, which is exactly what the key must separate.

**EditorSession.** A document is a source with options (palette, style, seed
and configuration together). `version` is `renderRequestVersion`, `token` is
`hashUpdateToken`, `artifact` is `lastRenderedSvgArtifact`, `preview` what the
pane shows; `renders`, `jobs`, `exports` are pending promises; `timer` and
`draftTimer` the debounces. Every handler runs to its end in one action,
including the calls it makes (`Clear` empties the source, the preview, the
hash and the draft). `misled` and `cleared` are history variables.
`renderMermaidWithReceipt` is synchronous today and awaited through
`Promise.resolve`; the model lets it take any time, so it also covers an
asynchronous renderer.

**SseTransport.** One record per request. A `GET /sse` is `idle`, `arriving`
(its bytes are coming in), `open`, `refused`, `ended` or `gone`; `sessions` is the map
a post looks its stream up in. A post goes through the two awaits of its
handler (`ReadBody`, the tool) and answers; the look-up of `postSseMessage` is
before both, the write after both. A write to an ended response is lost, which
is what Node does. `phase` is the server: `close()` ends every registered
stream and stops the listener, whose callback (`Closed`) waits for the last
connection. A post's `caller` may hang up at any time.

**ExecuteLoader.** `stage` is where `execute` stands (`racing` the backstop,
`reading` the body, `answered`), `isolate` what the platform does with each
attempt; the timer of an attempt that is no longer raced is cleared. The code's
form (an expression, statements, neither) decides which attempt parses.

**EditCore.** `published` is the text an agent holds, kept as the body that
text parses to; `body` the working copy `applyOps` folds operations over.
`Commit` is one accepted operation with the serializability check of
`mutateChecked`; `Refuse` throws the copy away; `Publish` is the end of a batch
with the verifier's gate. A family instantiates it with `Reparse` (serialize,
then parse: one operator, because their composition is the question),
`Rejected` (a warning of error severity) and `Tally` (the counts the round-trip
warning compares). A partial function of the code returns a set with at most
one element.

**The families.** A source is a sequence of lines, a line a record of its kind
and its parts; `Parse` folds `ReadLine` over it, `Render` writes lines in the
order the code does, and every operation of the code is one operator and one
action. What the code keeps in parallel stays in parallel in the body: the
statement stream beside the entities, the links with references into lists. In
`GanttEditing` a task's allocated number is its identity and `implicitChainError`
compares the two schedules; in `SequenceEditing` a fragment keeps its raw text
until it is edited; in `StateEditing` the tree is flat, a state naming its scope
(a composite and a region), and `Visit` is the order of the tree; in
`ClassEditing` a namespace is the sequence of the segments of its path; in
`FlowchartEditing` subgraphs are a flat list with parents, edges carry their
paint by position; in `GitGraphEditing` the statements are what is edited and the
commits are what reading them makes, so every structural operation reads them
all again (`AppendStatement`); in `MindmapEditing` the tree is its lines with
their depths; in `TimelineEditing` a label may be written to a line the grammar
takes for something else (`TitleOf`, `SectionOf`, `PeriodOf` say for what); in
`RadarEditing` values stand in each curve by the position of their axis, and a
body is accepted with a scale that is not degenerate only; in `SankeyEditing`
nodes are the labels links name, and the flow is acyclic.

**AgentSession.** `kind` is the family, chosen by the first line; then that
family's actions. `ImplementsGraphEditing` maps a body to its set of things
and list of links. It speaks of the entity-relationship, sequence, architecture,
class and Git graph families; the others map to the empty graph: Gantt charts,
timelines and radar charts have no links, an operation of a state diagram, a
flowchart or a mind map may take or hoist a whole subtree, and the nodes of a
Sankey diagram are its links.

## 3. Runs

`./X.cfg` belongs to run X. All are exhaustive over the stated bounds.

| Run | Shows |
|---|---|
| StdioSafety | Three lines of nine message shapes: at most one answer, exactly one for an uncancelled keyed request, none after a cancellation, later lines keep the era, an exact cancellation map; and the coordinator implements `ConnectionContract`, by which era and revision are pinned once and together, and the store closes only when idle. |
| StdioLiveness | Every ticketed line settles and end of input leads to a closed store. |
| AdmissionRetries | Every message and transport state: retrying what an error advertises converges, and an admitted message has a coherent version. |
| ArtifactRestart | Two processes, three artifacts: durability, the quotas of every process that has loaded the directory, undo of failed writes, one owner, no orphans, and a lock taken away from an open store is not made up for with its successor's. |
| ArtifactReaping | Two reapers spare live owners and unexpired artifacts, and one that empties a namespace removes it, unless the other one writes a manifest at that moment. |
| ArtifactStrayTemp | *Violation.* A stray temporary file keeps a namespace for good. |
| HostedRequests | Two concurrent requests of every shape, three among calls of one pure tool, two deploys: the cache is transparent, executes are bounded and no batch is served as modern. |
| SseSessions | Two streams and two posts on a server with room for one stream, callers hanging up, shutdown at any point: no session leaks, an accepted message is delivered or its stream has ended, every post is answered, shutdown completes unless a stream was still arriving. |
| LoaderExecute | One hosted execute against isolates that reject, answer, overrun or hang: the code runs at most once, the call ends unless a body stops coming. |
| EditorSession | Edits, clears, exports, link requests and reloads against late results: nothing stale is verified, exported or linked, nothing returns after Clear, and the page catches up. |
| AgentEdits | Two operations of any kind on small documents of every modelled family, refusals and publications between: bodies stay consistent (`ReferencesResolve`), text never says something else unannounced (`LossIsAnnounced`), a text handed out is a fixed point (`HeldTextIsStable`), unmodelled lines endure and keep their order or move with their section (`OpaqueEndures`), a change of order or names changes nothing else (`NothingElseChanges`: Gantt intervals, radar values, Sankey nodes), reported slack can be spent and not exceeded, and a diagram changes as an abstract graph does (`ImplementsGraphEditing`). |
| ClassArrows | *Violation.* A class relation authored with its marker at the right end is written with it at the left end. |

### Bounds, and why they are enough

* *Lines* (3): the longest chain a property needs is a pending `initialize`, a
  line waiting behind it and a cancellation or a third request that reuses an
  id. Ids: two exact ones that must not be confused (`a`, `b`) and two inexact
  ones that are (`c`, `d`). `Scope` varies the ids over the four core shapes
  and explores the rarer shapes with one id, since an id and a shape only meet
  in the map and in the admission, which do not look at each other.
* *Artifacts*: two processes, because a lock, a stale manifest and a wrong
  `close` each need exactly two; three artifacts of one and two bytes under
  limits of two artifacts and two bytes, so that either limit binds first; one
  crash, one failed operation, one foreign change, in any combination, and two
  failed operations in one run without the other two; a clock of three ticks over
  a TTL of two, enough to expire one artifact and keep a later one. A lock in use
  is removed only before the second artifact exists (`Scope`): the property it
  serves, `OnlyOwnerReleases`, is about locks alone.
  Processes are symmetric; artifacts are not, as they differ in size.
* *Reapers*: one owner, two reapers, two crashes (the owner and a reaper). Two
  reapers are what a namespace written to under another one's `rmdir` takes.
* *Requests*: two of any shape from 24 bodies that reach every refusal and
  every item path; a third where the properties are about the cache. Deploys:
  before and after. `MaxBatchItems` is 2 in place of 20 so that a batch can be
  too long.
* *Streams and posts* (2 and 2, room for one stream): a second stream is what a
  full server refuses and what may arrive while the server closes; a second post
  can be addressed to a stream that the first one's answer went to.
* *Loader*: no bound is needed, the code has two attempts.
* *Agent edits*: two operations with a refusal or a publication before, between
  or after them. The first operation makes a body no parser produced, the second
  one acts on it, and a publication makes a text of it. The sources are small
  and chosen to reach what the operations must keep in step: implicit sections
  and entities, groups and namespaces in namespaces, relations to a group,
  fragments, unmodelled lines between modelled ones, regions and histories of
  composites, alignments, notes, paint and numbered link styles, merges and
  cherry-picks, keyed curves, parallel links. Arguments hold
  a fresh name, a used one and, where a name can be read as something else, that.
* *Editor*: three sources (blank, one that verifies, one that does not), two
  option sets, three render versions, two compressions and one export at a
  time. A stale result needs one edit after it started, a stale result of a
  stale result needs two.

`CHECK_DEADLOCK FALSE` is set where a behaviour ends because a bound is spent
(artifacts, hosted requests, retries). The coordinator and the editor are
checked for deadlock: the first has an explicit closed state, the second can
always reload.

### Fairness

Liveness is asked of four modules. In the coordinator every `Turn` of a line and
the drain loop are weakly fair: the event loop runs ready callbacks, and
dispatch settles because tools either are synchronous or have deadlines of
their own. Nothing is asked of the client: lines may stop and input need not
end. In the editor, timers fire and promises settle (weak fairness of `Fire`,
`Load`, of some pending render and of some pending compression); nothing is
asked of the user, of the draft timer or of exports. In the HTTP server the event
loop serves what has arrived, a body arrives or times out, a tool ends, an ended
connection is released and the listener's callback runs; nothing is asked of
clients, who need not hang up. In the loader the call and its timer go on; an
isolate need not.

## 4. Findings

Two disagreements have a run of their own, whose counterexample is short:

1. `class-body.ts:4-6` promises that a parsed body is written to source of the
   same meaning. `class-body.ts:297` chooses the arrow by the relation's type
   alone, always with the marker at the left; `class/parser.ts:508-527` reads
   `A --|> B` with the marker at the right. The relation comes out as
   `A <|-- B`: the other class inherits (ClassArrows).
2. `artifacts.ts:360-362` says the next implicit store removes empty
   namespaces. One with the temporary file of a crashed write is never removed
   (ArtifactStrayTemp).

### Known deviations

Met while modelling, and in the models; the properties say what the code does
keep.

* `server.ts:353-354` says a modern first request commits its era immediately.
  A modern request whose method is `initialize` takes the other branch
  (`server.ts:364`): it is answered with an error and commits nothing.
* `server.ts:341-342` says a cancellation must remain actionable. For a request
  id beyond the safe integers it is not: only top-level ids are carried exactly
  (`server.ts:271`), so the target in `params` is not recognised.
* `docs/mcp-http-transport.md:219` says the limit is on *unexpired* artifacts.
  `loadManifest` (`artifacts.ts:315`) applies it to every listed record before
  expired ones are swept, so a restart with a lower limit may refuse a
  directory whose artifacts have all expired.
* `artifacts.ts:252` says a marker is never removed whose identity cannot be
  proven. The proof and the removal are two operations: a lock file the operator
  removes and another process makes anew between lines 249 and 250 is removed, and
  so is one made anew between lines 265 and 273 when writing the first one failed.
  `OnlyOwnerReleases` exempts exactly these (`overtaken`).
* A reaper that goes by an earlier time may keep a record another one lets go, and
  write its manifest between that one's unlink (`artifacts.ts:445`) and `rmdir`
  (447), which then fails and is swallowed: the namespace is left to a later
  visit. `CleanNamespaceRemoved` exempts the visit that was disturbed in this
  way, and no later one.
* `editor/js/sharing.js:260-262` says autosave protects a never-valid diagram
  across a refresh. Once any earlier diagram has rendered, its link is in the
  address and wins over the draft (`init.js:207`).
* A `GET /sse` that is still arriving when `close()` sweeps the streams opens a
  stream nothing ends (`server.ts:521`): the callback of `server.close`, and
  with it the close of the artifact store, waits for that client to leave.
  `ShutdownCompletes` exempts exactly this. A message accepted for a stream that
  ends before the answer is written still gets 202. A tool whose caller has
  hung up may run after the store has closed; the store's own check refuses it.
* The loader's timer is cleared before the body is read
  (`execute-loader.ts:120`): a body that stops coming holds the call for ever.
  `ExecuteAnswers` exempts exactly this.
* *State diagrams.* `move_state` or `make_composite` of a state without a line
  of its own is undone when the text is read again: only its transitions say
  where it is. A simple id used in two scopes is two states to the parser though
  the comment at `state-body.ts:116-119` says ids are global; `add_transition`
  in a nested scope to a state elsewhere can produce such a pair (announced by the
  round-trip warning). A note on a nested simple state is written at the root,
  where the parser makes a second state of that name. A pseudostate that an
  operation names as parent becomes a composite and keeps a stereotype no line
  says. `dissolve_composite` may hoist a bare `[H]` to the root.
  `make_composite` with an id listed twice puts that state there twice
  (`state-body.ts:941-945`); the model's members are distinct.
* *Entity-relationship diagrams.* `set_direction` is satisfied by the direction
  line of a group; an implicit entity's group, claimed by a relation inside it,
  is lost with that relation; the label of an entity known only from a `class`
  or `style` line is not written; `add_entity` and `rename_entity` do not look at
  group ids.
* *Flowcharts.* The members of a dissolved nested subgraph go to the root, where
  `op-schema.ts` and `flowchart-body.ts:911-912` say the parent scope.
  `flowchart-body.ts:697-698` calls shapes that are not written unreachable from
  the menu of operations, but `GEOMETRY_SHAPES` (959-963) offers `state-start`
  and `state-end`, whose shape and label are silently not written; nor is the
  shape of a node with an icon. `add_edge` to a subgraph's id makes a node that
  is read as the subgraph (announced); `add_node` and `rename_node` do not look
  at subgraph ids; an edge to a dissolved subgraph dangles until the batch is
  rejected. A node bracketed in two subgraphs is a member of both, a plain one
  silently of one.
* *Git graphs.* The message generated for a cherry-pick is not renewed by
  `set_commit_message` of its source or `rename_branch` until the text is read
  again; `set_commit_tags` with no tags drops its synthetic tag and the text
  brings it back.
* *Mind maps.* The `markdown` flag is not updated by `set_label`; afterwards
  every icon, class or accessibility operation on the map is refused as not
  stable.
* *Timelines.* A section label with ` : ` is read as a period with an event, a
  period label that begins with `title ` as the title, one that begins with
  `section ` and has no event as a section. The first adds to the counts what
  the others take: each sort alone is announced, together they may cancel and
  the loss is silent. With the title two operations are enough; with a section
  `a : b` and two periods `section a`, all else as it was, it takes four, more
  than the run allows: a longer search found it. `CountsCancel` exempts bodies
  that have both sorts of label. A section put before the unlabelled one
  takes its periods over (announced).
* *Radar charts.* `%%` in a title begins a comment for the parser
  (`radar/parser.ts:107`) and not for the serializer, so `set_title` is silently
  cut there, though `radar-body.ts:19-20` says the written form is read
  identically. `LossIsAnnounced` exempts exactly this.
* *Sankey diagrams.* A link whose source begins with `%%` is read as a comment
  (announced).
* *Gantt charts.* A task put in the emptied implicit section is written under the
  last labelled section (announced by the warning); `b, 2d` without a start is
  read as a start `b`; an id that is a tag word is read as the tag. Slack is
  counted along `after` edges only, as `gantt/schedule.ts:470-473` says: a task
  without a start is chained by its place, and what it chains may be given more
  slack than there is. `SlackIsSpendable` speaks of schedules whose tasks all have
  a start and a duration. `add_task` and `remove_task` move what is chained
  behind them in time, the first on purpose (`gantt-body.ts:302-305`);
  `NothingElseChanges` speaks of `move_task` and `move_section`.
* *Sequence diagrams.* `set_participant_label` on an implicit participant gives
  it a declaration and with it the first place on the next parse.
* *Class diagrams.* A parent namespace that exists only through its children is
  counted by the body and not written, so the round-trip warning is a false
  alarm.

## 5. Proofs

Each theorem holds for every value of the constants its module's named
assumptions allow. The table says which property of a run each one states;
`PROJECT.json` lists them under `theorems`.

| Module | Theorems (property) |
|---|---|
| `StdioCoordinatorProofs` | `TypeCorrect` (TypeOK), `AtMostOneAnswer` (AnsweredAtMostOnce), `InFlightExact` (InFlightIsExact), `KeyedRequestsAnswered` (EveryKeyedRequestIsAnswered), `CancelledIsSilent` (NoAnswerAfterCancel), `EraIsKept` (LaterLinesKeepTheEra), `CoordinatorKeepsContract` (KeepsContract) |
| `ArtifactProofs` (store) | `OneOwner` (SingleOwner), `LocksAreRespected` (OnlyOwnerReleases), `AcknowledgedIsDurable` (AcknowledgedSurvives), `FailedIsUndone` (FailedWriteLeavesNothing), `NoOrphans` (NoOrphanFiles), `QuotasHold` (QuotaHolds) |
| `ArtifactProofs` (reapers) | `ReapingKeepsAcknowledged` (AcknowledgedSurvives), `LiveOwnersAreSafe` (LiveOwnerUntouched), `CleanNamespacesGo` (CleanNamespaceRemoved) |
| `SseTransportProofs` | `RegistryIsExact` (SessionsAreLive), `AcknowledgedIsDelivered` (DeliveredOrGone) |
| `AdmissionProofs` | `CacheTransparent` (CacheIsTransparent), `RunsBounded` (RunsAreBounded), `AdvertisedIsAdmitted` (RetriesConverge) |
| `ExecuteLoaderProofs` | `CodeRunsAtMostOnce` (CodeRunsOnce) |
| `EditorSessionProofs` | `TypeCorrect` (TypeOK), `ArtifactCurrent` (ArtifactIsCurrent), `DeliveredCurrent` (DeliveredIsCurrent), `ClearedBlank` (ClearedStaysBlank), `LinkCurrent` (LinkIsCurrent) |
| `AgentSessionProofs` (Sankey) | `FlowsResolve` (ReferencesResolve), `FlowLossIsAnnounced` (LossIsAnnounced), `FlowTextIsStable` (HeldTextIsStable), `RenamingKeepsNodes` (NothingElseChanges) |
| `AgentSessionProofs` (radar) | `ChartsResolve` (ReferencesResolve), `ChartLossIsAnnounced` (LossIsAnnounced), `ChartTextIsStable` (HeldTextIsStable), `RearrangingKeepsValues` (NothingElseChanges) |
| `AgentSessionProofs` (timelines) | `SectionsResolve` (ReferencesResolve), `TimelineLossIsAnnounced` (LossIsAnnounced), `TimelineTextIsStable` (HeldTextIsStable) |

### The coordinator

For every number of lines, every set of ids and inputs, and every set of
revisions. Three inductive invariants, each resting on the one before.

    LedgerInv == TypeOK /\ FutureIsUnread /\ SilentUntilWritten
                 /\ AnsweredAtMostOnce /\ InFlightIsExact

`AnsweredAtMostOnce` alone is not inductive: a line in a phase from which it
will still be answered must not have been answered yet, which is
`SilentUntilWritten`. `InFlightIsExact` needs to know that a line not yet
received is in no set and has the phase it starts with (`FutureIsUnread`),
because accepting the next line is what adds to the map.

    AnswerInv == UnreadIsBlank /\ KeyedIsRequest /\ DoneIsAnswered /\ RevokedIsSilenced

A chain that has run to its end has written its answer unless its controller
was fired (`DoneIsAnswered`, where a rejected dispatch is the path that needs
the catch clause), and a request whose exact id was cancelled while it ran has
had its controller fired or has settled (`RevokedIsSilenced`).

    GateInv == PastIsRead /\ NotYetAdmitted /\ AdmittedInOrder /\ GateHeld
               /\ PinnedIsChosen /\ FollowersAgree /\ AnsweredAsLegacy

is the order of the gate. `LaterLinesKeepTheEra` relates two lines; that it is
kept when the *earlier* one commits needs that nothing behind a line in the
gate has been admitted (`AdmittedInOrder`) and that the era is still open while
an `initialize` holds the gate (`GateHeld`). A line *pins* the era from the
moment its commitment is certain (`PinsEra`), before its answer is written:
stated of written answers only, the invariant would be lost in between.

`CoordinatorKeepsContract` is the refinement, step by step: the initial states
map to the contract's, accepting a line opens an exchange or is a control line
(`AcceptIsContract`), a turn of a line's chain answers, closes or pins, or
leaves the abstract state alone (`TurnIsContract`), and draining ends the
connection when nothing is open (`DrainIsContract`). It uses all three
invariants, and `VersionWithEra`, the revision is pinned with the legacy era.
`NoneAssumption` and `NoneIsNoReason` say that the value for `null` is none of
the tags the code compares it with, which in JavaScript is a matter of types.

### The artifact store and the reapers

For every number of processes, names, crashes, failed operations and foreign
changes, with limits that may differ from process to process.
`ShapeInv` (types, a job while writing and only then, empty memory when down)
and `LockIsHeld` (a process that is up holds the lock, unless an operator removed
one in use) give `OneOwner`, and with it that the other processes stay down
during a step of one (`OthersAreDown`): everything else is about one process and
the disk.

`LocksAreRespected` is about a directory whose lock may be removed at any time, so
it cannot use that there is one owner. `LocksAreKnown`: a process about to unlink,
or to write the lock file it created, holds the lock unless it is in `overtaken`.
It is inductive because no other process's step touches a lock that is neither
free nor its own without adding its holder to `overtaken` (`StepOvertakes`).

    DurableInv == ~usurped => DiskInv /\ \A p \in Procs : MemoryInv(p)

says of the disk that an acknowledged artifact is intact and listed until it
expires, and of a process past its load that the same artifacts are in its
records: a manifest is written from the records, so a record missing from memory
would be lost with the next save. It also says how far the name being written has
come, so that no failure between placing a file and saving the manifest can
leave an acknowledged name half there, or a failed one listed; and of a failed
name that its file is gone unless two operations have failed. `TidyInv` excepts
the one file that has been placed and not yet recorded. `QuotasHold` needs the
limits of the records at every step of a write, and that a subset weighs no more
than its set. The total size is a fold over a finite set; the theorems of the
library that define functions by recursion take operators as parameters and
cannot be instantiated here, so that the fold exists, is unique and adds one
summand per element is proved by descent to a smallest subset without the
property (`SmallestSubset`, `FoldUnique`, `FoldExists`, `TotalStep`).

`QuotaHolds` compares what callers can fetch with the limits of the processes
that have loaded the manifest, and says nothing of one that is still starting:
with a lower limit than before its start is refused.

`ReaperInv` is the same for any number of reapers. `EntersAbandoned`: a reaper is
past its inspection only in a namespace without a live owner and with no lock,
and it goes by no later time than the clock. `KeepsAcknowledged`: what it has
decided to keep and what it has not looked at yet include every acknowledged
artifact that has not expired, although other reapers, with times of their own,
remove files and rewrite the manifest between its steps; and as long as no
operation failed, what it neither kept nor has to look at is absent.
`LeavesNothing`: at its `rmdir` there is nothing left to look at, it kept nothing,
and the manifest is gone unless it was crossed. No reaper ever adds an artifact
file and a namespace once abandoned is never opened again, which is what lets the
three carry over the steps of the others. `ReaperKeepsStore` says that a reaper's
step, seen from the store, only takes away what nobody can fetch any more.

### The HTTP server

For every number of streams, posts and sessions (`RoomAssumption`: the limit is a
number; `NoneIsNoStream`: a post to `/rpc` names no stream).

    SseInv == Shape /\ RegistryInv /\ HeldStreamOpened /\ AcknowledgedHasStream
              /\ DeliveredOrGone

Between its two awaits a handler keeps the stream it looked up: it may have
ended since, but it did open (`HeldStreamOpened`). Without this a lost answer
could be for a stream that is not there yet. `RegistryInv` adds to
`SessionsAreLive` that the registry is finite however many streams there are,
which its cardinality needs.

### The hosted handler and the loader

For every set of bodies, calls, requests and deploys. `BodiesAreParsed` is what
`JSON.parse` and the checks before the first item guarantee: an array of items or
one message. `MaxExecuteItems >= 1` is needed because a lone execute is never held
to the limit of a batch (the source has 1). `HostedInv` is `Shape`, `CacheInv` and
one `RequestInv` per request. `CacheInv`: under every key, in the cache and on the
way to it, is the neutral result of the call and deploy *the key names*, or
something unreadable; `ItemInv`: what an item has read is the result for its own
call and deploy. That a key determines the call and the deploy then makes a hit
as good as a dispatch, however many requests and deploys wrote to the cache.

A loader has two attempts, so its run is exhaustive; the theorem says why the
property holds. There is a second isolate only after the first one failed to
parse (`SecondNeedsSyntaxError`), and an isolate that has not parsed its form
ran nothing (`UnparsedRanNothing`).

### The retries

For every set of legacy, modern and unknown revisions and any served subset,
where every transport is one of the two kinds the source builds
(`TransportsAreOurs`: the HTTP endpoints, which are stateless and require a
header, and a connection, which has none and pins an era). `ConvergeInv` adds to
the property where a client is after one retry that kept its shape:
admitted, or holding a legacy revision in a modern claim (`LegacyKept`), which the
next error redirects to a modern one (`LegacyClaimIsRedirected`).

### The editor

`EditorSessionProofs`, for every set of sources, options and opening links and
every bound that `EditorAssumption` and `NothingIsNoDocument` allow:

* `TypeCorrect`: `Spec => []TypeOK`.
* `ArtifactCurrent`: `Spec => []ArtifactIsCurrent`.
* `DeliveredCurrent`: `Spec => []DeliveredIsCurrent`.
* `ClearedBlank`: `Spec => []ClearedStaysBlank`.
* `LinkCurrent`: `Spec => LinkIsCurrent`, an action property.

All but the types come from one inductive invariant,

    SessionInv == SessionTypes /\ RendersAreOfVersion /\ ArtifactIsVerified
                  /\ NewestLinkIsCurrent /\ ArtifactIsCurrent
                  /\ DeliveredIsCurrent /\ ClearedStaysBlank

`isCurrentRender` compares a version and a source, not the options: that it is
nevertheless enough is `RendersAreOfVersion`, a render of the newest version has
the options on screen, because every change of options asks for a new version
and `Clear`, which does not, changes the source only. The same conjunct says
that no render is of the blank editor, without which a late render could bring
a picture back after `Clear`. `updateHash` compares the token and the source,
not the document it compressed: `NewestLinkIsCurrent`, the newest job is of the
document of the artifact as long as there is one, makes that enough; its proof
uses that every edit revokes the artifact. `ArtifactIsVerified` excludes a link
after `Clear`, and `NothingIsNoDocument` (the values for "nothing" are no
documents) makes an export that matches the preview one of a live artifact.
`SessionSteps` sorts the actions by what they do to the page, all edits as one
`Edit`; each conjunct then has one step per sort of action.

### Radar charts, Sankey diagrams and timelines

`AgentSessionProofs` has theorems of the form
`Spec /\ kind = "sankey" => []ReferencesResolve`, four for each of the first two
families and three for timelines: a session that starts on such
a diagram keeps the property through any number of operations, refusals and
batches, for every authored source and every set of arguments. A session never
changes its family (`FamilyStep`), so the theorems rest on one inductive
invariant per family, and on lemmas about that family's operators in
`ChartEditingProofs`.

Assumed is what the grammars make of a text, for all sources. `SankeySources`:
a source is a sequence of links. `RadarSources`: a line lists axes, draws a
curve, sets a title or one option; numbers have no sign
(`radar/parser.ts:224-235`, `radar/scale.ts:16-27`); and the title that is left of
one with a comment has no comment. `TimelineSources`: a line is a heading, a
section, a period or a continuation, and what it is read as is what it is: a
section has a label (the section grammar matches no empty one, and operations
refuse it) that holds no ` : `, a period's label begins with no `title `, nor
with `section ` when it has no event, since either would have been read as that;
the same of what a label is taken for.

*Sankey.* `SankeyInv`: body and text are acyclic flows, and no link of the text is
a comment. Every operation ends with the check of the whole body, so
`CommitEdits` is enough for the body; what takes work is what an acyclic flow is
good for. `Layering`: if among any links there is one that begins where none of
them ends, the nodes can be numbered with every link going up. Take a smallest
set of nodes such that the others have places: a node of it that no link from
within the set ends at could be placed next (`PlaceNext`), and a set without such
a node contains a cycle. That makes `FlowsResolve` more than the check: the
layout has a place for every node. Reading a text leaves out comments and
nothing else (`KeptIs`), so a text that says something else has fewer links than
the body, which the verifier counts (`FlowLossIsAnnounced`); and what was read
contains no comment, so it is read again as it is (`FlowTextIsStable`).
`SameNodes`, two ends are the same node before an operation exactly if they are
after it, is shown of each operation (`RenameNodeEdits` from the refusal of a
label another node has).

*Radar.* `RadarInv`: body and text are charts without a problem (`Drawable`).
`Redrawn(b)` is what every operation makes of a chart `b`: a drawable chart with
the ids of `b` in their order, or one in which every curve and axis that are in
both meet in the same value (`ValuesStay`). The
operations on axes splice the list of axes and each curve's values in two places
of the code; `AddAxisRedraws`, `RemoveAxisRedraws` and `ReorderAxisRedraws`
show that the positions agree, from what inserting, removing and moving do to a
sequence (`InsertedIs`, `RemovedIs`, `MovedIs`). `TextSays` is the round trip: the
text of a drawable chart reads as that chart, its title cut at a comment. It
follows the parser over the parts of the text in order (`ReadConcat`, `ReadTitle`,
`ReadAxes`, `ReadCurves`, `ReadOption`), each of which changes one field of what
has been read so far and leaves the others. Cutting a title twice is cutting it
once, which gives `ChartTextIsStable`.

*Timelines.* `TimelineInv`: in the body at most one section has no label, and it has
a period; in the text that section is the first. The second half is what the
parser guarantees (`TimelineParseIs`, an invariant of its fold over the lines) and
what operations do not keep: a section may be put before the one without a label.
The first half is inductive for each operation: `SectionsFrom` treats all that
add, remove, relabel and move sections alike, as sections that come from different
places of the body or have a label; `ReperiodedTells` and `EmptiedIsDropped` say
that a section may lose its last period only where the code drops it, which is
why `MovePeriod` within a section needs no such step. For the text, every line the
serializer writes is one the parser may be given (`TimelineRenderIs`), whatever it
reads it as.

What has been read is moreover *plain* (`PlainSection`, part of `Read`): it would
be read as what it is. A plain body is read as itself, line by line, period by
period and section by section (`PeriodReads`, `SectionReads`,
`TimelineTextStays`), which gives `TimelineTextIsStable`. For any other body the
same walk counts (`PeriodWeighs`, `SectionWeighs`, `TextCounts`): a section whose
label is read as a period adds a period and an event and takes a section away; a
period read as a section or as the title takes its own away. If only one sort is
there, sections or periods and events differ from the body's, and the warning is
given; if neither is there, the body can differ from a plain one only by a later
section without a label, whose periods go to the section before it, and then
there is a section less (`SectionsMerge`). `CountsCancel` is what is left.

*Folds.* The parsers are folds, and a fold is a recursive function behind
`CHOOSE`. `RunExists` shows once that this function exists and steps as it
should, for a step that is a function on the bodies and lines in question: the
descent of `SmallestNumber` takes the place of an induction principle with an
operator for parameter. The parser of Sankey
diagrams is written as a fold for this reason, where selecting a subsequence
would say the same (the provers know nothing of `SelectSeq`).

### Only model-checked

* Liveness and all that rests on fairness, which is out of the provers' reach:
  `EveryLineSettles`, `DrainTerminates`, `PostsSettle`, `ShutdownCompletes`,
  `ExecuteAnswers`, `EditorCatchesUp`; and `ENABLED`.
* The agent session on the other nine families: `ReferencesResolve`,
  `LossIsAnnounced`, `HeldTextIsStable` and, for Gantt charts,
  `NothingElseChanges`. Their parsers carry scopes, stacks or implicit
  declarations from line to line, so each takes an invariant of its fold as
  well as one of its operations; the way is that of the three families above.
* `SlackIsSpendable`, over a schedule that is a recursive function of the tasks
  and of calendar days, `OpaqueEndures` and `ImplementsGraphEditing`, which speak
  of those families only.
* The two properties of the violation runs are false of the code.

## 6. Not modelled, and why

* A directory made and not locked within the grace period: `Age` never applies to
  one in the making, so an owner suspended for longer between `mkdir` and its
  lock is assumed away (`artifacts.ts:372-374` assumes it too).
* A lock file whose marker was only half written: `close` then keeps it and a
  reaper quarantines the namespace, as it does with a live owner's. A process
  id reused by another program looks alive to a reaper, which passes over it.
* `setBaseUrl` and the URL in a record: no decision reads them.
* An exception escaping a hosted dispatch (`mcp-handler.ts:489`: tool failures
  are results, so it takes a defect elsewhere), the checks before a body is
  parsed (origin, method, content type, size) and the telemetry fields other
  than those the cache header is computed from.
* In the HTTP server: authorization (a pure function of one request), `/health`,
  `serveArtifact`, heartbeats and a start that fails.
* In the editing core: the check of an operation's shape, source wrappers
  (frontmatter and directives), label and layout warnings, and the lexical
  grammar of every family: a line is the kind and the parts the grammar makes
  of it, and each module says which spellings it leaves out.
* In the editor: the text views, zoom, spinner, panels, the palette kept in
  local storage and the `?example=` and `?empty=` parameters. Typing before
  the initial source has been chosen is modelled (`init.js:193`: the choice
  overwrites it), but nothing in the repository says what should happen and no
  property speaks of it. A restyle saves no draft of its own, in the code and
  in the model.
* Layout (real-valued geometry over the bundled ELK engine), renderers, styles
  and palettes, the website build, release scripts and the command line: pure
  functions from text or positions to text or files, by far the largest part of
  the repository, with no state a step of another actor could disturb.

## 7. Plan

Order of work, most important first; done parts are marked.

1. (done) Coordinator, admission, contract, first proofs.
2. (done) Artifact store and reapers; hosted handler; retries; editor session
   with its proofs.
3. (done) `ExecuteLoader` and `SseTransport` with their liveness.
4. (done) `EditCore`, `AgentSession`, `GraphEditing` and twelve families with the
   Gantt schedule.
5. Journey, quadrant, pie and xy charts under the same properties. They come
   last because their operations end with a check of the whole body and keep
   few structures in step.
6. Pure algorithms with reference definitions: routing and cache classes of the
   Worker, sequence activation nesting.
7. (done) Proofs of the safety properties of the coordinator with its
   refinement, the artifact store, the reapers, the HTTP server, the hosted
   handler, the retries and the loader.
8. (done) Proofs about sessions on Sankey diagrams, radar charts and timelines.
9. Proofs about the families with a statement stream, `ReferencesResolve` first:
   `ErEditing`, whose parser carries least from line to line.

To keep the project small enough to check in minutes, a new run takes the
place of the least informative one.
