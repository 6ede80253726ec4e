# Formal models of xnchSystems

TLA+ modules, TLC configurations and TLAPS proofs about the programs of this
repository whose behaviour depends on the order in which threads, processes,
callbacks, requests and crashes take effect. Paths below are relative to the
repository; `web/` stands for `web/src/`.

## 1. The system

xnchSystems is the client and operations side of the xnch control plane (the
gateway on port 8001 lives elsewhere). Its parts, with the state each keeps:

| Part | State | Operations | Hard behaviour |
|---|---|---|---|
| **Gas Town bridge** `clients/gastown/serve.py` | `.workstreams.json`, one entry per workstream: state, `bead_id`, `dispatch_error` | `POST /api/workstreams` (register, `bd create`, `gt convoy`, `gt sling`, save again), `GET` of one or all, a poller that runs `bd show` for every entry every 30 s, restart by launchd | a thread per request plus the poller; each loads the whole file and saves a changed copy later; commands of up to 30 s in between; crash in a save |
| **Gas Town client** `xnch_mcp/gastown.py`, `xnch_mcp/handlers/workstream.py` | none; outcomes recorded in the memory service | dispatch, status with "record the outcome once" | client timeout shorter than the server's work; check and record in two calls |
| **Training cycle** `xnch-train/xnch_train/train/cycle.py`, `goal.py`, `merge.py` | `out_dir/.cycle.lock`, `out_dir/merged`, `out_dir/registry.sqlite`; goals and proposals on the gateway | lock, create and claim a goal, train, merge, register, propose, retain, unlock | several processes; `flock` and `unlink` of one name; failure after each step; kill |
| **Checkpoint registry** `train/registry.py` | rows (id, path unique, date) | register, current, get_path, retain | one sqlite statement each, called from several processes |
| **Promotion** `train/promote.py` | the link `~/models/current` | look up, read link, flip, restart vLLM, smoke test, roll back | two promotes at once; failure or kill between flip and smoke test |
| **Chat store** `web/lib/stores/chat-store.ts`, `lib/api/client.ts` | conversations, the active and the streaming one, a controller per conversation | create, select, rename, delete, send, regenerate, stop; the stream of each send; reload of the page | callbacks of streams that outlive their conversation, their answer or their place in the store |
| **Approval queue** `web/lib/stores/approval-store.ts`, `components/approvals/`, `lib/hooks/use-workflows-api.ts` | local requests and the last decision; the gateway's queue and the decisions on their way | add, decide, undo, sweep; the same from rows and from the pane, on the local store or on the gateway | undo, sweep, expiry and decisions elsewhere; a list switched by the connection |
| **Workflow editor** `web/lib/workflows/graph.ts`, `components/workflows/` | the graph, the selection, the text in the arguments box | add, patch, connect, unlink, delete, check, compile | any sequence of edits; React Flow's own changes; what the checks let pass |
| **Workflows page** `web/components/workflows/workflows-view.tsx`, `lib/stores/workflow-store.ts` | the browser's workflows and runs, the gateway's list, draft, canvas, requests | create, edit, copy, run, delete, import, from one of the two sources | the source changes under an open builder; late successes |
| **Query cache** `web/lib/api/hooks.ts`, `components/providers.tsx`, `components/layout/` | one entry per query key, the last health check | poll, fetch, invalidate, refetch when the gateway is back | requests in flight at an invalidation, failures that keep old data |
| **Graph page** `web/components/graph/` | search, filter, depth, focus, selection, hover, the drawn canvas | search, filter, focus, walk, refresh | two answers joined, late answers, hand-written memo dependencies |
| **Other pages** (context, memory, tools, system, agents, observability, network, language-model light) | one field or dialog each, a mutation, a list | poll, ask, show | overtaking requests, badges that compare two queries |
| **MCP bridge** `xnch_mcp/bridge/` | one client per configured child process, its lock and session, tool index | start, call, stop | a supervisor task per child, child death, calls without a timeout |
| **MCP registry and servers** `xnch_mcp/registry.py`, `http_router.py`, `stdio_server.py` | tool table | list, invoke with policy check and events | events in the right order on failure |
| **Chat tool loop** `xnch_mcp/chat_tools.py`, `tool_loop.py` | the messages of one request | rounds of model call and tool calls | termination; repeated tool calls |
| **File and command capabilities** `xnch_mcp/fs/`, `xnch_mcp/exec/`, `capability_agent/` | the file system | read, write, edit, run | edits of one file at once |
| **Agent gateway** `scripts/agent-gateway/` | a subprocess per request | stream an agent's output as server-sent events | timeout, client gone |
| **Scraper** `scraper/` | chunks with embeddings in a table | tiers with fallback, chunk, store, crawl | several inserts without a transaction |
| **Training data** `xnch_train/extract`, `scrub`, `models`; **evaluation** `gate`, `evalharness`; **trainer** `train/qlora.py` | files written once | batch computations | accounting of dropped records |
| **Command-line and voice clients**, **web layout**, **operations scripts** | | front ends and command sequences | |

How they interact: the MCP tools call the bridge server over HTTP; the bridge
calls `bd` and `gt`. A training cycle calls the gateway for goals and
proposals; an operator then runs `xtrain promote` on what was proposed, and the
link it flips is a name for the directory that a cycle merged. The web pages
call the gateway through a proxy route and keep their own copies of what it
said, in the query cache, or, while it is not online, in stores of their own; a
run of a workflow of the browser adds requests to the local approval queue.

What makes each right:

* bridge: an answered workstream stays in the registry; outcomes are reported
  only with evidence, and once reported are not taken back; they are reported
  in the end; a save is all or nothing;
* cycle: one cycle per output directory; only registered checkpoints are
  proposed, each once; a run that ends leaves no lock;
* promotion: the link names a checkpoint that passed its smoke test;
* chat store: what runs is shown and can be stopped, what ends is settled;
* approval queue: a request is decided once, and only the last decision can be
  taken back; what is overdue, or decided elsewhere, does not stay on the list;
* workflow editor: what passes the checks compiles to the chain on the canvas;
  a save writes one workflow; the workflows of the browser stay what they are
  while the gateway's are shown;
* pages: what is shown is an answer to what was asked; a page comes to say that
  there is nothing only by an answer that has none; what is polled catches up.

## 2. The modules

| Module | Models | Composed with |
|---|---|---|
| `AtomicRegistry` | abstract: a register with atomic loads and saves, which a cut-short save empties, and of which a load may fail | |
| `RegistryFile` | `_load_registry`, `_save_registry`: lock, truncate, write, unlock | implements `AtomicRegistry` (`ImplementsAtomic`) |
| `Gastown` | handlers, poller, `bd`, `gt`, crash and restart, over atomic loads and saves | uses what `RegistryFile` shows |
| `CheckpointRegistry` | the registry's operations as operators on a set of rows | extended by `TrainCycle` |
| `TrainCycle` | `run_cycle` of several processes in one directory | |
| `Promote` | `promote` of several processes on one link | |
| `ChatStore` | the store, the streams, the user, reloads | |
| `ApprovalLifecycle` | abstract: the life of a request, and what can be taken back | |
| `ApprovalQueue` | the local store, the page, the gateway's queue | implements `ApprovalLifecycle` (`ImplementsLifecycle`) |
| `WorkflowGraph` | the pure functions of `graph.ts` | extended by `WorkflowEditor` |
| `WorkflowEditor` | the canvas and the panel of a step | |
| `Workflows` | the workflows page with its two sources and the builder | the canvas reduced to what its last compilation was |
| `GatewayQueries` | the query cache, the health check, the refetch | extended by the next two |
| `GraphExplorer` | the graph page | |
| `OperatorPages` | the other pages, one visit each | |
| `MCRegistryFile`, `MCGastown`, `MCTrainCycle`, `MCWorkflowEditor`, `MCWorkflows`, `MCGraphExplorer`, `MCOperatorPages` | symmetry, constant values and bounds over several counters for TLC | |
| `RegistryFileProofs`, `GastownProofs`, `TrainCycleProofs`, `PromoteProofs`, `ChatStoreProofs`, `ApprovalQueueProofs`, `WorkflowsProofs`, `GatewayPagesProofs` | theorems | each extends the module it is about; `WorkflowsProofs` also `WorkflowEditor`, and `GatewayPagesProofs` both `GraphExplorer` and `OperatorPages`, which is why the editor's and the graph page's specifications are called `EditorSpec` and `GraphSpec` |

`PROJECT.json` maps every definition to its lines. Definitions whose comment
begins with *Mutant* are wrong variants of the one they precede; no behaviour
specification uses them. They serve to see that each property notices the bug
it is meant for.

### RegistryFile and AtomicRegistry

`_lock` is taken around the file operations only. `Path.write_text` truncates
and then writes, so a save has a moment in which the file is `Torn`; an absent
or unparsable file loads as `{}`. So does a whole file whose `read_text` raises
`OSError` (`ReadFails`: the except clause of `serve.py:53-56` makes no
difference), while an error of `exists`, before the `try`, reaches the caller
(`LoadRaises`). Faults are these, an I/O error at any point of a save, and a
death at any point. The abstract register has three steps per thread: call,
take effect, return; a save that is cut short may empty it, and a load may fail
and say `{}` of a register that is not empty (`FailLoad`): the caller's next save
then wipes it, and no fault of a save is needed. The refinement mapping lets a
save take effect when the file is written. Two history variables serve it:
`before` is what a file under a save said when it was truncated, `cut` that a
save was cut short and none was written since.

### Gastown

One member of `WS` is one accepted POST, its handler thread and its registry
entry; a client's retry gets another id, hence is another member. `ws` and
`snap` are the locals `ws` and `data` of the code: `snap` is loaded in one step
and saved, changed, in a later one. `ppc`, `todo` and `changed` are the
poller's round. Every command may fail or time out after it took effect
(`CreateFails`, `SlingFails`) and every statement that can raise has its own
action to the except clause it reaches, including the lookup in the except
clause that raises in turn (`ErrorMissing`: the connection is closed without an
answer). `HandlerReadFails` and `PollReadFails` are loads that fail and return
`{}`, `HandlerLoadRaises` those that raise. `bd show` is searched for words, in
a text that holds the title and description too: `DoneWord` and `ErrWord` are
the workstreams whose own text has such a word. `bead` and `slung` are the
outside world. GETs only read `reg`. Left out: the authorization check and
`/healthz`, which touch no state; that two workstreams of one title share a
hash as bead id if `bd create` prints none; what a caller does who got no
answer.

### CheckpointRegistry and TrainCycle

The lock file is modelled as an inode with an owner of its `flock`: `Open`
opens or creates the file that the name stands for, `Flock` locks the open
file, `Unlock` drops the lock and closes, `Unlink` removes whatever the name
stands for then. A run creates at most one lock file, so files are named by
the run that created them. Runs in one directory at once come from `xtrain` on
the command line; `xtrain-cycle.service` is not a template unit. All runs are
on one day, so ids differ by goal only. The goal server is external: it takes
a goal, leases one, and receives proposals, each of which may be delivered and
still be reported as failed. Training is a choice between success and failure.

### Promote

Reading the link (`is_symlink`, then `readlink`), flipping it, restarting vLLM,
the smoke test and the rollback are separate steps. The smoke test succeeds iff
the directory exists, and directories are deleted by hand and merged again.
Only the smoke test is inside the `try`: a failing restart leaves the link
flipped (`stranded`). Left out: a link name that is a plain directory, the
dry-run and fake options, and which model vLLM has loaded; its unit file serves
`models/ornith-gptq-pro` whatever the link names.

### ChatStore

JavaScript runs one task at a time, so a step is a task: a click, or the
continuation of one stream. `sendMessage` up to its first `await` is one step
(`Started`); `phase` follows the request (`fetch`), the reading of the body
(`read`) and how it ended. The finally clause runs in the task of the last
event. `controllers` is the map `activeStreams`, `streaming` and `active` are
the two ids of the store. A reload keeps what `partialize` persists and drops
the streams without running their finally clauses. The user may do what the
page offers: send unless the active conversation is shown as streaming,
regenerate under a last answer that has content, stop, select, create, delete.
Left out: titles (and `renameConversation`), the content of messages and tool
traces, two tabs on one local storage.

### ApprovalLifecycle and ApprovalQueue

`items`, `overdue` and `lastDecision` are the local store, where the time of a
decision is its age in units of which `UndoWindow` make the eight seconds of
the undo, and `overdue` is what `expires_at` says of a request. `awaiting` is
the gateway, `queue` what the page fetched of it last, `requests` the decisions
on their way: each arrives, counts if the gateway still waits for it, or is
lost. The rows decide at the gateway while online, the detail pane always in
the local store, whatever is shown, as in the code (`RowDecides`,
`DetailDecides`). The refinement maps both sources to one function from
requests to statuses. Left out: the filters, the sorting, the selected row.

### WorkflowGraph and WorkflowEditor

Handlers are operators and the controls with the condition under which each is
shown are the actions. The graph's nodes are an array, as their order decides
the run order; React Flow deletes and selects through `onNodesChange` and
`onEdgesChange`. A step keeps its kind and its gate; the text in the arguments
box is kept as whether it parses. Nothing keeps the ids of a workflow that is
imported, or that the gateway holds, from repeating (`workflows-view.tsx:65-82`):
`nodes` may hold an id twice, and `stepsToGraph` then joins it to itself. The
nodes of one id carry one step, as `patchStep`, the panel and the checks go by
id. Left out: positions, summaries, targets and the arguments themselves.

### Workflows

Of a workflow of the browser the model keeps whether a step of it is gated; of
one of the gateway, whether a step overrides the model that runs it, which the
page's own type does not carry. `draft` and `canvas` remember which workflow
they were filled from. `DraftEffect` is the effect of `useDraftWorkflow`, and
part of every action that may change its dependency. Requests remember what
they save and whether the page that sent them is still there. The selection,
kept in the URL, the toasts and the text of an imported file are left out.

### GatewayQueries, GraphExplorer and OperatorPages

A cache entry is what TanStack Query keeps for a query key, modelled from how
the hooks use it: the version of the data, an error, whether it is invalidated
and the version the gateway had when the request in flight was sent; the
answer is of that version or a later one. Time passes by an entry becoming
stale at any moment. `PollHealth` is one step, request and answer; every other
request may fail at any time. `GatewayQuerySync` looks only at the data of the
last health check, as in the code.

`GraphExplorer` renders at the end of each step: `view` is the memo of the page,
`canvas` the memo of the drawing, which stays when its dependencies, listed by
hand, stay. The graph of the gateway is a constant per version: the instance has
one with a chain, one in which an entity is renamed and one gone, and one that
is empty. The layout, the badges and the queries of the surrounding shell are
left out.

`OperatorPages` is one visit to one of eleven parts, each with only the keys
that it reads (of the network page, one of its keys at a time, and without the
count of the graph): the parts share nothing but what `GatewayQueries` holds.
`useMutation` shows the request made last. The agents page keeps its list by
hand (`runs`, `polls`): answers to its polls may overtake each other. A panel
shows a set of messages, as its cards decide apart: some say "no metrics" or
"no decisions" before the first answer, as the code does. Tool arguments, text
filters and numbers are left out.

## 3. The runs

| Run | Instance | Question |
|---|---|---|
| `registry_file` | 3 threads, 3 contents, 2 faults, symmetric | are loads and saves atomic, and what do failed ones do |
| `gastown` | 2 POSTs, poller, 1 fault, one text with a done word and one with an error word | evidence, no false "running", and that losses and reversals need a stale save |
| `gastown_fault_live` | 2 POSTs without a fault, or 1 with 2 faults, poller, fair | does every outcome surface in the end, stale saves included, does every POST end |
| `train_cycle` | 3 runs (1 autonomous), 2 ids, fair | what the lock guarantees, what proposals and results do with or without it, and does every run end without a lock |
| `promote` | 3 promotes, 2 checkpoints | where the link ends up |
| `chat_store` | 3 sends, 2 conversations, fair | what is shown, what can be stopped, what is settled |
| `approvals` | 2 local requests, 1 of the gateway, 2 decisions on their way, an undo window of 1, fair | does every request live as promised, does the toast say what is so, does the list let go |
| `workflow_editor` | 4 ids, 4 nodes, opened with 0 to 2 steps, repeated ids among them, 1 patch, 2 selected at once, symmetric | is the canvas made of chains, what do the checks refuse, what does a compilation run |
| `workflows` | 2 workflows in each source, 1 request on its way, 1 run kept | does a save mix workflows, what can happen to those of the browser |
| `graph_explorer` | 3 versions of a small graph, 3 clicks, 1 change of the gateway's state, 4 of all these | is the view true, is the canvas that of the view, does refresh reach what is shown |
| `graph_comeback` | the first 2 versions, 2 clicks, 2 changes of state; violated | is what the page reads refetched when the gateway comes back |
| `operator_pages` | 2 texts, 2 tools, 2 polls, 2 changes of the gateway's state, 2 of its data, 2 calls, 4 of these three, fair | is every answer under its own question, what makes a page say that there is nothing, and does what is shown catch up |

Why the bounds are enough. In the registry a lost update needs one thread to
load, a second to save and the first to save: two handlers and the poller give
every pair of writers, and all three in one behaviour. Two crashes, or a crash
and an I/O error, bring the registry to a state that one fault made; two failed
loads, of a handler and of the poller, wipe it and what was put there since.
For liveness two POSTs make the stale saves and one the faults, as a failed
load makes a stale save too. `MCGastown` bounds the two together: with both the
temporal check does not end in minutes. For the
lock, the interesting behaviour needs three runs: one that releases, one that
locks the file in between, one that makes a new file; two ids let two runs
clash or not, and what an id is called makes no difference, so `MCSpec` starts
from assignments of ids that differ by more than names. A third promote sees
the state that two overlapping ones left. Three sends let a stream's finally
clause meet a later stream of its conversation, which takes a send in another
conversation in between. With two local requests one is decided while the
other is the last decision; two decisions on their way may be of one request. Four
steps are the least with which there are two chains of two. Two workflows in
each source are one edited and another that it could be mixed with. Two versions
of the gateway's data make an answer old or new, and a third, at which there is
nothing, makes a page that showed something empty; three clicks are enough to
focus, refresh and change the view again, and two changes of its state take the
gateway away and back. `BoundedSpec` of `MCGraphExplorer` and `MCOperatorPages`
bounds the sum of such steps: four are an outage and a recovery with two versions
of the data, or two requests, one of which overtakes the other, with two
versions of it. `MaxInFlight`, `MaxClicks`, `MaxChanges`, `MaxCalls`,
`MaxPolls`, `MaxEdits` and `MaxSelected` bound what one behaviour may do;
`MaxRuns`, the code's 50, is 1 in the instance, so that the limit is reached.

Deadlock is checked except where a behaviour may end: the runs of
`TrainCycle`, and the pages once their bounds are used up.

What the runs show beyond "no error":

* Whatever is overwritten in the bridge's registry, by a stale save of another
  workstream or by a load that failed, an outcome of a bead that it knows
  surfaces (`OutcomesSurface`): the poller asks again. Entries without a bead
  are never polled. `CleanIsDurable` and `CleanIsFinal` say that a save of an
  out-of-date copy is the only way to lose a workstream without a fault.
* One failed read of a whole registry file is enough to lose all workstreams:
  the load says `{}`, and the save that follows writes that (`FailLoad` in
  `AtomicRegistry`, `ReadFails` in `Gastown`).
* `ExclusiveUntilUnlink` is what the lock file gives. Proposals are right even
  when it does not hold any more (`ProposedOnce`, `ProposedIsRegistered`): the
  unique path in the registry stops the second run.
* Promotes that overlap can put back each other's target; `LinkIsRelease`
  holds for those that do not.
* In the chat store one flag for all conversations is enough as long as nobody
  sends while some conversation streams (`AloneIsShown`). Sending elsewhere
  takes the flag away from the first stream: its conversation takes another
  send, and the first one's finally clause then removes the second's
  controller and flag. Even so the stop button never lies (`ShownIsStoppable`).
* Two sources, two ways to decide and a sweep do not break the life of a
  request (`ImplementsLifecycle`). A decision of the detail pane on a request
  of the gateway does nothing: the local store does not have it.
* The editor's checks refuse exactly the graphs of two nodes or more with a
  repeated id, a lone step or a ring (`RefusesExactly`): two chains of two steps
  each pass, though the last error asks for "a single start-to-end path"
  (`graph.ts:147`), and the compilation takes one of them. `RunOrderIsTheCanvas`
  says what is compiled is a whole chain of the canvas, and all of it when there
  is one start.
* A builder open while the connection comes and goes never mixes two workflows
  (`SavesAreOfOneWorkflow`), as the draft is reset by an effect on the id; and
  the workflows of the browser change while the gateway is away only, one at a
  time, the one edited into what is drawn (`BrowserIsKept`).
* No failure, outage or refetch makes a page that showed something say that
  there is nothing (`NothingIsNews`): a query keeps its data.
* The canvas of the graph page redraws only by a key of ids and counts, and yet
  shows renamed entities (`CanvasIsCurrent`): the degree map, a new object for
  each new list of relations, is what saves it.
* `ComebackRefetches` fails: an outage that is failed checks only, never a
  "degraded" answer, is not seen by `GatewayQuerySync`, whose comment promises
  a refetch (`gateway-query-sync.tsx:7`).

Seen while modelling, in behaviours that the models have and no property
forbids:

* With two POSTs at a time the bridge loses workstreams that it has answered
  for: handlers save copies of the whole registry (`serve.py:239`). A stale
  save can also turn `completed` back into `running` for the time of a round.
* `_release_lock` unlocks and then unlinks by name (`cycle.py:142`), so that a
  third run gets in while a second is inside.
* A second cycle overwrites the merged directory of a registered checkpoint
  before its own registration fails on the path (`cycle.py:79`).
* A run that fails after registering leaves its checkpoint registered, which
  `cycle.py:99-100` says it does not; `claim` may be given any open goal;
  `promote` looks ids up in `~/models/registry.sqlite` by default, while cycles
  register in `out_dir/registry.sqlite`.
* `regenerateLast` sends the user's turn again and keeps the first
  (`chat-store.ts:262`).
* A save that succeeds late closes whatever builder is open
  (`workflows-view.tsx:257`).
* Three pages say that there is nothing before the first answer: "No runs yet"
  (`agents/page.tsx:112`), "probes have not run yet"
  (`system-health-panel.tsx:165`), "No decisions recorded"
  (`hitl-activity-panel.tsx:102`); the inference panel calls its metrics
  unavailable then (`inference-panel.tsx:79`, `117`). The observability panels
  and the list of tool servers go on showing old data when polls fail, and do
  not tell (`system-health-panel.tsx:75-101`, `inference-panel.tsx:26`,
  `tools-panel.tsx:63-79`).
* "Graph is empty", or "No matches", over a focused entity that the gateway does
  not have any more (`graph-explorer.tsx:351-353`), whatever else the graph holds.

Where the code and its texts disagree, besides `ComebackRefetches`:

* The builder drops the override of a step's model when a workflow of the
  gateway is edited and saved (`adapters.ts:66`), though
  `docs/guides/build-workflow.md:71-78` says that both authoring paths produce
  identical definitions and that mixed editing is safe. `MixedEditingIsSafe` in
  `Workflows` states this; no run checks it, and it does not hold:
  `HealthAnswers`, `FetchWorkflows`, `OpenEdit`, `HandleSave`, `RequestSucceeds`
  takes the override off.
* The banner of the page says that canvas editing saves locally
  (`workflows-view.tsx:322`), whereas a save goes to the gateway while that is
  online (`workflows-view.tsx:277`), as the guide says. `BrowserIsKept` follows
  the code.

### Fairness

* `Gastown`: weak fairness of the handlers' steps, the poller's load and the
  end of its round (threads are scheduled and every command has a 30 s
  timeout), and of `Restart` (`KeepAlive` in `com.xnch.gastown.plist`). Strong
  fairness of `PollShow` of each entry: `bd show` of an issue answers again and
  again, though it may fail any number of times in between. None for `POST`,
  crashes, failed loads, or the end of the work on an issue. Liveness is checked
  with two workstreams without faults, and with one and two faults; the bound
  stops POSTs and faults only, for neither of which fairness asks.
* `TrainCycle`: weak fairness of a started run's steps; HTTP calls time out and
  the unit has `TimeoutStartSec`. None for starting one.
* `ChatStore`: only that the browser rejects the promises of an aborted fetch.
  The code has no timeout, so nothing says that a stream ends otherwise.
* `ApprovalQueue`: weak fairness of the sweep and of the refetch, which are
  intervals of the open page, and of requests coming to an end, with or
  without an answer. The properties excuse a page that was left and, for the
  queue, one that went offline.
* `OperatorPages`: weak fairness of the health poll, of the intervals and of
  the end of requests, for each of two sets of keys (`Timers`) of which a visit
  has one at most. Where a page does not tell that a poll has failed, it can
  only catch up if some polls come through: strong fairness of the answers to
  the agents page's polls, and of those to the queries whose old data a page
  keeps silently (`KeptSilently`), asks that of a gateway that is up, while any
  number may fail in between. Where a page does tell, no answer is owed, and
  `PollsCatchUp` lets it say so instead (`Told`). None for the operator or the
  gateway: what is said of a page holds again and again unless the gateway is
  down or the sidebar says that it is away.

## 4. The proofs

Every theorem holds for all values of the constants under the named assumption
of its module: that special values are distinct from members of sets, and some
sets parts of others; that bounds are natural
numbers; of the graph page, that in each version of the graph
relations join its entities and have distinct confidences, as the cap on the
relations shown needs an order of them (`GraphAssumption`); of the other pages,
which queries are asked for offline, as in the code (`UnconditionalAssumption`).
That the ids of a workflow are unique is not assumed.

* **RegistryFileProofs.** `IInv` adds to types and the lock's meaning that a
  torn file is being written by the lock's holder, or was left by a save that a
  fault cut short (`cut`), and that a thread in the middle of a write has torn the
  file. It gives `LockOK` and `NoTornRead`, and with it every step maps to a
  step of `AtomicRegistry` or to none (`Refinement`).
* **GastownProofs.** `EvidenceInv`: evidence for a state must be kept for every
  copy (`CopiesInv`: in the file, in the handlers' and the poller's snapshots)
  and for the handler's own `ws` (`OwnInv`), as any copy may be saved at any
  later time; evidence itself is never withdrawn (`EvidenceKept`). Gives
  `OutcomesAreReal` and `RunningIsReal`. `CleanInv`: as long as nobody saved a
  stale copy and nothing failed, a fresh copy agrees with the file, but for the
  outcomes the poller has found and not saved yet (`PollerCopyInv`), and the
  file has each entry in the state its handler has brought it to (`LocalInv`,
  `EntryInv`). Gives `DurableWhenClean` and the action property
  `FinalWhenClean`.
* **TrainCycleProofs.** `LockInv`: until a lock file is removed, all open files
  are the one that the name stands for, and a run inside owns it.
  `RegistryInv`: the registry has one row for the path at most, and the run
  that put it there is the only one that proposes or has proposed. Give
  `Exclusive`, `ProposalsRegistered`, `ProposalsUnique`, `ReturnsProposed`.
* **PromoteProofs.** `IInv`: without overlap one promote is active, remembers
  the release before its flip, and the link names its target after it. Gives
  `LinkNamesRelease`.
* **ChatStoreProofs.** `ShownIsStoppable` is inductive with the types. For
  `AloneIsShown`: at most one stream of a kept conversation is alive
  (`OneInv`), so no other's finally clause takes its flag; conversations of
  calls were created (`CreatedInv`). For `UnsettledIsUnfinished`: a message
  belongs to a call made for its conversation (`LogInv`).
* **ApprovalQueueProofs.** `LastDecisionStands` is inductive with the types, as
  only a pending request is swept or decided and only an absent one added. It
  is what the refinement needs: an undo then finds a decided request, so it is
  a step of `ApprovalLifecycle` (`Refinement`), and the other steps are one
  or none whatever the statuses are.
* **WorkflowsProofs.** Of the page: a save on its way says nothing of how it
  was made, so `IInv` adds that the canvas of an open builder is that of the
  workflow edited (`CanvasOfEdited`), and that the draft is that of the
  workflow edited if it is listed, or of none (`DraftOfEdited`): this is what
  the effect keeps through every change of the list. Gives `SavesCorrect`, and
  the action property `BrowserCorrect`, for which the canvas must be that of
  the workflow edited when a save writes it. Of the editor: `CanvasIsLinear` is
  inductive with the types, for each action takes edges away, or adds one
  between ends that have none (`CanvasLinear`). What `RefusesExactly` and
  `RunOrderIsTheCanvas` say of the two walks of `graph.ts` then holds on every
  such canvas (`RefusesLoneAndRing`, `SavedIsDrawn`), whichever workflow was
  opened and whichever ids it repeats. The walks are recursive functions of a
  step counter; what they reach is proved for any length, by induction in the
  form of a set of numbers that has the first and with each number the next,
  which the least number of a set (from the well-foundedness of `<`) makes an
  initial segment. `GatesStay` is the action property that no step loses its
  gate.
* **GatewayPagesProofs.** First what an entry of the query cache keeps when it is
  asked for again, when it is settled and when it turns stale. For the graph
  page, `GraphInv`: no entry is newer than the gateway, and no answer in flight
  is older than the data it replaces (`EntriesInOrder`); whatever a
  refresh asked for has been asked for since (`AskedReached`); the memo of the
  page is that of the entries and controls of this render (`ViewOfNow`), and the
  canvas is that of the view, for all that its dependencies are listed by hand
  (`CanvasOfView`). Gives `ViewTrue`, `CanvasCurrent` and
  `RefreshReachesAll`. For the other pages, `PagesInv`: requests have numbers
  that were given out, the one whose answer would be shown asks for what the
  page names, and nothing is shown or awaited while no tool's dialog is
  open (`CallsOfPage`); and the answer there is is to what the page names
  (`AnswerOwn`). Gives `PagesTruthful`, whose part about the words for nothing
  rests on what a step may do to the cache: a request that ends with an answer
  is the only one that changes data (`DataSteps`).

Every invariant and every action property of a passing run is the subject of a
theorem. Only model-checked: the liveness properties (`OutcomesSurface`,
`PostsEnd`, `RunsEnd`, `StopTakesEffect`, `OverdueIsSwept`,
`DecidedLeavesQueue`, `ShownCatchesUp`), which are beyond the prover.
`ComebackRefetches` is the property that fails.

## 5. Not modelled

* Rendering, the placing of nodes, terminal and audio front ends, deployment
  scripts, floating-point metrics, regular expressions of the scrubber, calls
  into torch: no states that a model could tell apart.
* Single-request code without shared state: the MCP registry and its servers,
  the chat tool loop, the tool handlers, the agent gateway, the file and command
  capabilities, the scraper's tiers. Each handles a request from start to end
  in one task; what they promise is about data, not about order.
* The MCP bridge, the recording of outcomes in memory and the scraper's inserts
  do have hazards of order (`PROJECT.json` lists them without a property). The
  first depends on what the MCP client library does when a child dies in the
  middle of a call, the second on a memory service outside the repository, and
  of the third no line says what a document stored in part should be.
* Within the modelled parts: what each section above names as left out.
