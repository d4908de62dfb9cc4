# A formal model of 1999Search (DDomelette/1999Wiki)

1999Search is a local Reverse:1999 wiki with traceable question answering.  This
directory keeps TLA+ modules of its stateful core beside the code: what each
module models, what TLC checks on small instances, what TLAPS proves for all
instances, and what is left out.  Paths below are relative to the repository
root; the answer service's Python package is `src/`, its HTTP service `backend/`.

## 1. The system

| Component | Code | State it keeps | Operations |
|---|---|---|---|
| Conversation memory | `src/rag/conversation.py`, `backend/conversation_runtime.py` | an ordered dict of entries (generation, turns, last access, lock and its queue, lease count) | acquire, release, clear, expiry, eviction, trimming, projection |
| Answer stream | `backend/sse.py`, `backend/main.py` | one generator per request, its lease, the events on the connection | ask, ask/stream, delete a conversation, disconnect, cancellation |
| Chat page | `frontend/react-app/src/api/sse.ts`, `store/chatStore.ts` | the assistant message and its state | read an event, end of stream, abort, retry |
| Blue/green operations | `deploy/bin/*.sh`, `ops_helper.py` | `active.env`, transaction and retirement journals, backups, the Caddy fragment and process, two Compose projects | deploy, switch, rollback, cleanup, reconciliation, traps |
| Candidate activation | `src/huiji_rag/activation.py`, `backend_process.py`, `active_pointer.py` | activation journal, settings, active pointer, the backend process, receipts | inspect, apply, compensate, recover |
| Generation zero | `src/huiji_rag/generation_zero.py` | create-only pointer, journal, receipt, sidecar, comparison of the protected state | inspect, apply, compensate, recover |
| Retrieval and answers | `src/rag/execution.py`, `chain.py`, `retriever.py`, `hybrid.py`, `retrieval_budget.py`, `citations.py` | none beyond a request, but for two fields of the shared retriever | plan, retrieve in threads, fuse, budget, generate, validate |
| Query planning | `src/rag/query_plan.py`, `request_plan.py` | none | classify, rewrite |
| Candidate closure | `src/huiji_rag/closure.py`, `scripts/close_huiji_candidate.py` | the closure receipt and its sidecar | inspect, close, validate |
| Shadow collection build | `scripts/build_huiji_index.py`, `src/rag/vectorstore.py`, `provenance.py` | a new Milvus collection, its evidence | create, insert, flush, fingerprint, compare |
| Media upload and cleanup | `src/huiji_rag/minio_strict.py`, `scripts/build_huiji_evb.py`, `scripts/cleanup_legacy_rag_p2.py` | objects of the bucket, operation plan and use marker, reports, backups, receipts | inventory, plan, claim, upload, report; back up, apply, verify, restore |
| Wiki import and rollback | `src/huiji_wiki/formal_import.py`, `importer.py`, `mysql_rollback.py` | MySQL tables, rollback receipts | import, snapshot, restore |
| Crawler | `src/huijiwiki/`, `src/huiji_crawler_tool/` | state database, append-only JSONL files, runtime lock, media files and their `.part` | crawl, resume, verify, download media, recover snapshot |
| Codex supervisor | `src/codex_supervisor/` | lock, state and session files, detached processes | start, resume, stop, accept, run |
| Registry publication | `.github/scripts/`, `deploy/bin/release_identity.py` | tags in two registries, release manifests, attestations | publish, backfill |
| Readiness and loading | `backend/main.py`, `deploy/bin/verify-rag-closure.py`, `src/rag/runtime_artifacts.py` | the cached verdict with its fingerprint, the loaded generation | health/ready, verify, load |
| Voice lines | `src/assets/voice_pagination.py`, `VoicePanel.tsx`, `api/media.ts` | cursors of a process, the lines of a panel | page, load more, retry, merge |
| Wiki in the browser | `components/wiki/WikiShell.tsx`, `wikiRoutes.ts`, `backend/wiki.py` | list, selection, page, history, requests on their way | filter, select, preview, open, go back, reload |
| Corpus build | `src/huiji_rag/build/`, `scripts/build_huiji_corpus.py` | the build root, run directories, the activation review | candidate, verify, propose |
| Media plan | `src/huiji_rag/build/media_download_plan.py` | none | select, check the capacity, decide |
| Evaluation, packaging | `src/rag_eval/`, `bootstrap/` | none of their own | score, unpack |

### How the parts interact

- A page sends `POST /ask/stream`.  The handler acquires a *lease* on the
  conversation, the generator of `sse.py` runs the answer chain in stages
  (prepare, generate, finalize), sends events, and releases the lease with the
  finished turn or with nothing.  The page folds the events into one message.
- `DELETE /conversations/{id}` clears a conversation at any time, also while a
  lease on it is out.
- The blue/green scripts start and stop the whole service in two Compose
  projects; a file lock keeps operations from running together, but not from
  being killed between two durable writes.
- Candidate activation and generation zero change which index generation a
  (local) backend serves: settings, pointer and process must agree.  Generation
  zero creates the pointer an activation replaces.
- The crawl writes the corpus a build reads; the formal import puts the wiki of
  an active build into MySQL.  They meet in files, one after the other.
- Media go from the downloads into the bucket by an approved upload; the retired
  corpus leaves it by an approved cleanup; other programs write the bucket too.
- A build fills a new collection of Milvus, an activation makes it the one in
  use, and a closure declares the release complete.
- The corpus build reads the files of a crawl while it may go on, and writes the
  root an activation points to; the service loads what the pointer names, and its
  readiness hashes it again and again while activations replace it.
- The browser lists the wiki and the voice lines page by page, over a server that
  may be replaced and a database that may be imported again in between.
- The supervisor and the publication work beside the service: one starts
  development workers, the other produces the images the blue/green scripts
  deploy.

### What is hard

- *Interleaving*: the conversation store gives up control only in the queue of
  an entry lock, and there a request may be cancelled, or find on waking that
  its entry expired, was cleared or was replaced.
- *Disconnects*: a client may go at any event; the disconnect check, the
  cancellation of the task and the closing of the generator are three paths to
  one release.
- *Partial failure*: generation may fail after increments were shown, packet
  validation may fail outside every handler, and the stream may end without a
  terminal event.
- *Crashes*: a deployment operation, an activation or a bootstrap can die
  between any two durable writes, and the next one has to finish or undo it,
  even when the first recovery dies as well.
- *Tools stopped halfway*: a crawl, an import, a restore or a publication is
  stopped between two writes and run again, over a wiki, a database or a
  registry that others have changed meanwhile.
- *Readings that take time*: inventories of a bucket, fingerprints of a collection
  and the inspection of a release read one thing after the other while other
  programs write, and what they find is approved, removed or declared closed.
- *Late answers*: pages of lists, previews and details arrive in any order in a
  view the user has left, and a cached verdict is given while the files it is about
  are replaced.
- *Shared objects and stale locks*: parallel retrievals leave results in fields
  of one retriever, and a runner removes a lock it looked at earlier.
- *Blind traps*: bash switches `errexit` off inside an `EXIT` trap that runs a
  function in a condition; a failed restore is then not noticed.

`PROJECT.json` lists every hazard with its line and the properties aimed at it.

## 2. What makes each part correct

| Part | Correctness |
|---|---|
| Conversation memory | one request per conversation at a time; a leased entry is never taken away; every lease is returned exactly once; cleared turns never come back; the store and its memory are bounded; every waiter is served |
| Answer stream | one terminal event, nothing after it; a failed answer is not remembered; the handlers keep the store's contract whatever the client does |
| Chat page | every pending message settles; an unvalidated draft never passes for an answer |
| Blue/green | traffic always goes to a running project; the record of what is deployed changes only by promotion, rollback or retirement; interrupted work is finished or undone; both recorded deployments can be restarted |
| Activation | committed means the candidate is configured and served; rolled back means the old generation is; nothing is served from a mixture; an interrupted activation can be recovered |
| Generation zero | the pointer and the journals explain each other, evidence is true, recover finishes what was interrupted |
| Crawler | nothing is skipped as fetched that no file holds; a passing report means a current corpus; crawls converge |
| Readiness | what is called ready, or broken, was so since the request came, and no verdict is kept for ever |
| Loading | a process serves one generation that was verified for it |
| Voice lines | a panel lists the lines of one build in order, none left out or twice |
| Wiki in the browser | list, selection, page and address agree whatever arrives late; nothing is loading for ever |
| Corpus build | a root that verifies holds one run's files of the contents its inventory names |
| Media plan | what is selected fits budget and disk, decisions do what they say |
| Media download | runs that are killed and repeated end with the approved files in place |
| Media upload | a plan is used once; a report claims nothing that is not in the bucket; nothing is overwritten |
| Cleanup | what was removed is known and saved; an acceptance is true; nothing else is touched |
| Collection build | a pass stands for a collection with every row, once |
| Closure | a closed release was approved in all its parts at one time |
| Wiki import | a receipt restores what it says; a dropped database is saved; an import can be completed whatever failed before |
| Composite answer | a citation shows the content its branch found; a failing branch spares the others; what a branch offers is its own |
| Retrieval budget | no choice of rows within the limits keeps more of what was asked |
| Codex supervisor | one runner works at a time; a worker does not stay running for good |
| Registry publication | what a manifest or an attestation names is in the registry and stays; no tag is overwritten; a deferred mirror is completed |

## 3. Plan

Order of the modules, most important behaviour first:

1. `ConversationMemory` - the store; proofs in `ConversationMemoryProofs`. *(done)*
2. `BlueGreen` implementing `ReleaseAuthority` - production operations; proofs in
   `BlueGreenProofs`. *(done)*
3. `AnswerStream` - handlers, stream and page, composed with the store by
   `INSTANCE ConversationMemory`; proofs in `ServingProofs`. *(done)*
4. `Activation` - journal, settings, pointer and process of the candidate
   activation, with crashes and recovery; proofs in the first part of
   `StandaloneProofs`. *(done)*
5. `GenerationZero` - the create-only bootstrap; proofs in the first part of
   `ComponentsProofs`. *(done)*
6. `Crawl` and `WikiImport` - the resumable crawl, and the import with its
   backup and restore; proofs of the receipts in the second part of
   `ComponentsProofs`, of the corpus in the fifth. *(done)*
7. `CompositeAnswer` and `RetrievalBudget` - parallel branches with citations,
   and the allocation of the prompt against a reference definition; proofs of the
   answers in the fourth part of `ComponentsProofs`, of the allocation in the third
   part of `StandaloneProofs`. *(done)*
8. `Supervisor` and `Publication` - the runner of development workers, the two
   registries; proofs in the second part of `StandaloneProofs` and the third part of
   `ComponentsProofs`. *(done)*
9. `MediaUpload` and `Cleanup` over one `Bucket` - approved writes to a bucket that
   others write too. *(done)*
10. `ShadowBuild`, `MediaDownload` and `Closure` - the other steps of a release;
    proofs of the evidence of all these tools in `EvidenceProofs`. *(done)*
11. `VoicePages` and `WikiBrowser`, `CorpusBuild` and `MediaPlan`, three of them over the
    operators of `Orders` - what the browser shows, and the first steps of a release;
    proofs of the candidate, the voice lines, the wiki and the plan in `PagesProofs`.
    *(done)*
12. `Readiness` and `RuntimeLoad` over one `BuildRoot` - the service and the
    directory an activation changes under it; proofs in `ServingProofs`. *(done)*

`Components`, `Standalone`, `Operations`, `PagesAndBuilds` and `Serving` put modules
that share no state into one model-checking run each.  `BlueGreen` and
`ReleaseAuthority`, `AnswerStream` and `ConversationMemory`, `MediaUpload` and `Cleanup`,
`Readiness` and `RuntimeLoad` are the modules that interact, by refinement, by
instance and over shared state.

Every invariant of the passing runs has a theorem.

## 4. ConversationMemory

`entries` is the dict of the store, `heap` holds the fields of every `_Entry`
object (objects have an identity, because the code compares with `is`), `req`
what each request knows: the phase, the leased entry, the generation it
expects and the projection it was shown.  `clock` is the injected monotonic
clock.  `clears` is history: how often a conversation has been cleared.

One action is one stretch of code without an `await`:

| Action | Code |
|---|---|
| `Join` | `acquire` on an existing entry: the lease is counted, then the lock is taken or queued for |
| `Open` | `acquire` that makes an entry, after expired entries are dropped and the oldest inactive one is evicted |
| `Refuse` | no id, or a store full of active conversations: a disabled lease |
| `Wake` | the queue's head gets the lock and runs the guarded section after it |
| `CancelWait` | cancellation inside `lock.acquire()`, whose handler returns the lease |
| `Complete`, `Fail`, `Finish` | `release` with a turn, without one, of a disabled lease |
| `Clear` | `clear` |

Turns are records of a size and, as history, of the clear count their request
came in under; their text is data.

**Run `conversation_memory`** - three requests, two conversations, two entry
objects, a store for one conversation, at most two turns of size 1 or 2 in
three code points, a projection of two, a TTL of one in two ticks, one clear
per conversation.  That is enough for a holder with two waiters, eviction
against a live lease, expiry while a request queues behind a holder, a clear
while a turn is in flight, an entry that is dropped and made again, and
trimming by each limit.  It checks

- `LeaseProtocol` (every lease is counted once, and a leased entry that can
  still be committed to stays in the store) and `SerialHolder`;
- `ClearedIsForgotten`: no turn of a request from before a clear is stored
  or shown after it;
- `ProjectionCurrent`: while a lease is valid its projection is what the entry
  holds;
- `StoreBounded`: the limits of the store and of the turns an entry keeps;
- `WaiterServed`: every queued request leaves the queue.

**Fairness.**  `Wake` is weakly fair: the asyncio loop runs a woken waiter.  A
lease holder is weakly fair to release: `main.py` and `sse.py` release in
`finally` clauses, and that is itself checked by `serving`, whose
`KeepsMemoryContract` is this specification with its fairness.  Nothing else
is fair: no request has to come, no clear, no tick.

### What is proved

`ConversationMemoryProofs.tla` proves for any sets of requests, conversations and
objects and any limits:

| Theorem | Statement |
|---|---|
| `LeaseSafety` | `TypeOK` and `LeaseProtocol` always hold |
| `SerialSafety` | `SerialHolder` always holds |
| `ClearSafety` | `ClearedIsForgotten` always holds |
| `ProjectionSafety` | `ProjectionCurrent` always holds |
| `BoundSafety` | `StoreBounded` always holds |

None of the five is inductive alone.  The inductive invariant of the first four is
`StoreInv == LeaseInv /\ TurnInv`:

- `LeaseInv` adds to the type, the accounting and the liveness of leased entries
  that a leased request names a conversation and an object (`LeaseNames`) and
  that two conversations never share an entry object (`OwnEntry`), which is why
  a lease returned by one request cannot uncount another conversation's.
- `TurnInv` adds that a holder's entry is locked (`LockHeld`) by one holder
  (`OneHolder`), that a lease expects no generation its entry has not reached
  (`CurrentLease`), and where the turns of an entry and of a projection come
  from (`StoredTurns`, `ShownTurns`, `ShownIsStored`): a lease that is still of
  the current generation belongs to a request that came in after the last clear.
  Without it `ClearedIsForgotten` is not preserved by `Complete`, which appends
  a turn.

The invariant is proved action by action, each from lemmas on what the helpers
(`Returned`, `Lease`, `Committed`) do to one entry; the assumptions are the two
named ones of the module (limits are natural numbers; `None` is neither an
object nor a conversation, requests and conversations are finite sets).

`BoundSafety` adds `LimitInv`.  `RoomKept` counts the entries of the store;
`KeptForReason` says that an entry without leases has a turn, so that `Open` always
finds room after it dropped the oldest inactive one.  `TurnsFit` and `ShownFits` say
that the turns of an entry and of a projection are within their numbers and code
points.  They rest on what the trimming returns, a suffix that fits: a statement
about the fold `CodePoints`, for every sequence of turns.  It is proved by induction over the natural numbers, taken as a
set and not as an operator: `LeastNumber` gives the least element of a set of
naturals (from the well-foundedness of `<`, a library theorem), `NatInductive`
that a set with 0 and closed under successor is all of them, and `PrefixSums`
unfolds the fold with it.

The type invariant is proved and therefore no property of the run.  Model-checked
only: `WaiterServed`, which is liveness.

## 5. BlueGreen and ReleaseAuthority

`BlueGreen` has the files of the state root (`state`, `journal`, `retirement`,
the backups per generation, the generation counter), the Caddy `fragment` on
disk, the slot the running `caddy` proxies to, the two Compose `projects`, the
`images`, and `op`, the operation that holds the lock with its program counter
and the part of the scripts it is in.  One action is one durable write, one
Compose command or one reload:

| Actions | Code |
|---|---|
| `BeginDeploy`, `BeginSwitch`, `BeginRecorded` | the scripts take `operations.lock` |
| `ReconcileJournal`, `ReconcileRetirement` | `ops_reconcile_pending`: undo or finish a switch; finish a retirement |
| `Prepare` | preflight, pull, compose up, the checks of each script, the target's start, backups, the journal |
| `Transact` | install the fragment, reload, mark, commit the state, mark, finalize |
| `Conclude` | orphan clean-up, stop the old slot, the traps' decision about the candidate, exit |
| `Crash`, `Fail`, `ChildKilled` | a kill anywhere; a command that fails and runs the trap; the child `switch.sh` dies under `deploy.sh` |
| `CaddyRestart`, `Operator` | Caddy restarts from its fragment; an operator removes stopped leftovers the preflight refuses |

`ReleaseAuthority` is the promise without files or crashes: a deployment of
record and a rollback target, the slot traffic goes to, the slots that run.
`AuthorityKept` is refinement: every step of the scripts, crashes included, is a
step of the promise or a stutter.  The authority is the state as the next
reconciliation would leave it: the old one until the journal says committed.

**Run `operations`** (section 15), parts `unlink` and `blind` - two slots, two
releases, three generations, two faults.  Three generations are a complete switch
over an initial deployment and a second one or a rollback.

In `unlink` the faults are a kill, a failed command, or an unlink that fails
unseen, anywhere, so also a kill in the recovery from a kill.  It checks
`DeploymentsKept` (`ServiceKept` - the types, and `ServedSlotRuns` - and
`CaddyServesActive`), `RecordsUsable` (there, `RecordedDeploymentsRestartable`: both
recorded deployments can be started again) and `AuthorityKept`.

In `blind` the commands of a trap (fragment, state, reload) may fail unseen.
Both journals stay readable (`RecordsUsable` is there `JournalsReadable`), and a
pending journal is always finished or undone eventually (`BlindWorkEnds`).  That
traffic then may go wrong is the finding of `blue_green_reload_fails`.

`MaxFaults` bounds what the environment does, never what the scripts do; the
generation counter bounds the number of transactions.

**Fairness.**  A started operation that is not killed goes on (`WF_vars(Run)`),
and operators keep starting operations (`WF_vars(Start)`): README and runbook
say that the next operation reconciles.

### What is proved

`BlueGreenProofs.tla` proves for any releases and any number of generations and of
faults:

| Theorem | Statement |
|---|---|
| `DeploymentSafety` | `DeploymentsKept` always holds |
| `AuthorityRefined` | `AuthorityKept`: the scripts implement `ReleaseAuthority` |
| `RecordsSafety` | `RecordsUsable` always holds, in both parts |

They assume what the scripts do: that there are two slots (`SlotsAssumption`; without
it the images `RemoveImages` deletes could belong to a third project) and that an
absent file is no record (`NoneAssumption`).  Their hypothesis is `Failing \subseteq
{"unlink"}`: the part `unlink` of `Operations` may see unlinks fail and nothing else in
a trap.  With a reload that fails there, `CaddyServesActive` is false, which is the
finding of `blue_green_reload_fails`; the part `blind` brings its own failures.

The argument has two layers.

- `FilesInv` says what the files tell of each other and holds whatever fails.
  `PlaceOK`, `OperationOK` and `JournalOK` say in which part of the scripts a place
  belongs and which journals exist there; `BackupsOK` that the transaction of an
  uncommitted journal can be undone, with backups that are whole and older than its own
  generation; `RetirementOK` that a retirement matches the state it rewrites, before
  and after.  It needs the dates (`Dated`): every record names a backup of its own
  generation or an older one, so that a new backup overwrites none and removing a
  restored transaction's backup takes none that the state names.
- `ServiceInv` adds where traffic is.  `TrafficOK` gives state, fragment and Caddy at
  each place of a transaction and of its undoing (`Restored`, `Promoted`); `AuthorityOK`
  that what the authority names runs and keeps its images and backup; `TargetOK` that an
  operation that has not committed works on another slot than the authority's.  The
  last one is why the trap's decision to stop the candidate never stops what serves:
  past the commit the candidate is the authority, and the trap looks.

Each action gets one lemma that shows both that `ServiceInv` is kept and that the step
is one of `ReleaseAuthority` or a stutter.  The authority moves in two actions only,
`MarkCommitted` (`Promote`) and `CommitRetiredState` (`Retire`).

For the part `blind` the invariant is `ReadableInv`: `FilesInv`, a committed journal
that is still valid, and no journal left when orphans are removed.  The last conjunct
needs that unlinks do not fail; with one that does, the orphan removal takes a backup
the journal needs (`blue_green_journal_kept`).

Model-checked only: `BlindWorkEnds`, which is liveness.

## 6. AnswerStream

The module takes the store's actions as they stand (`M == INSTANCE
ConversationMemory`) and adds the handlers, the connection, the events in
flight and the page.  `handler[r].stage` is the yield or await the generator of
request `r` stands at; one action runs it to the next.  `link[r]` tells whether the
connection is open, cut, or known to be cut; `wire[r]` holds the events sent and
unread; `page[r]` is the message.  A synchronous `/ask` occupies the event loop
(`LoopFree`): no other action of the server runs beside it.

| Actions | Code |
|---|---|
| `AskStream`, `Ask`, `Granted`, `Withdrawn` | the two handlers acquire a lease, at once or from the queue |
| `Stream` | `rag_stream_generator`: prepare, sources, tokens, finalize, `answer_replace`, done or error, with the failure of each stage |
| `Abandon`, `Leave` | the disconnect check, the cancellation, the closing at a yield; the `finally` release |
| `AnswerSync` | the synchronous handler |
| `Read`, `ReadEnd` | `streamAsk` and the callbacks of `send` |
| `Disconnect`, `Notice` | the user stops, or the network fails; the server notices |
| `Elsewhere` | clears and time |

Heartbeats and status events change no answer and are left out; so is the
legacy stream of chains without staged execution.

**Run `pages_and_builds`**, part `answer` - one request, streamed or not, of one
conversation that may be cleared once, answers of up to two increments, one
connection that goes, two entry objects: `StreamContract`, which joins the types,
the order of the events (`StreamOrder`), what the page keeps of an unvalidated
draft (`DraftIsMarked`) and what may enter the conversation (`FailedNotStored`).
Each of the four speaks of one request, the theorem of any number.

**Run `serving`**, part `answer` - two requests without increments or clears:
`KeepsMemoryContract` (the composition implements the store's specification,
fairness included, so every lease is released) and `PageSettles`.

**Fairness.**  The event loop runs every task that can run and worker threads
return (`WF_vars(Serve(r))`); the network delivers or breaks, and the reader
reads (`WF_vars(Read(r) \/ ReadEnd(r))`).  A worker that never returns is outside.

### What is proved

`ServingProofs.tla` proves in its first part, for any requests, conversations, limits
and numbers of increments, clears and disconnects:

| Theorem | Statement |
|---|---|
| `StoreRefined` | the handlers implement the store: initial states are its initial states, every step is a step of it or a stutter |
| `StreamSafety` | `StreamContract` always holds |

With `StoreRefined` the theorems of section 4 hold of the store under these
handlers.  `StreamSafety` has the invariant `StreamInv`, one statement (`GoodRequest`)
about each request, as a step moves one: what the stage of the generator says of
the events it has sent (`EventOrder`) and of the turn it may have stored
(`TurnOrder`), and what the page made of the events that were read (`PageOrder`).
`StreamOrder` alone is not preserved: nothing in it forbids a generator that has sent
`done` to stand before another event.  Model-checked only: `PageSettles` and the
fairness half of `KeepsMemoryContract`.

## 7. Activation

The module models one activation: `apply_activation`, the compensation and
`recover_activation`, all under `activation_lock`.  `journal` is the last state of
the activation journal and `recorded` whether one of its events names the new
process; `files` are the settings and the pointer, each with the contents
`inspect_activation` froze (`before`), those of the `candidate`, or `unknown`
ones; `temps` are temporary files left beside them, `evidence` the evidence files
that exist, `logs` the processes whose log files exist.  `proc` holds the frozen
backend, the one apply starts and the one a compensation starts: each is off,
starting, has read both files (`loaded`), or listens with what it read.  `cmd`
is the command that holds the lock, with its program counter, whether it knows
the process apply started (`owned`), the listener it found (`current`) and the
files it has to restore (`todo`).  `report` is how the last command ended.

| Actions | Code |
|---|---|
| `BeginApply` | authority, process and protected state are checked, the journal opened |
| `StopBackend`, `Replace`, `StartCandidate`, `Wait`, `Verify` | the gates of `apply_activation` in order |
| `AppendState` | `append_journal`, which refuses a transition its table does not have |
| `Seal`, `WriteReceipt`, `WriteHandoff`, `WriteFailure` | sidecar and evidence |
| `StopNew`, `CheckTargets`, `PrepareRestore`, `Restore`, `Restart`, `Legacy` | `_compensate`; a restore is in two steps because its temporary file has a fixed name |
| `Recover`, `RecoverSettled` | `recover_activation` on an open and on a settled journal |
| `Boot` | a process reads its files, then listens, or exits if the port is taken |
| `Killed`, `CallFails`, `BackendExits`, `Edit` | a kill of the command, an error of any call, the death of a process, another writer of a file |

An error inside the `try` of `apply_activation` is compensated by the same command
(`Raise`); an error in a handler escapes and leaves the journal open for
`recover_activation`.

**Run `standalone`** (section 15) - up to three kills, errors or process deaths and
one edit, between any two steps, recovered as often as it takes.  Three faults are
a failed apply, a killed compensation and a killed recovery; one edit
reaches either file.  It checks

- `SettledAuthority`: what a settled journal says of the two files;
- `EvidenceExclusive`: receipt, handoff, failure and sidecar agree with the
  journal and with each other;
- `BackendsKnown`, which joins the types, `SwitchOffline` (no backend listens
  while the files belong to different generations, and none that read such a
  pair ever does) and `NoStrayBackend` (after a rollback the process apply
  started is gone);
- `UnknownKept`: a file somebody else wrote is never overwritten;
- `OneFaultRecovered`: after at most one fault the activation settles.

*Limits of the last three.*  `SwitchOffline` and `NoStrayBackend` exempt the
histories in which a command ended after `start_backend` (activation.py 1162) and
before the journal entry that names the process (1164-1170): recovery cannot
know it, so it may come up while the files are being restored; `orphan` marks
them.  `UnknownKept` leaves out the moment between the last comparison of a
file's hash and `os.replace`, which no code closes.  `OneFaultRecovered` stops at one
fault: when a compensation that had already started the old backend is hit a
second time, its log files forbid the next start (backend_process.py 141-142),
and the journal can stay at `compensating`.

**Fairness.**  A command that is not killed goes on and a process that starts
comes up or exits (`WF_vars(Run)`); an operator recovers an open journal
(`WF_vars(Recover)`).  Faults and edits are never forced.

### What is proved

`StandaloneProofs.tla` proves in its first part, for any number of faults and edits:

| Theorem | Statement |
|---|---|
| `SettledSafety` | `SettledAuthority` always holds |
| `EvidenceSafety` | `EvidenceExclusive` always holds |
| `UnknownSafety` | `UnknownKept`: an action property |
| `BackendSafety` | `BackendsKnown` always holds |

The first two need the invariant `ActivationInv`, which says what the place of
the command tells: inside the transaction the journal is open (`PlaceInv`), so no
evidence exists yet and an error never reaches a terminal journal; between
verification and `committed` no file is of the old generation, between the
legacy check and `rolled_back` none is of the candidate (`FilesInv`), which edits
cannot undo; a handoff is written after its receipt (`EvidenceInv`).  Recovery
starts with nothing but the journal, and the invariant is what makes its choice of
a place (`ResumeAt`) sound.  The third theorem rests on one lemma, `NextWrites`: a
step writes at most one file, and an unknown one only with unknown contents.

`BackendSafety` needs another invariant, `BackendInv`, that connects three things
which change at different times: the files, what each process has read of them, and
the place of the command.  `JournalAt` and `FilesAt` say what the place tells of the
journal and of the files switched so far; `Owning` that the command knows its
process where the journal records it; `FrozenInv` that the old backend lives only
while no candidate file is there; `ApplyInv` that, but for an orphan, the process
of apply is known to the command or to the journal, has read no old file, and is gone
when a compensation is past its stop; `RollbackInv` the same of the backend a
compensation starts.  Its types include that one process listens at most.
Several actions raise errors that compensate at once, so the lemmas `Calm`,
`CalmBackend` and `RaiseBackend` say what such a jump leaves alone.

Model-checked only: `OneFaultRecovered`, which is liveness.

## 8. GenerationZero

Before the first activation there is no pointer to replace.  The bootstrap creates
it, once, from the installed build.  For each bootstrap `root` says how far `inspect`
came with its directory, `before` the state of the protected stores it froze
there, `ledger` is the last state of its journal, `after` the comparison in
`protected_state.after`, `pin`, `receipt` and `failure` its evidence.  `pointer` is the
one file all share, `temps` the temporary files beside it, `runner` the command
that holds `bootstrap_lock`.  A file written create-new is `torn` until its sidecar
exists.  Every bootstrap writes below the root the others capture: `strangers` are
the bootstraps whose snapshot another one has spoilt.

| Actions | Code |
|---|---|
| `Capture`, `CreateRoot`, `FreezeIntent`, `InspectEnds` | `inspect_generation_zero`, which takes no lock |
| `Apply`, `Recover` | `apply_generation_zero` opens a journal, `recover_generation_zero` resumes one at `ResumeAt` |
| `WriteTemp`, `Link`, `UnlinkTemp` | `create_pointer_cas` |
| `JournalWritten`, `Verify`, `Compare`, `Commit`, `PinJournal`, `WriteReceipt`, `Done` | the rest of both commands, where they differ included |
| `CommandFails`, `Handle`, `Compensate`, `RemovePointer`, `RolledBack`, `ReportFailure` | an error, the handler of apply and its compensation |
| `Kill`, `Drift`, `Activate` | a kill; a protected store changes; `Activation` replaces the pointer |

It checks `PointerExplained` (the pointer and the journals tell the same story),
`BootstrapEvidence` (receipt and failure evidence are true and exclude each other)
and `RecoverFinishes`: a prepared bootstrap ends with a valid receipt however often
it is interrupted, but for the states `DeadEnd` names.  These are states no
command repairs, and section 16 says which of them the design did not intend.

**Fairness.**  A command that is not killed goes on (`WF(Proceed(b))`), and the
operator runs recover until there is a receipt.  The lock is free only between
commands, so recover is strongly fair.

### What is proved

`ComponentsProofs.tla` proves in its first part `PointerSafety` (`PointerExplained`) and
`EvidenceSafety` (`BootstrapEvidence`) for any set of bootstraps and any number of
kills and changes.  The invariant `GZInv` adds to the two properties what the place
of the command says of the files: the journal state it has reached (`LedgerAt`),
whose pointer stands (`PointerAt`), which evidence exists (`EvidenceAt`).  Without
it a step that appends to the journal could not tell the pointer.  The only
assumption is `BootstrapAssumption`: `none` and `candidate` are no identifiers.

## 9. Crawl

`wiki` is the remote site, of which a page may be edited, moved, made a redirect,
deleted or created at any moment.  `status`, `lastrevid` and `fetched` are the rows of
`crawl_state.sqlite`; `listed`, `text`, `data` and `manifest` the records of the
append-only JSONL files.  `damaged` and `unfinished` are files with a torn line,
`crawl` is the crawl under way.  `settled`, `quiet`, `limited` and `relisted` are
history, for the properties and for what a listing is certain to find.

| Actions | Code |
|---|---|
| `StartCrawl`, `StartScan`, `EndScan`, `StartFetch`, `FinishCrawl` | `run_crawl`, full or limited |
| `RecordPage`, `IndexPage` | a page of the listing: the record, then the row and `should_fetch` |
| `FetchText`, `FetchData`, `MarkFetched` | `_write_revision` and `mark_revision_fetched` |
| `RecordFile`, `UpsertFile` | the manifest of files |
| `MeetGonePage`, `StopCrawl`, `StopInRecord` | an answer without the page; a stop between two writes; one inside a record |
| `Edit`, `Leave`, `Arrive` | the wiki |

It checks `CorpusTrue`, a named part of `ComponentsSound`, which joins `FetchedIsRecorded` (what the state says was fetched is in a file,
whenever the crawl was stopped) and `IntegrityMeansCurrent` (a passing
`verify_integrity` means that every page that did not change since the crawl
began is there in its current revision, and is the one the build joins) and
`CrawlConverges`: over a wiki that stops changing, full crawls end in a current
corpus, unless a stop tore a line.

**Fairness.**  A crawl goes on (`WF(Scan)`, `WF(Fetch)`) and the operator starts full
crawls again and again; limited crawls come in between.

### What is proved

`ComponentsProofs.tla` proves in its fifth part `CorpusSafety` (`CorpusTrue`) for any pages and
files, any number of stops and changes of the wiki.  `FetchedIsRecorded` is inductive
with `RecordsFirst`: a page in hand has its records before its row is written, or the
file shows the damage.  `IntegrityMeansCurrent` needs what a crawl has done before it
passes, `QuietIsFresh`: while no limited crawl came in between, a page that did not
change since the full crawl began is still listed as an article, is among the pages
its scan is certain to meet, and has a row with its present revision once the scan has
met it, hence at every completed namespace.  The row is the only link: that the
records of that revision exist is what the report itself compares.

## 10. WikiImport

`db` is the database: which wiki its pages, its legacy links and its v3 tables
are of, or `Gone` and `Half` during a restore.  `rollback` and `emergencies` are
receipts, each an inventory and a dump; `tool` is the tool under way; `dropped`
remembers the database a restore dropped.

| Actions | Code |
|---|---|
| `StartBackup`, `TakeInventory`, `TakeDump`, `CompareSource`, `CompareRestored`, `WriteBackupReceipt` | `_build_verified_backup`, of a release or in an emergency |
| `StartRestore`, `StopBackend`, `DropDatabase`, `LoadFirstTables`, `LoadOtherTables`, `VerifyRestored`, `StartBackend` | `execute_production_restore` |
| `StartImport`, `ReadState`, `ReadInventory`, `InstallSchema`, `CheckEmpty`, `CommitImport`, `CheckImport`, `WriteEvidence` | the formal import; MySQL commits its DDL at once, the payload in one transaction |
| `StopTool`, `ScriptImport`, `ScriptTables` | a tool is stopped; between two statements another script imports, or creates or drops the tables of media v3 (`migrate_wiki_media_v3.py`) |

It checks `ReceiptsRestore` (a receipt dumps exactly what its inventory says),
`DroppedIsSaved` (while there is no whole database, an emergency receipt holds the
dropped one) and `ImportRecovers`: whatever failed, the import gets its evidence,
by a restore where it is refused; a restore stopped between the drop and the
first tables is the exception.

**Fairness.**  A started tool goes on; the operator imports again and again, and
restores when the import was refused.

### What is proved

`ComponentsProofs.tla` proves in its second part `ReceiptSafety` (`WikiTypeOK`, `ReceiptsRestore`) and
`DroppedSafety` (`DroppedIsSaved`) for any contents other scripts import.  The invariant `WikiInv`
adds `ToolOK`: what a backup has compared when it reaches the receipt, and that a
restore past its backup has an emergency receipt of the present database or a
script has written since.

## 11. CompositeAnswer and RetrievalBudget

`CompositeAnswer` is one composite request: a `plan` of subtasks with dependencies,
a thread for each retrieval, one global `sourceMap`, the branch results.  `debug` and
`omitted` are the two fields of the retriever all threads share.  A search clears and
sets them (`BeginSearch`, `EndSearch`); `retrieve` reads them later, in two steps
(`JudgeOutcome`, `TakeActions`).  `FailSearch` and `RaiseSearch` are a store that is down
and any other error; `LeaveOut` drops the branches whose source contradicts an
earlier branch, `Allocate` makes the map, the `Answer...` actions are the outcomes of
`_answer_composite_branch`, `Conclude` the citation check and the verdict.
`AnswerMislabelled` is a draft without sources that the validation refuses: only
labels such as `[S01]` are stripped from it, so that `[S1]`, `[s01]` or `【S01】` stay
and are malformed (citations.py 20, 244-261, 374-378); execution.py 872-873 then fails
the branch and leaves `public_error` empty.

`AnswerContract`, a named part of `ComponentsSound`, says that a citation shows the
content the branch itself found (`CitationsClosed`), that the turn is committed exactly when some branch has an
answer, and that a failed branch reports the failure it met (`AnswersSurvive`,
`FailureNamed`): its own retrieval, a contradiction of an earlier branch that was
kept, the model that is not configured or raised, or, with an empty error, its own
draft, which needs that it was answered without sources.  The run `composite_answer` finds that the omitted
actions of a branch may be another one's.  All plans of two subtasks are initial
states, with one source that two searches may find in two states.

`RetrievalBudget` is the allocation of the prompt, a pure function of a `call`: the
dynamic programme over coverages of `_select_quota_row_indices` and the filling of
what is left.  `AllocationIsBest` compares it with its reference definition: no set
of rows within the limits keeps more of the requested intents, and if any set fills
all quotas, so does the result.  All calls of three rows with one or two characters
are initial states.  Three rows tell the two apart: a programme that keeps one
selection for each number of rows fails there (the mutant `CheapestOfCount`).  The
intents are those of a character, of which only `skill` and `voice` ask for more than one
source; the topics of other entities, `story` with two and `general_game` with three,
are left out.

### What is proved

`ComponentsProofs.tla` proves in its fourth part `AnswerSafety` (`AnswerContract`) for any sources
and contents and all plans of up to four subtasks (the limit of `request_plan.py`).
The invariant `AnswerInv` tells who may be left out and why (`BranchesOK`: a search that
raised, or, after all searches, a branch that contradicts an earlier one that is kept;
they are found in order, so leaving out one more cannot clear the earlier ones), that
the source map agrees with every branch that is kept (`MapOK`), and that each result
has the citations and the error its status needs (`VerdictOK`, `Named`).  What `Named`
says of a branch does not change once the map is made (`NamesStay`).  From `VerdictOK` it
follows that the last validation withdraws nothing (`NoneWithdrawn`).

`StandaloneProofs.tla` proves in its third part `BudgetSafety`: `AllocationIsBest`
always holds, for any number of rows, sizes, limits and finitely many intents
(`BudgetAssumption`: a packet names finitely many).  The three loops of
`retrieval_budget.py` are folds over the rows, and `Coverage` of a set of rows, cut
at the quotas (`Capped`), is what ties them together.

- A partial selection is `Legal` when its coverage and characters are those of its rows
  and the rows keep the limits; each row was taken because some intent lacked it, so
  there are no more rows than covered quotas, and `CountLimit` excludes nothing.
  `ExtendIs` and `PathIs` show this of all selections.
- Let `S` be any rows within the limits.  After `k` rows one of the kept selections is
  `AsGood` as the first rows of `S`: the same coverage, no more characters, no more rows.
  By induction on `k`: the next row of `S` either adds nothing or can be taken
  (`RowTaken`, from the limits `S` keeps), and where `Cheapest` drops the selection it
  keeps a cheaper one with the same coverage (`CheapestCovers`).  So some selection
  reaches the coverage of `S` in the end (`Dominated`).
- The one that is chosen fills all quotas if any does, and otherwise represents no
  fewer intents than any (`ChosenIs`, where the orders of the code are total orders,
  `RowsOrder`, `CostOrder`, `WorthOrder`, so that the CHOOSE has a value); the filling adds rows
  and keeps the limits (`FilledIs`).

The prover cannot instantiate the library's theorems on folds, whose parameters are
operators.  `OrdersAndFolds.tla` has what replaces them: `FoldExists` shows that the
function by which a fold is defined exists, for steps given as a function, and `TotalIs`,
`TotalSteps` and `TotalMore` that a sum does not depend on the order of its terms and
grows with them.  It also has the lemmas on sorted lists that section 14 needs.

## 12. Supervisor and Publication

`Supervisor` is one supervised worker: the `lock` file, the `status` of the state file,
the `session`, the `runner` processes with their place in the code, the `codex`
processes, and the command (`cli`) of the operator.  A lock is created in two writes
(`CreateLock`, `WriteLock`) and a stale one is judged and removed in two steps
(`JudgeLock`, `RemoveLock`).  `RunnerKilled`, `RunnerRaises`, `CliEnds` and `Reboot` are the faults.
`OneRunner` says that two runners are inside `run_worker` together only in one
history, recorded in `raced`: a runner removed a lock after it had looked at another
one, or at one whose owner was not written yet.  `RunningSettles` says that a
status `running` does not last, if codex ends its turns and an operator starts the
worker again.

`Publication` is one commit: what the `tag` of each registry and image resolves to,
the `job` of each workflow with its place in a script of registry commands, the
`manifests` and the attestations (`attested`).  `Answered` is the command at hand when
the registry answers, `NetworkFails` a transient failure (a copy may have arrived; the
budget of GHCR is shared by all commands, TCR has none), `Stopped` a refusal or a
kill, `RemoveTag` the operator's clean-up of an unreleased build.  It checks
`ReleasesImmutable` (what manifests and attestations name is in the registry and
stays there, and no run replaces what a tag resolves to) and `CommitReleased`:
once the failures end, the commit is released in both registries.  Publish and
backfill run beside each other, as their concurrency groups allow.

**Fairness.**  Processes and workflow runs that are not killed go on; the operator
starts the worker, the publication and the backfill, and removes tags, again and
again.

### What is proved

`StandaloneProofs.tla` proves in its second part `OneRunnerSafety` (`OneRunner`) for any number of runners,
restarts and kills.  `OneRunner` says nothing about how a runner came inside, so the
invariant adds who created the lock that is there (`LockHasCreator`), that a runner
which created the lock or is inside is the one it names, unless a race was recorded
(`LockIsOwn`), and that a runner about to remove a stale lock has seen one of a
process that is gone for good, or one without an owner (`SeenIsGone`): what `raced`
records is exactly that the lock has become another one since.

`ComponentsProofs.tla` proves in its third part `ImmutableSafety` (`ReleasesImmutable`) for any number
of builds, failures and runs.  The property speaks of manifests and attestations that
are there; the invariant `PublicationInv` adds what the runs under way may rely on.
`PublishOK`: past the probe of its first tag a publication finds no manifest, the tags
are those its place in the script says, and a copy it is unsure of is its own.
`BackfillOK`: a backfill is of a build with a manifest.  So no publication passes its
probes while a backfill runs, and the two never write one tag.

## 13. The tools of a release

**MediaUpload** (over `Bucket`).  `uploadPlan` is the operation plan with the inventory
it was made from, `marker` the file that says which operation used it, `report` the
write report, `uploader` where each run stands.  `bucket` is shared with every other
program (`OtherWrites`); `changed` is history, the keys others changed since a tool
took its inventory.

| Actions | Code |
|---|---|
| `MakePlan` | `minio-plan`: what the bucket lacks of the approved objects |
| `StartUpload`, `CaptureCurrent`, `Claim`, `Freeze` | the inventory object by object, the drift check, the use marker, the local files read before the first write |
| `PutCreates`, `PutConflicts`, `PutRefused`, `PutAnswerLost`, `ReadBack`, `ReadBackFails` | one object: PUT with `If-None-Match: *`, and the read back |
| `ListAfter`, `CaptureAfter`, `ValidateAfter`, `WriteReport` | the after inventory, `validate_after_inventory_delta`, the report |
| `KillUpload`, `SourceEdited` | a kill anywhere; a local file is edited |

`EvidenceTrue` joins the four invariants of this section.

`UploadReportTrue`: a plan is used by one operation, whose objects are the only ones
in the bucket with an operation id; a report of success or of a conflict tells what
is in the bucket, but for keys others wrote since its inventory began.

**Cleanup** (over `Bucket`).  `command` is the command that runs, `inventory`, `backup`,
`receipts`, `cleanupPlan`, `applied`, `verified` and `restored` the evidence files, `wiki`
the keys the wiki shows, `local` the paths to be removed.  Actions follow the
commands: `StartInventory` .. `WriteInventory`, `StartBackup`, `Download`,
`WriteBackupReceipt`, `VerifyLocalBackup`, `WritePlan`; `StartApply`, `RequireNoDrift`,
`RemoveObject`, `AppendRemote`, `RemoveLocal`, `AppendLocal`, `CompleteApply`; `StartVerify`,
`Accept`; `StartRestore`, `RestoreObject`, `AppendRestored`; and `KillCommand`.

`CleanupAccounted`: whenever an apply ended, what it removed is shown by the receipt,
but for one object whose row was not written, and the backup has its content; and
what `verify` accepted is so.  `NothingOverwritten`, of both tools: an object they find
is never changed, and removed only as a candidate once the drift check has passed.

**ShadowBuild.**  `rows` is how often each collection has each batch, `unflushed` those
no flush has covered, `build` the runs of the script, `shadowEvidence` their files.  Two
runs may name one collection: `FindTarget` and `EnsureCollection` are two looks.
`ReadRows` and `CountRows` are the two halves of a fingerprint; the count may miss
rows that are not flushed.  `ShadowTrue`: a pass stands for every row once, but for
rows another run inserted later or had not flushed, at most one of the runs on a
name passes, and the serving collection is never touched.

**MediaDownload.**  `target` and `partial` are a file and its `.part`, `job` where its job
stands in a worker thread, `receipt` the last row about it.  Trouble is a wrong chunk,
a truncated body, a failed request, a kill, or an edited file.  `DownloadsConverge`: an
operator who runs it again ends with every file that may be fetched in place.

**Closure.**  The `stage` of each part (before it is as approved, as approved, no
more) moves while runs of `close_candidate` read the parts in order, before the
receipt is created and after.  `ClosedTogether`: who is told *closed* or
*already_closed* has a whole receipt with its sidecar, and all parts were as
approved at one time, when it was created; the double reading is what makes it
so.  A part that leaves the approved state and comes back is left out.

**Run `cleanup_consumers`** is `Cleanup` alone, with two objects and one change by
others, and finds the disagreement of section 16.

**Fairness.**  A download that is not killed goes on, and the operator starts it
again (`OperationsFairness`); nothing else here needs fairness.

### What is proved

`EvidenceProofs.tla` proves, for any numbers of objects, runs, local files, batches and
parts, of faults and of steps by others:

| Theorem | Statement |
|---|---|
| `EvidenceSafety` | `EvidenceTrue` always holds: all four invariants of this section |
| `NothingOverwrittenSafety` | `NothingOverwritten`, of every step |

The assumptions are what keys and names are: object keys are numbers and finitely
many (`BucketAssumption`, the order of a listing), the id of an upload is none under
which the cleanup or another program writes (`UploadAssumption`), runs and batches of a collection build are finite and there
is one of each, batches are numbered from 1 (`ShadowAssumption`).  A tool's part of the
invariant is not touched by the steps of the others, and each part says what the
property leaves out:

- *Upload* (`UploaderOK`, `ReportOK`).  What a run has at hand is true already while it
  works: what its inventory has read is there but for what others changed since
  (`Captures`), and what it is about to report stands (`Stands`).  Only the run named by
  the marker works, so no other writes under an operation id.
- *Cleanup* (`FilesOrdered`, `CommandOK`).  The evidence files exist in the order the
  commands write them: a plan has its backup receipt, and with it a backup of every
  candidate, so whatever apply removes is saved; the keys a running apply still holds
  are exactly the candidates without a row, so at most the least of them is removed and
  unrecorded.
- *Collection build* (`BuildOK`, `PairOK`, `RowsOK`).  Two runs that fill one collection
  and have both flushed leave every row there twice, whatever a count of the rows
  ignores, so the second of them to count cannot pass.  Each run adds a batch at most
  once (`Ever`), which bounds the copies.  `OnceEach` is the fact about counting behind
  it: as many rows as batches and no batch missing means each batch once.
- *Closure* (`CloserOK`, `ReceiptOK`).  In the first inspection a part that was passed has
  begun to be as approved; when a receipt is created and not all parts are, one is over,
  and the second inspection finds it, as a part does not come back.

TLC has checked these invariants on the instance of the run before.

## 14. What is built, served and shown

**CorpusBuild.**  `raw` are the four files of a crawl, each the number of its writes;
`builder` the runs of the candidate command, all for one version; `corpus` the build
root with the run each file is by; `outcome` what a run directory says; `proposer` and
`review` the activation review.  A run passes the recovery gate (`PassGate`), hashes
the inputs and streams them (`ReadNext`, `ReadFile`, `ReadTorn`), judges and reads the
fingerprint again (`Judge`, `Fingerprint`), creates the root (`CreateRoot`) and writes
file by file (`WriteArtifacts`, `WriteHandoff`, `WriteReport`, `WriteManifest`), checks it
and writes its result (`CheckRoot`, `WriteResult`); `WriteFails`, `KillBuild`,
`KillProposal`, `CrawlWrites`, `RecoverSnapshot` and `PointerMoves` come in between.
`CandidateTrue`: a root that verifies holds the files of one run, its rows are of the
contents the inventory names, results and proposals say so truly, and a proposal
with a rollback tuple was made over generation zero's pointer.  A file that is
put back in the middle of a build is exempt (section 16).

**MediaPlan** is one request, its plan and the decision about it, a pure function
with a second call (`BuildPlan`, `ApprovePart`, `ExpandDisk`).  `PlanSound`: nothing is lost
between selection and overflow, each owner is shown once, budget, free space and
margins hold, an approved part is planned again as it was, and the recommended
expansion is enough.

**VoicePages.**  `voice` is the server process with its build and its store of cursors,
`panel` the panel of a message with its `generation` and the page it waits for, `calls`
the requests on their way.  `ShowFirstPage` and `LoadNextPage` are the panel,
`ServePage`, `LosePage` and `ReceivePage` a call, `OtherClient` takes cursors and so
evicts, `ReplaceProcess` starts a process with another build and an empty store.
`VoicesInOrder`: a panel lists a prefix of the lines of one build, none twice or
left out, with the best variant of each language, and offers more exactly when
there is more.

**WikiBrowser.**  `visited` and `entry` are the history, `place` the view, `shell` the list
and the page, `flights` the requests somebody waits for; a request that was aborted
or outdated is marked, as the code marks it.  The user's moves are `ChooseFilter`,
`SelectPage`, `LoadMore`, `RetryList`, `OpenDetail`, `ReturnToSelection`, `Travel` and `Reload`,
the answers `ListArrives`, `MoreArrives`, `PreviewArrives`, `DetailArrives`,
`DetailIsMissing`, `DetailIsResolved`, `FlightFails`; `Reimport` changes the database.
`WikiShown`: the list is a prefix of what its filter matches; address, view and page
agree; nothing says it is loading when nothing is awaited.  It exempts the
histories in which an answer was accepted in a view it was not asked for
(`crossed`) and a selection without pages: both are defects of section 16.

**BuildRoot** is the directory both modules below read: `pointer`, `settings`, which
files are `intact`, and the `stamp` of the last write of each path.

**Readiness.**  `checker` is the request that holds the lock of the cache, with the
passes over the tree it has made; `cache` the remembered verdict with the
fingerprint it is for.  `AskReady` and `Lookup` take the cached verdict or start the
verifier (`InputPass`, `ReadPointer`, `ReadDeclared`, `VerifierPass`, `VerifierFails`), whose
verdict is remembered only with a fingerprint that did not move (`Remember`,
`FailurePass`); `RetryDue` is the time after which a transient failure is tried again.
`ReadyIsTrue`: what is called ready, or broken, was so at some moment since the
request came.  `ReadinessFollows`: artifacts that stay whole are called so in the
end, and those that stay broken are not.

**RuntimeLoad.**  `loader` is `_ensure_loaded`: the verdict of the process, the two
resolutions of the pointer, what was hashed (`HashFile`) and what is read later
(`ReadText`, `ReadMedia`).  `ServedIsVerified`: text, media and collection a process answers
from are of one generation, and a damaged file was damaged after it was
hashed.  Both are parts of `ServiceTrue`.

**Fairness.**  Requests for the readiness keep coming (the health checks of Compose),
the process that verifies is scheduled, and time goes on.  Writes and faults are
never forced.

### What is proved

`PagesProofs.tla` proves in its first part `CandidateSafety`: `CandidateTrue` always holds, for any
number of runs of the build and of the review, of kills, of writes by the crawler and
of recoveries of the snapshot.  The invariant `CorpusInv` has three parts.

- *Reading.*  A run hashes every file before it streams it and hashes it again after.
  As a file only grows, what was hashed is no newer than what was streamed and that no
  newer than the file (`InOrderOfReading`); so a second hash equal to the first shows
  that the rows in between are of the contents hashed (`FileRead`, at `verify`).  The
  one file a recovery puts back is left out from then on (`Numbered`).
- *Root.*  While a run writes, the root is its own and holds exactly what the run has
  written so far (`OwnRoot`, `FilesAt`): `mkdir` refused every other run.  The manifest
  comes last, so with it the root verifies (`RootOK`).
- *Review.*  A proposal under way owns the review directory, and what it approved was
  ready under generation zero's pointer (`ReviewInv`); a ready root never changes.

Its second part proves `VoiceSafety`: `VoicesInOrder` always holds, for any lines, languages
and builds, any size of a page and of the store of cursors, any number of calls, of
other clients and of processes.  `VoiceInv` has the parts the property leaves out.

- *Cursors.*  A token of the store is of one cursor, and one that was given for a line is for a
  line of the process's build (`CursorsDiffer`), so a panel's cursor leads to one place.
  A free one always exists, as more can be named than are in use (`FreshIs`).
- *Panel.*  What a panel lists are the first lines of one build, each with its best variant
  (`PanelBegins`), and where its cursor is known to the process, it stands at the last of
  these lines: the next page follows on.
- *Calls.*  The cursor an answer offers stands at the last line of that answer
  (`CallsAsk`), and one call at most is awaited, by its generation; its answer continues
  the panel as it is (`WaitedFor`).  One of an earlier generation is dropped, whatever it
  says.

What the code sorts and cuts are the lists of `OrdersAndFolds.tla`: `InOrderLists`,
`AscendingLists` and `AtPlacesLists` show that the sorted list of a set has each member once
and that the list of some places has their entries and no other.  The choice of the best variant
is a loop; that it is one of the variants, and no worse than any, is by
induction over the variants seen.

Its third part proves `WikiSafety`: `WikiShown` always holds, for any number of pages, any
limit of an answer, any moves of the user, answers in any order and any imports.
`WikiInv` has two halves.

- *Shell* (`ShellInv`).  Every answer that is awaited fits what it will be put into
  (`FlightFits`): the first items are awaited only in the selection and while there is
  no list, the items of a cursor only while the cursor stands, a preview only of the page
  that is selected, a current detail only of the route or of what it resolves to.  So a
  late answer of the list changes nothing it should not: there is no second list and no
  second cursor to confuse it with.  (A late detail can cross into a view it was not
  asked for: `crossed`.)  While the database is that of the first items
  (`listedAt`), the cursor stands at the end of the list (`GoesOn`), and the next items go
  on there (`MoreGoOn`); after an import the list still has nothing twice, as what it
  has is filtered out (`AddedDiffer`).  A selection that loads has a preview on its way.
- *Address* (`AddressInv`).  Until an answer is taken in a view it was not asked for, the
  address is that of the view, and the page that is shown is the one that is selected
  or of the address.  An old route is the one case in which they differ before it
  is resolved (`AddressAgrees`).

Its fourth part proves `PlanSafety`: `PlanSound` always holds, for finitely many
resources with any rows, owners and sizes, any capacities and any limits
(`PlanQuestion`).  `PlanInv` says that what is answered is the plan of the present request,
so the property is one of `Planned`, a function, and of two changes to its argument.

- *Selection.*  The key of the selection is a total order of what is eligible
  (`TurnsOrder`), so each resource has one turn.  Each owner is shown by the first that
  is of it, and in p0 by no other (`OwnersShown`).  What a phase takes in turn stays
  within its budget, and if everything fits, everything is taken (`WithinBudgetIs`, by
  induction over the turns); what is kept leaves the minimum free, and nothing is given
  up if all of it does (`RetainedIs`).
- *Decisions.*  A request for a part that was represented represents that part:
  fewer resources leave fewer earlier owners (`RepresentedOfAPart`), so no approval is
  refused.  Approving what was selected changes no sum, so it is within the budget and
  the free space again (`ApprovePartKeeps`).  The recommended expansion, rounded up, is no
  less than what is lacking for everything that is represented (`ExpansionIs`), and on a
  disk with that much nothing is given up (`NothingGivenUp`).

The sums are folds over sets in an order nobody chose; that they grow with their set
and do not depend on that order is `TotalSteps` of `OrdersAndFolds.tla`.

`ServingProofs.tla` proves in its second part `ServiceSafety`: `ServiceTrue` always
holds, for any number of generations, writes, faults of the verifier and starts.

- *Stamps.*  `RootInv` says that no stamp is newer than the number of writes.  A write
  therefore gives its path a stamp nobody has seen (`Later`, proved of every step of
  the directory), and a remembered stamp that still fits shows that the path was not
  written since.
- *Readiness.*  `Seen` says that for signatures somebody keeps: each is no newer than the
  path's, and where it is the same the file is as it was built, the pointer where it
  led.  `ReadyInv` says it of the signatures of the verifier at work (`ObservedInv`) and
  of the closure in the cache (`CacheInv`), that the verifier has looked at every file
  or still has it before it (`LeftInv`), and that an invalid verdict with one and the same
  tree in all passes is true of that tree (`FailureInv`).  The last one needs that what was
  observed is then of that tree too; `ReadyIsTrue` follows as the histories contain the
  present (`HistoryInv`).
- *Load.*  `LoadInv` says of every file that it still has to be hashed or is as it was
  when it was hashed or written since (`HashInv`), that settings and snapshot agree from
  the last hash on, and what is known of the text when the media are read (`TextInv`).

Model-checked only: `ReadinessFollows`, which is liveness.

## 15. The composing runs

Parts that share no state are checked as a disjoint sum: `part` says which one
a behaviour is about, and the others stay where they start.  Nothing is lost, as
no step of one can change what a property of another reads, and each property
is evaluated in the behaviours of its own part; the states are added, not
multiplied.  As `part` never changes, a behaviour has one part only, and the
disjuncts of the others are never enabled in it: weak fairness of a disjunction
over the parts is then fairness of each disjunct in its own part.  The composing
modules put conditions of different parts into one disjunction for this reason,
and state liveness as `[]<>` or `<>[]`, which TLC checks without a product.

The theorems speak of a part in its own specification.  `SoundSafety`, at the end of
`ComponentsProofs.tla`, is about the composition: every behaviour of `Components` keeps the
invariants of its five parts, hence `ComponentsSound`.  `StandaloneSafety`, at the end of
`StandaloneProofs.tla`, says the same of the three parts of `Standalone`, and
`PagesSafety`, at the end of `PagesProofs.tla`, of four parts of `PagesAndBuilds`; the
fifth, the answer, is that of section 6.  It also shows that the requests, builds and
routes the run starts from are among those the four theorems speak of.

**Run `components`** (233,236 states): two bootstraps with two kills and one
change of a store, so that the second bootstrap can find the leftovers of the
first and a kill can hit the recovery from a kill; a crawl of a page in each
namespace and one file, one stop and one change of the wiki; a base, an active
and one other wiki in the database, with two stopped tools or writes of other
scripts in all; two builds of a commit with four failures, where three spend the budget
of GHCR (five in the code, the same branch) and the fourth hits the next run;
composite requests of two subtasks over a source in two states.

**Run `standalone`** (381,445 states): the activation of section 7; three
identities of runners, two alive at a time, one kill, error or restart; and the
calls of section 11.  Three identities are needed for a runner to look at the lock
of one and remove that of another.

**Run `operations`** (436,080 states): the deployments of section 5, once with
failing unlinks and once blind; two uploads of one plan of two objects, beside
a third key, and one cleanup of up to two of three objects, each with one write
by others and one kill or failure; two builds of two batches with two faults;
two files, one of which may not be fetched, with two troubles and one retry;
and two closures of three parts with four moves and one fault.  Two runs of a
tool show every race on its marker, its collection or its receipt; a write by
others reaches an object before or after it is inventoried.

**Run `pages_and_builds`** (496,257 states): the streams of section 6; a build of up
to three voice rows and one that lacks the first of them, pages of one line, a
store of two cursors, four requests and two processes; three wiki pages in
lists of one, four moves and one import; two candidate runs and one proposal
with a write of the crawl, a recovery and a fault; plans of up to two resources.
Two cursors and another client make a panel's cursor forgotten; four moves are a
selection, a detail, a way back and a second one.  Only invariants are
checked, and no definition chooses an object of the store or a build, so the two
sets are symmetric (`SYMMETRY`).

**Run `serving`** (158,656 states): the streams of two requests of section 6; two
generations, two writes, one failing verifier and two starts of the service.  Two
writes replace settings and pointer, or damage a file and put it back.

`MaxKills`, `MaxDrifts`, `MaxChanges`, `MaxMishaps`, `MaxOutages`, `MaxStops`, `MaxFaults`,
`MaxEdits`, `MaxForeign`, `MaxMediaFaults`, `MaxShadowFaults`, `MaxTrouble`, `MaxMoves`,
`MaxCloseFaults`, `MaxCuts`, `MaxClears`, `MaxAsked`, `MaxProcesses`, `MaxWikiMoves`,
`MaxImports`, `MaxCrawls`, `MaxRecoveries`, `MaxCorpusFaults`, `MaxRootWrites`,
`MaxVerifierFaults` and `MaxServiceStarts` bound what the environment does; no action
of the code is guarded by them.

## 16. Where the code and its documents differ

| Run | What TLC finds |
|---|---|
| `blue_green_reload_fails` | A reload that fails inside a trap is not seen; the journal is removed and Caddy still proxies to a candidate that is then stopped. |
| `blue_green_journal_kept` | A committed journal whose unlink fails outlives the backups it names; every later operation stops at it. |
| `answer_stream_done` | The turn is built before `done` is yielded, so a generator closed at that yield stores an answer that was never delivered, against MEMORY-P0-09. |
| `activation_report` | An error after the commit, while receipt and handoff are written, raises `ActivationRolledBack` although the candidate stays active. |
| `cleanup_consumers` | A wiki imported again after the inventory with as many rows may show an object the cleanup then removes and accepts: only numbers of rows are compared, against CLEAN-VERIFY-P0-02. |
| `composite_answer` | Parallel branches of a request read each other's omitted actions and shortfall from the shared retriever, against EXEC-P0-05. |

Met while reading, without a run (the modules model the code):

- *Stream.*  README line 93 says the tokens of a stream are chunks of a validated
  answer; `backend/sse.py` 199-201 and 239-245 stream unvalidated increments and
  correct them with `answer_replace` (271-274).
- *Activation.*  ACT-TXN-P0-07 promises that no request is served in an intermediate
  state; the orphaned process of section 7 can.  `recover_activation` puts an unknown
  file in conflict (activation.py 1418-1432) before it looks at the processes, so a
  candidate backend keeps running.  A rollback whose health check times out leaves
  the backend it started running, where the design keeps it offline.  An activation
  committed without its receipt cannot be completed.
- *Generation zero.*  The bootstrap design forbids a new bootstrap beside an
  unfinished journal and lets a conflict be recorded (BOOT-APPLY-P0-07 to P0-10); the
  code checks no other journal and never writes `conflict`.  recover keeps a `blocked`
  comparison it finds and commits a receipt over it (generation_zero.py 1001-1011).  A
  kill inside the compensation leaves the pointer, one between the temporary file
  and its unlink blocks recovery, a torn sidecar ends it.
- *Crawl.*  A limited crawl marks every page it did not list as missing
  (crawler.py 236-238, state.py 146-160), against the crawler design (198, 232).
  Relisting an edited page leaves two records, which the build reports as an
  identity conflict; a deleted page stays active in `pages.jsonl`; a torn JSONL
  line is never repaired.
- *Wiki import.*  `apply_formal_import` does not look at the database again between
  the creation of the v3 tables and the transaction, where section 7 of the import
  design asks for it.  An import that is repeated after a rollback commits and then
  raises, as its evidence exists already.  The tool cannot restore an emergency
  receipt.  Writes between the emergency backup and the drop are lost.
- *Composite answer.*  `_sanitize_branch_result` (execution.py 244-262) drops the mode
  of an authorised general answer, so such a turn counts as local; a composite turn
  commits a safe fallback the single path would not; a branch whose free draft is
  refused fails with no `public_error`, where a grounded one that fails its validation has
  `citation_validation_failed` (862-873, 902-903); a turn in which every retrieval
  raises ends in `ValueError`; the handler of `SourceIdentityCollision` is dead.
- *Supervisor.*  The runbook (cli-supervisor-runbook.md 142-143) says a lock is
  reclaimed only after its owner is confirmed dead; between the look and the
  removal another runner may have created its own.  A codex whose runner dies before
  it writes the session runs on unnoticed, and an acceptance may be overwritten by a
  late write of the runner.
- *Media upload.*  A PUT whose answer is lost and that the client library repeats
  is reported as a conflict although the object is the operation's own; an error
  that is neither `S3Error` nor `OSError` ends the command without a report, and
  the plan is used up.
- *Collection build.*  Two runs that find a name free fill one collection
  (vectorstore.py 78-80 accepts one that is there), which leaves neither with a
  pass, or one of them with rows inserted twice afterwards.
- *Closure.*  A kill between receipt and sidecar leaves a conflict that every later
  run reports; no command removes it.
- *Readiness.*  The verifier exits with 1 for artifacts it finds broken and when its
  interpreter crashes; the module takes 1 for the former, but after a crash the
  verdict `invalid` is cached until a file changes.  The closure it checks needs
  evidence of an activation, so generation zero is never ready in production.
  `/health/ready` looks at the disk, and neither at what the process has loaded nor at
  its provenance verdict, which is kept for the life of the process also when it
  is `blocked`.
- *Corpus build.*  The page hash of the recovery gate is not compared with the
  inventory, and the inventory holds no times, so a file put back between two
  readings goes unnoticed.  The command never passes a capacity planning, so a
  candidate is at best `diagnostic_only` there; a blocked result may name the
  manifest of another run.
- *Voice lines.*  A cursor that a restart or an eviction has removed is answered
  with 400, and the panel offers to try the same cursor again for ever.
- *Wiki in the browser.*  The frontend architecture (docs/kimi/frontend-architecture.md
  120) promises request numbers against races, and the redesign plan
  (2026-07-13-stitch-archival-wiki-global-redesign.md 901, 930) that Back restores the
  selection.  Requests are numbered within their kind only: a detail that arrives
  after Back replaces the address of the selection, and a preview that arrives
  after Forward replaces the detail.  A filter that matches nothing leaves the
  page at loading when a preview was on its way.  Offsets carry no snapshot, so an
  import between two pages skips items.
- *Publication.*  The concurrency group is the full commit, the tag has seven digits.
  A tag of the mirror left by an unreleased build makes every backfill fail until the
  operator removes it.

## 17. Not modelled

- Query planning, the audits of `provenance.py`, evaluation: pure computations over
  texts and files that do not change while they are read, without state that outlives
  a request or an interleaving.
- The single answer path, rank fusion, prompts, media: what they share with the
  modules above is modelled (its stages in `AnswerStream`, budget and citations
  in section 11), the rest is content.
- `inspect_activation` is the precondition of `BeginApply`; `snapshot_recovery`
  reads a finished crawl; receipts, watch and dashboard of the
  supervisor only read; the failure reports of a publication are read by no tool.
- Categories, recent pages and the content of a wiki page, audio, packaging, the
  other views of the frontend: read-only, or file copies.
- What the readiness verifier and the gates of the corpus build compare inside a
  file, and the projections of the build: functions of contents that were read.
- Inside the modelled parts: prompts, texts, embeddings, hashes (equality of
  contents stands for equality of hashes), permissions, snapshots, log lines.

Most lines of the repository that no definition stands for are of these kinds: text
processing, projections of rows, and offline scripts that score, accept or diagnose
what was built, which run once over files nobody changes.

Liveness is only model-checked: fairness and `ENABLED` are beyond the prover, and with
them the fairness half of `KeepsMemoryContract`.

## 18. Running the checks

    tlc -workers 2 -config Operations.cfg Operations
    tlapm ConversationMemoryProofs.tla

Every run of `PROJECT.json` is a module with a configuration of its own.  Each
property has a mutant there: a named definition that changes one definition of
the model the way a plausible bug would, under which TLC finds it violated.
