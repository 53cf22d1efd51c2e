# TLA+ models of the task-context sync, the file_search tool, the agent configuration panel and the cloud embedding provider

These modules model the Rust code under `src/` with TLA+ and check it with TLC.
The focus is how a task context gets from the browser into the IDE and how the
search tool then uses it. The project also models the rest of the agent
configuration panel that changes state.

## The system

The source files:

* `src/crates/agent_ui/src/agent_configuration.rs` holds the following parts.
  * **IdeContext** is a process-wide `RwLock<Option<TaskSyncData>>` global. It
    has `init`, `get_sync_data`, `set_sync_data` and `clear_sync_data`.
  * **TaskSyncData** holds the synced ids (`account_id`, `product_id`,
    `board_id`, optional `task_id`) plus display fields.
  * **sync_task** is the sync orchestrator. It acquires an LLM token, binds a
    `tiny_http` server on `127.0.0.1:0`, opens the handoff URL, and polls
    `recv_timeout(1s)` for up to 300 iterations. It parses the first request's
    query string into a `TaskSyncData`, answers with an HTML page, and then
    publishes the result on the foreground through the panel's weak handle:
    `update_sync_data` writes both the panel and IdeContext.
  * **AgentConfiguration panel state**: the task-sync section has the fields
    `task_sync_data` and `task_sync_expanded`, plus the disclosure, the
    "Sync Your Task" / "Sync Latest Task" buttons and "Clear Sync".
  * The **MCP servers section** has a per-server switch, a tool-list
    disclosure, the "Uninstall" entry, and a warning toast for extensions that
    provide more than the server.
  * The **LLM providers section** keeps a view and an expanded flag per
    provider, kept in step with the LanguageModelRegistry's events. The
    event handlers do not call `cx.notify`, so the rendered provider list
    can lag behind them.
  * The general settings switches only write settings and are not modelled.
* `src/crates/assistant_tools/src/file_search_tool.rs` is the **file_search
  tool**.
  * `Tool::run` validates the input, snapshots IdeContext into a context
    filter, and spawns `perform_search` twice: once for the
    **FileSearchToolCard** and once for the tool output.
  * `perform_search` acquires a token, merges the caller's filter with the
    context filter, and POSTs the request.
* `src/crates/semantic_index/src/embedding/cloud.rs` is the
  **CloudEmbeddingProvider**. Its `embed` makes one HTTP request per batch of
  at most `batch_size()` (100) texts and turns the response's `data` array
  into embeddings.
* `src/crates/semantic_index/examples/cloud_index.rs` is a demo binary.

How the parts interact: IdeContext is the only channel between the sync flow
and the search tool. `update_sync_data` and `clear_sync_data` write it, and each
`Tool::run` reads it once.

## Modules

| Module | Models | State ↔ code |
|---|---|---|
| `TaskSyncData` | the `TaskSyncData` record and the query-string parse | `ParseQuery` is a `FoldLeft` of `ApplyQueryPair` over the `query_pairs()` loop, starting from `DefaultSyncData`. A repeated key keeps its last value, and unknown keys are skipped. |
| `IdeContext` | the global | `store` is the `Option<TaskSyncData>`. Each method is one atomic step, matching the RwLock. `ContextFilterJson` is `get_context_filter`, which has no caller in this repository and no property checks it. |
| `Utf8Text` | the `str` semantics the tool relies on (not repository code) | A string is the sequence of its characters' UTF-8 widths. `ByteLen` is `len()`. `CharBoundaries` are the offsets where `&s[..n]` is defined. `FloorCharPrefix` is the longest whole-character prefix within n bytes. |
| `SyncOrchestrator` | the abstract sync state machine of spec.md 4.4/4.5 | `phase[a]`, `callback[a]`, `store`. A store change happens only on Complete (last write wins) or Clear. |
| `TaskSync` | `sync_task` with its listener loop, and the panel's task-sync state | `pc[a]` is the step of attempt `a`. `owner[a]` is the panel it was started from (window, generation). `iter[a]` counts the `recv_timeout` iterations. `waited[a]` counts the seconds they waited: an empty poll waits its full second, while an accept error (`RecvError`) and a request (`RecvRequest`) return at once. `inbox[a]` holds the requests reaching the port. `result[a]` is the parsed context. `panel[w]` holds the `task_sync_data` / `task_sync_expanded` of the configuration entity in window `w`, and that entity is recreated or dropped. |
| `FileSearch` | `Tool::run`, `perform_search`, `FileSearchToolCard` | `call[t]` holds the input and the context-filter snapshot. `task[t][k]` holds the two searches. `sent[t][k]` is the filter in the request body. `dispatched[t]` is the IdeContext value at run (history). `card[t]` is the card's response (with its results) and its expanded flag. `output[t]` is the output task: its state, the results it received, and the message line for each result (`OutputEntry`, the 200-byte cut). `CardLabel` is the expanded card's 300-byte cut. `Truncated` is the shared `if len() > n { &content[..n] + "..." }` pattern, with a slice inside a character marked as a panic. |
| `ContextSystem` | TaskSync and FileSearch sharing `store` | The two components' actions interleave, and TaskSync is the only writer of the store. A tool call reads the store once, at dispatch. Two history variables record what the handshake delivered. `completed` is the data of the latest attempt whose loop returned Ok, or `NoSync` after a Clear. `expected[t]` is `completed` at the moment call `t` was dispatched. |
| `ContextServers` | the MCP servers section | `settings[s]` is the `context_servers` entry. `status[s]` is the server store status. `extension[e]` is the ExtensionStore's install state. `awaiting[s]` and `removing[s]` count the "Uninstall" tasks of `s` at each of their two awaits. The entry can be clicked again while tasks are pending, up to `MaxTasks`. `toast` and `toastRemove` are the warning toast and the task its action spawns. `ToggleToast` is `toggle_status_toast`, which hides a toast that is already shown. |
| `CloudEmbedding` | `CloudEmbeddingProvider::embed` | `step[c]` is the point reached by call `c`. `texts[c]` is the batch length. `status[c]` and `body[c]` hold the response: whether it is a success, whether the body parses, and the length of its `data`. `returned[c]` is the length of the Ok result. Each `?` is an `err` alternative of its step. |
| `ProviderConfiguration` | the LLM providers section | `views` and `expanded` are the panel's two maps. `events` is the queue of undelivered registry events. `shown` is the provider list of the last rendered frame, refreshed by `Render` whenever something else notifies the panel. The disclosure acts on `shown`. |

Each action translates one handler and includes every state change the handler
makes. Actions that stand for a world outside `src/` are marked in comments and
are not in the map:

* the browser delivering a request (`Deliver`);
* the panel entity being dropped (`DropConfiguration`);
* the registry adding or removing providers;
* the ExtensionStore finishing an uninstall;
* the server store starting a server;
* the environment writing IdeContext in `FileSearch` alone (`StoreWrite`).

The token RPC, HTTP responses and `get_server` lookups are nondeterministic
choices over their outcomes.

Data is abstracted as follows:

* ids are model values or `Empty` (the empty string);
* query strings are short sequences of `<<key, value>>` pairs;
* the filter fields `query`, `limit` and `search_type` pass through unchanged
  and are left out;
* a search response is success or failure, and on success a list of
  results, each reduced to its content as a sequence of character widths.

## Runs

| Run | Expect | What it shows |
|---|---|---|
| `tasksync_refinement` (`MC_TaskSync.cfg`) | pass | Two concurrent attempts, a panel that is recreated or dropped, and a malformed request or a callback implement `SyncOrchestrator` (`SyncOrchestratorRefinement`). Every listening attempt ends under the fairness below (`ListeningAttemptEnds`). `TypeOK` bounds the loop counter. |
| `tasksync_outcome` | violation | `AttemptEndsInSpecOutcome`: spec.md 4.2, 7 and 8 allow an attempt to end only in an AuthError, a published context, or a Timeout after its whole budget of seconds. Four code paths each break this on their own (checked by disabling the other three; with all four disabled the property holds). The bind `.expect` panics (line 605). The `?` on `Url::parse` aborts on one unparsable request (line 625). The `?` on `req.respond` drops a parsed context (line 674). `recv_timeout` errors are flattened to `None` and return at once, so the 300 iterations run out early (line 622). |
| `tasksync_panel_stale` | violation | `PanelShowsStore`: a recreated panel starts with `task_sync_data: None` while IdeContext still holds the synced task. |
| `filesearch_scope` (`MC_FileSearch.cfg`) | pass | `SentFilterScopedToDispatch`: both searches of a call send the caller's ids, or else the context as it was at run, even while IdeContext is rewritten during token acquisition. |
| `filesearch_merge` | violation | `SentFilterIsSpecMerge`: the sent filter should be spec.md 4.6's merge. Two divergences each break it on their own. The merge drops `content_type: "auto"` (violated even without a `""` caller id). A caller's `board_id: ""` is `Some("")`, so it is kept over the synced id (violated even with the content_type clause removed). A synced `board_id: ""`, left by a callback without `board_id`, is copied into the filter as `Some("")`, but spec.md 3 says it is unset (this alone breaks the property, with the other two divergences excluded). |
| `filesearch_utf8_cut` | violation | `ResultTextCutAtCharBoundary`: a result's content is shown whole, or cut to its whole characters within the limit (the reference `ShownWithin`). The output task slices at byte 200 and the expanded card at byte 300. A multi-byte character across either offset panics (lines 329 and 467). Each site alone breaks the property (content "aéa" for the output, "éé" for the card), and ASCII content satisfies it. |
| `system_dropped_panel` (`ContextSystem_DroppedPanel.cfg`) | violation | `SearchScopedByLatestCompletedSync` (spec.md 4.4 and 5, across both components): a search that runs should be scoped by the latest sync whose browser callback was answered "Sync complete", or by nothing after a Clear. If the panel is closed while the browser flow runs, the foreground continuation drops the result (line 686), and searches keep the previous scope. With the result always applied, the property holds, with two attempts as well. This is a spec gap: spec.md 5 only asks that teardown stop effects on UI state. |
| `contextservers_uninstall` (`MC_ContextServers.cfg`) | pass | `TypeOK` over every step of the section, repeated Uninstall clicks and the toggling toast included. No uninstall property holds: `contextservers_toast` shows them broken. |
| `contextservers_toast` | violation | `SettingsKeptUntilUninstalled`: an extension server's settings entry should outlive the extension. Each of three paths breaks this on its own. For an extension that provides more, the entry is removed before the user answers the toast. The toast's action removes it without awaiting the uninstall it detached. For a single-purpose extension, a second Uninstall click while the first awaits gets the store's ready `Ok`, and its task removes the entry (with only single-purpose extensions, it breaks with `MaxTasks = 2` and holds with 1). |
| `cloudembedding_count` | violation | `OneEmbeddingPerText`: `embed` returns as many embeddings as the body held, not one per text. Nothing in this repository states or checks the count; only callers outside it could (a spec gap). |
| `provider_views` (`MC_ProviderConfiguration.cfg`) | pass | `ViewsMirrorRegistry`: with all events delivered, the panel's views equal the registry. This holds under any interleaving of registry changes, delivery, re-renders and clicks on stale frames. An `AddedProvider` handled after the provider was removed adds nothing. |

Each property of a passing run has a mutant in `PROJECT.json`. A mutant is a
plausible bug in the mapped action, defined next to it, and TLC finds it
violating the property:

* `PollUnbounded` (an empty poll not counted), `PollOffByOne` and
  `PollPublishEarly` in TaskSync;
* `SendSearchLiveStore` (re-reading IdeContext) and `MergeFiltersIdsOnly` in
  FileSearch;
* `ClickUninstallToastForExtension` in ContextServers;
* `RemoveProviderConfigurationViewKeepingView` in ProviderConfiguration.

## Bounds

* **TaskSync**
  * `Attempts = {a1, a2}` is enough for two attempts to race on the store.
  * One window, and `MaxGen = 2`: the panel is recreated twice.
  * `Budget = 2` iterations stand for the code's 300. Timeout, one
    malformed-request step, one empty poll and one accept error are all
    reachable, and so is every mix of them within the budget.
  * `MaxInbox = 1` in the passing run. The first request of any kind ends the
    loop, so a second queued request is never read. The violation runs use
    `MaxInbox = 2` with one attempt.
  * The queries are a full callback, a board-level callback with an unknown
    key, and an empty probe.
  * This gives 151k states in about 40 seconds.
* **FileSearch**
  * One call with both searches is enough, because calls share nothing but
    the store.
  * Two caller filters: thread only, and a `work_item` content type with a
    board id.
  * Two store values: task-level, and board-level with a product id that
    differs from its board id, so a swapped field is visible.
  * `FileSearch_Merge.cfg` adds a caller filter with `board_id: ""` and a
    synced context with `board_id: ""`.
  * Result contents use limits 2 and 3 for the code's 200 and 300 bytes.
    The panic depends only on whether the limit falls inside a character,
    so the contents are chosen to cover each case:
    * ASCII text longer than both limits;
    * `aéa` (widths 1, 2, 1), with byte 2 inside the é;
    * `éé` (widths 2, 2), with byte 3 inside the second é.
  * One result per response is enough, because each result is cut on its own.
  * This gives 5.6k states.
* **ContextSystem**
  * One attempt in one window and one tool call are enough for the
    violation: sync, close the panel, and run the tool.
  * The callbacks of `MC_ContextSystem` (task-level and product-level) and
    malformed requests are the inputs.
  * `Budget = 1`: one poll per attempt still reaches every outcome of a
    poll.
  * The check that only the dropped panel breaks the property used two
    attempts and gave 1.59M states.
* **CloudEmbedding**: two calls of one or two texts. A body holds zero to
  three embeddings, so answers shorter and longer than the batch both occur.
* **ContextServers**
  * One server of each kind: single-purpose extension, multi-purpose
    extension, and custom.
  * `MaxTasks = 2` pending Uninstall tasks per server, which allows a second
    click while the first awaits.
  * This gives 1.8M states in about 80 seconds.
* **ProviderConfiguration**: two providers, one of them the cloud provider
  that must accept terms, and up to three queued events. That is enough to
  queue a remove, a re-add and a remove of one provider behind the panel.

## Fairness

`FairSpec` in TaskSync assumes weak fairness of `Poll`, `Timeout` and `Publish`
for each attempt:

* The listener runs on the background executor, and `recv_timeout` always
  returns within a second.
* The foreground continuation is a spawned task that the executor runs.

Nothing is assumed of the user, the browser or the token service. Deadlock
checking is off only where the system really stops:

* in TaskSync, once every attempt has ended and the bounded generations are
  used up;
* in ContextServers, once every server is uninstalled and the section lists
  nothing;
* in CloudEmbedding, once both calls have returned;
* in ContextSystem, for the same reasons as TaskSync and FileSearch.

## Not modelled

* The handoff URL builder: a `format!`, where opening the browser is fire and
  forget.
* The token service internals.
* `deserialize_card`.
* The general settings switches, which are single settings writes.
* Rendering, apart from the expanded card's 300-byte cut. The rest of it
  reads state and does not change it.
* The `cloud_index` example.

The hazards not yet covered by a property are listed with a note in
`PROJECT.json`.

## Open questions

* The spec does not say whether a Clear stays in force against an attempt
  that was already in flight. The code publishes such an attempt's result
  after the Clear (`SyncOrchestratorRefinement` allows it).
* The spec also does not say which of two concurrent attempts should win.
  The code keeps whichever publishes last.
* The card and the output run separate searches, so they may disagree
  (`file_search_tool.rs:302`). No spec statement says they must match.
* A click on the disclosure of a provider that a stale frame still lists
  puts back an expanded flag for a provider the registry no longer has, so
  if that provider is registered again it starts expanded. TLC reaches this,
  but nothing states what a re-registered provider should show.
