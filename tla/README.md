# RustyLLM: formal models, checks and proofs

TLA+ modules that model the parts of RustyLLM (`src/`) in which the order of
steps matters, TLC configurations that check them on small instances, and TLAPS
proofs of theorems about them for every value of the constants. Paths below are
relative to the repository unless they name a module of this directory.

`PROJECT.json` lists the components, the runs, the lines each definition
translates (`map`), the hazards of the code with the properties that cover
them, and the theorems.

## 1. The system

RustyLLM loads a GGUF model and generates text: on the command line, in a
browser (WebAssembly), over MCP, or as an HTTP server with OpenAI, Anthropic and
Ollama routes. All of it is one process.

| Component | Code | State | Operations |
|---|---|---|---|
| SIMD worker pool | `simd.rs` 905-2080 | job slot, chunk counter, generation, per-helper wake/done words, thread handles, park tokens | `new`, `run*` entry points, `run_job`, `worker_loop` |
| SIMD kernels | `simd.rs` | none (pure) | row decoders, dot products, activation quantiser, fused and batched projections |
| KV cache | `model.rs` 1522-1770 | K/V rows per position, a ring under a sliding window, recurrent state of hybrid models | construct, `set_sliding_window`, `write_k`/`write_v`, forward passes |
| Forward arithmetic | `model.rs` | weights; the cache | one token, a chunk of a prompt, a draft, for each of six decoders; the attention scans |
| Model loading | `model.rs`, `runtime.rs` 1275-1903 | tensors of the file | compatibility report, one loader per family |
| Session turn | `runtime.rs` 5535-5790, `session.rs` | cache, `cached_tokens`, `last_logits` of a conversation | `generate_chat_with_session`, `Session::reset` |
| Stateless generation | `runtime.rs` 3265-3530 | a cache and a decode buffer per request | `generate_chat_stream` |
| Shared prefix cache | `runtime.rs` 705-839 | snapshots of completed prompts, most recent first | restore, insert with its limits, clear |
| Speculative decoding | `runtime.rs` 3664-4221 | target, assistant, draft, snapshots, adaptive draft limit | `verify_batch` and its helpers |
| Text assembly | `tokenizer.rs` 854, `runtime.rs` 3426-3460 | pending bytes, output | `Utf8Stitcher`, stop sequences, tool calls in the text |
| Session store | `session.rs` 81-160 | map of ids to sessions, limits | `get_or_create`, `delete` |
| HTTP server | `server.rs` 940-1610, 3687-3725 | connection counter, one thread per connection | `serve`, `handle_connection`, the routes |
| Request reader | `server.rs` 7045-7157 | buffer | `read_http_request` |
| Streaming formats | `server.rs` | counters and open blocks of a stream | one writer per protocol |
| Tokenizer | `tokenizer.rs` | vocabulary and merges (fixed) | `encode`: cut a text into pieces, merge each |
| Sampling | `sampling.rs` | random generator | `sample_with_scratch` |
| Templates, GGUF cursor, skills, catalogue, MCP, embeddings, Metal, CLI, web UI | see `PROJECT.json` and section 6 | | |

How they interact:

- A connection's thread goes through the session store (map lock, then the
  session's lock) into the runner, which runs one generation at a time under
  `generation_lock`. Embedding requests take the same lock.
- A generation runs forward passes on a KV cache. A forward pass hands its
  matrix products and attention ranges to the worker pool. The pool is a
  process-wide static with a mutex around dispatch of its own, so it is also
  safe when callers are not serialised by the generation lock (the library API,
  several runners in one process).
- Speculative decoding replaces the sampling step of the stateless decode loop
  by draft, verification and recovery on two caches.
- A stateless request builds its own cache and may fill it from the shared prefix
  cache, which another client's request filled.
- While it generates, each token's bytes go through the stitcher and the scan for
  stop sequences into a callback that writes events to the client's socket.

What is hard about it: the hand-rolled park/unpark protocol of the pool and its
`unsafe` job slot; reuse of cache rows, recurrent state and logits from one turn
to the next; rows of a ring that are overwritten while something still attends
to them; rewinding two models after a rejected draft; three kinds of lock held
across waiting; eviction by times that were read one after the other; requests that
arrive in pieces or not to their end; characters, stop sequences and tool calls that
are split between tokens; a stream whose client leaves; and many hand-written
versions of the same computation (per architecture, per instruction set, per token
or in batches) that have to agree.
`PROJECT.json` has the list with lines.

## 2. The modules

Definitions keep the source's names where there is one. A definition
introduced by "Slip:" is a plausible mistake in the definition after it; no
specification uses it. It documents which mistake a property would notice.

| Layer | Modules |
|---|---|
| state machines | `WorkerPool`, `SessionTurn`, `StatelessTurn`, `SpeculativeDecode` (abstractly `GreedyDecode`), `ServerSessions`, `HttpConnection` |
| what they are built from | `WorkerSchedule`, `KVCache`, `PrefixCache`, `RequestReader`, `TextAssembly`, `EventStreams` |
| pure algorithms | `AttentionScans`, `StandardForward`, `HybridForward`, `WindowedForward`, `ForwardPaths` (over `ForwardTerms`), `QuantKernels`, `MatvecPaths`, `ModelLayout`, `Tokenizer`, `Sampler` |
| inputs and references of the algorithms | `ScheduleCases`, `AttentionCases`, `ForwardCases`, `KernelCases`, `MatvecCases`, `LayoutCases`, `TokenCases` (the sampler's are in `Sampler`), gathered by `Algorithms` and `MCAlgorithms` |
| instances for TLC | `MC*` |
| proofs | `WorkerPoolProofs`, `KVCacheProofs`, `SessionTurnProofs`, `StatelessTurnProofs`, `SpeculativeDecodeProofs`, `ServerSessionsProofs`, `HttpConnectionProofs`, `AlgorithmProofs` |

### Worker pool: `WorkerSchedule`, `WorkerPool`, `WorkerPoolProofs`

`WorkerSchedule` is the arithmetic: what job each entry point makes of its rows
and threads (how many shares, static or by chunks from the counter, where a
share begins, how a unit of a fused job splits at the seam of two projections).
`WorkerPool` is the protocol, one action per shared access: a caller takes the
mutex, writes the slot, resets the counter, wakes and unparks the helpers the
job needs, works on share 0, waits for each `done` word and unlocks; a helper
starts (publishes its handle, then reads its wake word for the first time),
spins, parks, wakes, copies the job, works and stores `done`. All accesses the
protocol rests on are release/acquire pairs or under the mutex, so
interleaving the steps loses nothing. `park` may return spuriously. `ran` is a
history variable. `MaxGenerations` bounds the dispatches.

- `JobSlotExclusive`, `BuffersOnlyInCall`: what the `unsafe impl Sync` of the
  job slot and the raw output pointers rest on.
- `EveryUnitOnce`: a call returns with every unit computed exactly once.
- `CallReturnsUnlessWakeMissed`: no wake-up is lost to a parking helper, and calls
  return: liveness, with weak fairness of each caller's and
  each helper's steps (threads run). The mutex is not assumed to be fair; callers
  make finitely many requests, so it is free in the end.
- `WorkIsShared` (with `ScheduleCases`, in the run `algorithms`): units partition the
  items, fused rows are neither dropped nor repeated at the seams, shares fit the
  pool, and the workers an entry point drops would not have made it faster.

### Sessions: `KVCache`, `SessionTurn`, `KVCacheProofs`, `SessionTurnProofs`

A row of the cache is *the sequence of tokens it was computed from*, or
`Garbage`; logits likewise. A forward pass reads the rows its attention reads
and yields a row of the sequence one longer, or `Garbage` when the rows do not
belong together. This is what the properties have to tell apart, and no arithmetic.
Four kinds of model differ in what they read: see the head of `KVCache`.
`Holds` and `RingHolds` say that a cache holds the first n tokens of a sequence:
all their rows, or the rows a ring still has.
`SessionTurn` has one action per step of a turn: `BeginTurn` (window
change, resets, longest common prefix, the saved logits), `PrefillBatch` and
`PrefillToken`/`PrefillLast` (the chunks of `prefill_prompt_tokens`), `Sample`,
`SampleStop`, `ForwardToken`, `EndTurn`, and `Panic` for a row that would be
written beyond the storage. A turn holds its session's lock and the generation
lock, so turns of a session do not interleave.

- `ReuseInvisible`, `RingReuseInvisible`: what a turn samples from was computed
  from the conversation's own tokens, whatever turns came before; with the
  exceptions they name (saved logits after a cut; models that mix ring and
  full attention; batches in a ring).
- `CacheReflectsTokens`: between turns the rows and the recurrent state are
  those of `cached_tokens`.
- `LogitsAccompanyTokens`: a session with tokens has logits, so the branch at
  `runtime.rs` 5637 that forwards a token twice is dead code.
- `PanicOnlyBeyondCapacity`: only an overlong prompt leaves the storage.

What text a token adds is not part of a turn's model: see `TextAssembly`.

### Stateless requests: `PrefixCache`, `StatelessTurn`, `StatelessTurnProofs`

`PrefixCache` is the list of snapshots: lookup by the whole prompt, restore into a
cache (rows position by position, with the reasons to refuse), insert with the
entry, token and byte limits and eviction from the old end. `StatelessTurn` is a
request around it: the cache is sized by `kv_cache_len`, restored or prefilled
(token by token, `fed` of them so far),
offered to the prefix cache, and then decoded until the budget, a stop token or the
capacity. Requests hold the generation lock and follow each other;
`clear_shared_prefix_cache` comes at any time, since it takes only the prefix cache's lock.

- `PrefixHitInvisible`: a request that found its prompt decodes from exactly what a
  prefill would have left, whatever requests of whatever shape (length, window, bf16,
  recurrent state) came before. Stated for caches without a window: with one, a long
  prompt has lost rows, and such a cache is never snapshotted.
- `SnapshotsOfPrompts`: snapshots are of distinct prompts, within the limits as `insert`
  counts them (an f32 as one byte, section 5), and hold the prompt's rows and unsampled
  logits only, not the tokens generated after it.
- `EvictsLeastRecentPrompt`: an action property; recency counts hits as well as inserts.

### Decoding: `GreedyDecode`, `SpeculativeDecode`, `SpeculativeDecodeProofs`

`GreedyDecode` states what decoding at temperature 0 promises: the prompt
continued by greedy tokens until a stop. `SpeculativeDecode` is the decode loop
with `verify_batch`: drafting, batched and token-wise verification, acceptance,
rejection, restoring and replaying recurrent state, catching up the assistant,
adapting the draft length, giving up. The refinement is
`ImplementsGreedy`, with the emitted text as the abstract one.
`ModelsInSync` (`TargetInSync` and `AssistantInSync`) says that, between rounds, both
caches hold the accepted text; `CapacityRespected` that no draft leaves a cache or the budget.

Abstractions: the assistant's choices are arbitrary, and so is the decision to
stop drafting (it rests on measured times). Both choices of the target are
functions of the tokens; in the passing run they coincide (repeat penalty 1).
A target that is verified token by token may keep its rows in a ring: it evaluates only
tokens of the text. The others have none in the passing run. Rows of a rejected draft
would have taken the slots of rows of the window, which nothing restores (section 5), and
layers with full attention need rows a ring has dropped. `KeepsRows` says which targets
these limits leave. Prompts fit the window and the context, and decoding starts after the prefill.

### Server: `ServerSessions`

The accept loop (load, compare, exchange; inline service with one connection),
a thread per connection, the store's map lock, the eviction scan that reads each
session's `last_used` under that session's lock, the session locks, the
thinking pre-pass, the generation lock, and the guard that gives the slot back. A
connection is one request; a session is named by the connection that created it;
time is a clock that ticks when it is read.

- `SlotsCounted`: the counter is the number of open connections.
- `LiveSessionsBounded`: sessions in the store, and sessions in memory (an evicted
  one lives on while a turn uses it).
- `StoreKeepsSessions`: racing requests of a conversation get one session.
- `EvictsLeastRecentlyUsedAsRead`: the victim is the least recently used, *as the
  scan read it*. The exemption is real: the scan reads a session's time, a
  request that already has its reference starts a turn in it, and the scan goes
  on and evicts it. That turn's session is then lost to the conversation.
- `EveryConnectionAnswered`: liveness: each is served, or turned away by a full
  server (with a 503 on a plain listener; a TLS listener only closes it). In particular no
  deadlock, although the scan waits for sessions under the map lock and sessions wait for
  the generation.

Fairness is weak fairness of each thread's steps: sockets have timeouts, a
generation makes at most `max_tokens` steps. Nothing is assumed of a lock that
is free time and again; with finitely many connections a lock stays free in the end.

Left out: `delete` (nothing calls it), the chat-history file and its lock (a leaf),
panics. The release profile aborts on panic (`src/Cargo.toml` 73); in a build
that unwinds, a panic would poison the generation lock for all later requests.

### A connection: `RequestReader`, `TextAssembly`, `EventStreams`, `HttpConnection`, `HttpConnectionProofs`

`RequestReader` reads a request from a socket that delivers pieces, late or not to
the end: header limit, malformed lines, declared length, body limit, read timeouts.
A piece is a header line of some kind, the empty line, or a byte of the body.
`TextAssembly` works on bytes of three kinds (one-byte characters, a lead and
its continuations): `push` and `flush` of the stitcher, the window of the output
that is searched for stop sequences, the cut, and the split of a text into prose and tool calls.
`EventStreams` gives, for each protocol, the events of one streamed generation, with
the counters each writer keeps, and the answer of the same request without streaming.
`HttpConnection` composes them: read, refuse or route (GET, HEAD, POST, OPTIONS, and PUT for any
method the server does not know), generate token by token, flush,
record the chat history, close. The client may leave before any write; what is
written afterwards may still be accepted by the socket or fail, and the code ignores both.

- `HandledAsSent`: what reaches a handler is what the client sent, with a body of the
  declared length; everything else is refused with the status the code documents.
- `TextDecodedOnce`: every byte of every token is in the text once, however
  characters were split between tokens, and what was streamed is what is returned.
- `StopSequenceCuts`: no stop sequence survives, also one that spans tokens; where the
  text is cut; and how far what was streamed may reach beyond the cut. Said of lists without
  an empty stop sequence (section 5 says what those do).
- `StreamWellFormed`: blocks are opened one at a time, numbered in order, and closed
  before the terminal event, after which nothing comes.
- `StreamAgrees`: the stream says what the answer without streaming says: prose, calls,
  finish reason, repeated full text.
- `ConnectionEnds`: liveness; reads time out, a generation has at most `max_tokens` rounds.

### Algorithms: `Algorithms`, `MCAlgorithms`, the `*Cases` modules and `AlgorithmProofs`

Each algorithm is an operator on an input; a `*Cases` module enumerates inputs and
states the reference. A state of `Algorithms` is a subject, a group and an input,
so that each invariant is evaluated on every input once. `Algorithms` holds the pool's schedules,
attention, projections and forward passes, about which there are proofs; the other subjects and
their inputs are its constants, for which `MCAlgorithms` puts instances of the other `*Cases` modules.

- `AttentionScans` (`AttentionVisitsWindowOnce`): the online softmax, its grouped,
  sink, bf16, batched and tiled forms, serial and over workers. Scores are integers; a
  weight is its exponent; a sum is the sequence of its terms. A scan is right when every
  head of every token ends with each row of its window once, weighted by its score
  relative to the final maximum. Floating-point rounding and the order of a sum are not compared.
- `ForwardTerms`, `StandardForward`, `HybridForward`, `WindowedForward`, `ForwardPaths`
  (`ForwardPathsAgree`): each forward pass builds a *term*, which names the weights
  applied, the layer or position, and the arguments. A prompt in chunks of every size, a
  draft verified in one batch, and the same tokens one by one build equal
  terms for cache, logits, embedding and draft-head input, for every mix of layers
  the code lets into a batch. Excepted is a batch of a standard model that goes round its ring
  (`Wraps`; section 5 says what it loses there). Matrices and vectors themselves are not modelled;
  routed experts are one term of their input.
- `QuantKernels` (`KernelsMatchRows`): a row decoder is a function from
  loop indices to the element and its weight, given by the *bits* it is assembled
  from, the factors of its scale and what is subtracted. A kernel (scalar, NEON, AVX2; f32
  or int8 activations; one token or four) is the products its lanes form and the
  activation sums it multiplies by a minimum. It must use each weight of the row
  once, with its own activation and its own scale. The quantiser is computed on small
  integers: order is kept, groups are summed, and products fit the integer widths
  the AVX2 kernels rely on.
- `MatvecPaths` (`ProjectionsAgree`): one, two or three matrices fused on a vector, and
  batches shared out by token or by row, against one matrix and one vector at a time,
  on every architecture, with any of the calls taken by Metal; and a call
  whose sizes do not fit leaves the output untouched.
- `ModelLayout` (`SupportedFilesLoad`): the compatibility report and the loaders,
  by tensor. A tensor is present, missing, short or long by a row, flat, cut by the end
  of the file, or of an unsupported type. With up to two faults in a file of any
  family, the report must say what the loader does, but for the gaps that
  `LayoutCases` names one by one (section 5).
- `Tokenizer` (`TextIsTokenized`): the pre-tokenizers work on texts of
  character classes and must cut them like the regular expressions they were written to
  replace, which `TokenCases` evaluates by backtracking. `merge_symbols` is modelled with its
  heap, links, liveness and versions, for every order in which the heap may give equal
  candidates, and must end where rescanning for the best pair ends; WordPiece must take
  the longest token at each place. A GPT-2 text has no quoted pattern ("lightweight
  approximation"), so its reference is the comment's rule.
- `Sampler` (`NucleusIsSampled`): logits are integers in halvings, probabilities parts of
  16, and the random number every one of the sum's units. Each token must be drawn as
  often as it weighs if the settings keep it, and never otherwise, for every order in
  which the unstable sort may leave equal weights. Rounding is not modelled, so the
  fallbacks behind the loops are not reached.

## 3. The runs

| Run | Instance | Shows |
|---|---|---|
| `pool_safety` | 2 callers, 2 helpers, 2 dispatches, a dynamic and a static job | safety of the pool, every interleaving |
| `pool_liveness` | 2 helpers, jobs for both, one or none, fair threads | calls return unless a helper missed its first wake-up |
| `pool_cold_start` (violation) | 1 helper, fair threads | a call during a helper's start may never return |
| `session_turns` | capacity 4, prompts up to 5 tokens over 2 tokens, windows none, 3 and 5 (beyond the capacity), all models | reuse is invisible within the named limits |
| `session_shorter_prompt` (violation) | no window | a prompt that is a prefix of the session samples from the longer sequence's logits |
| `ring_batched` (violation) | window 3, batches of 2 | a batch overwrites rows its own tokens attend to |
| `stateless_prefix` | 2 tokens, prompts up to 3, contexts 2 and 5, window none or 2, 2 snapshots, limits that prompts of 3 exceed, recurrent and plain models | a hit in the prefix cache is invisible; what it keeps and drops |
| `speculative` | all kinds of target and drafter, window none or 3, drafts up to the limit | drafting implements greedy decoding |
| `speculative_penalty` (violation) | repeat penalty | drafting changes the text |
| `server_sessions` | 3 connections, 1 or 2 admitted, 1 or 2 sessions, 3 conversations | slots, sessions, eviction, progress |
| `http_connection` | headers of up to 2 lines with any body, every route and method, 8 tokens of up to 3 bytes, texts of up to 3 tokens, 5 stop lists (two hold an empty stop sequence) | request, text, stream and end of a connection |
| `algorithms` | see below | the pure algorithms against their references |

Why the bounds suffice for what is asked. Pool: two dispatches show every way a
helper can carry something over from the dispatch before; a third adds nothing
to a protocol whose words only compare generations; two helpers distinguish the
needed from the not needed and let chunks be claimed against each other; the
theorems cover the rest. Sessions: capacity 4 with prompts below,
at and above it, and windows below and above it, reach every branch of
`BeginTurn`; two tokens make prefixes agree or differ; turns are not bounded.
Stateless requests: prompts of 3 exceed the token limit and the byte
limit, the third distinct prompt evicts, and the short context
makes a request whose cache is smaller than a snapshot; requests are not bounded.
Speculation: context 7 with a prompt, a stop token, a stop sequence and drafts
reach acceptance in full, in part and not at all, each followed by further rounds.
Server: two admitted connections are enough for a scan to race with a turn, and
the third connection finds the store full; the third conversation is the one that evicts.
Connection: two header lines let declarations contradict each other, bodies are shorter
than, as long as and longer than declared, `MAX_HEADER_BYTES` and `MAX_BODY_BYTES`
are exceeded; the tokens hold characters in one, two and three parts, broken
characters, letters of stop sequences that span up to three tokens, and calls that begin in one token
and end in another. The header's limit counts pieces.

Bounds of `algorithms`: schedules with up to 6 rows per projection, 3 tokens, 6
threads and all constants reduced so that each branch is taken; attention with 1 or 2
KV heads, up to 6 query heads each (`MAX_KV_MUL`, the size of the scratch arrays, is reduced
to 6, and groups beyond it, which the code cuts off, are no supported architecture's), tiles of 2, caches shorter, as long as and longer than the tokens,
and score patterns that put the maximum at every end; models of up to 2 layers of all
kinds with prompts of up to 6 tokens in chunks of 1, 2, 3 and 5; rows of 0 to 16
blocks of 32 (kernels unroll by up to 8), or 0 to 3 of 256; files with 0, 1 or 2 faults;
texts of up to 4 characters of every class a pre-tokenizer tells apart, all vocabularies of
up to 3 merges over two letters with words of 5, so that a merge makes others stale on
either side; up to 4 logits, finite or not, with top-k from 0 to 4.

`CHECK_DEADLOCK FALSE` stands in the session runs and in `stateless_prefix`, where a
panicked process has no next step, and in `algorithms`, which takes one
step for each input. Every other run
checks deadlock: a finished decode stutters (`Done`), a closed connection does, the server's `Wait` is its
listener, and a parked helper may return spuriously. Since those steps hide
a group of threads that wait for each other, that no thread is stuck is
shown by the liveness properties.

## 4. What is proved

All proofs are for any value of the constants under the named assumptions of
the modules (`ScheduleAssumption`, `PoolAssumption`, `CacheAssumption`,
`SessionAssumption`, `StatelessAssumption`, `SpeculativeAssumption`,
`ServerAssumption`, `ReaderAssumption`, `ConnectionAssumption`; `TilesAssumption`,
`CallsAssumption`, `LanesAssumption`, `ProjectionsAssumption`, `ForwardAssumption`,
`PoolsAssumption` and `OthersAssumption` of the algorithms), which the runs evaluate. Where a theorem needs more than that, it is a named hypothesis in its statement.

`WorkerPoolProofs` proves `TypeOK`, `JobSlotExclusive`, `EveryUnitOnce` and
`BuffersOnlyInCall` from one invariant. That the safety properties hold depends on
which generation each word can hold: `WakeInv` says that a helper's
wake word is the generation in flight exactly when the dispatcher has woken
it, and that a helper works on nothing else; `SlotOwnerInv` and `MutexInv` tie the
slot to the caller in its dispatch. `UnitInv` accounts for every unit: computed,
or not yet claimed, or owed by exactly one shard. The step lemmas have one
step per action, and under it one per conjunct. From units to rows: `UnitsShareItems` and
`UnitsShareFusedRows` say that what `JobOf` makes of any request puts each item, and each row of
fused projections, in exactly one unit (`UnitOf` computes which, from the bounds that rounding
down leaves), so `RowsComputedOnce`: when a call returns, each of its rows was written once, by one
thread. `SharesFit` (no share is empty, none is beyond the pool) and `DroppingWorkersCostsNothing` are the
rest of `RequestsShareTheWork`: every request has `SharesTheWork`, the operator which the run
`algorithms` evaluates on small requests.

`KVCacheProofs` has the lemmas on caches that the three modules below share. `ForwardHolds`
and `ForwardBatchHolds`: a cache that holds the first n tokens of a sequence holds n + 1
(or the chunk) afterwards. `RingForward`: so does a ring, since the slots of
the rows a token attends to are different (`SlotsDiffer`, `RingSlots`), and the row it overwrites
is one no later token reads. `HoldsCommonPrefix` and `RingCommonPrefix`: what is
held of one sequence is held of another up to where they agree.

`SessionTurnProofs` proves `TypeOK`, `LogitsAccompanyTokens`,
`PanicOnlyBeyondCapacity`, `ReuseInvisible`, `CacheReflectsTokens` and
`RingReuseInvisible`.
`ReuseInvisible` alone is not inductive: `RowsInv` says at each point of a turn which
rows are those of the prompt and which of `cached_tokens`; `LogitsInv` what the
saved logits were computed from; `ProgressInv` how far the turn is.
For a window, `RingInv` says the same of the *last* rows. It has to say where it stops being
true: a prompt that cuts the session would need rows that are gone (`cut`), and a ring
shorter than its window (`RingReaches`: the storage is never longer than `MaxLen`) serves
conversations up to its own length.

`StatelessTurnProofs` proves `TypeOK`, `SnapshotsOfPrompts`, `PrefixHitInvisible` and
`EvictsLeastRecentPrompt`. `RowsInv` is what the request's cache holds after so many tokens,
whether restored or prefilled. `RecencyInv` is what makes eviction from the end of
the list the eviction of the least recent: the entries are, in order, the prompts
asked for or kept last. A hit moves an entry to the front, an insert replaces and
truncates; the lemmas on sequences say that what stays, stays in order.

`SpeculativeDecodeProofs` proves `TypeOK`, `ModelsInSync` and `CapacityRespected`, and
`TextIsGreedy`: every step of the loop is a step of `GreedyDecode` or leaves
the text alone. That is the safety half of `ImplementsGreedy`; the other half, that the
text ends, is liveness. `SpeculativeInv` follows a round: `RoundInv` ties the draft to what
has been accepted of it and to the snapshots taken before it, `TargetInv` and `AssistantInv` say for
each point of draft, verification, recovery, replay and catching up how many tokens
of which sequence each model holds; for a ring these are the rows that still have a slot
(`RingHolds`, with the lemmas of the session turn). `TypeCorrect` and `CapacityCorrect` assume
that the models choose tokens (`ChoosesTokens`) and hold for every target and window.
`ModelsCorrect` and `TextIsGreedy` also assume `KeepsRows` of the initial state (it stays, by
`RowsAreKept`; section 5 says what is lost without it), and `TextIsGreedy` that
both choices of the target coincide (`NoPenalty`; without it the theorem is false, which the
run `speculative_penalty` shows).

`ServerSessionsProofs` proves `TypeOK`, `SlotsCounted`, `LiveSessionsBounded`,
`StoreKeepsSessions` and `EvictsLeastRecentlyUsedAsRead`, for any number of
connections, conversations and limits, from `ServerInv`. `SlotsCounted` needs
`AcceptorInv`: between the load and the exchange the accept loop holds a connection
nobody serves yet, for which it saw room. `StoreKeepsSessions` needs `MapInv`: while
a scan keeps the map locked nobody else inserts, so the conversation it
makes room for stays unknown. `StoreInv` bounds the store, and that a connection
makes at most one session keeps two conversations from sharing one. The eviction
property needs `ClockInv`: times only grow, so a time the scan has read is at most the
session's present one, and a victim whose time has not changed since is the oldest.

`HttpConnectionProofs` begins with the functions of `TextAssembly`, for every byte sequence over the three
kinds of byte: `SplitDoesNotMatter` (pushing bytes in two parts gives the text and the
pending bytes of pushing them at once), `WindowMissesNoStop` (a stop sequence in the text that
was not there before the last token lies within the window that is searched) and
`StopIsFound` (the search finds one exactly if there is one). `push` is a recursive function from
the end of the bytes to the front. That it exists and what it computes goes by the
least counterexample (`LeastElement`, from the well-foundedness of the strict-subset
order): the induction theorems of the library cannot be instantiated by these provers.

The module then proves `TypeOK`, `HandledAsSent`, `TextDecodedOnce` and
`StopSequenceCuts` from `ConnectionInv`, for every message, vocabulary, list of stop
sequences and limits. `ReaderInv`: what was sent is what has been read and what is still
to come, in order, and the header ends at its first empty line, so what is judged
is what was sent. `TextInv`: output is always what *all* bytes so far spell at
once, and the pending bytes are what that leaves; with `SplitDoesNotMatter` a token extends it.
As long as nothing was cut no stop sequence is in the text, which is what lets a window of the
text suffice (`WindowMissesNoStop`). `ControlInv` ties counters, status and answer to the step.

The same module proves `StreamWellFormed` and `StreamAgrees`, each from an invariant of
its own beside that one. A stream is written in pieces (opening, deltas, closing or
failure), so both arguments say what a *piece* does behind any stream, whatever the route, and
pieces compose. For the first, a stream *stands* at a position (which block is open, how many
blocks and calls there were): `Leads` says that a piece moves a stream from one position to
another, `Completes` that it ends one. `WireInv` says where the stream stands while
the text comes into being (`Stage`, one position per protocol), and that a client that left
has the beginning of such a stream. For the second, `Tells` says what a piece adds to the text
and the calls a client has read, which reasons it may give, and that an event that repeats the text
repeats the whole of it. `TellingInv`: up to the closing the stream has told
exactly what was passed on, or nothing when tools were declared, since only the closing can
tell prose from calls. The blocks of calls are folds over the calls; that a fold tells all of them goes by
induction on prefixes (`MapFlattens`, `TellsGroups`).

`AlgorithmProofs` proves `AttentionVisitsWindowOnce`, `ProjectionsAgree`, `ForwardPathsAgree` and
`WorkIsShared`, for whatever the constants enumerate. The assumptions on them ask for numbers of the
right sign, known kinds, and head groups no larger than the scans' arrays (`MAX_KV_MUL`; the code
clamps, so a larger group would lose heads). What carries the proofs are theorems about a single
call, model or request. For `WorkIsShared` that is `RequestsShareTheWork`, taken over from an instance of
`WorkerPoolProofs`.

`AttentionVisitsRows`: let the rows of every token's window still be in the ring and the
scores be finite. The slots of a scan, followed by increments that wrap, are those of the
positions `lo .. pos` in order (`RingIs`: from either start they are `Ring`). `State` is the invariant of
every scan, a head's accumulator after `k` rows: its maximum is the largest score so far or the sink
(`Tops`), its terms are the rows so far in order, each with its score less that maximum (`Terms`,
`Scaled`), and so is its denominator. A row keeps it whether it is visited alone or in a group of four, and whether or not it raises the maximum.
That the recursive scans compute it goes from row to row by the least counterexample.
A tiled scan comes to a token's rows block by block; runs that follow one another add
up, so the state after the last block is that of one run. Then the units: a unit's writes are the heads
it owns, no head has two owners, and all have one (for tiles and batches, by uniqueness of quotient and
remainder), so the set of writes has the size it should.

`ProjectionsAreTheirMatrices`: an element is a function of its row, its vector and
whether the machine quantises vectors of this width (`Element`), and so does not depend on the
company it is computed in: a worker that owns tokens, one that owns rows and takes tokens in
groups of four with a remainder, a fused call, and a call per token all yield the set `Outputs`. Each
entry point answers with it, or with Metal's, or refuses (`AnswersOne`, `BatchOf`); matrices without
rows that pad a batch to three change nothing (`PaddedBatch`); each of the faults makes one of the checks
fail (`FaultsAreSeen`), and a call without a fault passes them all, unless it mixes K-quants where the caller
has its own way to do those.

`ModelsAgree`: every layer of a standard, Qwen3.5 or Nemotron-H model is a *mixer* (`Mixer`), which reads and
writes the cache at the layer's own rows and state, and what finishes the row with its result, which
touches no cache (`LayerIs`). Layers therefore do not disturb each other (`LayersKeepApart`), and a
batch, which takes all tokens through one layer before the next, ends where the tokens do that go one by one
through all layers (`BatchIs`, by induction on layers over the columns `Column` of the single steps).
Within a layer the tokens go through the mixer in order (`InTurn`); a batch that is stored before any
of it attends reads the same rows, since in a ring it does not go round no cell of an earlier position is
written again (`RowsStay`, `AttentionOfSlots`). `VerifiedIs` says so of drafts; `PromptIs` cuts a prompt into chunks
(`ChunksFollow`, with the last one shorter), each a batch or token by token, and `HiddenIs` compares the
path for embeddings. The other three architectures have no batch: for these the chunks, the
prefill without logits and the path for embeddings remain. Recursive functions are again compared
from the start (`SameFromStart`). Reasoning about the chunks showed that the precondition of the
invariant had been too weak for a shorter last chunk, which a batch of two may take round a ring of two that
the longer chunks do not fit; it now speaks of each chunk (`ChunkWraps`).

Only model-checked:

- liveness of the pool, the server and a connection, and that a decoded text ends (the other
  half of `ImplementsGreedy`): `ENABLED` and fairness are out of this prover's reach;
- four invariants of `algorithms`. `TextIsTokenized` has `RECURSIVE` operators, which these provers
  cannot handle (recursive *functions* they can). `KernelsMatchRows` and `SupportedFilesLoad`
  compare bit patterns and lists of tensors that are built by long case distinctions over given formats and
  architectures: what there is to say is finite, and the run says all of it, but for the number of
  rows and layers. `NucleusIsSampled` rests on sums over subsets of candidates.

## 5. Where code and documentation disagree

Each of these is a violation run; `findings` quotes the lines.

1. `simd.rs` 2030: a helper that starts between the first dispatch's store of its wake
   word and its own first read takes the new generation for the old, and the call spins for ever.
2. `runtime.rs` 5631: saved logits are used whenever the prompt is a prefix of the
   session, also when the session holds more.
3. `model.rs` 13210: the guard against wrap-around compares the batch with the ring but
   not with the window behind it, so rows are overwritten before they are attended to; the comment above
   `forward_prefill_batch` says stores and reads interleave per token.
4. `runtime.rs` 3884: the verifier ignores the repeat penalty.

Met on the way, without a run of their own.

Sessions and caches:

- `runtime.rs` 5606: the fallback for overlong prompts resets the state, not the
  storage, so a prompt longer than the storage still writes beyond it
  (`PanicOnlyBeyondCapacity` says that this is the only way to get there).
- `runtime.rs` 5496: only laguna is kept from the ring; gpt-oss and gemma4 interleave
  full attention too (an exception of `RingReuseInvisible`). With `Models = {"interleaved"}` in
  `MCRingBatched.cfg` TLC finds `RingKeepsAttendedRows` violated by one prompt longer than the window.
- `runtime.rs` 3927: "Attention-only caches can overwrite the rejected slot in place" is not
  true of a ring: the slots behind the first rejected one held rows of the window, and nothing
  writes these again. With a window of 3 for a target that is verified in a batch TLC finds
  `ModelsInSync` violated (in `MCSpeculativeDecode.cfg`, `Windows` with `{3}` for "batched").
- Saved logits have been through the sampler (repeat penalty, softmax) and are sampled
  again when the same prompt returns (`runtime.rs` 5758); `cached_tokens` holds a token
  without a row when a turn ends at the capacity (the next turn resets, so nothing comes of
  it); after a hit in the shared prefix cache the native draft head starts from a fresh
  buffer; `loaded_skill_paths` survives `Session::reset`.
- `SharedPrefixCache::insert` counts an f32 element of a row as one byte (`runtime.rs` 806-812),
  so the byte limit admits about four times what it says.
- The comments on `forward_verify_batch` (`model.rs` 13478, 13828) promise the normalized
  hidden row; it returns the row before the norm, which is what the draft head needs.
- Laguna, Nemotron, GPT-OSS and Gemma read the f32 rows directly: bf16 rows must stay
  disabled for them, as `kv_cache_wants_bf16` does (`runtime.rs` 5454).

Text and streams:

- The token that completes a stop sequence is never streamed, not even its text before
  the stop (`runtime.rs` 3440-3461), while the beginning of the stop sequence may already have
  been; with several stops in one window the first in the list wins, not the first in the
  text; the tail of the stitcher is flushed after a text that was cut.
- `README.md` 1409 says Anthropic streams end with `message_stop`; after an error they end
  with `error` and leave their block open, as the Responses stream leaves its item open.
- Empty stop sequences are not filtered out (`runtime.rs` 3444-3451): a list of only those is
  ignored, since the longest is 0; beside another one it is found at once
  and ends the text at its first token.
- Without declared tools, markup of calls is streamed as it is but stripped from the
  answer without streaming; the OpenAI stream then finishes with `stop`, the answer with `tool_calls`.
  Text after the calls is dropped. OpenAI's reason is `stop` also when the budget ended the text.
- Streaming routes skip the check of the content type. A header of one byte more than
  the limit is accepted. An interrupted read of the header is answered with 400.
- Errors while writing a delta are ignored, so a generation goes on after its client left,
  and is recorded; the chat history file is rewritten in place (`server.rs` 5815), so a crash
  during the write leaves a file that later appends fail on silently.

Tokens and sampling:

- `qwen35_whitespace_end` (`tokenizer.rs` 1510) takes a whole run of blanks; the pattern quoted at
  1061 (`\s+(?!\S)`) leaves the last blank to the word behind it. Indented text is cut
  differently (`BlanksBeforeText` in `TokenCases`); the Tekken splitter has the rule.
- The repeat penalty is applied once for every time a token occurs in the recent tokens. Its comment
  ("pushing them toward zero", `sampling.rs` 318) is right for positive logits only: negative ones
  move away from zero. Logits that are not finite are clamped there only when the penalty is not 1;
  the code after it clamps them in any case.
- Without a finite logit, greedy and top-k give token 0, the other ways the last token.

Kernels:

- The comment that only aarch64 consumes `xq` (`simd.rs` 1043, 576) is out of date: x86 does too.
  Since a missing batch of quantised activations implies a missing `xq`, the guard on the lane stride
  (1573) never applies. On wasm a batch of mixed K-quants is refused that other builds accept.
  The AVX2 kernels rely on activations never being -128, which the quantiser's 127 ensures.

The compatibility report (`runtime.rs` 1275: "Returns true when the model can be loaded by
the current runtime") against the loaders; `LayoutCases` has each as a named gap:

- accepted, but the loader panics: `ffn_gate` without `ffn_up`; `attn_q` beside `attn_qkv`
  without k and v; laguna's dense up/down, expert and bias tensors; any tensor of gpt-oss, which the
  report does not check at all; gemma's q/k norms, post norms and `layer_output_scale`, and its
  `attn_q`/`attn_k` when only the norm of that name is there (names are compared by substring);
  nemotron's convolution width 1 and head counts that do not divide; qwen35's
  feed-forward shapes and too many rows; a draft head of the wrong shape; row faults outside
  the fused tensors; tensors cut by the end of the file, for laguna, nemotron, qwen35 and
  vectors (the other loaders take a cut tensor short);
- refused, but it would load: an unsupported type of a tensor nobody reads, nomic-bert without
  `ffn_gate`, nemotron without a Mamba block, a short `attn_qkv` beside split projections.

## 6. Not modelled

- The sampler inside a turn: the turns' models let it choose any token; nothing they state
  depends on which. Greedy choice is a function of the tokens. `Sampler` is checked by itself.
- Byte fallback, accent stripping and decoding tables of the tokenizer, chat templates,
  skills, the catalogue: string algorithms over a vocabulary or files, sequential and
  without state that outlives a call.
- Embeddings: pooling and micro-batching are numeric; their lock is the generation lock of `ServerSessions`.
- GGUF cursor and memory mapping: a sequential read. On a file cut behind its magic number, or
  with an alignment of 0, it panics rather than return an error; what the loaders make of
  truncated tensors is in `ModelLayout`.
- Metal kernels and the decoder state they keep resident: external code on the GPU.
  `MatvecPaths` models which calls Metal may take.
- The chat-history file: a crash while it is rewritten is a matter of the file system.
- Element-wise vector loops, transcendental functions, rounding: TLA+ has no floating point.
- MCP, command line, benchmarks, web UI, wasm bindings, scripts: drivers over the
  same runtime.
- Reloading a model, and panics in a build that unwinds: the release profile aborts.

## 7. Plan

Done: worker pool, KV cache and session turns, stateless requests and the prefix
cache, speculative decoding, server and session store, a connection from first to last
byte, and the algorithms under "Algorithms" above; theorems for all safety properties of the
state machines. Next, in this order:

1. Theorems about the two algorithms left that do not go by `RECURSIVE` operators and are not finite: the
   sampler's nucleus for any vocabulary, and the kernels for rows of any number of blocks.
2. The slots of `HttpConnection` inside `ServerSessions`, with a client that leaves.
3. Further algorithms: the GGUF cursor with its integer widths, the normalisation of WordPiece.
