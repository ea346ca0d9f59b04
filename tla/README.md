# embroider in TLA+

embroider is a Rust library with Python bindings that downloads ONNX
checkpoints from a hub and runs them: text and vision embedding, reranking, and
three families of typed-decision models. This directory holds TLA+ models of
its logic, the TLC configurations that check them, and theorems about them that
TLAPS checks. Paths below are relative to the repository, `src/` being its
crate; `PROJECT.json` gives, for every definition, the lines it stands for.

## Inventory

| component | state it keeps | operations | what makes it correct |
|---|---|---|---|
| catalogue (`src/acquire.rs` 1-540, 664-784) | none; constant tables of builtin models and tasks | look up, validate an entry, choose the artifact of a tier | only entries the loaders can serve pass the validators |
| registry overlay (`src/acquire.rs` 597-1118) | two process-wide maps from id to entry, each behind an `RwLock` | `register_*`, `unregister_*`, `load_registry_file`, `export_registry` | one owner per id, no builtin shadowed, loads keep a prefix, stamps name the true origin |
| acquisition (`open` of the six loaders, `cache_info`) | the hub cache on disk | check the arguments, choose an artifact, fetch its files, build a session; report what is cached | one entry and one commit per session, main never goes back, "cached" means it opens |
| device and sessions (`src/probe.rs`, `src/providers.rs`, `src/policy.rs`) | the library ort loaded, the verdict of the probe | probe CUDA, resolve device and precision, register providers with a fallback | the weights follow the device, the device is decided once, the arena is as asked |
| configuration and reports (`src/diag.rs`, `src/lib.rs`) | two environment variables, the report saved | `configure_runtime`, `runtime_info`, `save_runtime_info` | what is configured first binds, what a report names is found |
| loaded models (every loader) | an ONNX session behind an `RwLock` | encode, score, decide, one run at a time | a caller gets the answers to its own rows; a panic or an error leaves the session usable or refused |
| reranker (`src/rerank.rs`) | a session, two tokenizers | `score_many`, `score_long` | no part of a long text goes unscored, rows fit the cap |
| GLiClass decider (`src/decide.rs`) | a session, a layout | `decide_many` | the options are never cut, their scores are theirs |
| Laya decider (`src/laya.rs`) | a session, marker ids, a binning map | `decide_many`, `predict_long`, `load_binning_map` | head, markers and state fit one row; the answer is read from the right slot |
| decider-2b (`src/decider2b.rs`) | a session, an embedding table, calibration | `decide_many` in padded batches | every row is in one batch, its output returns to its slot |
| vision preprocessing (`src/vision.rs`) | none | resize target, patches, positions, prompt | the target is accepted and of the size the model knows; each patch is at its place |
| text numerics (`src/jina.rs`) | none | pooling, Matryoshka truncation | numbers; the fixtures in `fixtures/` pin them |
| Python bindings (`src/lib.rs`, `src/error.rs`) | none | convert and forward | arguments are passed on as given, the GIL is let go of for a run |

How they interact. A loader's `open` reads the registry (catalogue first, then
overlay) up to six times, with no lock held between the reads, so another
thread's registration can fall between any two; it resolves the device twice,
with a download in between, before `configure_runtime` of another thread or
after. Between its downloads `main`, or the branch the caller named, may move on
the hub, and the network may go.
What the downloads leave in the cache outlives the process, and `cache_info`
describes it with rules of its own. A session, once built, is shared by
threads; every run takes its write lock. The scans of long texts (`score_long`,
`predict_long`) plan windows and put them through the batch calls.

Where it is hard: steps of two threads between the reads of an `open` or the
entries of a load; an entry refused half-way through a file; a file that could
not be fetched and shows only at session load, perhaps days later and offline;
a library that is loaded by whoever asks first, and stays; window and budget
arithmetic at its boundaries; flat lists of rows, slots and patches that are
taken apart again. `PROJECT.json` lists these hazards at the lines where they
bite.

## Modules

| module | what it models |
|---|---|
| `Catalog` | builtin entries, kinds and their file contracts, validators, choice of a tier; no variables |
| `Registry` | the overlay and the calls of any number of threads on it |
| `RegistryContract` | what the overlay promises: a book of rows |
| `Acquire` | `open` and `cache_info`, with the hub, the cache and the network; extends `Registry` |
| `Inventory` | what a report lists of onnxruntime and nvidia packages; no variables |
| `Runtime` | the ONNX Runtime of a process: configuration, probe, device, providers, reports; extends `Inventory` |
| `Windows` | `Reranker::score_long` and `LayaDecider::predict_long` |
| `Sessions` | threads that share one loaded model: GIL, borrow, batches, the write lock |
| `SessionContract` | what a loaded model promises those threads |
| `Vision` | an image from its size to its patches and prompt |
| `Rows` | the rows the three deciders build, and the decoding of their scores; no variables |
| `Deciders` | the life of one decider: opened from files, given maps, asked questions; extends `Rows` |
| `Inputs` | `Vision` and `Deciders` in one process, so that one run checks both |
| `RegistryProofs`, `AcquireProofs`, `RuntimeProofs`, `WindowsProofs`, `SessionsProofs`, `RowsProofs`, `InputsProofs` | theorems and lemmas about the module named |
| `BatchesProofs` | what a call of `Sessions` still has to run; on top of `SessionsProofs` |
| `MCRegistry`, `MCAcquire`, `MCRuntime`, `MCWindows`, `MCSessions`, `MCInputs` | the instances TLC checks |

**Catalog.** Ids, repositories, file names and revisions are opaque; an id is a
pair of owner and name because `parse_owner_name` is a check of its own, and a
file is a stem and an extension because the sidecar's name and the class of an
extra file derive from them. Every number the validators compare is the
source's. Prose fields (provenance, recommended partners) and the warnings are
left out.

**Registry.** `overlay[side]` is the map behind `TASK_OVERLAY` or
`MODEL_OVERLAY`, `call[t]` the program counter of thread `t` inside
`load_registry_file` or `export_registry`, `result[t]` what its last call
returned. Two histories serve the properties: `dropped`, the ids unregistered,
and `claimed`, what API callers brought in with the stamp of a file already in
`registered_from`. The front door keeps any text it finds there, so a caller may
leave any: `Presets` is a set of stamps of every kind.
One action is one critical section: a registration (validation and the builtin
check read only its arguments and constants, so they commute to the write lock),
a removal, one iteration of a load, each half of an export. Lock poisoning
is left out: nothing inside those sections panics.

**RegistryContract.** A book of rows: one owner per id and side, rows enter one
at a time and only if admissible, a row never changes, and it leaves only by
being struck out. `Registry!ImplementsContract` is the refinement; the mapping
forgets calls and results.

**Acquire.** `open[o]` is the call of opener `o`: its program counter (`gate`,
`artifact`, `fetch`, `load`, ...), what it read when it checked its arguments
(`spec`), the artifact it chose later (`art`), the files it still wants and has
got, and whether one was missing. A revision is a ref (`main` when none is named,
or a branch or tag of the caller's) or a commit; `head[r]` is how far the ref `r`
has moved on the hub, `ref[r]` the commit the local cache holds for it, `cache`
the files on disk. History: each file in `got` carries how far the call's ref had
moved when it was taken (`at`); a call that begins offline carries what
`cache_info` says of its arguments then (`cached`, `whole`) and whether it knew
the id or took it for a repository (`known`). The loaders share their
steps; what differs is in `Admits*` (the checks before any I/O), `Fetches*` (the
files, which of them required) and the extra looks `Decider::open` takes
(`GateSlots`, `GateCeiling`). `Push` and `Disconnect` are the environment. hf_hub
and ort are external: a download yields the file of the commit the revision
stands for at that moment, or the cached one when the hub is out of reach; a
session loads iff every file its graph refers to is beside it.

**Inventory.** An environment is the sequence of its site-packages directories
with their packages; a file is its rank in path order, its directory, its depth
and whether its name is looked for. The loop that visits packages and skips what
it has seen is the set of the places at which something is met first. The scans, the limit on DLLs per group, the
two ways duplicates are told apart and the directories a loader is told to
search are those of `diag.rs`; the file system itself is a constant.

**Runtime.** `ort` is the library loaded and `failed` whether loading has failed
once: ort loads from `ORT_DYLIB_PATH` at the first call that needs it and keeps
what it got. The probe (`cuda_available`) is such a call, catches its panic, and
its verdict stays in `PROBE`. `open[o]` goes through `Resolve` (device and
precision, before the downloads), `resolve_provider_names` (the device once more,
for the session) and `BuildSession` (the providers, tried in the order and with
the retry of `providers.rs`). ort is external: whether it takes a provider that
cannot run is left open, and a call after a failed one may fail again.

**Windows.** One behaviour is one call. `job` holds the token count of the text
and, for every question, the tokens a row spends on anything else. `Budget`
(rerank) or `Measure` and `Clamp` (Laya) settle the window and the stride,
`Slide` is one iteration of `plan_windows` or `plan_laya_spans`, `PlanTail` and
`PlanShort` are their two ways to end, `Answer` scores all windows with scores
TLC chooses and reads the answers back. Like the code, it takes it that decoding
a window and encoding it again yields the same tokens.

**Sessions.** `loader` says whose model it is; `call[t]` is thread `t`'s place
in its call with the call's locals: the items, the encoded `rows`, the `plan`
(which rows belong to which item), the `order` and `batches` they are packed
into, the outputs `outs` by row, and the answers so far. `gil` and `lock` are the
GIL and the session's write lock, `poisoned` the lock's flag, `map` a number for
the binning map installed. `Begin` and `Attach` need the GIL only at that
moment (`py.detach`), `Open` keeps it until `Opened`, `LoadMap` borrows the
object mutably and so is refused while a call is under way. The embedding
loaders run text by text and give the lock back in between; the others run once
(`Collate`), decider-2b in several batches under one guard (`Sort`, `Pack`). A row is
its length and its owner; what the session makes of it says which row it was
given. Any run may fail or panic.

**SessionContract.** Each call is answered once, from its own rows and under the
map installed, or raises; the map changes only while nobody waits; every call
comes back. `Sessions!ImplementsContract` is the refinement.

**Vision.** `image` is the size the caller holds, `asked` the target it was
told. The crate tells a target (`TargetSize`), the caller resizes (`Resize`,
outside the crate), and `EncodeImage` takes the image or refuses it. Roots are
computed in floating point, so a root that is a whole number may come out a hair
to either side: the target is then a set of two. `merge_order`, `PixelAt` and
`axis_taps` are the arithmetic of the source, in whole numbers; the source works
the order of the patches out once for the pixels, from the sides, and once for the
positions, from the grid, and so does the model (`PixelAt`, `vision_pos_ids`).

**Rows, Deciders.** A text is the sequence of kinds of its tokens (a word, the
mask, the label token, a number), and a token of a row remembers where it comes
from, which is what the properties ask of it. `OpenFiles` reads the
configuration of a checkpoint, `Decide` parses and validates all questions,
`BuildRows` encodes one, `Run` puts every row through a graph that favours
some options (`Peaks`), `Decode` reads the answers. How many tokens the words
before the instructions of Laya take is the tokenizer's affair: `HeadTokens`, at
least three (a type, "question", a colon). A score remembers the row temperature it
was divided by (`over`). Scores and temperatures are in hundredths; softmax and the sigmoid keep the order of the scores and are left
out.

## Runs

| run | question | distinct states |
|---|---|---|
| `registry` | do loads, registrations and exports of two threads keep the overlay's invariants and refine the contract? | 528,000 |
| `opens` | does an open get all it needs, from one commit and one entry, while branches move, the network goes and the registry changes? | 188,000 |
| `runtime` | do device, weights, library and arena fit together in whatever order a process configures, reports and opens? | 170,000 |
| `windows` | do the windows of every small text cover it, fit, move on, and is each answer read from its row? | 18,000 |
| `sessions` | do two threads on one model get their own answers under one map, and do all calls come back? | 185,000 |
| `inputs` | are images and questions laid out so that what comes back belongs to what went in? | 4,600 |
| `cached_slots`, `rerank_q8`, `shadow`, `own_ceiling`, `saved_report`, `own_target` | one statement of the docs or comments each, which the code does not keep | until violated |

*registry.* Two threads; two ids of the caller's, one builtin id on each side,
an entry the validator refuses; a file that loads, one that stops at its second
entry, one in a newer schema. Two threads are what a race on one id takes, and
two entries what a prefix and an index that restarts take. Callers leave
`registered_from` empty, or set it to the first place of the file that loads,
which is true of two of their entries at most and a forgery of the others
(`OneForged`: in one registration of a behaviour, since every further one only
adds to `claimed`). The threads are alike (symmetry); the state space is finite
and, up to that, searched completely.

*opens.* One opener, one call after another on one cache, in one of two worlds
(`OneWorld`), as nothing in the one touches the other. In `FilesWorld` seven
requests for the six loaders and `cache_info` meet the files of their builtins,
an id that follows the legacy layout and `main`, and a branch the caller names
(`dev`); `TwoSnapshots` bounds the cache to the files of two snapshots and
`OneMoves` the pushes to one branch: enough for one call to leave what the next
one finds, for a branch to move once under a call that follows it and under one
that does not, and for the network to go between any two downloads. In `EntriesWorld` a thread registers, unregisters and re-registers
five entries under the same id: rerank, decide, Laya, slots and a text model;
`OneCall` ends a behaviour when everything has been fetched and returned. Two
openers would add nothing but interleavings of cache insertions, which commute.
`rerank_q8` has its request for itself: `FetchedIsEnough` holds of all others the
run makes. `cached_slots` makes two, decider-2b at fp32 and at q8.

*runtime.* One opener and a process that configures, reports and saves. Four
values of `ORT_DYLIB_PATH`: a library with CUDA, one without, a file that is no
library, and no file; nothing is found without it. One environment, met under
two spellings, with an nvidia package that has more DLLs than are listed, too
deep ones and foreign ones. Two sessions are what `DecidedOnce` compares;
`MaxPath` directories are what two configurations put on `PATH`. `Short` ends a
behaviour at the saved report, and does not configure reports back once sessions
exist: neither is read by what follows. The theorems cover any number of openers,
libraries and requests.

*windows.* Every combination of text length 0..6, caller's window none or 0..5,
stride none or 0..4, and overhead 1..5, with a cap of 4 (rerank) and 5 (Laya);
four question lists, among them one with no question, one with heads in either
order and one that leaves no room; and five calls of the sizes the shipped
checkpoints see. Small numbers hit every boundary: window of one token, stride
equal to the window, text one token longer than it, a tail of every overlap. The
theorems below cover the rest.

*sessions.* Two threads, two calls each (`MaxCalls`; a call is a batch call, an
`open` or a `load_binning_map`), each loader in turn. The calls of decider-2b
are chosen around the budget: three rows of which two fit a batch, one past the
budget by itself, a batch filled exactly, and a question of two rows. The
fairness is weak fairness of each thread's steps: the operating system runs a thread
that can run. `RwLock` promises no order to those who wait; since calls are
bounded, a waiting thread finds the lock free in the end whatever the order, so
`ImplementsContract` says that nobody waits for a lock that is never given back,
not that the lock is fair.

*inputs.* Few states, each of them large. Images of all pairs of 24 sides: about
the halves of 32 where rounding changes direction, about the two pixel limits,
with roots that are whole numbers, and of aspects up to and past 200.
Checkpoints of the three families, good ones and one for each check that
refuses, with windows in which a question leaves plenty, little and no room;
calls of none, one and two questions, with texts that hold the mask, label and
number tokens, options that are cut, orders that are their own inverse and
orders that are not, a listed score of thirteen levels for twelve labels; row
temperatures of none, zero and nine hundred; maps good and bad.

The runs other than `sessions` are safety. What must happen there (a load, an
open, a scan comes to its end) happens because each step of a call moves it
strictly forward: `Advances` says so for the one loop whose end is not plain.

### What the violated runs show

- `cached_slots`: for the builtin decider-2b `cache_info` does not ask for
  `model.safetensors`, which `Decider2B::open` insists on at q8, although the
  comment at `src/acquire.rs:1364-1366` says it does. An open at q8 fetches the
  weights before tokenizer and configuration, so one interrupted open alone does
  not show it: an fp32 open (which does not ask for it) leaves
  tokenizer and configuration in the cache, a q8 open that stops at the weights
  leaves the graph; then everything that is asked for is there, and the offline
  open stops at the weights.
- `rerank_q8`: `Reranker::open` never fetches the sidecar the q8 tiers of both
  rerankers declare.
- `shadow`: a task entry under a builtin embedding id takes over `cache_info`.
- `own_ceiling`: without `max_length` a registered 512-token text model opens
  with a limit of 8192.
- `saved_report`: the report `save_runtime_info` writes has none of the installs
  and DLLs that `runtime_info` lists, because it passes no interpreter prefix.
- `own_target`: an image of 47 by 9400 pixels is told to be 32 by 9408, and
  refused for its aspect when it is; a side that rounds down can take a long
  image past 200 to 1 after the aspect was checked.

Each is stated as the doc or comment has it and quoted in `PROJECT.json`. The
passing runs state what does hold: `FetchedIsEnough` and `CachedIsEnough` of the
other calls, `ResizedOnce` of images whose target keeps the aspect.

Divergences seen while modelling that have no run:

- `Decider2B::open` looks at `max_length` after the last download
  (`src/decider2b.rs:764`), where `docs/quickref.md:297` has bad arguments
  refused "before any I/O"; `Fetched` models it.
- A stride past the effective window is said to fail loudly
  (`src/laya.rs:1149-1151`; `CHANGELOG.md:163-164`, "refused loudly"); one that fits
  the window asked for, but not the narrowed one, is replaced by half of the
  latter with a warning (`src/laya.rs:1216-1225`). `Clamp` does what the code does,
  and `ConsistentStride` says exactly when it refuses.
- `src/decider2b.rs:452-454` has the calibration temperature of a score at 1.0,
  "because `T_row` is already inside `z`"; no check makes it so, and a score of
  isolated levels is divided by both (`TemperatureAccounted`).
- `auto` on CUDA picks the fp16 tier of a registered model too
  (`src/policy.rs:181`), where `CHANGELOG.md:63` speaks of builtins.
- `register_*` stamps `registered_from` only when it is empty
  (`src/acquire.rs:799`), where 633-635 says always.
- A text model whose sidecar never came down is called cached
  (`README.md:449-450` says `cached=True` opens offline): the assumption `whole`
  of `CachedIsEnough`.
- An unregistration between the looks of a Laya open makes it fetch the legacy
  layout, and a registration between those of a Decider open passes both its
  layout refusals: the assumption `Undisturbed` of `OneEntryPerOpen`.
- `EMBROIDER_REGISTRY_FILE` is documented (`src/acquire.rs:1052`) and read
  nowhere.
- The bindings take an `option_order` that is no list of indices for none
  (`src/lib.rs:542`); `parse` models it.
- A listed score of decider-2b with more levels than label tokens is not refused
  when the checkpoint is opened and fails at the call (`FailsForRoom`).
- `docs/quickref.md:212-213` says options are never cut to fit the state, which
  holds of GLiClass and the slots; Laya cuts them to as few as three tokens and
  a marker (`QuestionWhole`).
- A session whose CUDA provider fails after the probe said yes reports CUDA and
  runs on the CPU (`src/policy.rs:223`): ort registers providers on a best-effort
  basis, and no property claims more than `HonestCuda` does.

## Proofs

`RegistryProofs` (any number of threads, any entries, any files, any
interleaving). Every step changes the overlay in one of three ways
(`OverlayStep`): not at all, by one admissible row for an id nobody owned, or by
losing the rows of one id. From that lemma and the type invariant follow
`OverlayAdmissible`, `OverlayAttribution` (a stamp `path#index` is true, or the
caller who registered the row had left it there: `claimed`),
`LoadPrefix` (a prefix of the file, or somebody unregistered it since) and
`ExportSound` (which needs in addition that ids are unique in the overlay), and
`RegistryImplements`: the initial state maps to the empty book and each of the
three cases to `Enter`, `Strike` or a stutter. Assumed: `ContentAssumption`,
that files list entries, `EntriesAssumption`, that there are entries for two
sides, and `PresetsAssumption`, that what a caller leaves in `registered_from` is
nothing, the mark of the API, the stamp of a place in a file, or some other text.

`AcquireProofs` (any registry, any hub, any requests, any number of openers, on
top of `RegistryProofs`). Six theorems, from five inductive invariants. A
session is ready long after its files were fetched and its entry was read, so
each invariant says what is true of a call at every step in between:

- `Pinned`: past the choice of the artifact the revision is the caller's or the
  tier's, and a revision that is no ref is the commit of every file taken by it;
  together with `World`, that the cache holds nothing the hub had not published.
  `AcquireTypes` follows.
- `Standing`: as long as the id a call reads is not unregistered, the registry
  answers with the entry the call read first, the artifact is a tier of it, and
  the layout is its. It is inductive only because a row stays the owner of its
  id (`OwnerStays`, from `OverlayStep`), so an id resolves alike
  (`ResolvesAlike`). `OneEntryHolds` follows.
- `Behind`: the files of a call that follows a ref are of commits the ref has
  been at when they were taken (`Stamped`), none later than the one the cache holds
  for it, which is itself one it has been at (`RefReached`). Online a download is of
  the latest commit, offline of the one the cache holds; either is no earlier.
  `MainMovesForwardHolds` follows, because a ref never returns to a commit. A file
  taken offline while the ref stands where it stood for an earlier file of the
  same call is of that file's commit, because the cache has held it since; so
  `OneSnapshotHolds` follows too, with `Pinned` for calls at a commit.
- `Gathered`: what a call has fetched is on its list and in the cache under its
  own commit, until something is missed the rest of the list is still to come,
  and a call that ended broken had missed something, or files of two commits, or
  a list that is not complete. With `Behind`, `FetchedHolds` follows: an open
  without a miss, under which nobody pushed to its ref, does not end broken,
  *provided* its list names whatever its files refer to (`ListsComplete`). That
  condition is about the files on the hub and not about the program: the rerankers
  at q8 do not meet it (`rerank_q8`), the other calls of `opens` do.
- `Serves`: what `cache_info` said before an offline call began (`ReportsCached`,
  `ReportsWhole`) stands as long as the id is not unregistered (an id `cache_info`
  took for a repository: not registered) and the other side
  of the registry does not answer for it; the call works with the artifact it was
  said of, takes its files from the commit it was said of, and gives up only over
  a file that is not there. Its reasons are that an offline download leaves cache
  and refs as they are (`OfflineStill`) and that an id goes on resolving to what it
  resolved to (`ResolvesAlike`). `CachedHolds` follows: cached opens,
  *provided* the caller means what `cache_info` meant (`AllMeant`). The four parts
  of that condition are what the word "cached" leaves out: an id that both sides
  of the registry answer for is reported on the task side; a vision loader insists
  on a sidecar and the builtin decider-2b at q8 on its weights, which `cache_info`
  does not require and has to find as something the graph refers to; and it
  knows nothing of what other files refer to. That the remaining files of each
  loader's list are required is proved: those of the kind from the catalogue
  (`KindFiles`), the weights of a registered decider-2b from its validation
  (`WeightsListed`, on `OnlyAdmissible`).

All five were checked by TLC on the instance of `opens`, `ListsComplete` and
`AllMeant` with them: they hold in all states of its two worlds, and a text, a
vision, a Laya, a decider-2b and a legacy call that `cache_info` vouched for open
offline in it. That is the requests of the run, not every tier that ships. What the
theorem covers and the run does not meet: a legacy id that is registered between the
word of `cache_info` and the open.

Assumed: `HeadsAssumption` (a ref has a first commit and never comes back to one it
has left: a branch that is reset to an old commit is outside),
`PublishedAssumption` (what the hub holds is of one of its repositories and a
commit), `LoadersAssumption` (the callers are the six loaders and `cache_info`) and
the assumptions of `Registry`.

`RuntimeProofs` (any libraries, directories, requests and openers). The
invariant ties the verdict of the probe to the library: a verdict "CUDA" is about
the library that is loaded, and that library has it; a library, once loaded,
stays. `cuda_available` and the construction of a session are the only steps
that load, and `TouchSound` and `ProbeStep` say what they leave. With it a
request resolves to the same device at both looks of an open and in every open
after (`DecidedOnceHolds`), `HonestCudaHolds`, `ArenaHolds` (by the cases of
`try_providers`), `FirstBinds` and `TypeCorrect` follow. `ExposedFound` has an
invariant of its own (`Exposure`): every report in a caller's hands lists the
directory of each DLL it names (`ReportListed`, from the definitions of
`Inventory`), and what was configured back is on `PATH`. A configuration prepends
its directories one by one, each after removing it; `PrependedKeeps` shows that
all of them and all that was on `PATH` are on it in the end, by induction over
the list, and `FilesFinite` that the set of directories can be listed at all.
Assumed: `LibrariesAssumption` (what loads is a file or what ort finds by itself,
and CUDA is a property of libraries that load), `RequestsAssumption`,
`VenvAssumption` (an environment is a finite sequence of finite packages) and
`ListsAssumption` (callers give their directories in sequences).

`WindowsProofs` (texts of any length, any window, stride and questions). None of
the properties is inductive alone. The inductive invariant `IInv` adds
`Measured` (the room is that of the tightest question so far), `Fitting` (the
window settled on leaves every question its room, and the stride is in
1..window), `Behind` (while sliding, the windows behind are whole, end before the
text does, and leave nothing out before the next start) and `Ahead` (once
planned, no window is wider than the one settled on). `Coverage`,
`RowsAlwaysFit`, `Progress` and `TypeCorrect` are consequences, and
`StrideFollows` needs only the types. On the way `PlanTailInv` shows that the
branch of `plan_windows` that skips the tail (line 126) is never taken: the
loop's last window always ends before the text does. `BestAnswers` is about the
last step only, in a state where a plan is not empty (`SomeWindow`): the k-th
place of the one flattened batch is the window `(k - 1) \div nq` and the question
`(k - 1) % nq` (`Flat`, `RowOf`), so what is read for a question are its own rows
(`Selected`). That a list of scores has a greatest, and a first among its
greatest, are inductions on its length; the prover has no induction to
instantiate, so they are done as the search for a least counterexample
(`LeastNat`, from the well-foundedness of the naturals). Assumed:
`JobsAssumption`, that options hold at most one number and a rerank has one
query, and `ScoresAssumption`, that scores are comparable.

`SessionsProofs` (any number of threads, any calls, any number of calls each).
`OwnAnswers` speaks of a call that is over, so its reason lies in every step
before. The inductive invariant `IInv` says, of each thread's call: `Planned`
(the plan of an item names the rows that were made for it, in its order),
`OwnOutputs` (a row has its own output or none), `NoneLost` (a row without an
output is in a batch, or in the order that is still to be packed), `Complete`
(nothing is decoded before every item is encoded and every row run) and
`Answering` (the answers so far are right under the map of now; an idle thread
has none, which is why a new map spoils nobody's answers: `OneMap`); and of the
lock, `Owned` (it belongs to the thread inside the session). `OneMoves` reduces
a step to the call that moves; then there is one lemma per step, of which
`PackSound` (no row is dropped between two batches) and `RunSound` (an output
goes to its row) carry the argument. `OwnAnswersHold`, `OneMapHolds`,
`PoisonHolds` and `TypeCorrect` follow, and `SessionsImplement`: the borrow is
the contract's request, the outcome its answer, everything between a stutter.
Assumed: `CallsAssumption` (what can be asked of each loader),
`MaxCallsAssumption`, and `NobodyAssumption`, that the value for a free lock is
no thread.

`BatchesProofs` (as `SessionsProofs`, whose `IInv` it builds on). `NoneLost` says
that a row without an output is in some batch; that it is in one only, once,
needs more of every step between the encoding and the end of the runs: `Apart`
(no two places of the batches hold the same row), `Runnable` (what is in a batch
has no output and is no wider than the batch), `InBudget`, and, while batches are
still being packed, `Waiting` (the order holds no row twice and none that is in a
batch, by length). `PackBatching` shows that cutting a batch off the front keeps
all four: the last row cut is the longest, so its width covers the others.
`RunBatching` shows that an output goes to rows no other batch holds.
`BatchesHold` follows.

`RowsProofs` (texts, options and windows of any size; no state). What each of
the three row builders returns, stated of the row as a whole: where the masks
and label tokens of a GLiClass row come from, that a Laya row keeps its head and
its floors and uses its window to the last token, that every option of a slots row is
there with its label; and when a row is refused (`GliclassFails`, `SlotsFails`),
which is for want of room or of labels only. The definitions concatenate and add up sequences of any length. The prover cannot instantiate the
library's induction, whose parameter is an operator; the induction is done
over the set of the lengths at which the fact holds (`SetInduction`), whose least
missing member gives the contradiction (`LeastOne`). Assumed: `HeadTokensAssumption`,
that the words before Laya's instructions take at least three tokens; how many they
take is left open, and the floor under the instructions is what they leave of eight.

`InputsProofs` (any images, checkpoints, maps and calls). `InputsSpec` is two
machines side by side; each half of a behaviour is a behaviour of its own
(`InputsDecides`, `InputsSees`), and the properties are proved of the halves.

- `DecidersInv` (`DecidersHold`): a decider that is open came out of its files with
  temperatures that are the checkpoint's, clamped; the rows of a call are
  those its questions are built into, and the plan of a question names exactly its
  own; the scores are the graph's over those rows; the answers are what is decoded
  of these, with the map installed when they were decoded. The eight properties of
  `Deciders` then follow from what `RowsProofs` says of the rows: `MasksAreMarkers`,
  `WindowIsUsed`, `QuestionIsWhole`, `LogitsAreOwn` (an order of the options and
  its inverse cancel: `UnpermuteIs`), `AnswersAreAlone`,
  `ConfidencesAreInRange`, `TemperaturesAreAccounted`, `FailureIsForRoom`.
- `VisionInv` (`ImagesHold`): what was told is a size the model takes and, from the
  resize on, the image's; what was embedded was its own target, and what was sent
  back was not. `SizesSettle` needs the arithmetic of the target: a side that is
  rounded to 32 once is not moved by rounding again, and a target within both
  pixel limits takes neither of the branches with a root. Where one is taken, the
  floored or ceiled root times its like stays on the right side of the limit.
  `PatchesArePlaced` inverts `merge_order` by division with remainder: no two
  patches share a place, none lies outside the grid, none of the grid is left out,
  and four in a row are one block; dividing the byte `PixelAt` names by the width
  gives the place back.
- `InputsKeepTypes` puts both halves' types together.

Both invariants were checked by TLC on the instance of `inputs` first. Assumed:
`CallsAssumption` and `ShapesAssumption` (calls, checkpoints and maps have the types
the source gives them, and a checkpoint has at most one limit and one row temperature) and
`ImagesAssumption` (the sides of an image are naturals, up to some `MaxSide`), and
`HeadTokensAssumption` as above.

Checked by TLC only: the liveness of `Sessions` (fairness is beyond the prover),
and that the requests of `opens` (fp32 text, vision, Laya and decider-2b at q8 among
the builtins) meet `ListsComplete` and `AllMeant`, the conditions of `FetchedHolds`
and `CachedHolds`, which are a matter of the files on the hub and not of the program;
the other tiers that ship were not looked at, the rerankers at q8 aside. Every other property of a passing run is a theorem.

## Not modelled

- Numbers: logits, pooling, normalisation, interpolated pixels. TLC has no
  floating point, and the repository's fixtures pin them. A NaN from a graph,
  at which `src/laya.rs:662` panics, is therefore outside too; what a panic does
  to the session is in `Sessions`.
- Tokenizers and the hub client beyond what `open` observes of them: a text is
  the tokens it becomes.
- `cache_info_files` called by itself; `truncate_dim`, a check of one argument;
  thread counts and optimisation levels of a session.
- The act head and the entropy confidence of Laya, which no other result uses;
  `min_options`, which decider-2b loads and does not read.
- `sibling_provider_dlls`, which only decorates a report.
- The conversions of the Python bindings that change nothing but the type, the
  export tools, tests and pages.

## What could come next

1. A contract of `open` (what a session may be made of) that `Acquire` refines, as
   `Registry` and `Sessions` refine theirs.
2. The life of the cache beyond one process: blobs, locks and interrupted
   downloads of hf_hub, which are external today.
