------------------------------ MODULE Acquire -------------------------------
(***************************************************************************)
(* open(): from a model id to a session.  The six loaders (JinaV5,         *)
(* JinaV5Vision, Reranker, Decider, LayaDecider, Decider2B) and cache_info *)
(* share one course: read the registry, check the arguments, read the      *)
(* registry again for the artifact, fetch its files one by one, build the  *)
(* session.  The registry may change between any two of those reads, the   *)
(* hub between any two downloads, and the network may go away.             *)
(*                                                                         *)
(* A loader is named "text", "vision", "rerank", "decide", "laya" or "2b"; *)
(* "info" is cache_info, which looks files up instead of fetching them.    *)
(* The device has been probed by then: a request says whether its session  *)
(* will land on CUDA.                                                      *)
(***************************************************************************)
EXTENDS Registry

CONSTANTS
  Openers,        \* threads inside an open() or a cache_info()
  Requests,       \* the calls they make
  Heads,          \* Heads[<<repo, ref>>]: the commits the ref goes through
  Published,      \* the <<repo, commit, file>> triples the hub holds
  Companions      \* <<repo, file, other>>: file is useless without other

NoCommit == "no commit"

\* A ref is a branch or a tag of a repository; main is the ref of a call that
\* names none.  Any other revision is a commit.
Refs == DOMAIN Heads
Repos == {r[1] : r \in Refs}

\* A ref has a first commit, and never comes back to one it has left.
ASSUME HeadsAssumption ==
  \A r \in Refs :
    /\ Heads[r] \in Seq({Heads[r][i] : i \in DOMAIN Heads[r]}) /\ Heads[r] # << >>
    /\ \A i \in DOMAIN Heads[r] : Heads[r][i] # NoCommit
    /\ \A i, j \in DOMAIN Heads[r] : Heads[r][i] = Heads[r][j] => i = j

\* What the hub holds, it holds under a commit of a repository of its own.
ASSUME PublishedAssumption ==
  \A p \in Published : p[1] \in Repos /\ p[2] \notin {NoCommit, NoRevision}

\* The callers are the six loaders and cache_info.
ASSUME LoadersAssumption ==
  \A q \in Requests : q.loader \in {"text", "vision", "rerank", "decide", "laya", "2b", "info"}

VARIABLES
  online,         \* is the hub reachable?
  head,           \* head[r]: how far the ref r has moved
  ref,            \* ref[r]: the commit r stands for in the local cache
  cache,          \* the <<repo, commit, file>> triples in the local cache
  open            \* open[o]: the call of opener o

fileVars == <<online, head, ref, cache>>
acquireVars == <<fileVars, open>>
allVars == <<vars, acquireVars>>

NoSpec == [kind |-> "none", prompt_first |-> FALSE]
NoArtifact == [repo |-> << >>]

\* max_length is an Option<usize>: a set with at most one member.
NoLimit == {}

\* The constants of jina.rs, rerank.rs, decide.rs and acquire.rs.
MAX_LENGTH == 8192
MODEL_MAX_TOKENS == 32768
RERANK_DEFAULT_MAX == 512
DECIDE_DEFAULT_MAX == 512
LAYA_ABSOLUTE_MAX == 1024

-----------------------------------------------------------------------------
(* Reading the registry                                                    *)

Resolved(side, e, extra, source, measured) ==
  [kind |-> IF side = "task" THEN e.kind ELSE "embed",
   prompt_first |-> side = "task" /\ e.prompt_first,
   max_tokens |-> e.max_tokens, tiers |-> e.tiers, extra_files |-> extra,
   source |-> source, measured |-> measured]

\* resolve_task and resolve_model: builtins first, then the overlay.
resolve(side, id) ==
  IF id \in builtin_ids(side)
    THEN IF side = "task"
           THEN LET b == lookup_task(id)
                IN Resolved(side, b, kind_extra_files(b.kind), "builtin", TRUE)
           ELSE Resolved(side, lookup_model(id), {}, "builtin", TRUE)
    ELSE IF id \in OwnedIds(overlay[side])
           THEN LET e == (CHOOSE r \in overlay[side] : r.entry.id = id).entry
                IN Resolved(side, e,
                     IF side = "task" THEN kind_extra_files(e.kind) \cup e.extra_files
                                      ELSE {},
                     "registered", e.measured)
           ELSE NoSpec

\* artifact_for_task and artifact_for resolve the id once more.
artifact_for(side, id, precision) ==
  LET s == resolve(side, id)
  IN IF s = NoSpec THEN LegacyArtifact(id) ELSE Tier(s, precision)

side_of(loader) == IF loader \in {"text", "vision"} THEN "model" ELSE "task"

\* Precision::resolve.
resolve_precision(precision, cuda) ==
  IF precision # "auto" THEN precision ELSE IF cuda THEN "fp16" ELSE "fp32"

-----------------------------------------------------------------------------
(* Arguments                                                               *)

ceiling(loader, s) ==
  CASE loader = "text"   -> IF s = NoSpec THEN MODEL_MAX_TOKENS ELSE s.max_tokens
    [] loader = "rerank" -> IF s = NoSpec THEN RERANK_DEFAULT_MAX ELSE s.max_tokens
    [] loader = "decide" -> IF s = NoSpec THEN DECIDE_DEFAULT_MAX ELSE s.max_tokens
    [] loader = "laya"   -> IF s.max_tokens < LAYA_ABSOLUTE_MAX
                              THEN s.max_tokens ELSE LAYA_ABSOLUTE_MAX
    [] OTHER             -> s.max_tokens

\* check_max_length_for, check_pair_limit_for, check_decide_limit_for,
\* check_laya_limit_for, check_decider2b_limit_for.
LimitFits(loader, m, s) == m \subseteq 1..ceiling(loader, s)
effective_limit(loader, m, s) ==
  IF m # NoLimit THEN CHOOSE n \in m : TRUE
  ELSE IF loader = "text" THEN MAX_LENGTH ELSE ceiling(loader, s)

\* What each open decides about its arguments at its first look at the
\* registry.  Decider2B does not look at max_length here; the dimensions of an
\* embedding are taken to be right.
AdmitsText(q, s) == LimitFits("text", q.max_length, s)
AdmitsVision(q, s) == q.precision = "fp16" => q.cuda
AdmitsRerank(q, s) == LimitFits("rerank", q.max_length, s)
AdmitsDecide(q, s) == s.kind # "decide-laya"
AdmitsLaya(q, s) == s.kind = "decide-laya" /\ LimitFits("laya", q.max_length, s)
Admits2B(q, s) == s.kind = "decide-2b"
AdmitsInfo(q, s) == q.precision # "auto"

Admits(q, s) ==
  CASE q.loader = "text"   -> AdmitsText(q, s)
    [] q.loader = "vision" -> AdmitsVision(q, s)
    [] q.loader = "rerank" -> AdmitsRerank(q, s)
    [] q.loader = "decide" -> AdmitsDecide(q, s)
    [] q.loader = "laya"   -> AdmitsLaya(q, s)
    [] q.loader = "2b"     -> Admits2B(q, s)
    [] q.loader = "info"   -> AdmitsInfo(q, s)

-----------------------------------------------------------------------------
(* Files                                                                   *)

Must(f) == <<[file |-> f, must |-> TRUE]>>

\* Mutant of May: what can be done without is never tried.
May_never(f) == << >>

May(f) == IF f = NoFile THEN << >> ELSE <<[file |-> f, must |-> FALSE]>>

TokenizerConfig == Json("tokenizer_config")
weights(s) ==
  IF s.source = "builtin" THEN <<"model", ".safetensors">>
  ELSE CHOOSE f \in s.extra_files : IsWeights(f)

\* The downloads of each open, in order; a file that is not a "must" is
\* tried and done without.
FetchesText(a) == Must(a.file) \o May(sidecar(a)) \o Must(TokenizerJson)
FetchesVision(a) == Must(a.file) \o Must(sidecar(a)) \o Must(TokenizerJson)
FetchesRerank(a) == Must(a.file) \o Must(TokenizerJson)
FetchesDecide(a) == Must(a.file) \o Must(TokenizerJson)
FetchesLaya(a) ==
  Must(a.file) \o May(sidecar(a)) \o Must(TokenizerJson)
    \o May(TokenizerConfig) \o Must(Json("rl_agent_config"))
Fetches2B(a, s, precision) ==
  Must(a.file) \o May(sidecar(a))
    \o (IF precision = "q8" THEN Must(weights(s)) ELSE << >>)
    \o Must(TokenizerJson) \o Must(Json("decision")) \o Must(Json("calibration"))

Fetches(loader, a, s, precision) ==
  CASE loader = "text"   -> FetchesText(a)
    [] loader = "vision" -> FetchesVision(a)
    [] loader = "rerank" -> FetchesRerank(a)
    [] loader = "decide" -> FetchesDecide(a)
    [] loader = "laya"   -> FetchesLaya(a)
    [] loader = "2b"     -> Fetches2B(a, s, precision)
    [] loader = "info"   -> << >>

\* Mutant of required_files: the files of the kind are forgotten.
required_files_common(a, s, precision) == {a.file, TokenizerJson}

\* What cache_info requires; it lists the sidecar and never insists on it.
required_files(a, s, precision) ==
  {a.file, TokenizerJson} \cup
  (IF s.kind \in {"decide-laya", "decide-2b"}
     THEN {f \in s.extra_files : IsWeights(f) => precision = "q8"} ELSE {})

\* Mutant of revision_of: the pin of the tier is forgotten.
revision_of_caller(q, a) == q.revision

\* The caller's revision wins, then the pin of the tier.
revision_of(q, a) == IF q.revision # NoRevision THEN q.revision ELSE a.revision

\* A ref stands for another commit when somebody pushes; a commit for itself.
LocalCommit(repo, rev) ==
  IF <<repo, rev>> \in Refs THEN ref[<<repo, rev>>] ELSE rev
HubCommit(repo, rev) ==
  IF <<repo, rev>> \in Refs THEN Heads[<<repo, rev>>][head[<<repo, rev>>]] ELSE rev

\* local_files_only: refs, then snapshots/<commit>/<file>.
Local(repo, rev, f) == <<repo, LocalCommit(repo, rev), f>> \in cache

OnHub(repo, rev, f) ==
  repo \in Repos /\ <<repo, HubCommit(repo, rev), f>> \in Published

\* Mutant of Available: whatever comes back is taken for the file.
Available_always(repo, rev, f) == repo \in Repos

\* Is the file where a download would look for it now?
Available(repo, rev, f) == IF online THEN OnHub(repo, rev, f) ELSE Local(repo, rev, f)

\* Everything <<repo, f>> at a commit needs beside it is there.
Whole(repo, commit, f) ==
  \A c \in Companions : c[1] = repo /\ c[2] = f => <<repo, commit, c[3]>> \in cache

-----------------------------------------------------------------------------
(* The state of a call                                                     *)

\* "cached", "whole" and "known" are history: what cache_info said of these
\* arguments when the call began, if the machine was offline, whether the files
\* it vouched for had everything beside them, and whether it knew the id.
Fresh(q) ==
  [req |-> q, pc |-> "gate", spec |-> NoSpec, prec |-> q.precision,
   art |-> NoArtifact, rev |-> NoRevision, limit |-> 0, todo |-> << >>,
   got |-> {}, missed |-> FALSE, layout |-> FALSE, cached |-> FALSE,
   whole |-> FALSE, known |-> FALSE]

Finished == {"refused", "missing", "broken", "ready", "reported"}

NoRequest ==
  [loader |-> "none", id |-> << >>, precision |-> "auto",
   revision |-> NoRevision, max_length |-> NoLimit, cuda |-> FALSE]
Closed == [Fresh(NoRequest) EXCEPT !.pc = "idle"]

\* The verdict of cache_info on an artifact: every required file is cached.
CacheVerdict(q, a, s) ==
  \A f \in required_files(a, s, q.precision) : Local(a.repo, revision_of(q, a), f)

\* cache_info as a caller would see it now; an id of neither side is a
\* repository of its own.
cache_info_side(id) == IF resolve("task", id) # NoSpec THEN "task" ELSE "model"
ReportsCached(q) ==
  LET side == cache_info_side(q.id)
      a == artifact_for(side, q.id, q.precision)
  IN /\ q.precision # "auto"
     /\ resolve(side, q.id) = NoSpec => parse_owner_name(a.repo)
     /\ CacheVerdict(q, a, resolve("task", q.id))
ReportsWhole(q) ==
  LET a == artifact_for(cache_info_side(q.id), q.id, q.precision)
  IN \A f \in {a.file, TokenizerJson} :
       Whole(a.repo, LocalCommit(a.repo, revision_of(q, a)), f)

Updates(o, fields) ==
  open' = [open EXCEPT ![o] =
             [f \in DOMAIN @ |-> IF f \in DOMAIN fields THEN fields[f] ELSE @[f]]]

-----------------------------------------------------------------------------
(* Steps of a call                                                         *)

Begun(q) ==
  LET told == q.loader # "info" /\ ~online /\ ReportsCached(q)
  IN [Fresh(q) EXCEPT
        !.cached = told, !.whole = told /\ ReportsWhole(q),
        !.known = told /\ resolve(cache_info_side(q.id), q.id) # NoSpec]

Begin(o) ==
  /\ open[o].pc \in Finished \cup {"idle"}
  /\ \E q \in Requests : open' = [open EXCEPT ![o] = Begun(q)]
  /\ UNCHANGED fileVars

\* The first look at the registry, and the arguments it decides about.
Gate(o) ==
  /\ open[o].pc = "gate"
  /\ LET q == open[o].req
         s == resolve(side_of(q.loader), q.id)
     IN IF ~Admits(q, s)
          THEN Updates(o, [pc |-> "refused"])
          ELSE IF q.loader = "decide"
                 THEN Updates(o, [pc |-> "gate2"])
                 ELSE Updates(o, [pc |-> "artifact", spec |-> s,
                        limit |-> IF q.loader \in {"text", "rerank", "laya"}
                                    THEN effective_limit(q.loader, q.max_length, s)
                                    ELSE 0])
  /\ UNCHANGED fileVars

\* Decider::open looks twice more: for the slot layout, then for the ceiling.
GateSlots(o) ==
  /\ open[o].pc = "gate2"
  /\ Updates(o, [pc |-> IF resolve("task", open[o].req.id).kind = "decide-2b"
                          THEN "refused" ELSE "gate3"])
  /\ UNCHANGED fileVars

GateCeiling(o) ==
  /\ open[o].pc = "gate3"
  /\ LET q == open[o].req
         s == resolve("task", q.id)
     IN IF LimitFits("decide", q.max_length, s)
          THEN Updates(o, [pc |-> "artifact", spec |-> s,
                           limit |-> effective_limit("decide", q.max_length, s)])
          ELSE Updates(o, [pc |-> "refused"])
  /\ UNCHANGED fileVars

\* The precision follows the device, the artifact the precision; its
\* repository must be owner/name.  Vision refuses fp16 weights on a CPU.
ChooseArtifact(o) ==
  /\ open[o].pc = "artifact"
  /\ LET q == open[o].req
         prec == resolve_precision(q.precision, q.cuda)
         side == IF q.loader = "info"
                   THEN IF open[o].spec # NoSpec THEN "task" ELSE "model"
                   ELSE side_of(q.loader)
         a == artifact_for(side, q.id, prec)
     IN IF parse_owner_name(a.repo)
          THEN Updates(o, [pc |-> IF q.loader = "info" THEN "lookup" ELSE "fetch",
                           prec |-> prec, art |-> a, rev |-> revision_of(q, a),
                           todo |-> Fetches(q.loader, a, open[o].spec, prec)])
          ELSE Updates(o, [pc |-> "refused"])
  /\ UNCHANGED fileVars

\* History: how far the ref the call or its tier names has moved; 0 for a commit.
AskedFor(q, a) == IF q.revision = NoRevision THEN a.revision ELSE q.revision
Turn(repo, rev) == IF <<repo, rev>> \in Refs THEN head[<<repo, rev>>] ELSE 0

\* Mutant of FetchFile: the cache keeps the first commit it saw a ref at.
FetchFile_staleRef(o) ==
  /\ open[o].pc = "fetch" /\ open[o].todo # << >>
  /\ LET f == Head(open[o].todo).file
         repo == open[o].art.repo
         rev == open[o].rev
         commit == IF online THEN HubCommit(repo, rev) ELSE LocalCommit(repo, rev)
     IN /\ Available(repo, rev, f)
        /\ cache' = cache \cup {<<repo, commit, f>>}
        /\ ref' = IF <<repo, rev>> \in Refs /\ ref[<<repo, rev>>] = NoCommit
                    THEN [ref EXCEPT ![<<repo, rev>>] = commit] ELSE ref
        /\ Updates(o, [todo |-> Tail(open[o].todo),
             got |-> open[o].got \cup
               {[file |-> f, commit |-> commit,
                 at |-> Turn(repo, AskedFor(open[o].req, open[o].art))]}])
  /\ UNCHANGED <<online, head>>

\* Download one file: from the hub, or from the cache when there is no hub.
FetchFile(o) ==
  /\ open[o].pc = "fetch" /\ open[o].todo # << >>
  /\ LET f == Head(open[o].todo).file
         repo == open[o].art.repo
         rev == open[o].rev
         commit == IF online THEN HubCommit(repo, rev) ELSE LocalCommit(repo, rev)
     IN /\ Available(repo, rev, f)
        /\ cache' = cache \cup {<<repo, commit, f>>}
        /\ ref' = IF <<repo, rev>> \in Refs
                    THEN [ref EXCEPT ![<<repo, rev>>] = commit] ELSE ref
        /\ Updates(o, [todo |-> Tail(open[o].todo),
             got |-> open[o].got \cup
               {[file |-> f, commit |-> commit,
                 at |-> Turn(repo, AskedFor(open[o].req, open[o].art))]}])
  /\ UNCHANGED <<online, head>>

\* A download fails: nothing there, or the network let it down.  What is
\* already cached of a commit needs no network.
FetchMiss(o) ==
  /\ open[o].pc = "fetch" /\ open[o].todo # << >>
  /\ LET f == Head(open[o].todo).file
         repo == open[o].art.repo
         rev == open[o].rev
         there == Local(repo, rev, f)
     IN /\ IF online THEN ~(<<repo, rev>> \notin Refs /\ there) ELSE ~there
        /\ Updates(o, [missed |-> TRUE, todo |-> Tail(open[o].todo),
                       pc |-> IF Head(open[o].todo).must THEN "missing" ELSE "fetch"])
  /\ UNCHANGED fileVars

\* After the last download Decider reads the layout of its prompt from the
\* registry, and Decider2B checks max_length.
Fetched(o) ==
  /\ open[o].pc = "fetch" /\ open[o].todo = << >>
  /\ LET q == open[o].req
         s == open[o].spec
     IN CASE q.loader = "decide" ->
               Updates(o, [pc |-> "load",
                           layout |-> resolve("task", q.id).prompt_first])
          [] q.loader = "2b" ->
               IF LimitFits("2b", q.max_length, s)
                 THEN Updates(o, [pc |-> "load",
                                  limit |-> effective_limit("2b", q.max_length, s)])
                 ELSE Updates(o, [pc |-> "refused"])
          [] OTHER -> Updates(o, [pc |-> "load"])
  /\ UNCHANGED fileVars

\* Build the tokenizer and the session from the files that were fetched.
Load(o) ==
  /\ open[o].pc = "load"
  /\ Updates(o, [pc |-> IF \A g \in open[o].got :
                              Whole(open[o].art.repo, g.commit, g.file)
                          THEN "ready" ELSE "broken"])
  /\ UNCHANGED fileVars

\* cache_info looks its files up and reports.
Lookup(o) ==
  /\ open[o].pc = "lookup"
  /\ Updates(o, [pc |-> "reported",
                 cached |-> CacheVerdict(open[o].req, open[o].art, open[o].spec)])
  /\ UNCHANGED fileVars

-----------------------------------------------------------------------------
(* The world                                                               *)

\* Somebody pushes to a branch.
Push(r) ==
  /\ head[r] < Len(Heads[r])
  /\ head' = [head EXCEPT ![r] = @ + 1]
  /\ UNCHANGED <<online, ref, cache, open>>

Disconnect ==
  /\ online /\ online' = FALSE
  /\ UNCHANGED <<head, ref, cache, open>>

OpenStep(o) ==
  \/ Begin(o) \/ Gate(o) \/ GateSlots(o) \/ GateCeiling(o) \/ ChooseArtifact(o)
  \/ FetchFile(o) \/ FetchMiss(o) \/ Fetched(o) \/ Load(o) \/ Lookup(o)

\* Loads and exports reach the overlay through the same registrations.
RegistryStep ==
  \E t \in Threads, side \in Sides : Register(t, side) \/ Unregister(t, side)

AcquireInit ==
  /\ Init
  /\ online = TRUE
  /\ head = [r \in Refs |-> 1]
  /\ ref = [r \in Refs |-> NoCommit]
  /\ cache = {}
  /\ open = [o \in Openers |-> Closed]

AcquireNext ==
  \/ RegistryStep /\ UNCHANGED acquireVars
  \/ \E o \in Openers : OpenStep(o) /\ UNCHANGED vars
  \/ \E r \in Refs : Push(r) /\ UNCHANGED vars
  \/ Disconnect /\ UNCHANGED vars

AcquireSpec == AcquireInit /\ [][AcquireNext]_allVars

-----------------------------------------------------------------------------
(* Properties                                                              *)

Phases ==
  Finished \cup {"idle", "gate", "gate2", "gate3", "artifact", "fetch", "load", "lookup"}

\* The variables keep their shape; a call that fetches has an artifact.
AcquireTypeOK ==
  /\ TypeOK
  /\ online \in BOOLEAN
  /\ \A r \in Refs : head[r] \in 1..Len(Heads[r])
  /\ \A r \in Refs : ref[r] # NoCommit => \E f \in {c[3] : c \in cache} :
                                            <<r[1], ref[r], f>> \in cache
  /\ cache \subseteq Published
  /\ \A o \in Openers :
       /\ open[o].pc \in Phases
       /\ open[o].req \in Requests \cup {NoRequest}
       /\ open[o].pc \in {"fetch", "load", "ready"} => open[o].art # NoArtifact

\* Did the id of this call keep its entry for as long as the call looked?
Undisturbed(o) ==
  LET q == open[o].req
      side == IF q.loader = "info" THEN "task" ELSE side_of(q.loader)
  IN open[o].spec # NoSpec /\ <<side, q.id>> \notin dropped

\* A call that read an entry when it checked its arguments works with that
\* entry to the end, although it reads the registry again for the artifact and
\* the prompt layout: nothing but an unregistration can slip another entry in.
OneEntryPerOpen ==
  \A o \in Openers :
    /\ Undisturbed(o) /\ open[o].art # NoArtifact
         => open[o].art = Tier(open[o].spec, open[o].prec)
    /\ Undisturbed(o) /\ open[o].req.loader = "decide" /\ open[o].pc \in {"load", "ready"}
         => open[o].layout = open[o].spec.prompt_first

\* Nothing but a push to the ref it names mixes the files of a session: those it
\* took while the branch of its caller or of its tier stood still are of one
\* commit, whatever the other branches did and whether the hub or the cache
\* answered; for a caller or a tier that names a commit those are all of them.
StoodStill(got) == \A g1, g2 \in got : g1.at = g2.at
OneSnapshot ==
  \A o \in Openers :
    open[o].pc = "ready" =>
      \A g1, g2 \in open[o].got : StoodStill({g1, g2}) => g1.commit = g2.commit

\* An open that follows a ref may see it move between two downloads, but never
\* backwards: a file it takes after another is of no earlier commit, also when
\* the network goes away in between and the cache has to answer for the ref.
Earlier(r, c1, c2) ==
  \E i, j \in DOMAIN Heads[r] : i < j /\ Heads[r][i] = c1 /\ Heads[r][j] = c2
MainMovesForward ==
  [][\A o \in Openers :
       LET r == <<open[o].art.repo, open[o].rev>>
       IN open[o].pc = "fetch" /\ r \in Refs =>
            \A old \in open[o].got, new \in open'[o].got \ open[o].got :
              ~Earlier(r, new.commit, old.commit)]_allVars

\* The file contract is complete: when every download of an open worked, and no
\* push came between them, the session has all it needs (a sidecar, say, that
\* its graph refers to).
FetchedIsEnough ==
  \A o \in Openers :
    open[o].pc = "broken" /\ StoodStill(open[o].got) => open[o].missed

\* What cache_info called cached opens without a network, unless something the
\* cached files refer to is not beside them, or the id was unregistered (or, if
\* cache_info took it for a repository, has been registered since).
CachedIsEnough ==
  \A o \in Openers :
    LET q == open[o].req
    IN /\ open[o].cached /\ open[o].whole
       /\ q.id \notin {d[2] : d \in dropped}
       /\ open[o].known \/ resolve(side_of(q.loader), q.id) = NoSpec
       => open[o].pc \notin {"missing", "broken"}

-----------------------------------------------------------------------------
(* Statements of the docs and comments that the code does not keep         *)

\* "cached=True means an offline open() would succeed" (README): no download of
\* it fails.
CachedOpensOffline ==
  \A o \in Openers :
    open[o].req.loader # "info" /\ open[o].cached => open[o].pc # "missing"

\* "a builtin id resolves identically in every process" (acquire.rs): the
\* report on a builtin embedding id is about the builtin's artifact.
BuiltinNeverShadowed ==
  \A o \in Openers :
    open[o].pc = "reported" /\ open[o].req.id \in builtin_model_ids
      => open[o].art = Tier(lookup_model(open[o].req.id), open[o].prec)

\* "registered ids validate against their own ladder/ceiling" (jina.rs).
OwnCeiling ==
  \A o \in Openers :
    open[o].pc = "ready" /\ Undisturbed(o) /\ open[o].req.loader # "vision"
      => open[o].limit <= open[o].spec.max_tokens
=============================================================================
