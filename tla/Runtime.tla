------------------------------ MODULE Runtime -------------------------------
(***************************************************************************)
(* The ONNX Runtime of a process: the variables it is found by, the        *)
(* library that ends up loaded, the CUDA probe, and the sessions built on  *)
(* it.  ort loads its library at the first call that needs it, from        *)
(* ORT_DYLIB_PATH as it then stands, and keeps it; the probe is such a     *)
(* call, and so is every session.  Without a library the call panics; the  *)
(* probe catches that and takes it for "no CUDA", for good.                *)
(*                                                                         *)
(* An optional value is a set of at most one element.                      *)
(***************************************************************************)
EXTENDS Inventory, FiniteSetsExt

CONSTANTS
  Openers,        \* threads inside an open()
  Requests,       \* what they ask for
  Dylibs,         \* paths given as ORT_DYLIB_PATH, as [name, dir] records
  IsFile,         \* the ones that are files
  Loads,          \* the libraries ort can load
  HasCuda,        \* the ones with a CUDA provider
  Found,          \* {the library ort finds by itself}, or {}
  CudaDirs,       \* the directories that provider loads its DLLs from
  IsDir,          \* the directories that exist
  DirLists,       \* the dll_dirs callers pass of their own
  Venv,           \* the environment of the interpreter
  MaxPath,        \* bound: directories on PATH
  MaxSessions     \* bound: sessions kept

ASSUME LibrariesAssumption ==
  /\ IsFile \subseteq Dylibs
  /\ Loads \subseteq IsFile \cup Found
  /\ HasCuda \subseteq Loads
  /\ Found \in {{}} \cup {{d} : d \in Loads}

ASSUME RequestsAssumption == \A q \in Requests : q.cpu_arena \in BOOLEAN

\* What a directory holds is finite, and directories are given in sequences.
ASSUME VenvAssumption ==
  /\ Venv \in Seq(ToSet(Venv))
  /\ \A sp \in ToSet(Venv) : sp.packages \in Seq(ToSet(sp.packages))
  /\ \A sp \in ToSet(Venv) : \A p \in ToSet(sp.packages) : IsFiniteSet(p.files)

ASSUME ListsAssumption == \A dirs \in DirLists : dirs \in Seq(ToSet(dirs))

ASSUME BoundsAssumption == MaxPath \in Nat /\ MaxSessions \in Nat

VARIABLES
  ORT_DYLIB_PATH, \* {its value}, or {}
  PATH,           \* the directories searched for DLLs
  ort,            \* {the library loaded}, or {}
  failed,         \* has ort failed to load a library?
  PROBE,          \* {the verdict of the probe}, or {}
  info,           \* {the last report handed to the caller}, or {}
  saved,          \* {the report in the file}, or {}
  open,           \* open[o]: where opener o is
  sessions,       \* the sessions built
  settled,        \* history: {the library configured before anything else}
  exposed         \* history: the DLLs of the reports configured back

envVars == <<ORT_DYLIB_PATH, PATH>>
ortVars == <<ort, failed, PROBE>>
reportVars == <<info, saved>>
history == <<settled, exposed>>
vars == <<envVars, ortVars, reportVars, open, sessions, history>>

-----------------------------------------------------------------------------
(* ort and the probe                                                       *)

\* What a call into ort leaves loaded, when ORT_DYLIB_PATH is dylib.  A call that
\* follows a failed one may fail again, whatever the variable says by then.
Touch(dylib) ==
  LET named == IF dylib # {} THEN dylib ELSE Found
  IN IF ort # {} THEN {ort}
     ELSE IF named \cap Loads = {} THEN {{}}
     ELSE IF failed THEN {{}, named} ELSE {named}

Touched(lib) ==
  /\ ort' = lib
  /\ failed' = (failed \/ lib = {})

\* Mutants of cuda_available: every call probes again; the verdict is not kept.
cuda_available_again(dylib) ==
  \E lib \in Touch(dylib) :
    Touched(lib) /\ PROBE' = {lib # {} /\ lib \subseteq HasCuda}
cuda_available_unlatched(dylib) ==
  UNCHANGED PROBE /\ \E lib \in Touch(dylib) : Touched(lib)

\* The first call makes ort load its library and asks that; no library is no
\* CUDA.  Later calls repeat its verdict and touch nothing.
cuda_available(dylib) ==
  IF PROBE # {} THEN UNCHANGED ortVars
  ELSE \E lib \in Touch(dylib) :
         Touched(lib) /\ PROBE' = {lib # {} /\ lib \subseteq HasCuda}

-----------------------------------------------------------------------------
(* Reports                                                                 *)

runtime_report_for(venv, dylib, usable) ==
  LET groups == cuda_runtime_dlls(venv)
  IN [ort_dylib |-> dylib, ort_dylib_exists |-> dylib # {} /\ dylib \subseteq IsFile,
      cuda_usable |-> usable, ort_installs |-> ort_installs(venv),
      cuda_runtime_dlls |-> groups, load_dirs |-> load_dirs(dylib, groups)]

\* runtime_report passes no interpreter prefix.
runtime_report(dylib, usable) == runtime_report_for(NoVenv, dylib, usable)

\* The binding of runtime_info passes the prefix of the interpreter.
RuntimeInfo ==
  /\ cuda_available(ORT_DYLIB_PATH)
  /\ info' = {runtime_report_for(Venv, ORT_DYLIB_PATH, TRUE \in PROBE')}
  /\ UNCHANGED <<envVars, saved, open, sessions, history>>

SaveRuntimeReport ==
  /\ cuda_available(ORT_DYLIB_PATH)
  /\ saved' = {runtime_report(ORT_DYLIB_PATH, TRUE \in PROBE')}
  /\ UNCHANGED <<envVars, info, open, sessions, history>>

\* The directories that exist, each once, ahead of the old PATH.
Prepended(dirs) ==
  LET seen[n \in 0..Len(dirs)] ==
        IF n = 0 THEN << >>
        ELSE IF dirs[n] \in IsDir /\ dirs[n] \notin ToSet(seen[n - 1])
               THEN Append(seen[n - 1], dirs[n])
               ELSE seen[n - 1]
  IN seen[Len(dirs)] \o PATH

\* Mutant of Initializes: the report is made before the variable is set.
Initializes_early(dylib) == cuda_available(ORT_DYLIB_PATH)

\* The call ends with a report, which probes: by then the variable is dylib.
Initializes(dylib) == cuda_available(dylib)

\* configure_runtime, with directories of the caller's or those of its last
\* report.  A dylib that is no file is refused before anything is set.
ConfigureRuntime ==
  \E dylib \in {{}} \cup {{d} : d \in IsFile},
     own \in DirLists \cup {<< >>},
     back \in {{}} \cup {{r} : r \in info} :
    LET dirs == IF back = {} THEN own ELSE SetToSeq(UNION {r.load_dirs : r \in back})
        named == IF dylib = {} THEN ORT_DYLIB_PATH ELSE dylib
    IN /\ Len(Prepended(dirs)) <= MaxPath
       /\ ORT_DYLIB_PATH' = named
       /\ PATH' = Prepended(dirs)
       /\ Initializes(named)
       /\ info' = {runtime_report(named, TRUE \in PROBE')}
       /\ settled' = IF ort = {} /\ ~failed /\ dylib \cap Loads # {} THEN dylib ELSE settled
       /\ exposed' = exposed \cup UNION {UNION {g.dlls : g \in r.cuda_runtime_dlls} : r \in back}
       /\ UNCHANGED <<saved, open, sessions>>

-----------------------------------------------------------------------------
(* Opening                                                                 *)

\* DeviceReq::parse and Precision::parse; {} is an error.
parse_device(s) ==
  CASE s \in {"auto", "cpu", "cuda"} -> {s} [] s = "gpu" -> {"cuda"} [] OTHER -> {}
parse_precision(s) ==
  CASE s \in {"auto", "fp32", "fp16", "int8", "q8"} -> {s}
    [] s = "none"    -> {"auto"}
    [] s = "float32" -> {"fp32"}
    [] s = "float16" -> {"fp16"}
    [] OTHER         -> {}

resolve(precision, used_cuda) ==
  IF precision # "auto" THEN precision ELSE IF used_cuda THEN "fp16" ELSE "fp32"

NoRequest == [loader |-> "none", device |-> "cpu", precision |-> "auto", cpu_arena |-> TRUE]
Idle ==
  [pc |-> "idle", req |-> NoRequest, used_cuda |-> FALSE, precision |-> "auto", names |-> {}]

\* The binding parses its strings before anything else.
Begin(o) ==
  /\ open[o].pc \in {"idle", "refused", "panicked", "opened"}
  /\ \E q \in Requests :
       open' = [open EXCEPT ![o] =
         [Idle EXCEPT !.req = q,
            !.pc = IF parse_device(q.device) = {} \/ parse_precision(q.precision) = {}
                     THEN "refused" ELSE "resolve"]]
  /\ UNCHANGED <<envVars, ortVars, reportVars, sessions, history>>

\* Mutant of UsedCuda: an explicit wish is granted unseen.
UsedCuda_asked(q) == parse_device(q.device) = {"cuda"}

\* resolve_provider_names: what the request becomes on this machine.
UsedCuda(q) == TRUE \in PROBE' /\ parse_device(q.device) # {"cpu"}

\* open() resolves the device to choose its weights; vision refuses half
\* precision on a CPU.
Resolve(o) ==
  /\ open[o].pc = "resolve"
  /\ cuda_available(ORT_DYLIB_PATH)
  /\ LET q == open[o].req
         used == UsedCuda(q)
         p == resolve(CHOOSE x \in parse_precision(q.precision) : TRUE, used)
     IN open' = [open EXCEPT ![o] =
          [@ EXCEPT !.precision = p,
             !.pc = IF q.loader = "vision" /\ p = "fp16" /\ ~used
                      THEN "refused" ELSE "providers"]]
  /\ UNCHANGED <<envVars, reportVars, sessions, history>>

\* The weights are there: the session's constructor resolves the device again.
resolve_provider_names(o) ==
  /\ open[o].pc = "providers"
  /\ cuda_available(ORT_DYLIB_PATH)
  /\ open' = [open EXCEPT ![o] =
       [@ EXCEPT !.pc = "build", !.used_cuda = UsedCuda(open[o].req),
          !.names = IF UsedCuda(open[o].req) THEN {"cuda"} ELSE {}]]
  /\ UNCHANGED <<envVars, reportVars, sessions, history>>

\* A builder that carries these providers: where the session will run, whether
\* the CPU arena is on, what became of the CPU provider.
Untouched(cpu) == [on |-> "cpu", arena |-> TRUE, cpu |-> cpu]

\* The DLLs of the CUDA provider are found through PATH.
Accelerates(lib, eps) ==
  "cuda" \in eps /\ lib \subseteq HasCuda /\ CudaDirs \subseteq ToSet(PATH)

\* Mutant of try_providers: the builder is given up at the first failure.
try_providers_once(lib, eps, cpu_arena) ==
  LET configured ==
        [on |-> IF Accelerates(lib, eps) THEN "cuda" ELSE "cpu", arena |-> cpu_arena,
         cpu |-> IF "cpu" \in eps THEN "registered" ELSE "implicit"]
  IN {configured}
       \cup IF Accelerates(lib, eps) THEN {}
            ELSE {Untouched(IF "cpu" \in eps /\ Cardinality(eps) = 1 THEN "failed"
                            ELSE "implicit")}

\* Register the providers.  Providers that cannot run may be taken all the same,
\* and then the session is on the CPU, or be refused: then the CPU provider is
\* tried by itself if its arena is to be off, and else the builder stays as it was.
try_providers(lib, eps, cpu_arena) ==
  LET configured ==
        [on |-> IF Accelerates(lib, eps) THEN "cuda" ELSE "cpu", arena |-> cpu_arena,
         cpu |-> IF "cpu" \in eps THEN "registered" ELSE "implicit"]
      cpu_only == [on |-> "cpu", arena |-> FALSE, cpu |-> "registered"]
      refused == IF cpu_arena THEN {Untouched("implicit")}
                 ELSE IF Cardinality(eps) > 1 THEN {cpu_only, Untouched("failed")}
                 ELSE {Untouched("failed")}
  IN {configured} \cup IF Accelerates(lib, eps) THEN {} ELSE refused

apply_providers_with_arena(lib, names, cpu_arena) ==
  IF cpu_arena
    THEN IF names = {} THEN {Untouched("implicit")} ELSE try_providers(lib, names, TRUE)
    ELSE try_providers(lib, names \cup {"cpu"}, FALSE)

\* Vision keeps the arena for CUDA and only for CUDA.
WantsArena(q, used) == IF q.loader = "vision" THEN used ELSE q.cpu_arena

\* Build the session: the first call into ort that may not fail.
BuildSession(o) ==
  /\ open[o].pc = "build"
  /\ \E lib \in Touch(ORT_DYLIB_PATH) :
       /\ Touched(lib)
       /\ IF lib = {}
            THEN /\ open' = [open EXCEPT ![o] = [@ EXCEPT !.pc = "panicked"]]
                 /\ UNCHANGED sessions
            ELSE /\ Cardinality(sessions) < MaxSessions
                 /\ open' = [open EXCEPT ![o] = [@ EXCEPT !.pc = "opened"]]
                 /\ \E b \in apply_providers_with_arena(lib, open[o].names,
                               WantsArena(open[o].req, open[o].used_cuda)) :
                      sessions' = sessions \cup
                        {[req |-> open[o].req, used_cuda |-> open[o].used_cuda,
                          precision |-> open[o].precision, provider |-> b]}
  /\ UNCHANGED <<envVars, PROBE, reportVars, history>>

-----------------------------------------------------------------------------
(* Specification                                                           *)

Init ==
  /\ ORT_DYLIB_PATH \in {{}} \cup {{d} : d \in Dylibs}
  /\ PATH = << >>
  /\ ort = {} /\ failed = FALSE /\ PROBE = {}
  /\ info = {} /\ saved = {}
  /\ open = [o \in Openers |-> Idle]
  /\ sessions = {}
  /\ settled = {} /\ exposed = {}

Next ==
  \/ RuntimeInfo \/ SaveRuntimeReport \/ ConfigureRuntime
  \/ \E o \in Openers :
       Begin(o) \/ Resolve(o) \/ resolve_provider_names(o) \/ BuildSession(o)

Spec == Init /\ [][Next]_vars

-----------------------------------------------------------------------------
(* Properties                                                              *)

\* The variables keep their shape: past the resolution there is a verdict.
Phases == {"idle", "refused", "resolve", "providers", "build", "panicked", "opened"}
Calls ==
  [pc : Phases, req : Requests \cup {NoRequest}, used_cuda : BOOLEAN,
   precision : {"auto", "fp32", "fp16", "int8", "q8"}, names : SUBSET {"cuda"}]
TypeOK ==
  /\ ORT_DYLIB_PATH \in {{}} \cup {{d} : d \in Dylibs}
  /\ ort \in {{}} \cup {{d} : d \in Loads}
  /\ failed \in BOOLEAN
  /\ PROBE \in {{}, {TRUE}, {FALSE}}
  /\ open \in [Openers -> Calls]
  /\ \A o \in Openers : open[o].pc \in {"providers", "build", "opened"} => PROBE # {}

\* A session that says it used CUDA runs on a library that has CUDA: the probe
\* asked the library that is loaded, whichever the variable has named since.
HonestCuda ==
  /\ \A s \in sessions : s.used_cuda => ort # {} /\ ort \subseteq HasCuda
  /\ \A o \in Openers : open[o].names # {} => ort # {} /\ ort \subseteq HasCuda

\* The weights were chosen for the device the session reports, although the
\* device is resolved twice with a download in between: auto is fp16 exactly on
\* CUDA, and vision never has half precision on a CPU.
PrecisionFollowsDevice ==
  \A s \in sessions :
    /\ parse_precision(s.req.precision) = {"auto"} =>
         (s.precision = IF s.used_cuda THEN "fp16" ELSE "fp32")
    /\ s.req.loader = "vision" /\ s.precision = "fp16" => s.used_cuda

\* The same request gets the same weights on the same device for as long as the
\* process lives, whatever is configured between two opens.
SameForAll ==
  \A s1, s2 \in sessions :
    parse_device(s1.req.device) = parse_device(s2.req.device) =>
      /\ s1.used_cuda = s2.used_cuda
      /\ parse_precision(s1.req.precision) = parse_precision(s2.req.precision)
           => s1.precision = s2.precision

\* The device is decided once for the process: the second half is about pairs of
\* sessions, the first about the two times an open asks.
DecidedOnce == PrecisionFollowsDevice /\ SameForAll

\* A session that was to run without the CPU arena does, also when CUDA could not
\* be registered; only a CPU provider that fails by itself leaves the arena on.
ArenaHonoured ==
  \A s \in sessions :
    ~WantsArena(s.req, s.used_cuda) /\ s.provider.arena => s.provider.cpu = "failed"

\* The first dylib configured in a process that has not yet called into ort is
\* the library it runs on, although configure_runtime itself makes that call.
FirstConfigureBinds == settled # {} => ort = settled

\* Every DLL of a report whose load_dirs were configured back is in a directory
\* that is searched from then on.
ExposedAreFound == \A f \in exposed : f.dir \in IsDir => f.dir \in ToSet(PATH)

-----------------------------------------------------------------------------
(* A statement of the docs that the code does not keep                     *)

\* "save_runtime_info(path) writes the same report" (README): the saved installs
\* are those runtime_info lists.
SavedIsReported ==
  \A r \in saved : r.ort_installs = ort_installs(Venv)
=============================================================================
