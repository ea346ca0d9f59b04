----------------------------- MODULE MCRuntime ------------------------------
(***************************************************************************)
(* A process for TLC.  Four values of ORT_DYLIB_PATH: a library with CUDA, *)
(* one without, a file that is no library, and no file; nothing is found   *)
(* without it.  The environment is met under two spellings and holds one   *)
(* onnxruntime package and one nvidia package of two groups, one of them   *)
(* with as many DLLs as are listed.                                        *)
(***************************************************************************)
EXTENDS Runtime

Dylib(name) == [name |-> name, dir |-> "dir of " \o name]
gpu == Dylib("gpu")
cpu == Dylib("cpu")
broken == Dylib("broken")
gone == Dylib("gone")

MCDylibs == {gpu, cpu, broken, gone}
MCIsFile == {gpu, cpu, broken}
MCLoads == {gpu, cpu}
MCHasCuda == {gpu}
MCIsDir == {gpu.dir, cpu.dir, "cudnn", "cublas"}
MCCudaDirs == {"cudnn", "cublas"}
MCDirLists == {<<"cublas", "nowhere", "cublas">>}

DllFile(rank, dir, sub) ==
  [path |-> rank, dir |-> dir, sub |-> sub, depth |-> 2, wanted |-> TRUE]

ortPackage ==
  [name |-> "onnxruntime", kind |-> "onnxruntime",
   files |-> {[path |-> 1, dir |-> "capi", sub |-> "capi", depth |-> 1, wanted |-> TRUE]}]
emptyPackage == [name |-> "onnxruntime_tools", kind |-> "onnxruntime", files |-> {}]
nvidiaPackage ==
  [name |-> "nvidia", kind |-> "nvidia",
   files |-> {DllFile(2, "cudnn", "cudnn"), DllFile(3, "cudnn", "cu13"),
              DllFile(4, "cublas", "cu13"),
              [path |-> 5, dir |-> "deep", sub |-> "cu13", depth |-> 4, wanted |-> TRUE],
              [path |-> 6, dir |-> "text", sub |-> "cu13", depth |-> 2, wanted |-> FALSE]}]

SitePackages == <<ortPackage, emptyPackage, nvidiaPackage>>
MCVenv ==
  <<[real |-> "site", packages |-> SitePackages],
    [real |-> "site", packages |-> SitePackages]>>

Request(loader, device, precision, arena) ==
  [loader |-> loader, device |-> device, precision |-> precision, cpu_arena |-> arena]
MCRequests ==
  {Request("text", "auto", "none", FALSE), Request("text", "gpu", "fp32", TRUE),
   Request("vision", "cuda", "auto", FALSE), Request("vision", "cpu", "float16", FALSE),
   Request("text", "tpu", "auto", FALSE)}

\* A saved report ends it, and reports are not configured back between sessions.
Short ==
  /\ saved # {} => sessions = {} /\ info = {}
  /\ sessions # {} => \A r \in info : r.cuda_runtime_dlls = {}
=============================================================================
