----------------------------- MODULE Inventory ------------------------------
(***************************************************************************)
(* The inventory of ONNX Runtime installs in diag.rs: what a report says   *)
(* of the onnxruntime and nvidia packages of a Python environment, and the *)
(* directories it tells a loader to search.                                *)
(*                                                                         *)
(* An environment is the sequence of its site-packages directories that    *)
(* exist, in the order they are visited.  One directory may be visited     *)
(* under two spellings (Lib and lib); "real" is its canonical name.  A     *)
(* package is [name, kind, files]; a file is [path, dir, sub, depth,       *)
(* wanted]: its rank among paths in sorted order, the directory it is in,  *)
(* the subdirectory of the package that leads to it, how deep it lies, and *)
(* whether its name is one of those looked for.                            *)
(***************************************************************************)
EXTENDS Integers, Sequences, FiniteSets, SequencesExt

CONSTANT
  MAX_DLLS        \* the DLLs listed per group: 64

ASSUME MaxDllsAssumption == MAX_DLLS \in Nat \ {0}

\* No interpreter prefix was passed.
NoVenv == << >>

\* site_packages_dirs_for: candidate directories that exist.
site_packages_dirs_for(venv) == venv

\* scan_ort_dist: the libraries under capi, or nothing when there are none.
scan_ort_dist(p) == {f \in p.files : f.sub = "capi" /\ f.depth = 1 /\ f.wanted}

\* The first MAX_DLLS of a set of files, in path order.
Truncated(files) ==
  {f \in files : Cardinality({g \in files : g.path < f.path}) < MAX_DLLS}

\* scan_nvidia_dist: the libraries down to depth 3, grouped by subdirectory.
scan_nvidia_dist(p) ==
  LET found == {f \in p.files : f.wanted /\ f.depth <= 3}
  IN {[package |-> <<p.name, s>>, dlls |-> Truncated({f \in found : f.sub = s})] :
        s \in {f.sub : f \in found}}

\* The packages of an environment, by the place they are met at: the directory,
\* and the entry of it.
Met(venv) ==
  UNION {{i} \X DOMAIN site_packages_dirs_for(venv)[i].packages :
           i \in DOMAIN site_packages_dirs_for(venv)}
At(venv, p) == site_packages_dirs_for(venv)[p[1]].packages[p[2]]
Before(q, p) == q[1] < p[1] \/ (q[1] = p[1] /\ q[2] < p[2])

\* The canonical name of a package's directory.
Real(venv, p) == <<site_packages_dirs_for(venv)[p[1]].real, At(venv, p).name>>

\* The installs listed, by place of discovery: each directory where it is met
\* first, under whatever spelling.
ort_installs(venv) ==
  LET dists == {p \in Met(venv) : At(venv, p).kind = "onnxruntime"
                                    /\ scan_ort_dist(At(venv, p)) # {}}
  IN [p \in {p \in dists : \A q \in dists : Before(q, p) => Real(venv, q) # Real(venv, p)} |->
        Real(venv, p)]

\* The CUDA libraries listed: groups are told apart by package name alone, and
\* the first of a name stands for all of them.
cuda_runtime_dlls(venv) ==
  LET dists == {p \in Met(venv) : At(venv, p).kind = "nvidia"}
      groups(p) == scan_nvidia_dist(At(venv, p))
      names(p) == {g.package : g \in groups(p)}
  IN UNION {{g \in groups(p) : \A q \in dists : Before(q, p) => g.package \notin names(q)} :
              p \in dists}

\* Mutant of load_dirs: one directory stands for a group.
load_dirs_one(dylib, groups) ==
  {d.dir : d \in dylib} \cup {(CHOOSE f \in g.dlls : TRUE).dir : g \in groups}

\* The directory of the dylib and of every DLL listed.
load_dirs(dylib, groups) ==
  {d.dir : d \in dylib} \cup UNION {{f.dir : f \in g.dlls} : g \in groups}
=============================================================================
