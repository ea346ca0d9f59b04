----------------------------- MODULE MCRegistry -----------------------------
(***************************************************************************)
(* A small registry for TLC: two ids of the caller's own, one builtin id,  *)
(* an entry the validator refuses, and three files - one that loads, one   *)
(* that stops at its second entry, one in a newer schema.                  *)
(***************************************************************************)
EXTENDS Registry, FiniteSets, TLC

idA == <<"org", "a">>
idB == <<"org", "b">>

Art(id) == Artifact(id, Onnx("onnx/model"), NoFile, NoRevision)

TaskEntry(id, kind, tokens) ==
  [id |-> id, kind |-> kind, max_tokens |-> tokens, prompt_first |-> FALSE,
   tiers |-> [fp32 |-> Art(id)], extra_files |-> kind_extra_files(kind),
   measured |-> FALSE]

ModelEntry(id) ==
  [id |-> id, native_dim |-> 768, max_tokens |-> 512, ladder |-> <<256, 768>>,
   tiers |-> [fp32 |-> Art(id)], measured |-> FALSE]

rerankA == TaskEntry(idA, "rerank", 512)
layaA == TaskEntry(idA, "decide-laya", 1024)
tooLongB == TaskEntry(idB, "rerank", 513)
clash == TaskEntry(RERANK_MINILM.id, "rerank", 512)
modelB == ModelEntry(idB)
modelClash == ModelEntry(NANO_TEXT_MODEL)

MCEntries ==
  [task |-> {rerankA, layaA, tooLongB, clash},
   model |-> {modelB, modelClash}]

MCPaths == {"good.json", "broken.json", "v2.json"}
FileOf(version, tasks, models) ==
  [parses |-> TRUE, version |-> version, task |-> tasks, model |-> models]
MCContent ==
  [p \in MCPaths |->
     CASE p = "good.json"   -> FileOf(1, <<rerankA>>, <<modelB>>)
       [] p = "broken.json" -> FileOf(1, <<layaA, tooLongB>>, <<modelB>>)
       [] p = "v2.json"     -> FileOf(2, <<rerankA>>, << >>)]

\* An entry without a stamp, or with one that the file contradicts for most.
UnsetOrForged == {Unset, FileRow("good.json", 0)}
OneForged == Cardinality(claimed) <= 1

\* The threads are alike.
ThreadSymmetry == Permutations(Threads)
Removables == {idA, idB}
=============================================================================
