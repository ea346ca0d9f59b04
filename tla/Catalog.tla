------------------------------ MODULE Catalog -------------------------------
(***************************************************************************)
(* The static half of acquire.rs: model kinds and their file contract, the *)
(* builtin catalogue, the validator every registration goes through, and   *)
(* the choice of an artifact for a (model, precision) pair.                *)
(*                                                                         *)
(* A name is kept as the parts the code looks at.  A model id or a         *)
(* repository is the sequence of its '/'-separated parts, a file is a      *)
(* <<stem, extension>> pair.  The optional tiers of an entry are the       *)
(* domain of its record "tiers", which always has the field fp32.          *)
(***************************************************************************)
EXTENDS Naturals, Sequences

Kinds == {"rerank", "decide", "decide-laya", "decide-2b"}

NoFile == << >>         \* Option<String>::None for a sidecar
NoRevision == "none"    \* Option<String>::None for a revision
Blank == " "            \* a revision that is empty or contains whitespace

Json(stem) == <<stem, ".json">>
Onnx(stem) == <<stem, ".onnx">>
TokenizerJson == Json("tokenizer")

-----------------------------------------------------------------------------
(* Artifacts                                                               *)

Artifact(repo, file, sidecar, revision) ==
  [repo |-> repo, file |-> file, sidecar |-> sidecar, revision |-> revision]

\* The external-data file of an artifact: named, or derived from the stem.
sidecar(a) ==
  IF a.sidecar # NoFile THEN a.sidecar
  ELSE IF a.file[2] = ".onnx" THEN <<a.file[1], ".onnx_data">>
  ELSE NoFile

\* An id nobody declared is itself a repository in the default layout.
LegacyArtifact(id) == Artifact(id, Onnx("onnx/model"), NoFile, NoRevision)

\* The tier a precision selects; an unlisted pair falls back to fp32.
Tier(spec, precision) ==
  IF precision \in DOMAIN spec.tiers THEN spec.tiers[precision]
                                     ELSE spec.tiers.fp32

-----------------------------------------------------------------------------
(* Kinds                                                                   *)

kind_ceiling(kind) ==
  CASE kind = "rerank"      -> 512
    [] kind = "decide"      -> 2048
    [] kind = "decide-laya" -> 1024
    [] kind = "decide-2b"   -> 32768

kind_extra_files(kind) ==
  CASE kind = "decide-laya" -> {Json("rl_agent_config")}
    [] kind = "decide-2b"   -> {Json("decision"), Json("calibration")}
    [] OTHER                -> {}

IsWeights(f) == f[2] = ".safetensors"

-----------------------------------------------------------------------------
(* Builtins.  Revisions are the first characters of the pinned SHAs.       *)

FP32_TEXT_MODEL   == <<"jinaai", "jina-embeddings-v5-text-small-retrieval">>
FP16_TEXT_MODEL   ==
  <<"opticsWolf", "jina-embeddings-v5-text-small-retrieval-onnx-fp16">>
NANO_TEXT_MODEL   == <<"jinaai", "jina-embeddings-v5-text-nano-retrieval">>
VISION_NANO_MODEL == <<"jina-v5-omni-nano-retrieval-vision">>
VISION_NANO_REPO  ==
  <<"opticsWolf", "jina-embeddings-v5-omni-nano-retrieval-onnx">>
EMBEDGEMMA2_MODEL == <<"google", "embeddinggemma-2">>

ModelSpec(id, dim, tokens, ladder, tiers) ==
  [id |-> id, native_dim |-> dim, max_tokens |-> tokens, ladder |-> ladder,
   tiers |-> tiers]

TEXT_SMALL ==
  ModelSpec(FP32_TEXT_MODEL, 1024, 32768, <<32, 64, 128, 256, 512, 768, 1024>>,
    [fp32 |-> Artifact(FP32_TEXT_MODEL, Onnx("onnx/model"), NoFile, "6856e76"),
     fp16 |-> Artifact(FP16_TEXT_MODEL, Onnx("onnx/model"), NoFile, "b79c388")])

TEXT_NANO ==
  LET Nano(stem) == Artifact(NANO_TEXT_MODEL, Onnx(stem), NoFile, "ac5d898")
  IN ModelSpec(NANO_TEXT_MODEL, 768, 8192, <<32, 64, 128, 256, 512, 768>>,
       [fp32 |-> Nano("onnx/model"), fp16 |-> Nano("onnx/model_fp16"),
        int8 |-> Nano("onnx/model_quantized")])

VISION_NANO ==
  LET Nano(stem) ==
        Artifact(VISION_NANO_REPO, Onnx(stem), <<stem, ".onnx.data">>, "95c7be0")
  IN ModelSpec(VISION_NANO_MODEL, 768, 8192, <<32, 64, 128, 256, 512, 768>>,
       [fp32 |-> Nano("fp32/model"), fp16 |-> Nano("fp16/model")])

EMBEDGEMMA2 ==
  ModelSpec(EMBEDGEMMA2_MODEL, 768, 8192, <<128, 256, 512, 768>>,
    [fp32 |-> Artifact(<<"onnx-community", "embeddinggemma-2-ONNX">>,
                       Onnx("onnx/model"), NoFile, "daa72c5"),
     fp16 |-> Artifact(<<"opticsWolf", "embeddinggemma-2-onnx-fp16">>,
                       Onnx("onnx/model_fp16"), NoFile, "296b2a6")])

builtin_models == {TEXT_SMALL, TEXT_NANO, VISION_NANO, EMBEDGEMMA2}

TaskSpec(id, kind, tokens, promptFirst, tiers) ==
  [id |-> id, kind |-> kind, max_tokens |-> tokens,
   prompt_first |-> promptFirst, tiers |-> tiers]

\* The q8 tiers ship their weights next to the graph.
Quantized(repo, stem, rev) ==
  Artifact(repo, Onnx(stem), <<stem, ".onnx.data">>, rev)

RERANK_MINILM ==
  LET id == <<"cross-encoder", "ms-marco-MiniLM-L-6-v2">>
  IN TaskSpec(id, "rerank", 512, FALSE,
       [fp32 |-> Artifact(id, Onnx("onnx/model"), NoFile, "233902d"),
        q8   |-> Quantized(<<"opticsWolf", "ms-marco-MiniLM-L-6-v2-q8-onnx">>,
                           "model_q8", "98b3902")])

RERANK_MMARCO ==
  LET id == <<"cross-encoder", "mmarco-mMiniLMv2-L12-H384-v1">>
  IN TaskSpec(id, "rerank", 512, FALSE,
       [fp32 |-> Artifact(id, Onnx("onnx/model"), NoFile, "1427fd6"),
        q8   |-> Quantized(<<"opticsWolf", "mmarco-mMiniLMv2-L12-H384-v1-q8-onnx">>,
                           "model_q8", "4230967")])

GLICLASS_SMALL ==
  LET id == <<"knowledgator", "gliclass-small-v1.0">>
  IN TaskSpec(id, "decide", 512, FALSE,
       [fp32 |-> Artifact(id, Onnx("onnx/model"), NoFile, "21edefa")])

GLICLASS_V4_EDGE ==
  LET id == <<"knowledgator", "gliclass-v4-edge">>
  IN TaskSpec(id, "decide", 2048, TRUE,
       [fp32 |-> Artifact(id, Onnx("onnx/model"), NoFile, "885af1a"),
        q8   |-> Quantized(<<"opticsWolf", "gliclass-v4-edge-q8-onnx">>,
                           "model_q8", "b1fd271")])

\* The three Laya checkpoints share one layout: both tiers in one repository.
LayaSpec(name, tokens, repo, stem, rev) ==
  TaskSpec(<<"convaiinnovations", name>>, "decide-laya", tokens, FALSE,
    [fp32 |-> Quantized(<<"opticsWolf", repo>>, stem[1], rev),
     q8   |-> Quantized(<<"opticsWolf", repo>>, stem[2], rev)])

LAYA_TD ==
  LayaSpec("laya-typed-decisions", 1024, "laya-typed-decisions-fp32-onnx",
           <<"laya-td-fp32", "laya-td-q8">>, "fa9cac9")
LAYA_BASE ==
  LayaSpec("laya", 512, "laya-english-fp32-onnx",
           <<"laya-base-fp32", "laya-base-q8">>, "26dbfc6")
LAYA_MULTI ==
  LayaSpec("laya-multilingual", 1024, "laya-multilingual-fp32-onnx",
           <<"laya-multi-fp32", "laya-multi-q8">>, "a208969")

DECIDER2B ==
  LET repo == <<"opticsWolf", "decider-2b-fp32-onnx">>
  IN TaskSpec(<<"Mapika", "decider-2b">>, "decide-2b", 32768, FALSE,
       [fp32 |-> Artifact(repo, Onnx("model"), <<"model", ".safetensors">>,
                          "a951b9f"),
        q8   |-> Quantized(repo, "model_q8", "a951b9f")])

builtin_tasks ==
  {RERANK_MINILM, RERANK_MMARCO, GLICLASS_SMALL, GLICLASS_V4_EDGE,
   LAYA_TD, LAYA_BASE, LAYA_MULTI, DECIDER2B}

builtin_task_ids == {s.id : s \in builtin_tasks}
builtin_model_ids == {s.id : s \in builtin_models}

lookup_task(id) == CHOOSE s \in builtin_tasks : s.id = id
lookup_model(id) == CHOOSE s \in builtin_models : s.id = id

-----------------------------------------------------------------------------
(* Validation of an entry before it may touch the overlay                  *)

EMBED_ABSOLUTE_MAX == 32768

\* Succeeds when the id splits into an owner and a name.
parse_owner_name(id) == Len(id) >= 2

validate_artifact(a) ==
  /\ parse_owner_name(a.repo)
  /\ a.file[2] = ".onnx"
  /\ a.sidecar # NoFile =>
       a.sidecar[2] \in {".onnx.data", ".onnx_data", ".safetensors"}
  /\ a.revision # Blank

validate_task(e) ==
  /\ parse_owner_name(e.id)
  /\ e.max_tokens \in 1..kind_ceiling(e.kind)
  /\ \A p \in DOMAIN e.tiers : validate_artifact(e.tiers[p])
  /\ kind_extra_files(e.kind) \subseteq e.extra_files
  /\ e.kind = "decide-2b" => \E f \in e.extra_files : IsWeights(f)

validate_model(e) ==
  /\ parse_owner_name(e.id)
  /\ e.native_dim > 0
  /\ e.max_tokens \in 1..EMBED_ABSOLUTE_MAX
  /\ e.ladder # << >>
  /\ \A i \in 1..(Len(e.ladder) - 1) : e.ladder[i] < e.ladder[i + 1]
  /\ \A i \in 1..Len(e.ladder) : e.ladder[i] \in 1..e.native_dim
  /\ \A p \in DOMAIN e.tiers : validate_artifact(e.tiers[p])

-----------------------------------------------------------------------------
(* The two sides of the registry: task models and embedding models.        *)

Sides == {"task", "model"}

validate(side, e) ==
  IF side = "task" THEN validate_task(e) ELSE validate_model(e)

builtin_ids(side) ==
  IF side = "task" THEN builtin_task_ids ELSE builtin_model_ids

\* May this entry ever own its id on this side?  Each side looks at its own
\* builtins only.
Admissible(side, e) == validate(side, e) /\ e.id \notin builtin_ids(side)
=============================================================================
