--------------------------- MODULE RuntimeProofs ----------------------------
(***************************************************************************)
(* Proofs about Runtime, for any libraries, environments, requests and     *)
(* number of openers.                                                      *)
(*                                                                         *)
(* The inductive invariant says what the probe stands for: a verdict is    *)
(* about the library that is loaded, and is TRUE only of one with CUDA.    *)
(* Since neither ever changes, whatever an open derived from the verdict   *)
(* still follows from it when the open comes to its end.                   *)
(*                                                                         *)
(* A second invariant is about the directories searched: a report names    *)
(* finitely many, so that all of them fit the list handed back, and a      *)
(* directory that exists never leaves PATH again.                          *)
(***************************************************************************)
EXTENDS Runtime, FiniteSetTheorems, WellFoundedInduction, TLAPS

\* What the verdict makes of a request: its device and its weights.
Used(q) == TRUE \in PROBE /\ parse_device(q.device) # {"cpu"}
Wanted(q) == CHOOSE x \in parse_precision(q.precision) : TRUE
Chosen(q) == resolve(Wanted(q), Used(q))
Refuses(q) == q.loader = "vision" /\ Chosen(q) = "fp16" /\ ~Used(q)

\* A verdict is about the library loaded; none loaded means a load has failed.
ProbeSound ==
  /\ PROBE # {} => ort # {} \/ failed
  /\ TRUE \in PROBE => ort # {} /\ ort \subseteq HasCuda

\* What an open has worked out follows from its request and the verdict.
CallSound(c) ==
  /\ c.pc = "resolve" => c.req \in Requests /\ parse_precision(c.req.precision) # {}
  /\ c.pc \in {"providers", "build"} =>
       c.req \in Requests /\ c.precision = Chosen(c.req) /\ ~Refuses(c.req)
  /\ c.pc = "build" => c.used_cuda = Used(c.req)
  /\ c.names # {} => TRUE \in PROBE

\* And so does what a session says of itself.
SessionSound(s) ==
  /\ PROBE # {}
  /\ s.used_cuda = Used(s.req) /\ s.precision = Chosen(s.req) /\ ~Refuses(s.req)
  /\ ~WantsArena(s.req, s.used_cuda) /\ s.provider.arena => s.provider.cpu = "failed"

Inv ==
  /\ TypeOK
  /\ ProbeSound
  /\ \A o \in Openers : CallSound(open[o])
  /\ \A s \in sessions : SessionSound(s)
  /\ settled # {} => ort = settled

-----------------------------------------------------------------------------
(* Lemmas about one step                                                   *)

Libraries == {{}} \cup {{d} : d \in Loads}

\* A call into ort leaves a library that loads, or none; a loaded one stays.
LEMMA TouchSound ==
  ASSUME TypeOK, NEW dylib \in {{}} \cup {{d} : d \in Dylibs}, NEW lib \in Touch(dylib)
  PROVE  lib \in Libraries /\ (ort # {} => lib = ort)
<1>1. CASE ort # {}
  BY <1>1 DEF Touch, TypeOK, Libraries
<1>2. CASE ort = {}
  <2>. DEFINE named == IF dylib # {} THEN dylib ELSE Found
  <2>1. lib = {} \/ (lib = named /\ named \cap Loads # {})
    BY <1>2 DEF Touch
  <2>2. named = {} \/ \E d : named = {d}
    BY LibrariesAssumption
  <2>3. named \cap Loads # {} => named \in Libraries
    BY <2>2 DEF Libraries
  <2>. QED  BY <1>2, <2>1, <2>3 DEF Libraries
<1>. QED  BY <1>1, <1>2

\* The probe: afterwards there is a verdict, about the library loaded; an earlier
\* verdict and a loaded library stay as they are.
LEMMA ProbeStep ==
  ASSUME TypeOK, ProbeSound, NEW dylib \in {{}} \cup {{d} : d \in Dylibs},
         cuda_available(dylib)
  PROVE  /\ ort' \in Libraries /\ failed' \in BOOLEAN /\ PROBE' \in {{TRUE}, {FALSE}}
         /\ ProbeSound'
         /\ PROBE # {} => PROBE' = PROBE
         /\ ort # {} => ort' = ort
<1>1. CASE PROBE # {}
  <2>1. UNCHANGED <<ort, failed, PROBE>>
    BY <1>1 DEF cuda_available, ortVars
  <2>. QED  BY <1>1, <2>1 DEF TypeOK, ProbeSound, Libraries
<1>2. CASE PROBE = {}
  <2>1. PICK lib \in Touch(dylib) :
          Touched(lib) /\ PROBE' = {lib # {} /\ lib \subseteq HasCuda}
    BY <1>2 DEF cuda_available
  <2>2. lib \in Libraries /\ (ort # {} => lib = ort)
    BY TouchSound
  <2>3. ort' = lib /\ failed' = (failed \/ lib = {})
    BY <2>1 DEF Touched
  <2>4. failed' \in BOOLEAN
    BY <2>3
  <2>5. CASE lib # {} /\ lib \subseteq HasCuda
    <3>1. PROBE' = {TRUE}
      BY <2>1, <2>5
    <3>. QED  BY <1>2, <2>2, <2>3, <2>4, <2>5, <3>1 DEF ProbeSound
  <2>6. CASE ~(lib # {} /\ lib \subseteq HasCuda)
    <3>1. PROBE' = {FALSE}
      BY <2>1, <2>6
    <3>2. lib # {} \/ failed'
      BY <2>3
    <3>3. TRUE \notin PROBE'
      BY <3>1
    <3>. QED  BY <1>2, <2>2, <2>3, <2>4, <3>1, <3>2, <3>3 DEF ProbeSound
  <2>. QED  BY <2>5, <2>6
<1>. QED  BY <1>1, <1>2

\* While the verdict stands, so does everything that follows from it.
LEMMA VerdictKept ==
  ASSUME PROBE' = PROBE
  PROVE  \A q : /\ Used(q)' = Used(q)
                /\ Chosen(q)' = Chosen(q)
                /\ Refuses(q)' = Refuses(q)
BY DEF Used, Chosen, Wanted, Refuses

\* UsedCuda, which asks the verdict of the step it is in, is Used after it.
LEMMA UsedCudaIsUsed ==
  \A q : UsedCuda(q) = Used(q)'
BY DEF UsedCuda, Used

Weights == {"auto", "fp32", "fp16", "int8", "q8"}

\* A precision that parses resolves to one, on either device.
LEMMA ResolvedPrecision ==
  ASSUME NEW s, parse_precision(s) # {}, NEW used \in BOOLEAN
  PROVE  resolve(CHOOSE x \in parse_precision(s) : TRUE, used) \in Weights
<1>1. parse_precision(s) \subseteq Weights
  BY DEF parse_precision, Weights
<1>2. (CHOOSE x \in parse_precision(s) : TRUE) \in Weights
  BY <1>1
<1>. QED  BY <1>2 DEF resolve, Weights

\* An open that is not moved stays sound while the verdict stands.
LEMMA CallKept ==
  ASSUME Inv, PROBE # {} => PROBE' = PROBE,
         NEW o \in Openers, open'[o] = open[o]
  PROVE  CallSound(open[o])'
<1>. DEFINE c == open[o]
<1>1. CallSound(c)
  BY DEF Inv
<1>2. c.pc \in {"providers", "build"} \/ c.names # {} => PROBE' = PROBE
  BY <1>1 DEF Inv, TypeOK, CallSound
<1>3. CASE PROBE' = PROBE
  BY <1>1, <1>3, VerdictKept DEF CallSound
<1>4. CASE PROBE' # PROBE
  BY <1>1, <1>2, <1>4 DEF CallSound
<1>. QED  BY <1>3, <1>4

\* So do the sessions.
LEMMA SessionsKept ==
  ASSUME Inv, PROBE # {} => PROBE' = PROBE
  PROVE  \A s \in sessions : SessionSound(s)'
<1>. SUFFICES ASSUME NEW s \in sessions PROVE SessionSound(s)'
  OBVIOUS
<1>1. SessionSound(s) /\ PROBE' = PROBE
  BY DEF Inv, SessionSound
<1>. QED  BY <1>1, VerdictKept DEF SessionSound

\* What the process keeps besides its opens: the part of Inv about them is left.
Base ==
  /\ ORT_DYLIB_PATH \in {{}} \cup {{d} : d \in Dylibs}
  /\ ort \in Libraries /\ failed \in BOOLEAN /\ PROBE \in {{}, {TRUE}, {FALSE}}
  /\ ProbeSound
  /\ \A s \in sessions : SessionSound(s)
  /\ settled # {} => ort = settled

OpensSound ==
  /\ open \in [Openers -> Calls]
  /\ \A o \in Openers : open[o].pc \in {"providers", "build", "opened"} => PROBE # {}
  /\ \A o \in Openers : CallSound(open[o])

\* The invariant from its two halves, after a step.
LEMMA InvSplit == Base' /\ OpensSound' => Inv'
BY DEF Inv, Base, OpensSound, TypeOK, Libraries

\* A step that only probes, beside moving one open.
LEMMA ProbingBase ==
  ASSUME Inv, cuda_available(ORT_DYLIB_PATH),
         UNCHANGED <<ORT_DYLIB_PATH, sessions, settled>>
  PROVE  Base' /\ PROBE' # {} /\ (PROBE # {} => PROBE' = PROBE)
<1>1. TypeOK /\ ProbeSound /\ ORT_DYLIB_PATH \in {{}} \cup {{d} : d \in Dylibs}
  BY DEF Inv, TypeOK
<1>2. /\ ort' \in Libraries /\ failed' \in BOOLEAN /\ PROBE' \in {{TRUE}, {FALSE}}
      /\ ProbeSound'
      /\ PROBE # {} => PROBE' = PROBE
      /\ ort # {} => ort' = ort
  BY <1>1, ProbeStep
<1>3. PROBE' # {} /\ PROBE' \in {{}, {TRUE}, {FALSE}}
  BY <1>2
<1>4. \A s \in sessions : SessionSound(s)'
  BY <1>2, SessionsKept
<1>5. settled' # {} => ort' = settled'
  BY <1>2 DEF Inv
<1>. QED  BY <1>1, <1>2, <1>3, <1>4, <1>5 DEF Base

\* The opens are all as sound as the one that moves.
LEMMA MovedOpens ==
  ASSUME Inv, PROBE # {} => PROBE' = PROBE, NEW o \in Openers, NEW c \in Calls,
         open' = [open EXCEPT ![o] = c],
         c.pc \in {"providers", "build", "opened"} => PROBE' # {},
         CallSound(c)'
  PROVE  OpensSound'
<1>1. open \in [Openers -> Calls]
  BY DEF Inv, TypeOK
<1>2. open' \in [Openers -> Calls] /\ open'[o] = c
  BY <1>1
<1>3. ASSUME NEW p \in Openers
      PROVE  /\ open'[p].pc \in {"providers", "build", "opened"} => PROBE' # {}
             /\ CallSound(open[p])'
  <2>1. CASE p = o
    BY <1>2, <2>1 DEF CallSound, Used, Chosen, Wanted, Refuses
  <2>2. CASE p # o
    <3>1. open'[p] = open[p]
      BY <1>1, <2>2
    <3>2. CallSound(open[p])'
      BY <3>1, CallKept
    <3>3. open[p].pc \in {"providers", "build", "opened"} => PROBE' # {}
      BY DEF Inv, TypeOK
    <3>. QED  BY <3>1, <3>2, <3>3
  <2>. QED  BY <2>1, <2>2
<1>. QED  BY <1>2, <1>3 DEF OpensSound

\* The opens are as they were.
LEMMA UnmovedOpens ==
  ASSUME Inv, PROBE # {} => PROBE' = PROBE, UNCHANGED open
  PROVE  OpensSound'
<1>1. \A o \in Openers : CallSound(open[o])'
  BY CallKept
<1>2. \A o \in Openers : open[o].pc \in {"providers", "build", "opened"} => PROBE' # {}
  BY DEF Inv, TypeOK
<1>. QED  BY <1>1, <1>2 DEF OpensSound, Inv, TypeOK

-----------------------------------------------------------------------------
(* The invariant is inductive                                              *)

\* The invariant holds in a fresh process.
LEMMA InitInv == Init => Inv
<1>. SUFFICES ASSUME Init PROVE Inv
  OBVIOUS
<1>1. Idle \in Calls
  BY DEF Idle, NoRequest, Calls, Phases
<1>2. CallSound(Idle)
  BY DEF Idle, CallSound
<1>3. \A o \in Openers : open[o] = Idle
  BY DEF Init
<1>4. open \in [Openers -> Calls]
  BY <1>1 DEF Init
<1>5. Idle.pc = "idle"
  BY DEF Idle
<1>. QED  BY <1>2, <1>3, <1>4, <1>5 DEF Init, Inv, TypeOK, ProbeSound

\* An open that begins has decided nothing.
LEMMA BeginInv ==
  ASSUME Inv, NEW o \in Openers, Begin(o)
  PROVE  Inv'
<1>1. UNCHANGED <<envVars, ortVars, reportVars, sessions, history>>
  BY DEF Begin
<1>2. UNCHANGED <<ORT_DYLIB_PATH, ort, failed, PROBE, sessions, settled>>
  BY <1>1 DEF envVars, ortVars, history
<1>3. Base'
  BY <1>2, SessionsKept DEF Inv, Base, TypeOK, ProbeSound, Libraries
<1>4. PICK q \in Requests :
        open' = [open EXCEPT ![o] =
          [Idle EXCEPT !.req = q,
             !.pc = IF parse_device(q.device) = {} \/ parse_precision(q.precision) = {}
                      THEN "refused" ELSE "resolve"]]
  BY DEF Begin
<1>5. PICK c : c = [Idle EXCEPT !.req = q,
             !.pc = IF parse_device(q.device) = {} \/ parse_precision(q.precision) = {}
                      THEN "refused" ELSE "resolve"]
  OBVIOUS
<1>6. c \in Calls /\ c.pc \in {"refused", "resolve"} /\ c.req = q /\ c.names = {}
      /\ (c.pc = "resolve" => parse_precision(q.precision) # {})
  BY <1>5 DEF Idle, NoRequest, Calls, Phases
<1>7. CallSound(c)'
  BY <1>6 DEF CallSound
<1>8. open' = [open EXCEPT ![o] = c]
  BY <1>4, <1>5
<1>. QED  BY <1>2, <1>3, <1>6, <1>7, <1>8, MovedOpens, InvSplit DEF Inv

\* The precision follows the device the probe allows.
LEMMA ResolveInv ==
  ASSUME Inv, NEW o \in Openers, Resolve(o)
  PROVE  Inv'
<1>. DEFINE q == open[o].req
            p == resolve(CHOOSE x \in parse_precision(q.precision) : TRUE, UsedCuda(q))
            pc == IF q.loader = "vision" /\ p = "fp16" /\ ~UsedCuda(q)
                    THEN "refused" ELSE "providers"
<1>1. /\ open[o].pc = "resolve" /\ cuda_available(ORT_DYLIB_PATH)
      /\ open' = [open EXCEPT ![o] = [open[o] EXCEPT !.precision = p, !.pc = pc]]
      /\ UNCHANGED <<envVars, reportVars, sessions, history>>
  BY DEF Resolve, Inv, TypeOK
<1>2. UNCHANGED <<ORT_DYLIB_PATH, sessions, settled>>
  BY <1>1 DEF envVars, history
<1>3. Base' /\ PROBE' # {} /\ (PROBE # {} => PROBE' = PROBE)
  BY <1>1, <1>2, ProbingBase
<1>4. /\ open[o] \in Calls /\ q \in Requests /\ parse_precision(q.precision) # {}
      /\ open[o].names # {} => TRUE \in PROBE
  BY <1>1 DEF Inv, TypeOK, CallSound
<1>5. PICK c : c = [open[o] EXCEPT !.precision = p, !.pc = pc]
  OBVIOUS
<1>6. p \in Weights /\ UsedCuda(q) \in BOOLEAN
  BY <1>4, ResolvedPrecision DEF UsedCuda
<1>7. /\ c \in Calls /\ c.pc = pc /\ c.req = q /\ c.precision = p
      /\ c.names = open[o].names
  BY <1>4, <1>5, <1>6 DEF Calls, Phases, Weights
<1>8. \A r : UsedCuda(r) = Used(r)'
  BY UsedCudaIsUsed
<1>9. PICK r : r = q
  OBVIOUS
<1>10. p = Chosen(r)' /\ (pc = "providers" => ~Refuses(r)')
  BY <1>8, <1>9 DEF Chosen, Wanted, Refuses
<1>11. c.pc = "providers" => c.precision = Chosen(c.req)' /\ ~Refuses(c.req)'
  BY <1>7, <1>9, <1>10
<1>12. CallSound(c)'
  BY <1>3, <1>4, <1>7, <1>11 DEF CallSound
<1>. QED  BY <1>1, <1>3, <1>5, <1>7, <1>12, MovedOpens, InvSplit

\* The providers are those of that device.
LEMMA ProvidersInv ==
  ASSUME Inv, NEW o \in Openers, resolve_provider_names(o)
  PROVE  Inv'
<1>. DEFINE used == UsedCuda(open[o].req)
<1>1. /\ open[o].pc = "providers" /\ cuda_available(ORT_DYLIB_PATH)
      /\ open' = [open EXCEPT ![o] =
           [open[o] EXCEPT !.pc = "build", !.used_cuda = used,
                           !.names = IF used THEN {"cuda"} ELSE {}]]
      /\ UNCHANGED <<envVars, reportVars, sessions, history>>
  BY DEF resolve_provider_names, Inv, TypeOK
<1>2. UNCHANGED <<ORT_DYLIB_PATH, sessions, settled>>
  BY <1>1 DEF envVars, history
<1>3. Base' /\ PROBE' # {} /\ (PROBE # {} => PROBE' = PROBE)
  BY <1>1, <1>2, ProbingBase
<1>4. /\ open[o] \in Calls /\ open[o].req \in Requests /\ PROBE # {}
      /\ open[o].precision = Chosen(open[o].req) /\ ~Refuses(open[o].req)
  BY <1>1 DEF Inv, TypeOK, CallSound
<1>5. PICK c : c = [open[o] EXCEPT !.pc = "build", !.used_cuda = used,
                                   !.names = IF used THEN {"cuda"} ELSE {}]
  OBVIOUS
<1>6. used \in BOOLEAN /\ (used => TRUE \in PROBE')
  BY DEF UsedCuda
<1>7. /\ c \in Calls /\ c.pc = "build" /\ c.req = open[o].req
      /\ c.precision = open[o].precision /\ c.used_cuda = used
      /\ c.names = IF used THEN {"cuda"} ELSE {}
  BY <1>4, <1>5, <1>6 DEF Calls, Phases
<1>8. PICK r : r = open[o].req
  OBVIOUS
<1>9. used = Used(r)' /\ c.precision = Chosen(r)' /\ ~Refuses(r)'
  BY <1>3, <1>4, <1>7, <1>8, UsedCudaIsUsed, VerdictKept
<1>10. CallSound(c)'
  BY <1>4, <1>6, <1>7, <1>8, <1>9 DEF CallSound
<1>. QED  BY <1>1, <1>3, <1>5, <1>7, <1>10, MovedOpens, InvSplit

\* A builder whose arena was to be off has it on only if the CPU provider failed.
LEMMA BuilderSound ==
  ASSUME NEW lib, NEW names, NEW b \in apply_providers_with_arena(lib, names, FALSE)
  PROVE  b.arena => b.cpu = "failed"
BY DEF apply_providers_with_arena, try_providers, Untouched

\* The session is built on the library that is loaded by then.
LEMMA BuildInv ==
  ASSUME Inv, NEW o \in Openers, BuildSession(o)
  PROVE  Inv'
<1>1. /\ open[o].pc = "build"
      /\ UNCHANGED <<envVars, PROBE, reportVars, history>>
  BY DEF BuildSession
<1>2. PICK lib \in Touch(ORT_DYLIB_PATH) :
        /\ Touched(lib)
        /\ IF lib = {}
             THEN /\ open' = [open EXCEPT ![o] = [open[o] EXCEPT !.pc = "panicked"]]
                  /\ UNCHANGED sessions
             ELSE /\ open' = [open EXCEPT ![o] = [open[o] EXCEPT !.pc = "opened"]]
                  /\ \E b \in apply_providers_with_arena(lib, open[o].names,
                                WantsArena(open[o].req, open[o].used_cuda)) :
                       sessions' = sessions \cup
                         {[req |-> open[o].req, used_cuda |-> open[o].used_cuda,
                           precision |-> open[o].precision, provider |-> b]}
  BY DEF BuildSession, Inv, TypeOK
<1>3. UNCHANGED <<ORT_DYLIB_PATH, PROBE, settled>>
  BY <1>1 DEF envVars, history
<1>4. lib \in Libraries /\ (ort # {} => lib = ort)
  BY TouchSound DEF Inv, TypeOK
<1>5. ort' = lib /\ failed' = (failed \/ lib = {})
  BY <1>2 DEF Touched
<1>6. /\ open[o] \in Calls /\ open[o].req \in Requests /\ PROBE # {}
      /\ open[o].precision = Chosen(open[o].req) /\ ~Refuses(open[o].req)
      /\ open[o].used_cuda = Used(open[o].req)
      /\ open[o].names # {} => TRUE \in PROBE
  BY <1>1 DEF Inv, TypeOK, CallSound
<1>7. PICK c : c = [open[o] EXCEPT !.pc = IF lib = {} THEN "panicked" ELSE "opened"]
  OBVIOUS
<1>8. /\ c \in Calls /\ c.pc \in {"panicked", "opened"} /\ c.names = open[o].names
      /\ open' = [open EXCEPT ![o] = c]
  BY <1>2, <1>6, <1>7 DEF Calls, Phases
<1>9. CallSound(c)'
  BY <1>3, <1>6, <1>8 DEF CallSound
<1>10. OpensSound'
  BY <1>3, <1>6, <1>8, <1>9, MovedOpens
<1>11. ASSUME NEW b \in apply_providers_with_arena(lib, open[o].names,
                                WantsArena(open[o].req, open[o].used_cuda)),
              NEW s, s = [req |-> open[o].req, used_cuda |-> open[o].used_cuda,
                          precision |-> open[o].precision, provider |-> b]
       PROVE  SessionSound(s)'
  <2>1. /\ s.req = open[o].req /\ s.used_cuda = open[o].used_cuda
        /\ s.precision = open[o].precision /\ s.provider = b
    BY <1>11
  <2>2. WantsArena(s.req, s.used_cuda) \in BOOLEAN
    BY <1>6, <2>1, RequestsAssumption DEF WantsArena, Calls
  <2>3. ~WantsArena(s.req, s.used_cuda) => (b.arena => b.cpu = "failed")
    <3>1. CASE WantsArena(s.req, s.used_cuda) = FALSE
      BY <1>11, <2>1, <3>1, BuilderSound
    <3>. QED  BY <2>2, <3>1
  <2>4. /\ s.used_cuda = Used(s.req)' /\ s.precision = Chosen(s.req)'
        /\ ~Refuses(s.req)'
    BY <1>3, <1>6, <2>1, VerdictKept
  <2>. QED  BY <1>3, <1>6, <2>1, <2>3, <2>4 DEF SessionSound
<1>12. \A s \in sessions' : SessionSound(s)'
  <2>1. \A s \in sessions : SessionSound(s)'
    BY <1>3, SessionsKept
  <2>2. CASE lib = {}
    BY <1>2, <2>1, <2>2
  <2>3. CASE lib # {}
    BY <1>2, <1>11, <2>1, <2>3
  <2>. QED  BY <2>2, <2>3
<1>13. ProbeSound'
  BY <1>3, <1>4, <1>5 DEF Inv, ProbeSound
<1>14. settled' # {} => ort' = settled'
  BY <1>3, <1>4, <1>5 DEF Inv
<1>15. failed' \in BOOLEAN
  BY <1>5
<1>16. Base'
  BY <1>3, <1>4, <1>5, <1>12, <1>13, <1>14, <1>15 DEF Base, Inv, TypeOK
<1>. QED  BY <1>10, <1>16, InvSplit

\* The reports only probe.
LEMMA ReportInv ==
  ASSUME Inv, RuntimeInfo \/ SaveRuntimeReport
  PROVE  Inv'
<1>1. /\ cuda_available(ORT_DYLIB_PATH)
      /\ UNCHANGED <<envVars, open, sessions, history>>
  BY DEF RuntimeInfo, SaveRuntimeReport
<1>2. UNCHANGED <<ORT_DYLIB_PATH, open, sessions, settled>>
  BY <1>1 DEF envVars, history
<1>3. Base' /\ PROBE' # {} /\ (PROBE # {} => PROBE' = PROBE)
  BY <1>1, <1>2, ProbingBase
<1>. QED  BY <1>2, <1>3, UnmovedOpens, InvSplit

\* The first library configured is the one its probe loads.
LEMMA ConfigureInv ==
  ASSUME Inv, ConfigureRuntime
  PROVE  Inv'
<1>1. PICK dylib \in {{}} \cup {{d} : d \in IsFile},
          named \in {ORT_DYLIB_PATH} \cup {{d} : d \in IsFile} :
        /\ named = IF dylib = {} THEN ORT_DYLIB_PATH ELSE dylib
        /\ ORT_DYLIB_PATH' = named
        /\ Initializes(named)
        /\ settled' = IF ort = {} /\ ~failed /\ dylib \cap Loads # {} THEN dylib ELSE settled
        /\ UNCHANGED <<saved, open, sessions>>
  BY DEF ConfigureRuntime
<1>2. named \in {{}} \cup {{d} : d \in Dylibs}
  BY <1>1, LibrariesAssumption DEF Inv, TypeOK
<1>3. TypeOK /\ ProbeSound /\ cuda_available(named)
  BY <1>1 DEF Inv, Initializes
<1>4. /\ ort' \in Libraries /\ failed' \in BOOLEAN /\ PROBE' \in {{TRUE}, {FALSE}}
      /\ ProbeSound'
      /\ PROBE # {} => PROBE' = PROBE
      /\ ort # {} => ort' = ort
  BY <1>2, <1>3, ProbeStep
<1>5. \A s \in sessions' : SessionSound(s)'
  BY <1>1, <1>4, SessionsKept
<1>6. settled' # {} => ort' = settled'
  <2>1. CASE ort = {} /\ ~failed /\ dylib \cap Loads # {}
    <3>1. PROBE = {}
      BY <2>1 DEF Inv, ProbeSound
    <3>2. dylib # {} /\ named = dylib
      BY <1>1, <2>1
    <3>3. Touch(named) = {dylib}
      BY <2>1, <3>2 DEF Touch
    <3>4. ort' = dylib
      BY <1>3, <3>1, <3>3 DEF cuda_available, Touched
    <3>. QED  BY <1>1, <2>1, <3>4
  <2>2. CASE ~(ort = {} /\ ~failed /\ dylib \cap Loads # {})
    BY <1>1, <1>4, <2>2 DEF Inv
  <2>. QED  BY <2>1, <2>2
<1>7. PROBE' \in {{}, {TRUE}, {FALSE}}
  BY <1>4
<1>8. Base'
  BY <1>1, <1>2, <1>4, <1>5, <1>6, <1>7 DEF Base
<1>. QED  BY <1>1, <1>4, <1>8, UnmovedOpens, InvSplit

\* Every step keeps the invariant.
LEMMA NextInv == Inv /\ [Next]_vars => Inv'
<1>. SUFFICES ASSUME Inv, [Next]_vars PROVE Inv'
  OBVIOUS
<1>1. CASE RuntimeInfo \/ SaveRuntimeReport
  BY <1>1, ReportInv
<1>2. CASE ConfigureRuntime
  BY <1>2, ConfigureInv
<1>3. ASSUME NEW o \in Openers,
             Begin(o) \/ Resolve(o) \/ resolve_provider_names(o) \/ BuildSession(o)
      PROVE  Inv'
  BY <1>3, BeginInv, ResolveInv, ProvidersInv, BuildInv
<1>4. CASE UNCHANGED vars
  <2>1. UNCHANGED <<ORT_DYLIB_PATH, ort, failed, PROBE, open, sessions, settled>>
    BY <1>4 DEF vars, envVars, ortVars, history
  <2>2. Base'
    BY <2>1, SessionsKept DEF Inv, Base, TypeOK, ProbeSound, Libraries
  <2>. QED  BY <2>1, <2>2, UnmovedOpens, InvSplit
<1>. QED  BY <1>1, <1>2, <1>3, <1>4 DEF Next

\* Hence it always holds.
LEMMA Invariance == Spec => []Inv
BY InitInv, NextInv, PTL DEF Spec

-----------------------------------------------------------------------------
(* What follows                                                            *)

\* The variables keep their shape, and an open past the resolution has a verdict
\* to go by.
THEOREM TypeCorrect == Spec => []TypeOK
<1>1. Inv => TypeOK
  BY DEF Inv
<1>. QED  BY <1>1, Invariance, PTL

\* A session that says it used CUDA runs on a library that has it.
THEOREM HonestCudaHolds == Spec => []HonestCuda
<1>1. Inv => HonestCuda
  BY DEF Inv, HonestCuda, CallSound, SessionSound, Used, ProbeSound
<1>. QED  BY <1>1, Invariance, PTL

\* Device and weights agree although the device is worked out twice, and agree
\* between all sessions of the process.
THEOREM DecidedOnceHolds == Spec => []DecidedOnce
<1>1. Inv => PrecisionFollowsDevice
  <2>. SUFFICES ASSUME Inv, NEW s \in sessions
                PROVE  /\ parse_precision(s.req.precision) = {"auto"} =>
                            (s.precision = IF s.used_cuda THEN "fp16" ELSE "fp32")
                       /\ s.req.loader = "vision" /\ s.precision = "fp16" => s.used_cuda
    BY DEF PrecisionFollowsDevice
  <2>1. SessionSound(s)
    BY DEF Inv
  <2>2. ASSUME parse_precision(s.req.precision) = {"auto"}
        PROVE  Wanted(s.req) = "auto"
    BY <2>2 DEF Wanted
  <2>. QED  BY <2>1, <2>2 DEF SessionSound, Chosen, Refuses, resolve
<1>2. Inv => SameForAll
  <2>. SUFFICES ASSUME Inv, NEW s1 \in sessions, NEW s2 \in sessions,
                       parse_device(s1.req.device) = parse_device(s2.req.device)
                PROVE  /\ s1.used_cuda = s2.used_cuda
                       /\ parse_precision(s1.req.precision) = parse_precision(s2.req.precision)
                            => s1.precision = s2.precision
    BY DEF SameForAll
  <2>1. SessionSound(s1) /\ SessionSound(s2)
    BY DEF Inv
  <2>2. Used(s1.req) = Used(s2.req)
    BY DEF Used
  <2>. QED  BY <2>1, <2>2 DEF SessionSound, Chosen, Wanted
<1>. QED  BY <1>1, <1>2, Invariance, PTL DEF DecidedOnce

\* A session that was to run without the arena does, unless the CPU provider fails.
THEOREM ArenaHolds == Spec => []ArenaHonoured
<1>1. Inv => ArenaHonoured
  BY DEF Inv, SessionSound, ArenaHonoured
<1>. QED  BY <1>1, Invariance, PTL

\* The first library configured before any call into ort is the one it runs on.
THEOREM FirstBinds == Spec => []FirstConfigureBinds
<1>1. Inv => FirstConfigureBinds
  BY DEF Inv, FirstConfigureBinds
<1>. QED  BY <1>1, Invariance, PTL

-----------------------------------------------------------------------------
(* The directories searched                                                *)

\* Any naturals there are have a least one.
LEMMA LeastOne ==
  ASSUME NEW T, T \subseteq Nat, T # {}
  PROVE  \E x \in T : \A y \in T : x <= y
<1>1. PICK R : R = OpToRel(<, Nat)
  OBVIOUS
<1>2. IsWellFoundedOn(R, Nat)
  BY <1>1, NatLessThanWellFounded, Zenon
<1>3. PICK x \in T : \A y \in T : ~ (<<y, x>> \in R)
  BY <1>2, WFMin
<1>4. \A y, z \in Nat : y < z => <<y, z>> \in R
  BY <1>1 DEF OpToRel
<1>5. ASSUME NEW y \in T PROVE x <= y
  <2>1. x \in Nat /\ y \in Nat /\ ~ (y < x)
    BY <1>3, <1>4
  <2>. QED  BY <2>1
<1>. QED  BY <1>5

\* Induction over the naturals, for a set.
LEMMA SetInduction ==
  ASSUME NEW T, 0 \in T, \A n \in Nat : n \in T => n + 1 \in T
  PROVE  \A n \in Nat : n \in T
<1>. SUFFICES ASSUME Nat \ T # {} PROVE FALSE
  OBVIOUS
<1>1. PICK x \in Nat \ T : \A y \in Nat \ T : x <= y
  BY LeastOne
<1>2. x # 0 /\ x \in Nat
  BY <1>1
<1>3. x - 1 \in Nat /\ x - 1 + 1 = x /\ ~ (x <= x - 1)
  BY <1>2
<1>4. x - 1 \in T
  BY <1>1, <1>3
<1>. QED  BY <1>1, <1>3, <1>4

\* The loop of configure_runtime over the directories: what it has kept after each.
Goes(seen, dirs, m) ==
  seen = [n \in 0..m |->
            IF n = 0 THEN << >>
            ELSE IF dirs[n] \in IsDir /\ dirs[n] \notin ToSet(seen[n - 1])
                   THEN Append(seen[n - 1], dirs[n])
                   ELSE seen[n - 1]]

\* The loop comes to its end.
LEMMA LoopEnds ==
  ASSUME NEW dirs, NEW m \in Nat
  PROVE  \E seen : Goes(seen, dirs, m)
<1>. DEFINE T == {n \in Nat : \E seen : Goes(seen, dirs, n)}
<1>1. 0 \in T
  <2>. DEFINE seen == [n \in 0..0 |-> << >>]
  <2>1. Goes(seen, dirs, 0)
    BY DEF Goes
  <2>. HIDE DEF seen
  <2>. QED  BY <2>1
<1>2. ASSUME NEW n \in Nat, n \in T PROVE n + 1 \in T
  <2>1. PICK s : Goes(s, dirs, n)
    BY <1>2
  <2>2. PICK last : last = IF dirs[n + 1] \in IsDir /\ dirs[n + 1] \notin ToSet(s[n])
                             THEN Append(s[n], dirs[n + 1]) ELSE s[n]
    OBVIOUS
  <2>3. PICK t : t = [k \in 0..(n + 1) |-> IF k <= n THEN s[k] ELSE last]
    OBVIOUS
  <2>4. PICK u : u = [k \in 0..(n + 1) |->
            IF k = 0 THEN << >>
            ELSE IF dirs[k] \in IsDir /\ dirs[k] \notin ToSet(t[k - 1])
                   THEN Append(t[k - 1], dirs[k])
                   ELSE t[k - 1]]
    OBVIOUS
  <2>5. ASSUME NEW k \in 0..(n + 1) PROVE t[k] = u[k]
    <3>1. CASE k = 0
      BY <2>1, <2>3, <2>4, <3>1 DEF Goes
    <3>2. CASE k \in 1..n
      <4>1. t[k] = s[k] /\ t[k - 1] = s[k - 1] /\ k # 0 /\ k \in 0..n
        BY <2>3, <3>2
      <4>2. s[k] = IF dirs[k] \in IsDir /\ dirs[k] \notin ToSet(s[k - 1])
                     THEN Append(s[k - 1], dirs[k]) ELSE s[k - 1]
        BY <2>1, <4>1 DEF Goes
      <4>. QED  BY <2>4, <4>1, <4>2
    <3>3. CASE k = n + 1
      <4>1. t[k] = last /\ t[k - 1] = s[n] /\ k # 0 /\ k \in 0..(n + 1)
        BY <2>3, <3>3
      <4>. QED  BY <2>2, <2>4, <3>3, <4>1
    <3>. QED  BY <3>1, <3>2, <3>3
  <2>6. t = u
    BY <2>3, <2>4, <2>5
  <2>7. Goes(t, dirs, n + 1)
    BY <2>4, <2>6 DEF Goes
  <2>. QED  BY <2>7
<1>. HIDE DEF T
<1>3. m \in T
  BY <1>1, <1>2, SetInduction
<1>. QED  BY <1>3 DEF T

\* It keeps directories that exist, and all of those.
LEMMA LoopKeeps ==
  ASSUME NEW dirs, NEW m \in Nat, NEW seen, Goes(seen, dirs, m)
  PROVE  /\ seen[m] \in Seq(IsDir)
         /\ \A j \in 1..m : dirs[j] \in IsDir => dirs[j] \in ToSet(seen[m])
<1>. DEFINE Kept(n) == /\ seen[n] \in Seq(IsDir)
                       /\ \A j \in 1..n : dirs[j] \in IsDir => dirs[j] \in ToSet(seen[n])
            T == {n \in Nat : n <= m => Kept(n)}
<1>1. 0 \in T
  <2>1. seen[0] = << >>
    BY DEF Goes
  <2>2. << >> \in Seq(IsDir)
    OBVIOUS
  <2>3. Kept(0)
    BY <2>1, <2>2
  <2>. QED  BY <2>3
<1>2. ASSUME NEW n \in Nat, n \in T PROVE n + 1 \in T
  <2>. SUFFICES ASSUME n + 1 <= m PROVE Kept(n + 1)
    OBVIOUS
  <2>1. Kept(n)
    BY <1>2
  <2>2. PICK s \in Seq(IsDir) : s = seen[n]
    BY <2>1
  <2>3. PICK t : t = seen[n + 1]
    OBVIOUS
  <2>4. t = IF dirs[n + 1] \in IsDir /\ dirs[n + 1] \notin ToSet(s)
              THEN Append(s, dirs[n + 1]) ELSE s
    <3>1. n + 1 \in 0..m /\ n + 1 # 0 /\ n + 1 - 1 = n
      OBVIOUS
    <3>2. \A k \in 0..m : seen[k] = IF k = 0 THEN << >>
            ELSE IF dirs[k] \in IsDir /\ dirs[k] \notin ToSet(seen[k - 1])
                   THEN Append(seen[k - 1], dirs[k])
                   ELSE seen[k - 1]
      BY DEF Goes
    <3>. QED  BY <2>2, <2>3, <3>1, <3>2
  <2>5. t \in Seq(IsDir) /\ ToSet(s) \subseteq ToSet(t)
        /\ (dirs[n + 1] \in IsDir => dirs[n + 1] \in ToSet(t))
    <3>1. CASE dirs[n + 1] \in IsDir /\ dirs[n + 1] \notin ToSet(s)
      <4>1. PICK d \in IsDir : d = dirs[n + 1]
        BY <3>1
      <4>2. t = Append(s, d)
        BY <2>4, <3>1, <4>1
      <4>3. Len(t) = Len(s) + 1 /\ t[Len(s) + 1] = d /\ \A i \in 1..Len(s) : t[i] = s[i]
        BY <4>2
      <4>4. DOMAIN t = 1..(Len(s) + 1) /\ DOMAIN s = 1..Len(s) /\ Len(s) \in Nat
        BY <4>2
      <4>5. d \in ToSet(t) /\ ToSet(s) \subseteq ToSet(t)
        BY <4>3, <4>4 DEF ToSet
      <4>. QED  BY <4>1, <4>2, <4>5
    <3>2. CASE ~ (dirs[n + 1] \in IsDir /\ dirs[n + 1] \notin ToSet(s))
      BY <2>4, <3>2
    <3>. QED  BY <3>1, <3>2
  <2>6. ASSUME NEW j \in 1..(n + 1), dirs[j] \in IsDir PROVE dirs[j] \in ToSet(t)
    <3>1. CASE j \in 1..n
      BY <2>1, <2>2, <2>5, <2>6, <3>1
    <3>2. CASE j = n + 1
      BY <2>5, <2>6, <3>2
    <3>. QED  BY <3>1, <3>2
  <2>. QED  BY <2>3, <2>5, <2>6
<1>. HIDE DEF T
<1>3. m \in T
  BY <1>1, <1>2, SetInduction
<1>. QED  BY <1>3 DEF T

\* The new PATH has the directories given that exist, and all of the old one.
LEMMA PrependedKeeps ==
  ASSUME NEW dirs, Len(dirs) \in Nat, DOMAIN dirs = 1..Len(dirs), PATH \in Seq(IsDir)
  PROVE  /\ Prepended(dirs) \in Seq(IsDir)
         /\ ToSet(PATH) \subseteq ToSet(Prepended(dirs))
         /\ \A d \in ToSet(dirs) : d \in IsDir => d \in ToSet(Prepended(dirs))
<1>1. PICK m \in Nat : m = Len(dirs)
  OBVIOUS
<1>. DEFINE loop == CHOOSE seen :
              seen = [n \in 0..Len(dirs) |->
                        IF n = 0 THEN << >>
                        ELSE IF dirs[n] \in IsDir /\ dirs[n] \notin ToSet(seen[n - 1])
                               THEN Append(seen[n - 1], dirs[n])
                               ELSE seen[n - 1]]
<1>2. PICK seen : seen = loop
  OBVIOUS
<1>3. Prepended(dirs) = seen[m] \o PATH
  BY <1>1, <1>2 DEF Prepended
<1>4. Goes(seen, dirs, m)
  <2>1. \E s : Goes(s, dirs, Len(dirs))
    BY <1>1, LoopEnds
  <2>. QED  BY <1>1, <1>2, <2>1 DEF Goes
<1>5. PICK s \in Seq(IsDir) : s = seen[m]
  BY <1>4, LoopKeeps
<1>6. \A j \in 1..m : dirs[j] \in IsDir => dirs[j] \in ToSet(s)
  BY <1>4, <1>5, LoopKeeps
<1>7. PICK p \in Seq(IsDir) : p = PATH
  OBVIOUS
<1>8. PICK t \in Seq(IsDir) : t = s \o p
  <2>1. s \o p \in Seq(IsDir)
    OBVIOUS
  <2>. QED  BY <2>1
<1>9. /\ Len(t) = Len(s) + Len(p) /\ Len(s) \in Nat /\ Len(p) \in Nat
      /\ \A i \in 1..Len(s) : t[i] = s[i]
      /\ \A i \in 1..Len(p) : t[Len(s) + i] = p[i]
  BY <1>8
<1>10. DOMAIN t = 1..Len(t) /\ DOMAIN s = 1..Len(s) /\ DOMAIN p = 1..Len(p)
  OBVIOUS
<1>11. ToSet(s) \subseteq ToSet(t)
  BY <1>9, <1>10 DEF ToSet
<1>12. ToSet(p) \subseteq ToSet(t)
  <2>1. ASSUME NEW i \in 1..Len(p) PROVE p[i] \in ToSet(t)
    <3>1. Len(s) + i \in DOMAIN t /\ t[Len(s) + i] = p[i]
      BY <1>9, <1>10
    <3>. QED  BY <3>1 DEF ToSet
  <2>. QED  BY <1>10, <2>1 DEF ToSet
<1>13. \A d \in ToSet(dirs) : d \in IsDir => d \in ToSet(t)
  BY <1>1, <1>6, <1>11 DEF ToSet
<1>. QED  BY <1>3, <1>5, <1>7, <1>8, <1>11, <1>12, <1>13

\* A finite set, put in a sequence, is all in it.
LEMMA SetToSeqIs ==
  ASSUME NEW S, IsFiniteSet(S)
  PROVE  /\ Len(SetToSeq(S)) \in Nat /\ DOMAIN SetToSeq(S) = 1..Len(SetToSeq(S))
         /\ ToSet(SetToSeq(S)) = S
<1>1. PICK n \in Nat : n = Cardinality(S) /\ ExistsBijection(1..n, S)
  BY FS_CardinalityType
<1>2. PICK b : b \in [1..n -> S] /\ IsInjective(b)
  BY <1>1 DEF ExistsBijection, Bijection, Injection
<1>3. PICK f : f = SetToSeq(S)
  OBVIOUS
<1>4. f \in [1..n -> S] /\ IsInjective(f)
  BY <1>1, <1>2, <1>3 DEF SetToSeq
<1>5. f \in Injection(1..n, S)
  BY <1>4 DEF Injection
<1>6. Cardinality(1..n) = n
  BY FS_Interval
<1>7. f \in Surjection(1..n, S)
  BY <1>1, <1>5, <1>6, FS_Injection
<1>8. \A x \in S : \E i \in 1..n : f[i] = x
  BY <1>7 DEF Surjection
<1>9. Len(f) = n /\ DOMAIN f = 1..n
  BY <1>4
<1>. QED  BY <1>3, <1>4, <1>8, <1>9 DEF ToSet

\* What a function makes of a finite set is finite.
LEMMA FiniteImage ==
  ASSUME NEW S, IsFiniteSet(S), NEW f
  PROVE  IsFiniteSet({f[x] : x \in S})
<1>1. PICK T : T = {f[x] : x \in S}
  OBVIOUS
<1>2. PICK g : g = [x \in S |-> f[x]]
  OBVIOUS
<1>3. g \in [S -> T] /\ \A t \in T : \E x \in S : g[x] = t
  BY <1>1, <1>2
<1>4. g \in Surjection(S, T)
  BY <1>3 DEF Surjection
<1>. QED  BY <1>1, <1>4, FS_Surjection

\* Finitely many finite sets have finitely many elements together.
LEMMA FiniteUnion ==
  ASSUME NEW S, IsFiniteSet(S), NEW f, \A x \in S : IsFiniteSet(f[x])
  PROVE  IsFiniteSet(UNION {f[x] : x \in S})
<1>1. PICK T : T = {f[x] : x \in S}
  OBVIOUS
<1>2. IsFiniteSet(T)
  BY <1>1, FiniteImage
<1>3. \A t \in T : IsFiniteSet(t)
  BY <1>1
<1>4. IsFiniteSet(UNION T)
  BY <1>2, <1>3, FS_UNION
<1>. QED  BY <1>1, <1>4

\* The files of the packages of a directory, and of an environment.
FilesOf(sp) == UNION {sp.packages[k].files : k \in DOMAIN sp.packages}
Files(venv) == UNION {FilesOf(venv[i]) : i \in DOMAIN venv}

\* They are finitely many.
LEMMA FilesFinite ==
  ASSUME NEW venv \in {NoVenv, Venv}
  PROVE  IsFiniteSet(Files(venv))
<1>1. /\ Len(venv) \in Nat /\ DOMAIN venv = 1..Len(venv)
      /\ \A i \in DOMAIN venv :
           /\ Len(venv[i].packages) \in Nat
           /\ DOMAIN venv[i].packages = 1..Len(venv[i].packages)
           /\ \A k \in DOMAIN venv[i].packages : IsFiniteSet(venv[i].packages[k].files)
  <2>1. CASE venv = NoVenv
    BY <2>1 DEF NoVenv
  <2>2. CASE venv = Venv
    <3>1. Venv \in Seq(ToSet(Venv)) /\ \A i \in DOMAIN Venv : Venv[i] \in ToSet(Venv)
      BY VenvAssumption DEF ToSet
    <3>2. ASSUME NEW i \in DOMAIN Venv
          PROVE  /\ Len(Venv[i].packages) \in Nat
                 /\ DOMAIN Venv[i].packages = 1..Len(Venv[i].packages)
                 /\ \A k \in DOMAIN Venv[i].packages : IsFiniteSet(Venv[i].packages[k].files)
      <4>1. PICK ps : ps = Venv[i].packages
        OBVIOUS
      <4>2. ps \in Seq(ToSet(ps)) /\ \A p \in ToSet(ps) : IsFiniteSet(p.files)
        BY <3>1, <4>1, VenvAssumption
      <4>3. Len(ps) \in Nat /\ DOMAIN ps = 1..Len(ps) /\ \A k \in DOMAIN ps : ps[k] \in ToSet(ps)
        BY <4>2 DEF ToSet
      <4>. QED  BY <4>1, <4>2, <4>3
    <3>3. Len(Venv) \in Nat /\ DOMAIN Venv = 1..Len(Venv)
      BY <3>1
    <3>. QED  BY <2>2, <3>2, <3>3
  <2>. QED  BY <2>1, <2>2
<1>2. ASSUME NEW i \in DOMAIN venv PROVE IsFiniteSet(FilesOf(venv[i]))
  <2>1. PICK ps : ps = venv[i].packages
    OBVIOUS
  <2>2. Len(ps) \in Nat /\ DOMAIN ps = 1..Len(ps) /\ \A k \in DOMAIN ps : IsFiniteSet(ps[k].files)
    BY <1>1, <2>1
  <2>3. IsFiniteSet(DOMAIN ps)
    BY <2>2, FS_Interval
  <2>4. PICK f : f = [k \in DOMAIN ps |-> ps[k].files]
    OBVIOUS
  <2>5. \A k \in DOMAIN ps : IsFiniteSet(f[k])
    BY <2>2, <2>4
  <2>6. IsFiniteSet(UNION {f[k] : k \in DOMAIN ps})
    BY <2>3, <2>5, FiniteUnion
  <2>. QED  BY <2>1, <2>4, <2>6 DEF FilesOf
<1>3. IsFiniteSet(DOMAIN venv)
  BY <1>1, FS_Interval
<1>4. PICK f : f = [i \in DOMAIN venv |-> FilesOf(venv[i])]
  OBVIOUS
<1>5. \A i \in DOMAIN venv : IsFiniteSet(f[i])
  BY <1>2, <1>4
<1>6. IsFiniteSet(UNION {f[i] : i \in DOMAIN venv})
  BY <1>3, <1>5, FiniteUnion
<1>. QED  BY <1>4, <1>6 DEF Files

\* The DLLs listed are among them.
LEMMA DllsAreFiles ==
  ASSUME NEW venv
  PROVE  \A g \in cuda_runtime_dlls(venv) : g.dlls \subseteq Files(venv)
<1>. SUFFICES ASSUME NEW g \in cuda_runtime_dlls(venv) PROVE g.dlls \subseteq Files(venv)
  OBVIOUS
<1>1. PICK p \in Met(venv) : g \in scan_nvidia_dist(At(venv, p))
  BY DEF cuda_runtime_dlls
<1>2. At(venv, p).files \subseteq Files(venv)
  BY DEF Met, At, Files, FilesOf, site_packages_dirs_for
<1>3. g.dlls \subseteq At(venv, p).files
  <2>1. PICK x : x = At(venv, p)
    OBVIOUS
  <2>2. PICK found : found = {f \in x.files : f.wanted /\ f.depth <= 3}
    OBVIOUS
  <2>3. PICK s : g = [package |-> <<x.name, s>>, dlls |-> Truncated({f \in found : f.sub = s})]
    BY <1>1, <2>1, <2>2 DEF scan_nvidia_dist
  <2>4. g.dlls = Truncated({f \in found : f.sub = s})
    BY <2>3
  <2>5. g.dlls \subseteq found
    BY <2>4 DEF Truncated
  <2>. QED  BY <2>1, <2>2, <2>5
<1>. QED  BY <1>2, <1>3

\* A report names finitely many directories, those of all the DLLs it lists.
Listed(r) ==
  /\ IsFiniteSet(r.load_dirs)
  /\ \A g \in r.cuda_runtime_dlls : \A f \in g.dlls : f.dir \in r.load_dirs

LEMMA ReportListed ==
  ASSUME NEW venv \in {NoVenv, Venv}, NEW dylib \in {{}} \cup {{d} : d \in Dylibs}, NEW usable
  PROVE  Listed(runtime_report_for(venv, dylib, usable))
<1>1. PICK groups : groups = cuda_runtime_dlls(venv)
  OBVIOUS
<1>2. PICK r : r = runtime_report_for(venv, dylib, usable)
  OBVIOUS
<1>3. r.cuda_runtime_dlls = groups /\ r.load_dirs = load_dirs(dylib, groups)
  BY <1>1, <1>2 DEF runtime_report_for
<1>4. PICK D : D = {f.dir : f \in Files(venv)}
  OBVIOUS
<1>5. IsFiniteSet(D)
  <2>1. PICK f : f = [x \in Files(venv) |-> x.dir]
    OBVIOUS
  <2>2. IsFiniteSet({f[x] : x \in Files(venv)})
    BY FilesFinite, FiniteImage
  <2>3. {f[x] : x \in Files(venv)} = D
    BY <1>4, <2>1
  <2>. QED  BY <2>2, <2>3
<1>6. PICK E : E = {d.dir : d \in dylib}
  OBVIOUS
<1>7. IsFiniteSet(E)
  <2>1. E = {} \/ \E x : E = {x}
    BY <1>6
  <2>2. IsFiniteSet({}) /\ \A x : IsFiniteSet({x})
    BY FS_EmptySet, FS_Singleton
  <2>. QED  BY <2>1, <2>2
<1>8. UNION {{f.dir : f \in g.dlls} : g \in groups} \subseteq D
  BY <1>1, <1>4, DllsAreFiles
<1>9. r.load_dirs \subseteq E \cup D
  BY <1>3, <1>6, <1>8 DEF load_dirs
<1>10. IsFiniteSet(r.load_dirs)
  BY <1>5, <1>7, <1>9, FS_Union, FS_Subset
<1>11. \A g \in groups : \A f \in g.dlls : f.dir \in r.load_dirs
  BY <1>3 DEF load_dirs
<1>. QED  BY <1>2, <1>3, <1>10, <1>11 DEF Listed

\* What is searched covers what was configured back, and will cover what may be.
Exposure ==
  /\ PATH \in Seq(IsDir)
  /\ \A r \in info : Listed(r)
  /\ ExposedAreFound

\* A fresh process has been handed nothing.
LEMMA InitExposure == Init => Exposure
<1>. SUFFICES ASSUME Init PROVE Exposure
  OBVIOUS
<1>1. PATH = << >> /\ info = {} /\ exposed = {}
  BY DEF Init
<1>2. << >> \in Seq(IsDir)
  OBVIOUS
<1>. QED  BY <1>1, <1>2 DEF Exposure, ExposedAreFound

\* The directories of a report handed back end up on PATH, and none leaves it.
LEMMA ConfigureExposure ==
  ASSUME TypeOK, Exposure, ConfigureRuntime
  PROVE  Exposure'
<1>1. PICK dylib \in {{}} \cup {{d} : d \in IsFile}, own \in DirLists \cup {<< >>},
           back \in {{}} \cup {{r} : r \in info} :
        LET dirs == IF back = {} THEN own ELSE SetToSeq(UNION {r.load_dirs : r \in back})
            named == IF dylib = {} THEN ORT_DYLIB_PATH ELSE dylib
        IN /\ PATH' = Prepended(dirs)
           /\ info' = {runtime_report(named, TRUE \in PROBE')}
           /\ exposed' = exposed \cup
                UNION {UNION {g.dlls : g \in r.cuda_runtime_dlls} : r \in back}
  BY DEF ConfigureRuntime
<1>2. PICK dirs :
        dirs = IF back = {} THEN own ELSE SetToSeq(UNION {r.load_dirs : r \in back})
  OBVIOUS
<1>3. PICK named : named = IF dylib = {} THEN ORT_DYLIB_PATH ELSE dylib
  OBVIOUS
<1>4. /\ PATH' = Prepended(dirs)
      /\ info' = {runtime_report(named, TRUE \in PROBE')}
      /\ exposed' = exposed \cup
           UNION {UNION {g.dlls : g \in r.cuda_runtime_dlls} : r \in back}
  BY <1>1, <1>2, <1>3
<1>5. back = {} \/ \E r \in info : back = {r}
  BY <1>1
<1>6. /\ Len(dirs) \in Nat /\ DOMAIN dirs = 1..Len(dirs)
      /\ \A r \in back : Listed(r) /\ ToSet(dirs) = r.load_dirs
  <2>1. CASE back = {}
    <3>1. dirs = own
      BY <1>2, <2>1
    <3>2. dirs \in Seq(ToSet(dirs))
      <4>1. CASE own = << >>
        BY <3>1, <4>1
      <4>2. CASE own \in DirLists
        BY <3>1, <4>2, ListsAssumption
      <4>. QED  BY <4>1, <4>2
    <3>. QED  BY <2>1, <3>2
  <2>2. ASSUME NEW r \in info, back = {r}
        PROVE  /\ Len(dirs) \in Nat /\ DOMAIN dirs = 1..Len(dirs)
               /\ Listed(r) /\ ToSet(dirs) = r.load_dirs
    <3>1. PICK S : S = r.load_dirs
      OBVIOUS
    <3>2. UNION {x.load_dirs : x \in back} = S
      BY <2>2, <3>1
    <3>3. dirs = SetToSeq(S)
      BY <1>2, <2>2, <3>2
    <3>4. Listed(r)
      BY DEF Exposure
    <3>5. IsFiniteSet(S)
      BY <3>1, <3>4 DEF Listed
    <3>6. /\ Len(SetToSeq(S)) \in Nat /\ DOMAIN SetToSeq(S) = 1..Len(SetToSeq(S))
          /\ ToSet(SetToSeq(S)) = S
      BY <3>5, SetToSeqIs
    <3>. QED  BY <3>1, <3>3, <3>4, <3>6
  <2>. QED  BY <1>5, <2>1, <2>2
<1>7. /\ Prepended(dirs) \in Seq(IsDir)
      /\ ToSet(PATH) \subseteq ToSet(Prepended(dirs))
      /\ \A d \in ToSet(dirs) : d \in IsDir => d \in ToSet(Prepended(dirs))
  BY <1>6, PrependedKeeps DEF Exposure
<1>8. ASSUME NEW f \in exposed', f.dir \in IsDir PROVE f.dir \in ToSet(PATH')
  <2>1. CASE f \in exposed
    BY <1>4, <1>7, <1>8, <2>1 DEF Exposure, ExposedAreFound
  <2>2. CASE f \notin exposed
    <3>1. PICK r \in back : \E g \in r.cuda_runtime_dlls : f \in g.dlls
      BY <1>4, <2>2
    <3>2. f.dir \in r.load_dirs
      BY <1>6, <3>1 DEF Listed
    <3>3. f.dir \in ToSet(dirs)
      BY <1>6, <3>2
    <3>. QED  BY <1>4, <1>7, <1>8, <3>3
  <2>. QED  BY <2>1, <2>2
<1>9. Listed(runtime_report(named, TRUE \in PROBE'))
  <2>1. named \in {{}} \cup {{d} : d \in Dylibs}
    BY <1>3, LibrariesAssumption DEF TypeOK
  <2>2. PICK usable : usable = (TRUE \in PROBE')
    OBVIOUS
  <2>3. Listed(runtime_report_for(NoVenv, named, usable))
    BY <2>1, ReportListed
  <2>. QED  BY <2>2, <2>3 DEF runtime_report
<1>. QED  BY <1>4, <1>7, <1>8, <1>9 DEF Exposure, ExposedAreFound

\* A report handed out lists the directories of what it names.
LEMMA InfoExposure ==
  ASSUME TypeOK, Exposure, RuntimeInfo
  PROVE  Exposure'
<1>1. UNCHANGED <<PATH, exposed>>
  BY DEF RuntimeInfo, envVars, history
<1>2. PICK usable : usable = (TRUE \in PROBE')
  OBVIOUS
<1>3. info' = {runtime_report_for(Venv, ORT_DYLIB_PATH, usable)}
  BY <1>2 DEF RuntimeInfo
<1>4. Listed(runtime_report_for(Venv, ORT_DYLIB_PATH, usable))
  BY ReportListed DEF TypeOK
<1>. QED  BY <1>1, <1>3, <1>4 DEF Exposure, ExposedAreFound

\* The other steps touch none of it.
LEMMA NextExposure == TypeOK /\ Exposure /\ [Next]_vars => Exposure'
<1>. SUFFICES ASSUME TypeOK, Exposure, [Next]_vars PROVE Exposure'
  OBVIOUS
<1>1. CASE UNCHANGED <<PATH, info, exposed>>
  BY <1>1 DEF Exposure, ExposedAreFound
<1>2. CASE SaveRuntimeReport \/ UNCHANGED vars
  BY <1>1, <1>2 DEF SaveRuntimeReport, vars, envVars, reportVars, history
<1>3. ASSUME NEW o \in Openers,
             Begin(o) \/ Resolve(o) \/ resolve_provider_names(o) \/ BuildSession(o)
      PROVE  Exposure'
  BY <1>1, <1>3 DEF Begin, Resolve, resolve_provider_names, BuildSession,
                    envVars, reportVars, history
<1>. QED  BY <1>2, <1>3, InfoExposure, ConfigureExposure DEF Next

\* Every DLL of a report that was configured back lies in a directory that is
\* searched ever after, if that directory exists.
THEOREM ExposedFound == Spec => []ExposedAreFound
<1>1. Init /\ [][Next]_vars /\ []TypeOK => []Exposure
  BY InitExposure, NextExposure, PTL
<1>2. Exposure => ExposedAreFound
  BY DEF Exposure
<1>3. Spec => []TypeOK
  BY TypeCorrect
<1>. QED  BY <1>1, <1>2, <1>3, PTL DEF Spec
=============================================================================
