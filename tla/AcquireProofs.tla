--------------------------- MODULE AcquireProofs ----------------------------
(***************************************************************************)
(* Proofs about Acquire, for any registry, any hub, any requests and any   *)
(* number of openers.                                                      *)
(*                                                                         *)
(* Five inductive invariants, each about the state of one call: Pinned     *)
(* (its artifact, its revision and the commits of its files), Standing     *)
(* (the entry it read first is the one the registry still answers with),   *)
(* Behind (its files are of commits its ref has been at, none later than   *)
(* the one the cache holds for it), Gathered (what was to be fetched is    *)
(* among what it still has to fetch and what it has fetched) and Serves    *)
(* (what cache_info said before it began still stands).                    *)
(***************************************************************************)
EXTENDS Acquire, RegistryProofs

-----------------------------------------------------------------------------
(* Calls as records                                                        *)

Fields ==
  {"req", "pc", "spec", "prec", "art", "rev", "limit", "todo", "got", "missed",
   "layout", "cached", "whole", "known"}

IsCall(c) == c = [f \in Fields |-> c[f]]
Shape ==
  /\ open = [o \in Openers |-> open[o]]
  /\ \A o \in Openers : IsCall(open[o])

\* A call that begins, an opener at rest: both have the fields of a call.
LEMMA FreshIsCall ==
  ASSUME NEW q
  PROVE  /\ IsCall(Fresh(q)) /\ IsCall(Closed) /\ IsCall(Begun(q))
         /\ Begun(q).pc = "gate" /\ Begun(q).req = q /\ Begun(q).got = {}
         /\ Begun(q).spec = NoSpec /\ Begun(q).art = NoArtifact
<1>1. IsCall(Fresh(q)) /\ IsCall(Closed)
  BY DEF Fresh, Closed, IsCall, Fields
<1>2. PICK b1, b2, b3 :
        Begun(q) = [Fresh(q) EXCEPT !.cached = b1, !.whole = b2, !.known = b3]
  BY DEF Begun
<1>3. IsCall(Begun(q))
  BY <1>2 DEF Fresh, IsCall, Fields
<1>. QED  BY <1>1, <1>2, <1>3 DEF Fresh

\* The call that results when some fields of c are given new values.
Updated(c, fields) == [f \in DOMAIN c |-> IF f \in DOMAIN fields THEN fields[f] ELSE c[f]]

\* Updates moves one call and keeps the others.
LEMMA UpdatesOne ==
  ASSUME Shape, NEW o \in Openers, NEW fields, Updates(o, fields)
  PROVE  /\ open' = [open EXCEPT ![o] = Updated(open[o], fields)]
         /\ IsCall(Updated(open[o], fields))
<1>1. open' = [open EXCEPT ![o] = Updated(open[o], fields)]
  BY DEF Updates, Updated, Shape
<1>2. DOMAIN open[o] = Fields
  BY DEF Shape, IsCall
<1>3. IsCall(Updated(open[o], fields))
  BY <1>2 DEF Updated, IsCall
<1>. QED  BY <1>1, <1>3

\* A field of an updated call is the new one, if there is one.
LEMMA UpdatedFields ==
  ASSUME NEW c, IsCall(c), NEW fields, NEW f \in Fields
  PROVE  Updated(c, fields)[f] = IF f \in DOMAIN fields THEN fields[f] ELSE c[f]
<1>1. DOMAIN c = Fields
  BY DEF IsCall
<1>. QED  BY <1>1 DEF Updated

-----------------------------------------------------------------------------
(* What a call has settled                                                 *)

\* The ref a call takes its files from, if its revision is one.
RefOf(c) == <<c.art.repo, c.rev>>

\* What a call has settled about its artifact: past the choice its revision is the
\* caller's or the tier's, and a commit is that of every file taken by it.
Pinned(c) ==
  /\ c.pc \in Phases /\ c.req \in Requests \cup {NoRequest}
  /\ c.pc \in {"fetch", "load", "ready"} =>
       c.art # NoArtifact /\ c.rev = revision_of(c.req, c.art)
  /\ c.pc \in {"idle", "gate", "gate2", "gate3", "artifact"} => c.got = {}
  /\ RefOf(c) \notin Refs => \A g \in c.got : g.commit = c.rev /\ g.at = 0

World ==
  /\ online \in BOOLEAN
  /\ head = [r \in Refs |-> head[r]] /\ \A r \in Refs : head[r] \in 1..Len(Heads[r])
  /\ ref = [r \in Refs |-> ref[r]]
  /\ \A r \in Refs : ref[r] # NoCommit => \E f \in {c[3] : c \in cache} :
                                            <<r[1], ref[r], f>> \in cache
  /\ cache \subseteq Published

PinnedInv == TypeOK /\ World /\ Shape /\ \A o \in Openers : Pinned(open[o])

\* It is enough to look at the call that moves.
LEMMA MovedPinned ==
  ASSUME Shape, \A o \in Openers : Pinned(open[o]),
         NEW o \in Openers, NEW c, IsCall(c), Pinned(c),
         open' = [open EXCEPT ![o] = c]
  PROVE  Shape' /\ \A p \in Openers : Pinned(open[p])'
<1>1. open' = [p \in Openers |-> IF p = o THEN c ELSE open[p]]
  BY DEF Shape
<1>2. \A p \in Openers : open'[p] = IF p = o THEN c ELSE open[p]
  BY <1>1
<1>3. open' = [p \in Openers |-> open'[p]]
  BY <1>1
<1>. QED  BY <1>2, <1>3 DEF Shape, Pinned

\* A call that begins has settled nothing.
LEMMA BeginPinned ==
  ASSUME PinnedInv, NEW o \in Openers, Begin(o)
  PROVE  Shape' /\ \A p \in Openers : Pinned(open[p])'
<1>1. PICK q \in Requests : open' = [open EXCEPT ![o] = Begun(q)]
  BY DEF Begin
<1>2. PICK c : c = Begun(q)
  OBVIOUS
<1>3. IsCall(c) /\ Pinned(c)
  BY <1>2, FreshIsCall DEF Pinned, Phases
<1>. QED  BY <1>1, <1>2, <1>3, MovedPinned DEF PinnedInv

\* A call that gets some fields new, its artifact, revision and files not among
\* them, stays pinned if its phase does not run ahead of them.
LEMMA UpdatePinned ==
  ASSUME PinnedInv, NEW o \in Openers, NEW fields, Updates(o, fields),
         DOMAIN fields \cap {"req", "art", "rev", "got"} = {},
         "pc" \in DOMAIN fields => 
            /\ fields.pc \in Phases
            /\ fields.pc \in {"fetch", "load", "ready"} =>
                 open[o].pc \in {"fetch", "load", "ready"}
            /\ fields.pc \in {"idle", "gate", "gate2", "gate3", "artifact"} =>
                 open[o].pc \in {"idle", "gate", "gate2", "gate3", "artifact"}
  PROVE  Shape' /\ \A p \in Openers : Pinned(open[p])'
<1>1. IsCall(open[o]) /\ Pinned(open[o])
  BY DEF PinnedInv, Shape
<1>2. PICK c : c = Updated(open[o], fields)
  OBVIOUS
<1>3. IsCall(c) /\ open' = [open EXCEPT ![o] = c]
  BY <1>2, UpdatesOne DEF PinnedInv
<1>4. /\ c.req = open[o].req /\ c.art = open[o].art /\ c.rev = open[o].rev
      /\ c.got = open[o].got
      /\ c.pc = IF "pc" \in DOMAIN fields THEN fields.pc ELSE open[o].pc
  BY <1>1, <1>2, UpdatedFields DEF Fields
<1>5. Pinned(c)
  BY <1>1, <1>4 DEF Pinned, RefOf
<1>. QED  BY <1>3, <1>5, MovedPinned DEF PinnedInv

\* The choice of the artifact settles the revision, before any file is there.
LEMMA ChoosePinned ==
  ASSUME PinnedInv, NEW o \in Openers, ChooseArtifact(o)
  PROVE  Shape' /\ \A p \in Openers : Pinned(open[p])'
<1>. DEFINE q == open[o].req
            prec == resolve_precision(q.precision, q.cuda)
            side == IF q.loader = "info"
                      THEN IF open[o].spec # NoSpec THEN "task" ELSE "model"
                      ELSE side_of(q.loader)
            a == artifact_for(side, q.id, prec)
            fields == [pc |-> IF q.loader = "info" THEN "lookup" ELSE "fetch",
                       prec |-> prec, art |-> a, rev |-> revision_of(q, a),
                       todo |-> Fetches(q.loader, a, open[o].spec, prec)]
<1>1. /\ open[o].pc = "artifact"
      /\ IF parse_owner_name(a.repo) THEN Updates(o, fields)
                                     ELSE Updates(o, [pc |-> "refused"])
  BY DEF ChooseArtifact
<1>2. CASE ~parse_owner_name(a.repo)
  BY <1>1, <1>2, UpdatePinned DEF Phases, Finished
<1>3. CASE parse_owner_name(a.repo)
  <2>1. a # NoArtifact
    BY <1>3 DEF parse_owner_name, NoArtifact
  <2>2. IsCall(open[o]) /\ Pinned(open[o])
    BY DEF PinnedInv, Shape
  <2>3. PICK c : c = Updated(open[o], fields)
    OBVIOUS
  <2>4. IsCall(c) /\ open' = [open EXCEPT ![o] = c]
    <3>1. Updates(o, fields) /\ Shape
      BY <1>1, <1>3 DEF PinnedInv
    <3>. HIDE DEF fields
    <3>. QED  BY <2>3, <3>1, UpdatesOne
  <2>5. /\ DOMAIN fields = {"pc", "prec", "art", "rev", "todo"}
        /\ fields.art = a /\ fields.rev = revision_of(q, a)
        /\ fields.pc \in {"lookup", "fetch"}
    OBVIOUS
  <2>6. /\ c.req = q /\ c.art = a /\ c.rev = revision_of(q, a) /\ c.got = open[o].got
        /\ c.pc \in {"lookup", "fetch"}
    <3>. HIDE DEF fields
    <3>. QED  BY <2>2, <2>3, <2>5, UpdatedFields DEF Fields
  <2>7. c.got = {}
    BY <1>1, <2>2, <2>6 DEF Pinned
  <2>8. Pinned(c)
    BY <2>1, <2>2, <2>6, <2>7 DEF Pinned, Phases
  <2>. QED  BY <2>4, <2>8, MovedPinned DEF PinnedInv
<1>. QED  BY <1>2, <1>3

\* What a download finds, and under which commit.
CommitOf(c) ==
  IF online THEN HubCommit(c.art.repo, c.rev) ELSE LocalCommit(c.art.repo, c.rev)
FileOf(c) == Head(c.todo).file
Gotten(c) ==
  [file |-> FileOf(c), commit |-> CommitOf(c),
   at |-> Turn(c.art.repo, AskedFor(c.req, c.art))]

\* A download succeeds for a file the hub has published, and records where it was.
LEMMA FetchFacts ==
  ASSUME World, NEW o \in Openers, FetchFile(o)
  PROVE  LET c == open[o]
         IN /\ c.pc = "fetch"
            /\ <<c.art.repo, CommitOf(c), FileOf(c)>> \in Published
            /\ cache' = cache \cup {<<c.art.repo, CommitOf(c), FileOf(c)>>}
            /\ ref' = IF RefOf(c) \in Refs THEN [ref EXCEPT ![RefOf(c)] = CommitOf(c)]
                                            ELSE ref
            /\ Updates(o, [todo |-> Tail(c.todo), got |-> c.got \cup {Gotten(c)}])
            /\ UNCHANGED <<online, head>>
<1>. DEFINE c == open[o]
<1>1. /\ c.pc = "fetch" /\ Available(c.art.repo, c.rev, FileOf(c))
      /\ cache' = cache \cup {<<c.art.repo, CommitOf(c), FileOf(c)>>}
      /\ ref' = IF RefOf(c) \in Refs THEN [ref EXCEPT ![RefOf(c)] = CommitOf(c)]
                                      ELSE ref
      /\ Updates(o, [todo |-> Tail(c.todo), got |-> c.got \cup {Gotten(c)}])
      /\ UNCHANGED <<online, head>>
  BY DEF FetchFile, CommitOf, FileOf, Gotten, RefOf
<1>2. online => <<c.art.repo, CommitOf(c), FileOf(c)>> \in Published
  BY <1>1 DEF Available, OnHub, CommitOf
<1>3. ~online => <<c.art.repo, CommitOf(c), FileOf(c)>> \in Published
  BY <1>1 DEF Available, Local, CommitOf, World
<1>. QED  BY <1>1, <1>2, <1>3

\* A download is stamped with where the ref of the call is, and of the commit
\* that is its revision if that is no ref.
LEMMA GottenStamp ==
  ASSUME PinnedInv, NEW o \in Openers, open[o].pc = "fetch"
  PROVE  /\ Gotten(open[o]).commit = CommitOf(open[o])
         /\ Gotten(open[o]).at = IF RefOf(open[o]) \in Refs THEN head[RefOf(open[o])] ELSE 0
         /\ RefOf(open[o]) \notin Refs => CommitOf(open[o]) = open[o].rev
<1>. DEFINE c == open[o]
<1>1. c.rev = AskedFor(c.req, c.art)
  BY DEF PinnedInv, Pinned, revision_of, AskedFor
<1>. QED  BY <1>1 DEF Gotten, Turn, RefOf, CommitOf, HubCommit, LocalCommit

\* At a commit, a download is of that commit.
LEMMA FetchPinned ==
  ASSUME PinnedInv, NEW o \in Openers, FetchFile(o)
  PROVE  Shape' /\ \A p \in Openers : Pinned(open[p])'
<1>. DEFINE d == open[o]
            fields == [todo |-> Tail(d.todo), got |-> d.got \cup {Gotten(d)}]
<1>1. d.pc = "fetch" /\ Updates(o, fields)
  BY FetchFacts DEF PinnedInv
<1>2. IsCall(d) /\ Pinned(d)
  BY DEF PinnedInv, Shape
<1>3. PICK c : c = Updated(d, fields)
  OBVIOUS
<1>4. IsCall(c) /\ open' = [open EXCEPT ![o] = c]
  BY <1>1, <1>3, UpdatesOne DEF PinnedInv
<1>5. DOMAIN fields = {"todo", "got"}
  OBVIOUS
<1>6. /\ c.req = d.req /\ c.art = d.art /\ c.rev = d.rev /\ c.pc = d.pc
      /\ c.got = d.got \cup {Gotten(d)}
  BY <1>2, <1>3, <1>5, UpdatedFields DEF Fields
<1>7. RefOf(d) \notin Refs => Gotten(d).commit = d.rev /\ Gotten(d).at = 0
  BY <1>1, GottenStamp
<1>8. Pinned(c)
  BY <1>1, <1>2, <1>6, <1>7 DEF Pinned, RefOf
<1>. QED  BY <1>4, <1>8, MovedPinned DEF PinnedInv

\* The other steps of a call only move its phase, or settle what the choice of the
\* artifact and the downloads do not.
OtherStep(o) ==
  \/ Gate(o) \/ GateSlots(o) \/ GateCeiling(o) \/ FetchMiss(o) \/ Fetched(o)
  \/ Load(o) \/ Lookup(o)

Unchosen == {"idle", "gate", "gate2", "gate3", "artifact"}
Harmless(from, fields) ==
  /\ DOMAIN fields \cap {"req", "art", "rev", "got", "whole", "known"} = {}
  /\ "pc" \in DOMAIN fields /\ fields.pc \in Phases
  /\ fields.pc = "fetch" => from = "fetch"
  /\ fields.pc \in {"load", "ready"} => from \in {"fetch", "load", "ready"}
  /\ fields.pc \in Unchosen => from \in Unchosen

\* Each of them is an update of harmless fields.
LEMMA OtherUpdates ==
  ASSUME NEW o \in Openers, OtherStep(o)
  PROVE  \E fields : Updates(o, fields) /\ Harmless(open[o].pc, fields)
<1>1. CASE Gate(o)
  <2>. DEFINE q == open[o].req
              s == resolve(side_of(q.loader), q.id)
              l == IF q.loader \in {"text", "rerank", "laya"}
                     THEN effective_limit(q.loader, q.max_length, s) ELSE 0
  <2>1. open[o].pc = "gate"
    BY <1>1 DEF Gate
  <2>2. \/ Updates(o, [pc |-> "refused"]) \/ Updates(o, [pc |-> "gate2"])
        \/ Updates(o, [pc |-> "artifact", spec |-> s, limit |-> l])
    BY <1>1 DEF Gate
  <2>3. /\ Harmless(open[o].pc, [pc |-> "refused"]) /\ Harmless(open[o].pc, [pc |-> "gate2"])
        /\ Harmless(open[o].pc, [pc |-> "artifact", spec |-> s, limit |-> l])
    <3>. HIDE DEF q, s, l
    <3>. QED  BY <2>1 DEF Harmless, Unchosen, Phases, Finished
  <2>. HIDE DEF q, s, l
  <2>. QED  BY <2>2, <2>3
<1>2. CASE GateSlots(o)
  <2>1. open[o].pc = "gate2"
    BY <1>2 DEF GateSlots
  <2>2. Updates(o, [pc |-> "refused"]) \/ Updates(o, [pc |-> "gate3"])
    BY <1>2 DEF GateSlots
  <2>3. Harmless(open[o].pc, [pc |-> "refused"]) /\ Harmless(open[o].pc, [pc |-> "gate3"])
    BY <2>1 DEF Harmless, Unchosen, Phases, Finished
  <2>. QED  BY <2>2, <2>3
<1>3. CASE GateCeiling(o)
  <2>. DEFINE q == open[o].req
              s == resolve("task", q.id)
              l == effective_limit("decide", q.max_length, s)
  <2>1. open[o].pc = "gate3"
    BY <1>3 DEF GateCeiling
  <2>2. \/ Updates(o, [pc |-> "refused"])
        \/ Updates(o, [pc |-> "artifact", spec |-> s, limit |-> l])
    BY <1>3 DEF GateCeiling
  <2>3. /\ Harmless(open[o].pc, [pc |-> "refused"])
        /\ Harmless(open[o].pc, [pc |-> "artifact", spec |-> s, limit |-> l])
    <3>. HIDE DEF q, s, l
    <3>. QED  BY <2>1 DEF Harmless, Unchosen, Phases, Finished
  <2>. HIDE DEF q, s, l
  <2>. QED  BY <2>2, <2>3
<1>4. CASE FetchMiss(o)
  <2>. DEFINE tail == Tail(open[o].todo)
  <2>1. open[o].pc = "fetch"
    BY <1>4 DEF FetchMiss
  <2>2. \E pc \in {"missing", "fetch"} :
          Updates(o, [missed |-> TRUE, todo |-> tail, pc |-> pc])
    BY <1>4 DEF FetchMiss
  <2>3. ASSUME NEW pc \in {"missing", "fetch"}
        PROVE  Harmless(open[o].pc, [missed |-> TRUE, todo |-> tail, pc |-> pc])
    <3>. HIDE DEF tail
    <3>. QED  BY <2>1 DEF Harmless, Unchosen, Phases, Finished
  <2>. HIDE DEF tail
  <2>. QED  BY <2>2, <2>3
<1>5. CASE Fetched(o)
  <2>. DEFINE q == open[o].req
              y == resolve("task", q.id).prompt_first
              l == effective_limit("2b", q.max_length, open[o].spec)
  <2>1. open[o].pc = "fetch"
    BY <1>5 DEF Fetched
  <2>2. \/ Updates(o, [pc |-> "load", layout |-> y])
        \/ Updates(o, [pc |-> "load", limit |-> l])
        \/ Updates(o, [pc |-> "refused"]) \/ Updates(o, [pc |-> "load"])
    BY <1>5 DEF Fetched
  <2>3. /\ Harmless(open[o].pc, [pc |-> "load", layout |-> y])
        /\ Harmless(open[o].pc, [pc |-> "load", limit |-> l])
        /\ Harmless(open[o].pc, [pc |-> "refused"]) /\ Harmless(open[o].pc, [pc |-> "load"])
    <3>. HIDE DEF q, y, l
    <3>. QED  BY <2>1 DEF Harmless, Unchosen, Phases, Finished
  <2>. HIDE DEF q, y, l
  <2>. QED  BY <2>2, <2>3
<1>6. CASE Load(o)
  <2>1. open[o].pc = "load"
    BY <1>6 DEF Load
  <2>2. Updates(o, [pc |-> "ready"]) \/ Updates(o, [pc |-> "broken"])
    BY <1>6 DEF Load
  <2>3. Harmless(open[o].pc, [pc |-> "ready"]) /\ Harmless(open[o].pc, [pc |-> "broken"])
    BY <2>1 DEF Harmless, Unchosen, Phases, Finished
  <2>. QED  BY <2>2, <2>3
<1>7. CASE Lookup(o)
  <2>. DEFINE v == CacheVerdict(open[o].req, open[o].art, open[o].spec)
  <2>1. Updates(o, [pc |-> "reported", cached |-> v])
    BY <1>7 DEF Lookup
  <2>2. Harmless(open[o].pc, [pc |-> "reported", cached |-> v])
    <3>. HIDE DEF v
    <3>. QED  BY DEF Harmless, Unchosen, Phases, Finished
  <2>. HIDE DEF v
  <2>. QED  BY <2>1, <2>2
<1>. QED  BY <1>1, <1>2, <1>3, <1>4, <1>5, <1>6, <1>7 DEF OtherStep

\* So none of them can unpin a call.
LEMMA OtherPinned ==
  ASSUME PinnedInv, NEW o \in Openers, OtherStep(o)
  PROVE  Shape' /\ \A p \in Openers : Pinned(open[p])'
BY OtherUpdates, UpdatePinned DEF Harmless, Unchosen

-----------------------------------------------------------------------------
(* The hub and the cache                                                   *)

\* A ref has a first commit, and a natural number of them.
LEMMA HeadsShape ==
  ASSUME NEW r \in Refs
  PROVE  Len(Heads[r]) \in Nat \ {0} /\ DOMAIN Heads[r] = 1..Len(Heads[r])
<1>. DEFINE S == {Heads[r][i] : i \in DOMAIN Heads[r]}
<1>1. Heads[r] \in Seq(S) /\ Heads[r] # << >>
  BY HeadsAssumption
<1>2. ASSUME NEW T, NEW s \in Seq(T), s # << >>
      PROVE  Len(s) \in Nat \ {0} /\ DOMAIN s = 1..Len(s)
  BY <1>2
<1>. HIDE DEF S
<1>. QED  BY <1>1, <1>2

\* What a download puts into the cache the hub had published, and what a ref is
\* taken to stand for has a file in the cache.
LEMMA FetchWorld ==
  ASSUME PinnedInv, NEW o \in Openers, FetchFile(o)
  PROVE  World'
<1>. DEFINE c == open[o]
            new == <<c.art.repo, CommitOf(c), FileOf(c)>>
<1>1. /\ new \in Published /\ cache' = cache \cup {new}
      /\ ref' = IF RefOf(c) \in Refs THEN [ref EXCEPT ![RefOf(c)] = CommitOf(c)]
                                      ELSE ref
      /\ UNCHANGED <<online, head>>
  BY FetchFacts DEF PinnedInv
<1>2. World
  BY DEF PinnedInv
<1>3. cache' \subseteq Published
  BY <1>1, <1>2 DEF World
<1>4. ref' = [r \in Refs |-> ref'[r]]
  BY <1>1, <1>2 DEF World
<1>5. ASSUME NEW r \in Refs, ref'[r] # NoCommit
      PROVE  \E f \in {x[3] : x \in cache'} : <<r[1], ref'[r], f>> \in cache'
  <2>1. CASE ref'[r] = ref[r]
    <3>1. PICK f \in {x[3] : x \in cache} : <<r[1], ref[r], f>> \in cache
      BY <1>2, <1>5, <2>1 DEF World
    <3>2. <<r[1], ref[r], f>> \in cache'
      BY <1>1, <3>1
    <3>3. <<r[1], ref[r], f>>[3] = f
      OBVIOUS
    <3>4. f \in {x[3] : x \in cache'}
      BY <3>2, <3>3
    <3>. QED  BY <2>1, <3>2, <3>4
  <2>2. CASE ref'[r] # ref[r]
    <3>1. r = RefOf(c) /\ ref'[r] = CommitOf(c)
      BY <1>1, <1>2, <2>2 DEF World
    <3>2. r[1] = c.art.repo
      BY <3>1 DEF RefOf
    <3>3. new[3] = FileOf(c) /\ new \in cache'
      BY <1>1
    <3>. QED  BY <3>1, <3>2, <3>3
  <2>. QED  BY <2>1, <2>2
<1>. QED  BY <1>1, <1>2, <1>3, <1>4, <1>5 DEF World

\* A push stays within what its branch goes through.
LEMMA PushWorld ==
  ASSUME World, NEW r \in Refs, Push(r)
  PROVE  World'
<1>1. /\ head[r] < Len(Heads[r]) /\ head' = [head EXCEPT ![r] = @ + 1]
      /\ UNCHANGED <<online, ref, cache>>
  BY DEF Push
<1>2. Len(Heads[r]) \in Nat /\ head[r] \in 1..Len(Heads[r])
  BY HeadsShape DEF World
<1>3. head' = [x \in Refs |-> head'[x]] /\ \A x \in Refs : head'[x] \in 1..Len(Heads[x])
  BY <1>1, <1>2 DEF World
<1>. QED  BY <1>1, <1>3 DEF World

-----------------------------------------------------------------------------
(* The invariant                                                           *)

\* The invariant holds when nothing has been opened.
LEMMA InitPinned == AcquireInit => PinnedInv
<1>. SUFFICES ASSUME AcquireInit PROVE PinnedInv
  OBVIOUS
<1>1. TypeOK
  BY TypeInit DEF AcquireInit
<1>2. open = [o \in Openers |-> Closed]
  BY DEF AcquireInit
<1>3. IsCall(Closed) /\ Pinned(Closed)
  BY FreshIsCall DEF Closed, Fresh, Pinned, Phases, NoRequest
<1>4. Shape /\ \A o \in Openers : Pinned(open[o])
  BY <1>2, <1>3 DEF Shape
<1>5. \A r \in Refs : 1 \in 1..Len(Heads[r])
  BY HeadsShape
<1>6. World
  BY <1>5 DEF AcquireInit, World
<1>. QED  BY <1>1, <1>4, <1>6 DEF PinnedInv

\* The steps of a call.
LEMMA CallStepPinned ==
  ASSUME PinnedInv, NEW o \in Openers, OpenStep(o), UNCHANGED vars
  PROVE  PinnedInv'
<1>1. TypeOK'
  BY DEF PinnedInv, TypeOK, vars
<1>2. Shape' /\ \A p \in Openers : Pinned(open[p])'
  BY BeginPinned, ChoosePinned, FetchPinned, OtherPinned DEF OpenStep, OtherStep
<1>3. World'
  <2>1. CASE FetchFile(o)
    BY <2>1, FetchWorld
  <2>2. CASE ~FetchFile(o)
    <3>1. UNCHANGED fileVars
      BY <2>2 DEF OpenStep, Begin, Gate, GateSlots, GateCeiling, ChooseArtifact,
                  FetchMiss, Fetched, Load, Lookup
    <3>. QED  BY <3>1 DEF fileVars, PinnedInv, World
  <2>. QED  BY <2>1, <2>2
<1>. QED  BY <1>1, <1>2, <1>3 DEF PinnedInv

\* Steps of the registry and of the hub leave the calls alone.
LEMMA OpensUnmoved ==
  ASSUME PinnedInv, UNCHANGED open
  PROVE  Shape' /\ \A p \in Openers : Pinned(open[p])'
BY DEF PinnedInv, Shape, Pinned

\* Every step keeps the invariant.
LEMMA NextPinned == PinnedInv /\ [AcquireNext]_allVars => PinnedInv'
<1>. SUFFICES ASSUME PinnedInv, [AcquireNext]_allVars PROVE PinnedInv'
  OBVIOUS
<1>1. CASE RegistryStep /\ UNCHANGED acquireVars
  <2>1. Next
    BY <1>1 DEF RegistryStep, Next
  <2>2. TypeOK'
    BY <2>1, TypeKept DEF PinnedInv
  <2>3. World' /\ UNCHANGED open
    BY <1>1 DEF acquireVars, fileVars, PinnedInv, World
  <2>. QED  BY <2>2, <2>3, OpensUnmoved DEF PinnedInv
<1>2. ASSUME NEW o \in Openers, OpenStep(o), UNCHANGED vars
      PROVE  PinnedInv'
  BY <1>2, CallStepPinned
<1>3. ASSUME NEW r \in Refs, Push(r), UNCHANGED vars
      PROVE  PinnedInv'
  <2>1. TypeOK' /\ World' /\ UNCHANGED open
    BY <1>3, PushWorld DEF PinnedInv, TypeOK, vars, Push
  <2>. QED  BY <2>1, OpensUnmoved DEF PinnedInv
<1>4. CASE Disconnect /\ UNCHANGED vars
  <2>1. TypeOK' /\ World' /\ UNCHANGED open
    BY <1>4 DEF PinnedInv, TypeOK, vars, Disconnect, World
  <2>. QED  BY <2>1, OpensUnmoved DEF PinnedInv
<1>5. CASE UNCHANGED allVars
  <2>1. TypeOK' /\ World' /\ UNCHANGED open
    BY <1>5 DEF PinnedInv, TypeOK, vars, World, allVars, acquireVars, fileVars
  <2>. QED  BY <2>1, OpensUnmoved DEF PinnedInv
<1>. QED  BY <1>1, <1>2, <1>3, <1>4, <1>5 DEF AcquireNext

\* Hence it always holds.
LEMMA PinnedAlways == AcquireSpec => []PinnedInv
BY InitPinned, NextPinned, PTL DEF AcquireSpec

\* The variables keep their shape: what is cached the hub has published, what a ref
\* is taken to stand for has a file in the cache, and a call that fetches knows
\* its artifact.
THEOREM AcquireTypes == AcquireSpec => []AcquireTypeOK
<1>1. PinnedInv => AcquireTypeOK
  BY DEF PinnedInv, AcquireTypeOK, World, Pinned
<1>. QED  BY <1>1, PinnedAlways, PTL

-----------------------------------------------------------------------------
(* One entry for all the looks an open takes at the registry               *)

\* An id has one owner.
Unique ==
  \A side \in Sides : \A r1, r2 \in overlay[side] : r1.entry.id = r2.entry.id => r1 = r2

\* Registrations do not take an id that has an owner, and dropped ids stay dropped.
LEMMA UniqueKept ==
  ASSUME TypeOK, Unique, [Next]_vars
  PROVE  Unique' /\ dropped \subseteq dropped'
<1>1. CASE overlay' = overlay /\ dropped' = dropped
  BY <1>1 DEF Unique
<1>2. ASSUME NEW side \in Sides, NEW e, NEW from, Gains(side, e, from)
      PROVE  Unique' /\ dropped \subseteq dropped'
  <2>1. overlay' = [overlay EXCEPT ![side] = overlay[side] \cup {RowOf(e, from)}]
    BY <1>2 DEF Gains, TypeOK
  <2>2. \A r \in overlay[side] : r.entry.id # e.id
    BY <1>2 DEF Gains, OwnedIds
  <2>3. RowOf(e, from).entry = e
    BY DEF RowOf
  <2>4. \A s \in Sides : overlay'[s] = IF s = side THEN overlay[s] \cup {RowOf(e, from)}
                                                    ELSE overlay[s]
    BY <2>1 DEF TypeOK
  <2>. QED  BY <1>2, <2>2, <2>3, <2>4 DEF Unique, Gains
<1>3. ASSUME NEW side \in Sides, NEW id, Loses(side, id)
      PROVE  Unique' /\ dropped \subseteq dropped'
  BY <1>3 DEF Loses, TypeOK, Unique
<1>. QED  BY <1>1, <1>2, <1>3, OverlayStep

\* A row stays, unless its id is unregistered.
LEMMA RowStays ==
  ASSUME TypeOK, [Next]_vars, NEW side \in Sides, NEW r \in overlay[side],
         <<side, r.entry.id>> \notin dropped'
  PROVE  r \in overlay'[side]
<1>1. CASE overlay' = overlay
  BY <1>1
<1>2. ASSUME NEW s \in Sides, NEW e, NEW from, Gains(s, e, from)
      PROVE  r \in overlay'[side]
  BY <1>2 DEF Gains, TypeOK
<1>3. ASSUME NEW s \in Sides, NEW id, Loses(s, id)
      PROVE  r \in overlay'[side]
  <2>1. CASE s = side /\ id = r.entry.id
    <3>1. id \in OwnedIds(overlay[s])
      BY <2>1 DEF OwnedIds
    <3>. QED  BY <1>3, <2>1, <3>1 DEF Loses
  <2>2. CASE ~(s = side /\ id = r.entry.id)
    BY <1>3, <2>2 DEF Loses, TypeOK
  <2>. QED  BY <2>1, <2>2
<1>. QED  BY <1>1, <1>2, <1>3, OverlayStep

\* What an id resolves to depends on nothing but its owner.
OwnerOf(side, id) == CHOOSE r \in overlay[side] : r.entry.id = id

\* The owner of an id stays its owner, unless the id is unregistered.
LEMMA OwnerStays ==
  ASSUME TypeOK, Unique, [Next]_vars, NEW side \in Sides, NEW id,
         id \in OwnedIds(overlay[side]), <<side, id>> \notin dropped'
  PROVE  /\ id \in OwnedIds(overlay'[side])
         /\ OwnerOf(side, id)' = OwnerOf(side, id)
<1>1. PICK r \in overlay[side] : r.entry.id = id
  BY DEF OwnedIds
<1>2. OwnerOf(side, id) = r
  BY <1>1 DEF OwnerOf, Unique
<1>3. r \in overlay'[side]
  BY <1>1, RowStays
<1>4. \A x \in overlay'[side] : x.entry.id = id => x = r
  BY <1>1, <1>3, UniqueKept DEF Unique
<1>5. OwnerOf(side, id)' = r
  BY <1>1, <1>3, <1>4 DEF OwnerOf
<1>. QED  BY <1>1, <1>2, <1>3, <1>5 DEF OwnedIds

\* What an id has resolved to it goes on resolving to, unless it is unregistered.
LEMMA ResolvesAlike ==
  ASSUME TypeOK, Unique, [Next]_vars, NEW side \in Sides, NEW id,
         resolve(side, id) # NoSpec, <<side, id>> \notin dropped'
  PROVE  resolve(side, id)' = resolve(side, id)
<1>1. CASE id \in builtin_ids(side)
  BY <1>1 DEF resolve
<1>2. CASE id \notin builtin_ids(side)
  <2>1. id \in OwnedIds(overlay[side])
    BY <1>2 DEF resolve
  <2>2. /\ id \in OwnedIds(overlay'[side])
        /\ OwnerOf(side, id)' = OwnerOf(side, id)
    BY <2>1, OwnerStays
  <2>. DEFINE Of(e) ==
         Resolved(side, e,
           IF side = "task" THEN kind_extra_files(e.kind) \cup e.extra_files ELSE {},
           "registered", e.measured)
  <2>3. resolve(side, id) = Of(OwnerOf(side, id).entry)
    BY <1>2, <2>1 DEF resolve, OwnerOf
  <2>4. resolve(side, id)' = Of(OwnerOf(side, id)'.entry)
    BY <1>2, <2>2 DEF resolve, OwnerOf
  <2>. HIDE DEF Of
  <2>. QED  BY <2>2, <2>3, <2>4
<1>. QED  BY <1>1, <1>2

Early == {"idle", "gate", "gate2", "gate3"}

\* An entry a call has read, for an id nobody has unregistered since: the registry
\* still answers with it, and so has everything else the call has read been its.
Standing(c) ==
  /\ c.pc \in Early => c.spec = NoSpec
  /\ c.pc \in {"gate2", "gate3"} => c.req.loader = "decide"
  /\ c.pc \in Early \cup {"artifact"} => c.art = NoArtifact
  /\ c.spec # NoSpec /\ <<side_of(c.req.loader), c.req.id>> \notin dropped =>
       /\ resolve(side_of(c.req.loader), c.req.id) = c.spec
       /\ c.art # NoArtifact => c.art = Tier(c.spec, c.prec)
       /\ c.req.loader = "decide" /\ c.pc \in {"load", "ready"} =>
            c.layout = c.spec.prompt_first

StandingInv == PinnedInv /\ Unique /\ \A o \in Openers : Standing(open[o])

\* It is enough to look at the call that moves.
LEMMA MovedStanding ==
  ASSUME StandingInv, UNCHANGED vars, NEW o \in Openers, NEW c, Standing(c),
         open' = [open EXCEPT ![o] = c]
  PROVE  \A p \in Openers : Standing(open[p])'
<1>1. open' = [p \in Openers |-> IF p = o THEN c ELSE open[p]]
  BY DEF StandingInv, PinnedInv, Shape
<1>2. \A p \in Openers : open'[p] = IF p = o THEN c ELSE open[p]
  BY <1>1
<1>3. UNCHANGED <<overlay, dropped>>
  BY DEF vars
<1>4. \A side, id : resolve(side, id)' = resolve(side, id)
  BY <1>3 DEF resolve
<1>5. \A p \in Openers : Standing(open[p]) /\ (p = o => open'[p] = c)
                         /\ (p # o => open'[p] = open[p])
  BY <1>2 DEF StandingInv
<1>. QED  BY <1>3, <1>4, <1>5 DEF Standing

\* A call that begins has read nothing.
LEMMA BeginStanding ==
  ASSUME StandingInv, UNCHANGED vars, NEW o \in Openers, Begin(o)
  PROVE  \A p \in Openers : Standing(open[p])'
<1>1. PICK q \in Requests : open' = [open EXCEPT ![o] = Begun(q)]
  BY DEF Begin
<1>2. PICK c : c = Begun(q)
  OBVIOUS
<1>3. Standing(c)
  BY <1>2, FreshIsCall DEF Standing
<1>. QED  BY <1>1, <1>2, <1>3, MovedStanding

\* Neither what a call has read nor its entry changes in most of its steps.
LEMMA UpdateStanding ==
  ASSUME StandingInv, UNCHANGED vars, NEW o \in Openers, NEW fields, Updates(o, fields),
         DOMAIN fields \cap {"req", "spec", "prec", "art", "layout"} = {},
         "pc" \in DOMAIN fields =>
            /\ fields.pc \in Early => open[o].pc \in Early
            /\ fields.pc # "artifact"
            /\ fields.pc \in {"gate2", "gate3"} => open[o].req.loader = "decide"
            /\ fields.pc \in {"load", "ready"} =>
                 open[o].pc \in {"load", "ready"} \/ open[o].req.loader # "decide"
  PROVE  \A p \in Openers : Standing(open[p])'
<1>1. IsCall(open[o]) /\ Standing(open[o])
  BY DEF StandingInv, PinnedInv, Shape
<1>2. PICK c : c = Updated(open[o], fields)
  OBVIOUS
<1>3. open' = [open EXCEPT ![o] = c]
  BY <1>2, UpdatesOne DEF StandingInv, PinnedInv
<1>4. /\ c.req = open[o].req /\ c.spec = open[o].spec /\ c.prec = open[o].prec
      /\ c.art = open[o].art /\ c.layout = open[o].layout
      /\ c.pc = IF "pc" \in DOMAIN fields THEN fields.pc ELSE open[o].pc
  BY <1>1, <1>2, UpdatedFields DEF Fields
<1>5. Standing(c)
  BY <1>1, <1>4 DEF Standing
<1>. QED  BY <1>3, <1>5, MovedStanding

\* The look that keeps what it reads.
LEMMA ReadStanding ==
  ASSUME StandingInv, UNCHANGED vars, NEW o \in Openers, NEW l,
         open[o].pc \in Early,
         Updates(o, [pc |-> "artifact", limit |-> l,
                     spec |-> resolve(side_of(open[o].req.loader), open[o].req.id)])
  PROVE  \A p \in Openers : Standing(open[p])'
<1>. DEFINE s == resolve(side_of(open[o].req.loader), open[o].req.id)
            fields == [pc |-> "artifact", limit |-> l, spec |-> s]
<1>1. IsCall(open[o]) /\ Standing(open[o])
  BY DEF StandingInv, PinnedInv, Shape
<1>2. PICK c : c = Updated(open[o], fields)
  OBVIOUS
<1>3. open' = [open EXCEPT ![o] = c]
  BY <1>2, UpdatesOne DEF StandingInv, PinnedInv
<1>4. /\ DOMAIN fields = {"pc", "limit", "spec"}
      /\ fields.pc = "artifact" /\ fields.spec = s
  OBVIOUS
<1>5. /\ c.req = open[o].req /\ c.art = open[o].art
      /\ c.pc = "artifact" /\ c.spec = s
  <2>. HIDE DEF fields, s
  <2>. QED  BY <1>1, <1>2, <1>4, UpdatedFields DEF Fields
<1>6. c.art = NoArtifact
  BY <1>1, <1>5 DEF Standing
<1>7. Standing(c)
  BY <1>5, <1>6 DEF Standing, Early
<1>. QED  BY <1>3, <1>7, MovedStanding

\* The first looks at the registry.
LEMMA GatesStanding ==
  ASSUME StandingInv, UNCHANGED vars, NEW o \in Openers,
         Gate(o) \/ GateSlots(o) \/ GateCeiling(o)
  PROVE  \A p \in Openers : Standing(open[p])'
<1>1. open[o].pc \in Early
  BY DEF Gate, GateSlots, GateCeiling, Early
<1>2. ASSUME NEW pc \in {"refused", "gate2", "gate3"}, Updates(o, [pc |-> pc]),
             pc # "refused" => open[o].req.loader = "decide"
      PROVE  \A p \in Openers : Standing(open[p])'
  BY <1>1, <1>2, UpdateStanding
<1>3. CASE Gate(o)
  <2>. DEFINE q == open[o].req
              s == resolve(side_of(q.loader), q.id)
              l == IF q.loader \in {"text", "rerank", "laya"}
                     THEN effective_limit(q.loader, q.max_length, s) ELSE 0
  <2>1. \/ Updates(o, [pc |-> "refused"])
        \/ Updates(o, [pc |-> "gate2"]) /\ q.loader = "decide"
        \/ Updates(o, [pc |-> "artifact", spec |-> s, limit |-> l])
    BY <1>3 DEF Gate
  <2>2. [pc |-> "artifact", spec |-> s, limit |-> l]
          = [pc |-> "artifact", limit |-> l, spec |-> s]
    OBVIOUS
  <2>. HIDE DEF l
  <2>. QED  BY <1>1, <1>2, <2>1, <2>2, ReadStanding
<1>4. CASE GateSlots(o)
  <2>1. open[o].req.loader = "decide"
    BY <1>4 DEF GateSlots, StandingInv, Standing
  <2>2. Updates(o, [pc |-> "refused"]) \/ Updates(o, [pc |-> "gate3"])
    BY <1>4 DEF GateSlots
  <2>. QED  BY <1>2, <2>1, <2>2
<1>5. CASE GateCeiling(o)
  <2>. DEFINE q == open[o].req
              s == resolve("task", q.id)
              l == effective_limit("decide", q.max_length, s)
  <2>1. \/ Updates(o, [pc |-> "refused"])
        \/ Updates(o, [pc |-> "artifact", spec |-> s, limit |-> l])
    BY <1>5 DEF GateCeiling
  <2>2. [pc |-> "artifact", spec |-> s, limit |-> l]
          = [pc |-> "artifact", limit |-> l, spec |-> s]
    OBVIOUS
  <2>3. side_of(q.loader) = "task"
    BY <1>5 DEF GateCeiling, StandingInv, Standing, side_of
  <2>. HIDE DEF l
  <2>. QED  BY <1>1, <1>2, <2>1, <2>2, <2>3, ReadStanding
<1>. QED  BY <1>3, <1>4, <1>5

\* The artifact is a tier of that entry.
LEMMA ChooseStanding ==
  ASSUME StandingInv, UNCHANGED vars, NEW o \in Openers, ChooseArtifact(o)
  PROVE  \A p \in Openers : Standing(open[p])'
<1>. DEFINE d == open[o]
            q == open[o].req
            prec == resolve_precision(q.precision, q.cuda)
            side == IF q.loader = "info"
                      THEN IF open[o].spec # NoSpec THEN "task" ELSE "model"
                      ELSE side_of(q.loader)
            a == artifact_for(side, q.id, prec)
            fields == [pc |-> IF q.loader = "info" THEN "lookup" ELSE "fetch",
                       prec |-> prec, art |-> a, rev |-> revision_of(q, a),
                       todo |-> Fetches(q.loader, a, open[o].spec, prec)]
<1>1. /\ d.pc = "artifact"
      /\ IF parse_owner_name(a.repo) THEN Updates(o, fields)
                                     ELSE Updates(o, [pc |-> "refused"])
  BY DEF ChooseArtifact
<1>2. CASE ~parse_owner_name(a.repo)
  BY <1>1, <1>2, UpdateStanding DEF Early
<1>3. CASE parse_owner_name(a.repo)
  <2>1. IsCall(d) /\ Standing(d)
    BY DEF StandingInv, PinnedInv, Shape
  <2>2. PICK c : c = Updated(d, fields)
    OBVIOUS
  <2>3. open' = [open EXCEPT ![o] = c]
    BY <1>1, <1>3, <2>2, UpdatesOne DEF StandingInv, PinnedInv
  <2>4. /\ DOMAIN fields = {"pc", "prec", "art", "rev", "todo"}
        /\ fields.art = a /\ fields.prec = prec /\ fields.pc \in {"lookup", "fetch"}
    OBVIOUS
  <2>5. /\ c.req = q /\ c.spec = d.spec /\ c.art = a /\ c.prec = prec
        /\ c.pc \in {"lookup", "fetch"}
    <3>. HIDE DEF fields, a, prec
    <3>. QED  BY <2>1, <2>2, <2>4, UpdatedFields DEF Fields
  <2>6. ASSUME d.spec # NoSpec, <<side_of(q.loader), q.id>> \notin dropped
        PROVE  /\ resolve(side_of(q.loader), q.id) = d.spec
               /\ a = Tier(d.spec, prec)
    <3>1. resolve(side_of(q.loader), q.id) = d.spec
      BY <2>1, <2>6 DEF Standing
    <3>2. side = side_of(q.loader)
      BY <2>6 DEF side_of
    <3>. HIDE DEF prec, side
    <3>. QED  BY <2>6, <3>1, <3>2 DEF artifact_for
  <2>7. Standing(c)
    <3>. HIDE DEF a, prec, q, d
    <3>. QED  BY <2>5, <2>6 DEF Standing, Early
  <2>. QED  BY <2>3, <2>7, MovedStanding
<1>. QED  BY <1>2, <1>3

\* Decider's last look finds the layout of that entry.
LEMMA FetchedStanding ==
  ASSUME StandingInv, UNCHANGED vars, NEW o \in Openers, Fetched(o)
  PROVE  \A p \in Openers : Standing(open[p])'
<1>. DEFINE d == open[o]
            y == resolve("task", d.req.id).prompt_first
            l == effective_limit("2b", d.req.max_length, d.spec)
<1>1. d.pc = "fetch" /\ IsCall(d) /\ Standing(d)
  BY DEF StandingInv, PinnedInv, Shape, Fetched
<1>2. CASE d.req.loader = "decide"
  <2>. DEFINE fields == [pc |-> "load", layout |-> y]
  <2>1. Updates(o, fields)
    BY <1>2 DEF Fetched
  <2>2. PICK c : c = Updated(d, fields)
    OBVIOUS
  <2>3. open' = [open EXCEPT ![o] = c]
    BY <2>1, <2>2, UpdatesOne DEF StandingInv, PinnedInv
  <2>4. DOMAIN fields = {"pc", "layout"} /\ fields.pc = "load" /\ fields.layout = y
    OBVIOUS
  <2>5. /\ c.req = d.req /\ c.spec = d.spec /\ c.art = d.art /\ c.prec = d.prec
        /\ c.pc = "load" /\ c.layout = y
    <3>. HIDE DEF fields, y
    <3>. QED  BY <1>1, <2>2, <2>4, UpdatedFields DEF Fields
  <2>6. side_of(d.req.loader) = "task"
    BY <1>2 DEF side_of
  <2>7. Standing(c)
    BY <1>1, <1>2, <2>5, <2>6 DEF Standing, Early
  <2>. QED  BY <2>3, <2>7, MovedStanding
<1>3. CASE d.req.loader # "decide"
  <2>1. \/ Updates(o, [pc |-> "load", limit |-> l])
        \/ Updates(o, [pc |-> "refused"]) \/ Updates(o, [pc |-> "load"])
    BY <1>3 DEF Fetched
  <2>2. ASSUME Updates(o, [pc |-> "load", limit |-> l])
        PROVE  \A p \in Openers : Standing(open[p])'
    <3>. HIDE DEF l
    <3>. QED  BY <1>3, <2>2, UpdateStanding DEF Early
  <2>3. ASSUME NEW pc \in {"refused", "load"}, Updates(o, [pc |-> pc])
        PROVE  \A p \in Openers : Standing(open[p])'
    BY <1>3, <2>3, UpdateStanding DEF Early
  <2>. QED  BY <2>1, <2>2, <2>3
<1>. QED  BY <1>2, <1>3

\* The steps that do not look at the registry.
LEMMA FilesStanding ==
  ASSUME StandingInv, UNCHANGED vars, NEW o \in Openers,
         FetchFile(o) \/ FetchMiss(o) \/ Load(o) \/ Lookup(o)
  PROVE  \A p \in Openers : Standing(open[p])'
<1>1. CASE FetchFile(o)
  <2>1. Updates(o, [todo |-> Tail(open[o].todo), got |-> open[o].got \cup {Gotten(open[o])}])
    BY <1>1, FetchFacts DEF StandingInv, PinnedInv
  <2>. QED  BY <2>1, UpdateStanding
<1>2. CASE FetchMiss(o)
  <2>. DEFINE tail == Tail(open[o].todo)
  <2>1. PICK pc \in {"missing", "fetch"} :
          Updates(o, [missed |-> TRUE, todo |-> tail, pc |-> pc])
    BY <1>2 DEF FetchMiss
  <2>. HIDE DEF tail
  <2>. QED  BY <2>1, UpdateStanding DEF Early
<1>3. CASE Load(o)
  <2>1. open[o].pc = "load"
    BY <1>3 DEF Load
  <2>2. PICK pc \in {"ready", "broken"} : Updates(o, [pc |-> pc])
    BY <1>3 DEF Load
  <2>. QED  BY <2>1, <2>2, UpdateStanding DEF Early
<1>4. CASE Lookup(o)
  <2>. DEFINE v == CacheVerdict(open[o].req, open[o].art, open[o].spec)
  <2>1. Updates(o, [pc |-> "reported", cached |-> v])
    BY <1>4 DEF Lookup
  <2>. HIDE DEF v
  <2>. QED  BY <2>1, UpdateStanding DEF Early
<1>. QED  BY <1>1, <1>2, <1>3, <1>4

\* Registrations and unregistrations of others.
LEMMA RegistryStanding ==
  ASSUME StandingInv, [Next]_vars, UNCHANGED open
  PROVE  Unique' /\ \A p \in Openers : Standing(open[p])'
<1>1. TypeOK /\ Unique /\ \A p \in Openers : Standing(open[p])
  BY DEF StandingInv, PinnedInv
<1>2. Unique' /\ dropped \subseteq dropped'
  BY <1>1, UniqueKept
<1>3. ASSUME NEW p \in Openers
      PROVE  Standing(open[p])'
  <2>. DEFINE c == open[p]
              side == side_of(c.req.loader)
  <2>1. PICK i : i = c.req.id
    OBVIOUS
  <2>2. PICK s \in Sides : s = side
    BY DEF side_of, Sides
  <2>3. c' = c
    OBVIOUS
  <2>4. ASSUME c.spec # NoSpec, <<s, i>> \notin dropped'
        PROVE  resolve(s, i)' = c.spec /\ <<s, i>> \notin dropped
    <3>1. <<s, i>> \notin dropped /\ resolve(s, i) = c.spec
      BY <1>1, <1>2, <2>1, <2>2, <2>4 DEF Standing
    <3>. QED  BY <1>1, <2>4, <3>1, ResolvesAlike
  <2>5. Standing(c)
    BY <1>1
  <2>6. resolve(side, c.req.id)' = resolve(s, i)' /\ side' = s /\ c.req.id' = i
    BY <2>1, <2>2, <2>3
  <2>. QED  BY <2>1, <2>2, <2>3, <2>4, <2>5, <2>6 DEF Standing
<1>. QED  BY <1>2, <1>3

\* Every step keeps the invariant.
LEMMA NextStanding == StandingInv /\ [AcquireNext]_allVars => StandingInv'
<1>. SUFFICES ASSUME StandingInv, [AcquireNext]_allVars PROVE StandingInv'
  OBVIOUS
<1>1. PinnedInv'
  BY NextPinned DEF StandingInv
<1>2. CASE [Next]_vars /\ UNCHANGED open
  BY <1>1, <1>2, RegistryStanding DEF StandingInv
<1>3. ASSUME NEW o \in Openers, OpenStep(o), UNCHANGED vars
      PROVE  StandingInv'
  <2>1. Unique'
    BY <1>3 DEF StandingInv, Unique, vars
  <2>2. \A p \in Openers : Standing(open[p])'
    BY <1>3, BeginStanding, GatesStanding, ChooseStanding, FetchedStanding, FilesStanding
       DEF OpenStep
  <2>. QED  BY <1>1, <2>1, <2>2 DEF StandingInv
<1>4. CASE RegistryStep /\ UNCHANGED acquireVars
  BY <1>2, <1>4 DEF RegistryStep, Next, acquireVars
<1>5. CASE \E r \in Refs : Push(r) /\ UNCHANGED vars
  BY <1>2, <1>5 DEF Push
<1>6. CASE Disconnect /\ UNCHANGED vars
  BY <1>2, <1>6 DEF Disconnect
<1>7. CASE UNCHANGED allVars
  BY <1>2, <1>7 DEF allVars, acquireVars
<1>. QED  BY <1>3, <1>4, <1>5, <1>6, <1>7 DEF AcquireNext

\* Hence it always holds.
LEMMA StandingAlways == AcquireSpec => []StandingInv
<1>1. AcquireInit => StandingInv
  <2>. SUFFICES ASSUME AcquireInit PROVE StandingInv
    OBVIOUS
  <2>1. PinnedInv
    BY InitPinned
  <2>2. Unique /\ \A o \in Openers : open[o] = Closed
    BY DEF AcquireInit, Init, Unique
  <2>3. Standing(Closed)
    BY DEF Standing, Closed, Fresh
  <2>. QED  BY <2>1, <2>2, <2>3 DEF StandingInv
<1>. QED  BY <1>1, NextStanding, PTL DEF AcquireSpec

\* An open works with the entry it read first, although it reads the registry up to
\* four times and others register and unregister in between.
THEOREM OneEntryHolds == AcquireSpec => []OneEntryPerOpen
<1>1. StandingInv => OneEntryPerOpen
  <2>. SUFFICES ASSUME StandingInv, NEW o \in Openers, Undisturbed(o)
                PROVE  /\ open[o].art # NoArtifact => open[o].art = Tier(open[o].spec, open[o].prec)
                       /\ open[o].req.loader = "decide" /\ open[o].pc \in {"load", "ready"}
                            => open[o].layout = open[o].spec.prompt_first
    BY DEF OneEntryPerOpen
  <2>1. Standing(open[o])
    BY DEF StandingInv
  <2>2. open[o].spec # NoSpec /\ <<side_of(open[o].req.loader), open[o].req.id>> \notin dropped
    BY DEF Undisturbed, side_of
  <2>. QED  BY <2>1, <2>2 DEF Standing
<1>. QED  BY <1>1, StandingAlways, PTL

-----------------------------------------------------------------------------
(* Refs move forward for an open that follows them                         *)

\* A commit the ref has been at, no later than the one the cache holds for it.
NoLater(r, commit) ==
  \E i, j \in 1..head[r] : i <= j /\ Heads[r][i] = commit /\ Heads[r][j] = ref[r]

\* Where the ref was when a file was taken; if it has stood still since, the file is
\* of the commit the cache holds for it, and online that is the one it stands for.
Stamped(r, g) ==
  /\ NoLater(r, g.commit)
  /\ g.at \in 1..head[r]
  /\ g.at = head[r] =>
       g.commit = ref[r] /\ (online => ref[r] = Heads[r][head[r]])

RefReached == \A r \in Refs : ref[r] # NoCommit => NoLater(r, ref[r])
Behind(c) ==
  /\ RefOf(c) \in Refs => \A g \in c.got : Stamped(RefOf(c), g)
  /\ \A g1, g2 \in c.got : g1.at = g2.at => g1.commit = g2.commit
ForwardInv == PinnedInv /\ RefReached /\ \A o \in Openers : Behind(open[o])

\* What a download by a ref takes is, from then on, what the ref stands for.
LEMMA FetchFollows ==
  ASSUME PinnedInv, NEW o \in Openers, FetchFile(o), NEW r \in Refs, RefOf(open[o]) = r
  PROVE  /\ ref' = [ref EXCEPT ![r] = CommitOf(open[o])]
         /\ ref'[r] = CommitOf(open[o])
         /\ CommitOf(open[o]) # NoCommit
         /\ CommitOf(open[o]) = IF online THEN Heads[r][head[r]] ELSE ref[r]
         /\ UNCHANGED <<online, head>>
<1>. DEFINE c == open[o]
            new == <<c.art.repo, CommitOf(c), FileOf(c)>>
<1>1. /\ new \in Published /\ ref' = [ref EXCEPT ![r] = CommitOf(c)]
      /\ UNCHANGED <<online, head>>
  BY FetchFacts DEF PinnedInv
<1>2. new[2] = CommitOf(c)
  OBVIOUS
<1>3. CommitOf(c) # NoCommit
  BY <1>1, <1>2, PublishedAssumption
<1>4. CommitOf(c) = IF online THEN Heads[r][head[r]] ELSE ref[r]
  BY DEF CommitOf, HubCommit, LocalCommit, RefOf
<1>5. ref'[r] = CommitOf(c)
  BY <1>1 DEF PinnedInv, World
<1>. QED  BY <1>1, <1>3, <1>4, <1>5

\* A ref never moves back, the network does not return, and the cache holds for the
\* ref what it held or, from the hub, what the ref stands for.
RefMoves(r) ==
  /\ head[r] \in Nat /\ head'[r] \in Nat /\ head[r] <= head'[r]
  /\ online' => online
  /\ \/ ref'[r] = ref[r]
     \/ online /\ head'[r] = head[r] /\ ref'[r] = Heads[r][head'[r]]

LEMMA RefsAdvance ==
  ASSUME PinnedInv, [AcquireNext]_allVars, NEW r \in Refs
  PROVE  RefMoves(r)
<1>1. /\ head[r] \in Nat /\ head = [x \in Refs |-> head[x]] /\ ref = [x \in Refs |-> ref[x]]
      /\ online \in BOOLEAN
  BY HeadsShape DEF PinnedInv, World
<1>2. CASE UNCHANGED <<head, ref, online>>
  BY <1>1, <1>2 DEF RefMoves
<1>3. ASSUME NEW x \in Refs, Push(x)
      PROVE  RefMoves(r)
  BY <1>1, <1>3 DEF Push, RefMoves
<1>4. ASSUME NEW o \in Openers, FetchFile(o)
      PROVE  RefMoves(r)
  <2>1. CASE RefOf(open[o]) \in Refs
    <3>1. PICK x \in Refs : x = RefOf(open[o])
      BY <2>1
    <3>2. /\ ref' = [ref EXCEPT ![x] = CommitOf(open[o])]
          /\ CommitOf(open[o]) = IF online THEN Heads[x][head[x]] ELSE ref[x]
          /\ UNCHANGED <<online, head>>
      BY <1>4, <3>1, FetchFollows
    <3>. QED  BY <1>1, <3>2 DEF RefMoves
  <2>2. CASE RefOf(open[o]) \notin Refs
    <3>1. UNCHANGED <<head, ref, online>>
      BY <1>4, <2>2, FetchFacts DEF PinnedInv
    <3>. QED  BY <1>2, <3>1
  <2>. QED  BY <2>1, <2>2
<1>5. ASSUME NEW o \in Openers, OpenStep(o), ~FetchFile(o)
      PROVE  UNCHANGED <<head, ref, online>>
  BY <1>5 DEF OpenStep, fileVars, Begin, Gate, GateSlots, GateCeiling, ChooseArtifact,
              FetchMiss, Fetched, Load, Lookup
<1>6. CASE Disconnect
  BY <1>1, <1>6 DEF Disconnect, RefMoves
<1>7. CASE AcquireNext
  BY <1>2, <1>3, <1>4, <1>5, <1>6, <1>7 DEF AcquireNext, acquireVars, fileVars
<1>8. CASE UNCHANGED allVars
  BY <1>2, <1>8 DEF allVars, acquireVars, fileVars
<1>. QED  BY <1>7, <1>8

\* A commit the cache is level with or past stays one.
LEMMA NoLaterKept ==
  ASSUME PinnedInv, [AcquireNext]_allVars, NEW r \in Refs, NEW commit, NoLater(r, commit)
  PROVE  NoLater(r, commit)'
<1>1. /\ head[r] \in Nat /\ head'[r] \in Nat /\ head[r] <= head'[r]
      /\ ref'[r] = ref[r] \/ ref'[r] = Heads[r][head'[r]]
  BY RefsAdvance DEF RefMoves
<1>2. PICK i \in 1..head[r], j \in 1..head[r] :
        i <= j /\ Heads[r][i] = commit /\ Heads[r][j] = ref[r]
  BY DEF NoLater
<1>3. /\ i \in 1..head'[r] /\ j \in 1..head'[r] /\ head'[r] \in 1..head'[r]
      /\ i <= head'[r]
  BY <1>1, <1>2
<1>. QED  BY <1>1, <1>2, <1>3 DEF NoLater

\* What is true of a file that was taken stays true.
LEMMA StampedKept ==
  ASSUME PinnedInv, [AcquireNext]_allVars, NEW r \in Refs, NEW g, Stamped(r, g)
  PROVE  Stamped(r, g)'
<1>1. NoLater(r, g.commit)'
  <2>1. PICK commit : commit = g.commit
    OBVIOUS
  <2>2. NoLater(r, commit)'
    BY <2>1, NoLaterKept DEF Stamped
  <2>. QED  BY <2>1, <2>2
<1>2. PICK at : at = g.at
  OBVIOUS
<1>3. /\ at \in 1..head[r]
      /\ at = head[r] => g.commit = ref[r] /\ (online => ref[r] = Heads[r][head[r]])
  BY <1>2 DEF Stamped
<1>4. RefMoves(r)
  BY RefsAdvance
<1>5. at \in 1..head'[r] /\ (at = head'[r] => head'[r] = head[r])
  BY <1>3, <1>4 DEF RefMoves
<1>6. at = head'[r] => g.commit = ref'[r] /\ (online' => ref'[r] = Heads[r][head'[r]])
  BY <1>3, <1>4, <1>5 DEF RefMoves
<1>. QED  BY <1>1, <1>2, <1>5, <1>6 DEF Stamped

\* What the cache holds for a ref is a commit the ref has been at.
LEMMA RefReachedKept ==
  ASSUME PinnedInv, PinnedInv', RefReached, [AcquireNext]_allVars
  PROVE  RefReached'
<1>. SUFFICES ASSUME NEW r \in Refs, ref'[r] # NoCommit
              PROVE  NoLater(r, ref[r])'
  BY DEF RefReached
<1>1. CASE ref'[r] = ref[r]
  <2>1. NoLater(r, ref[r])
    BY <1>1 DEF RefReached
  <2>2. PICK commit : commit = ref[r]
    OBVIOUS
  <2>3. NoLater(r, commit)'
    BY <2>1, <2>2, NoLaterKept
  <2>. QED  BY <1>1, <2>2, <2>3 DEF NoLater
<1>2. CASE ref'[r] = Heads[r][head'[r]]
  <2>1. head'[r] \in 1..Len(Heads[r])
    BY DEF PinnedInv, World
  <2>2. Len(Heads[r]) \in Nat
    BY HeadsShape
  <2>3. head'[r] \in 1..head'[r] /\ head'[r] <= head'[r]
    BY <2>1, <2>2
  <2>. QED  BY <1>2, <2>3 DEF NoLater
<1>. QED  BY <1>1, <1>2, RefsAdvance DEF RefMoves

\* A call starts with nothing, and nothing but a download changes what it has.
LEMMA CallMoves ==
  ASSUME PinnedInv, NEW o \in Openers, OpenStep(o)
  PROVE  /\ \A p \in Openers : p # o => open'[p] = open[p]
         /\ \/ open'[o].got = {}
            \/ /\ open'[o].art = open[o].art /\ open'[o].rev = open[o].rev
               /\ \/ open'[o].got = open[o].got
                  \/ FetchFile(o) /\ open'[o].got = open[o].got \cup {Gotten(open[o])}
<1>. DEFINE c == open[o]
<1>1. open = [p \in Openers |-> open[p]] /\ IsCall(c) /\ Pinned(c)
  BY DEF PinnedInv, Shape
<1>2. ASSUME NEW d, open' = [open EXCEPT ![o] = d]
      PROVE  open'[o] = d /\ \A p \in Openers : p # o => open'[p] = open[p]
  BY <1>1, <1>2
<1>3. ASSUME NEW fields, Updates(o, fields)
      PROVE  /\ \A p \in Openers : p # o => open'[p] = open[p]
             /\ \A f \in Fields :
                  open'[o][f] = IF f \in DOMAIN fields THEN fields[f] ELSE c[f]
  <2>1. PICK d : d = Updated(c, fields)
    OBVIOUS
  <2>2. open' = [open EXCEPT ![o] = d]
    BY <1>3, <2>1, UpdatesOne DEF PinnedInv
  <2>3. open'[o] = d /\ \A p \in Openers : p # o => open'[p] = open[p]
    BY <1>2, <2>2
  <2>4. \A f \in Fields : d[f] = IF f \in DOMAIN fields THEN fields[f] ELSE c[f]
    BY <1>1, <2>1, UpdatedFields
  <2>. QED  BY <2>3, <2>4
<1>4. CASE Begin(o)
  <2>1. PICK q \in Requests : open' = [open EXCEPT ![o] = Begun(q)]
    BY <1>4 DEF Begin
  <2>2. PICK d : d = Begun(q)
    OBVIOUS
  <2>3. d.got = {}
    BY <2>2, FreshIsCall
  <2>. QED  BY <1>2, <2>1, <2>2, <2>3
<1>5. CASE ChooseArtifact(o)
  <2>. DEFINE q == open[o].req
              prec == resolve_precision(q.precision, q.cuda)
              side == IF q.loader = "info"
                        THEN IF open[o].spec # NoSpec THEN "task" ELSE "model"
                        ELSE side_of(q.loader)
              a == artifact_for(side, q.id, prec)
              fields == [pc |-> IF q.loader = "info" THEN "lookup" ELSE "fetch",
                         prec |-> prec, art |-> a, rev |-> revision_of(q, a),
                         todo |-> Fetches(q.loader, a, open[o].spec, prec)]
  <2>1. c.pc = "artifact" /\ (Updates(o, fields) \/ Updates(o, [pc |-> "refused"]))
    BY <1>5 DEF ChooseArtifact
  <2>2. c.got = {}
    BY <1>1, <2>1 DEF Pinned
  <2>3. "got" \in Fields /\ "got" \notin DOMAIN fields
    BY DEF Fields
  <2>4. ASSUME Updates(o, fields)
        PROVE  open'[o].got = {} /\ \A p \in Openers : p # o => open'[p] = open[p]
    <3>. HIDE DEF fields
    <3>. QED  BY <1>3, <2>2, <2>3, <2>4
  <2>5. ASSUME Updates(o, [pc |-> "refused"])
        PROVE  open'[o].got = {} /\ \A p \in Openers : p # o => open'[p] = open[p]
    BY <1>3, <2>2, <2>5 DEF Fields
  <2>. HIDE DEF fields
  <2>. QED  BY <2>1, <2>4, <2>5
<1>6. CASE FetchFile(o)
  <2>. DEFINE fields == [todo |-> Tail(c.todo), got |-> c.got \cup {Gotten(c)}]
  <2>1. Updates(o, fields)
    BY <1>6, FetchFacts DEF PinnedInv
  <2>2. DOMAIN fields = {"todo", "got"} /\ fields.got = c.got \cup {Gotten(c)}
    OBVIOUS
  <2>. HIDE DEF fields
  <2>3. /\ open'[o].art = c.art /\ open'[o].rev = c.rev
        /\ open'[o].got = c.got \cup {Gotten(c)}
        /\ \A p \in Openers : p # o => open'[p] = open[p]
    BY <1>3, <2>1, <2>2 DEF Fields
  <2>. QED  BY <1>6, <2>3
<1>7. CASE OtherStep(o)
  <2>1. PICK fields : Updates(o, fields) /\ Harmless(c.pc, fields)
    BY <1>7, OtherUpdates
  <2>2. /\ open'[o].art = c.art /\ open'[o].rev = c.rev /\ open'[o].got = c.got
        /\ \A p \in Openers : p # o => open'[p] = open[p]
    BY <1>3, <2>1 DEF Harmless, Fields
  <2>. QED  BY <2>2
<1>. QED  BY <1>4, <1>5, <1>6, <1>7 DEF OpenStep, OtherStep

\* A file taken by a ref is stamped with where the ref is.
LEMMA GottenStamped ==
  ASSUME PinnedInv, PinnedInv', RefReached', NEW o \in Openers, FetchFile(o),
         NEW r \in Refs, RefOf(open[o]) = r, NEW g, g = Gotten(open[o])
  PROVE  Stamped(r, g)'
<1>1. open[o].pc = "fetch"
  BY DEF FetchFile
<1>2. g.commit = CommitOf(open[o]) /\ g.at = head[r]
  BY <1>1, GottenStamp
<1>3. /\ ref'[r] = g.commit /\ g.commit # NoCommit /\ UNCHANGED <<online, head>>
      /\ online => g.commit = Heads[r][head[r]]
  BY <1>2, FetchFollows
<1>4. head'[r] \in 1..Len(Heads[r]) /\ Len(Heads[r]) \in Nat
  BY HeadsShape DEF PinnedInv, World
<1>5. g.at = head'[r] /\ head'[r] \in 1..head'[r]
  BY <1>2, <1>3, <1>4
<1>6. NoLater(r, g.commit)'
  BY <1>3 DEF RefReached, NoLater
<1>. QED  BY <1>3, <1>5, <1>6 DEF Stamped

\* What is true of the files of a call stays true.
LEMMA BehindKept ==
  ASSUME PinnedInv, [AcquireNext]_allVars, NEW c, Behind(c)
  PROVE  (Behind(c))'
<1>1. ASSUME RefOf(c) \in Refs, NEW g \in c.got
      PROVE  Stamped(RefOf(c), g)'
  <2>1. PICK r \in Refs : r = RefOf(c)
    BY <1>1
  <2>2. Stamped(r, g)'
    BY <1>1, <2>1, StampedKept DEF Behind
  <2>. QED  BY <2>1, <2>2 DEF RefOf
<1>. QED  BY <1>1 DEF Behind, RefOf

\* Two files a call has taken while its ref stood still are of one commit.
LEMMA GottenAlike ==
  ASSUME PinnedInv, NEW o \in Openers, Behind(open[o]), FetchFile(o),
         NEW g \in open[o].got, g.at = Gotten(open[o]).at
  PROVE  g.commit = Gotten(open[o]).commit
<1>. DEFINE c == open[o]
<1>1. c.pc = "fetch"
  BY DEF FetchFile
<1>2. CASE RefOf(c) \in Refs
  <2>1. PICK r \in Refs : r = RefOf(c)
    BY <1>2
  <2>2. g.at = head[r] /\ Gotten(c).commit = CommitOf(c)
    BY <1>1, <2>1, GottenStamp
  <2>3. g.commit = ref[r] /\ (online => ref[r] = Heads[r][head[r]])
    BY <2>1, <2>2 DEF Behind, Stamped
  <2>4. CommitOf(c) = IF online THEN Heads[r][head[r]] ELSE ref[r]
    BY <2>1, FetchFollows
  <2>. QED  BY <2>2, <2>3, <2>4
<1>3. CASE RefOf(c) \notin Refs
  <2>1. g.commit = c.rev
    BY <1>3 DEF PinnedInv, Pinned
  <2>. QED  BY <1>1, <1>3, <2>1, GottenStamp
<1>. QED  BY <1>2, <1>3

\* Every step keeps the invariant.
LEMMA NextForward == ForwardInv /\ [AcquireNext]_allVars => ForwardInv'
<1>. SUFFICES ASSUME ForwardInv, [AcquireNext]_allVars PROVE ForwardInv'
  OBVIOUS
<1>1. PinnedInv /\ PinnedInv' /\ RefReached'
  BY NextPinned, RefReachedKept DEF ForwardInv
<1>2. ASSUME NEW p \in Openers, open'[p].art = open[p].art, open'[p].rev = open[p].rev,
             open'[p].got = open[p].got
      PROVE  Behind(open[p])'
  <2>1. PICK c : c = open[p]
    OBVIOUS
  <2>2. (Behind(c))'
    BY <1>1, <2>1, BehindKept DEF ForwardInv
  <2>3. open'[p].art = c.art /\ open'[p].rev = c.rev /\ open'[p].got = c.got
    BY <1>2, <2>1
  <2>. QED  BY <2>2, <2>3 DEF Behind, RefOf
<1>3. ASSUME NEW o \in Openers, OpenStep(o)
      PROVE  Behind(open[o])'
  <2>1. CASE open'[o].got = {}
    BY <2>1 DEF Behind
  <2>2. CASE /\ open'[o].art = open[o].art /\ open'[o].rev = open[o].rev
             /\ open'[o].got = open[o].got
    BY <1>2, <2>2
  <2>3. CASE /\ open'[o].art = open[o].art /\ open'[o].rev = open[o].rev
             /\ FetchFile(o) /\ open'[o].got = open[o].got \cup {Gotten(open[o])}
    <3>1. PICK c, d, new : c = open[o] /\ d = open'[o] /\ new = Gotten(open[o])
      OBVIOUS
    <3>2. d.got = c.got \cup {new} /\ RefOf(d) = RefOf(c)
      BY <2>3, <3>1 DEF RefOf
    <3>3. Behind(c) /\ (Behind(c))'
      BY <1>1, <3>1, BehindKept DEF ForwardInv
    <3>4. \A g \in c.got : g.at = new.at => g.commit = new.commit
      BY <1>1, <2>3, <3>1, <3>3, GottenAlike
    <3>5. \A g1, g2 \in d.got : g1.at = g2.at => g1.commit = g2.commit
      BY <3>2, <3>3, <3>4 DEF Behind
    <3>6. ASSUME RefOf(c) \in Refs
          PROVE  \A g \in d.got : Stamped(RefOf(d), g)'
      <4>1. PICK r \in Refs : r = RefOf(c)
        BY <3>6
      <4>2. Stamped(r, new)'
        BY <1>1, <2>3, <3>1, <4>1, GottenStamped
      <4>3. \A g \in c.got : Stamped(r, g)'
        BY <3>3, <3>6, <4>1 DEF Behind, RefOf
      <4>. QED  BY <3>2, <4>1, <4>2, <4>3 DEF RefOf
    <3>7. (Behind(d))'
      BY <3>2, <3>5, <3>6 DEF Behind, RefOf
    <3>8. open'[o] = d
      BY <3>1
    <3>. QED  BY <3>7, <3>8 DEF Behind, RefOf
  <2>. QED  BY <1>1, <1>3, <2>1, <2>2, <2>3, CallMoves
<1>4. \A p \in Openers : Behind(open[p])'
  <2>1. ASSUME NEW o \in Openers, OpenStep(o), NEW p \in Openers
        PROVE  Behind(open[p])'
    BY <1>1, <1>2, <1>3, <2>1, CallMoves
  <2>2. CASE UNCHANGED open
    BY <1>2, <2>2
  <2>. QED  BY <2>1, <2>2 DEF AcquireNext, Push, Disconnect, allVars, acquireVars
<1>. QED  BY <1>1, <1>4 DEF ForwardInv

\* Hence it always holds.
LEMMA ForwardAlways == AcquireSpec => []ForwardInv
<1>1. AcquireInit => ForwardInv
  <2>. SUFFICES ASSUME AcquireInit PROVE ForwardInv
    OBVIOUS
  <2>1. PinnedInv
    BY InitPinned
  <2>2. (\A r \in Refs : ref[r] = NoCommit) /\ \A o \in Openers : open[o] = Closed
    BY DEF AcquireInit
  <2>3. Behind(Closed)
    BY DEF Behind, Closed, Fresh
  <2>. QED  BY <2>1, <2>2, <2>3 DEF ForwardInv, RefReached
<1>. QED  BY <1>1, NextForward, PTL DEF AcquireSpec

\* The files a session took while the branch its caller or its tier names stood still
\* are of one commit, whatever moved besides and whichever of the hub and the cache
\* answered; at a commit those are all its files.
THEOREM OneSnapshotHolds == AcquireSpec => []OneSnapshot
<1>1. ForwardInv => OneSnapshot
  <2>. SUFFICES ASSUME ForwardInv, NEW o \in Openers, NEW g1 \in open[o].got,
                       NEW g2 \in open[o].got, StoodStill({g1, g2})
                PROVE  g1.commit = g2.commit
    BY DEF OneSnapshot
  <2>1. g1.at = g2.at
    BY DEF StoodStill
  <2>. QED  BY <2>1 DEF ForwardInv, Behind
<1>. QED  BY <1>1, ForwardAlways, PTL

\* A file an open takes after another is of no earlier commit of the ref it follows,
\* also when the network has gone away in between and the cache answers for the ref.
THEOREM MainMovesForwardHolds == AcquireSpec => MainMovesForward
<1>1. ForwardInv /\ [AcquireNext]_allVars =>
        [\A o \in Openers :
           LET r == <<open[o].art.repo, open[o].rev>>
           IN open[o].pc = "fetch" /\ r \in Refs =>
                \A old \in open[o].got, new \in open'[o].got \ open[o].got :
                  ~Earlier(r, new.commit, old.commit)]_allVars
  <2>. SUFFICES ASSUME ForwardInv, AcquireNext, NEW o \in Openers,
                       RefOf(open[o]) \in Refs,
                       NEW old \in open[o].got, NEW new \in open'[o].got \ open[o].got
                PROVE  ~Earlier(RefOf(open[o]), new.commit, old.commit)
    BY DEF RefOf
  <2>1. PinnedInv
    BY DEF ForwardInv
  <2>2. PICK p \in Openers : OpenStep(p)
    BY DEF AcquireNext, Push, Disconnect, acquireVars
  <2>3. FetchFile(o) /\ new = Gotten(open[o])
    BY <2>1, <2>2, CallMoves
  <2>4. PICK r \in Refs : r = RefOf(open[o])
    OBVIOUS
  <2>5. new.commit = ref'[r]
    BY <2>1, <2>3, <2>4, FetchFollows DEF Gotten
  <2>6. NoLater(r, old.commit)'
    <3>1. PICK commit : commit = old.commit
      OBVIOUS
    <3>2. NoLater(r, commit)
      BY <2>4, <3>1 DEF ForwardInv, Behind, Stamped
    <3>3. NoLater(r, commit)'
      BY <2>1, <3>2, NoLaterKept
    <3>. QED  BY <3>1, <3>3
  <2>7. PICK i \in 1..head'[r], j \in 1..head'[r] :
          i <= j /\ Heads[r][i] = old.commit /\ Heads[r][j] = new.commit
    BY <2>5, <2>6 DEF NoLater
  <2>8. /\ head'[r] \in 1..Len(Heads[r]) /\ Len(Heads[r]) \in Nat
        /\ DOMAIN Heads[r] = 1..Len(Heads[r])
    BY <2>1, NextPinned, HeadsShape DEF PinnedInv, World
  <2>9. i \in DOMAIN Heads[r] /\ j \in DOMAIN Heads[r]
    BY <2>7, <2>8
  <2>10. \A x, y \in DOMAIN Heads[r] : Heads[r][x] = Heads[r][y] => x = y
    BY HeadsAssumption
  <2>11. ASSUME NEW x \in DOMAIN Heads[r], NEW y \in DOMAIN Heads[r],
                x < y, Heads[r][x] = new.commit, Heads[r][y] = old.commit
         PROVE  FALSE
    <3>1. x = j /\ y = i
      BY <2>7, <2>9, <2>10, <2>11
    <3>. QED  BY <2>7, <2>8, <2>11, <3>1
  <2>. QED  BY <2>4, <2>11 DEF Earlier
<1>. QED  BY <1>1, ForwardAlways, PTL DEF AcquireSpec, MainMovesForward

-----------------------------------------------------------------------------
(* All that was to be fetched is there                                     *)

\* The downloads of a call, their files, those still to come and those that came.
List(c) == Fetches(c.req.loader, c.art, c.spec, c.prec)
Wanted(c) == {List(c)[i].file : i \in DOMAIN List(c)}
Coming(c) == {c.todo[i].file : i \in DOMAIN c.todo}
Come(c) == {g.file : g \in c.got}

\* Whatever a file of the list refers to is on the list.
Complete(c) ==
  \A k \in Companions : k[1] = c.art.repo /\ k[2] \in Wanted(c) => k[3] \in Wanted(c)

\* While a call fetches, what came was wanted, and without a miss the rest of what
\* is wanted is still to come.
Gathers(c) ==
  /\ c.todo \in Seq({List(c)[i] : i \in DOMAIN List(c)})
  /\ c.pc = "load" => c.todo = << >>
  /\ Come(c) \subseteq Wanted(c)
  /\ ~c.missed => Wanted(c) \subseteq Come(c) \cup Coming(c)

\* What came is in the cache.
Stored(c, files) == \A g \in c.got : <<c.art.repo, g.commit, g.file>> \in files

\* It is all of one commit.
OneCommit(c) == \A g1, g2 \in c.got : g1.commit = g2.commit

\* So a call whose list is complete has all it needs when it is done, or a miss.
Gathered(c, files) ==
  /\ c.pc # "idle" => c.req \in Requests
  /\ c.pc \in {"fetch", "load"} => Gathers(c) /\ Stored(c, files)
  /\ c.pc = "broken" /\ OneCommit(c) /\ Complete(c) => c.missed

GatheredInv == PinnedInv /\ \A o \in Openers : Gathered(open[o], cache)

Loaders == {"text", "vision", "rerank", "decide", "laya", "2b", "info"}

\* The files the loaders name, and those an open does not do without.
Named(a, s) ==
  {a.file, sidecar(a), TokenizerJson, TokenizerConfig, weights(s),
   Json("rl_agent_config"), Json("decision"), Json("calibration")}
Insisted(loader, a, s, prec) ==
  {a.file, TokenizerJson}
  \cup (IF loader = "vision" THEN {sidecar(a)} ELSE {})
  \cup (IF loader = "laya" THEN {Json("rl_agent_config")} ELSE {})
  \cup (IF loader = "2b" THEN {Json("decision"), Json("calibration")} ELSE {})
  \cup (IF loader = "2b" /\ prec = "q8" THEN {weights(s)} ELSE {})

\* A list insists on no other file.
LEMMA ListsOver ==
  ASSUME NEW loader \in Loaders, NEW a, NEW s, NEW prec, NEW T,
         \A f \in Named(a, s) : [file |-> f, must |-> FALSE] \in T,
         \A f \in Insisted(loader, a, s, prec) : [file |-> f, must |-> TRUE] \in T
  PROVE  Fetches(loader, a, s, prec) \in Seq(T)
<1>1. \A f \in Insisted(loader, a, s, prec) : Must(f) \in Seq(T)
  <2>. SUFFICES ASSUME NEW f \in Insisted(loader, a, s, prec) PROVE Must(f) \in Seq(T)
    OBVIOUS
  <2>1. PICK x \in T : x = [file |-> f, must |-> TRUE]
    OBVIOUS
  <2>2. <<x>> \in Seq(T)
    OBVIOUS
  <2>. QED  BY <2>1, <2>2 DEF Must
<1>2. \A f \in Named(a, s) : May(f) \in Seq(T)
  <2>. SUFFICES ASSUME NEW f \in Named(a, s) PROVE May(f) \in Seq(T)
    OBVIOUS
  <2>1. PICK x \in T : x = [file |-> f, must |-> FALSE]
    OBVIOUS
  <2>2. <<x>> \in Seq(T) /\ << >> \in Seq(T)
    OBVIOUS
  <2>3. May(f) = <<x>> \/ May(f) = << >>
    BY <2>1 DEF May
  <2>. QED  BY <2>2, <2>3
<1>3. (\A l, m \in Seq(T) : l \o m \in Seq(T)) /\ << >> \in Seq(T)
  OBVIOUS
<1>4. Must(a.file) \in Seq(T) /\ Must(TokenizerJson) \in Seq(T)
  BY <1>1 DEF Insisted
<1>5. May(sidecar(a)) \in Seq(T) /\ May(TokenizerConfig) \in Seq(T)
  BY <1>2 DEF Named
<1>6. CASE loader = "text"
  BY <1>3, <1>4, <1>5, <1>6 DEF Fetches, FetchesText
<1>7. CASE loader = "vision"
  <2>1. Must(sidecar(a)) \in Seq(T)
    BY <1>1, <1>7 DEF Insisted
  <2>. QED  BY <1>3, <1>4, <1>7, <2>1 DEF Fetches, FetchesVision
<1>8. CASE loader = "rerank" \/ loader = "decide" \/ loader = "info"
  BY <1>3, <1>4, <1>8 DEF Fetches, FetchesRerank, FetchesDecide
<1>9. CASE loader = "laya"
  <2>1. Must(Json("rl_agent_config")) \in Seq(T)
    BY <1>1, <1>9 DEF Insisted
  <2>. QED  BY <1>3, <1>4, <1>5, <1>9, <2>1 DEF Fetches, FetchesLaya
<1>10. CASE loader = "2b"
  <2>1. Must(Json("decision")) \in Seq(T) /\ Must(Json("calibration")) \in Seq(T)
    BY <1>1, <1>10 DEF Insisted
  <2>2. (IF prec = "q8" THEN Must(weights(s)) ELSE << >>) \in Seq(T)
    BY <1>1, <1>3, <1>10 DEF Insisted
  <2>. QED  BY <1>3, <1>4, <1>5, <1>10, <2>1, <2>2 DEF Fetches, Fetches2B
<1>. QED  BY <1>6, <1>7, <1>8, <1>9, <1>10 DEF Loaders

\* The lists are sequences.
LEMMA ListsAreSequences ==
  ASSUME NEW loader \in Loaders, NEW a, NEW s, NEW prec
  PROVE  Fetches(loader, a, s, prec) \in
           Seq({Fetches(loader, a, s, prec)[i] : i \in DOMAIN Fetches(loader, a, s, prec)})
<1>1. ASSUME NEW T, NEW l \in Seq(T)
      PROVE  l \in Seq({l[i] : i \in DOMAIN l})
  <2>1. DOMAIN l = 1..Len(l) /\ Len(l) \in Nat
    OBVIOUS
  <2>2. l = [i \in 1..Len(l) |-> l[i]]
    OBVIOUS
  <2>3. \A i \in 1..Len(l) : l[i] \in {l[j] : j \in DOMAIN l}
    BY <2>1
  <2>. QED  BY <2>1, <2>2, <2>3
<1>2. \E T : Fetches(loader, a, s, prec) \in Seq(T)
  <2>. DEFINE T == [file : Named(a, s), must : BOOLEAN]
  <2>1. /\ \A f \in Named(a, s) : [file |-> f, must |-> FALSE] \in T
        /\ \A f \in Insisted(loader, a, s, prec) : [file |-> f, must |-> TRUE] \in T
    BY DEF Named, Insisted
  <2>. HIDE DEF T
  <2>. QED  BY <2>1, ListsOver
<1>. QED  BY <1>1, <1>2

\* What a list insists on is insisted on.
LEMMA ListsInsist ==
  ASSUME NEW loader \in Loaders, NEW a, NEW s, NEW prec,
         NEW i \in DOMAIN Fetches(loader, a, s, prec), Fetches(loader, a, s, prec)[i].must
  PROVE  Fetches(loader, a, s, prec)[i].file \in Insisted(loader, a, s, prec)
<1>. DEFINE M == Insisted(loader, a, s, prec)
            T == {x \in [file : Named(a, s), must : BOOLEAN] : x.must => x.file \in M}
<1>1. \A f \in Named(a, s) : [file |-> f, must |-> FALSE] \in T
  OBVIOUS
<1>2. \A f \in M : f \in Named(a, s)
  BY DEF Named, Insisted
<1>3. \A f \in M : [file |-> f, must |-> TRUE] \in T
  BY <1>2
<1>4. \A x \in T : x.must => x.file \in M
  OBVIOUS
<1>. HIDE DEF T
<1>5. Fetches(loader, a, s, prec) \in Seq(T)
  BY <1>1, <1>3, ListsOver
<1>6. \A l \in Seq(T) : \A j \in DOMAIN l : l[j] \in T
  OBVIOUS
<1>. QED  BY <1>4, <1>5, <1>6

\* An update gives a call its new fields and leaves the other calls alone.
LEMMA UpdatesFields ==
  ASSUME PinnedInv, NEW o \in Openers, NEW fields, Updates(o, fields)
  PROVE  /\ \A p \in Openers : p # o => open'[p] = open[p]
         /\ \A f \in Fields :
              open'[o][f] = IF f \in DOMAIN fields THEN fields[f] ELSE open[o][f]
<1>1. open = [p \in Openers |-> open[p]] /\ IsCall(open[o])
  BY DEF PinnedInv, Shape
<1>2. PICK d : d = Updated(open[o], fields)
  OBVIOUS
<1>3. open' = [open EXCEPT ![o] = d]
  BY <1>2, UpdatesOne DEF PinnedInv
<1>4. open'[o] = d /\ \A p \in Openers : p # o => open'[p] = open[p]
  BY <1>1, <1>3
<1>5. \A f \in Fields : d[f] = IF f \in DOMAIN fields THEN fields[f] ELSE open[o][f]
  BY <1>1, <1>2, UpdatedFields
<1>. QED  BY <1>4, <1>5

\* What the list is depends on four fields of a call only.
LEMMA ListOf ==
  ASSUME NEW c, NEW d, d.req = c.req, d.art = c.art, d.spec = c.spec, d.prec = c.prec
  PROVE  List(d) = List(c) /\ Wanted(d) = Wanted(c) /\ (Complete(d) <=> Complete(c))
BY DEF List, Wanted, Complete

\* The first of the downloads left is done with.
LEMMA OneDownload ==
  ASSUME NEW T, NEW todo \in Seq(T), todo # << >>
  PROVE  /\ Tail(todo) \in Seq(T) /\ Head(todo) \in T
         /\ \A i \in DOMAIN todo :
              \/ todo[i] = Head(todo)
              \/ \E j \in DOMAIN Tail(todo) : Tail(todo)[j] = todo[i]
<1>1. /\ Tail(todo) \in Seq(T) /\ Head(todo) = todo[1] /\ Head(todo) \in T
      /\ Len(Tail(todo)) = Len(todo) - 1 /\ Len(todo) \in Nat /\ Len(todo) >= 1
      /\ \A j \in 1..(Len(todo) - 1) : Tail(todo)[j] = todo[j + 1]
  OBVIOUS
<1>2. DOMAIN todo = 1..Len(todo) /\ DOMAIN Tail(todo) = 1..(Len(todo) - 1)
  BY <1>1
<1>3. ASSUME NEW i \in DOMAIN todo, i # 1
      PROVE  i - 1 \in DOMAIN Tail(todo) /\ Tail(todo)[i - 1] = todo[i]
  BY <1>1, <1>2, <1>3
<1>. QED  BY <1>1, <1>3

\* A call that begins has nothing to gather yet.
LEMMA BeginGathered ==
  ASSUME GatheredInv, NEW o \in Openers, Begin(o)
  PROVE  \A p \in Openers : Gathered(open'[p], cache')
<1>1. PICK q \in Requests : open' = [open EXCEPT ![o] = Begun(q)]
  BY DEF Begin
<1>2. PICK c : c = Begun(q)
  OBVIOUS
<1>3. c.pc = "gate" /\ c.req = q
  BY <1>2, FreshIsCall
<1>4. Gathered(c, cache)
  BY <1>3 DEF Gathered
<1>5. open = [p \in Openers |-> open[p]] /\ open' = [open EXCEPT ![o] = c]
  BY <1>1, <1>2 DEF GatheredInv, PinnedInv, Shape
<1>6. \A p \in Openers : open'[p] = IF p = o THEN c ELSE open[p]
  BY <1>5
<1>7. UNCHANGED cache
  BY DEF Begin, fileVars
<1>. QED  BY <1>4, <1>6, <1>7 DEF GatheredInv

\* A step to a phase where nothing is gathered.
LEMMA AsideGathered ==
  ASSUME GatheredInv, NEW o \in Openers, NEW fields, Updates(o, fields), UNCHANGED cache,
         "pc" \in DOMAIN fields, "req" \notin DOMAIN fields,
         fields.pc \notin {"idle", "fetch", "load", "broken"}, open[o].pc # "idle"
  PROVE  \A p \in Openers : Gathered(open'[p], cache')
<1>1. /\ \A p \in Openers : p # o => open'[p] = open[p]
      /\ open'[o].req = open[o].req /\ open'[o].pc = fields.pc
  BY UpdatesFields DEF GatheredInv, Fields
<1>2. Gathered(open'[o], cache)
  BY <1>1 DEF GatheredInv, Gathered
<1>. QED  BY <1>1, <1>2 DEF GatheredInv

\* The gates, cache_info, and the choice when it refuses.
LEMMA GatesGathered ==
  ASSUME GatheredInv, NEW o \in Openers,
         Gate(o) \/ GateSlots(o) \/ GateCeiling(o) \/ Lookup(o)
  PROVE  \A p \in Openers : Gathered(open'[p], cache')
<1>1. UNCHANGED cache
  BY DEF Gate, GateSlots, GateCeiling, Lookup, fileVars
<1>2. CASE Gate(o)
  <2>1. open[o].pc # "idle"
    BY <1>2 DEF Gate
  <2>2. PICK s, l : \/ Updates(o, [pc |-> "refused"]) \/ Updates(o, [pc |-> "gate2"])
                    \/ Updates(o, [pc |-> "artifact", spec |-> s, limit |-> l])
    BY <1>2 DEF Gate
  <2>. QED  BY <1>1, <2>1, <2>2, AsideGathered
<1>3. CASE GateSlots(o)
  <2>1. open[o].pc # "idle"
    BY <1>3 DEF GateSlots
  <2>2. Updates(o, [pc |-> "refused"]) \/ Updates(o, [pc |-> "gate3"])
    BY <1>3 DEF GateSlots
  <2>. QED  BY <1>1, <2>1, <2>2, AsideGathered
<1>4. CASE GateCeiling(o)
  <2>1. open[o].pc # "idle"
    BY <1>4 DEF GateCeiling
  <2>2. PICK s, l : \/ Updates(o, [pc |-> "refused"])
                    \/ Updates(o, [pc |-> "artifact", spec |-> s, limit |-> l])
    BY <1>4 DEF GateCeiling
  <2>. QED  BY <1>1, <2>1, <2>2, AsideGathered
<1>5. CASE Lookup(o)
  <2>1. open[o].pc # "idle"
    BY <1>5 DEF Lookup
  <2>2. PICK v : Updates(o, [pc |-> "reported", cached |-> v])
    BY <1>5 DEF Lookup
  <2>. QED  BY <1>1, <2>1, <2>2, AsideGathered
<1>. QED  BY <1>2, <1>3, <1>4, <1>5

\* With the artifact chosen the whole list is to come.
LEMMA ChooseGathered ==
  ASSUME GatheredInv, NEW o \in Openers, ChooseArtifact(o)
  PROVE  \A p \in Openers : Gathered(open'[p], cache')
<1>. DEFINE c == open[o]
<1>1. c.pc = "artifact" /\ UNCHANGED cache
  BY DEF ChooseArtifact, fileVars
<1>2. PICK a, prec, rev, pc :
        \/ Updates(o, [pc |-> "refused"])
        \/ /\ Updates(o, [pc |-> pc, prec |-> prec, art |-> a, rev |-> rev,
                          todo |-> Fetches(c.req.loader, a, c.spec, prec)])
           /\ pc \in {"fetch", "lookup"}
  BY DEF ChooseArtifact
<1>3. CASE Updates(o, [pc |-> "refused"])
  BY <1>1, <1>3, AsideGathered
<1>4. CASE /\ Updates(o, [pc |-> pc, prec |-> prec, art |-> a, rev |-> rev,
                          todo |-> Fetches(c.req.loader, a, c.spec, prec)])
           /\ pc \in {"fetch", "lookup"}
  <2>1. PICK fields : fields = [pc |-> pc, prec |-> prec, art |-> a, rev |-> rev,
                                todo |-> Fetches(c.req.loader, a, c.spec, prec)]
    OBVIOUS
  <2>2. /\ DOMAIN fields = {"pc", "prec", "art", "rev", "todo"} /\ fields.pc = pc
        /\ fields.prec = prec /\ fields.art = a
        /\ fields.todo = Fetches(c.req.loader, a, c.spec, prec)
    BY <2>1
  <2>3. Updates(o, fields)
    BY <1>4, <2>1
  <2>4. PICK d : d = open'[o]
    OBVIOUS
  <2>5. /\ \A p \in Openers : p # o => open'[p] = open[p]
        /\ \A f \in Fields : d[f] = IF f \in DOMAIN fields THEN fields[f] ELSE c[f]
    BY <2>3, <2>4, UpdatesFields DEF GatheredInv
  <2>6. /\ d.req = c.req /\ d.spec = c.spec /\ d.got = c.got /\ d.pc = pc
        /\ d.prec = prec /\ d.art = a /\ d.todo = Fetches(c.req.loader, a, c.spec, prec)
    BY <2>2, <2>5 DEF Fields
  <2>7. c.got = {} /\ c.req \in Requests
    BY <1>1 DEF GatheredInv, PinnedInv, Pinned, Gathered
  <2>8. List(d) = d.todo
    BY <2>6 DEF List
  <2>9. d.todo \in Seq({List(d)[i] : i \in DOMAIN List(d)})
    <3>1. c.req.loader \in Loaders
      BY <2>7, LoadersAssumption DEF Loaders
    <3>. QED  BY <2>6, <2>8, <3>1, ListsAreSequences
  <2>10. Come(d) = {} /\ Wanted(d) = Coming(d)
    BY <2>6, <2>7, <2>8 DEF Come, Wanted, Coming
  <2>11. Gathered(d, cache)
    BY <1>4, <2>6, <2>7, <2>9, <2>10 DEF Gathered, Gathers, Stored
  <2>. QED  BY <1>1, <2>4, <2>5, <2>11 DEF GatheredInv
<1>. QED  BY <1>2, <1>3, <1>4

\* A download that worked is in the cache.
LEMMA FetchGathered ==
  ASSUME GatheredInv, NEW o \in Openers, FetchFile(o)
  PROVE  \A p \in Openers : Gathered(open'[p], cache')
<1>. DEFINE c == open[o]
<1>1. /\ c.pc = "fetch" /\ c.todo # << >>
      /\ cache' = cache \cup {<<c.art.repo, CommitOf(c), FileOf(c)>>}
      /\ Updates(o, [todo |-> Tail(c.todo), got |-> c.got \cup {Gotten(c)}])
  BY FetchFacts DEF GatheredInv, PinnedInv, FetchFile
<1>2. PICK fields : fields = [todo |-> Tail(c.todo), got |-> c.got \cup {Gotten(c)}]
  OBVIOUS
<1>3. /\ DOMAIN fields = {"todo", "got"} /\ fields.todo = Tail(c.todo)
      /\ fields.got = c.got \cup {Gotten(c)}
  BY <1>2
<1>4. PICK d : d = open'[o]
  OBVIOUS
<1>5. /\ \A p \in Openers : p # o => open'[p] = open[p]
      /\ \A f \in Fields : d[f] = IF f \in DOMAIN fields THEN fields[f] ELSE c[f]
  BY <1>1, <1>2, <1>4, UpdatesFields DEF GatheredInv
<1>6. /\ d.req = c.req /\ d.spec = c.spec /\ d.prec = c.prec /\ d.art = c.art
      /\ d.rev = c.rev /\ d.pc = c.pc /\ d.missed = c.missed
      /\ d.todo = Tail(c.todo) /\ d.got = c.got \cup {Gotten(c)}
  BY <1>3, <1>5 DEF Fields
<1>7. List(d) = List(c) /\ Wanted(d) = Wanted(c)
  BY <1>6, ListOf
<1>8. Gathered(c, cache)
  BY DEF GatheredInv
<1>9. Gathers(d) /\ Stored(d, cache')
  <2>1. Gathers(c) /\ Stored(c, cache)
    BY <1>1, <1>8 DEF Gathered
  <2>2. PICK T : T = {List(c)[i] : i \in DOMAIN List(c)}
    OBVIOUS
  <2>3. PICK todo \in Seq(T) : todo = c.todo
    BY <2>1, <2>2 DEF Gathers
  <2>4. /\ Tail(todo) \in Seq(T) /\ Head(todo) \in T
        /\ \A i \in DOMAIN todo :
             \/ todo[i] = Head(todo)
             \/ \E j \in DOMAIN Tail(todo) : Tail(todo)[j] = todo[i]
    BY <1>1, <2>3, OneDownload
  <2>5. <<c.art.repo, Gotten(c).commit, Gotten(c).file>> \in cache'
    BY <1>1 DEF Gotten
  <2>6. Gotten(c).file = FileOf(c)
    BY DEF Gotten
  <2>7. Come(d) = Come(c) \cup {FileOf(c)}
    BY <1>6, <2>6 DEF Come
  <2>8. FileOf(c) \in Wanted(c)
    BY <2>2, <2>3, <2>4 DEF FileOf, Wanted
  <2>9. Coming(c) \subseteq Coming(d) \cup {FileOf(c)}
    BY <1>6, <2>3, <2>4 DEF Coming, FileOf
  <2>10. d.todo \in Seq({List(d)[i] : i \in DOMAIN List(d)})
    BY <1>6, <1>7, <2>2, <2>3, <2>4
  <2>11. Come(d) \subseteq Wanted(d)
    BY <1>7, <2>1, <2>7, <2>8 DEF Gathers
  <2>12. ~d.missed => Wanted(d) \subseteq Come(d) \cup Coming(d)
    BY <1>6, <1>7, <2>1, <2>7, <2>9 DEF Gathers
  <2>13. Stored(d, cache')
    BY <1>1, <1>6, <2>1, <2>5 DEF Stored
  <2>. QED  BY <1>1, <1>6, <2>10, <2>11, <2>12, <2>13 DEF Gathers
<1>10. Gathered(d, cache')
  BY <1>1, <1>6, <1>8, <1>9 DEF Gathered
<1>11. \A p \in Openers : Gathered(open[p], cache')
  BY <1>1 DEF GatheredInv, Gathered, Stored
<1>. QED  BY <1>4, <1>5, <1>10, <1>11

\* A miss is remembered.
LEMMA MissGathered ==
  ASSUME GatheredInv, NEW o \in Openers, FetchMiss(o)
  PROVE  \A p \in Openers : Gathered(open'[p], cache')
<1>. DEFINE c == open[o]
<1>1. c.pc = "fetch" /\ c.todo # << >> /\ UNCHANGED cache
  BY DEF FetchMiss, fileVars
<1>2. PICK pc \in {"missing", "fetch"} :
        Updates(o, [missed |-> TRUE, todo |-> Tail(c.todo), pc |-> pc])
  BY DEF FetchMiss
<1>3. PICK fields : fields = [missed |-> TRUE, todo |-> Tail(c.todo), pc |-> pc]
  OBVIOUS
<1>4. /\ DOMAIN fields = {"missed", "todo", "pc"} /\ fields.todo = Tail(c.todo)
      /\ fields.missed = TRUE /\ fields.pc = pc
  BY <1>3
<1>5. PICK d : d = open'[o]
  OBVIOUS
<1>6. /\ \A p \in Openers : p # o => open'[p] = open[p]
      /\ \A f \in Fields : d[f] = IF f \in DOMAIN fields THEN fields[f] ELSE c[f]
  BY <1>2, <1>3, <1>5, UpdatesFields DEF GatheredInv
<1>7. /\ d.req = c.req /\ d.spec = c.spec /\ d.prec = c.prec /\ d.art = c.art
      /\ d.rev = c.rev /\ d.pc = pc /\ d.missed = TRUE
      /\ d.todo = Tail(c.todo) /\ d.got = c.got
  BY <1>4, <1>6 DEF Fields
<1>8. List(d) = List(c) /\ Wanted(d) = Wanted(c)
  BY <1>7, ListOf
<1>9. Gathered(c, cache)
  BY DEF GatheredInv
<1>10. Gathers(d) /\ Stored(d, cache)
  <2>1. Gathers(c) /\ Stored(c, cache)
    BY <1>1, <1>9 DEF Gathered
  <2>2. PICK T : T = {List(c)[i] : i \in DOMAIN List(c)}
    OBVIOUS
  <2>3. PICK todo \in Seq(T) : todo = c.todo
    BY <2>1, <2>2 DEF Gathers
  <2>4. Tail(todo) \in Seq(T)
    BY <1>1, <2>3
  <2>5. Come(d) = Come(c)
    BY <1>7 DEF Come
  <2>6. Gathers(d)
    BY <1>2, <1>7, <1>8, <2>1, <2>2, <2>3, <2>4, <2>5 DEF Gathers
  <2>. QED  BY <1>7, <2>1, <2>6 DEF Stored
<1>11. Gathered(d, cache)
  BY <1>1, <1>2, <1>7, <1>9, <1>10 DEF Gathered
<1>. QED  BY <1>1, <1>5, <1>6, <1>11 DEF GatheredInv

\* The step after the last download settles the layout, the limit, or neither.
LEMMA FetchedUpdates ==
  ASSUME NEW o \in Openers, Fetched(o)
  PROVE  \E fields : /\ Updates(o, fields)
                     /\ "pc" \in DOMAIN fields
                     /\ DOMAIN fields \subseteq {"pc", "layout", "limit"}
                     /\ fields.pc \in {"load", "refused"}
<1>. DEFINE c == open[o]
            y == resolve("task", c.req.id).prompt_first
            l == effective_limit("2b", c.req.max_length, c.spec)
<1>1. \/ Updates(o, [pc |-> "load", layout |-> y])
      \/ Updates(o, [pc |-> "load", limit |-> l])
      \/ Updates(o, [pc |-> "refused"]) \/ Updates(o, [pc |-> "load"])
  BY DEF Fetched
<1>. HIDE DEF y, l
<1>. QED  BY <1>1

\* After the last download nothing is left to come.
LEMMA FetchedGathered ==
  ASSUME GatheredInv, NEW o \in Openers, Fetched(o)
  PROVE  \A p \in Openers : Gathered(open'[p], cache')
<1>. DEFINE c == open[o]
<1>1. c.pc = "fetch" /\ c.todo = << >> /\ UNCHANGED cache
  BY DEF Fetched, fileVars
<1>2. PICK fields : /\ Updates(o, fields)
                    /\ "pc" \in DOMAIN fields /\ DOMAIN fields \subseteq {"pc", "layout", "limit"}
                    /\ fields.pc \in {"load", "refused"}
  BY FetchedUpdates
<1>3. PICK d : d = open'[o]
  OBVIOUS
<1>4. /\ \A p \in Openers : p # o => open'[p] = open[p]
      /\ \A f \in Fields : d[f] = IF f \in DOMAIN fields THEN fields[f] ELSE c[f]
  BY <1>2, <1>3, UpdatesFields DEF GatheredInv
<1>5. /\ d.req = c.req /\ d.spec = c.spec /\ d.prec = c.prec /\ d.art = c.art
      /\ d.rev = c.rev /\ d.pc \in {"load", "refused"} /\ d.missed = c.missed
      /\ d.todo = c.todo /\ d.got = c.got
  BY <1>2, <1>4 DEF Fields
<1>6. List(d) = List(c) /\ Wanted(d) = Wanted(c)
  BY <1>5, ListOf
<1>7. Gathered(c, cache)
  BY DEF GatheredInv
<1>8. Come(d) = Come(c) /\ Coming(d) = Coming(c)
  BY <1>5 DEF Come, Coming
<1>9. Gathers(d) /\ Stored(d, cache)
  <2>1. Gathers(c) /\ Stored(c, cache)
    BY <1>1, <1>7 DEF Gathered
  <2>. QED  BY <1>1, <1>5, <1>6, <1>8, <2>1 DEF Gathers, Stored
<1>10. Gathered(d, cache)
  BY <1>1, <1>5, <1>7, <1>9 DEF Gathered
<1>. QED  BY <1>1, <1>3, <1>4, <1>10 DEF GatheredInv

\* The load of a complete list can break only over what was missed.
LEMMA LoadGathered ==
  ASSUME GatheredInv, NEW o \in Openers, Load(o)
  PROVE  \A p \in Openers : Gathered(open'[p], cache')
<1>. DEFINE c == open[o]
<1>1. c.pc = "load" /\ UNCHANGED cache
  BY DEF Load, fileVars
<1>2. PICK pc : /\ Updates(o, [pc |-> pc]) /\ pc \in {"ready", "broken"}
                /\ pc = "broken" => ~ \A g \in c.got : Whole(c.art.repo, g.commit, g.file)
  BY DEF Load
<1>3. PICK fields : fields = [pc |-> pc]
  OBVIOUS
<1>4. DOMAIN fields = {"pc"} /\ fields.pc = pc
  BY <1>3
<1>5. PICK d : d = open'[o]
  OBVIOUS
<1>6. /\ \A p \in Openers : p # o => open'[p] = open[p]
      /\ \A f \in Fields : d[f] = IF f \in DOMAIN fields THEN fields[f] ELSE c[f]
  BY <1>2, <1>3, <1>5, UpdatesFields DEF GatheredInv
<1>7. /\ d.req = c.req /\ d.spec = c.spec /\ d.prec = c.prec /\ d.art = c.art
      /\ d.got = c.got /\ d.pc = pc /\ d.missed = c.missed
  BY <1>4, <1>6 DEF Fields
<1>8. List(d) = List(c) /\ Wanted(d) = Wanted(c) /\ (Complete(d) <=> Complete(c))
  BY <1>7, ListOf
<1>9. Gathered(c, cache)
  BY DEF GatheredInv
<1>10. ASSUME pc = "broken", OneCommit(c), Complete(c), ~c.missed PROVE FALSE
  <2>1. Gathers(c) /\ Stored(c, cache)
    BY <1>1, <1>9 DEF Gathered
  <2>2. Coming(c) = {}
    BY <1>1, <2>1 DEF Gathers, Coming
  <2>3. Wanted(c) \subseteq Come(c)
    BY <1>10, <2>1, <2>2 DEF Gathers
  <2>4. PICK g \in c.got, k \in Companions :
          k[1] = c.art.repo /\ k[2] = g.file /\ <<c.art.repo, g.commit, k[3]>> \notin cache
    BY <1>2, <1>10 DEF Whole
  <2>5. g.file \in Wanted(c)
    BY <2>1 DEF Gathers, Come
  <2>6. k[3] \in Come(c)
    BY <1>10, <2>3, <2>4, <2>5 DEF Complete
  <2>7. PICK h \in c.got : h.file = k[3]
    BY <2>6 DEF Come
  <2>8. h.commit = g.commit
    BY <1>10, <2>7 DEF OneCommit
  <2>. QED  BY <2>1, <2>4, <2>7, <2>8 DEF Stored
<1>11. Gathered(d, cache)
  BY <1>1, <1>2, <1>7, <1>8, <1>9, <1>10 DEF Gathered, OneCommit
<1>. QED  BY <1>1, <1>5, <1>6, <1>11 DEF GatheredInv

\* Every step keeps the invariant.
LEMMA NextGathered == GatheredInv /\ [AcquireNext]_allVars => GatheredInv'
<1>. SUFFICES ASSUME GatheredInv, [AcquireNext]_allVars PROVE GatheredInv'
  OBVIOUS
<1>1. PinnedInv'
  BY NextPinned DEF GatheredInv
<1>2. ASSUME NEW o \in Openers, OpenStep(o)
      PROVE  \A p \in Openers : Gathered(open'[p], cache')
  BY <1>2, BeginGathered, GatesGathered, ChooseGathered, FetchGathered, MissGathered,
     FetchedGathered, LoadGathered DEF OpenStep
<1>3. CASE UNCHANGED <<open, cache>>
  BY <1>1, <1>3 DEF GatheredInv
<1>. QED  BY <1>1, <1>2, <1>3 DEF GatheredInv, AcquireNext, Push, Disconnect,
                                 allVars, acquireVars, fileVars

\* Hence it always holds.
LEMMA GatheredAlways == AcquireSpec => []GatheredInv
<1>1. AcquireInit => GatheredInv
  <2>. SUFFICES ASSUME AcquireInit PROVE GatheredInv
    OBVIOUS
  <2>1. PinnedInv
    BY InitPinned
  <2>2. \A o \in Openers : open[o] = Closed
    BY DEF AcquireInit
  <2>3. Closed.pc = "idle"
    BY DEF Closed, Fresh
  <2>. QED  BY <2>1, <2>2, <2>3 DEF GatheredInv, Gathered
<1>. QED  BY <1>1, NextGathered, PTL DEF AcquireSpec

\* The lists of the calls that broke name all that their files refer to.
ListsComplete ==
  \A o \in Openers : open[o].pc = "broken" => Complete(open[o])

\* An open whose downloads all worked, with no push to its ref between them, does not
\* end broken, as long as the list of its loader is complete; the list is all that
\* has to be right.
THEOREM FetchedHolds == AcquireSpec => [](ListsComplete => FetchedIsEnough)
<1>1. ForwardInv /\ GatheredInv => (ListsComplete => FetchedIsEnough)
  <2>. SUFFICES ASSUME ForwardInv, GatheredInv, ListsComplete, NEW o \in Openers,
                       open[o].pc = "broken", StoodStill(open[o].got)
                PROVE  open[o].missed
    BY DEF FetchedIsEnough
  <2>1. OneCommit(open[o])
    BY DEF ForwardInv, Behind, StoodStill, OneCommit
  <2>. QED  BY <2>1 DEF GatheredInv, Gathered, ListsComplete
<1>. QED  BY <1>1, ForwardAlways, GatheredAlways, PTL

-----------------------------------------------------------------------------
(* What cache_info called cached opens                                     *)

Other(side) == IF side = "task" THEN "model" ELSE "task"
Dropped == {d[2] : d \in dropped}

\* A call whose files cache_info vouched for as a whole, for an id nobody has
\* unregistered, or registered on the loader's side since cache_info took it for a
\* repository, and that the other side of the registry does not answer for.
Told(c) ==
  /\ c.whole /\ c.req.id \notin Dropped
  /\ c.known \/ resolve(side_of(c.req.loader), c.req.id) = NoSpec
  /\ resolve(Other(side_of(c.req.loader)), c.req.id) = NoSpec

\* The kinds of model the loaders insist on.
Kind(c) ==
  /\ c.req.loader = "laya" => c.spec.kind = "decide-laya"
  /\ c.req.loader = "2b" => c.spec.kind = "decide-2b"

\* Where the cache holds the files of a call.
Place(c) == LocalCommit(c.art.repo, c.rev)

Served == {"fetch", "load", "missing", "broken"}

\* What cache_info said of such a call stands; the call takes the artifact it was
\* said of, and gives up for nothing but a file that is not in the cache.
Keeps(c) ==
  /\ ~online /\ c.req.loader # "info" /\ c.req.precision # "auto"
  /\ ReportsCached(c.req) /\ ReportsWhole(c.req)
  /\ c.known => resolve(side_of(c.req.loader), c.req.id) # NoSpec
  /\ c.pc \in Served \cup {"artifact"} =>
       c.spec = resolve(side_of(c.req.loader), c.req.id) /\ Kind(c)
  /\ c.pc \in Served =>
       /\ c.prec = c.req.precision
       /\ c.art = artifact_for(side_of(c.req.loader), c.req.id, c.prec)
       /\ c.rev = revision_of(c.req, c.art)
  /\ c.pc \in {"fetch", "load"} => \A g \in c.got : g.commit = Place(c)
  /\ c.pc = "missing" =>
       \E i \in DOMAIN List(c) : List(c)[i].must /\ ~Local(c.art.repo, c.rev, List(c)[i].file)
  /\ c.pc = "broken" => \E f \in Wanted(c) : ~Whole(c.art.repo, Place(c), f)

Serves(c) == Told(c) => Keeps(c)

ServesInv ==
  GatheredInv /\ StandingInv /\ OnlyAdmissible /\ \A o \in Openers : Serves(open[o])

\* The side of a loader and the other one are the two sides there are.
LEMMA TwoSides ==
  ASSUME NEW loader
  PROVE  /\ side_of(loader) \in Sides /\ Other(side_of(loader)) \in Sides
         /\ {side_of(loader), Other(side_of(loader))} = {"task", "model"}
BY DEF side_of, Other, Sides

\* Of an id the other side does not answer for cache_info reports what the loader's
\* side says; if neither side knows it, both take it for the same repository.
LEMMA ReportIsOwn ==
  ASSUME NEW q, resolve(Other(side_of(q.loader)), q.id) = NoSpec
  PROVE  /\ resolve(cache_info_side(q.id), q.id) = resolve(side_of(q.loader), q.id)
         /\ \A p : artifact_for(cache_info_side(q.id), q.id, p)
                    = artifact_for(side_of(q.loader), q.id, p)
<1>1. \/ side_of(q.loader) = "task" /\ Other(side_of(q.loader)) = "model"
      \/ side_of(q.loader) = "model" /\ Other(side_of(q.loader)) = "task"
  BY DEF side_of, Other
<1>2. resolve(cache_info_side(q.id), q.id) = resolve(side_of(q.loader), q.id)
  BY <1>1 DEF cache_info_side
<1>. QED  BY <1>2 DEF artifact_for

\* What cache_info says of an id depends on what the id resolves to, and on the cache.
LEMMA ReportsAlike ==
  ASSUME NEW q, UNCHANGED <<cache, ref>>,
         resolve("task", q.id)' = resolve("task", q.id),
         resolve("model", q.id)' = resolve("model", q.id)
  PROVE  /\ ReportsCached(q)' <=> ReportsCached(q)
         /\ ReportsWhole(q)' <=> ReportsWhole(q)
<1>1. \A repo, rev : LocalCommit(repo, rev)' = LocalCommit(repo, rev)
  BY DEF LocalCommit
<1>2. \A repo, rev, f : Local(repo, rev, f)' <=> Local(repo, rev, f)
  BY <1>1 DEF Local
<1>3. \A repo, commit, f : Whole(repo, commit, f)' <=> Whole(repo, commit, f)
  BY DEF Whole
<1>4. /\ cache_info_side(q.id)' = cache_info_side(q.id)
      /\ cache_info_side(q.id) \in {"task", "model"}
  BY DEF cache_info_side
<1>5. resolve(cache_info_side(q.id), q.id)' = resolve(cache_info_side(q.id), q.id)
  BY <1>4
<1>6. \A p : artifact_for(cache_info_side(q.id), q.id, p)'
               = artifact_for(cache_info_side(q.id), q.id, p)
  BY <1>5 DEF artifact_for
<1>7. ReportsCached(q)' <=> ReportsCached(q)
  BY <1>2, <1>5, <1>6 DEF ReportsCached, CacheVerdict
<1>. QED  BY <1>1, <1>3, <1>6, <1>7 DEF ReportsWhole

\* While nothing happens to the registry, the cache and the network, a call that does
\* not move keeps what it keeps.
LEMMA KeepsStill ==
  ASSUME NEW c, UNCHANGED <<overlay, dropped, online, cache, ref>>
  PROVE  (Serves(c))' <=> Serves(c)
<1>1. \A side, id : resolve(side, id)' = resolve(side, id)
  BY DEF resolve
<1>2. \A repo, rev : LocalCommit(repo, rev)' = LocalCommit(repo, rev)
  BY DEF LocalCommit
<1>3. \A repo, rev, f : Local(repo, rev, f)' <=> Local(repo, rev, f)
  BY <1>2 DEF Local
<1>4. \A repo, commit, f : Whole(repo, commit, f)' <=> Whole(repo, commit, f)
  BY DEF Whole
<1>5. /\ ReportsCached(c.req)' <=> ReportsCached(c.req)
      /\ ReportsWhole(c.req)' <=> ReportsWhole(c.req)
  BY <1>1, ReportsAlike
<1>6. (Told(c))' <=> Told(c)
  BY <1>1 DEF Told, Dropped
<1>7. (Place(c))' = Place(c)
  BY <1>2 DEF Place
<1>8. \A side, id, p : artifact_for(side, id, p)' = artifact_for(side, id, p)
  BY <1>1 DEF artifact_for
<1>9. (Keeps(c))' <=> Keeps(c)
  BY <1>1, <1>3, <1>4, <1>5, <1>7, <1>8 DEF Keeps
<1>. QED  BY <1>6, <1>9 DEF Serves

\* So does an opener that stays where it is.
LEMMA ServesUnmoved ==
  ASSUME UNCHANGED <<overlay, dropped, online, cache, ref>>, NEW p, NEW d,
         d = open'[p], Serves(d)
  PROVE  Serves(open[p])'
<1>1. (Serves(d))'
  BY KeepsStill
<1>. QED  BY <1>1 DEF Serves, Told, Keeps, Kind, Place, List, Wanted

\* Without a network the cache stays as it is.
LEMMA OfflineStill ==
  ASSUME PinnedInv, ~online, NEW o \in Openers, OpenStep(o)
  PROVE  UNCHANGED <<online, cache, ref>>
<1>1. CASE FetchFile(o)
  <2>. DEFINE c == open[o]
  <2>1. /\ <<c.art.repo, CommitOf(c), FileOf(c)>> \in Published
        /\ cache' = cache \cup {<<c.art.repo, CommitOf(c), FileOf(c)>>}
        /\ ref' = IF RefOf(c) \in Refs THEN [ref EXCEPT ![RefOf(c)] = CommitOf(c)]
                                        ELSE ref
        /\ UNCHANGED online
    BY <1>1, FetchFacts DEF PinnedInv
  <2>2. <<c.art.repo, CommitOf(c), FileOf(c)>> \in cache
    BY <1>1 DEF FetchFile, Available, Local, CommitOf, FileOf
  <2>3. RefOf(c) \in Refs => CommitOf(c) = ref[RefOf(c)]
    BY DEF CommitOf, LocalCommit, RefOf
  <2>4. ref = [r \in Refs |-> ref[r]]
    BY DEF PinnedInv, World
  <2>5. \A r \in Refs : [ref EXCEPT ![r] = ref[r]] = ref
    BY <2>4
  <2>. QED  BY <2>1, <2>2, <2>3, <2>5
<1>2. CASE ~FetchFile(o)
  BY <1>2 DEF OpenStep, Begin, Gate, GateSlots, GateCeiling, ChooseArtifact,
              FetchMiss, Fetched, Load, Lookup, fileVars
<1>. QED  BY <1>1, <1>2

\* What a call was told it was told when it began.
LEMMA WholeStays ==
  ASSUME PinnedInv, NEW o \in Openers, OpenStep(o), ~Begin(o)
  PROVE  /\ open'[o].whole = open[o].whole /\ open'[o].known = open[o].known
         /\ open'[o].req = open[o].req
         /\ \A p \in Openers : p # o => open'[p] = open[p]
<1>1. \E fields : Updates(o, fields) /\ DOMAIN fields \cap {"req", "whole", "known"} = {}
  <2>1. CASE FetchFile(o)
    <3>1. PICK todo, got : Updates(o, [todo |-> todo, got |-> got])
      BY <2>1 DEF FetchFile
    <3>2. DOMAIN [todo |-> todo, got |-> got] \cap {"req", "whole", "known"} = {}
      OBVIOUS
    <3>. QED  BY <3>1, <3>2
  <2>2. CASE ChooseArtifact(o)
    <3>1. PICK a, prec, rev, pc, todo :
            \/ Updates(o, [pc |-> "refused"])
            \/ Updates(o, [pc |-> pc, prec |-> prec, art |-> a, rev |-> rev, todo |-> todo])
      BY <2>2 DEF ChooseArtifact
    <3>2. /\ DOMAIN [pc |-> "refused"] \cap {"req", "whole", "known"} = {}
          /\ DOMAIN [pc |-> pc, prec |-> prec, art |-> a, rev |-> rev, todo |-> todo]
               \cap {"req", "whole", "known"} = {}
      OBVIOUS
    <3>. QED  BY <3>1, <3>2
  <2>3. CASE OtherStep(o)
    <3>1. PICK fields : Updates(o, fields) /\ Harmless(open[o].pc, fields)
      BY <2>3, OtherUpdates
    <3>. QED  BY <3>1 DEF Harmless
  <2>. QED  BY <2>1, <2>2, <2>3 DEF OpenStep, OtherStep
<1>2. PICK fields : Updates(o, fields) /\ DOMAIN fields \cap {"req", "whole", "known"} = {}
  BY <1>1
<1>. QED  BY <1>2, UpdatesFields DEF Fields

\* A call that begins is told what is so.
LEMMA BeginServes ==
  ASSUME ServesInv, NEW o \in Openers, Begin(o)
  PROVE  /\ Serves(open'[o]) /\ (open'[o].whole => ~online)
         /\ \A p \in Openers : p # o => open'[p] = open[p]
<1>1. PICK q \in Requests : open' = [open EXCEPT ![o] = Begun(q)]
  BY DEF Begin
<1>2. PICK d : d = Begun(q)
  OBVIOUS
<1>3. /\ d.pc = "gate" /\ d.req = q
      /\ d.whole => q.loader # "info" /\ ~online /\ ReportsCached(q) /\ ReportsWhole(q)
      /\ d.known => resolve(cache_info_side(q.id), q.id) # NoSpec
  BY <1>2 DEF Begun, Fresh
<1>4. d.whole => q.precision # "auto"
  BY <1>3 DEF ReportsCached
<1>5. Serves(d)
  BY <1>3, <1>4, ReportIsOwn DEF Serves, Told, Keeps, Served
<1>6. open = [p \in Openers |-> open[p]] /\ open' = [open EXCEPT ![o] = d]
  BY <1>1, <1>2 DEF ServesInv, GatheredInv, PinnedInv, Shape
<1>7. \A p \in Openers : open'[p] = IF p = o THEN d ELSE open[p]
  BY <1>6
<1>. QED  BY <1>3, <1>5, <1>7

\* A step to a phase in which nothing is settled.
LEMMA AsideServes ==
  ASSUME NEW c, NEW d, Serves(c), d.whole = c.whole, d.known = c.known, d.req = c.req,
         d.pc \notin Served \cup {"artifact"}
  PROVE  Serves(d)
BY DEF Serves, Told, Keeps, Served

\* The entry a call keeps is the one cache_info has looked at.
LEMMA ReadServes ==
  ASSUME NEW c, NEW d, Serves(c), d.whole = c.whole, d.known = c.known, d.req = c.req,
         d.pc = "artifact",
         d.spec = resolve(side_of(c.req.loader), c.req.id), Kind(d)
  PROVE  Serves(d)
BY DEF Serves, Told, Keeps, Served

\* The gates, and cache_info.
LEMMA GatesServe ==
  ASSUME ServesInv, NEW o \in Openers,
         Gate(o) \/ GateSlots(o) \/ GateCeiling(o) \/ Lookup(o)
  PROVE  Serves(open'[o])
<1>. DEFINE c == open[o]
<1>1. PinnedInv /\ Serves(c)
  BY DEF ServesInv, GatheredInv
<1>2. open'[o].whole = c.whole /\ open'[o].known = c.known /\ open'[o].req = c.req
  BY <1>1, WholeStays DEF OpenStep, Begin, Gate, GateSlots, GateCeiling, Lookup, Finished
<1>3. ASSUME NEW fields, Updates(o, fields), "pc" \in DOMAIN fields,
             fields.pc \notin Served \cup {"artifact"}
      PROVE  Serves(open'[o])
  <2>1. open'[o].pc = fields.pc
    BY <1>1, <1>3, UpdatesFields DEF Fields
  <2>. QED  BY <1>1, <1>2, <1>3, <2>1, AsideServes
<1>4. ASSUME NEW l, NEW s, Updates(o, [pc |-> "artifact", spec |-> s, limit |-> l]),
             s = resolve(side_of(c.req.loader), c.req.id),
             c.req.loader = "laya" => s.kind = "decide-laya",
             c.req.loader = "2b" => s.kind = "decide-2b"
      PROVE  Serves(open'[o])
  <2>1. PICK fields : fields = [pc |-> "artifact", spec |-> s, limit |-> l]
    OBVIOUS
  <2>2. /\ DOMAIN fields = {"pc", "spec", "limit"} /\ fields.pc = "artifact"
        /\ fields.spec = s
    BY <2>1
  <2>3. open'[o].pc = "artifact" /\ open'[o].spec = s
    BY <1>1, <1>4, <2>1, <2>2, UpdatesFields DEF Fields
  <2>4. Kind(open'[o])
    BY <1>2, <1>4, <2>3 DEF Kind
  <2>. QED  BY <1>1, <1>2, <1>4, <2>3, <2>4, ReadServes
<1>5. CASE Gate(o)
  <2>. DEFINE q == c.req
              s == resolve(side_of(q.loader), q.id)
              l == IF q.loader \in {"text", "rerank", "laya"}
                     THEN effective_limit(q.loader, q.max_length, s) ELSE 0
  <2>1. \/ Updates(o, [pc |-> "refused"]) \/ Updates(o, [pc |-> "gate2"])
        \/ Updates(o, [pc |-> "artifact", spec |-> s, limit |-> l]) /\ Admits(q, s)
    BY <1>5 DEF Gate
  <2>2. Admits(q, s) => /\ q.loader = "laya" => s.kind = "decide-laya"
                        /\ q.loader = "2b" => s.kind = "decide-2b"
    BY DEF Admits, AdmitsLaya, Admits2B
  <2>. HIDE DEF l
  <2>3. CASE Updates(o, [pc |-> "refused"]) \/ Updates(o, [pc |-> "gate2"])
    BY <1>3, <2>3 DEF Served
  <2>. QED  BY <1>4, <2>1, <2>2, <2>3
<1>6. CASE GateSlots(o)
  <2>1. Updates(o, [pc |-> "refused"]) \/ Updates(o, [pc |-> "gate3"])
    BY <1>6 DEF GateSlots
  <2>. QED  BY <1>3, <2>1 DEF Served
<1>7. CASE GateCeiling(o)
  <2>. DEFINE q == c.req
              s == resolve("task", q.id)
              l == effective_limit("decide", q.max_length, s)
  <2>1. \/ Updates(o, [pc |-> "refused"])
        \/ Updates(o, [pc |-> "artifact", spec |-> s, limit |-> l])
    BY <1>7 DEF GateCeiling
  <2>2. q.loader = "decide" /\ side_of(q.loader) = "task"
    BY <1>7 DEF GateCeiling, ServesInv, StandingInv, Standing, side_of
  <2>. HIDE DEF l
  <2>3. CASE Updates(o, [pc |-> "refused"])
    BY <1>3, <2>3 DEF Served
  <2>. QED  BY <1>4, <2>1, <2>2, <2>3
<1>8. CASE Lookup(o)
  <2>1. PICK v : Updates(o, [pc |-> "reported", cached |-> v])
    BY <1>8 DEF Lookup
  <2>. QED  BY <1>3, <2>1 DEF Served
<1>. QED  BY <1>5, <1>6, <1>7, <1>8

\* Offline the artifact that is chosen is the one cache_info has looked at.
LEMMA ChooseServes ==
  ASSUME ServesInv, NEW o \in Openers, ChooseArtifact(o)
  PROVE  Serves(open'[o])
<1>. DEFINE c == open[o]
            q == c.req
<1>1. PinnedInv /\ Serves(c)
  BY DEF ServesInv, GatheredInv
<1>2. PICK d : d = open'[o]
  OBVIOUS
<1>3. d.whole = c.whole /\ d.known = c.known /\ d.req = q
  BY <1>1, <1>2, WholeStays DEF OpenStep, Begin, ChooseArtifact, Finished
<1>4. SUFFICES ASSUME Told(d) PROVE Keeps(d)
  BY <1>2 DEF Serves
<1>5. Told(c) /\ Keeps(c)
  BY <1>1, <1>3, <1>4 DEF Serves, Told
<1>6. /\ c.pc = "artifact" /\ q.loader # "info" /\ q.precision # "auto"
      /\ c.spec = resolve(side_of(q.loader), q.id) /\ Kind(c)
  BY <1>5 DEF ChooseArtifact, Keeps
<1>7. PICK a : a = artifact_for(side_of(q.loader), q.id, q.precision)
  OBVIOUS
<1>8. artifact_for(side_of(q.loader), q.id, q.precision) = a
  BY <1>7
<1>9. resolve_precision(q.precision, q.cuda) = q.precision
  BY <1>6 DEF resolve_precision
<1>10. PICK todo :
         \/ Updates(o, [pc |-> "refused"])
         \/ Updates(o, [pc |-> "fetch", prec |-> q.precision, art |-> a,
                        rev |-> revision_of(q, a), todo |-> todo])
  BY <1>6, <1>8, <1>9 DEF ChooseArtifact
<1>11. CASE Updates(o, [pc |-> "refused"])
  <2>1. PICK fields : fields = [pc |-> "refused"]
    OBVIOUS
  <2>2. "pc" \in DOMAIN fields /\ fields.pc = "refused"
    BY <2>1
  <2>3. d.pc = "refused"
    BY <1>1, <1>2, <1>11, <2>1, <2>2, UpdatesFields DEF Fields
  <2>. QED  BY <1>1, <1>3, <1>4, <2>3, AsideServes DEF Serves, Served
<1>12. CASE Updates(o, [pc |-> "fetch", prec |-> q.precision, art |-> a,
                        rev |-> revision_of(q, a), todo |-> todo])
  <2>1. PICK fields : fields = [pc |-> "fetch", prec |-> q.precision, art |-> a,
                                rev |-> revision_of(q, a), todo |-> todo]
    OBVIOUS
  <2>2. /\ DOMAIN fields = {"pc", "prec", "art", "rev", "todo"} /\ fields.pc = "fetch"
        /\ fields.prec = q.precision /\ fields.art = a /\ fields.rev = revision_of(q, a)
    BY <2>1
  <2>3. \A f \in Fields : d[f] = IF f \in DOMAIN fields THEN fields[f] ELSE c[f]
    BY <1>1, <1>2, <1>12, <2>1, UpdatesFields
  <2>4. /\ d.pc = "fetch" /\ d.prec = q.precision /\ d.art = a /\ d.rev = revision_of(q, a)
        /\ d.spec = c.spec /\ d.got = c.got
    BY <2>2, <2>3 DEF Fields
  <2>5. c.got = {}
    BY <1>1, <1>6 DEF PinnedInv, Pinned
  <2>6. Kind(d)
    BY <1>3, <1>6, <2>4 DEF Kind
  <2>. QED  BY <1>3, <1>5, <1>6, <1>7, <2>4, <2>5, <2>6 DEF Keeps, Served
<1>. QED  BY <1>10, <1>11, <1>12

\* A call that fetches goes on with the same entry, artifact and revision.
SameFiles(c, d) ==
  /\ d.req = c.req /\ d.whole = c.whole /\ d.known = c.known
  /\ d.spec = c.spec /\ d.prec = c.prec /\ d.art = c.art /\ d.rev = c.rev

\* What else is said of it depends on nothing more.
LEMMA SameKeeps ==
  ASSUME NEW c, NEW d, SameFiles(c, d)
  PROVE  /\ Told(d) <=> Told(c)
         /\ Kind(d) <=> Kind(c)
         /\ Place(d) = Place(c) /\ List(d) = List(c) /\ Wanted(d) = Wanted(c)
BY ListOf DEF SameFiles, Told, Kind, Place

\* For such a call only its phase, its files and its reason to give up are to be shown.
LEMMA StaysServed ==
  ASSUME NEW c, NEW d, SameFiles(c, d), Serves(c),
         c.pc \in {"fetch", "load"}, d.pc \notin {"artifact"},
         Told(c) => 
           /\ d.pc \in {"fetch", "load"} => \A g \in d.got : g.commit = Place(c)
           /\ d.pc = "missing" => \E i \in DOMAIN List(c) :
                List(c)[i].must /\ ~Local(c.art.repo, c.rev, List(c)[i].file)
           /\ d.pc = "broken" => \E f \in Wanted(c) : ~Whole(c.art.repo, Place(c), f)
  PROVE  Serves(d)
<1>. SUFFICES ASSUME Told(d) PROVE Keeps(d)
  BY DEF Serves
<1>1. Told(c) /\ Keeps(c)
  BY SameKeeps DEF Serves
<1>2. /\ Kind(d) <=> Kind(c)
      /\ Place(d) = Place(c) /\ List(d) = List(c) /\ Wanted(d) = Wanted(c)
  BY SameKeeps
<1>3. /\ c.spec = resolve(side_of(c.req.loader), c.req.id) /\ Kind(c)
      /\ c.prec = c.req.precision
      /\ c.art = artifact_for(side_of(c.req.loader), c.req.id, c.prec)
      /\ c.rev = revision_of(c.req, c.art)
      /\ c.known => resolve(side_of(c.req.loader), c.req.id) # NoSpec
      /\ ~online /\ c.req.loader # "info" /\ c.req.precision # "auto"
      /\ ReportsCached(c.req) /\ ReportsWhole(c.req)
  BY <1>1 DEF Keeps, Served
<1>. QED  BY <1>1, <1>2, <1>3 DEF Keeps, SameFiles

\* An offline download comes from the place of the call.
LEMMA FetchServes ==
  ASSUME ServesInv, ~online, NEW o \in Openers, FetchFile(o)
  PROVE  Serves(open'[o])
<1>. DEFINE c == open[o]
<1>1. PinnedInv /\ Serves(c)
  BY DEF ServesInv, GatheredInv
<1>2. c.pc = "fetch" /\ Updates(o, [todo |-> Tail(c.todo), got |-> c.got \cup {Gotten(c)}])
  BY <1>1, FetchFacts DEF PinnedInv
<1>3. PICK fields : fields = [todo |-> Tail(c.todo), got |-> c.got \cup {Gotten(c)}]
  OBVIOUS
<1>4. DOMAIN fields = {"todo", "got"} /\ fields.got = c.got \cup {Gotten(c)}
  BY <1>3
<1>5. PICK d : d = open'[o]
  OBVIOUS
<1>6. \A f \in Fields : d[f] = IF f \in DOMAIN fields THEN fields[f] ELSE c[f]
  BY <1>1, <1>2, <1>3, <1>5, UpdatesFields
<1>7. SameFiles(c, d) /\ d.pc = "fetch" /\ d.got = c.got \cup {Gotten(c)}
  BY <1>2, <1>4, <1>6 DEF Fields, SameFiles
<1>8. Gotten(c).commit = Place(c)
  BY DEF Gotten, CommitOf, Place
<1>9. Told(c) => \A g \in d.got : g.commit = Place(c)
  BY <1>1, <1>2, <1>7, <1>8 DEF Serves, Keeps
<1>. QED  BY <1>1, <1>2, <1>5, <1>7, <1>9, StaysServed

\* Offline a call misses only what is not in the cache, and gives up only over what
\* its list insists on.
LEMMA MissServes ==
  ASSUME ServesInv, ~online, NEW o \in Openers, FetchMiss(o)
  PROVE  Serves(open'[o])
<1>. DEFINE c == open[o]
<1>1. PinnedInv /\ Serves(c)
  BY DEF ServesInv, GatheredInv
<1>2. c.pc = "fetch" /\ c.todo # << >> /\ ~Local(c.art.repo, c.rev, Head(c.todo).file)
  BY DEF FetchMiss
<1>3. PICK pc : /\ Updates(o, [missed |-> TRUE, todo |-> Tail(c.todo), pc |-> pc])
                /\ pc = IF Head(c.todo).must THEN "missing" ELSE "fetch"
  BY DEF FetchMiss
<1>4. PICK fields : fields = [missed |-> TRUE, todo |-> Tail(c.todo), pc |-> pc]
  OBVIOUS
<1>5. DOMAIN fields = {"missed", "todo", "pc"} /\ fields.pc = pc
  BY <1>4
<1>6. PICK d : d = open'[o]
  OBVIOUS
<1>7. \A f \in Fields : d[f] = IF f \in DOMAIN fields THEN fields[f] ELSE c[f]
  BY <1>1, <1>3, <1>4, <1>6, UpdatesFields
<1>8. SameFiles(c, d) /\ d.pc = pc /\ d.got = c.got
  BY <1>5, <1>7 DEF Fields, SameFiles
<1>9. PICK T : T = {List(c)[i] : i \in DOMAIN List(c)}
  OBVIOUS
<1>10. PICK todo \in Seq(T) : todo = c.todo
  BY <1>2, <1>9 DEF ServesInv, GatheredInv, Gathered, Gathers
<1>11. Head(todo) \in T
  BY <1>2, <1>10
<1>12. PICK i \in DOMAIN List(c) : List(c)[i] = Head(c.todo)
  BY <1>9, <1>10, <1>11
<1>13. d.pc = "missing" =>
         List(c)[i].must /\ ~Local(c.art.repo, c.rev, List(c)[i].file)
  BY <1>2, <1>3, <1>8, <1>12
<1>14. Told(c) => \A g \in d.got : g.commit = Place(c)
  BY <1>1, <1>2, <1>8 DEF Serves, Keeps
<1>. QED  BY <1>1, <1>2, <1>3, <1>6, <1>8, <1>13, <1>14, StaysServed

\* After the last download nothing has moved.
LEMMA FetchedServes ==
  ASSUME ServesInv, NEW o \in Openers, Fetched(o)
  PROVE  Serves(open'[o])
<1>. DEFINE c == open[o]
<1>1. PinnedInv /\ Serves(c) /\ c.pc = "fetch"
  BY DEF ServesInv, GatheredInv, Fetched
<1>2. PICK fields : /\ Updates(o, fields)
                    /\ "pc" \in DOMAIN fields /\ DOMAIN fields \subseteq {"pc", "layout", "limit"}
                    /\ fields.pc \in {"load", "refused"}
  BY FetchedUpdates
<1>3. PICK d : d = open'[o]
  OBVIOUS
<1>4. \A f \in Fields : d[f] = IF f \in DOMAIN fields THEN fields[f] ELSE c[f]
  BY <1>1, <1>2, <1>3, UpdatesFields
<1>5. SameFiles(c, d) /\ d.pc \in {"load", "refused"} /\ d.got = c.got
  BY <1>2, <1>4 DEF Fields, SameFiles
<1>6. Told(c) => \A g \in d.got : g.commit = Place(c)
  BY <1>1, <1>5 DEF Serves, Keeps
<1>. QED  BY <1>1, <1>3, <1>5, <1>6, StaysServed

\* The session fails to load over a file of the list that lacks another.
LEMMA LoadServes ==
  ASSUME ServesInv, NEW o \in Openers, Load(o)
  PROVE  Serves(open'[o])
<1>. DEFINE c == open[o]
<1>1. PinnedInv /\ Serves(c) /\ c.pc = "load"
  BY DEF ServesInv, GatheredInv, Load
<1>2. PICK pc : /\ Updates(o, [pc |-> pc])
                /\ pc = IF \A g \in c.got : Whole(c.art.repo, g.commit, g.file)
                          THEN "ready" ELSE "broken"
  BY DEF Load
<1>3. PICK fields : fields = [pc |-> pc]
  OBVIOUS
<1>4. DOMAIN fields = {"pc"} /\ fields.pc = pc
  BY <1>3
<1>5. PICK d : d = open'[o]
  OBVIOUS
<1>6. \A f \in Fields : d[f] = IF f \in DOMAIN fields THEN fields[f] ELSE c[f]
  BY <1>1, <1>2, <1>3, <1>5, UpdatesFields
<1>7. SameFiles(c, d) /\ d.pc = pc
  BY <1>4, <1>6 DEF Fields, SameFiles
<1>8. Come(c) \subseteq Wanted(c)
  BY <1>1 DEF ServesInv, GatheredInv, Gathered, Gathers
<1>9. Told(c) => \A g \in c.got : g.commit = Place(c)
  BY <1>1 DEF Serves, Keeps
<1>10. ASSUME Told(c), pc = "broken"
       PROVE  \E f \in Wanted(c) : ~Whole(c.art.repo, Place(c), f)
  <2>1. PICK g \in c.got : ~Whole(c.art.repo, g.commit, g.file)
    BY <1>2, <1>10
  <2>. QED  BY <1>8, <1>9, <1>10, <2>1 DEF Come
<1>. QED  BY <1>1, <1>2, <1>5, <1>7, <1>10, StaysServed

\* The steps of a call.
LEMMA CallServes ==
  ASSUME ServesInv, NEW o \in Openers, OpenStep(o), UNCHANGED vars
  PROVE  \A p \in Openers : Serves(open[p])'
<1>1. PinnedInv /\ \A p \in Openers : Serves(open[p])
  BY DEF ServesInv, GatheredInv
<1>2. UNCHANGED <<overlay, dropped>>
  BY DEF vars
<1>3. \A p \in Openers : p # o => open'[p] = open[p]
  BY <1>1, BeginServes, WholeStays
<1>4. CASE ~online
  <2>1. UNCHANGED <<online, cache, ref>>
    BY <1>1, <1>4, OfflineStill
  <2>2. Serves(open'[o])
    BY <1>4, BeginServes, GatesServe, ChooseServes, FetchServes, MissServes, FetchedServes,
       LoadServes DEF OpenStep
  <2>3. ASSUME NEW p \in Openers PROVE Serves(open[p])'
    <3>1. PICK d : d = open'[p]
      OBVIOUS
    <3>2. Serves(d)
      BY <1>1, <1>3, <2>2, <3>1
    <3>. QED  BY <1>2, <2>1, <3>1, <3>2, ServesUnmoved
  <2>. QED  BY <2>3
<1>5. CASE online
  <2>1. ASSUME NEW p \in Openers PROVE ~Told(open[p])'
    <3>1. PICK d : d = open'[p]
      OBVIOUS
    <3>2. CASE p = o /\ Begin(o)
      <4>1. ~d.whole
        BY <1>5, <3>1, <3>2, BeginServes
      <4>. QED  BY <3>1, <4>1 DEF Told
    <3>3. CASE ~(p = o /\ Begin(o))
      <4>1. /\ d.whole = open[p].whole /\ d.known = open[p].known
            /\ d.req = open[p].req
        BY <1>1, <1>3, <3>1, <3>3, WholeStays
      <4>2. ~Told(open[p])
        BY <1>1, <1>5 DEF Serves, Keeps
      <4>3. \A side, id : resolve(side, id)' = resolve(side, id)
        BY <1>2 DEF resolve
      <4>. QED  BY <1>2, <3>1, <4>1, <4>2, <4>3 DEF Told, Dropped
    <3>. QED  BY <3>2, <3>3
  <2>. QED  BY <2>1 DEF Serves
<1>. QED  BY <1>1, <1>4, <1>5 DEF PinnedInv, World

\* Registrations and unregistrations of others: what was said of an entry stands for
\* as long as the entry does.
LEMMA RegistryServes ==
  ASSUME ServesInv, [Next]_vars, UNCHANGED acquireVars
  PROVE  \A p \in Openers : Serves(open[p])'
<1>. SUFFICES ASSUME NEW p \in Openers PROVE Serves(open[p])'
  OBVIOUS
<1>1. PICK c : c = open[p]
  OBVIOUS
<1>2. open'[p] = c /\ UNCHANGED <<online, cache, ref>>
  BY <1>1 DEF acquireVars, fileVars
<1>3. TypeOK /\ Unique /\ Serves(c)
  BY <1>1 DEF ServesInv, GatheredInv, PinnedInv, StandingInv
<1>4. SUFFICES ASSUME (Told(c))' PROVE (Keeps(c))'
  BY <1>2 DEF Serves, Told, Keeps, Kind, Place, List, Wanted
<1>5. PICK id : id = c.req.id
  OBVIOUS
<1>6. PICK own \in Sides, other \in Sides :
        /\ own = side_of(c.req.loader) /\ other = Other(own) /\ {own, other} = {"task", "model"}
  BY TwoSides
<1>7. id \notin Dropped' /\ resolve(other, id)' = NoSpec /\ c.whole
  BY <1>4, <1>5, <1>6 DEF Told
<1>8. \A side \in Sides : <<side, id>> \notin dropped'
  <2>1. \A side \in Sides : <<side, id>>[2] = id
    OBVIOUS
  <2>. QED  BY <1>7, <2>1 DEF Dropped
<1>9. resolve(other, id) = NoSpec
  BY <1>3, <1>7, <1>8, ResolvesAlike
<1>10. id \notin Dropped
  BY <1>3, <1>7, UniqueKept DEF Dropped
<1>11. c.known \/ resolve(own, id) = NoSpec
  <2>1. c.known \/ resolve(own, id)' = NoSpec
    BY <1>4, <1>5, <1>6 DEF Told
  <2>2. resolve(own, id) # NoSpec => resolve(own, id)' = resolve(own, id)
    BY <1>3, <1>8, ResolvesAlike
  <2>. QED  BY <2>1, <2>2
<1>12. Told(c) /\ Keeps(c)
  BY <1>3, <1>5, <1>6, <1>7, <1>9, <1>10, <1>11 DEF Told, Serves
<1>13. resolve(own, id)' = resolve(own, id)
  <2>1. CASE resolve(own, id) # NoSpec
    BY <1>3, <1>8, <2>1, ResolvesAlike
  <2>2. CASE resolve(own, id) = NoSpec
    <3>1. ~c.known
      BY <1>5, <1>6, <1>12, <2>2 DEF Keeps
    <3>2. resolve(own, id)' = NoSpec
      BY <1>4, <1>5, <1>6, <3>1 DEF Told
    <3>. QED  BY <2>2, <3>2
  <2>. QED  BY <2>1, <2>2
<1>14. /\ resolve("task", id)' = resolve("task", id)
       /\ resolve("model", id)' = resolve("model", id)
  BY <1>6, <1>7, <1>9, <1>13
<1>15. /\ ReportsCached(c.req)' <=> ReportsCached(c.req)
       /\ ReportsWhole(c.req)' <=> ReportsWhole(c.req)
  BY <1>2, <1>5, <1>14, ReportsAlike
<1>16. /\ (Place(c))' = Place(c)
       /\ \A repo, rev, f : Local(repo, rev, f)' <=> Local(repo, rev, f)
       /\ \A repo, commit, f : Whole(repo, commit, f)' <=> Whole(repo, commit, f)
  BY <1>2 DEF Place, LocalCommit, Local, Whole
<1>17. \A p1 : artifact_for(own, id, p1)' = artifact_for(own, id, p1)
  BY <1>13 DEF artifact_for
<1>. QED  BY <1>2, <1>5, <1>6, <1>12, <1>13, <1>15, <1>16, <1>17 DEF Keeps

\* Every step keeps the invariant.
LEMMA NextServes == ServesInv /\ [AcquireNext]_allVars => ServesInv'
<1>. SUFFICES ASSUME ServesInv, [AcquireNext]_allVars PROVE ServesInv'
  OBVIOUS
<1>1. GatheredInv' /\ StandingInv'
  BY NextGathered, NextStanding DEF ServesInv
<1>2. [Next]_vars
  BY DEF AcquireNext, RegistryStep, Next, allVars
<1>3. OnlyAdmissible'
  BY <1>2, AdmissibleKept DEF ServesInv, GatheredInv, PinnedInv
<1>4. ASSUME NEW o \in Openers, OpenStep(o), UNCHANGED vars
      PROVE  \A p \in Openers : Serves(open[p])'
  BY <1>4, CallServes
<1>5. CASE UNCHANGED acquireVars
  BY <1>1, <1>2, <1>3, <1>5, RegistryServes DEF ServesInv
<1>6. ASSUME NEW r \in Refs, Push(r), UNCHANGED vars
      PROVE  \A p \in Openers : Serves(open[p])'
  <2>1. UNCHANGED <<overlay, dropped, online, cache, ref, open>>
    BY <1>6 DEF Push, vars
  <2>. QED  BY <2>1, ServesUnmoved DEF ServesInv
<1>7. CASE Disconnect /\ UNCHANGED vars
  <2>. SUFFICES ASSUME NEW p \in Openers PROVE ~Told(open[p])'
    BY <1>1, <1>3 DEF ServesInv, Serves
  <2>1. PICK c : c = open[p]
    OBVIOUS
  <2>2. open'[p] = c /\ UNCHANGED <<overlay, dropped>>
    BY <1>7, <2>1 DEF Disconnect, vars
  <2>3. ~Told(c)
    BY <1>7, <2>1 DEF Disconnect, ServesInv, Serves, Keeps
  <2>4. \A side, id : resolve(side, id)' = resolve(side, id)
    BY <2>2 DEF resolve
  <2>. QED  BY <2>2, <2>3, <2>4 DEF Told, Dropped
<1>. QED  BY <1>1, <1>3, <1>4, <1>5, <1>6, <1>7 DEF ServesInv, AcquireNext, allVars

\* Hence it always holds.
LEMMA ServesAlways == AcquireSpec => []ServesInv
<1>1. AcquireInit => OnlyAdmissible /\ \A o \in Openers : Serves(open[o])
  <2>. SUFFICES ASSUME AcquireInit
                PROVE  OnlyAdmissible /\ \A o \in Openers : Serves(open[o])
    OBVIOUS
  <2>1. OnlyAdmissible /\ \A o \in Openers : open[o] = Closed
    BY DEF AcquireInit, Init, OnlyAdmissible
  <2>2. ~Closed.whole
    BY DEF Closed, Fresh
  <2>. QED  BY <2>1, <2>2 DEF Serves, Told
<1>2. GatheredInv /\ StandingInv /\ (OnlyAdmissible /\ \A o \in Openers : Serves(open[o]))
        <=> ServesInv
  BY DEF ServesInv
<1>3. AcquireInit /\ GatheredInv /\ StandingInv => ServesInv
  BY <1>1, <1>2
<1>. QED  BY <1>3, NextServes, GatheredAlways, StandingAlways, PTL DEF AcquireSpec

\* A task model lists the files of its kind.
LEMMA KindFiles ==
  ASSUME NEW id, resolve("task", id) # NoSpec
  PROVE  kind_extra_files(resolve("task", id).kind) \subseteq resolve("task", id).extra_files
<1>1. ASSUME NEW e, NEW extra, NEW source, NEW measured
      PROVE  LET s == Resolved("task", e, extra, source, measured)
             IN s.kind = e.kind /\ s.extra_files = extra /\ s.source = source
  BY DEF Resolved
<1>2. CASE id \in builtin_ids("task")
  <2>1. PICK b : b = lookup_task(id)
    OBVIOUS
  <2>2. resolve("task", id) = Resolved("task", b, kind_extra_files(b.kind), "builtin", TRUE)
    BY <1>2, <2>1 DEF resolve
  <2>3. resolve("task", id).kind = b.kind
    BY <2>2 DEF Resolved
  <2>4. resolve("task", id).extra_files = kind_extra_files(b.kind)
    BY <2>2 DEF Resolved
  <2>. QED  BY <2>3, <2>4
<1>3. CASE id \notin builtin_ids("task")
  <2>1. id \in OwnedIds(overlay["task"])
    BY <1>3 DEF resolve
  <2>2. PICK e : e = OwnerOf("task", id).entry
    OBVIOUS
  <2>3. resolve("task", id) = Resolved("task", e, kind_extra_files(e.kind) \cup e.extra_files,
                                       "registered", e.measured)
    BY <1>3, <2>1, <2>2 DEF resolve, OwnerOf
  <2>. QED  BY <1>1, <2>3
<1>. QED  BY <1>2, <1>3

\* The weights of a registered decider-2b are among its files.
LEMMA WeightsListed ==
  ASSUME OnlyAdmissible, NEW id, NEW s, s = resolve("task", id), s # NoSpec,
         s.kind = "decide-2b", s.source # "builtin"
  PROVE  weights(s) \in s.extra_files
<1>1. ASSUME NEW e, NEW extra, NEW source, NEW measured
      PROVE  LET x == Resolved("task", e, extra, source, measured)
             IN x.kind = e.kind /\ x.extra_files = extra /\ x.source = source
  BY DEF Resolved
<1>2. id \notin builtin_ids("task")
  <2>. SUFFICES ASSUME id \in builtin_ids("task") PROVE FALSE
    OBVIOUS
  <2>1. PICK b : b = lookup_task(id)
    OBVIOUS
  <2>2. s = Resolved("task", b, kind_extra_files(b.kind), "builtin", TRUE)
    BY <2>1 DEF resolve
  <2>3. s.source = "builtin"
    BY <2>2 DEF Resolved
  <2>. QED  BY <2>3
<1>3. id \in OwnedIds(overlay["task"])
  BY <1>2 DEF resolve
<1>4. PICK r \in overlay["task"] : r = OwnerOf("task", id)
  BY <1>3 DEF OwnedIds, OwnerOf
<1>5. PICK e : e = r.entry
  OBVIOUS
<1>6. s = Resolved("task", e, kind_extra_files(e.kind) \cup e.extra_files,
                   "registered", e.measured)
  BY <1>2, <1>3, <1>4, <1>5 DEF resolve, OwnerOf
<1>7. e.kind = "decide-2b" /\ e.extra_files \subseteq s.extra_files
  BY <1>1, <1>6
<1>8. validate_task(e)
  BY <1>4, <1>5 DEF OnlyAdmissible, Sides, Admissible, validate
<1>9. \E f \in s.extra_files : IsWeights(f)
  BY <1>7, <1>8 DEF validate_task
<1>. QED  BY <1>9 DEF weights

\* What a caller has to know beyond the word of cache_info: that the loader and
\* cache_info mean the same model, that the graph of a vision model and that of the
\* builtin decider-2b refer to the file their loader insists on, and that of the files
\* of the list none but the graph and the tokenizer refer to others.
Meant(c) ==
  /\ resolve(Other(side_of(c.req.loader)), c.req.id) = NoSpec
  /\ c.req.loader = "vision" => <<c.art.repo, c.art.file, sidecar(c.art)>> \in Companions
  /\ c.req.loader = "2b" /\ c.spec.source = "builtin" /\ c.prec = "q8" =>
       <<c.art.repo, c.art.file, weights(c.spec)>> \in Companions
  /\ \A k \in Companions : k[1] = c.art.repo /\ k[2] \in Wanted(c) =>
       k[2] \in {c.art.file, TokenizerJson}

\* Then everything the list insists on is in the cache.
LEMMA InsistedLocal ==
  ASSUME ServesInv, NEW c, Told(c), Keeps(c), Meant(c), c.pc \in Served,
         NEW f \in Insisted(c.req.loader, c.art, c.spec, c.prec)
  PROVE  Local(c.art.repo, c.rev, f)
<1>. DEFINE q == c.req
            a == c.art
            t == resolve("task", q.id)
<1>1. /\ c.spec = resolve(side_of(q.loader), q.id) /\ Kind(c) /\ c.prec = q.precision
      /\ a = artifact_for(side_of(q.loader), q.id, c.prec) /\ c.rev = revision_of(q, a)
      /\ ReportsCached(q) /\ ReportsWhole(q)
  BY DEF Keeps, Served
<1>2. q.loader \in {"laya", "2b"} => c.spec # NoSpec
  BY <1>1 DEF Kind, NoSpec
<1>3. artifact_for(cache_info_side(q.id), q.id, q.precision) = a
  BY <1>1, ReportIsOwn DEF Told
<1>4. /\ \A g \in required_files(a, t, c.prec) : Local(a.repo, c.rev, g)
      /\ \A g \in {a.file, TokenizerJson} : Whole(a.repo, Place(c), g)
  BY <1>1, <1>3 DEF ReportsCached, ReportsWhole, CacheVerdict, Place
<1>5. CASE f \in {a.file, TokenizerJson}
  BY <1>4, <1>5 DEF required_files
<1>6. ASSUME <<a.repo, a.file, f>> \in Companions
      PROVE  Local(a.repo, c.rev, f)
  <2>1. <<a.repo, Place(c), f>> \in cache
    <3>1. PICK k \in Companions : k = <<a.repo, a.file, f>>
      BY <1>6
    <3>2. k[1] = a.repo /\ k[2] = a.file /\ k[3] = f
      BY <3>1
    <3>. QED  BY <1>4, <3>2 DEF Whole
  <2>. QED  BY <2>1 DEF Local, Place
<1>7. CASE q.loader = "vision" /\ f = sidecar(a)
  BY <1>6, <1>7 DEF Meant
<1>8. q.loader \in {"laya", "2b"} => t = c.spec
  BY <1>1 DEF side_of
<1>9. ASSUME q.loader \in {"laya", "2b"}, f \in t.extra_files, IsWeights(f) => c.prec = "q8"
      PROVE  Local(a.repo, c.rev, f)
  <2>1. t.kind \in {"decide-laya", "decide-2b"}
    BY <1>1, <1>8, <1>9 DEF Kind
  <2>. QED  BY <1>4, <1>9, <2>1 DEF required_files
<1>10. CASE q.loader = "laya" /\ f = Json("rl_agent_config")
  <2>1. t.kind = "decide-laya" /\ t # NoSpec
    BY <1>1, <1>2, <1>8, <1>10 DEF Kind
  <2>2. f \in t.extra_files
    BY <1>10, <2>1, KindFiles DEF kind_extra_files
  <2>. QED  BY <1>9, <1>10, <2>2 DEF IsWeights, Json
<1>11. CASE q.loader = "2b" /\ f \in {Json("decision"), Json("calibration")}
  <2>1. t.kind = "decide-2b" /\ t # NoSpec
    BY <1>1, <1>2, <1>8, <1>11 DEF Kind
  <2>2. f \in t.extra_files
    BY <1>11, <2>1, KindFiles DEF kind_extra_files
  <2>. QED  BY <1>9, <1>11, <2>2 DEF IsWeights, Json
<1>12. CASE q.loader = "2b" /\ c.prec = "q8" /\ f = weights(c.spec)
  <2>1. CASE c.spec.source = "builtin"
    BY <1>6, <1>12, <2>1 DEF Meant
  <2>2. CASE c.spec.source # "builtin"
    <3>1. t.kind = "decide-2b" /\ t # NoSpec /\ t = c.spec
      BY <1>1, <1>2, <1>8, <1>12 DEF Kind
    <3>2. f \in t.extra_files
      BY <1>12, <2>2, <3>1, WeightsListed DEF ServesInv
    <3>. QED  BY <1>9, <1>12, <3>2
  <2>. QED  BY <2>1, <2>2
<1>. QED  BY <1>5, <1>7, <1>10, <1>11, <1>12 DEF Insisted

\* So the call does not give up.
LEMMA MeantServed ==
  ASSUME ServesInv, NEW o \in Openers, Told(open[o]), Meant(open[o])
  PROVE  open[o].pc \notin {"missing", "broken"}
<1>. DEFINE c == open[o]
<1>1. Keeps(c) /\ (c.pc # "idle" => c.req \in Requests)
  BY DEF ServesInv, Serves, GatheredInv, Gathered
<1>2. CASE c.pc = "missing"
  <2>1. PICK i \in DOMAIN List(c) :
          List(c)[i].must /\ ~Local(c.art.repo, c.rev, List(c)[i].file)
    BY <1>1, <1>2 DEF Keeps
  <2>2. c.req.loader \in Loaders
    BY <1>1, <1>2, LoadersAssumption DEF Loaders
  <2>3. List(c)[i].file \in Insisted(c.req.loader, c.art, c.spec, c.prec)
    BY <2>1, <2>2, ListsInsist DEF List
  <2>4. Local(c.art.repo, c.rev, List(c)[i].file)
    BY <1>1, <1>2, <2>3, InsistedLocal DEF Served
  <2>. QED  BY <2>1, <2>4
<1>3. CASE c.pc = "broken"
  <2>1. PICK f \in Wanted(c) : ~Whole(c.art.repo, Place(c), f)
    BY <1>1, <1>3 DEF Keeps
  <2>2. f \in {c.art.file, TokenizerJson}
    BY <2>1 DEF Whole, Meant
  <2>3. /\ c.prec = c.req.precision
        /\ c.art = artifact_for(side_of(c.req.loader), c.req.id, c.prec)
        /\ c.rev = revision_of(c.req, c.art) /\ ReportsWhole(c.req)
    BY <1>1, <1>3 DEF Keeps, Served
  <2>4. artifact_for(cache_info_side(c.req.id), c.req.id, c.req.precision) = c.art
    BY <2>3, ReportIsOwn DEF Told
  <2>5. Whole(c.art.repo, Place(c), f)
    BY <2>2, <2>3, <2>4 DEF ReportsWhole, Place
  <2>. QED  BY <2>1, <2>5
<1>. QED  BY <1>2, <1>3

\* The calls cache_info vouched for know it.
AllMeant == \A o \in Openers : open[o].whole /\ open[o].pc \in Served => Meant(open[o])

\* What cache_info called cached opens without a network, whatever was registered and
\* fetched meanwhile, as long as both mean the same model and the graphs refer to what
\* their loaders insist on.
THEOREM CachedHolds == AcquireSpec => [](AllMeant => CachedIsEnough)
<1>1. ServesInv => (AllMeant => CachedIsEnough)
  <2>. SUFFICES ASSUME ServesInv, AllMeant, NEW o \in Openers,
                       open[o].cached, open[o].whole,
                       open[o].req.id \notin {d[2] : d \in dropped},
                       \/ open[o].known
                       \/ resolve(side_of(open[o].req.loader), open[o].req.id) = NoSpec
                PROVE  open[o].pc \notin {"missing", "broken"}
    BY DEF CachedIsEnough
  <2>1. Meant(open[o]) => Told(open[o])
    BY DEF Meant, Told, Dropped
  <2>. QED  BY <2>1, MeantServed DEF AllMeant, Served
<1>. QED  BY <1>1, ServesAlways, PTL
=============================================================================
