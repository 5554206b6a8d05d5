-------------------------- MODULE SphinxWorkerProofs --------------------------
(* The persistent Sphinx worker for any documents, manifests, output formats  *)
(* and bounds: what Sphinx sees, and what a request that succeeds has         *)
(* published.  What directives do to the domain's tables plays no part.       *)
EXTENDS SphinxWorker, TLAPS

TypeInv ==
    /\ TypeOK
    /\ DOMAIN doctrees = Formats /\ DOMAIN pages = Formats /\ DOMAIN published = Formats

\* The digests of a worker, the memory of its syncer and the copy agree; only a
\* worker that has had no request knows no digest.
SyncInv ==
    /\ phase # "down" /\ digests = Nothing => phase = "idle" /\ shas = Nothing
    /\ digests # Nothing => Fmt \in outdirs
    /\ phase \notin {"down", "idle"} => digests = Inputs
    /\ phase \notin {"down", "idle", "syncing"} => shas = Inputs
    /\ phase # "down" /\ digests # Nothing /\ ~upset => dest = shas

\* The toctrees in an environment include what they name and was read.
Includes(env) ==
    \A d \in Docs :
        env.toc[d] = IF env.read[d] = Absent THEN {}
                     ELSE Lists(d) \cap {e \in Docs : env.read[e] # Absent}
TocInv == \A f \in Formats : Includes(doctrees[f])

\* Nothing went wrong that the digests hide, and they served one format only.
Reliable == phase # "down" /\ digests # Nothing /\ ~upset /\ outdirs = {Fmt}

\* A document in the environment is of the version that the digests remember,
\* or Sphinx will be told of it, or a request that failed between the sync and
\* Sphinx hid its change; its page, if it has one, shows the version read.
EnvInv ==
    Reliable => \A d \in Known :
        /\ \/ Env.read[d] = digests[d] \/ digests[d] = Absent \/ d \in unreported
           \/ phase \in {"syncing", "main"} /\ d \in changedPaths
        /\ pages[Fmt][d] \in {Absent, Env.read[d]}

\* What is about to be published.
PublishInv ==
    phase = "publishing" =>
        /\ \A d \in Known : Env.toc[d] = Lists(d) \cap Found
        /\ Reliable => \A d \in Docs \ unreported :
                            Inputs[d] # Absent => pages[Fmt][d] = Inputs[d]

IInv ==
    /\ TypeInv /\ SyncInv /\ TocInv /\ EnvInv /\ PublishInv
    /\ TocIsCurrent /\ PublishedIsCurrent

-----------------------------------------------------------------------------
(* The documents *)

\* What Bazel sends is typed, and is not what a new worker remembers.
LEMMA SourceFacts ==
    /\ Sources \cup {Nothing} \subseteq [Docs -> Contents]
    /\ \A inputs \in Sources : inputs # Nothing
BY SourcesAssumption DEF Nothing, Contents

\* The request and what is known of it, in types.
LEMMA RequestFacts ==
    ASSUME TypeInv
    PROVE  /\ Fmt \in Formats /\ Inputs \in Sources \cup {Nothing}
           /\ Inputs \in [Docs -> Contents] /\ dest \in [Docs -> Contents]
           /\ Found \subseteq Docs /\ Known \subseteq Docs
           /\ Env.read \in [Docs -> Contents] /\ Env.toc \in [Docs -> SUBSET Docs]
           /\ pages[Fmt] \in [Docs -> Contents] /\ published[Fmt] \in [Docs -> Contents]
BY SourceFacts DEF TypeInv, TypeOK, Fmt, Inputs, Found, Known, Env

\* A worker that has not started yet.
LEMMA InitInv == Init => IInv
<1>. SUFFICES ASSUME Init PROVE IInv
  OBVIOUS
<1>1. TypeInv
  <2>1. request \in [fmt : Formats, inputs : Sources \cup {Nothing}]
    BY FormatsAssumption DEF Init
  <2>2. /\ phase = "down" /\ digests = Nothing /\ shas = Nothing /\ dest \in [Docs -> Contents]
        /\ response.exit = "none" /\ response.faulted = FALSE /\ upset = FALSE
        /\ changedPaths = {} /\ outdirs = {} /\ unreported = {}
    BY SourceFacts DEF Init, NoResponse
  <2>3. /\ requests \in 0..MaxRequests /\ workers \in 0..MaxWorkers
        /\ faults \in 0..MaxFaults
    BY WorkerBounds DEF Init
  <2>4. /\ DOMAIN doctrees = Formats /\ DOMAIN pages = Formats /\ DOMAIN published = Formats
        /\ \A f \in Formats :
            /\ doctrees[f].read \in [Docs -> Contents]
            /\ doctrees[f].toc \in [Docs -> SUBSET Docs]
            /\ pages[f] \in [Docs -> Contents] /\ published[f] \in [Docs -> Contents]
    BY SourceFacts DEF Init, NoEnv
  <2>. QED BY <2>1, <2>2, <2>3, <2>4 DEF TypeInv, TypeOK
<1>2. SyncInv /\ EnvInv /\ PublishInv /\ TocIsCurrent /\ PublishedIsCurrent
  BY DEF Init, SyncInv, EnvInv, Reliable, PublishInv, TocIsCurrent, PublishedIsCurrent,
         Answered, NoResponse
<1>3. TocInv
  BY DEF Init, TocInv, Includes, NoEnv, Nothing
<1>. QED BY <1>1, <1>2, <1>3 DEF IInv

\* A step that leaves the state alone.
LEMMA StutterInv == ASSUME IInv, UNCHANGED vars PROVE IInv'
<1>1. UNCHANGED <<phase, request, digests, shas, changedPaths, outdirs, dest, doctrees,
                  pages, published, response, upset, unreported, requests, workers, faults>>
  BY DEF vars, memory, disk, counters
<1>2. TypeInv' /\ SyncInv' /\ TocInv'
  BY <1>1 DEF IInv, TypeInv, TypeOK, SyncInv, Fmt, Inputs, TocInv
<1>3. EnvInv'
  BY <1>1 DEF IInv, EnvInv, Reliable, Fmt, Env, Known
<1>4. PublishInv'
  BY <1>1 DEF IInv, PublishInv, Reliable, Fmt, Inputs, Env, Known, Found
<1>5. TocIsCurrent'
  BY <1>1 DEF IInv, TocIsCurrent, Answered, Fmt, Env, Known, Found
<1>6. PublishedIsCurrent'
  BY <1>1 DEF IInv, PublishedIsCurrent, Answered, Fmt, Inputs
<1>. QED BY <1>2, <1>3, <1>4, <1>5, <1>6 DEF IInv

-----------------------------------------------------------------------------
(* The process *)

\* The worker is new, or has ended: nothing is promised.
LEMMA StartInv == ASSUME IInv, Start PROVE IInv'
<1>1. TypeInv'
  BY WorkerBounds, SourceFacts DEF Start, disk, IInv, TypeInv, TypeOK, NoResponse
<1>2. SyncInv' /\ EnvInv' /\ PublishInv' /\ TocIsCurrent' /\ PublishedIsCurrent'
  BY DEF Start, SyncInv, EnvInv, Reliable, PublishInv, TocIsCurrent, PublishedIsCurrent,
         Answered, NoResponse
<1>3. TocInv'
  BY DEF Start, disk, IInv, TocInv
<1>. QED BY <1>1, <1>2, <1>3 DEF IInv

\* Killed between two steps, whatever was on the disk stays there.
LEMMA KillInv == ASSUME IInv, Kill PROVE IInv'
<1>1. TypeInv' /\ SyncInv'
  BY DEF Kill, memory, disk, counters, IInv, TypeInv, TypeOK, SyncInv, Fmt,
         NoResponse
<1>2. EnvInv' /\ PublishInv' /\ TocIsCurrent' /\ PublishedIsCurrent'
  BY DEF Kill, EnvInv, Reliable, PublishInv, TocIsCurrent, PublishedIsCurrent, Answered
<1>3. TocInv'
  BY DEF Kill, disk, IInv, TocInv
<1>. QED BY <1>1, <1>2, <1>3 DEF IInv

\* Ended by Bazel: the pages are removed.
LEMMA ExitInv == ASSUME IInv, Exit PROVE IInv'
<1>1. TypeInv'
  BY SourceFacts DEF Exit, memory, counters, IInv, TypeInv, TypeOK, NoResponse
<1>2. SyncInv'
  BY DEF Exit, memory, IInv, SyncInv, Fmt
<1>3. EnvInv' /\ PublishInv' /\ TocIsCurrent' /\ PublishedIsCurrent'
  BY DEF Exit, EnvInv, Reliable, PublishInv, TocIsCurrent, PublishedIsCurrent, Answered
<1>4. TocInv'
  BY DEF Exit, IInv, TocInv
<1>. QED BY <1>1, <1>2, <1>3, <1>4 DEF IInv

-----------------------------------------------------------------------------
(* Preparing a request and copying the sources *)

\* Removing the directories of a format, as far as that succeeds, leaves the
\* others as they are.
LEMMA CleanSlateFacts ==
    ASSUME TypeInv, TocInv, NEW fmt \in Formats, CleanSlate(fmt)
    PROVE  /\ DOMAIN doctrees' = Formats /\ DOMAIN pages' = Formats
           /\ \A f \in Formats :
                /\ doctrees'[f].read \in [Docs -> Contents]
                /\ doctrees'[f].toc \in [Docs -> SUBSET Docs]
                /\ pages'[f] \in [Docs -> Contents]
           /\ TocInv'
           /\ dest' \in [Docs -> Contents] /\ upset' \in BOOLEAN /\ faults' \in 0..MaxFaults
           /\ ~upset' => dest' = Nothing /\ \A d \in Docs : doctrees'[fmt].read[d] = Absent
<1>1. /\ NoEnv.read = Nothing /\ Nothing \in [Docs -> Contents]
      /\ NoEnv.toc \in [Docs -> SUBSET Docs] /\ \A d \in Docs : NoEnv.toc[d] = {}
      /\ \A d \in Docs : Nothing[d] = Absent
      /\ Includes(NoEnv)
  BY SourceFacts DEF NoEnv, Nothing, Includes
<1>2. ASSUME NEW of \in [Docs -> Contents], NEW stays PROVE Kept(of, stays) \in [Docs -> Contents]
  BY DEF Kept, Contents
<1>3. doctrees' = doctrees \/ doctrees' = [doctrees EXCEPT ![fmt] = NoEnv]
  BY DEF CleanSlate
<1>4. /\ DOMAIN doctrees' = Formats /\ TocInv'
      /\ \A f \in Formats : /\ doctrees'[f].read \in [Docs -> Contents]
                            /\ doctrees'[f].toc \in [Docs -> SUBSET Docs]
  <2>1. CASE doctrees' = doctrees
    BY <2>1 DEF TypeInv, TypeOK, TocInv
  <2>2. CASE doctrees' = [doctrees EXCEPT ![fmt] = NoEnv]
    <3>1. /\ DOMAIN doctrees' = Formats /\ doctrees'[fmt] = NoEnv
          /\ \A f \in Formats : f # fmt => doctrees'[f] = doctrees[f]
      BY <2>2 DEF TypeInv
    <3>2. \A f \in Formats : /\ doctrees'[f].read \in [Docs -> Contents]
                             /\ doctrees'[f].toc \in [Docs -> SUBSET Docs]
                             /\ Includes(doctrees'[f])
      BY <1>1, <3>1 DEF TypeInv, TypeOK, TocInv
    <3>. QED BY <3>1, <3>2 DEF TocInv
  <2>. QED BY <1>3, <2>1, <2>2
<1>5. PICK shown \in [Docs -> Contents] : pages' = [pages EXCEPT ![fmt] = shown]
  <2>1. pages[fmt] \in [Docs -> Contents]
    BY DEF TypeInv, TypeOK
  <2>2. CASE pages' = [pages EXCEPT ![fmt] = Nothing]
    BY <1>1, <2>2
  <2>3. CASE \E stays \in SUBSET Docs :
                pages' = [pages EXCEPT ![fmt] = Kept(pages[fmt], stays)]
    BY <1>2, <2>1, <2>3
  <2>. QED BY <2>2, <2>3 DEF CleanSlate
<1>6. DOMAIN pages' = Formats /\ \A f \in Formats : pages'[f] \in [Docs -> Contents]
  <2>1. /\ DOMAIN pages' = Formats /\ pages'[fmt] = shown
        /\ \A f \in Formats : f # fmt => pages'[f] = pages[f]
    BY <1>5 DEF TypeInv
  <2>. QED BY <1>5, <2>1 DEF TypeInv, TypeOK
<1>7. dest' \in [Docs -> Contents] /\ upset' \in BOOLEAN /\ faults' \in 0..MaxFaults
  <2>1. dest \in [Docs -> Contents] /\ faults \in 0..MaxFaults
    BY DEF TypeInv, TypeOK
  <2>2. dest' \in [Docs -> Contents]
    <3>1. CASE dest' = Nothing
      BY <1>1, <3>1
    <3>2. CASE \E stays \in SUBSET Docs : dest' = Kept(dest, stays)
      BY <1>2, <2>1, <3>2
    <3>. QED BY <3>1, <3>2 DEF CleanSlate
  <2>3. /\ upset' \in BOOLEAN
        /\ faults' = faults \/ (faults < MaxFaults /\ faults' = faults + 1)
    BY DEF CleanSlate, Fault
  <2>. QED BY <2>1, <2>2, <2>3, WorkerBounds
<1>8. ASSUME ~upset' PROVE dest' = Nothing /\ \A d \in Docs : doctrees'[fmt].read[d] = Absent
  <2>1. dest' = Nothing /\ doctrees' = [doctrees EXCEPT ![fmt] = NoEnv]
    BY <1>8 DEF CleanSlate
  <2>2. doctrees'[fmt] = NoEnv
    BY <2>1 DEF TypeInv
  <2>. QED BY <1>1, <2>1, <2>2
<1>. QED BY <1>4, <1>6, <1>7, <1>8

\* A first request finds nothing of an earlier worker; a later one is told what
\* differs from the request before it.
LEMMA PrepareSphinxInv ==
    ASSUME IInv, NEW fmt \in Formats, NEW inputs \in Sources, PrepareSphinx(fmt, inputs)
    PROVE  IInv'
<1>. DEFINE first == digests = Nothing
<1>1. /\ phase = "idle" /\ phase' = "syncing"
      /\ request' = [fmt |-> fmt, inputs |-> inputs] /\ response' = NoResponse
      /\ digests' = inputs /\ changedPaths' = NewOrChanged(inputs)
      /\ outdirs' = outdirs \cup {fmt}
      /\ IF first THEN CleanSlate(fmt)
         ELSE UNCHANGED <<dest, doctrees, pages, upset, faults>>
      /\ published' = [published EXCEPT ![fmt] = Nothing]
      /\ unreported' = IF first THEN {} ELSE unreported \ NewOrChanged(inputs)
      /\ requests' = requests + 1 /\ requests < MaxRequests
      /\ UNCHANGED <<shas, workers>>
  BY DEF PrepareSphinx
<1>2. TypeInv /\ SyncInv /\ TocInv /\ EnvInv
  BY DEF IInv
<1>. HIDE DEF first
<1>3. first \in BOOLEAN /\ (first <=> digests = Nothing)
  BY DEF first
<1>4. /\ DOMAIN doctrees' = Formats /\ DOMAIN pages' = Formats
      /\ \A f \in Formats :
            /\ doctrees'[f].read \in [Docs -> Contents]
            /\ doctrees'[f].toc \in [Docs -> SUBSET Docs]
            /\ pages'[f] \in [Docs -> Contents]
      /\ TocInv'
      /\ dest' \in [Docs -> Contents] /\ upset' \in BOOLEAN /\ faults' \in 0..MaxFaults
      /\ first /\ ~upset' =>
            dest' = Nothing /\ \A d \in Docs : doctrees'[fmt].read[d] = Absent
  <2>1. CASE first
    <3>1. CleanSlate(fmt)
      BY <1>1, <2>1
    <3>. QED BY ONLY <1>2, <3>1, fmt \in Formats, CleanSlateFacts
  <2>2. CASE ~first
    <3>1. UNCHANGED <<dest, doctrees, pages, upset, faults>>
      BY <1>1, <2>2
    <3>. QED BY <1>2, <2>2, <3>1 DEF TypeInv, TypeOK, TocInv
  <2>. QED BY <1>3, <2>1, <2>2
<1>5. inputs # Nothing /\ Fmt' = fmt /\ Inputs' = inputs
  BY <1>1, SourceFacts DEF Fmt, Inputs
<1>6. TypeInv'
  <2>1. /\ DOMAIN published' = Formats
        /\ \A f \in Formats : published'[f] \in [Docs -> Contents]
    BY <1>1, <1>2, SourceFacts DEF TypeInv, TypeOK
  <2>2. /\ changedPaths' \subseteq Docs /\ outdirs' \subseteq Formats
        /\ unreported' \subseteq Docs
        /\ response'.exit = "none" /\ response'.faulted = FALSE
    BY <1>1, <1>2, <1>3, SourceFacts DEF TypeInv, TypeOK, NewOrChanged, NoResponse
  <2>3. requests' \in 0..MaxRequests
    BY <1>1, <1>2, WorkerBounds DEF TypeInv, TypeOK
  <2>. QED BY <1>1, <1>2, <1>4, <2>1, <2>2, <2>3 DEF TypeInv, TypeOK
<1>7. SyncInv'
  <2>1. ASSUME ~upset' PROVE dest' = shas'
    <3>1. CASE first
      BY <1>1, <1>2, <1>3, <1>4, <2>1, <3>1 DEF SyncInv
    <3>2. CASE ~first
      <4>1. dest' = dest /\ upset' = upset
        BY <1>1, <3>2
      <4>. QED BY <1>1, <1>2, <1>3, <2>1, <3>2, <4>1 DEF SyncInv
    <3>. QED BY <3>1, <3>2
  <2>. QED BY <1>1, <1>5, <2>1 DEF SyncInv
<1>8. EnvInv'
  <2>. SUFFICES ASSUME Reliable', NEW d \in Known'
                PROVE  /\ \/ Env'.read[d] = inputs[d] \/ d \in unreported'
                          \/ d \in changedPaths' \/ inputs[d] = Absent
                       /\ pages'[fmt][d] \in {Absent, Env'.read[d]}
    BY <1>1, <1>5 DEF EnvInv
  <2>1. d \in Docs /\ Env' = doctrees'[fmt] /\ Env'.read[d] # Absent /\ ~upset'
    BY <1>5 DEF Known, Env, Reliable
  <2>2. ~first
    BY <1>4, <2>1
  <2>3. dest' = dest /\ doctrees' = doctrees /\ pages' = pages /\ upset' = upset
    BY <1>1, <2>2
  <2>4. Reliable /\ Fmt = fmt
    BY <1>1, <1>2, <1>3, <1>5, <2>2, <2>3 DEF Reliable, SyncInv, TypeInv, TypeOK
  <2>5. Env' = Env /\ d \in Known
    BY <1>1, <2>1, <2>3, <2>4 DEF Env, Known
  <2>6. /\ Env.read[d] = digests[d] \/ digests[d] = Absent \/ d \in unreported
        /\ pages[Fmt][d] \in {Absent, Env.read[d]}
    BY <1>1, <1>2, <2>4, <2>5 DEF EnvInv
  <2>7. unreported' = unreported \ NewOrChanged(inputs)
    BY <1>1, <2>2
  <2>. QED BY <1>1, <2>1, <2>3, <2>4, <2>5, <2>6, <2>7 DEF NewOrChanged
<1>9. PublishInv' /\ TocIsCurrent' /\ PublishedIsCurrent'
  BY <1>1 DEF PublishInv, TocIsCurrent, PublishedIsCurrent, Answered
<1>. QED BY <1>4, <1>6, <1>7, <1>8, <1>9 DEF IInv

\* The copy has been brought to the request's versions.
LEMMA SyncOkInv == ASSUME IInv, SyncOk PROVE IInv'
<1>1. /\ phase = "syncing" /\ phase' = "main" /\ shas' = Inputs
      /\ dest' = [d \in Docs |-> IF d \in Stale THEN Inputs[d] ELSE dest[d]]
      /\ UNCHANGED <<request, digests, changedPaths, outdirs, doctrees, pages, published,
                     response, upset, unreported, requests, workers, faults>>
  BY DEF SyncOk, counters
<1>2. /\ TypeInv /\ SyncInv /\ TocInv /\ EnvInv
      /\ Inputs \in Sources \cup {Nothing} /\ Inputs \in [Docs -> Contents]
      /\ dest \in [Docs -> Contents]
  BY RequestFacts DEF IInv
<1>3. UNCHANGED <<Fmt, Inputs, Env, Known>>
  BY <1>1 DEF Fmt, Inputs, Env, Known
<1>4. TypeInv'
  <2>1. dest' \in [Docs -> Contents]
    BY <1>1, <1>2
  <2>. QED BY <1>1, <1>2, <2>1 DEF TypeInv, TypeOK
<1>5. SyncInv'
  <2>1. ASSUME ~upset PROVE dest' = Inputs
    <3>1. dest = shas
      BY <1>1, <1>2, <2>1 DEF SyncInv
    <3>2. \A d \in Docs : dest'[d] = Inputs[d]
      BY <1>1, <3>1 DEF Stale
    <3>. QED BY <1>1, <1>2, <3>2
  <2>. QED BY <1>1, <1>2, <1>3, <2>1 DEF SyncInv
<1>6. TocInv'
  BY <1>1, <1>2 DEF TocInv
<1>7. EnvInv'
  BY <1>1, <1>2, <1>3 DEF EnvInv, Reliable
<1>8. PublishInv' /\ TocIsCurrent' /\ PublishedIsCurrent'
  BY <1>1 DEF PublishInv, TocIsCurrent, PublishedIsCurrent, Answered
<1>. QED BY <1>4, <1>5, <1>6, <1>7, <1>8 DEF IInv

\* From a sync that failed on, this worker is upset: only the environments and
\* the memory must still be what they were.
LEMMA SyncFailsInv == ASSUME IInv, SyncFails PROVE IInv'
<1>1. /\ phase = "syncing" /\ upset' = TRUE
      /\ \/ /\ phase' = "idle" /\ response' = [exit |-> "unhandled", faulted |-> TRUE]
            /\ shas' = shas
         \/ phase' = "main" /\ shas' = Inputs /\ response' = response
      /\ faults < MaxFaults /\ faults' = faults + 1
      /\ UNCHANGED <<request, digests, changedPaths, outdirs, doctrees, pages, published,
                     unreported, requests, workers>>
  BY DEF SyncFails, Respond, Fault
<1>2. /\ TypeInv /\ SyncInv /\ TocInv
      /\ Inputs \in Sources \cup {Nothing} /\ Inputs \in [Docs -> Contents]
      /\ dest \in [Docs -> Contents]
  BY RequestFacts DEF IInv
<1>3. dest' \in [Docs -> Contents]
  <2>1. Torn \in Contents
    BY DEF Contents
  <2>2. PICK left \in [Stale -> {"before", "after", "torn"}] :
          dest' = [d \in Docs |-> IF d \notin Stale \/ left[d] = "before" THEN dest[d]
                                  ELSE IF left[d] = "torn" THEN Torn ELSE Inputs[d]]
    BY DEF SyncFails
  <2>. QED BY <1>2, <2>1, <2>2
<1>4. UNCHANGED <<Fmt, Inputs>>
  BY <1>1 DEF Fmt, Inputs
<1>5. TypeInv'
  <2>1. faults' \in 0..MaxFaults
    BY <1>1, <1>2, WorkerBounds DEF TypeInv, TypeOK
  <2>2. /\ response'.exit \in {"none", "ok", "warned", "crashed", "unhandled"}
        /\ response'.faulted \in BOOLEAN
    <3>1. CASE response' = [exit |-> "unhandled", faulted |-> TRUE]
      BY <3>1
    <3>2. CASE response' = response
      BY <1>2, <3>2 DEF TypeInv, TypeOK
    <3>. QED BY <1>1, <3>1, <3>2
  <2>. QED BY <1>1, <1>2, <1>3, <2>1, <2>2 DEF TypeInv, TypeOK
<1>6. SyncInv'
  BY <1>1, <1>2, <1>4 DEF SyncInv
<1>7. TocInv'
  BY <1>1, <1>2 DEF TocInv
<1>8. EnvInv' /\ PublishInv' /\ PublishedIsCurrent'
  BY <1>1 DEF EnvInv, Reliable, PublishInv, PublishedIsCurrent, Answered
<1>9. TocIsCurrent'
  BY <1>1 DEF TocIsCurrent, Answered
<1>. QED BY <1>5, <1>6, <1>7, <1>8, <1>9 DEF IInv

\* Sphinx is not told what changed: these documents are now unreported.
LEMMA RequestInfoFailsInv == ASSUME IInv, RequestInfoFails PROVE IInv'
<1>1. /\ phase = "main" /\ phase' = "idle" /\ faults < MaxFaults /\ faults' = faults + 1
      /\ response' = [exit |-> "unhandled", faulted |-> TRUE]
      /\ unreported' = unreported \cup changedPaths
      /\ UNCHANGED <<request, digests, shas, changedPaths, outdirs, dest, doctrees, pages,
                     published, upset, requests, workers, Fmt, Inputs, Env, Known>>
  BY DEF RequestInfoFails, Respond, Fault, memory, disk, Fmt, Inputs, Env, Known
<1>2. TypeInv /\ SyncInv /\ TocInv /\ EnvInv
  BY DEF IInv
<1>3. TypeInv'
  <2>1. faults' \in 0..MaxFaults
    BY <1>1, <1>2, WorkerBounds DEF TypeInv, TypeOK
  <2>2. response'.exit = "unhandled" /\ response'.faulted = TRUE
    BY <1>1
  <2>3. unreported' \subseteq Docs
    BY <1>1, <1>2 DEF TypeInv, TypeOK
  <2>. QED BY <1>1, <1>2, <2>1, <2>2, <2>3 DEF TypeInv, TypeOK
<1>4. SyncInv'
  BY <1>1, <1>2 DEF SyncInv
<1>5. TocInv'
  BY <1>1, <1>2 DEF TocInv
<1>6. EnvInv'
  <2>. SUFFICES ASSUME Reliable', NEW d \in Known'
                PROVE  /\ \/ Env'.read[d] = digests'[d] \/ digests'[d] = Absent
                          \/ d \in unreported'
                       /\ pages'[Fmt'][d] \in {Absent, Env'.read[d]}
    BY DEF EnvInv
  <2>1. Reliable /\ d \in Known /\ digests = Inputs
    BY <1>1, <1>2 DEF Reliable, SyncInv
  <2>2. d \in Docs /\ Env.read[d] # Absent
    BY <2>1 DEF Known
  <2>. QED BY <1>1, <1>2, <2>1, <2>2 DEF EnvInv
<1>7. PublishInv' /\ TocIsCurrent' /\ PublishedIsCurrent'
  BY <1>1 DEF PublishInv, TocIsCurrent, PublishedIsCurrent, Answered
<1>. QED BY <1>3, <1>4, <1>5, <1>6, <1>7 DEF IInv

-----------------------------------------------------------------------------
(* Running Sphinx *)

\* An environment that includes only what it has read.
Closed(env) ==
    /\ env.read \in [Docs -> Contents] /\ env.toc \in [Docs -> SUBSET Docs]
    /\ Includes(env)

\* Documents that were not read again are known, unchanged as far as the worker
\* can tell, and include what they name; the new environment has what is there.
LEMMA NewEnvFacts ==
    ASSUME TypeInv, TocInv, NEW noticed \in MayNotice, NEW outdated, NEW data, NEW env,
           outdated = Outdated(noticed), env = NewEnv(outdated, data)
    PROVE  /\ outdated \subseteq Found
           /\ \A d \in Found \ outdated : d \in Known /\ d \notin changedPaths
           /\ \A d \in Docs :
                env.read[d] = IF d \in outdated THEN dest[d]
                              ELSE IF d \in Found THEN Env.read[d] ELSE Absent
           /\ {d \in Docs : env.read[d] # Absent} = Found
           /\ \A d \in Found : env.toc[d] = Lists(d) \cap Found
           /\ Closed(env)
<1>1. /\ Found = {d \in Docs : dest[d] # Absent}
      /\ Known = {d \in Docs : Env.read[d] # Absent}
      /\ Env.read \in [Docs -> Contents] /\ Env.toc \in [Docs -> SUBSET Docs]
      /\ dest \in [Docs -> Contents]
      /\ \A d \in Docs : Env.toc[d] = IF d \in Known THEN Lists(d) \cap Known ELSE {}
  <2>1. Includes(Env) /\ Fmt \in Formats
    BY RequestFacts DEF TocInv, Env
  <2>2. /\ Found = {d \in Docs : dest[d] # Absent}
        /\ Known = {d \in Docs : Env.read[d] # Absent}
    BY DEF Found, Known
  <2>3. \A d \in Docs : Env.toc[d] = IF d \in Known THEN Lists(d) \cap Known ELSE {}
    BY <2>1, <2>2 DEF Includes
  <2>. QED BY <2>2, <2>3, RequestFacts
<1>2. /\ outdated \subseteq Found
      /\ Found \ Known \subseteq outdated
      /\ changedPaths \cap Found \subseteq outdated
      /\ \A d \in (Known \cap Found) \ GlobToctrees :
            Env.toc[d] # Lists(d) => d \in outdated
  BY <1>1 DEF Outdated, MayNotice, HandleEnvGetOutdated
<1>3. ASSUME NEW d \in Known \cap Found, d \notin outdated
      PROVE  /\ Env.toc[d] \cap (Known \ Found) = {}
             /\ d \in GlobToctrees => Known = Found
  <2>1. /\ Env.toc[d] \cap (Known \ Found) # {} =>
              d \in HandleEnvGetOutdated(Found \ Known, Known \ Found)
        /\ d \in GlobToctrees /\ Known # Found =>
              d \in HandleEnvGetOutdated(Found \ Known, Known \ Found)
    BY <1>3 DEF HandleEnvGetOutdated
  <2>2. HandleEnvGetOutdated(Found \ Known, Known \ Found) \cap Found \subseteq outdated
    BY DEF Outdated
  <2>. QED BY <1>3, <2>1, <2>2
<1>4. /\ \A d \in Docs :
            /\ env.read[d] = IF d \in outdated THEN dest[d]
                             ELSE IF d \in Found THEN Env.read[d] ELSE Absent
            /\ env.toc[d] = IF d \in outdated THEN Lists(d) \cap Found
                            ELSE IF d \in Found THEN Env.toc[d] ELSE {}
      /\ env.read = [d \in Docs |-> env.read[d]] /\ env.toc = [d \in Docs |-> env.toc[d]]
  BY DEF NewEnv
<1>5. \A d \in Found \ outdated : d \in Known /\ d \notin changedPaths
  BY <1>2
<1>6. {d \in Docs : env.read[d] # Absent} = Found
  <2>1. ASSUME NEW d \in Docs PROVE env.read[d] # Absent <=> d \in Found
    <3>1. d \in Found <=> dest[d] # Absent
      BY <1>1
    <3>2. d \in Known <=> Env.read[d] # Absent
      BY <1>1
    <3>. QED BY <1>2, <1>4, <1>5, <3>1, <3>2
  <2>2. Found \subseteq Docs
    BY <1>1
  <2>. QED BY ONLY <2>1, <2>2
<1>7. ASSUME NEW d \in Found PROVE env.toc[d] = Lists(d) \cap Found
  <2>1. CASE d \in outdated
    BY <1>1, <1>4, <2>1
  <2>2. CASE d \notin outdated
    <3>1. d \in Known /\ d \in Docs /\ env.toc[d] = Env.toc[d]
      BY <1>1, <1>4, <1>5, <2>2
    <3>2. CASE d \in GlobToctrees
      <4>1. Known = Found
        BY <1>3, <2>2, <3>1, <3>2
      <4>. QED BY <1>1, <3>1, <4>1
    <3>3. CASE d \notin GlobToctrees
      <4>1. Env.toc[d] = Lists(d)
        BY <1>2, <2>2, <3>1, <3>3
      <4>2. Env.toc[d] \subseteq Found
        BY <1>1, <1>3, <2>2, <3>1
      <4>. QED BY <3>1, <4>1, <4>2
    <3>. QED BY <3>2, <3>3
  <2>. QED BY <2>1, <2>2
<1>8. ASSUME NEW d \in Docs
      PROVE  env.toc[d] = IF env.read[d] = Absent THEN {} ELSE Lists(d) \cap Found
  <2>1. CASE d \in Found
    BY <1>6, <1>7, <2>1
  <2>2. CASE d \notin Found
    <3>1. env.toc[d] = {} /\ env.read[d] = Absent
      BY <1>2, <1>4, <2>2
    <3>. QED BY <3>1
  <2>. QED BY <2>1, <2>2
<1>9. Closed(env)
  <2>1. env.read \in [Docs -> Contents]
    <3>1. Absent \in Contents
      BY DEF Contents
    <3>2. \A d \in Docs : env.read[d] \in Contents
      BY <1>1, <1>4, <3>1
    <3>. QED BY <1>4, <3>2
  <2>2. env.toc \in [Docs -> SUBSET Docs]
    <3>1. \A d \in Docs : env.toc[d] \in SUBSET Docs
      BY <1>1, <1>8
    <3>. QED BY <1>4, <3>1
  <2>3. Includes(env)
    BY <1>6, <1>8 DEF Includes
  <2>. QED BY <2>1, <2>2, <2>3 DEF Closed
<1>. QED BY <1>2, <1>4, <1>5, <1>6, <1>7, <1>9

\* No environment at all is closed too, and so is the one of the format.
LEMMA ClosedFacts ==
    ASSUME TypeInv, TocInv
    PROVE  Closed(NoEnv) /\ Closed(Env)
<1>1. Closed(NoEnv)
  BY SourceFacts DEF Closed, Includes, NoEnv, Nothing
<1>2. Closed(Env)
  BY RequestFacts DEF TocInv, Closed, Env
<1>. QED BY <1>1, <1>2

\* Saving an environment leaves those of the other formats.
LEMMA SaveFacts ==
    ASSUME TypeInv, TocInv, NEW env, Closed(env), Save(env)
    PROVE  /\ DOMAIN doctrees' = Formats /\ doctrees'[Fmt] = env
           /\ \A f \in Formats :
                /\ doctrees'[f].read \in [Docs -> Contents]
                /\ doctrees'[f].toc \in [Docs -> SUBSET Docs]
           /\ TocInv'
<1>1. Fmt \in Formats
  BY RequestFacts
<1>2. /\ DOMAIN doctrees' = Formats /\ doctrees'[Fmt] = env
      /\ \A f \in Formats : f # Fmt => doctrees'[f] = doctrees[f]
  BY <1>1 DEF Save, TypeInv
<1>3. TocInv'
  BY <1>2 DEF TocInv, Closed
<1>4. \A f \in Formats :
            /\ doctrees'[f].read \in [Docs -> Contents]
            /\ doctrees'[f].toc \in [Docs -> SUBSET Docs]
  BY <1>2 DEF TypeInv, TypeOK, Closed
<1>. QED BY <1>2, <1>3, <1>4

\* Writing pages leaves those of the other formats.
LEMMA PagesFacts ==
    ASSUME TypeInv, NEW shown \in [Docs -> Contents], pages' = [pages EXCEPT ![Fmt] = shown]
    PROVE  /\ DOMAIN pages' = Formats /\ \A f \in Formats : pages'[f] \in [Docs -> Contents]
           /\ pages'[Fmt] = shown
<1>1. Fmt \in Formats
  BY RequestFacts
<1>2. /\ DOMAIN pages' = Formats /\ pages'[Fmt] = shown
      /\ \A f \in Formats : f # Fmt => pages'[f] = pages[f]
  BY <1>1 DEF TypeInv
<1>. QED BY <1>2 DEF TypeInv, TypeOK

\* Sphinx ended with code 2.  The first time its doctrees are gone, or the worker
\* is upset; the second time it is upset if the environment is no longer what it was.
LEMMA CrashInv ==
    ASSUME IInv, InMain, NEW env, NEW n \in Nat, Closed(env), Crash(env, n),
           DOMAIN pages' = Formats, \A f \in Formats : pages'[f] \in [Docs -> Contents],
           \A d \in Docs : pages'[Fmt][d] \in {pages[Fmt][d], env.read[d]},
           UNCHANGED <<request, memory, dest, published, unreported, requests, workers>>
    PROVE  IInv'
<1>1. /\ TypeInv /\ SyncInv /\ TocInv /\ EnvInv
      /\ phase \in {"main", "retry"}
      /\ UNCHANGED <<request, digests, shas, changedPaths, outdirs, dest, published,
                     unreported, requests, workers, Fmt, Inputs>>
  BY DEF IInv, InMain, memory, Fmt, Inputs
<1>2. PICK kept \in {NoEnv, env} :
      /\ Save(kept)
      /\ \/ /\ phase = "main" /\ phase' = "retry" /\ response' = response
            /\ (kept = NoEnv /\ upset' = upset) \/ upset' = TRUE
         \/ /\ phase = "retry" /\ phase' = "idle" /\ upset' = (upset \/ env # Env)
            /\ kept = env
            /\ response' = [exit |-> "crashed", faulted |-> n > 0]
  BY <1>1 DEF Crash, Respond
<1>9. faults' \in 0..MaxFaults
  <2>1. Faults(n) \/ Faults(n + 1)
    BY DEF Crash
  <2>2. faults \in Nat
    BY <1>1, WorkerBounds DEF TypeInv, TypeOK
  <2>. QED BY <2>1, <2>2, WorkerBounds DEF Faults
<1>3. Closed(kept)
  BY <1>1, <1>2, ClosedFacts
<1>4. /\ DOMAIN doctrees' = Formats /\ doctrees'[Fmt] = kept
      /\ \A f \in Formats :
            /\ doctrees'[f].read \in [Docs -> Contents]
            /\ doctrees'[f].toc \in [Docs -> SUBSET Docs]
      /\ TocInv'
  BY ONLY <1>1, <1>2, <1>3, SaveFacts
<1>5. TypeInv'
  <2>1. /\ response'.exit \in {"none", "ok", "warned", "crashed", "unhandled"}
        /\ response'.faulted \in BOOLEAN
    <3>1. CASE response' = [exit |-> "crashed", faulted |-> n > 0]
      BY <3>1
    <3>2. CASE response' = response
      BY <1>1, <3>2 DEF TypeInv, TypeOK
    <3>. QED BY <1>2, <3>1, <3>2
  <2>2. upset' \in BOOLEAN
    BY <1>1, <1>2 DEF TypeInv, TypeOK
  <2>. QED BY <1>1, <1>2, <1>4, <1>9, <2>1, <2>2 DEF TypeInv, TypeOK
<1>6. SyncInv'
  <2>1. ~upset' => ~upset
    BY <1>2
  <2>. QED BY <1>1, <1>2, <2>1 DEF SyncInv
<1>7. EnvInv'
  <2>. SUFFICES ASSUME Reliable', NEW d \in Known'
                PROVE  /\ \/ Env'.read[d] = digests[d] \/ digests[d] = Absent
                          \/ d \in unreported
                       /\ pages'[Fmt][d] \in {Absent, Env'.read[d]}
    BY <1>1 DEF EnvInv
  <2>1. d \in Docs /\ Env' = kept /\ kept.read[d] # Absent /\ ~upset'
    BY <1>1, <1>4 DEF Known, Env, Reliable
  <2>2. phase = "retry"
    <3>1. kept = NoEnv => kept.read[d] = Absent
      BY <2>1 DEF NoEnv, Nothing
    <3>. QED BY <1>1, <1>2, <2>1, <3>1
  <2>3. ~upset /\ env = Env /\ kept = Env
    BY <1>2, <2>1, <2>2
  <2>4. Reliable /\ d \in Known
    BY <1>1, <1>2, <2>1, <2>3 DEF Reliable, Known
  <2>5. /\ Env.read[d] = digests[d] \/ digests[d] = Absent \/ d \in unreported
        /\ pages[Fmt][d] \in {Absent, Env.read[d]}
    BY <1>1, <2>2, <2>4 DEF EnvInv
  <2>. QED BY <2>1, <2>3, <2>5
<1>8. PublishInv' /\ TocIsCurrent' /\ PublishedIsCurrent'
  BY <1>2 DEF PublishInv, TocIsCurrent, PublishedIsCurrent, Answered
<1>. QED BY <1>4, <1>5, <1>6, <1>7, <1>8 DEF IInv

\* An exception before the environment was saved.
LEMMA MainCrashesInv == ASSUME IInv, MainCrashes PROVE IInv'
<1>1. /\ InMain /\ Crash(Env, 1)
      /\ UNCHANGED <<request, memory, dest, pages, published, unreported, requests, workers>>
  BY DEF MainCrashes
<1>2. TypeInv /\ TocInv
  BY DEF IInv
<1>3. Closed(Env)
  BY <1>2, ClosedFacts
<1>4. DOMAIN pages' = Formats /\ \A f \in Formats : pages'[f] \in [Docs -> Contents]
  BY <1>1, <1>2 DEF TypeInv, TypeOK
<1>5. \A d \in Docs : pages'[Fmt][d] \in {pages[Fmt][d], Env.read[d]}
  BY <1>1
<1>6. UNCHANGED <<request, memory, dest, published, unreported, requests, workers>>
  BY <1>1
<1>7. 1 \in Nat
  OBVIOUS
<1>. QED BY ONLY IInv, <1>1, <1>3, <1>4, <1>5, <1>6, <1>7, CrashInv

\* Sphinx has read what is outdated and written the pages: all that is found is
\* read in the version of the request, and its page shows it.
LEMMA MainDoneInv ==
    ASSUME IInv, InMain, NEW noticed \in MayNotice, NEW outdated, NEW data, NEW env,
           outdated = Outdated(noticed), env = NewEnv(outdated, data),
           Save(env), WritePages(env, outdated),
           \/ phase' = "publishing" /\ response' = response
           \/ phase' = "idle" /\ response' = [exit |-> "warned", faulted |-> TRUE],
           unreported' = unreported \ outdated, faults' \in 0..MaxFaults,
           UNCHANGED <<request, memory, dest, published, upset, requests, workers>>
    PROVE  IInv'
<1>1. /\ TypeInv /\ SyncInv /\ TocInv /\ EnvInv
      /\ phase \in {"main", "retry"} /\ digests = Inputs /\ shas = Inputs
      /\ UNCHANGED <<request, digests, shas, changedPaths, outdirs, dest, published, upset,
                     requests, workers, Fmt, Inputs, Found>>
      /\ Found = {d \in Docs : dest[d] # Absent}
  BY DEF IInv, SyncInv, InMain, memory, Fmt, Inputs, Found
<1>2. /\ outdated \subseteq Found
      /\ \A d \in Found \ outdated : d \in Known /\ d \notin changedPaths
      /\ \A d \in Docs :
            env.read[d] = IF d \in outdated THEN dest[d]
                          ELSE IF d \in Found THEN Env.read[d] ELSE Absent
      /\ {d \in Docs : env.read[d] # Absent} = Found
      /\ \A d \in Found : env.toc[d] = Lists(d) \cap Found
      /\ Closed(env)
  BY ONLY <1>1, noticed \in MayNotice, outdated = Outdated(noticed),
          env = NewEnv(outdated, data), NewEnvFacts
<1>3. /\ DOMAIN doctrees' = Formats /\ doctrees'[Fmt] = env
      /\ \A f \in Formats :
            /\ doctrees'[f].read \in [Docs -> Contents]
            /\ doctrees'[f].toc \in [Docs -> SUBSET Docs]
      /\ TocInv'
  BY ONLY <1>1, <1>2, Save(env), SaveFacts
<1>4. PICK looksOld :
        pages' = [pages EXCEPT ![Fmt] = [d \in Docs |->
            IF d \in outdated \cup {e \in Found : pages[Fmt][e] = Absent} \cup looksOld
            THEN env.read[d] ELSE pages[Fmt][d]]]
  BY DEF WritePages
<1>. DEFINE written == outdated \cup {e \in Found : pages[Fmt][e] = Absent} \cup looksOld
            shown == [d \in Docs |-> IF d \in written THEN env.read[d] ELSE pages[Fmt][d]]
<1>5. /\ DOMAIN pages' = Formats /\ \A f \in Formats : pages'[f] \in [Docs -> Contents]
      /\ \A d \in Docs :
            pages'[Fmt][d] = IF d \in written THEN env.read[d] ELSE pages[Fmt][d]
      /\ outdated \subseteq written /\ {d \in Found : pages[Fmt][d] = Absent} \subseteq written
  <2>1. pages' = [pages EXCEPT ![Fmt] = shown]
    BY <1>4
  <2>2. shown \in [Docs -> Contents]
    BY <1>1, <1>2, RequestFacts DEF Closed
  <2>3. \A d \in Docs : shown[d] = IF d \in written THEN env.read[d] ELSE pages[Fmt][d]
    OBVIOUS
  <2>. HIDE DEF shown
  <2>4. /\ DOMAIN pages' = Formats /\ \A f \in Formats : pages'[f] \in [Docs -> Contents]
        /\ pages'[Fmt] = shown
    BY ONLY <1>1, <2>1, <2>2, PagesFacts
  <2>. QED BY <2>3, <2>4
<1>. HIDE DEF shown, written
<1>6. Known' = Found /\ Env' = env
  BY <1>1, <1>2, <1>3 DEF Known, Env
<1>7. ASSUME Reliable', NEW d \in Found
      PROVE  /\ env.read[d] = Inputs[d] \/ d \in unreported'
             /\ pages'[Fmt][d] = env.read[d]
  <2>1. d \in Docs /\ dest[d] # Absent
    BY <1>1
  <2>2. Reliable /\ dest = Inputs
    BY <1>1, <1>7 DEF Reliable, SyncInv
  <2>3. CASE d \in outdated
    BY <1>2, <1>5, <2>1, <2>2, <2>3
  <2>4. CASE d \notin outdated
    <3>1. d \in Known /\ d \notin changedPaths /\ env.read[d] = Env.read[d]
      BY <1>2, <2>1, <2>4
    <3>2. /\ Env.read[d] = Inputs[d] \/ d \in unreported
          /\ pages[Fmt][d] \in {Absent, Env.read[d]}
      BY <1>1, <2>1, <2>2, <3>1 DEF EnvInv
    <3>3. d \notin written => pages[Fmt][d] # Absent
      BY <1>5
    <3>. QED BY <1>5, <2>1, <2>4, <3>1, <3>2, <3>3
  <2>. QED BY <2>3, <2>4
<1>8. TypeInv'
  <2>1. /\ phase' \in {"publishing", "idle"}
        /\ response'.exit \in {"none", "ok", "warned", "crashed", "unhandled"}
        /\ response'.faulted \in BOOLEAN
    <3>1. CASE response' = [exit |-> "warned", faulted |-> TRUE]
      BY <3>1
    <3>2. CASE response' = response
      BY <1>1, <3>2 DEF TypeInv, TypeOK
    <3>. QED BY <3>1, <3>2
  <2>2. unreported' \subseteq Docs
    BY <1>1 DEF TypeInv, TypeOK
  <2>. QED BY <1>1, <1>3, <1>5, <2>1, <2>2 DEF TypeInv, TypeOK
<1>9. SyncInv'
  BY <1>1 DEF SyncInv
<1>10. EnvInv'
  <2>. SUFFICES ASSUME Reliable', NEW d \in Found
                PROVE  /\ \/ Env'.read[d] = digests'[d] \/ digests'[d] = Absent
                          \/ d \in unreported'
                       /\ pages'[Fmt'][d] \in {Absent, Env'.read[d]}
    BY <1>6 DEF EnvInv
  <2>. QED BY <1>1, <1>6, <1>7
<1>11. PublishInv'
  <2>1. \A d \in Known' : Env'.toc[d] = Lists(d) \cap Found'
    BY <1>1, <1>2, <1>6
  <2>2. ASSUME Reliable', NEW d \in Docs \ unreported', Inputs[d] # Absent
        PROVE  pages'[Fmt][d] = Inputs[d]
    <3>1. dest = Inputs
      BY <1>1, <2>2 DEF Reliable, SyncInv
    <3>2. d \in Found
      BY <1>1, <2>2, <3>1
    <3>. QED BY <1>7, <2>2, <3>2
  <2>. QED BY <1>1, <2>1, <2>2 DEF PublishInv
<1>12. TocIsCurrent' /\ PublishedIsCurrent'
  BY DEF TocIsCurrent, PublishedIsCurrent, Answered
<1>. QED BY <1>3, <1>8, <1>9, <1>10, <1>11, <1>12 DEF IInv

\* An exception when some of the pages were written.
LEMMA LateCrashInv ==
    ASSUME IInv, InMain, NEW env, Closed(env), WriteSomePages(env), Crash(env, 1),
           UNCHANGED <<request, memory, dest, published, unreported, requests, workers>>
    PROVE  IInv'
<1>1. PICK written :
        pages' = [pages EXCEPT ![Fmt] = [d \in Docs |->
                    IF d \in written THEN env.read[d] ELSE pages[Fmt][d]]]
  BY DEF WriteSomePages
<1>2. TypeInv /\ env.read \in [Docs -> Contents]
  BY DEF Closed, IInv
<1>. DEFINE shown == [d \in Docs |-> IF d \in written THEN env.read[d] ELSE pages[Fmt][d]]
<1>3. shown \in [Docs -> Contents] /\ pages' = [pages EXCEPT ![Fmt] = shown]
  BY <1>1, <1>2, RequestFacts
<1>4. \A d \in Docs : shown[d] \in {pages[Fmt][d], env.read[d]}
  OBVIOUS
<1>. HIDE DEF shown
<1>5. /\ DOMAIN pages' = Formats /\ \A f \in Formats : pages'[f] \in [Docs -> Contents]
      /\ pages'[Fmt] = shown
  BY ONLY <1>2, <1>3, PagesFacts
<1>6. (\A d \in Docs : pages'[Fmt][d] \in {pages[Fmt][d], env.read[d]}) /\ 1 \in Nat
  BY <1>4, <1>5
<1>. QED BY <1>5, <1>6, CrashInv

\* Whatever Sphinx notices and reads, it is done, fails or fails late.
LEMMA RunMainInv == ASSUME IInv, RunMain PROVE IInv'
<1>1. /\ InMain
      /\ UNCHANGED <<request, memory, dest, published, requests, workers>>
  BY DEF RunMain
<1>2. PICK noticed \in MayNotice : \E read \in ReadResults(Outdated(noticed)) :
        LET outdated == Outdated(noticed)
            env == NewEnv(outdated, read.data)
        IN IF read.failed
           THEN Crash(Env, 0) /\ UNCHANGED <<pages, unreported>>
           ELSE \/ /\ Save(env) /\ WritePages(env, outdated)
                   /\ unreported' = unreported \ outdated
                   /\ \/ phase' = "publishing" /\ UNCHANGED <<response, faults>>
                      \/ Fault /\ Respond("warned", TRUE)
                   /\ UNCHANGED upset
                \/ WriteSomePages(env) /\ Crash(env, 1) /\ UNCHANGED unreported
  BY DEF RunMain
<1>3. PICK data : LET outdated == Outdated(noticed)
                      env == NewEnv(outdated, data)
        IN \/ Crash(Env, 0) /\ UNCHANGED <<pages, unreported>>
           \/ /\ Save(env) /\ WritePages(env, outdated)
              /\ unreported' = unreported \ outdated
              /\ \/ phase' = "publishing" /\ UNCHANGED <<response, faults>>
                 \/ Fault /\ Respond("warned", TRUE)
              /\ UNCHANGED upset
           \/ WriteSomePages(env) /\ Crash(env, 1) /\ UNCHANGED unreported
  BY <1>2
<1>. DEFINE outdated == Outdated(noticed)
            env == NewEnv(outdated, data)
<1>4. TypeInv /\ TocInv
  BY DEF IInv
<1>5. faults \in 0..MaxFaults /\ (Fault => faults' \in 0..MaxFaults)
  BY <1>4, WorkerBounds DEF Fault, TypeInv, TypeOK
<1>6. CASE Crash(Env, 0) /\ UNCHANGED <<pages, unreported>>
  <2>1. Closed(Env)
    BY <1>4, ClosedFacts
  <2>2. /\ DOMAIN pages' = Formats /\ \A f \in Formats : pages'[f] \in [Docs -> Contents]
        /\ \A d \in Docs : pages'[Fmt][d] \in {pages[Fmt][d], Env.read[d]}
        /\ 0 \in Nat
    BY <1>4, <1>6 DEF TypeInv, TypeOK
  <2>3. UNCHANGED <<request, memory, dest, published, unreported, requests, workers>>
    BY <1>1, <1>6
  <2>. QED BY ONLY IInv, <1>1, <1>6, <2>1, <2>2, <2>3, CrashInv
<1>7. CASE /\ Save(env) /\ WritePages(env, outdated)
           /\ unreported' = unreported \ outdated
           /\ \/ phase' = "publishing" /\ UNCHANGED <<response, faults>>
              \/ Fault /\ Respond("warned", TRUE)
           /\ UNCHANGED upset
  <2>1. /\ Save(env) /\ WritePages(env, outdated) /\ faults' \in 0..MaxFaults
        /\ \/ phase' = "publishing" /\ response' = response
           \/ phase' = "idle" /\ response' = [exit |-> "warned", faulted |-> TRUE]
        /\ unreported' = unreported \ outdated
        /\ UNCHANGED <<request, memory, dest, published, upset, requests, workers>>
    BY <1>1, <1>5, <1>7 DEF Respond
  <2>2. outdated = Outdated(noticed) /\ env = NewEnv(outdated, data)
    OBVIOUS
  <2>. HIDE DEF outdated, env
  <2>. QED BY ONLY IInv, <1>1, noticed \in MayNotice, <2>1, <2>2, MainDoneInv
<1>8. CASE WriteSomePages(env) /\ Crash(env, 1) /\ UNCHANGED unreported
  <2>1. outdated = Outdated(noticed) /\ env = NewEnv(outdated, data)
    OBVIOUS
  <2>. HIDE DEF outdated, env
  <2>2. Closed(env)
    BY ONLY <1>4, noticed \in MayNotice, <2>1, NewEnvFacts
  <2>3. UNCHANGED <<request, memory, dest, published, unreported, requests, workers>>
    BY <1>1, <1>8
  <2>. QED BY ONLY IInv, <1>1, <1>8, <2>2, <2>3, LateCrashInv
<1>. QED BY <1>3, <1>6, <1>7, <1>8

-----------------------------------------------------------------------------
(* The response, and the theorems *)

\* The pages are copied, or some of them are and the request fails.
LEMMA PublishStepInv == ASSUME IInv, Publish PROVE IInv'
<1>1. /\ phase = "publishing" /\ phase' = "idle"
      /\ UNCHANGED <<request, digests, shas, changedPaths, outdirs, dest, doctrees, pages,
                     upset, unreported, requests, workers, Fmt, Inputs, Env, Known, Found>>
  BY DEF Publish, Respond, memory, Fmt, Inputs, Env, Known, Found
<1>2. /\ TypeInv /\ SyncInv /\ TocInv /\ EnvInv /\ PublishInv
      /\ Fmt \in Formats /\ pages[Fmt] \in [Docs -> Contents]
      /\ published[Fmt] \in [Docs -> Contents]
  BY RequestFacts DEF IInv
<1>3. PICK shown :
        /\ shown \in [Docs -> Contents] /\ published' = [published EXCEPT ![Fmt] = shown]
        /\ \/ /\ response' = [exit |-> "ok", faulted |-> FALSE] /\ faults' = faults
              /\ shown = pages[Fmt]
           \/ /\ response' = [exit |-> "unhandled", faulted |-> TRUE]
              /\ faults < MaxFaults /\ faults' = faults + 1
  <2>1. CASE /\ published' = [published EXCEPT ![Fmt] = pages[Fmt]]
             /\ Respond("ok", FALSE) /\ UNCHANGED faults
    <3>. WITNESS pages[Fmt]
    <3>. QED BY <1>2, <2>1 DEF Respond
  <2>2. CASE /\ Fault
             /\ \E some \in SUBSET Docs :
                  published' = [published EXCEPT ![Fmt] = [d \in Docs |->
                                    IF d \in some THEN pages[Fmt][d] ELSE @[d]]]
             /\ Respond("unhandled", TRUE)
    <3>1. PICK some \in SUBSET Docs :
            published' = [published EXCEPT ![Fmt] = [d \in Docs |->
                              IF d \in some THEN pages[Fmt][d] ELSE published[Fmt][d]]]
      BY <2>2
    <3>. DEFINE shown == [d \in Docs |->
                              IF d \in some THEN pages[Fmt][d] ELSE published[Fmt][d]]
    <3>2. shown \in [Docs -> Contents] /\ published' = [published EXCEPT ![Fmt] = shown]
      BY <1>2, <3>1
    <3>. HIDE DEF shown
    <3>. WITNESS shown
    <3>. QED BY <2>2, <3>2 DEF Respond, Fault
  <2>. QED BY <2>1, <2>2 DEF Publish
<1>4. /\ DOMAIN published' = Formats /\ published'[Fmt] = shown
      /\ \A f \in Formats : published'[f] \in [Docs -> Contents]
  <2>1. \A f \in Formats : f # Fmt => published'[f] = published[f]
    BY <1>2, <1>3 DEF TypeInv
  <2>2. DOMAIN published' = Formats /\ published'[Fmt] = shown
    BY <1>2, <1>3 DEF TypeInv
  <2>. QED BY <1>2, <1>3, <2>1, <2>2 DEF TypeInv, TypeOK
<1>5. TypeInv'
  <2>1. /\ response'.exit \in {"none", "ok", "warned", "crashed", "unhandled"}
        /\ response'.faulted \in BOOLEAN
    <3>1. CASE response' = [exit |-> "ok", faulted |-> FALSE]
      BY <3>1
    <3>2. CASE response' = [exit |-> "unhandled", faulted |-> TRUE]
      BY <3>2
    <3>. QED BY <1>3, <3>1, <3>2
  <2>2. faults' \in 0..MaxFaults
    BY <1>2, <1>3, WorkerBounds DEF TypeInv, TypeOK
  <2>3. UNCHANGED <<request, digests, shas, changedPaths, outdirs, dest, doctrees, pages,
                    upset, unreported, requests, workers>>
    BY <1>1
  <2>. QED BY <1>1, <1>2, <1>4, <2>1, <2>2, <2>3 DEF TypeInv, TypeOK
<1>6. SyncInv'
  BY <1>1, <1>2 DEF SyncInv
<1>7. TocInv'
  BY <1>1, <1>2 DEF TocInv
<1>8. EnvInv'
  BY <1>1, <1>2 DEF EnvInv, Reliable
<1>9. PublishInv' /\ TocIsCurrent'
  BY <1>1, <1>2 DEF PublishInv, TocIsCurrent
<1>10. PublishedIsCurrent'
  <2>. SUFFICES ASSUME response'.exit = "ok", ~upset, outdirs = {Fmt},
                       NEW d \in Docs \ unreported, Inputs[d] # Absent
                PROVE  published'[Fmt][d] = Inputs[d]
    BY <1>1 DEF PublishedIsCurrent, Answered
  <2>1. shown = pages[Fmt]
    BY <1>3
  <2>2. Reliable
    BY <1>1, <1>2 DEF Reliable, SyncInv
  <2>. QED BY <1>1, <1>2, <1>4, <2>1, <2>2 DEF PublishInv
<1>. QED BY <1>5, <1>6, <1>7, <1>8, <1>9, <1>10 DEF IInv

\* No step breaks the invariant.
LEMMA StepInv == IInv /\ [Next]_vars => IInv'
<1>1. ASSUME IInv, Next PROVE IInv'
  BY <1>1, StartInv, KillInv, ExitInv, PrepareSphinxInv, SyncOkInv, SyncFailsInv,
     RequestInfoFailsInv, RunMainInv, MainCrashesInv, PublishStepInv DEF Next
<1>. QED BY <1>1, StutterInv

\* Type correctness for any documents, formats, requests and faults.
THEOREM TypeCorrect == Spec => []TypeOK
<1>1. IInv => TypeOK
  BY DEF IInv, TypeInv
<1>. QED BY <1>1, InitInv, StepInv, PTL DEF Spec

\* Both attempts of a request run on its inputs, whatever an earlier worker or a
\* killed one left on the disk, unless a sync or a removal of this worker failed.
THEOREM SphinxRunsOnInputs == Spec => []SphinxSeesInputs
<1>1. IInv => SphinxSeesInputs
  BY DEF IInv, SyncInv, InMain, SphinxSeesInputs
<1>. QED BY <1>1, InitInv, StepInv, PTL DEF Spec

\* A request that succeeds has published the version of the request of each of
\* its documents, although only changed documents are read and written, unless a
\* failed sync, removal or second attempt of this worker, or a second format of the
\* sources, is in the way; documents whose change was never reported are excepted.
THEOREM PublishedIsRequested == Spec => []PublishedIsCurrent
<1>1. IInv => PublishedIsCurrent
  BY DEF IInv
<1>. QED BY <1>1, InitInv, StepInv, PTL DEF Spec

\* After it, toctrees include what they name, or match by a pattern, as far as it
\* exists: documents that came as well as documents that are gone.
THEOREM ToctreesAreCurrent == Spec => []TocIsCurrent
<1>1. IInv => TocIsCurrent
  BY DEF IInv
<1>. QED BY <1>1, InitInv, StepInv, PTL DEF Spec
=============================================================================
