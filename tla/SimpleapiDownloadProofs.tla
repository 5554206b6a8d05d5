----------------------- MODULE SimpleapiDownloadProofs -----------------------
(* What the downloads of the pip extension promise, for any indexes and      *)
(* requirements, whatever changes on the indexes between two steps.          *)
EXTENDS SimpleapiDownload, SequenceTheorems, WellFoundedInduction, TLAPS

\* What a page of an index may list: the root page links, the others files.
EntriesOf(u) == IF u.page = Simple THEN {Link(p) : p \in Packages} ELSE MayList[u.index]
AnyEntry == Files \cup {Link(p) : p \in Packages}
Results == [index : Indexes, content : SUBSET AnyEntry, cached : BOOLEAN]
KeySets == [AllPages -> SUBSET (Packages \cup Versions)]

TypeInv ==
    /\ TypeOK
    /\ \A i \in Indexes, p \in Packages : index[i][p] \subseteq MayList[i]
    /\ \A u \in AllPages :
        /\ memory[u] \subseteq EntriesOf(u) /\ facts[u] \subseteq EntriesOf(u)
        /\ known[u] \subseteq EntriesOf(u)
    /\ toRead \in Seq(Indexes) /\ downloads \in Seq(Indexes)
    /\ results \in Seq(Results)
    /\ sources \in Requests \cup {NoSources}
    /\ found \in [DOMAIN found -> Indexes]
    /\ DOMAIN found \subseteq DOMAIN sources /\ pages \subseteq DOMAIN found
    /\ steady \in Contents
    /\ asked \in KeySets /\ served \in KeySets
    /\ lockAsked \in KeySets /\ lockServed \in KeySets

\* Between evaluations no call is under way, between calls no page is due.
PhaseInv ==
    /\ phase = "off" => downloads = <<>> /\ waiting = {} /\ found = NoneFound
    /\ phase \in {"off", "idle", "roots"} => pages = {}
    /\ phase \in {"roots", "pages"} => sources \in Requests

\* Pages whose entries all have a digest of their own: nothing hides another.
Clear(u) == Distinct(EntriesOf(u))

\* What stayed on a page all through the evaluation is on the page still, and
\* in memory if the page has been downloaded and nothing is hidden.
SteadyInv ==
    \A u \in AllPages :
        /\ steady[u] \subseteq Online(u)
        /\ Clear(u) /\ memory[u] # {} => steady[u] \subseteq memory[u]

\* Each page that was served has what stayed on it.
ServedInv ==
    phase \in {"idle", "pages"} =>
        \A p \in DOMAIN found \ pages :
            Hashed(found[p]) =>
                sources[p] \cap KeysOf(steady[Page(found[p], p)]) \subseteq KeysOf(contents[p])

\* Facts are about keys that were asked for, and a download has been asked for.
AskedInv ==
    /\ \A u \in AllPages :
        KeysOf(facts[u]) \subseteq asked[u] /\ KeysOf(known[u]) \subseteq lockAsked[u]
    /\ \A n \in DOMAIN downloads : DOMAIN sources \subseteq asked[Page(downloads[n], Simple)]
    /\ \A p \in waiting : sources[p] \subseteq asked[Page(found[p], p)]

\* What was answered is a fact.
FactsInv ==
    \A u \in AllPages :
        Clear(u) => served[u] \subseteq KeysOf(facts[u]) /\ lockServed[u] \subseteq KeysOf(known[u])

\* Root pages are asked for and downloaded in the order of the indexes, one
\* download at a time unless they are parallel.  Results are in that order too,
\* but a cached one may have overtaken a parallel download.
OrderInv ==
    /\ \A j, k \in DOMAIN toRead : j < k => Position(toRead[j]) < Position(toRead[k])
    /\ \A j, k \in DOMAIN downloads : j < k => Position(downloads[j]) < Position(downloads[k])
    /\ \A n \in DOMAIN results, k \in DOMAIN toRead :
        Position(results[n].index) < Position(toRead[k])
    /\ \A j \in DOMAIN downloads, k \in DOMAIN toRead :
        Position(downloads[j]) < Position(toRead[k])
    /\ \A n \in DOMAIN results, k \in DOMAIN downloads :
        \/ Position(results[n].index) < Position(downloads[k])
        \/ parallel /\ results[n].cached
    /\ \A m, n \in DOMAIN results : m < n =>
        \/ Position(results[m].index) < Position(results[n].index)
        \/ parallel /\ results[m].cached /\ ~results[n].cached

IInv ==
    /\ TypeInv /\ PhaseInv /\ SteadyInv /\ ServedInv /\ AskedInv /\ FactsInv
    /\ LockedIsOffline /\ OrderInv

-----------------------------------------------------------------------------
(* Keys, pages and the cache *)

\* The keys of a page, of what is filtered out of it and of two pages.
LEMMA KeyFacts ==
    /\ KeysOf({}) = {}
    /\ \A a, b : a \subseteq b => KeysOf(a) \subseteq KeysOf(b)
    /\ \A a, b : KeysOf(a \cup b) = KeysOf(a) \cup KeysOf(b)
    /\ \A a, keys : /\ FilterPackages(a, keys) \subseteq a
                    /\ KeysOf(FilterPackages(a, keys)) = KeysOf(a) \cap keys
BY DEF KeysOf, FilterPackages

\* The pages that are read, and what may be on them.
LEMMA PageFacts ==
    /\ \A i \in Indexes :
        /\ Page(i, Simple) \in AllPages
        /\ EntriesOf(Page(i, Simple)) = {Link(p) : p \in Packages}
        /\ \A p \in Packages :
            Page(i, p) \in AllPages /\ EntriesOf(Page(i, p)) = MayList[i]
        /\ MayList[i] \subseteq Files
    /\ \A u \in AllPages : EntriesOf(u) \subseteq AnyEntry
    /\ Contents = [AllPages -> SUBSET AnyEntry]
BY PackagesAssumption, PublishedAssumption
   DEF Page, AllPages, EntriesOf, AnyEntry, Contents

\* Root pages give each package an entry of its own, files have one where the
\* index gives digests.
LEMMA ClearFacts ==
    \A i \in Indexes :
        /\ Clear(Page(i, Simple))
        /\ \A p \in Packages : Clear(Page(i, p)) <=> Hashed(i)
<1>1. Distinct({Link(p) : p \in Packages})
  BY DEF Distinct, Link
<1>. QED BY <1>1, PageFacts DEF Clear, Hashed

\* What an index answers is what its pages may list.
LEMMA OnlineFacts ==
    ASSUME NEW ix \in [Indexes -> [Packages -> SUBSET Files]], NEW u \in AllPages,
           \A i \in Indexes, p \in Packages : ix[i][p] \subseteq MayList[i]
    PROVE  PageOn(ix, u) \subseteq EntriesOf(u)
<1>1. u.index \in Indexes /\ u.page \in Packages \cup {Simple}
  BY DEF AllPages
<1>. QED BY <1>1 DEF PageOn, EntriesOf

\* Dictionaries keep some of a list, and all of it when nothing has the place of
\* another; the facts likewise.
LEMMA DictionaryFacts ==
    /\ \A list : \A content \in Dictionaries(list) :
        /\ content \subseteq list
        /\ list # {} => content # {}
        /\ Distinct(list) => content = list
    /\ \A content :
        /\ Merged(content) \subseteq content
        /\ Distinct(content) => Merged(content) = content
    /\ \A a, b : a \subseteq b /\ Distinct(b) => Distinct(a)
<1>1. ASSUME NEW list, NEW content \in Dictionaries(list)
      PROVE  /\ content \subseteq list
             /\ list # {} => content # {}
             /\ Distinct(list) => content = list
  BY DEF Dictionaries, SamePlace, Distinct
<1>2. ASSUME NEW content
      PROVE  /\ Merged(content) \subseteq content
             /\ Distinct(content) => Merged(content) = content
  BY DEF Merged, Distinct
<1>3. \A a, b : a \subseteq b /\ Distinct(b) => Distinct(a)
  BY DEF Distinct
<1>. QED BY <1>1, <1>2, <1>3

\* What the cache returns is of the page and was asked for, and has what stayed
\* on a page that hides nothing; it returns nothing only when a key is not in
\* the lockfile.
LEMMA CachedFacts ==
    ASSUME TypeInv, SteadyInv, NEW u \in AllPages, NEW keys, NEW hit \in Cached(u, keys)
    PROVE  /\ hit \subseteq EntriesOf(u)
           /\ KeysOf(hit) \subseteq keys
           /\ Clear(u) /\ hit # {} => keys \cap KeysOf(steady[u]) \subseteq KeysOf(hit)
           /\ sameFormat /\ hit = {} /\ keys # {} => ~(keys \subseteq KeysOf(known[u]))
<1>. DEFINE fromMemory == FilterPackages(memory[u], keys)
            fromFacts == FilterPackages(known[u], keys)
<1>1. /\ fromMemory \subseteq memory[u] /\ KeysOf(fromMemory) = KeysOf(memory[u]) \cap keys
      /\ fromFacts \subseteq known[u] /\ KeysOf(fromFacts) = KeysOf(known[u]) \cap keys
      /\ KeysOf({}) = {}
  BY KeyFacts
<1>2. memory[u] \subseteq EntriesOf(u) /\ known[u] \subseteq EntriesOf(u)
  BY DEF TypeInv
<1>3. CASE fromMemory # {}
  <2>1. hit = fromMemory
    BY <1>3 DEF Cached
  <2>2. Clear(u) => KeysOf(steady[u]) \subseteq KeysOf(memory[u])
    BY <1>1, <1>3, KeyFacts DEF SteadyInv
  <2>. HIDE DEF fromMemory
  <2>. QED BY <1>1, <1>2, <1>3, <2>1, <2>2
<1>4. CASE fromMemory = {}
  <2>1. hit \in (IF sameFormat /\ KeysOf(fromFacts) = keys
                 THEN Dictionaries(fromFacts) ELSE {{}})
    BY <1>4 DEF Cached, GetFromFacts
  <2>. HIDE DEF fromFacts
  <2>2. CASE sameFormat /\ KeysOf(fromFacts) = keys
    <3>1. hit \in Dictionaries(fromFacts)
      BY <2>1, <2>2
    <3>2. hit \subseteq fromFacts /\ (fromFacts # {} => hit # {})
          /\ (Distinct(fromFacts) => hit = fromFacts)
      BY <3>1, DictionaryFacts
    <3>3. Clear(u) => Distinct(fromFacts)
      BY <1>1, <1>2, DictionaryFacts DEF Clear
    <3>4. KeysOf(hit) \subseteq keys
      BY <2>2, <3>2, KeyFacts
    <3>. QED BY <1>1, <1>2, <2>2, <3>2, <3>3, <3>4
  <2>3. CASE ~(sameFormat /\ KeysOf(fromFacts) = keys)
    BY <1>1, <1>2, <2>1, <2>3
  <2>. QED BY <2>2, <2>3
<1>. QED BY <1>3, <1>4

\* Contents that become facts of a page.
LEMMA StoreFactsFacts ==
    ASSUME TypeInv, NEW u \in AllPages, NEW content, content \subseteq EntriesOf(u),
           StoreFacts(u, content)
    PROVE  /\ facts' \in Contents
           /\ \A v \in AllPages : v # u => facts'[v] = facts[v]
           /\ KeysOf(facts'[u]) \subseteq KeysOf(facts[u]) \cup KeysOf(content)
           /\ Clear(u) => KeysOf(facts'[u]) = KeysOf(facts[u]) \cup KeysOf(content)
           /\ \A v \in AllPages : facts'[v] \subseteq EntriesOf(v)
<1>. DEFINE kept == Merged(content)
<1>1. facts \in [AllPages -> SUBSET AnyEntry]
  BY PageFacts DEF TypeInv, TypeOK, CacheTypeOK
<1>2. facts' = [facts EXCEPT ![u] = @ \cup kept]
  BY DEF StoreFacts
<1>3. /\ kept \subseteq content /\ EntriesOf(u) \subseteq AnyEntry
      /\ Clear(u) => kept = content
  BY DictionaryFacts, PageFacts DEF Clear
<1>. HIDE DEF kept
<1>4. facts'[u] = facts[u] \cup kept
  BY <1>1, <1>2
<1>5. KeysOf(facts'[u]) = KeysOf(facts[u]) \cup KeysOf(kept)
      /\ KeysOf(kept) \subseteq KeysOf(content)
  BY <1>3, <1>4, KeyFacts
<1>6. \A v \in AllPages : v # u => facts'[v] = facts[v]
  BY <1>1, <1>2
<1>7. facts' \in Contents
  BY <1>1, <1>2, <1>3, PageFacts
<1>8. \A v \in AllPages : facts'[v] \subseteq EntriesOf(v)
  BY <1>3, <1>4, <1>6 DEF TypeInv
<1>9. Clear(u) => KeysOf(facts'[u]) = KeysOf(facts[u]) \cup KeysOf(content)
  BY <1>3, <1>5
<1>. QED BY <1>5, <1>6, <1>7, <1>8, <1>9

\* get() collects what it returns.
LEMMA GetFacts ==
    ASSUME TypeInv, SteadyInv, NEW u \in AllPages, NEW keys,
           NEW hit \in Cached(u, keys), Get(u, hit)
    PROVE  /\ CacheTypeOK'
           /\ UNCHANGED <<memory, known, sameFormat>>
           /\ \A v \in AllPages : v # u => facts'[v] = facts[v]
           /\ KeysOf(facts'[u]) \subseteq KeysOf(facts[u]) \cup KeysOf(hit)
           /\ Clear(u) => KeysOf(facts'[u]) = KeysOf(facts[u]) \cup KeysOf(hit)
           /\ \A v \in AllPages : facts'[v] \subseteq EntriesOf(v)
<1>1. UNCHANGED <<memory, known, sameFormat>> /\ StoreFacts(u, hit)
  BY DEF Get
<1>2. hit \subseteq EntriesOf(u)
  BY CachedFacts
<1>3. /\ facts' \in Contents
      /\ \A v \in AllPages : v # u => facts'[v] = facts[v]
      /\ KeysOf(facts'[u]) \subseteq KeysOf(facts[u]) \cup KeysOf(hit)
      /\ Clear(u) => KeysOf(facts'[u]) = KeysOf(facts[u]) \cup KeysOf(hit)
      /\ \A v \in AllPages : facts'[v] \subseteq EntriesOf(v)
  BY <1>1, <1>2, StoreFactsFacts
<1>4. CacheTypeOK'
  BY <1>1, <1>3 DEF TypeInv, TypeOK, CacheTypeOK
<1>. QED BY <1>1, <1>3, <1>4

\* setdefault() keeps the page in memory, and its requested part as facts.
LEMMA SetDefaultFacts ==
    ASSUME TypeInv, SteadyInv, NEW u \in AllPages, NEW keys,
           NEW page \in Dictionaries(Online(u)), SetDefault(u, keys, page)
    PROVE  /\ CacheTypeOK'
           /\ UNCHANGED <<known, sameFormat>>
           /\ page \subseteq EntriesOf(u) /\ (Clear(u) => steady[u] \subseteq page)
           /\ \A v \in AllPages : v # u => facts'[v] = facts[v] /\ memory'[v] = memory[v]
           /\ KeysOf(facts'[u]) \subseteq KeysOf(facts[u]) \cup (KeysOf(page) \cap keys)
           /\ Clear(u) =>
                /\ KeysOf(facts'[u]) = KeysOf(facts[u]) \cup (KeysOf(page) \cap keys)
                /\ memory'[u] # {} => steady[u] \subseteq memory'[u]
           /\ \A v \in AllPages :
                memory'[v] \subseteq EntriesOf(v) /\ facts'[v] \subseteq EntriesOf(v)
<1>. DEFINE all == Online(u)
            part == FilterPackages(page, keys)
<1>1. /\ memory \in [AllPages -> SUBSET AnyEntry]
      /\ index \in [Indexes -> [Packages -> SUBSET Files]]
      /\ \A i \in Indexes, p \in Packages : index[i][p] \subseteq MayList[i]
  BY PageFacts DEF TypeInv, TypeOK, CacheTypeOK
<1>2. /\ UNCHANGED <<known, sameFormat>> /\ StoreFacts(u, part)
      /\ memory' = [memory EXCEPT ![u] = IF @ = {} THEN page ELSE @]
  BY DEF SetDefault
<1>3. all \subseteq EntriesOf(u) /\ EntriesOf(u) \subseteq AnyEntry /\ steady[u] \subseteq all
  BY <1>1, OnlineFacts, PageFacts DEF Online, SteadyInv
<1>4. page \subseteq all /\ (Distinct(all) => page = all)
  BY DictionaryFacts
<1>5. part \subseteq page /\ KeysOf(part) = KeysOf(page) \cap keys
  BY KeyFacts
<1>6. Clear(u) => Distinct(all)
  BY <1>3, DictionaryFacts DEF Clear
<1>. HIDE DEF all, part
<1>7. page \subseteq EntriesOf(u) /\ (Clear(u) => steady[u] \subseteq page)
  BY <1>3, <1>4, <1>6
<1>8. /\ facts' \in Contents
      /\ \A v \in AllPages : v # u => facts'[v] = facts[v]
      /\ KeysOf(facts'[u]) \subseteq KeysOf(facts[u]) \cup KeysOf(part)
      /\ Clear(u) => KeysOf(facts'[u]) = KeysOf(facts[u]) \cup KeysOf(part)
      /\ \A v \in AllPages : facts'[v] \subseteq EntriesOf(v)
  <2>1. part \subseteq EntriesOf(u)
    BY <1>5, <1>7
  <2>. QED BY <1>2, <2>1, StoreFactsFacts
<1>9. memory'[u] = IF memory[u] = {} THEN page ELSE memory[u]
  BY <1>1, <1>2
<1>10. \A v \in AllPages : v # u => memory'[v] = memory[v]
  BY <1>1, <1>2
<1>11. memory' \in Contents
  BY <1>1, <1>2, <1>3, <1>7, PageFacts
<1>12. \A v \in AllPages : memory'[v] \subseteq EntriesOf(v)
  BY <1>7, <1>9, <1>10 DEF TypeInv
<1>13. CacheTypeOK'
  BY <1>2, <1>8, <1>11 DEF TypeInv, TypeOK, CacheTypeOK
<1>14. Clear(u) /\ memory'[u] # {} => steady[u] \subseteq memory'[u]
  BY <1>7, <1>9 DEF SteadyInv
<1>. QED BY <1>2, <1>5, <1>7, <1>8, <1>10, <1>12, <1>13, <1>14

-----------------------------------------------------------------------------
(* Between the calls *)

\* The local state of a call that has not begun.
NothingYet(unread, waited, read, where, what) ==
    /\ unread \in Seq(Indexes) /\ waited \in Seq(Indexes) /\ read \in Seq(Results)
    /\ what \in Requests \cup {NoSources}
    /\ where \in [DOMAIN where -> Indexes] /\ DOMAIN where = {} /\ DOMAIN read = {}
    /\ Range(unread) = {} /\ Range(waited) = {} /\ Range(where) = {}

\* It is well typed.
LEMMA NothingYetFacts == NothingYet(<<>>, <<>>, <<>>, NoneFound, NoSources)
<1>1. NoneFound \in [{} -> Indexes] /\ DOMAIN NoneFound = {}
  BY DEF NoneFound
<1>2. Range(<<>>) = {} /\ Range(NoneFound) = {} /\ DOMAIN <<>> = {}
  BY <1>1 DEF Range
<1>. QED BY <1>1, <1>2 DEF NothingYet

\* Nothing has been read, and nothing is in the lockfile.
LEMMA InitInv == Init => IInv
<1>. SUFFICES ASSUME Init PROVE IInv
  OBVIOUS
<1>. USE DEF Init, CacheInit
<1>1. TypeInv
  <2>1. CacheTypeOK
    BY PageFacts DEF CacheTypeOK, Nothing
  <2>2. NothingYet(toRead, downloads, results, found, sources)
    BY NothingYetFacts
  <2>3. TypeOK
    <3>1. index \in [Indexes -> [Packages -> SUBSET Files]] /\ contents \in [Packages -> SUBSET Files]
      BY PublishedAssumption DEF NoFiles
    <3>2. evaluations \in 0..MaxEvaluations /\ calls \in 0..MaxCalls /\ changes \in 0..MaxChanges
      BY BoundsAssumption
    <3>. QED BY <2>1, <2>2, <3>1, <3>2 DEF TypeOK, NothingYet
  <2>6. \A i \in Indexes, p \in Packages : index[i][p] \subseteq MayList[i]
    BY PublishedAssumption
  <2>4. NoKeys \in KeySets /\ NoKeys \in Contents
    BY PageFacts DEF NoKeys, KeySets
  <2>5. \A u \in AllPages : memory[u] = {} /\ facts[u] = {} /\ known[u] = {}
    BY DEF Nothing
  <2>. QED BY <2>2, <2>3, <2>4, <2>5, <2>6 DEF TypeInv, NothingYet
<1>2. PhaseInv /\ ServedInv
  BY DEF PhaseInv, ServedInv
<1>3. SteadyInv
  BY DEF SteadyInv, NoKeys, Nothing
<1>4. AskedInv /\ FactsInv
  BY KeyFacts DEF AskedInv, FactsInv, NoKeys, Nothing
<1>5. LockedIsOffline /\ OrderInv
  BY DEF LockedIsOffline, OrderInv
<1>. QED BY <1>1, <1>2, <1>3, <1>4, <1>5 DEF IInv

\* While files come and go, what stays on a page is still on it.
LEMMA SetFilesInv ==
    ASSUME IInv, NEW i \in Indexes, NEW p \in Packages, NEW f \in Files,
           Upload(i, p, f) \/ Delete(i, p, f)
    PROVE  IInv'
<1>1. PICK files \in SUBSET MayList[i] : SetFiles(i, p, files)
  <2>1. index[i][p] \in SUBSET MayList[i]
    BY DEF IInv, TypeInv
  <2>. QED BY <2>1 DEF Upload, Delete
<1>2. /\ index' = [index EXCEPT ![i][p] = files]
      /\ steady' = [u \in AllPages |-> steady[u] \cap PageOn(index', u)]
      /\ changes < MaxChanges /\ changes' = changes + 1
      /\ UNCHANGED <<cacheVars, phase, callVars, evaluations, calls, asked, served,
                     lockAsked, lockServed>>
  BY <1>1 DEF SetFiles, Change
<1>. USE <1>2 DEF cacheVars, callVars
<1>3. \A u \in AllPages : steady'[u] = steady[u] \cap Online(u)'
  BY DEF Online
<1>4. TypeInv'
  <2>1. /\ index' \in [Indexes -> [Packages -> SUBSET Files]]
        /\ \A j \in Indexes, q \in Packages : index'[j][q] \subseteq MayList[j]
    <3>1. MayList[i] \subseteq Files
      BY PageFacts
    <3>2. /\ index \in [Indexes -> [Packages -> SUBSET Files]]
          /\ \A j \in Indexes, q \in Packages : index[j][q] \subseteq MayList[j]
      BY DEF IInv, TypeInv, TypeOK
    <3>. QED BY <3>1, <3>2
  <2>2. changes' \in 0..MaxChanges
    BY BoundsAssumption DEF IInv, TypeInv, TypeOK
  <2>3. CacheTypeOK'
    BY DEF IInv, TypeInv, TypeOK, CacheTypeOK
  <2>4. TypeOK'
    BY <2>1, <2>2, <2>3 DEF IInv, TypeInv, TypeOK
  <2>5. steady' \in Contents
    BY PageFacts DEF IInv, TypeInv
  <2>. QED BY <2>1, <2>4, <2>5 DEF IInv, TypeInv
<1>5. PhaseInv' /\ AskedInv' /\ FactsInv' /\ LockedIsOffline' /\ OrderInv'
  BY DEF IInv, PhaseInv, AskedInv, FactsInv, LockedIsOffline, OrderInv
<1>6. SteadyInv'
  BY <1>3 DEF IInv, SteadyInv
<1>7. ServedInv'
  <2>. SUFFICES ASSUME phase \in {"idle", "pages"}, NEW q \in DOMAIN found \ pages,
                       Hashed(found[q])
                PROVE  sources[q] \cap KeysOf(steady'[Page(found[q], q)])
                            \subseteq KeysOf(contents[q])
    BY DEF ServedInv
  <2>1. Page(found[q], q) \in AllPages
    BY PageFacts DEF IInv, TypeInv, TypeOK
  <2>2. KeysOf(steady'[Page(found[q], q)]) \subseteq KeysOf(steady[Page(found[q], q)])
    BY <1>3, <2>1, KeyFacts
  <2>. QED BY <2>2 DEF IInv, ServedInv
<1>. QED BY <1>4, <1>5, <1>6, <1>7 DEF IInv

\* Facts of another format are not used.
LEMMA ChangeFormatInv == ASSUME IInv, ChangeFormat PROVE IInv'
<1>. USE DEF ChangeFormat, callVars, historyVars
<1>1. TypeInv'
  <2>1. changes' \in 0..MaxChanges
    BY BoundsAssumption DEF IInv, TypeInv, TypeOK, Change
  <2>2. CacheTypeOK'
    BY DEF IInv, TypeInv, TypeOK, CacheTypeOK
  <2>3. TypeOK'
    BY <2>1, <2>2 DEF IInv, TypeInv, TypeOK
  <2>. QED BY <2>3 DEF IInv, TypeInv
<1>2. SteadyInv'
  BY DEF IInv, SteadyInv, Online
<1>3. PhaseInv' /\ AskedInv' /\ FactsInv' /\ ServedInv' /\ OrderInv'
  BY DEF IInv, PhaseInv, AskedInv, FactsInv, ServedInv, OrderInv
<1>4. LockedIsOffline'
  BY DEF LockedIsOffline
<1>. QED BY <1>1, <1>2, <1>3, <1>4 DEF IInv

\* An evaluation starts with an empty cache and the pages as they are.
LEMMA StartEvaluationInv == ASSUME IInv, StartEvaluation PROVE IInv'
<1>. USE DEF StartEvaluation, NewCache, callVars
<1>1. downloads = <<>> /\ waiting = {} /\ found = NoneFound /\ pages = {}
  BY DEF IInv, PhaseInv
<1>2. \A u \in AllPages : steady'[u] = Online(u) /\ Online(u)' = Online(u)
  BY DEF Online
<1>3. TypeInv'
  <2>1. evaluations' \in 0..MaxEvaluations
    BY BoundsAssumption DEF IInv, TypeInv, TypeOK
  <2>2. CacheTypeOK' /\ \A u \in AllPages : memory'[u] = {} /\ facts'[u] = {}
    BY PageFacts DEF IInv, TypeInv, TypeOK, CacheTypeOK, Nothing
  <2>3. TypeOK'
    BY <2>1, <2>2 DEF IInv, TypeInv, TypeOK
  <2>4. steady' \in Contents /\ NoKeys \in KeySets
    BY OnlineFacts, PageFacts DEF IInv, TypeInv, TypeOK, Online, NoKeys, KeySets
  <2>. QED BY <2>2, <2>3, <2>4 DEF IInv, TypeInv
<1>4. PhaseInv'
  BY <1>1 DEF IInv, PhaseInv
<1>5. SteadyInv'
  BY <1>2 DEF SteadyInv, Nothing
<1>6. ServedInv'
  BY <1>1 DEF ServedInv, NoneFound
<1>7. AskedInv' /\ FactsInv'
  BY <1>1, KeyFacts DEF IInv, AskedInv, FactsInv, Nothing, NoKeys
<1>8. LockedIsOffline' /\ OrderInv'
  BY <1>1 DEF IInv, LockedIsOffline, OrderInv
<1>. QED BY <1>3, <1>4, <1>5, <1>6, <1>7, <1>8 DEF IInv

\* Whatever an evaluation leaves in the lockfile, its calls are gone.
LEMMA LeaveInv ==
    ASSUME IInv, Leave, memory' = Nothing, facts' = Nothing,
           UNCHANGED <<index, evaluations, changes>>, CacheTypeOK',
           \A u \in AllPages :
                /\ known'[u] \subseteq EntriesOf(u)
                /\ KeysOf(known'[u]) \subseteq lockAsked'[u]
                /\ Clear(u) => lockServed'[u] \subseteq KeysOf(known'[u]),
           lockAsked' \in KeySets, lockServed' \in KeySets
    PROVE  IInv'
<1>. USE DEF Leave
<1>1. TypeInv'
  <2>1. calls' \in 0..MaxCalls
    BY BoundsAssumption
  <2>2. NothingYet(toRead', downloads', results', found', sources')
    BY NothingYetFacts
  <2>3. TypeOK'
    BY <2>1, <2>2 DEF IInv, TypeInv, TypeOK, NoFiles, NothingYet
  <2>4. NoKeys \in KeySets /\ NoKeys \in Contents
    BY PageFacts DEF NoKeys, KeySets
  <2>5. \A u \in AllPages : memory'[u] = {} /\ facts'[u] = {}
    BY DEF Nothing
  <2>6. \A i \in Indexes, p \in Packages : index'[i][p] \subseteq MayList[i]
    BY DEF IInv, TypeInv
  <2>. QED BY <2>2, <2>3, <2>4, <2>5, <2>6 DEF TypeInv, NothingYet
<1>2. PhaseInv' /\ ServedInv'
  BY DEF PhaseInv, ServedInv
<1>3. SteadyInv'
  BY DEF SteadyInv, NoKeys, Nothing
<1>4. AskedInv' /\ FactsInv'
  BY KeyFacts DEF AskedInv, FactsInv, NoKeys, Nothing
<1>5. LockedIsOffline' /\ OrderInv'
  BY DEF LockedIsOffline, OrderInv
<1>. QED BY <1>1, <1>2, <1>3, <1>4, <1>5 DEF IInv

\* The lockfile gets the facts of the evaluation.
LEMMA EndEvaluationInv == ASSUME IInv, EndEvaluation PROVE IInv'
<1>1. /\ Leave /\ memory' = Nothing /\ facts' = Nothing /\ known' = facts
      /\ sameFormat' = TRUE /\ lockAsked' = asked /\ lockServed' = served
      /\ UNCHANGED <<index, evaluations, changes>>
  BY DEF EndEvaluation, WriteLock
<1>2. CacheTypeOK'
  BY <1>1, PageFacts DEF IInv, TypeInv, TypeOK, CacheTypeOK, Nothing
<1>. QED BY <1>1, <1>2, LeaveInv DEF IInv, TypeInv, AskedInv, FactsInv

\* A failed evaluation leaves the lockfile as it is.
LEMMA AbortInv == ASSUME IInv, NEW reason, Abort(reason) PROVE IInv'
<1>1. /\ Leave /\ memory' = Nothing /\ facts' = Nothing
      /\ UNCHANGED <<known, sameFormat, index, evaluations, changes, lockAsked, lockServed>>
  BY DEF Abort, NewCache
<1>2. CacheTypeOK'
  BY <1>1, PageFacts DEF IInv, TypeInv, TypeOK, CacheTypeOK, Nothing
<1>. QED BY <1>1, <1>2, LeaveInv DEF IInv, TypeInv, AskedInv, FactsInv

-----------------------------------------------------------------------------
(* Sequences of indexes and of results *)

\* Every non-empty set of natural numbers has a least element.
LEMMA NatMinimum ==
    ASSUME NEW S \in SUBSET Nat, S # {}
    PROVE  Min(S) \in S /\ \A n \in S : Min(S) <= n
<1>1. PICK m \in S : \A n \in S : ~ (<<n, m>> \in OpToRel(<, Nat))
  BY NatLessThanWellFounded, WFMin
<1>2. \A n \in S : ~ (n < m)
  BY <1>1 DEF OpToRel
<1>3. m \in S /\ \A n \in S : m <= n
  BY <1>2
<1>. QED BY <1>3 DEF Min

\* The indexes are looked at in the order of their positions.
LEMMA PositionFacts ==
    /\ IndexUrls \in Seq(Indexes)
    /\ \A i \in Indexes : Position(i) \in Nat
    /\ \A n \in DOMAIN IndexUrls : Position(IndexUrls[n]) = n
<1>1. IndexUrls \in Seq(STRING) /\ DOMAIN IndexUrls = 1..Len(IndexUrls) /\ Len(IndexUrls) \in Nat
  BY IndexUrlsAssumption, LenProperties
<1>2. \A n \in DOMAIN IndexUrls : IndexUrls[n] \in Indexes
  BY DEF Indexes, Range
<1>3. IndexUrls \in Seq(Indexes)
  <2>1. IndexUrls = [n \in 1..Len(IndexUrls) |-> IndexUrls[n]]
    BY <1>1
  <2>. QED BY <1>1, <1>2, <2>1
<1>4. \A i \in Indexes : Position(i) \in DOMAIN IndexUrls
  BY DEF Indexes, Range, Position
<1>5. \A n \in DOMAIN IndexUrls : Position(IndexUrls[n]) = n
  BY IndexUrlsAssumption DEF Position, IsInjective
<1>. QED BY <1>1, <1>3, <1>4, <1>5

\* The default index is one of them.
LEMMA DefaultFacts == DefaultIndex \in Indexes
<1>1. Len(IndexUrls) \in DOMAIN IndexUrls
  BY IndexUrlsAssumption, LenProperties, EmptySeq
<1>. QED BY <1>1 DEF DefaultIndex, Last, Indexes, Range

\* The first element and the others.
LEMMA TailFacts ==
    ASSUME NEW S, NEW s \in Seq(S), s # <<>>
    PROVE  /\ Tail(s) \in Seq(S) /\ Head(s) \in S
           /\ Len(s) \in Nat /\ DOMAIN s = 1..Len(s) /\ 1 \in DOMAIN s /\ Head(s) = s[1]
           /\ DOMAIN Tail(s) = 1..(Len(s) - 1)
           /\ \A n \in DOMAIN Tail(s) : n + 1 \in DOMAIN s /\ Tail(s)[n] = s[n + 1]
<1>1. Len(s) \in Nat \ {0} /\ DOMAIN s = 1..Len(s)
  BY LenProperties, EmptySeq
<1>2. Tail(s) \in Seq(S) /\ Head(s) \in S /\ Head(s) = s[1]
      /\ Len(Tail(s)) = Len(s) - 1
      /\ \A n \in 1..Len(Tail(s)) : Tail(s)[n] = s[n + 1]
  BY HeadTailProperties, <1>1
<1>3. DOMAIN Tail(s) = 1..(Len(s) - 1)
  BY <1>2, LenProperties
<1>. QED BY <1>1, <1>2, <1>3

\* One more element.
LEMMA AppendFacts ==
    ASSUME NEW S, NEW s \in Seq(S), NEW e \in S, NEW t, t = Append(s, e)
    PROVE  /\ t \in Seq(S)
           /\ Len(s) \in Nat /\ DOMAIN s = 1..Len(s)
           /\ \A n \in DOMAIN t :
                \/ n \in DOMAIN s /\ t[n] = s[n]
                \/ n = Len(s) + 1 /\ t[n] = e
<1>1. /\ t \in Seq(S) /\ Len(t) = Len(s) + 1
      /\ \A n \in 1..Len(s) : t[n] = s[n]
      /\ t[Len(s) + 1] = e
  BY AppendProperties
<1>2. DOMAIN t = 1..(Len(s) + 1) /\ Len(s) \in Nat /\ DOMAIN s = 1..Len(s)
  BY <1>1, LenProperties
<1>3. ASSUME NEW n \in DOMAIN t
      PROVE  \/ n \in DOMAIN s /\ t[n] = s[n]
             \/ n = Len(s) + 1 /\ t[n] = e
  <2>1. n \in 1..Len(s) \/ n = Len(s) + 1
    BY <1>2
  <2>. QED BY <1>1, <1>2, <2>1
<1>. QED BY <1>1, <1>2, <1>3

\* The elements of a sequence.
LEMMA RangeFacts ==
    ASSUME NEW S, NEW s \in Seq(S)
    PROVE  Range(s) \subseteq S /\ \A n \in DOMAIN s : n \in Nat /\ s[n] \in S
BY LenProperties, ElementOfSeq DEF Range

\* What is found is on an index, that of the first result that lists it.
LEMMA FoundFacts ==
    ASSUME TypeInv
    PROVE  /\ FoundOnIndex \in [DOMAIN FoundOnIndex -> Indexes]
           /\ DOMAIN FoundOnIndex \subseteq DOMAIN sources
           /\ \A p \in DOMAIN FoundOnIndex :
                \E n \in DOMAIN results :
                    /\ FoundOnIndex[p] = results[n].index
                    /\ \A m \in 1..(n - 1) : ~Lists(m, p)
<1>1. results \in Seq(Results) /\ DOMAIN results \in SUBSET Nat
      /\ \A n \in DOMAIN results : results[n].index \in Indexes
  BY LenProperties DEF TypeInv, TypeOK
<1>2. DOMAIN FoundOnIndex = {q \in DOMAIN sources : \E n \in DOMAIN results : Lists(n, q)}
  BY DEF FoundOnIndex
<1>3. ASSUME NEW p \in DOMAIN FoundOnIndex
      PROVE  \E n \in DOMAIN results :
                    /\ FoundOnIndex[p] = results[n].index
                    /\ \A m \in 1..(n - 1) : ~Lists(m, p)
  <2>. DEFINE S == {k \in DOMAIN results : Lists(k, p)}
  <2>1. S # {} /\ S \in SUBSET Nat
    BY <1>1, <1>2
  <2>2. PICK n \in S : \A m \in S : n <= m
    BY <2>1, NatMinimum
  <2>3. n \in DOMAIN results /\ Lists(n, p)
    BY <2>2
  <2>4. ASSUME NEW m \in 1..(n - 1) PROVE ~Lists(m, p)
    <3>1. DOMAIN results = 1..Len(results) /\ Len(results) \in Nat
      BY <1>1, LenProperties
    <3>2. m \in DOMAIN results /\ ~ (n <= m)
      BY <2>3, <3>1
    <3>. QED BY <2>2, <3>2
  <2>5. FoundOnIndex[p] = results[CHOOSE k \in DOMAIN results :
                    Lists(k, p) /\ \A m \in 1..(k - 1) : ~Lists(m, p)].index
    BY <1>2 DEF FoundOnIndex
  <2>. HIDE DEF S
  <2>. QED BY <2>3, <2>4, <2>5
<1>4. \A p \in DOMAIN FoundOnIndex : FoundOnIndex[p] \in Indexes
  BY <1>1, <1>3
<1>5. FoundOnIndex = [p \in DOMAIN FoundOnIndex |-> FoundOnIndex[p]]
  BY DEF FoundOnIndex
<1>. QED BY <1>2, <1>3, <1>4, <1>5

-----------------------------------------------------------------------------
(* A call *)

\* What a call under way asks for.
LEMMA SourcesFacts ==
    ASSUME TypeInv, PhaseInv, phase \in {"roots", "pages"}
    PROVE  /\ DOMAIN sources \subseteq Packages /\ DOMAIN sources # {}
           /\ \A p \in DOMAIN sources : sources[p] \subseteq Versions /\ sources[p] # {}
BY RequestsAssumption DEF PhaseInv

\* The history of a page grows, that of the others does not.
LEMMA HistoryFacts ==
    ASSUME TypeInv, NEW u \in AllPages, NEW keys \in SUBSET (Packages \cup Versions),
           NEW content
    PROVE  /\ Asks(u, keys) =>
                /\ asked' \in KeySets
                /\ asked'[u] = asked[u] \cup keys
                /\ \A v \in AllPages : v # u => asked'[v] = asked[v]
           /\ Answers(u, keys, content) =>
                /\ served' \in KeySets
                /\ served'[u] = served[u] \cup (keys \cap KeysOf(content))
                /\ \A v \in AllPages : v # u => served'[v] = served[v]
BY DEF TypeInv, KeySets, Asks, Answers

\* A new call knows the index of each package, or looks for it everywhere.
LEMMA CallInv ==
    ASSUME IInv, NEW s \in Requests, NEW o \in Overrides, NEW inParallel \in BOOLEAN,
           Call(s, o, inParallel)
    PROVE  IInv'
<1>1. /\ phase = "idle" /\ calls < MaxCalls /\ calls' = calls + 1
      /\ sources' = s /\ contents' = NoFiles
      /\ downloads' = <<>> /\ results' = <<>> /\ waiting' = {} /\ parallel' = inParallel
      /\ UNCHANGED <<memory, facts, known, sameFormat, index, evaluations, changes, steady,
                     asked, served, lockAsked, lockServed>>
  BY DEF Call, cacheVars, historyVars
<1>2. \/ /\ found' = [p \in DOMAIN s |->
                        IF p \in DOMAIN o THEN o[p] ELSE DefaultIndex]
         /\ pages' = DOMAIN s /\ toRead' = <<>> /\ phase' = "pages"
      \/ /\ found' = NoneFound /\ pages' = {} /\ toRead' = IndexUrls /\ phase' = "roots"
  BY DEF Call
<1>3. DOMAIN s \subseteq Packages
  BY RequestsAssumption
<1>4. found' \in [DOMAIN found' -> Indexes] /\ DOMAIN found' \subseteq DOMAIN s
      /\ pages' \subseteq DOMAIN found'
  <2>1. CASE phase' = "pages"
    <3>1. found' = [p \in DOMAIN s |-> IF p \in DOMAIN o THEN o[p] ELSE DefaultIndex]
          /\ pages' = DOMAIN s
      BY <1>2, <2>1
    <3>2. \A p \in DOMAIN o : o[p] \in Indexes
      BY OverridesAssumption DEF Indexes, Range
    <3>. QED BY <3>1, <3>2, DefaultFacts
  <2>2. CASE phase' = "roots"
    BY <1>2, <2>2 DEF NoneFound
  <2>. QED BY <1>2, <2>1, <2>2
<1>5. toRead' \in Seq(Indexes)
      /\ \A j, k \in DOMAIN toRead' : j < k => Position(toRead'[j]) < Position(toRead'[k])
  <2>1. CASE toRead' = <<>>
    BY <2>1
  <2>2. CASE toRead' = IndexUrls
    <3>1. \A j \in DOMAIN IndexUrls : Position(IndexUrls[j]) = j
      BY PositionFacts
    <3>. QED BY <2>2, <3>1, PositionFacts
  <2>. QED BY <1>2, <2>1, <2>2
<1>6. DOMAIN results' = {} /\ DOMAIN downloads' = {} /\ Range(downloads') = {}
      /\ downloads' \in Seq(Indexes) /\ results' \in Seq(Results)
  BY <1>1 DEF Range
<1>7. TypeInv'
  <2>1. calls' \in 0..MaxCalls
    BY <1>1, BoundsAssumption DEF IInv, TypeInv, TypeOK
  <2>2. Range(toRead') \subseteq Indexes /\ Range(found') \subseteq Indexes
    <3>1. \A n \in DOMAIN toRead' : toRead'[n] \in Indexes
      BY <1>5, ElementOfSeq, LenProperties
    <3>. QED BY <1>4, <3>1 DEF Range
  <2>3. CacheTypeOK' /\ parallel' \in BOOLEAN /\ contents' \in [Packages -> SUBSET Files]
    BY <1>1, <1>2 DEF IInv, TypeInv, TypeOK, CacheTypeOK, NoFiles
  <2>4. TypeOK'
    BY <1>1, <1>2, <1>3, <1>4, <1>6, <2>1, <2>2, <2>3 DEF IInv, TypeInv, TypeOK
  <2>. QED BY <1>1, <1>4, <1>5, <1>6, <2>4 DEF IInv, TypeInv
<1>8. PhaseInv'
  BY <1>1, <1>2 DEF PhaseInv
<1>9. SteadyInv'
  BY <1>1 DEF IInv, SteadyInv, Online
<1>10. ServedInv'
  BY <1>2 DEF ServedInv
<1>11. AskedInv' /\ FactsInv' /\ LockedIsOffline' /\ OrderInv'
  BY <1>1, <1>5, <1>6 DEF IInv, AskedInv, FactsInv, LockedIsOffline, OrderInv
<1>. QED BY <1>7, <1>8, <1>9, <1>10, <1>11 DEF IInv

\* The root page of the next index is asked for: the cache has the packages, or
\* it was not asked for all of them before.
LEMMA ReadRootInv == ASSUME IInv, ReadRoot PROVE IInv'
<1>. DEFINE i == Head(toRead)
            u == Page(i, Simple)
            keys == DOMAIN sources
<1>0. /\ phase = "roots" /\ toRead # <<>> /\ (parallel \/ downloads = <<>>)
      /\ toRead' = Tail(toRead)
      /\ UNCHANGED <<index, phase, sources, parallel, found, pages, waiting, contents,
                     evaluations, calls, changes, steady, lockAsked, lockServed>>
  BY DEF ReadRoot, counters
<1>00. PICK hit \in Cached(u, keys) :
        /\ Get(u, hit) /\ Asks(u, keys) /\ Answers(u, keys, hit)
        /\ IF hit # {}
           THEN results' = Append(results, Result(i, hit, TRUE)) /\ UNCHANGED downloads
           ELSE downloads' = Append(downloads, i) /\ UNCHANGED results
  BY DEF ReadRoot
<1>. DEFINE result == Result(i, hit, TRUE)
<1>1. /\ phase = "roots" /\ toRead # <<>> /\ Get(u, hit)
      /\ Asks(u, keys) /\ Answers(u, keys, hit)
      /\ toRead' = Tail(toRead)
      /\ \/ hit # {} /\ results' = Append(results, result) /\ UNCHANGED downloads
         \/ hit = {} /\ downloads' = Append(downloads, i) /\ UNCHANGED results
      /\ UNCHANGED <<index, phase, sources, parallel, found, pages, waiting, contents,
                     evaluations, calls, changes, steady, lockAsked, lockServed>>
  BY <1>0, <1>00
<1>2. TypeInv /\ SteadyInv /\ PhaseInv
  BY DEF IInv
<1>3. toRead \in Seq(Indexes) /\ downloads \in Seq(Indexes) /\ results \in Seq(Results)
  BY <1>2 DEF TypeInv
<1>4. /\ Tail(toRead) \in Seq(Indexes) /\ i \in Indexes /\ 1 \in DOMAIN toRead
      /\ DOMAIN toRead = 1..Len(toRead) /\ Len(toRead) \in Nat
      /\ i = toRead[1]
      /\ \A n \in DOMAIN Tail(toRead) :
            n \in Nat /\ n >= 1 /\ n + 1 \in DOMAIN toRead /\ Tail(toRead)[n] = toRead[n + 1]
  BY <1>1, <1>3, TailFacts
<1>5. u \in AllPages /\ EntriesOf(u) \subseteq AnyEntry /\ Clear(u)
  BY <1>4, PageFacts, ClearFacts
<1>6. keys \subseteq Packages /\ keys # {}
  BY <1>1, <1>2, SourcesFacts
<1>. HIDE DEF i, u, keys, result
<1>7. /\ hit \subseteq EntriesOf(u) /\ KeysOf(hit) \subseteq keys
      /\ sameFormat /\ hit = {} => ~(keys \subseteq KeysOf(known[u]))
  BY <1>2, <1>5, <1>6, <1>00, CachedFacts
<1>8. /\ CacheTypeOK' /\ UNCHANGED <<memory, known, sameFormat>>
      /\ \A v \in AllPages : v # u => facts'[v] = facts[v]
      /\ KeysOf(facts'[u]) = KeysOf(facts[u]) \cup KeysOf(hit)
      /\ \A v \in AllPages : facts'[v] \subseteq EntriesOf(v)
  BY <1>1, <1>2, <1>5, <1>00, GetFacts
<1>9. /\ asked' \in KeySets /\ served' \in KeySets
      /\ asked'[u] = asked[u] \cup keys /\ served'[u] = served[u] \cup (keys \cap KeysOf(hit))
      /\ \A v \in AllPages : v # u => asked'[v] = asked[v] /\ served'[v] = served[v]
  <2>1. keys \in SUBSET (Packages \cup Versions) /\ Asks(u, keys) /\ Answers(u, keys, hit)
    BY <1>1, <1>6
  <2>. QED BY ONLY <1>2, <1>5, <2>1, HistoryFacts
<1>10. result \in Results
  BY <1>4, <1>5, <1>7 DEF Results, Result, result
<1>11. /\ downloads' \in Seq(Indexes)
       /\ \A n \in DOMAIN downloads' :
            \/ n \in DOMAIN downloads /\ downloads'[n] = downloads[n]
            \/ hit = {} /\ n = Len(downloads) + 1 /\ downloads'[n] = i
  <2>1. CASE hit # {}
    BY <1>1, <1>3, <2>1
  <2>2. CASE hit = {}
    <3>1. downloads' = Append(downloads, i)
      BY <1>1, <2>2
    <3>2. downloads' \in Seq(Indexes)
          /\ \A n \in DOMAIN downloads' :
                \/ n \in DOMAIN downloads /\ downloads'[n] = downloads[n]
                \/ n = Len(downloads) + 1 /\ downloads'[n] = i
      BY ONLY <1>3, <1>4, <3>1, AppendFacts
    <3>. QED BY ONLY <2>2, <3>2
  <2>. QED BY <2>1, <2>2
<1>12. /\ results' \in Seq(Results)
       /\ Len(results) \in Nat /\ DOMAIN results = 1..Len(results)
       /\ \A n \in DOMAIN results' :
            \/ n \in DOMAIN results /\ results'[n] = results[n]
            \/ n = Len(results) + 1 /\ results'[n] = result
  <2>1. Len(results) \in Nat /\ DOMAIN results = 1..Len(results)
    BY <1>3, LenProperties
  <2>2. CASE hit # {}
    <3>1. results' = Append(results, result)
      BY <1>1, <2>2
    <3>. QED BY ONLY <1>3, <1>10, <3>1, AppendFacts
  <2>3. CASE hit = {}
    BY <1>1, <1>3, <2>1, <2>3
  <2>. QED BY <2>1, <2>2, <2>3
<1>13. TypeInv'
  <2>1. Range(downloads') \subseteq Indexes
    BY ONLY <1>11, RangeFacts
  <2>2. Range(toRead') \subseteq Indexes
    BY <1>1, <1>4, RangeFacts
  <2>3. \A n \in DOMAIN results' : results'[n].index \in Indexes
    <3>1. \A n \in DOMAIN results' : results'[n] \in Results
      BY ONLY <1>12, RangeFacts
    <3>. QED BY <3>1 DEF Results
  <2>4. TypeOK'
    BY <1>1, <1>2, <1>8, <2>1, <2>2, <2>3 DEF TypeInv, TypeOK
  <2>. QED BY <1>1, <1>2, <1>4, <1>8, <1>9, <1>11, <1>12, <2>4 DEF TypeInv
<1>14. PhaseInv'
  BY <1>1, <1>2 DEF PhaseInv
<1>15. SteadyInv'
  BY <1>1, <1>2, <1>8 DEF SteadyInv, Online
<1>16. ServedInv'
  BY <1>1 DEF ServedInv
<1>17. AskedInv'
  <2>1. \A v \in AllPages : asked[v] \subseteq asked'[v]
    BY <1>9
  <2>2. \A v \in AllPages : KeysOf(facts'[v]) \subseteq asked'[v]
    BY <1>7, <1>8, <1>9 DEF IInv, AskedInv
  <2>3. ASSUME NEW n \in DOMAIN downloads'
        PROVE  DOMAIN sources \subseteq asked'[Page(downloads'[n], Simple)]
    <3>1. CASE n \in DOMAIN downloads /\ downloads'[n] = downloads[n]
      <4>1. Page(downloads[n], Simple) \in AllPages
        BY <1>3, <3>1, PageFacts, ElementOfSeq, LenProperties
      <4>. QED BY <2>1, <3>1, <4>1 DEF IInv, AskedInv
    <3>2. CASE downloads'[n] = i
      BY <1>9, <3>2 DEF u, keys
    <3>. QED BY <1>11, <3>1, <3>2
  <2>4. ASSUME NEW p \in waiting PROVE sources[p] \subseteq asked'[Page(found[p], p)]
    <3>1. Page(found[p], p) \in AllPages
      BY <1>2, PageFacts DEF TypeInv, TypeOK
    <3>. QED BY <2>1, <3>1 DEF IInv, AskedInv
  <2>. QED BY <1>1, <1>8, <2>2, <2>3, <2>4 DEF IInv, AskedInv
<1>18. FactsInv'
  BY <1>1, <1>8, <1>9 DEF IInv, FactsInv
<1>19. LockedIsOffline'
  <2>. SUFFICES ASSUME sameFormat
                PROVE  /\ \A n \in DOMAIN downloads' :
                            ~(DOMAIN sources \subseteq lockServed[Page(downloads'[n], Simple)])
                       /\ \A p \in waiting : Hashed(found[p]) =>
                            ~(sources[p] \subseteq lockServed[Page(found[p], p)])
    BY <1>1, <1>8 DEF LockedIsOffline
  <2>1. hit = {} => ~(keys \subseteq lockServed[u])
    BY <1>5, <1>7 DEF IInv, FactsInv
  <2>. QED BY <1>11, <2>1 DEF IInv, LockedIsOffline, u, keys
<1>20. OrderInv'
  <2>1. \A j, k \in DOMAIN toRead' : j < k => Position(toRead'[j]) < Position(toRead'[k])
    BY <1>1, <1>4 DEF IInv, OrderInv
  <2>2. /\ \A n \in DOMAIN results : Position(results[n].index) < Position(i)
        /\ \A n \in DOMAIN downloads : Position(downloads[n]) < Position(i)
        /\ \A k \in DOMAIN toRead' : Position(i) < Position(toRead'[k])
    BY <1>1, <1>4 DEF IInv, OrderInv
  <2>3. /\ \A n \in DOMAIN results, k \in DOMAIN toRead' :
                Position(results[n].index) < Position(toRead'[k])
        /\ \A n \in DOMAIN downloads, k \in DOMAIN toRead' :
                Position(downloads[n]) < Position(toRead'[k])
    BY <1>1, <1>4 DEF IInv, OrderInv
  <2>4. result.index = i /\ result.cached
    BY DEF result, Result
  <2>5. \A n \in DOMAIN results', k \in DOMAIN toRead' :
            Position(results'[n].index) < Position(toRead'[k])
    BY <1>12, <2>2, <2>3, <2>4
  <2>6. \A n \in DOMAIN downloads', k \in DOMAIN toRead' :
            Position(downloads'[n]) < Position(toRead'[k])
    BY <1>11, <2>2, <2>3
  <2>7. ASSUME NEW m \in DOMAIN results', NEW n \in DOMAIN results', m < n
        PROVE  \/ Position(results'[m].index) < Position(results'[n].index)
               \/ parallel /\ results'[m].cached /\ ~results'[n].cached
    <3>1. m \in DOMAIN results /\ results'[m] = results[m]
      <4>1. n <= Len(results) + 1 /\ m \in Nat /\ n \in Nat
        BY <1>12
      <4>. QED BY <1>12, <2>7, <4>1
    <3>2. CASE n \in DOMAIN results /\ results'[n] = results[n]
      BY <2>7, <3>1, <3>2 DEF IInv, OrderInv
    <3>3. CASE results'[n] = result
      BY <2>2, <2>4, <3>1, <3>3
    <3>. QED BY <1>12, <3>2, <3>3
  <2>8. ASSUME NEW m \in DOMAIN downloads', NEW n \in DOMAIN downloads', m < n
        PROVE  Position(downloads'[m]) < Position(downloads'[n])
    <3>1. Len(downloads) \in Nat /\ DOMAIN downloads = 1..Len(downloads)
      BY <1>3, LenProperties
    <3>2. m \in DOMAIN downloads /\ downloads'[m] = downloads[m]
      <4>1. n <= Len(downloads) + 1 /\ m \in Nat /\ n \in Nat
        BY <1>11, <3>1
      <4>. QED BY <1>11, <2>8, <3>1, <4>1
    <3>3. CASE n \in DOMAIN downloads /\ downloads'[n] = downloads[n]
      BY <2>8, <3>2, <3>3 DEF IInv, OrderInv
    <3>4. CASE downloads'[n] = i
      BY <2>2, <3>2, <3>4
    <3>. QED BY <1>11, <3>3, <3>4
  <2>9. ASSUME NEW n \in DOMAIN results', NEW k \in DOMAIN downloads'
        PROVE  \/ Position(results'[n].index) < Position(downloads'[k])
               \/ parallel /\ results'[n].cached
    <3>1. CASE hit # {}
      <4>1. results' = Append(results, result) /\ downloads' = downloads
        BY <1>1, <3>1
      <4>2. CASE n \in DOMAIN results /\ results'[n] = results[n]
        BY <4>1, <4>2 DEF IInv, OrderInv
      <4>3. CASE results'[n] = result
        <5>1. parallel
          BY <1>0, <4>1
        <5>. QED BY <2>4, <4>3, <5>1
      <4>. QED BY <1>12, <4>2, <4>3
    <3>2. CASE hit = {}
      <4>1. results' = results
        BY <1>1, <3>2
      <4>2. CASE k \in DOMAIN downloads /\ downloads'[k] = downloads[k]
        BY <4>1, <4>2 DEF IInv, OrderInv
      <4>3. CASE downloads'[k] = i
        BY <2>2, <4>1, <4>3
      <4>. QED BY <1>11, <4>2, <4>3
    <3>. QED BY <3>1, <3>2
  <2>. QED BY <1>1, <2>1, <2>5, <2>6, <2>7, <2>8, <2>9 DEF OrderInv
<1>. QED BY <1>13, <1>14, <1>15, <1>16, <1>17, <1>18, <1>19, <1>20 DEF IInv

\* A root page has been downloaded: it is remembered, and one of the results.
LEMMA WaitRootInv == ASSUME IInv, WaitRoot PROVE IInv'
<1>. DEFINE i == Head(downloads)
            u == Page(i, Simple)
            keys == DOMAIN sources
<1>0. /\ phase = "roots" /\ downloads # <<>> /\ downloads' = Tail(downloads)
      /\ UNCHANGED <<index, phase, sources, parallel, toRead, found, pages, waiting, contents,
                     evaluations, calls, changes, steady, asked, lockAsked, lockServed>>
  BY DEF WaitRoot, RootDue, counters
<1>00. PICK page \in Dictionaries(Online(u)) :
        /\ SetDefault(u, keys, page) /\ Answers(u, keys, page)
        /\ results' = Append(results, Result(i, page, FALSE))
  BY DEF WaitRoot
<1>. DEFINE result == Result(i, page, FALSE)
<1>1. /\ phase = "roots" /\ downloads # <<>>
      /\ SetDefault(u, keys, page) /\ Answers(u, keys, page)
      /\ downloads' = Tail(downloads)
      /\ results' = Append(results, result)
      /\ UNCHANGED <<index, phase, sources, parallel, toRead, found, pages, waiting, contents,
                     evaluations, calls, changes, steady, asked, lockAsked, lockServed>>
  BY <1>0, <1>00
<1>2. TypeInv /\ SteadyInv /\ PhaseInv /\ OrderInv
  BY DEF IInv
<1>3. downloads \in Seq(Indexes) /\ results \in Seq(Results)
  BY <1>2 DEF TypeInv
<1>4. /\ Tail(downloads) \in Seq(Indexes) /\ i \in Indexes
      /\ 1 \in DOMAIN downloads /\ i = downloads[1]
      /\ \A n \in DOMAIN Tail(downloads) :
            n \in Nat /\ n + 1 \in DOMAIN downloads /\ 1 < n + 1
            /\ Tail(downloads)[n] = downloads[n + 1]
  BY <1>1, <1>3, TailFacts
<1>5. u \in AllPages /\ EntriesOf(u) \subseteq AnyEntry /\ Clear(u)
  BY <1>4, PageFacts, ClearFacts
<1>6. keys \subseteq Packages /\ keys \subseteq asked[u]
  <2>1. keys \subseteq asked[Page(downloads[1], Simple)]
    BY <1>4 DEF IInv, AskedInv
  <2>. QED BY <1>1, <1>2, <1>4, <2>1, SourcesFacts
<1>. HIDE DEF i, u, keys, result
<1>7. /\ page \subseteq AnyEntry
      /\ CacheTypeOK' /\ UNCHANGED <<known, sameFormat>>
      /\ \A v \in AllPages : v # u => facts'[v] = facts[v] /\ memory'[v] = memory[v]
      /\ KeysOf(facts'[u]) = KeysOf(facts[u]) \cup (KeysOf(page) \cap keys)
      /\ memory'[u] # {} => steady[u] \subseteq memory'[u]
      /\ \A v \in AllPages :
            memory'[v] \subseteq EntriesOf(v) /\ facts'[v] \subseteq EntriesOf(v)
  BY <1>1, <1>2, <1>5, <1>00, SetDefaultFacts
<1>8. result \in Results /\ result.index = i /\ ~result.cached
  BY <1>4, <1>7 DEF Results, Result, result
<1>9. /\ served' \in KeySets /\ served'[u] = served[u] \cup (keys \cap KeysOf(page))
      /\ \A v \in AllPages : v # u => served'[v] = served[v]
  <2>1. keys \in SUBSET (Packages \cup Versions) /\ Answers(u, keys, page)
    BY <1>1, <1>6
  <2>. QED BY ONLY <1>2, <1>5, <2>1, HistoryFacts
<1>10. /\ results' \in Seq(Results)
       /\ Len(results) \in Nat /\ DOMAIN results = 1..Len(results)
       /\ \A n \in DOMAIN results' :
            \/ n \in DOMAIN results /\ results'[n] = results[n]
            \/ n = Len(results) + 1 /\ results'[n] = result
  <2>1. results' = Append(results, result)
    BY <1>1
  <2>. QED BY ONLY <1>3, <1>8, <2>1, AppendFacts
<1>11. TypeInv'
  <2>1. Range(downloads') \subseteq Indexes
    BY <1>1, <1>4, RangeFacts
  <2>2. \A n \in DOMAIN results' : results'[n].index \in Indexes
    <3>1. \A n \in DOMAIN results' : results'[n] \in Results
      BY ONLY <1>10, RangeFacts
    <3>. QED BY <3>1 DEF Results
  <2>3. TypeOK'
    BY <1>1, <1>2, <1>7, <2>1, <2>2 DEF TypeInv, TypeOK
  <2>. QED BY <1>1, <1>2, <1>4, <1>7, <1>9, <1>10, <2>3 DEF TypeInv
<1>12. PhaseInv'
  BY <1>1, <1>2 DEF PhaseInv
<1>13. SteadyInv'
  BY <1>1, <1>2, <1>7 DEF SteadyInv, Online
<1>14. ServedInv'
  BY <1>1 DEF ServedInv
<1>15. AskedInv'
  <2>1. \A v \in AllPages : KeysOf(facts'[v]) \subseteq asked[v]
    BY <1>6, <1>7 DEF IInv, AskedInv
  <2>. QED BY <1>1, <1>4, <1>7, <2>1 DEF IInv, AskedInv
<1>16. FactsInv'
  BY <1>1, <1>7, <1>9 DEF IInv, FactsInv
<1>17. LockedIsOffline'
  BY <1>1, <1>4, <1>7 DEF IInv, LockedIsOffline
<1>18. OrderInv'
  <2>1. /\ \A k \in DOMAIN toRead : Position(i) < Position(toRead[k])
        /\ \A n \in DOMAIN results :
            \/ Position(results[n].index) < Position(i)
            \/ parallel /\ results[n].cached
    BY <1>2, <1>4 DEF OrderInv
  <2>2. \A k \in DOMAIN downloads' : Position(i) < Position(downloads'[k])
    BY <1>1, <1>2, <1>4 DEF OrderInv
  <2>3. \A n \in DOMAIN results', k \in DOMAIN toRead :
            Position(results'[n].index) < Position(toRead[k])
    BY <1>2, <1>8, <1>10, <2>1 DEF OrderInv
  <2>4. ASSUME NEW n \in DOMAIN results', NEW k \in DOMAIN downloads'
        PROVE  \/ Position(results'[n].index) < Position(downloads'[k])
               \/ parallel /\ results'[n].cached
    <3>1. CASE n \in DOMAIN results /\ results'[n] = results[n]
      BY <1>1, <1>2, <1>4, <3>1 DEF OrderInv
    <3>2. CASE results'[n] = result
      BY <1>8, <2>2, <3>2
    <3>. QED BY <1>10, <3>1, <3>2
  <2>5. ASSUME NEW m \in DOMAIN results', NEW n \in DOMAIN results', m < n
        PROVE  \/ Position(results'[m].index) < Position(results'[n].index)
               \/ parallel /\ results'[m].cached /\ ~results'[n].cached
    <3>1. m \in DOMAIN results /\ results'[m] = results[m]
      <4>1. n <= Len(results) + 1 /\ m \in Nat /\ n \in Nat
        BY <1>10
      <4>. QED BY <1>10, <2>5, <4>1
    <3>2. CASE n \in DOMAIN results /\ results'[n] = results[n]
      BY <1>2, <2>5, <3>1, <3>2 DEF OrderInv
    <3>3. CASE results'[n] = result
      BY <1>8, <2>1, <3>1, <3>3
    <3>. QED BY <1>10, <3>2, <3>3
  <2>6. \A j, k \in DOMAIN downloads' : j < k => Position(downloads'[j]) < Position(downloads'[k])
    BY <1>1, <1>2, <1>4 DEF OrderInv
  <2>7. \A j \in DOMAIN downloads', k \in DOMAIN toRead :
            Position(downloads'[j]) < Position(toRead[k])
    BY <1>1, <1>2, <1>4 DEF OrderInv
  <2>. QED BY <1>1, <1>2, <2>3, <2>4, <2>5, <2>6, <2>7 DEF OrderInv
<1>. QED BY <1>11, <1>12, <1>13, <1>14, <1>15, <1>16, <1>17, <1>18 DEF IInv

\* The indexes of the packages are chosen; none of their pages is served yet.
LEMMA ChooseIndexesInv == ASSUME IInv, ChooseIndexes PROVE IInv'
<1>1. /\ phase = "roots" /\ toRead = <<>> /\ downloads = <<>>
      /\ found' = FoundOnIndex /\ pages' = DOMAIN found'
      /\ phase' = IF pages' = {} THEN "idle" ELSE "pages"
      /\ results' = <<>>
      /\ UNCHANGED <<memory, facts, known, sameFormat, index, sources, parallel, toRead,
                     downloads, waiting, contents, evaluations, calls, changes, steady, asked, served,
                     lockAsked, lockServed>>
  BY DEF ChooseIndexes, RootsRead, cacheVars, counters, historyVars
<1>2. TypeInv /\ PhaseInv
  BY DEF IInv
<1>3. /\ found' \in [DOMAIN found' -> Indexes]
      /\ DOMAIN found' \subseteq DOMAIN sources
      /\ DOMAIN found' \subseteq Packages /\ Range(found') \subseteq Indexes
  BY <1>1, <1>2, FoundFacts, SourcesFacts DEF Range
<1>4. waiting = {}
  BY <1>1, <1>2 DEF TypeInv, TypeOK, PhaseInv
<1>5. results' \in Seq(Results) /\ DOMAIN results' = {}
  BY <1>1
<1>6. TypeInv'
  <2>1. CacheTypeOK'
    BY <1>1, <1>2 DEF TypeInv, TypeOK, CacheTypeOK
  <2>2. TypeOK'
    BY <1>1, <1>2, <1>3, <1>4, <1>5, <2>1 DEF TypeInv, TypeOK
  <2>. QED BY <1>1, <1>2, <1>3, <1>5, <2>2 DEF TypeInv
<1>7. PhaseInv'
  BY <1>1, <1>2 DEF PhaseInv
<1>8. SteadyInv' /\ ServedInv'
  BY <1>1 DEF IInv, SteadyInv, Online, ServedInv
<1>9. AskedInv' /\ FactsInv' /\ LockedIsOffline' /\ OrderInv'
  BY <1>1, <1>4, <1>5 DEF IInv, AskedInv, FactsInv, LockedIsOffline, OrderInv
<1>. QED BY <1>6, <1>7, <1>8, <1>9 DEF IInv

\* Serving a page completes one package.
LEMMA ServeInv ==
    ASSUME IInv, NEW p \in pages, phase = "pages", NEW content \in SUBSET Files,
           Hashed(found[p]) => sources[p] \cap KeysOf(steady[Page(found[p], p)])
                                    \subseteq KeysOf(content),
           Serve(p, content), UNCHANGED <<sources, found, steady>>
    PROVE  /\ contents' \in [Packages -> SUBSET Files]
           /\ pages' = pages \ {p}
           /\ phase' \in {"idle", "pages"} /\ (phase' = "idle" => pages' = {})
           /\ ServedInv'
<1>1. contents' = [contents EXCEPT ![p] = content] /\ pages' = pages \ {p}
      /\ phase' = IF pages' = {} THEN "idle" ELSE "pages"
  BY DEF Serve
<1>2. contents \in [Packages -> SUBSET Files] /\ p \in Packages
  BY DEF IInv, TypeInv, TypeOK
<1>3. /\ contents' \in [Packages -> SUBSET Files] /\ contents'[p] = content
      /\ \A q \in Packages : q # p => contents'[q] = contents[q]
  BY <1>1, <1>2
<1>4. ServedInv'
  <2>. SUFFICES ASSUME NEW q \in DOMAIN found \ pages', Hashed(found[q])
                PROVE  sources[q] \cap KeysOf(steady[Page(found[q], q)])
                            \subseteq KeysOf(contents'[q])
    BY DEF ServedInv
  <2>1. CASE q = p
    BY <1>3, <2>1
  <2>2. CASE q # p
    <3>1. q \in DOMAIN found \ pages /\ q \in Packages
      BY <1>1, <2>2 DEF IInv, TypeInv, TypeOK
    <3>. QED BY <1>3, <2>2, <3>1 DEF IInv, ServedInv
  <2>. QED BY <2>1, <2>2
<1>. QED BY <1>1, <1>3, <1>4

\* A package's page is asked for: the cache has what it should have of it, or
\* it was not asked for all of it before.
LEMMA ReadPageInv == ASSUME IInv, NEW p \in Packages, ReadPage(p) PROVE IInv'
<1>. DEFINE u == Page(found[p], p)
            keys == sources[p]
<1>0. PICK hit \in Cached(u, keys) :
        /\ Get(u, hit) /\ Asks(u, keys) /\ Answers(u, keys, hit)
        /\ IF hit # {}
           THEN Serve(p, hit) /\ UNCHANGED waiting
           ELSE waiting' = waiting \cup {p} /\ UNCHANGED <<contents, pages, phase>>
  BY DEF ReadPage
<1>1. /\ phase = "pages" /\ p \in pages /\ p \notin waiting /\ Get(u, hit)
      /\ Asks(u, keys) /\ Answers(u, keys, hit)
      /\ \/ hit # {} /\ Serve(p, hit) /\ UNCHANGED waiting
         \/ hit = {} /\ waiting' = waiting \cup {p} /\ UNCHANGED <<contents, pages, phase>>
      /\ UNCHANGED <<index, sources, parallel, toRead, downloads, results, found,
                     evaluations, calls, changes, steady, lockAsked, lockServed>>
  BY <1>0 DEF ReadPage, counters
<1>2. TypeInv /\ SteadyInv /\ PhaseInv
  BY DEF IInv
<1>3. p \in DOMAIN found /\ p \in DOMAIN sources /\ found[p] \in Indexes
  BY <1>1, <1>2 DEF TypeInv
<1>4. /\ u \in AllPages /\ EntriesOf(u) \subseteq Files
      /\ Clear(u) <=> Hashed(found[p])
  BY <1>3, PageFacts, ClearFacts
<1>5. keys \subseteq Packages \cup Versions /\ keys # {}
  BY <1>1, <1>2, <1>3, SourcesFacts
<1>. HIDE DEF u, keys
<1>6. /\ hit \subseteq Files /\ KeysOf(hit) \subseteq keys
      /\ Clear(u) /\ hit # {} => keys \cap KeysOf(steady[u]) \subseteq KeysOf(hit)
      /\ sameFormat /\ hit = {} => ~(keys \subseteq KeysOf(known[u]))
  BY <1>0, <1>2, <1>4, <1>5, CachedFacts
<1>7. /\ CacheTypeOK' /\ UNCHANGED <<memory, known, sameFormat>>
      /\ \A v \in AllPages : v # u => facts'[v] = facts[v]
      /\ KeysOf(facts'[u]) \subseteq KeysOf(facts[u]) \cup KeysOf(hit)
      /\ Clear(u) => KeysOf(facts'[u]) = KeysOf(facts[u]) \cup KeysOf(hit)
      /\ \A v \in AllPages : facts'[v] \subseteq EntriesOf(v)
  BY <1>0, <1>1, <1>2, <1>4, GetFacts
<1>8. /\ asked' \in KeySets /\ served' \in KeySets
      /\ asked'[u] = asked[u] \cup keys /\ served'[u] = served[u] \cup (keys \cap KeysOf(hit))
      /\ \A v \in AllPages : v # u => asked'[v] = asked[v] /\ served'[v] = served[v]
  <2>1. keys \in SUBSET (Packages \cup Versions) /\ Asks(u, keys) /\ Answers(u, keys, hit)
    BY <1>1, <1>5
  <2>. QED BY ONLY <1>2, <1>4, <2>1, HistoryFacts
<1>9. /\ contents' \in [Packages -> SUBSET Files]
      /\ waiting' \subseteq pages' /\ pages' \subseteq pages
      /\ phase' \in {"idle", "pages"} /\ (phase' = "idle" => pages' = {})
      /\ ServedInv'
  <2>1. CASE hit # {}
    <3>1. Serve(p, hit) /\ UNCHANGED <<waiting, sources, found, steady>>
      BY <1>1, <2>1
    <3>2. /\ contents' \in [Packages -> SUBSET Files] /\ pages' = pages \ {p}
          /\ phase' \in {"idle", "pages"} /\ (phase' = "idle" => pages' = {})
          /\ ServedInv'
      BY <1>1, <1>4, <1>6, <2>1, <3>1, ServeInv DEF u, keys
    <3>. QED BY <1>1, <1>2, <3>1, <3>2 DEF TypeInv, TypeOK
  <2>2. CASE hit = {}
    <3>1. waiting' = waiting \cup {p} /\ UNCHANGED <<contents, pages, phase>>
      BY <1>1, <2>2
    <3>2. ServedInv'
      BY <1>1, <3>1 DEF IInv, ServedInv
    <3>. QED BY <1>1, <1>2, <3>1, <3>2 DEF TypeInv, TypeOK
  <2>. QED BY <2>1, <2>2
<1>10. \A q \in waiting' : q \in waiting \/ (q = p /\ hit = {})
  BY <1>1
<1>11. TypeInv'
  <2>1. TypeOK'
    BY <1>1, <1>2, <1>7, <1>9 DEF TypeInv, TypeOK
  <2>. QED BY <1>1, <1>2, <1>7, <1>8, <1>9, <2>1 DEF TypeInv
<1>12. PhaseInv'
  BY <1>1, <1>2, <1>9 DEF PhaseInv
<1>13. SteadyInv'
  BY <1>1, <1>2, <1>7 DEF SteadyInv, Online
<1>14. AskedInv'
  <2>1. \A v \in AllPages : asked[v] \subseteq asked'[v]
    BY <1>8
  <2>2. \A v \in AllPages : KeysOf(facts'[v]) \subseteq asked'[v]
    BY <1>6, <1>7, <1>8 DEF IInv, AskedInv
  <2>3. ASSUME NEW n \in DOMAIN downloads
        PROVE  DOMAIN sources \subseteq asked'[Page(downloads[n], Simple)]
    <3>1. Page(downloads[n], Simple) \in AllPages
      BY <1>2, RangeFacts, PageFacts DEF TypeInv
    <3>. QED BY <2>1, <3>1 DEF IInv, AskedInv
  <2>4. ASSUME NEW q \in waiting' PROVE sources[q] \subseteq asked'[Page(found[q], q)]
    <3>1. CASE q \in waiting
      <4>1. Page(found[q], q) \in AllPages
        BY <1>2, <3>1, PageFacts DEF TypeInv, TypeOK
      <4>. QED BY <2>1, <3>1, <4>1 DEF IInv, AskedInv
    <3>2. CASE q = p
      BY <1>8, <3>2 DEF u, keys
    <3>. QED BY <1>10, <3>1, <3>2
  <2>. QED BY <1>1, <1>7, <2>2, <2>3, <2>4 DEF IInv, AskedInv
<1>15. FactsInv'
  BY <1>1, <1>7, <1>8 DEF IInv, FactsInv
<1>16. LockedIsOffline'
  <2>1. sameFormat /\ hit = {} /\ Hashed(found[p]) =>
            ~(sources[p] \subseteq lockServed[Page(found[p], p)])
    BY <1>4, <1>6 DEF IInv, FactsInv, u, keys
  <2>. QED BY <1>1, <1>7, <1>10, <2>1 DEF IInv, LockedIsOffline
<1>17. OrderInv'
  BY <1>1 DEF IInv, OrderInv
<1>. QED BY <1>9, <1>11, <1>12, <1>13, <1>14, <1>15, <1>16, <1>17 DEF IInv

\* A package's page has been downloaded and is served whole.
LEMMA WaitPageInv == ASSUME IInv, NEW p \in Packages, WaitPage(p) PROVE IInv'
<1>. DEFINE u == Page(found[p], p)
            keys == sources[p]
<1>0. PICK page \in Dictionaries(Online(u)) :
        SetDefault(u, keys, page) /\ Answers(u, keys, page) /\ Serve(p, page)
  BY DEF WaitPage
<1>1. /\ phase = "pages" /\ p \in waiting /\ p \in pages
      /\ SetDefault(u, keys, page) /\ Answers(u, keys, page)
      /\ Serve(p, page) /\ waiting' = waiting \ {p}
      /\ UNCHANGED <<index, sources, parallel, toRead, downloads, results, found,
                     evaluations, calls, changes, steady, asked, lockAsked, lockServed>>
  BY <1>0 DEF IInv, TypeInv, TypeOK, WaitPage, PagesDue, counters
<1>2. TypeInv /\ SteadyInv /\ PhaseInv
  BY DEF IInv
<1>3. p \in DOMAIN found /\ p \in DOMAIN sources /\ found[p] \in Indexes
  BY <1>1, <1>2 DEF TypeInv
<1>4. /\ u \in AllPages /\ EntriesOf(u) \subseteq Files
      /\ Clear(u) <=> Hashed(found[p])
  BY <1>3, PageFacts, ClearFacts
<1>5. keys \subseteq Packages \cup Versions /\ keys \subseteq asked[u]
  BY <1>1, <1>2, <1>3, SourcesFacts DEF IInv, AskedInv
<1>. HIDE DEF u, keys
<1>7. /\ CacheTypeOK' /\ UNCHANGED <<known, sameFormat>>
      /\ \A v \in AllPages : v # u => facts'[v] = facts[v] /\ memory'[v] = memory[v]
      /\ KeysOf(facts'[u]) \subseteq KeysOf(facts[u]) \cup (KeysOf(page) \cap keys)
      /\ Clear(u) =>
            /\ KeysOf(facts'[u]) = KeysOf(facts[u]) \cup (KeysOf(page) \cap keys)
            /\ memory'[u] # {} => steady[u] \subseteq memory'[u]
      /\ page \subseteq EntriesOf(u) /\ (Clear(u) => steady[u] \subseteq page)
      /\ \A v \in AllPages :
            memory'[v] \subseteq EntriesOf(v) /\ facts'[v] \subseteq EntriesOf(v)
  BY <1>0, <1>1, <1>2, <1>4, SetDefaultFacts
<1>6. /\ page \subseteq Files
      /\ Hashed(found[p]) => keys \cap KeysOf(steady[u]) \subseteq KeysOf(page)
  BY <1>4, <1>7, KeyFacts
<1>8. /\ served' \in KeySets /\ served'[u] = served[u] \cup (keys \cap KeysOf(page))
      /\ \A v \in AllPages : v # u => served'[v] = served[v]
  <2>1. keys \in SUBSET (Packages \cup Versions) /\ Answers(u, keys, page)
    BY <1>1, <1>5
  <2>. QED BY ONLY <1>2, <1>4, <2>1, HistoryFacts
<1>9. /\ contents' \in [Packages -> SUBSET Files] /\ pages' = pages \ {p}
      /\ phase' \in {"idle", "pages"} /\ (phase' = "idle" => pages' = {})
      /\ ServedInv'
  BY <1>1, <1>6, ServeInv DEF u, keys
<1>10. TypeInv'
  <2>1. TypeOK'
    BY <1>1, <1>2, <1>7, <1>9 DEF TypeInv, TypeOK
  <2>. QED BY <1>1, <1>2, <1>7, <1>8, <1>9, <2>1 DEF TypeInv
<1>11. PhaseInv'
  BY <1>1, <1>2, <1>9 DEF PhaseInv
<1>12. SteadyInv'
  BY <1>1, <1>2, <1>7 DEF SteadyInv, Online
<1>13. AskedInv'
  <2>1. \A v \in AllPages : KeysOf(facts'[v]) \subseteq asked[v]
    BY <1>5, <1>7 DEF IInv, AskedInv
  <2>. QED BY <1>1, <1>7, <2>1 DEF IInv, AskedInv
<1>14. FactsInv'
  BY <1>1, <1>7, <1>8 DEF IInv, FactsInv
<1>15. LockedIsOffline'
  BY <1>1, <1>7 DEF IInv, LockedIsOffline
<1>16. OrderInv'
  BY <1>1 DEF IInv, OrderInv
<1>. QED BY <1>9, <1>10, <1>11, <1>12, <1>13, <1>14, <1>15, <1>16 DEF IInv

-----------------------------------------------------------------------------
\* Every step keeps the invariant.
LEMMA StepInv == IInv /\ [Next]_vars => IInv'
<1>. SUFFICES ASSUME IInv, [Next]_vars PROVE IInv'
  OBVIOUS
<1>1. CASE UNCHANGED vars
  <2>. USE <1>1 DEF vars, cacheVars, callVars, counters, historyVars
  <2>1. TypeInv'
    BY DEF IInv, TypeInv, TypeOK, CacheTypeOK
  <2>2. PhaseInv' /\ ServedInv' /\ AskedInv' /\ FactsInv' /\ LockedIsOffline' /\ OrderInv'
    BY DEF IInv, PhaseInv, ServedInv, AskedInv, FactsInv, LockedIsOffline, OrderInv
  <2>3. SteadyInv'
    BY DEF IInv, SteadyInv, Online
  <2>. QED BY <2>1, <2>2, <2>3 DEF IInv
<1>2. CASE Environment
  BY <1>2, SetFilesInv, ChangeFormatInv DEF Environment
<1>3. CASE Evaluation
  BY <1>3, StartEvaluationInv, EndEvaluationInv, AbortInv, CallInv, ReadRootInv, WaitRootInv,
     ChooseIndexesInv, ReadPageInv, WaitPageInv DEF Evaluation
<1>. QED BY <1>1, <1>2, <1>3 DEF Next

\* Type correctness for any indexes, packages and requirements.
THEOREM TypeCorrect == Spec => []TypeOK
<1>1. IInv => TypeOK
  BY DEF IInv, TypeInv
<1>. QED BY <1>1, InitInv, StepInv, PTL DEF Spec

\* A call that returned has served each requested version that was all through
\* the evaluation on an index that gives digests, from facts, from memory or from
\* a download.
THEOREM VersionsAreServed == Spec => []VersionsServed
<1>1. IInv => VersionsServed
  BY DEF IInv, PhaseInv, ServedInv, VersionsServed
<1>. QED BY <1>1, InitInv, StepInv, PTL DEF Spec

\* What nobody asks for any more leaves the lockfile.
THEOREM LockIsOfTheAsked == Spec => []LockHasOnlyAsked
<1>1. IInv => LockHasOnlyAsked
  BY DEF IInv, AskedInv, LockHasOnlyAsked
<1>. QED BY <1>1, InitInv, StepInv, PTL DEF Spec

\* Asking again for packages that are locked, or for files of an index that gives
\* digests, needs no network.
THEOREM LockedNeedsNoNetwork == Spec => []LockedIsOffline
<1>1. IInv => LockedIsOffline
  BY DEF IInv
<1>. QED BY <1>1, InitInv, StepInv, PTL DEF Spec

\* The first index that lists a package provides it, whatever the cache knew of
\* each, unless downloads are parallel and a cached root page of a later index
\* came before the download of an earlier one.
THEOREM FirstIndexProvides == Spec => []FirstIndexWinsUnlessCached
<1>1. IInv => FirstIndexWinsUnlessCached
  <2>. SUFFICES ASSUME IInv, NEW p \in DOMAIN FoundOnIndex, NEW n \in DOMAIN results,
                       Lists(n, p),
                       Position(results[n].index) < Position(FoundOnIndex[p])
                PROVE  /\ parallel /\ ~results[n].cached
                       /\ \E m \in DOMAIN results :
                            results[m].index = FoundOnIndex[p] /\ results[m].cached
    BY DEF FirstIndexWinsUnlessCached
  <2>1. TypeInv /\ OrderInv
    BY DEF IInv
  <2>2. PICK m \in DOMAIN results :
            FoundOnIndex[p] = results[m].index /\ \A k \in 1..(m - 1) : ~Lists(k, p)
    BY <2>1, FoundFacts
  <2>3. Len(results) \in Nat /\ DOMAIN results = 1..Len(results)
    BY <2>1, LenProperties DEF TypeInv
  <2>4. /\ Position(results[n].index) \in Nat /\ Position(results[m].index) \in Nat
    BY <2>1, PositionFacts DEF TypeInv, TypeOK
  <2>5. m < n
    <3>1. m # n
      BY <2>2, <2>4
    <3>. QED BY <2>2, <2>3, <3>1
  <2>6. \/ Position(results[m].index) < Position(results[n].index)
        \/ parallel /\ results[m].cached /\ ~results[n].cached
    BY <2>1, <2>5 DEF OrderInv
  <2>. QED BY <2>2, <2>4, <2>6
<1>. QED BY <1>1, InitInv, StepInv, PTL DEF Spec
=============================================================================
