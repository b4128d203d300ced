--------------------------- MODULE CatalogSearch ---------------------------
(***************************************************************************)
(* Reading the catalog: categories, search, ranking and paging of          *)
(* blocks/catalog-index.ts, and what the assistant and the bridge do with  *)
(* them.                                                                   *)
(*                                                                         *)
(* A word is a sequence of letters, a text a set of words, and a tag or a  *)
(* query a sequence of them.  An agent is a record [handle, name, tags,    *)
(* desc, provider, model, price, free]: handle and price are numbers       *)
(* (NoPrice when the amount does not parse), model is a text or NoModel.   *)
(* The tables of the code are constants.                                   *)
(***************************************************************************)
EXTENDS Integers, Sequences, SequencesExt, FiniteSets

CONSTANTS Taxonomy,    \* CATALOG_CATEGORIES without "other", in display order
          TagsOf,      \* CATEGORY_TAGS: the tags of each category
          SaidOf,      \* CATEGORY_DESC: texts that describe each category
          Stopwords, Brands,
          NoPrice, NoModel, Nothing

\* Array.filter: the members of s that are in S, in the order of s.  As a
\* function of positions, which the provers can reason about.
Only(s, S) ==
  LET at == {i \in DOMAIN s : s[i] \in S}
  IN  [n \in 1..Cardinality(at) |->
         s[CHOOSE i \in at : Cardinality({j \in at : j < i}) = n - 1]]

-----------------------------------------------------------------------------
(* Categories *)

TagCategories(agent) == {c \in ToSet(Taxonomy) : agent.tags \cap TagsOf[c] # {}}
Describes(text, c) == \E said \in SaidOf[c] : said \subseteq text
DescCategories(agent) == {c \in ToSet(Taxonomy) : Describes(agent.desc, c)}

\* Tags first, the description only when no tag says anything, else "other".
FoundCategories(agent) ==
  IF TagCategories(agent) # {} THEN TagCategories(agent) ELSE DescCategories(agent)

Categorize(agent) ==
  IF FoundCategories(agent) = {} THEN <<"other">>
  ELSE Only(Taxonomy, FoundCategories(agent))

\* categorizeCatalog: the handles of each category that has any.
Bucket(agents, c) ==
  LET in == Only(agents, {a \in ToSet(agents) : c \in ToSet(Categorize(a))})
  IN  [category |-> c, handles |-> [i \in DOMAIN in |-> in[i].handle]]
CategorizeCatalog(agents) ==
  LET all == Append(Taxonomy, "other")
      bucket == [i \in DOMAIN all |-> Bucket(agents, all[i])]
  IN  Only(bucket, {b \in ToSet(bucket) : b.handles # <<>>})

-----------------------------------------------------------------------------
(* Ranking *)

\* Equal, or one is the other with up to three more letters, the shorter of
\* three at least.
Stem(short, long) ==
  Len(short) >= 3 /\ IsPrefix(short, long) /\ Len(long) - Len(short) <= 3
WordHits(a, b) == a = b \/ (IF Len(a) <= Len(b) THEN Stem(a, b) ELSE Stem(b, a))
TermHits(text, term) == \E w \in text : WordHits(w, term)

QueryTerms(query) == Only(query, {w \in ToSet(query) : Len(w) > 1 /\ w \notin Stopwords})

QueryCategories(terms) ==
  {c \in ToSet(Taxonomy) :
     \/ \E t \in ToSet(terms), tag \in TagsOf[c] : TermHits(ToSet(tag), t)
     \/ Describes(ToSet(terms), c)}

Weight == [name |-> 6, tag |-> 5, capability |-> 4, model |-> 4, description |-> 2, provider |-> 1]
\* In the order scoreAgent looks at them; of equal weights the first wins.
Fields == <<"name", "tag", "description", "provider", "model">>
FieldText(agent) ==
  [name |-> agent.name, tag |-> UNION {ToSet(t) : t \in agent.tags}, description |-> agent.desc,
   provider |-> agent.provider, model |-> IF agent.model = NoModel THEN {} ELSE agent.model]

Hits(agent, terms) ==
  {h \in (DOMAIN terms) \X (DOMAIN Fields) :
     TermHits(FieldText(agent)[Fields[h[2]]], terms[h[1]])}

Aligned(agent, wanted) == ToSet(Categorize(agent)) \cap wanted # {}

Score(agent, terms, wanted) ==
  LET points(f) == Weight[Fields[f]] * Cardinality({h \in Hits(agent, terms) : h[2] = f})
  IN  points(1) + points(2) + points(3) + points(4) + points(5)
        + (IF Aligned(agent, wanted) THEN Weight["capability"] ELSE 0)

\* The field and term a result is explained by: the weightiest, the first of
\* those; a shared category only when nothing weighs as much.
Explains(h, hits) ==
  \A g \in hits : \/ Weight[Fields[h[2]]] > Weight[Fields[g[2]]]
                  \/ /\ Weight[Fields[h[2]]] = Weight[Fields[g[2]]]
                     /\ h[1] < g[1] \/ (h[1] = g[1] /\ h[2] <= g[2])
Why(agent, terms, wanted) ==
  LET hits == Hits(agent, terms)
      best == CHOOSE h \in hits : Explains(h, hits)
  IN  IF hits # {} /\ ~(Aligned(agent, wanted) /\ Weight[Fields[best[2]]] < Weight["capability"])
      THEN [field |-> Fields[best[2]], term |-> terms[best[1]]]
      ELSE [field |-> IF Aligned(agent, wanted) THEN "capability" ELSE "listed", term |-> <<>>]

\* compareRanked: score down, price up (none last), handle up.
Cheaper(a, b) == a.price # NoPrice /\ (b.price = NoPrice \/ a.price < b.price)
BeforeByPrice(r, s) == \* mutant: equal prices are left as scanned
  \/ r.score > s.score
  \/ r.score = s.score /\ Cheaper(r.agent, s.agent)
Before(r, s) ==
  \/ r.score > s.score
  \/ r.score = s.score /\ Cheaper(r.agent, s.agent)
  \/ r.score = s.score /\ r.agent.price = s.agent.price /\ r.agent.handle < s.agent.handle

\* A stable sort.
Ahead(ranked, i) ==
  {j \in DOMAIN ranked : Before(ranked[j], ranked[i]) \/ (~Before(ranked[i], ranked[j]) /\ j < i)}
Sorted(ranked) ==
  [n \in DOMAIN ranked |->
     ranked[CHOOSE i \in DOMAIN ranked : Cardinality(Ahead(ranked, i)) = n - 1]]

-----------------------------------------------------------------------------
(* searchCatalog *)

\* Facets that are asked for narrow the agents; Nothing asks for none.
InFacets(a, facets) ==
  /\ facets.category = Nothing \/ facets.category \in ToSet(Categorize(a))
  /\ facets.provider = Nothing \/ \A t \in facets.provider : TermHits(a.provider, t)
  /\ facets.billing = Nothing \/ (facets.billing = "free") = a.free

\* The first word of the query that names a model brand.
ModelAsked(query) ==
  LET named == Only(query, Brands)
  IN  IF named = <<>> THEN Nothing ELSE Head(named)

ModelMatches(a, term) == a.model # NoModel /\ TermHits(a.model, term)

NoFacets == [category |-> Nothing, provider |-> Nothing, billing |-> Nothing]

SearchCatalog(agents, query, facets) ==
  LET terms == QueryTerms(query)
      wanted == QueryCategories(terms)
      universe == Only(agents, {a \in ToSet(agents) : InFacets(a, facets)})
      ranked == [i \in DOMAIN universe |->
                   [agent |-> universe[i], score |-> Score(universe[i], terms, wanted),
                    why |-> Why(universe[i], terms, wanted)]]
      kept == IF terms = <<>> THEN ranked ELSE Only(ranked, {r \in ToSet(ranked) : r.score > 0})
      asked == ModelAsked(query)
  IN  [results |-> Sorted(kept), buckets |-> CategorizeCatalog(agents),
       note |-> /\ asked # Nothing
                /\ \A a \in ToSet(universe) : ~ModelMatches(a, asked)]

\* chooseSpecialist: the best match, else the first discovered.
ChooseSpecialist(agents, tag, prompt) ==
  LET found == SearchCatalog(agents, tag \o prompt, NoFacets).results
  IN  CASE agents = <<>> -> Nothing
        [] agents # <<>> /\ found = <<>> -> agents[1].handle
        [] OTHER -> found[1].agent.handle

-----------------------------------------------------------------------------
(* Browsing and replying *)

Clamp(n, low, high) == IF n < low THEN low ELSE IF n > high THEN high ELSE n
PageLimit(limit, default, most) == IF limit = Nothing THEN default ELSE Clamp(limit, 1, most)

Tagged(agents, tag) ==
  IF tag = Nothing THEN agents ELSE Only(agents, {a \in ToSet(agents) : tag \in a.tags})

\* browseCatalog over a snapshot; default and most are 50 and 100.
BrowseCatalog(agents, query, tag, offset, limit, default, most) ==
  LET ranked == SearchCatalog(Tagged(agents, tag), query, NoFacets).results
      from == IF offset = Nothing \/ offset < 0 THEN 0 ELSE offset
      size == PageLimit(limit, default, most)
      to == IF from + size < Len(ranked) THEN from + size ELSE Len(ranked)
  IN  [agents |-> SubSeq(ranked, from + 1, to), offset |-> from, limit |-> size,
       matched |-> Len(ranked)]

\* runSearchBlocksCatalog and routeBlocksCatalog: what a reply lists, and the
\* agent a later step may call; the top eight of the matches are spelled out.
CatalogReply(agents, query, tag, category, overview) ==
  LET universe == Tagged(agents, tag)
      found == SearchCatalog(universe, query, [NoFacets EXCEPT !.category = category])
  IN  CASE agents = <<>> -> [kind |-> "empty", listed |-> <<>>, recommend |-> Nothing]
        [] agents # <<>> /\ overview ->
             [kind |-> "categories", listed |-> CategorizeCatalog(universe), recommend |-> Nothing]
        [] OTHER -> [kind |-> "matches", listed |-> SubSeq(found.results, 1, Clamp(Len(found.results), 0, 8)),
                     recommend |-> IF found.results = <<>> THEN Nothing
                                   ELSE found.results[1].agent.handle]

-----------------------------------------------------------------------------
\* Not so when the registry changed under the walk and an agent moved to a later
\* page: the snapshot lists it twice.
NamesEachOnce(agents) ==
  \A i, j \in DOMAIN agents : agents[i].handle = agents[j].handle => i = j

\* The order of a result is that of the agents, never of the scan: "output is
\* stable across runs" although the registry lists agents in any order.
RankingIgnoresScanOrder(agents, query) ==
  NamesEachOnce(agents) =>
    \A other \in SetToSeqs(ToSet(agents)) :
      /\ SearchCatalog(other, query, NoFacets).results = SearchCatalog(agents, query, NoFacets).results
      /\ \/ SearchCatalog(agents, query, NoFacets).results = <<>>
         \/ ChooseSpecialist(other, query, <<>>) = ChooseSpecialist(agents, query, <<>>)

\* A reply that says the model cannot be told explains no result by it.
ModelNoteIsHonest(agents, query, facets) ==
  LET found == SearchCatalog(agents, query, facets)
  IN  found.note =>
        \A r \in ToSet(found.results) :
          ~(r.why.field = "model" /\ r.why.term = ModelAsked(query))

\* The overview lists every agent, in the categories its tags name when they
\* name any: no agent is hidden, and none is filed by a phrase against its tags.
OverviewCovers(agents) ==
  \A a \in ToSet(agents) :
    LET filed == {b.category : b \in {x \in ToSet(CategorizeCatalog(agents)) : a.handle \in ToSet(x.handles)}}
    IN  /\ filed # {}
        /\ NamesEachOnce(agents) /\ TagCategories(a) # {} => filed = TagCategories(a)

\* A browser that asks for page after page, with any limit, sees every match
\* once, in order.
PagesPartition(agents, query, tag, limit, default, most) ==
  LET all == SearchCatalog(Tagged(agents, tag), query, NoFacets).results
      page(k) == BrowseCatalog(agents, query, tag, k * PageLimit(limit, default, most), limit, default, most)
      pages == [k \in 1 .. Len(all) + 1 |-> page(k - 1).agents]
  IN  FlattenSeq(pages) = all
=============================================================================
