--------------------------- MODULE CatalogQueries ---------------------------
(***************************************************************************)
(* The catalog and what is asked of it: the agents of a snapshot, as the   *)
(* registry happened to list them, and the words of an owner.  What        *)
(* searching, sorting and paging them must answer, whoever asks.           *)
(***************************************************************************)
EXTENDS CatalogSearch

CONSTANTS
  Catalogs,    \* the snapshots
  Queries,
  FacetSets,   \* the facets a search may narrow by
  BrowseTags, Limits,      \* what a browser may ask for: a tag, a page size
  PageDefault, PageMost    \* BROWSE_DEFAULT_LIMIT, BROWSE_MAX_LIMIT

VARIABLES agents, query  \* a catalog and words, or no catalog when nothing is asked

IsCatalog(c) ==
  /\ c \in Seq(ToSet(c))
  /\ \A i \in DOMAIN c : c[i].handle \in Int /\ c[i].price \in Int \cup {NoPrice}

ASSUME QueryAssumption ==
  /\ NoPrice \notin Int /\ Nothing \notin Int
  /\ Taxonomy \in Seq(ToSet(Taxonomy))
  /\ \A c \in Catalogs : IsCatalog(c)
  /\ \A q \in Queries : q \in Seq(ToSet(q))
  /\ Limits \subseteq Int \cup {Nothing}
  /\ PageDefault \in Nat \ {0} /\ PageMost \in Nat \ {0}

QueryInit == agents \in Catalogs /\ query \in Queries
QuerySpec == QueryInit /\ [][FALSE]_<<agents, query>>

\* What a search of the catalog answers depends on the agents and on nothing else:
\* not on the order of the scan, when that lists each once, nor on the size of a
\* page; and what it says of a model and of the categories is true.
SearchIsStable ==
  agents \in Catalogs =>
    /\ RankingIgnoresScanOrder(agents, query)
    /\ \A facets \in FacetSets : ModelNoteIsHonest(agents, query, facets)
    /\ OverviewCovers(agents)
    /\ \A tag \in BrowseTags, limit \in Limits :
         PagesPartition(agents, query, tag, limit, PageDefault, PageMost)
=============================================================================
