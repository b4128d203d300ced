------------------------------ MODULE MCSearch ------------------------------
(***************************************************************************)
(* What is searched for, for TLC, in parts that share no state (the        *)
(* variable part says which of them a behaviour is of):                    *)
(*   slots    SlotSearch on days of six instants                           *)
(*   words    OwnerCalendar on every message of a small grammar            *)
(*   catalog  the snapshots of Catalog                                     *)
(*   ranking  CatalogQueries on a few catalogs and queries                 *)
(*   hiring   the calls of Fanout                                          *)
(* A behaviour of words or ranking is one input and takes no step.         *)
(***************************************************************************)
EXTENDS OwnerCalendar, Fanout, Catalog, CatalogQueries, TLC

VARIABLE part

given == <<part, words, agents, query>>
mcvars == <<given, vars, cvars, fvars>>

-----------------------------------------------------------------------------
Between(a, b) == [start |-> a, end |-> b]
MCWindows == {Between(0, 13), Between(2, 9), Between(7, 13)}
MCBusyLists == {{}, {Between(3, 5)}, {Between(2, 11), Between(3, 4)},
                {Between(9, 10), Between(2, 3), Between(4, 4)}}
MCHours == {[open |-> 2, close |-> 4], [open |-> 1, close |-> 3], [open |-> 4, close |-> 1]}
\* East of Greenwich by half a day, an hour forward or back at the first or
\* second midnight; and no change.
MCZones == {[change |-> c - 3, before |-> 3, after |-> a] : c \in {6, 12}, a \in {2, 4}}
             \cup {[change |-> 0, before |-> -2, after |-> -2]}

-----------------------------------------------------------------------------
IsoDates == {<<"iso", 2028, 2, 29>>, <<"iso", 2028, 6, 15>>}
Dates == {<<None>>, <<"today">>, <<"tomorrow">>}
           \cup {<<kind, weekday>> : kind \in {"next", "this", "coming", "bare"}, weekday \in {2, 3}}
           \cup {<<"month", y, m, d>> : y \in {None, 2028}, m \in {2, 3}, d \in {1, 28, 29, 30}}
Times == {<<None>>, <<"morning">>, <<"afternoon">>, <<"evening">>}
           \cup {<<"single", h, 30, s>> : h \in {0, 9, 11, 12, 23}, s \in Meridiems}
           \cup {<<"range", h1, 0, s1, h2, 30, s2>> : h1 \in {1, 11, 12}, h2 \in {2, 12, 17},
                                                      s1 \in Meridiems, s2 \in Meridiems}
           \cup {<<"till", h, m, s1, 4, 30, s2>> : h \in {1, 12}, m \in {0, 15},
                                                  s1 \in Meridiems, s2 \in Meridiems}
\* 29 February 2028 is a Tuesday; eight in the evening, half past two at night.
Nows == {1440 * W!DayNumber(2028, 2, 29) + 20 * 60, 1440 * W!DayNumber(2027, 3, 1) + 150}
Offsets == {0, -300, 330}
WorkHours == {Between(540, 1020), Between(1320, 360)}
MCExtractions == {None} \cup {[day |-> 60, start |-> a, end |-> b] : a \in {480, 600}, b \in {660, 1500}}

\* Which stands first matters to ISO dates only.
Said(dates, orders) ==
  [date : dates, time : Times, first : orders, now : Nows, offset : Offsets, hours : WorkHours]
MCMessages == Said(Dates, {"date"}) \cup Said(IsoDates, {"date", "time"})
NoMessage == [date |-> <<None>>]

-----------------------------------------------------------------------------
\* Five entries, one of them private; of a page of two the second passes the
\* cap of three.  Later three in another order, which it does not clip.
Listed(a, p) == [agent |-> a, public |-> p]
MCListings == <<<<Listed(1, TRUE), Listed(2, TRUE), Listed(3, FALSE), Listed(4, TRUE), Listed(5, TRUE)>>,
                <<Listed(3, TRUE), Listed(6, TRUE), Listed(1, FALSE)>>>>

-----------------------------------------------------------------------------
\* Words for CatalogSearch.
art == <<"a", "r", "t">>
smart == <<"s", "m", "a", "r", "t">>
draw == <<"d", "r", "a", "w">>
draws == <<"d", "r", "a", "w", "s">>
image_ == <<"i", "m", "a", "g", "e">>
text == <<"t", "e", "x", "t">>
to_ == <<"t", "o">>
ocr == <<"o", "c", "r">>
gpt == <<"g", "p", "t">>
gpt4 == <<"g", "p", "t", "4">>
the == <<"t", "h", "e">>

MCTaxonomy == <<"image", "vision">>
MCTagsOf == [image |-> {<<text, to_, image_>>}, vision |-> {<<image_, to_, text>>, <<ocr>>}]
MCSaidOf == [image |-> {{draw, image_}}, vision |-> {{ocr}}]
MCStopwords == {the, to_}
MCBrands == {gpt, gpt4}

\* An artist, a smart reader of images that says its model, and two that only
\* differ in their handles.
Artist == [handle |-> 1, name |-> {art}, tags |-> {<<text, to_, image_>>}, desc |-> {ocr}, provider |-> {smart},
           model |-> NoModel, price |-> 1, free |-> FALSE]
Reader == [handle |-> 2, name |-> {smart, ocr}, tags |-> {}, desc |-> {draws, ocr}, provider |-> {art},
           model |-> {gpt4}, price |-> 0, free |-> TRUE]
Plain(h, cost) == [handle |-> h, name |-> {draw}, tags |-> {<<draw>>}, desc |-> {draw, image_}, provider |-> {},
                   model |-> NoModel, price |-> cost, free |-> TRUE]
MCCatalogs == {<<Artist, Reader, Plain(3, 0), Plain(4, 0)>>, <<Plain(4, NoPrice), Plain(3, NoPrice), Reader>>,
               <<Artist, Plain(3, 2), Plain(5, 1)>>, <<Plain(3, 1), Artist, Plain(3, 1), Plain(3, 2)>>, <<>>}
MCQueries == {<<>>, <<the>>} \cup {<<w>> : w \in {art, draws, image_, gpt, ocr}}
               \cup {<<v, w>> : v \in {gpt4, gpt, draw}, w \in {gpt, gpt4, ocr, text}}
MCFacets == [category : {Nothing, "vision"}, provider : {Nothing, {art}}, billing : {Nothing, "free"}]
MCBrowseTags == {Nothing, <<draw>>}
MCLimits == {Nothing, -5, 0, 1, 2, 1000}

-----------------------------------------------------------------------------
SlotsFrozen ==
  /\ own = [window |-> Between(0, 13), busy |-> {}, shares |-> TRUE] /\ peer = NoShare
  /\ explicit = TRUE /\ duration = 1
  /\ hours = [open |-> 2, close |-> 4] /\ zone = [change |-> 0, before |-> -2, after |-> -2]
  /\ Init
CatalogFrozen == mock = FALSE /\ reports = FALSE /\ CatalogInit
FanoutFrozen ==
  /\ mode = "all" /\ quorum = 0 /\ image = FALSE /\ online = FALSE /\ consent = FALSE
  /\ paid = [a \in Agents |-> FALSE]
  /\ FanoutInit
NothingAsked == agents = Nothing /\ query = <<>>
MCInit ==
  \/ /\ part = "slots" /\ words = NoMessage /\ NothingAsked
     /\ Init /\ CatalogFrozen /\ FanoutFrozen
  \/ /\ part = "words" /\ words \in Messages /\ NothingAsked
     /\ SlotsFrozen /\ CatalogFrozen /\ FanoutFrozen
  \/ /\ part = "catalog" /\ words = NoMessage /\ NothingAsked
     /\ CatalogInit /\ SlotsFrozen /\ FanoutFrozen
  \/ /\ part = "ranking" /\ words = NoMessage /\ QueryInit
     /\ SlotsFrozen /\ CatalogFrozen /\ FanoutFrozen
  \/ /\ part = "hiring" /\ words = NoMessage /\ NothingAsked
     /\ FanoutInit /\ SlotsFrozen /\ CatalogFrozen

SlotsNext == part = "slots" /\ Next /\ UNCHANGED <<given, cvars, fvars>>
WalksNext == part = "catalog" /\ CatalogNext /\ UNCHANGED <<given, vars, fvars>>
HiringNext == part = "hiring" /\ FanoutNext /\ UNCHANGED <<given, vars, cvars>>
MCNext == SlotsNext \/ WalksNext \/ HiringNext

\* What each part is driven by: a search takes its steps, a page that was
\* asked for and a call in flight are answered.
Driven ==
  \/ SlotsNext
  \/ part = "catalog" /\ CatalogDriven /\ UNCHANGED <<given, vars, fvars>>
  \/ part = "hiring" /\ FanoutDriven /\ UNCHANGED <<given, vars, cvars>>

MCSpec == MCInit /\ [][MCNext]_mcvars /\ WF_mcvars(Driven)

-----------------------------------------------------------------------------
\* Every slot search, every fan-out and every call of the catalog comes to an end,
\* whatever calendars, agents and the registry do.
SearchesEnd ==
  /\ <>(part = "slots" => pc = "done")
  /\ []<>(part = "catalog" => NobodyWaits)
  /\ <>(part = "hiring" => Ended)
=============================================================================
