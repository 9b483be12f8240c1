------------------------------- MODULE MCWeb -------------------------------
(* The parts of the web client, and the tag statements behind its requests, *)
(* side by side.  They share no state: a behaviour exercises one of them,   *)
(* the part, and the others stay as they are when the page is opened.       *)
EXTENDS TagVocabulary, WatchlistRows, BulkSelection, WatchlistFilters,
        ArtistSearch, HistoryFeed, SystemPage, Session, MCTagLinks

CONSTANTS t1, t2, t3, x, y, chip, stale, album

VARIABLE part

\* Two tags at first, and one id and one name to spare.
TwoTags == [id \in {t1, t2} |-> IF id = t1 THEN a ELSE b]

\* Two rows; the tag is on the first, and so is the type.
HaveTheFirst == [type \in {album} |-> {1}]

\* Dated and undated releases, the last one found being the newest.
Dates == <<7, Null, Null, 9>>

\* The first release is of one kind, the others of another.
KindsOfEvents == <<a, b, b, b>>

webVars == <<part, vocabVars, rowsVars, bulkVars, filtersVars, searchVars,
             feedVars, systemVars, sessionVars, linksVars>>

Parts == {"vocabulary", "rows", "bulk", "filters", "search", "feed", "system", "session",
          "links"}

WebInit ==
  /\ part \in Parts
  /\ VocabInit /\ RowsInit /\ BulkInit /\ FiltersInit
  /\ SearchInit /\ FeedInit /\ SystemInit /\ SessionInit
  /\ LinksInit
  /\ part # "session" => gated

\* Every part but p stays as it is.
Only(p) ==
  /\ part = p /\ UNCHANGED part
  /\ p # "vocabulary" => UNCHANGED vocabVars
  /\ p # "rows"       => UNCHANGED rowsVars
  /\ p # "bulk"       => UNCHANGED bulkVars
  /\ p # "filters"    => UNCHANGED filtersVars
  /\ p # "search"     => UNCHANGED searchVars
  /\ p # "feed"       => UNCHANGED feedVars
  /\ p # "system"     => UNCHANGED systemVars
  /\ p # "session"    => UNCHANGED sessionVars
  /\ p # "links"      => UNCHANGED linksVars

WebNext ==
  \/ Only("vocabulary") /\ VocabNext
  \/ Only("rows") /\ RowsNext
  \/ Only("bulk") /\ BulkNext
  \/ Only("filters") /\ FiltersNext
  \/ Only("search") /\ SearchNext
  \/ Only("feed") /\ FeedNext
  \/ Only("system") /\ SystemNext
  \/ Only("session") /\ SessionNext
  \/ Only("links") /\ LinksNext

WebSpec == WebInit /\ [][WebNext]_webVars

(* The type invariant of the part that moves.                                *)
WebTypeOK ==
  /\ part = "vocabulary" => VocabTypeOK
  /\ part = "rows"       => RowsTypeOK
  /\ part = "bulk"       => BulkTypeOK
  /\ part = "filters"    => FiltersTypeOK
  /\ part = "search"     => SearchTypeOK
  /\ part = "feed"       => FeedTypeOK
  /\ part = "system"     => SystemTypeOK
  /\ part = "session"    => SessionTypeOK
  /\ part = "links"      => LinksTypeOK

(* A control that is disabled waits for a request: no answer, failure or     *)
(* unmount leaves a row's control, an Add button or the bulk lock behind.    *)
ControlsAreAwaited == DisabledIsAwaited /\ OneBulkAtATime
=============================================================================
