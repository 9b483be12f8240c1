----------------------------- MODULE WebProofs -----------------------------
(* The parts of the web client side by side (MCWeb): each one moves as it   *)
(* does alone, and keeps what was proved of it.                             *)
EXTENDS WatchlistProofs, PageProofs, TagLinksProofs

LEMMA PagesOfWeb ==
  [WebNext]_webVars => /\ [VocabNext]_vocabVars
                       /\ [SearchNext]_searchVars
                       /\ [FeedNext]_feedVars
                       /\ [SystemNext]_systemVars
                       /\ [SessionNext]_sessionVars
                       /\ [LinksNext]_linksVars
  BY DEF WebNext, Only, webVars

(* Whatever part of the web client the user is on, its variables keep their *)
(* types and their bounds: requests, answers, drafts, pending flags and     *)
(* lists, and the tables behind them with unique tag names and no link to a *)
(* tag that is not there.                                                   *)
THEOREM WebTypesHold == WebSpec => []WebTypeOK
<1>1. WebInit => /\ VocabInit /\ SearchInit /\ FeedInit /\ SystemInit /\ SessionInit
                 /\ LinksInit
  BY DEF WebInit
<1>2. WebSpec => []VocabTypeOK
  BY <1>1, PagesOfWeb, VocabTypesHold, PTL DEF WebSpec
<1>3. WebSpec => []SearchTypeOK
  BY <1>1, PagesOfWeb, SearchTypesHold, PTL DEF WebSpec
<1>4. WebSpec => []FeedTypeOK
  BY <1>1, PagesOfWeb, FeedTypesHold, PTL DEF WebSpec
<1>5. WebSpec => []SystemTypeOK
  BY <1>1, PagesOfWeb, SystemTypesHold, PTL DEF WebSpec
<1>6. WebSpec => []SessionTypeOK
  BY <1>1, PagesOfWeb, SessionTypesHold, PTL DEF WebSpec
<1>7. WebSpec => []LinksTypeOK
  BY <1>1, PagesOfWeb, NamesStayUnique, PTL DEF WebSpec, LinksSpec
<1>8. /\ VocabTypeOK /\ RowsTypeOK /\ BulkTypeOK /\ FiltersTypeOK /\ SearchTypeOK
      /\ FeedTypeOK /\ SystemTypeOK /\ SessionTypeOK /\ LinksTypeOK
      => WebTypeOK
  BY DEF WebTypeOK
<1>. QED
  BY <1>2, <1>3, <1>4, <1>5, <1>6, <1>7, <1>8, BulkTypesHold, FiltersTypesHold,
     RowsTypesHold, PTL
=============================================================================
