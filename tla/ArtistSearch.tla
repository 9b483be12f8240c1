---------------------------- MODULE ArtistSearch ----------------------------
(* The artist search of the watchlist page (SearchBox.tsx): a request some  *)
(* time after the last keystroke, the one before it aborted.  An answer     *)
(* that was received before the abort still reaches its callback.           *)
EXTENDS WebClient

CONSTANTS
  Text,        \* what the user searches for; Null is an empty box
  MaxSearches  \* bound: requests

ASSUME SearchAssumption == Null \notin Text /\ MaxSearches \in Nat

VARIABLES
  box,        \* value, loading, and the text debounceRef's timer waits with
  searches,   \* requests, with their AbortController
  nSearches,
  results     \* searchResponse: the text it answers, or Null

searchVars == <<box, searches, nSearches, results>>

FreshBox == [value |-> Null, loading |-> FALSE, timer |-> Null]

SearchInit ==
  /\ box = FreshBox
  /\ searches = {} /\ nSearches = 0
  /\ results = Null

NeverAborted(r) == FALSE

Aborted(r) == r.aborted

AbortAll == {[r EXCEPT !.aborted = TRUE] : r \in searches}

\* A keystroke stops the timer and aborts the request; an empty box clears
\* the results.
HandleSearchChange(text) ==
  /\ text # box.value
  /\ searches' = AbortAll
  /\ IF text = Null
       THEN box' = FreshBox /\ results' = Null
       ELSE /\ box' = [box EXCEPT !.value = text, !.timer = text]
            /\ UNCHANGED results
  /\ UNCHANGED nSearches

RunSearch ==
  /\ box.timer # Null /\ nSearches < MaxSearches
  /\ box' = [box EXCEPT !.timer = Null, !.loading = TRUE]
  /\ searches' = AbortAll \union
       {[n |-> nSearches + 1, text |-> box.timer, aborted |-> FALSE, reply |-> "none"]}
  /\ nSearches' = nSearches + 1
  /\ UNCHANGED results

\* Each source may be down in an answer; the request fails as a whole too.
ServeSearch(r) ==
  /\ r.reply = "none"
  /\ \E reply \in {"ok", "failed"} :
       searches' = (searches \ {r}) \union {[r EXCEPT !.reply = reply]}
  /\ UNCHANGED <<box, nSearches, results>>

SearchAnswered(r) ==
  /\ r.reply # "none"
  /\ searches' = searches \ {r}
  /\ IF Aborted(r) THEN UNCHANGED <<box, results>>
     ELSE /\ results' = IF r.reply = "ok" THEN r.text ELSE Null
          /\ box' = [box EXCEPT !.loading = FALSE]
  /\ UNCHANGED nSearches

\* The page is left and opened again.
LeaveSearch ==
  /\ box' = FreshBox
  /\ searches' = AbortAll
  /\ results' = Null
  /\ UNCHANGED nSearches

SearchNext ==
  \/ \E text \in Text \union {Null} : HandleSearchChange(text)
  \/ RunSearch \/ LeaveSearch
  \/ \E r \in searches : ServeSearch(r) \/ SearchAnswered(r)

SearchSpec == SearchInit /\ [][SearchNext]_searchVars

-----------------------------------------------------------------------------
(* The kinds of value each variable holds (SearchBox.tsx).                   *)
SearchTypeOK ==
  /\ {box.value, box.timer, results} \subseteq Text \union {Null}
  /\ box.loading \in BOOLEAN /\ nSearches \in 0..MaxSearches
  /\ \A r \in searches : r.reply \in {"none", "ok", "failed"}

(* "a response for a now-stale query can never overwrite a newer query's     *)
(* results even if it happens to resolve out of order" (SearchBox.tsx:30):   *)
(* with nothing awaited the results are those of the text in the box, or a   *)
(* failure; an empty box has none; the spinner turns only while something is *)
(* awaited.                                                                  *)
SearchIsCurrent ==
  LET awaited == box.timer # Null \/ \E r \in searches : ~r.aborted
  IN  /\ ~awaited => results \in {box.value, Null}
      /\ box.value = Null => results = Null
      /\ box.loading => awaited
=============================================================================
