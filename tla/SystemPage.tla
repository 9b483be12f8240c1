----------------------------- MODULE SystemPage -----------------------------
(* The operator's page (routes/system.tsx) and its digest switch            *)
(* (DigestSettings.tsx): one fetch on mount, on Retry and on Refresh; every *)
(* change of a control is saved at once.                                    *)
(*                                                                          *)
(* What a fetch brings is the settings row it read; the status half of it   *)
(* is "there".  React renders a state some time after it was set: a second  *)
(* click may come before a button is seen to be disabled.                   *)
EXTENDS WebClient

CONSTANTS
  MaxFetches,  \* bound: fetches
  MaxSaves,    \* bound: saves
  MaxMounts    \* bound: times the page is opened

ASSUME SystemAssumption ==
  /\ MaxFetches \in Nat \ {0} /\ MaxSaves \in Nat /\ MaxMounts \in Nat \ {0}

VARIABLES
  settings,  \* the notification settings row
  mount,     \* which mount of the page this is
  mounted,
  screen,    \* the route's state, and refreshingRef
  card,      \* the digest card's state, and savingRef
  rendered,  \* what the controls show of refreshing and saving
  fetches,   \* the two GETs of a fetch, as one
  saves,     \* PUTs in flight
  nFetches, nSaves,
  late,      \* the answer on screen was overtaken: a save was served since it was read (history)
  missed     \* a save was served that this page gets no answer to (history)

systemVars == <<settings, mount, mounted, screen, card, rendered, fetches, saves,
                nFetches, nSaves, late, missed>>

historyOfCard == <<late, missed>>

Settings == [enabled : BOOLEAN, cadence : {"daily", "weekly"}]

FreshScreen == [data |-> FALSE, digest |-> Null, loading |-> TRUE, loadError |-> FALSE,
                refreshing |-> FALSE, refreshError |-> FALSE, refreshingRef |-> FALSE]

FreshCard == [pending |-> Null, saving |-> FALSE, savingRef |-> FALSE, status |-> "idle"]

NothingBusy == [refreshing |-> FALSE, saving |-> FALSE]

Fetching(kind) ==
  /\ fetches' = fetches \union
       {[n |-> nFetches + 1, kind |-> kind, mount |-> mount', answer |-> Null,
         behind |-> FALSE]}
  /\ nFetches' = nFetches + 1

SystemInit ==
  /\ settings = [enabled |-> FALSE, cadence |-> "daily"]
  /\ mount = 1 /\ mounted = TRUE
  /\ screen = FreshScreen /\ card = FreshCard /\ rendered = NothingBusy
  /\ fetches = {[n |-> 1, kind |-> "mount", mount |-> 1, answer |-> Null, behind |-> FALSE]}
  /\ saves = {}
  /\ nFetches = 1 /\ nSaves = 0
  /\ late = FALSE /\ missed = FALSE

\* What an answer that is taken says of the card: it is as old as the answer.
Took(behind) == late' = behind /\ missed' = (missed /\ behind)

CardShown == mounted /\ ~screen.loadError /\ screen.data /\ screen.digest # Null

Displayed == IF card.pending # Null THEN card.pending ELSE screen.digest

-----------------------------------------------------------------------------
(* Leaving and opening the page, by the tabs or because a 401 replaced it by *)
(* the passphrase screen.                                                    *)

LeavePage ==
  /\ mounted
  /\ mounted' = FALSE
  /\ UNCHANGED <<settings, mount, screen, card, rendered, fetches, saves, nFetches,
                 nSaves, historyOfCard>>

OpenPage ==
  /\ ~mounted /\ mount < MaxMounts /\ nFetches < MaxFetches
  /\ mounted' = TRUE /\ mount' = mount + 1
  /\ screen' = FreshScreen /\ card' = FreshCard /\ rendered' = NothingBusy
  /\ Fetching("mount")
  /\ late' = FALSE /\ missed' = FALSE
  /\ UNCHANGED <<settings, saves, nSaves>>

\* React commits the states of the buttons.
Render ==
  /\ mounted
  /\ rendered # [refreshing |-> screen.refreshing, saving |-> card.saving]
  /\ rendered' = [refreshing |-> screen.refreshing, saving |-> card.saving]
  /\ UNCHANGED <<settings, mount, mounted, screen, card, fetches, saves, nFetches,
                 nSaves, historyOfCard>>

-----------------------------------------------------------------------------
\* Runs the mount effect again.
RetryMount ==
  /\ mounted /\ screen.loadError /\ nFetches < MaxFetches
  /\ screen' = [screen EXCEPT !.loading = TRUE, !.loadError = FALSE, !.refreshError = FALSE]
  /\ UNCHANGED mount
  /\ Fetching("mount")
  /\ UNCHANGED <<settings, mounted, card, rendered, saves, nSaves, historyOfCard>>

RefreshUnguarded == TRUE

RefreshAllowed == ~screen.refreshingRef

HandleRefresh ==
  /\ mounted /\ ~screen.loadError
  /\ ~rendered.refreshing /\ (screen.loading => screen.data)
  /\ RefreshAllowed /\ nFetches < MaxFetches
  /\ screen' = [screen EXCEPT !.refreshingRef = TRUE, !.refreshing = TRUE,
                              !.refreshError = FALSE]
  /\ UNCHANGED mount
  /\ Fetching("refresh")
  /\ UNCHANGED <<settings, mounted, card, rendered, saves, nSaves, historyOfCard>>

ServeFetch(r) ==
  /\ r.answer = Null
  /\ fetches' = (fetches \ {r}) \union {[r EXCEPT !.answer = settings]}
  /\ UNCHANGED <<settings, mount, mounted, screen, card, rendered, saves, nFetches,
                 nSaves, historyOfCard>>

\* The page that sent the request is still the one on screen.
Alive(r) == mounted /\ r.mount = mount

\* What finally does, for the fetch's kind.
Finally(r, s) ==
  IF r.kind = "mount" THEN [s EXCEPT !.loading = FALSE]
  ELSE [s EXCEPT !.refreshing = FALSE, !.refreshingRef = FALSE]

\* The answer is taken whatever was saved since it was read.
FetchAnswered(r) ==
  /\ r.answer # Null
  /\ fetches' = fetches \ {r}
  /\ IF Alive(r)
       THEN /\ screen' = [Finally(r, screen) EXCEPT !.data = TRUE, !.digest = r.answer]
            /\ Took(r.behind)
       ELSE UNCHANGED <<screen, historyOfCard>>
  /\ UNCHANGED <<settings, mount, mounted, card, rendered, saves, nFetches, nSaves>>

\* A failed Refresh keeps what is shown.
FetchFailed(r) ==
  /\ fetches' = fetches \ {r}
  /\ screen' = IF ~Alive(r) THEN screen
               ELSE IF r.kind = "mount" THEN [Finally(r, screen) EXCEPT !.loadError = TRUE]
               ELSE [Finally(r, screen) EXCEPT !.refreshError = TRUE]
  /\ UNCHANGED <<settings, mount, mounted, card, rendered, saves, nFetches, nSaves, historyOfCard>>

\* Any 401 replaces the page that is open by the passphrase screen.
FetchUnauthorized(r) ==
  /\ r.answer = Null
  /\ fetches' = fetches \ {r}
  /\ screen' = IF Alive(r) THEN Finally(r, screen) ELSE screen
  /\ mounted' = FALSE
  /\ UNCHANGED <<settings, mount, card, rendered, saves, nFetches, nSaves, historyOfCard>>

-----------------------------------------------------------------------------
(* DigestSettings: every save sends both fields, the one that was changed    *)
(* and the other as displayed.                                               *)

SaveAllowed == ~card.savingRef

Save(next) ==
  /\ CardShown /\ ~rendered.saving
  /\ SaveAllowed /\ nSaves < MaxSaves
  /\ card' = [card EXCEPT !.savingRef = TRUE, !.saving = TRUE, !.pending = next]
  /\ saves' = saves \union {[n |-> nSaves + 1, mount |-> mount, next |-> next,
                             reply |-> "none", behind |-> FALSE]}
  /\ nSaves' = nSaves + 1
  /\ UNCHANGED <<settings, mount, mounted, screen, rendered, fetches, nFetches, historyOfCard>>

HandleDigestModeChange == Save([Displayed EXCEPT !.enabled = ~@])

HandleCadenceChange(c) ==
  /\ CardShown /\ Displayed.enabled /\ c # Displayed.cadence
  /\ Save([Displayed EXCEPT !.cadence = c])

\* What was read or saved before is behind from now on.  A save of a page that was
\* left may be served at any time, and the page that is open does not hear of it.
ServeSave(w) ==
  /\ w.reply = "none"
  /\ settings' = w.next
  /\ saves' = {[v EXCEPT !.behind = (v.reply = "done")] : v \in saves \ {w}}
                \union {[w EXCEPT !.reply = "done"]}
  /\ fetches' = {[r EXCEPT !.behind = (r.answer # Null)] : r \in fetches}
  /\ missed' = (missed \/ ~Alive(w))
  /\ UNCHANGED <<mount, mounted, screen, card, rendered, nFetches, nSaves, late>>

\* The overlay would stay over the value it was to become.
SaveKeepsOverlay == [card EXCEPT !.saving = FALSE, !.savingRef = FALSE]

SaveEnds == [card EXCEPT !.pending = Null, !.saving = FALSE, !.savingRef = FALSE]

SaveAnswered(w) ==
  /\ w.reply = "done"
  /\ saves' = saves \ {w}
  /\ IF Alive(w)
       THEN /\ screen' = [screen EXCEPT !.digest = w.next]
            /\ card' = [SaveEnds EXCEPT !.status = "saved"]
            /\ Took(w.behind)
       ELSE UNCHANGED <<screen, card, historyOfCard>>
  /\ UNCHANGED <<settings, mount, mounted, rendered, fetches, nFetches, nSaves>>

SaveFailed(w) ==
  /\ saves' = saves \ {w}
  /\ card' = IF Alive(w) THEN [SaveEnds EXCEPT !.status = "failed"] ELSE card
  /\ missed' = (missed \/ (Alive(w) /\ w.reply = "done"))
  /\ UNCHANGED <<settings, mount, mounted, screen, rendered, fetches, nFetches, nSaves, late>>

\* A 401 leaves the overlay: the page is about to be replaced.
SaveUnauthorized(w) ==
  /\ w.reply = "none"
  /\ saves' = saves \ {w}
  /\ card' = IF Alive(w) THEN SaveKeepsOverlay ELSE card
  /\ mounted' = FALSE
  /\ UNCHANGED <<settings, mount, screen, rendered, fetches, nFetches, nSaves, historyOfCard>>

\* "Saved." goes after two seconds.
StatusFades ==
  /\ CardShown /\ card.status = "saved" /\ ~card.savingRef
  /\ card' = [card EXCEPT !.status = "idle"]
  /\ UNCHANGED <<settings, mount, mounted, screen, rendered, fetches, saves, nFetches,
                 nSaves, historyOfCard>>

-----------------------------------------------------------------------------
SystemNext ==
  \/ LeavePage \/ OpenPage \/ Render \/ RetryMount \/ HandleRefresh \/ StatusFades
  \/ HandleDigestModeChange
  \/ \E c \in {"daily", "weekly"} : HandleCadenceChange(c)
  \/ \E r \in fetches : ServeFetch(r) \/ FetchAnswered(r) \/ FetchFailed(r)
                        \/ FetchUnauthorized(r)
  \/ \E w \in saves : ServeSave(w) \/ SaveAnswered(w) \/ SaveFailed(w) \/ SaveUnauthorized(w)

FetchProceeds == \E r \in fetches : ServeFetch(r) \/ FetchAnswered(r)
SaveProceeds  == \E w \in saves : ServeSave(w) \/ SaveAnswered(w)

SystemFairness ==
  /\ WF_systemVars(FetchProceeds) /\ WF_systemVars(SaveProceeds)
  /\ WF_systemVars(Render)

SystemSpec == SystemInit /\ [][SystemNext]_systemVars /\ SystemFairness

-----------------------------------------------------------------------------
(* The kinds of value each variable holds (system.tsx, DigestSettings.tsx).  *)
SystemTypeOK ==
  /\ settings \in Settings
  /\ mount \in 1..MaxMounts /\ nFetches \in 1..MaxFetches /\ nSaves \in 0..MaxSaves
  /\ screen.digest \in Settings \union {Null}
  /\ card.pending \in Settings \union {Null}
  /\ card.status \in {"idle", "saved", "failed"}
  /\ {mounted, late, missed, screen.data, screen.loading, screen.loadError, screen.refreshing,
      screen.refreshError, screen.refreshingRef, card.saving, card.savingRef} \subseteq BOOLEAN

(* A page has one fetch and one save in flight at most, even when a second   *)
(* click comes before the button is seen to be disabled (system.tsx:130,     *)
(* DigestSettings.tsx:45).                                                   *)
OneRequestAtATime ==
  /\ Cardinality({r \in fetches : Alive(r)}) <= 1
  /\ Cardinality({w \in saves : Alive(w)}) <= 1

(* With no save in flight the switch shows the settings row, also while a    *)
(* fetch is: a failed save falls back to the row (system.tsx:275, onSaved).  *)
(* It may show an old value for one of two reasons, and until a current      *)
(* answer is taken: a fetch whose answer was overtaken by a save, read       *)
(* before it and taken after it (system.tsx:190), or a save the page got no  *)
(* answer to, lost or of an earlier page.                                    *)
SwitchIsCurrent ==
  CardShown /\ ~late /\ ~missed /\ saves = {} => Displayed = settings

(* 20-UI-SPEC.md:218, of Refresh: it "also re-fetches digest settings        *)
(* alongside status, via the same Promise.all, so the card's values can      *)
(* never silently drift stale relative to the rest of the page".             *)
CardNeverDriftsStale ==
  CardShown /\ ~missed /\ saves = {} /\ fetches = {} => Displayed = settings

(* A page that stays open does not stay busy: its loading, Refresh and       *)
(* switch are given back after every answer, failure and 401.                *)
PageSettles ==
  /\ screen.loading ~> ~(mounted /\ screen.loading)
  /\ screen.refreshing ~> ~(mounted /\ screen.refreshing)
  /\ card.saving ~> ~(mounted /\ card.saving)
=============================================================================
