------------------------------ MODULE ArtistArt ------------------------------
(* The pictures of artists: watchlist.Service.Add looks one up and writes    *)
(* its two rows without a transaction; artistart.Backfill, once per process, *)
(* looks up those that are missing, and yields to the adds.  A step is one   *)
(* statement or one lookup upstream.  Which picture it is, and names, are    *)
(* left out.                                                                 *)
EXTENDS FiniteSets, Integers

CONSTANTS
  Mbid,      \* artists
  NoRow,
  Listed,    \* the artists watched at first, none of them with a picture
  MaxPolls,  \* backfillActivityMaxWait, in intervals of the ticker
  MaxAdds, MaxBoots  \* bounds: adds and processes

ASSUME ArtAssumption ==
  /\ NoRow \notin Mbid \union [picture : BOOLEAN, tried : BOOLEAN]
  /\ Listed \subseteq Mbid
  /\ {MaxPolls, MaxAdds} \subseteq Nat /\ MaxBoots \in Nat \ {0}

VARIABLES
  artists,  \* the rows of artists: a picture, and the cooldown
  watched,  \* the artists that have a row in watchlist
  adds,     \* requests under way, by number, with their locals
  gate,     \* ActivityGate's count
  sweep,    \* Backfill: where it is, what it has still to visit and in hand
  missed,   \* history: artists whose last lookup by a sweep found a picture
            \* that no statement has stored
  pictured, \* history: artists that have had a picture
  nAdds, nBoots

tables  == <<artists, watched>>
artVars == <<tables, adds, gate, sweep, missed, pictured, nAdds, nBoots>>

Sweeping(at, todo, hand) ==
  [at |-> at, todo |-> todo, hand |-> hand, found |-> FALSE, polls |-> 0]
NoSweep == Sweeping("off", {}, NoRow)
Boot    == Sweeping("list", {}, NoRow)

ArtInit ==
  /\ artists = [a \in Mbid |-> IF a \in Listed
                  THEN [picture |-> FALSE, tried |-> FALSE] ELSE NoRow]
  /\ watched = Listed
  /\ adds = << >> /\ gate = 0 /\ sweep = Boot
  /\ missed = {} /\ pictured = {} /\ nAdds = 0 /\ nBoots = 1

Pictured(a) == artists[a] # NoRow /\ artists[a].picture
Tried(a)    == artists[a] # NoRow /\ artists[a].tried

\* Without COALESCE.
TakesExcluded(new, old) == new

\* COALESCE(EXCLUDED.image_url, artists.image_url)
Coalesce(new, old) == new \/ old

\* UpsertArtist.
Upserts(a, picture) ==
  /\ artists' = [artists EXCEPT ![a] =
       [picture |-> Coalesce(picture, Pictured(a)), tried |-> Tried(a)]]
  /\ pictured' = IF picture THEN pictured \union {a} ELSE pictured

-----------------------------------------------------------------------------
(* Service.Add.                                                              *)

Ends(r) == adds' = [q \in DOMAIN adds \ {r} |-> adds[q]]

\* A request without a picture registers on the gate for its lookup.
AddBegins ==
  /\ nAdds < MaxAdds /\ nAdds' = nAdds + 1
  /\ \E a \in Mbid, picture \in BOOLEAN :
       /\ adds' = [q \in DOMAIN adds \union {nAdds'} |-> IF q = nAdds'
            THEN [artist |-> a, picture |-> picture,
                  at |-> IF picture THEN "upsert" ELSE "match"]
            ELSE adds[q]]
       /\ gate' = IF picture THEN gate ELSE gate + 1
  /\ UNCHANGED <<tables, sweep, missed, pictured, nBoots>>

\* Without a picture: no match, an error, or the timeout.
AddMatched(r) ==
  /\ adds[r].at = "match"
  /\ \E picture \in BOOLEAN :
       adds' = [adds EXCEPT ![r].at = "upsert", ![r].picture = picture]
  /\ gate' = gate - 1
  /\ UNCHANGED <<tables, sweep, missed, pictured, nAdds, nBoots>>

\* Match panics: end() is deferred, net/http recovers, the request is over.
AddPanics(r) ==
  /\ adds[r].at = "match"
  /\ Ends(r) /\ gate' = gate - 1
  /\ UNCHANGED <<tables, sweep, missed, pictured, nAdds, nBoots>>

AddUpserts(r) ==
  /\ adds[r].at = "upsert"
  /\ Upserts(adds[r].artist, adds[r].picture)
  /\ adds' = [adds EXCEPT ![r].at = "create"]
  /\ UNCHANGED <<watched, gate, sweep, missed, nAdds, nBoots>>

\* CreateWatchlistEntry, or ErrDuplicate; the read that follows changes nothing.
AddCreates(r) ==
  /\ adds[r].at = "create"
  /\ watched' = watched \union {adds[r].artist}
  /\ Ends(r)
  /\ UNCHANGED <<artists, gate, sweep, missed, pictured, nAdds, nBoots>>

\* A statement fails: the row of artists may be there without the other.
AddFails(r) ==
  /\ adds[r].at \in {"upsert", "create"} /\ Ends(r)
  /\ UNCHANGED <<tables, gate, sweep, missed, pictured, nAdds, nBoots>>

\* DeleteWatchlistEntry leaves the row of artists.
Removes(a) ==
  /\ a \in watched /\ watched' = watched \ {a}
  /\ UNCHANGED <<artists, adds, gate, sweep, missed, pictured, nAdds, nBoots>>

-----------------------------------------------------------------------------
(* Backfill.                                                                 *)

\* ListArtistsMissingImage.
Missing == {a \in watched : ~Pictured(a) /\ ~Tried(a)}

\* A query that fails ends the sweep.
SweepLists ==
  /\ sweep.at = "list"
  /\ sweep' \in {Sweeping("next", Missing, NoRow), NoSweep}
  /\ UNCHANGED <<tables, adds, gate, missed, pictured, nAdds, nBoots>>

SweepNext ==
  /\ sweep.at = "next"
  /\ \/ sweep.todo = {} /\ sweep' = NoSweep
     \/ \E a \in sweep.todo : sweep' = Sweeping("wait", sweep.todo \ {a}, a)
  /\ UNCHANGED <<tables, adds, gate, missed, pictured, nAdds, nBoots>>

\* waitForActivityGate: a look at the gate, and at most MaxPolls more.
SweepWaits ==
  /\ sweep.at = "wait"
  /\ sweep' = IF gate = 0 \/ sweep.polls = MaxPolls
                THEN [sweep EXCEPT !.at = "match", !.polls = 0]
                ELSE [sweep EXCEPT !.polls = @ + 1]
  /\ UNCHANGED <<tables, adds, gate, missed, pictured, nAdds, nBoots>>

SweepMovesOn == sweep' = Sweeping("next", sweep.todo, NoRow)

\* An error, of which nothing is recorded; no match; a match, with a picture or
\* with a Deezer id alone.
SweepMatches ==
  /\ sweep.at = "match"
  /\ \/ SweepMovesOn /\ UNCHANGED missed
     \/ /\ sweep' = [sweep EXCEPT !.at = "record"]
        /\ missed' = missed \ {sweep.hand}
     \/ \E found \in BOOLEAN :
          /\ sweep' = [sweep EXCEPT !.at = "upsert", !.found = found]
          /\ missed' = (missed \ {sweep.hand}) \union IF found THEN {sweep.hand} ELSE {}
  /\ UNCHANGED <<tables, adds, gate, pictured, nAdds, nBoots>>

SweepUpserts ==
  /\ sweep.at = "upsert"
  /\ Upserts(sweep.hand, sweep.found)
  /\ sweep' = [sweep EXCEPT !.at = "record"]
  /\ missed' = missed \ {sweep.hand}
  /\ UNCHANGED <<watched, adds, gate, nAdds, nBoots>>

\* The write did not land, and no attempt is recorded.
SweepUpsertFails ==
  /\ sweep.at = "upsert" /\ SweepMovesOn
  /\ UNCHANGED <<tables, adds, gate, missed, pictured, nAdds, nBoots>>

\* RecordArtMatchAttempt, or its failure.
SweepRecords ==
  /\ sweep.at = "record"
  /\ artists' \in {artists, [artists EXCEPT ![sweep.hand].tried = TRUE]}
  /\ SweepMovesOn
  /\ UNCHANGED <<watched, adds, gate, missed, pictured, nAdds, nBoots>>

-----------------------------------------------------------------------------
\* A day later.
CooldownEnds(a) ==
  /\ Tried(a)
  /\ artists' = [artists EXCEPT ![a].tried = FALSE]
  /\ UNCHANGED <<watched, adds, gate, sweep, missed, pictured, nAdds, nBoots>>

\* A shutdown or a crash anywhere, and a process with a sweep of its own.
ProcessRestarts ==
  /\ nBoots < MaxBoots /\ nBoots' = nBoots + 1
  /\ adds' = << >> /\ gate' = 0 /\ sweep' = Boot
  /\ UNCHANGED <<tables, missed, pictured, nAdds>>

SweepStep ==
  \/ SweepLists \/ SweepNext \/ SweepWaits \/ SweepMatches
  \/ SweepUpserts \/ SweepUpsertFails \/ SweepRecords

ArtNext ==
  \/ AddBegins
  \/ \E r \in DOMAIN adds :
       AddMatched(r) \/ AddPanics(r) \/ AddUpserts(r) \/ AddCreates(r) \/ AddFails(r)
  \/ \E a \in Mbid : Removes(a) \/ CooldownEnds(a)
  \/ SweepStep \/ ProcessRestarts

ArtSpec == ArtInit /\ [][ArtNext]_artVars

-----------------------------------------------------------------------------
(* The types of the variables.                                               *)
ArtTypeOK ==
  /\ artists \in [Mbid -> {NoRow} \union [picture : BOOLEAN, tried : BOOLEAN]]
  /\ UNION {watched, missed, pictured} \subseteq Mbid
  /\ DOMAIN adds \subseteq 1..MaxAdds /\ nBoots \in 1..MaxBoots
  /\ sweep.at \in {"off", "list", "next", "wait", "match", "upsert", "record"}
  /\ sweep.todo \subseteq Mbid /\ sweep.polls \in 0..MaxPolls

(* No picture is lost: an artist with one keeps one, whatever an add, or a   *)
(* sweep that listed the artist before, leaves out; one that a sweep found   *)
(* and did not store is not on the cooldown of a day, so that the next sweep *)
(* looks again, through failures and restarts between its statements (the    *)
(* comment at the failed write, backfill.go:197; EveryVisitIsRecorded is     *)
(* what other comments say of this case).  The gate that sweeps yield to is  *)
(* up exactly while an add is at its lookup (D-10), also after one that      *)
(* panicked (WR-03).  An entry has its artist.                               *)
ArtIsKept ==
  /\ \A a \in pictured : Pictured(a)
  /\ \A a \in missed : Pictured(a) \/ ~Tried(a)
  /\ gate = Cardinality({r \in DOMAIN adds : adds[r].at = "match"})
  /\ \A a \in watched : artists[a] # NoRow

(* What artists.sql:47 says of RecordArtMatchAttempt, and the comment on     *)
(* Store in backfill.go:36: an attempt is recorded for every artist a sweep  *)
(* visits, matched, unmatched or errored, before it goes on to the next.     *)
(* Backfill goes on without one after a lookup or a write that failed.       *)
EveryVisitIsRecorded ==
  [][sweep.hand # NoRow /\ sweep'.at = "next" => sweep.at = "record"]_artVars
=============================================================================
