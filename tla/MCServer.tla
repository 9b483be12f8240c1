------------------------------ MODULE MCServer ------------------------------
(* Four parts of the server, side by side as in MCWeb: when a digest is due, *)
(* how it is cut into messages, the pictures of artists, and the cycles of a *)
(* poller.                                                                   *)
EXTENDS DigestCalendar, DigestChunks, ArtistArt, PollCycle

CONSTANTS x, y, e1, e2, e3, e4

VARIABLE part

\* Two of digestHeadings.
TwoHeadings == <<"new_release", "guest_feature">>

\* Four artists to poll, one without a deezer_id to skip; the three that are
\* dispatched are interchangeable.
FourArtists == {e1, e2, e3, e4}
NoDeezerId  == {e4}
Dispatched  == Permutations({e1, e2, e3})

serverVars == <<part, now, pending, artVars, vars>>

ServerInit ==
  /\ part \in {"calendar", "chunks", "art", "cycle"}
  /\ CalendarInit /\ ChunksInit /\ ArtInit /\ Init

\* Every part but p stays as it is.
Only(p) ==
  /\ part = p /\ UNCHANGED part
  /\ p # "calendar" => UNCHANGED now
  /\ p # "chunks"   => UNCHANGED pending
  /\ p # "art"      => UNCHANGED artVars
  /\ p # "cycle"    => UNCHANGED vars

ServerNext ==
  \/ Only("calendar") /\ CalendarNext
  \/ Only("chunks") /\ ChunksNext
  \/ Only("art") /\ ArtNext
  \/ Only("cycle") /\ Next

ServerSpec == ServerInit /\ [][ServerNext]_serverVars

(* The types of ArtistArt, and what it keeps.                                *)
ArtHolds == ArtTypeOK /\ ArtIsKept
=============================================================================
