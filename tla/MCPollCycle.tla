----------------------------- MODULE MCPollCycle -----------------------------
(* Instances of PollCycle: three artists, one without a deezer_id.          *)
EXTENDS PollCycle

CONSTANTS a, b, d

ThreeArtists == {a, b, d}
NoDeezerId   == {d}
=============================================================================
