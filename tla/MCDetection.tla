----------------------------- MODULE MCDetection -----------------------------
(* Finite instances of Detection.                                          *)
EXTENDS Detection

CONSTANTS f1, f2, g1, g2, s1, s2, std, dlx, nobody

OneAlbum    == {g1}
TwoAlbums   == {g1, g2}
TwoSongs    == {s1, s2}
OneEdition  == {std}
TwoEditions == {std, dlx}
None        == {}

\* Two artists share an album; one of them appears on two songs, the second of
\* which is old, and may have new releases muted.
Artists     == {f1, f2}
Joint       == [f \in Artists |-> {g1}]
Solo        == [f \in Artists |-> IF f = f1 THEN {s1, s2} ELSE {}]
OldSong     == {s2}
MuteOrNot   == [f \in Artists |->
  IF f = f1 THEN {Kinds, Kinds \ {"new_release"}} ELSE {Kinds \ {"guest_feature"}}]

\* One artist with two albums, one of a filtered type, and two songs.
OneArtist   == {f1}
TwoReleases == [f \in OneArtist |-> {g1, g2}]
TwoGuests   == [f \in OneArtist |-> {s1, s2}]
SecondAlbum == {g2}
All         == [f \in OneArtist |-> {Kinds}]

\* Two artists who appear on the same song, one of them on another too.
NoReleases  == [f \in Artists |-> {}]
JointSong   == [f \in Artists |-> IF f = f1 THEN {s1, s2} ELSE {s1}]
AllOfBoth   == [f \in Artists |-> {Kinds}]
=============================================================================
